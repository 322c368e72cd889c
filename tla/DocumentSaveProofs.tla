------------------------- MODULE DocumentSaveProofs -------------------------
(***************************************************************************)
(* What a window that reads Saved shows, what a save may replace, how many *)
(* rows a page creates, what a page may leave without, and what can be     *)
(* recovered: for any windows and rows, any kind of document and any       *)
(* bounds.  The inductive invariant says what every window knows of its    *)
(* row and of the request it has on its way.  The last part is about       *)
(* RecordEditing: the editors beside the Nutrition tab of the same recipe. *)
(***************************************************************************)
EXTENDS RecordEditing, TLAPS

\* What the window's baseline stands for.
Knows(x) ==
    /\ x.url # 0 => rows[x.url] # <<>>
    /\ x.id # 0 => /\ x.version < Len(rows[x.id])
                   /\ kind # "form" /\ ~x.behind =>
                         rows[x.id][x.version + 1] = x.base

\* What a request that landed left in its row.
LeftIn(q) ==
    /\ q.row # 0
    /\ q.at < Len(rows[q.row])
    /\ rows[q.row][q.at + 1] = Stored(q.form)
    /\ q.id # 0 => q.row = q.id

\* The request on its way, of a page that created c rows.
Pending(x, c) ==
    x.req # None =>
        /\ x.page # "closed"
        /\ x.req.stage = "landed" => LeftIn(x.req)
        /\ kind # "menu" => x.req.id = x.id
        /\ x.req.id # 0 /\ (kind # "menu" \/ c <= 1) =>
              /\ x.req.id = x.id
              /\ kind # "form" => x.req.seen = x.version
        /\ x.req.id = 0 /\ x.id # 0 => c >= 1
        /\ x.req.id = 0 /\ x.req.stage = "landed" => c >= 1
        /\ x.req.id = 0 /\ x.id # 0 /\ x.req.stage = "landed" => c >= 2

\* The rows a page has created.
OneRow(x, c) ==
    kind # "menu" /\ faults = 0 =>
        \/ c = 0
        \/ /\ c = 1
           /\ \/ x.page = "closed"
              \/ x.id # 0
              \/ x.req # None /\ x.req.stage = "landed"

Sound(w) ==
    Knows(win[w]) /\ Pending(win[w], created[w]) /\ OneRow(win[w], created[w])

IInv == TypeOK /\ \A w \in Windows : Sound(w)

-----------------------------------------------------------------------------
(* What the helpers of the loop return.                                    *)

\* y is the page x, with what it knows of its row.
SamePage(x, y) ==
    /\ y.page = x.page /\ y.id = x.id /\ y.version = x.version
    /\ y.base = x.base /\ y.behind = x.behind /\ y.url = x.url

\* A request just sent for a record id at the version of page x.
JustSent(x, id, q) ==
    q \in Request /\ q.stage = "sent" /\ q.id = id /\ q.seen = x.version

LEMMA Constants ==
  /\ Rows \subseteq Nat /\ 0 \notin Rows
  BY DocumentAssumption DEF DocumentAssumption

LEMMA FormTypes ==
  /\ Blank \in Form
  /\ \A k : Fresh(k) \in Form
  /\ \A f \in Form : Stored(f) \in Form /\ (f.shape # "half" => Stored(f) = f)
  BY DEF Form, Blank, Fresh, Stored

LEMMA ClosedType ==
  /\ Closed \in Editor /\ Closed.page = "closed" /\ Closed.id = 0
  /\ Closed.url = 0 /\ Closed.req = None /\ Closed.leave = "no"
  BY FormTypes, Constants DEF Closed, Editor

LEMMA EndedKeeps ==
  ASSUME NEW x \in Editor, NEW ok \in BOOLEAN
  PROVE  /\ Ended(x, ok) \in Editor
         /\ \/ Ended(x, ok) = Closed /\ ok
            \/ SamePage(x, Ended(x, ok)) /\ Ended(x, ok).req = x.req
  BY ClosedType DEF Ended, Editor, SamePage

LEMMA EndedStays ==
  ASSUME NEW x \in Editor
  PROVE  /\ Ended(x, FALSE) \in Editor
         /\ SamePage(x, Ended(x, FALSE)) /\ Ended(x, FALSE).req = x.req
  BY ClosedType DEF Ended, Editor, SamePage

LEMMA SentKeeps ==
  ASSUME NEW x \in Editor, NEW id \in Rows \cup {0}, NEW leaving \in BOOLEAN
  PROVE  /\ Sent(x, id, leaving) \in Editor
         /\ SamePage(x, Sent(x, id, leaving))
         /\ \/ Sent(x, id, leaving).req = None
            \/ JustSent(x, id, Sent(x, id, leaving).req)
<1>1. CASE x.form.shape = "invalid"
  <2> DEFINE y == [x EXCEPT !.req = None, !.queued = FALSE,
                            !.pill = IF Drafting THEN "saved" ELSE @]
  <2>1. y \in Editor /\ SamePage(x, y) /\ y.req = None
    BY ZenonT(60) DEF Editor, SamePage
  <2>2. Sent(x, id, leaving) = Ended(y, FALSE)
    BY <1>1 DEF Sent
  <2> HIDE DEF y
  <2>3. /\ Ended(y, FALSE) \in Editor
        /\ SamePage(y, Ended(y, FALSE)) /\ Ended(y, FALSE).req = None
    BY <2>1, EndedStays
  <2>4. SamePage(x, Ended(y, FALSE))
    BY <2>1, <2>3 DEF SamePage
  <2> QED
    BY <2>2, <2>3, <2>4
<1>2. CASE x.form.shape # "invalid"
  <2> DEFINE q == [id |-> id, seen |-> x.version, form |-> x.form,
                   leaving |-> leaving, recovered |-> x.recovered,
                   stage |-> "sent", row |-> 0, at |-> 0]
  <2>1. q \in Request /\ JustSent(x, id, q)
    BY DEF Editor, Request, JustSent
  <2>2. Sent(x, id, leaving) =
          [x EXCEPT !.pill = "saving", !.queued = FALSE, !.req = q]
    BY <1>2 DEF Sent
  <2> HIDE DEF q
  <2> QED
    BY ZenonT(60), <2>1, <2>2 DEF Editor, SamePage
<1> QED
  BY <1>1, <1>2

LEMMA SaveAskedKeeps ==
  ASSUME NEW x \in Editor, NEW leaving \in BOOLEAN
  PROVE  /\ SaveAsked(x, leaving) \in Editor
         /\ SamePage(x, SaveAsked(x, leaving))
         /\ \/ SaveAsked(x, leaving).req = x.req
            \/ /\ x.req = None
               /\ JustSent(x, x.id, SaveAsked(x, leaving).req)
<1>1. CASE Drafting /\ x.pill = "conflict"
  <2>1. SaveAsked(x, leaving) = Ended(x, FALSE)
    BY <1>1 DEF SaveAsked
  <2> QED
    BY <2>1, EndedStays
<1>2. CASE Drafting /\ x.pill # "conflict" /\ Running(x)
  <2>1. SaveAsked(x, leaving) = [x EXCEPT !.queued = @ \/ OutranRequest(x)]
    BY <1>2 DEF SaveAsked
  <2>2. OutranRequest(x) \in BOOLEAN
    BY DEF OutranRequest
  <2> HIDE DEF OutranRequest
  <2> QED
    BY <2>1, <2>2 DEF Editor, SamePage
<1>3. CASE ~Drafting /\ (Running(x) \/ (x.id # 0 /\ ~Dirty(x)))
  <2>1. SaveAsked(x, leaving) = x
    BY <1>3 DEF SaveAsked
  <2> QED
    BY <2>1 DEF SamePage
<1>4. CASE /\ ~(Drafting /\ x.pill = "conflict")
           /\ ~(Drafting /\ x.pill # "conflict" /\ Running(x))
           /\ ~(~Drafting /\ (Running(x) \/ (x.id # 0 /\ ~Dirty(x))))
  <2>1. SaveAsked(x, leaving) = Sent(x, x.id, leaving) /\ ~Running(x)
    BY <1>4 DEF SaveAsked
  <2>2. x.id \in Rows \cup {0}
    BY DEF Editor
  <2> QED
    BY <2>1, <2>2, SentKeeps DEF Running
<1> QED
  BY <1>1, <1>2, <1>3, <1>4

LEMMA DrainedKeeps ==
  ASSUME NEW x \in Editor, NEW ok \in BOOLEAN, NEW id \in Rows \cup {0}
  PROVE  /\ Drained(x, ok, id) \in Editor
         /\ \/ Drained(x, ok, id) = Closed /\ ok
            \/ /\ SamePage(x, Drained(x, ok, id))
               /\ \/ Drained(x, ok, id).req = None
                  \/ JustSent(x, id, Drained(x, ok, id).req)
<1>1. CASE x.queued
  <2>1. Drained(x, ok, id) = Sent(x, id, x.leave = "saving")
    BY <1>1 DEF Drained
  <2> QED
    BY <2>1, SentKeeps
<1>2. CASE ~x.queued
  <2> DEFINE y == [x EXCEPT !.req = None]
  <2>1. Drained(x, ok, id) = Ended(y, ok)
    BY <1>2 DEF Drained
  <2>2. y \in Editor /\ SamePage(x, y) /\ y.req = None
    BY DEF Editor, SamePage
  <2> HIDE DEF y
  <2> QED
    BY <2>1, <2>2, EndedKeeps DEF SamePage
<1> QED
  BY <1>1, <1>2

\* Swapping the address in changes nothing else.
LEMMA AddressedKeeps ==
  ASSUME NEW x \in Editor
  PROVE  /\ Addressed(x) \in Editor
         /\ Addressed(x).page = x.page /\ Addressed(x).id = x.id
         /\ Addressed(x).version = x.version /\ Addressed(x).base = x.base
         /\ Addressed(x).behind = x.behind /\ Addressed(x).req = x.req
         /\ \/ Addressed(x).url = x.url
            \/ x.id # 0 /\ Addressed(x).url = x.id
  BY DEF Addressed, Editor

-----------------------------------------------------------------------------
(* Types of the browser's copies and of the pages that load.               *)

LEMMA SlotType ==
  ASSUME NEW w \in Windows, NEW x \in Editor PROVE Slot(w, x) \in Slots
  BY DEF Slot, Slots, Editor

LEMMA CopiesType ==
  ASSUME TypeOK, NEW w \in Windows, NEW before \in Slots, NEW y \in Editor,
         NEW copies \in Copies(w, before, y)
  PROVE  copies \in [Slots -> Form \cup {None}]
<1> DEFINE slot == Slot(w, y)
           moved == IF before = slot THEN draft
                    ELSE [draft EXCEPT ![before] = None]
<1>1. draft \in [Slots -> Form \cup {None}] /\ slot \in Slots
  BY SlotType DEF TypeOK
<1>2. moved \in [Slots -> Form \cup {None}]
  BY <1>1
<1>3. y.form \in Form
  BY DEF Editor
<1>4. copies \in {draft} \cup {moved} \cup {[moved EXCEPT ![slot] = y.form]}
                   \cup {[moved EXCEPT ![slot] = None]}
  BY DEF Copies, DirtyCopies
<1> HIDE DEF moved, slot
<1>5. /\ [moved EXCEPT ![slot] = y.form] \in [Slots -> Form \cup {None}]
      /\ [moved EXCEPT ![slot] = None] \in [Slots -> Form \cup {None}]
  BY <1>1, <1>2, <1>3
<1> QED
  BY <1>1, <1>2, <1>4, <1>5

\* What a row holds is a form, and its version a number.
LEMMA HeldType ==
  ASSUME TypeOK, NEW r \in Rows, rows[r] # <<>>
  PROVE  /\ Held(r) \in Form /\ Version(r) \in Nat
         /\ Version(r) < Len(rows[r]) /\ Held(r) = rows[r][Version(r) + 1]
  BY DEF TypeOK, Held, Version

LEMMA LoadedType ==
  ASSUME TypeOK, NEW w \in Windows, NEW r \in Rows \cup {0},
         r # 0 => rows[r] # <<>>
  PROVE  /\ Loaded(w, r) \in Editor
         /\ Loaded(w, r).page = "open" /\ Loaded(w, r).req = None
         /\ Loaded(w, r).id = r /\ Loaded(w, r).url = r
         /\ ~Loaded(w, r).behind
         /\ r # 0 => Loaded(w, r).base = Held(r) /\ Loaded(w, r).version = Version(r)
<1> DEFINE held == IF r = 0 THEN Fresh(kind) ELSE Held(r)
           version == IF r = 0 THEN 0 ELSE Version(r)
           copy == draft[IF r = 0 THEN w ELSE r]
           offer == IF Drafting /\ copy # held THEN copy ELSE None
<1>1. held \in Form /\ version \in Nat
  BY HeldType, FormTypes
<1>2. offer \in Form \cup {None}
  BY DEF TypeOK, Slots
<1>3. Loaded(w, r) =
        [Closed EXCEPT !.page = "open", !.id = r, !.url = r, !.form = held,
                       !.base = held, !.version = version, !.offered = offer]
  BY DEF Loaded
<1>4. r # 0 => held = Held(r) /\ version = Version(r)
  OBVIOUS
<1> HIDE DEF held, version, offer
<1>5. Loaded(w, r) \in Editor
  BY ZenonT(60), <1>1, <1>2, <1>3, ClosedType DEF Editor
<1>6. /\ Loaded(w, r).page = "open" /\ Loaded(w, r).req = None
      /\ Loaded(w, r).id = r /\ Loaded(w, r).url = r
      /\ ~Loaded(w, r).behind
      /\ Loaded(w, r).base = held /\ Loaded(w, r).version = version
  BY <1>3 DEF Closed
<1> QED
  BY <1>4, <1>5, <1>6

-----------------------------------------------------------------------------
(* Rows only grow.                                                         *)

Grown == \A r \in Rows :
           /\ Len(rows[r]) <= Len(rows'[r])
           /\ \A i \in 1 .. Len(rows[r]) : rows'[r][i] = rows[r][i]

LEMMA PutGrows ==
  ASSUME TypeOK, NEW r \in Rows, NEW form \in Form, Put(r, form)
  PROVE  /\ rows' \in [Rows -> Seq(Form)]
         /\ Grown
         /\ rows'[r] # <<>> /\ Len(rows'[r]) = Len(rows[r]) + 1
         /\ rows'[r][Len(rows[r]) + 1] = Stored(form)
<1>1. rows \in [Rows -> Seq(Form)] /\ Stored(form) \in Form
  BY FormTypes DEF TypeOK
<1>2. rows' = [rows EXCEPT ![r] = Append(@, Stored(form))]
  BY DEF Put
<1>3. rows'[r] = Append(rows[r], Stored(form)) /\ rows[r] \in Seq(Form)
  BY <1>1, <1>2
<1>4. rows' \in [Rows -> Seq(Form)]
  BY <1>1, <1>2, <1>3
<1>5. ASSUME NEW s \in Rows
      PROVE  /\ Len(rows[s]) <= Len(rows'[s])
             /\ \A i \in 1 .. Len(rows[s]) : rows'[s][i] = rows[s][i]
  <2>1. CASE s = r
    BY <1>1, <1>3, <2>1
  <2>2. CASE s # r
    <3>1. rows'[s] = rows[s] /\ rows[s] \in Seq(Form)
      BY <1>1, <1>2, <2>2
    <3> QED
      BY <3>1
  <2> QED
    BY <2>1, <2>2
<1> QED
  BY <1>1, <1>3, <1>4, <1>5 DEF Grown

LEMMA StillGrown == ASSUME TypeOK, UNCHANGED rows PROVE Grown
  BY DEF Grown, TypeOK

\* What is known of a row stays true as the rows grow.
LEMMA KnowledgeLasts ==
  ASSUME TypeOK, rows' \in [Rows -> Seq(Form)], Grown, UNCHANGED kind,
         NEW x \in Editor, NEW c \in Nat
  PROVE  /\ Knows(x) => Knows(x)'
         /\ Pending(x, c) => Pending(x, c)'
<1>1. \A r \in Rows : /\ rows[r] \in Seq(Form) /\ rows'[r] \in Seq(Form)
                      /\ Len(rows[r]) \in Nat /\ Len(rows'[r]) \in Nat
  BY DEF TypeOK
<1>2. /\ x.url \in Rows \cup {0} /\ x.id \in Rows \cup {0} /\ x.version \in Nat
      /\ x.req # None => x.req \in Request
  BY DEF Editor
<1>3. \A r \in Rows : rows[r] # <<>> => rows'[r] # <<>>
  BY <1>1 DEF Grown
<1>4. ASSUME NEW r \in Rows, NEW v \in Nat, v < Len(rows[r])
      PROVE  v < Len(rows'[r]) /\ rows'[r][v + 1] = rows[r][v + 1]
  BY <1>1, <1>4 DEF Grown
<1>5. Knows(x) => Knows(x)'
  BY <1>2, <1>3, <1>4 DEF Knows
<1>6. ASSUME NEW q \in Request, LeftIn(q) PROVE LeftIn(q)'
  <2>1. q.row \in Rows /\ q.at \in Nat
    BY <1>6 DEF LeftIn, Request
  <2> QED
    BY <1>4, <1>6, <2>1 DEF LeftIn
<1>7. Pending(x, c) => Pending(x, c)'
  BY <1>2, <1>6 DEF Pending
<1> QED
  BY <1>5, <1>7

-----------------------------------------------------------------------------
(* How the invariant is kept.                                              *)

LEMMA AddressedSound ==
  ASSUME TypeOK, NEW x \in Editor, NEW c \in Nat
  PROVE  /\ Knows(x) => Knows(Addressed(x))
         /\ Pending(x, c) => Pending(Addressed(x), c)
         /\ OneRow(x, c) => OneRow(Addressed(x), c)
<1> DEFINE y == Addressed(x)
<1>1. /\ y.page = x.page /\ y.id = x.id /\ y.version = x.version
      /\ y.base = x.base /\ y.behind = x.behind /\ y.req = x.req
      /\ y.url = x.url \/ (x.id # 0 /\ y.url = x.id)
  BY AddressedKeeps
<1>2. x.id # 0 /\ Knows(x) => rows[x.id] # <<>>
  <2> SUFFICES ASSUME x.id # 0, Knows(x) PROVE rows[x.id] # <<>>
    OBVIOUS
  <2>1. x.id \in Rows /\ x.version \in Nat /\ rows[x.id] \in Seq(Form)
    BY DEF TypeOK, Editor
  <2> QED
    BY <2>1 DEF Knows
<1> HIDE DEF y
<1> QED
  BY <1>1, <1>2 DEF Knows, Pending, OneRow, y

\* One window becomes y, and nothing shrinks.
LEMMA WindowStep ==
  ASSUME IInv, NEW w \in Windows, NEW y \in Editor,
         win' = [win EXCEPT ![w] = y],
         kind' = kind, rows' \in [Rows -> Seq(Form)], Grown,
         {edits', faults', loads', repeats'} \subseteq Nat, faults <= faults',
         orphan' \in [Windows -> Orphan \cup {None}],
         draft' \in [Slots -> Form \cup {None}],
         created' \in [Windows -> Nat],
         \A v \in Windows \ {w} : created'[v] = created[v],
         Knows(y)', Pending(y, created[w])', OneRow(y, created[w])'
  PROVE  IInv'
<1>1. TypeOK /\ win \in [Windows -> Editor] /\ created \in [Windows -> Nat]
      /\ faults \in Nat /\ faults' \in Nat /\ kind \in Kinds
  BY DEF IInv, TypeOK
<1>2. TypeOK'
  BY <1>1 DEF TypeOK
<1>3. ASSUME NEW v \in Windows PROVE Sound(v)'
  <2>1. CASE v = w
    <3>1. win'[v] = y
      BY <1>1, <2>1
    <3>2. Knows(win[v])'
      BY <3>1 DEF Knows
    <3>3. Pending(win[v], created[v])'
      BY <2>1, <3>1 DEF Pending, LeftIn
    <3>4. OneRow(win[v], created[v])'
      BY <2>1, <3>1 DEF OneRow
    <3> QED
      BY <3>2, <3>3, <3>4 DEF Sound
  <2>2. CASE v # w
    <3>1. win'[v] = win[v] /\ created'[v] = created[v] /\ win[v] \in Editor
          /\ created[v] \in Nat
      BY <1>1, <2>2
    <3>2. Sound(v)
      BY DEF IInv
    <3>3. Knows(win[v])' /\ Pending(win[v], created[v])'
      <4>1. PICK x \in Editor, c \in Nat : x = win[v] /\ c = created[v]
        BY <3>1
      <4>2. Knows(x) /\ Pending(x, c)
        BY <3>2, <4>1 DEF Sound
      <4>3. Knows(x)' /\ Pending(x, c)'
        BY <1>1, <4>2, KnowledgeLasts
      <4> QED
        BY <3>1, <4>1, <4>3 DEF Knows, Pending, LeftIn
    <3>4. OneRow(win[v], created[v])'
      BY <1>1, <3>1, <3>2 DEF Sound, OneRow
    <3> QED
      BY <3>3, <3>4 DEF Sound
  <2> QED
    BY <2>1, <2>2
<1> QED
  BY <1>2, <1>3 DEF IInv

LEMMA Typed ==
  ASSUME TypeOK, NEW w \in Windows
  PROVE  /\ win[w] \in Editor /\ created[w] \in Nat
         /\ win[w].id \in Rows \cup {0} /\ win[w].url \in Rows \cup {0}
         /\ win[w].form \in Form /\ win[w].base \in Form
         /\ orphan[w] \in Orphan \cup {None}
         /\ win[w].req # None => win[w].req \in Request
  BY DEF TypeOK, Editor

\* The page of window w changes what it shows, or sends what it shows.
LEMMA PageStep ==
  ASSUME IInv, NEW w \in Windows, NEW y \in Editor,
         SamePage(win[w], y),
         \/ y.req = win[w].req
         \/ /\ win[w].req = None /\ win[w].page # "closed"
            /\ y.req = None \/ JustSent(win[w], win[w].id, y.req),
         Becomes(w, y), UNCHANGED <<kind, rows, orphan, created>>,
         {edits', faults', loads', repeats'} \subseteq Nat, faults <= faults'
  PROVE  IInv'
<1>1. /\ TypeOK /\ Sound(w) /\ win[w] \in Editor /\ created[w] \in Nat
      /\ kind \in Kinds
  BY Typed DEF IInv, TypeOK
<1>2. Knows(y) /\ OneRow(y, created[w])
  BY <1>1 DEF Sound, Knows, OneRow, SamePage
<1>3. Pending(y, created[w])
  <2>1. CASE y.req = win[w].req
    BY <1>1, <2>1 DEF Sound, Pending, SamePage
  <2>2. CASE /\ win[w].page # "closed"
             /\ y.req = None \/ JustSent(win[w], win[w].id, y.req)
    BY <1>1, <2>2 DEF Pending, SamePage, JustSent
  <2> QED
    BY <2>1, <2>2
<1> DEFINE z == Addressed(y)
<1>4. z \in Editor /\ Knows(z) /\ Pending(z, created[w]) /\ OneRow(z, created[w])
  BY <1>1, <1>2, <1>3, AddressedSound, AddressedKeeps
<1>5. win' = [win EXCEPT ![w] = z] /\ draft' \in Copies(w, Slot(w, win[w]), z)
  BY DEF Becomes
<1>6. draft' \in [Slots -> Form \cup {None}]
  BY <1>1, <1>4, <1>5, CopiesType, SlotType
<1> HIDE DEF z
<1>7. PICK p \in Editor : p = z
  BY <1>4
<1>8. Knows(p)' /\ Pending(p, created[w])' /\ OneRow(p, created[w])'
  <2>1. Knows(p)'
    BY <1>4, <1>7 DEF Knows
  <2>2. Pending(p, created[w])'
    BY <1>4, <1>7 DEF Pending, LeftIn
  <2>3. OneRow(p, created[w])'
    <3>1. faults' = 0 => faults = 0
      BY DEF IInv, TypeOK
    <3> QED
      BY <3>1, <1>4, <1>7 DEF OneRow
  <2> QED
    BY <2>1, <2>2, <2>3
<1>9. /\ rows' \in [Rows -> Seq(Form)] /\ Grown
      /\ orphan' \in [Windows -> Orphan \cup {None}]
      /\ created' \in [Windows -> Nat] /\ win' = [win EXCEPT ![w] = p]
  BY <1>1, <1>5, <1>7, StillGrown DEF TypeOK
<1> QED
  BY <1>6, <1>8, <1>9, WindowStep

\* A page that knows nothing yet, or is gone: nothing on its way, and a row
\* read as it is.
LEMMA FreshStep ==
  ASSUME IInv, NEW w \in Windows, NEW y \in Editor,
         y.req = None, y.url = y.id, ~y.behind, y.page = "closed" \/ created'[w] = 0,
         y.id # 0 => /\ rows[y.id] # <<>>
                     /\ y.base = Held(y.id) /\ y.version = Version(y.id),
         y.page = "closed" => created'[w] = created[w],
         win' = [win EXCEPT ![w] = y],
         draft' \in [Slots -> Form \cup {None}],
         orphan' \in [Windows -> Orphan \cup {None}],
         created' \in [Windows -> Nat],
         \A v \in Windows \ {w} : created'[v] = created[v],
         UNCHANGED <<kind, rows, edits, faults, repeats>>, loads' \in Nat
  PROVE  IInv'
<1>1. /\ TypeOK /\ Sound(w) /\ created[w] \in Nat
      /\ {edits', faults', loads', repeats'} \subseteq Nat /\ faults <= faults'
      /\ y.id \in Rows \cup {0}
  BY SMTT(30), Typed DEF IInv, TypeOK, Editor
<1>2. Knows(y)
  BY <1>1, HeldType DEF Knows
<1>3. Knows(y)' /\ Pending(y, created[w])'
  BY <1>2 DEF Knows, Pending
<1>4. OneRow(y, created[w])'
  BY <1>1 DEF Sound, OneRow
<1>5. rows' \in [Rows -> Seq(Form)] /\ Grown
  BY <1>1, StillGrown DEF TypeOK
<1> QED
  BY <1>1, <1>3, <1>4, <1>5, WindowStep

LEMMA AbandonedType ==
  ASSUME TypeOK, NEW w \in Windows
  PROVE  Abandoned(w) \in [Windows -> Orphan \cup {None}]
<1>1. /\ orphan \in [Windows -> Orphan \cup {None}]
      /\ win[w].form \in Form /\ win[w].recovered \in BOOLEAN
      /\ win[w].req # None => win[w].req \in Request
  BY Typed DEF TypeOK, Editor
<1>2. ASSUME win[w].req # None
      PROVE  [req |-> win[w].req,
              next |-> IF win[w].queued THEN win[w].form ELSE None,
              recovered |-> win[w].recovered] \in Orphan
  BY <1>1, <1>2 DEF Orphan
<1> QED
  BY <1>1, <1>2 DEF Abandoned, Running

LEMMA AloneType ==
  ASSUME NEW x \in Editor, x.req # None
  PROVE  /\ Alone(x) \in Orphan /\ Alone(x).req = x.req /\ Alone(x).next = None
  BY DEF Alone, Orphan, Editor

\* The window's page is gone.
LEMMA ClosedStep ==
  ASSUME IInv, NEW w \in Windows, Becomes(w, Closed),
         orphan' \in [Windows -> Orphan \cup {None}],
         UNCHANGED <<kind, edits, faults, loads, repeats, rows, created>>
  PROVE  IInv'
<1>1. Addressed(Closed) = Closed
  BY ClosedType DEF Addressed
<1>2. /\ TypeOK /\ Closed \in Editor /\ win[w] \in Editor
      /\ ~Closed.behind /\ Closed.url = Closed.id
  BY ClosedType, Typed DEF IInv, Closed
<1>3. win' = [win EXCEPT ![w] = Closed] /\ draft' \in Copies(w, Slot(w, win[w]), Closed)
  BY <1>1 DEF Becomes
<1>4. draft' \in [Slots -> Form \cup {None}]
  BY <1>2, <1>3, CopiesType, SlotType
<1>5. created' \in [Windows -> Nat] /\ loads' \in Nat
  BY <1>2 DEF TypeOK
<1>6. PICK y \in Editor : y = Closed
  BY <1>2
<1>7. y.req = None /\ y.url = y.id /\ ~y.behind /\ y.page = "closed" /\ y.id = 0
  BY <1>2, <1>6, ClosedType
<1> QED
  BY <1>2, <1>3, <1>4, <1>5, <1>6, <1>7, FreshStep

-----------------------------------------------------------------------------
(* One lemma per action.                                                   *)

LEMMA Counters ==
  ASSUME TypeOK
  PROVE  /\ {edits, faults, loads, repeats} \subseteq Nat
         /\ edits + 1 \in Nat /\ faults + 1 \in Nat /\ loads + 1 \in Nat
         /\ repeats + 1 \in Nat
  BY DEF TypeOK

LEMMA PutBackKeeps ==
  ASSUME NEW x \in Editor, NEW form \in Form
  PROVE  /\ PutBack(x, form) \in Editor /\ SamePage(x, PutBack(x, form))
         /\ PutBack(x, form).req = x.req
  BY ZenonT(60) DEF PutBack, Editor, Form, SamePage

LEMMA TypeStep == ASSUME IInv, NEW w \in Windows, Type(w) PROVE IInv'
<1>1. /\ TypeOK /\ win[w] \in Editor /\ UNCHANGED <<kind, rows, orphan, created>>
      /\ faults' = faults /\ loads' = loads
      /\ {edits, faults, loads, repeats} \subseteq Nat
  BY Typed, Counters DEF IInv, Type, Same
<1>2. CASE /\ edits' = edits + 1
           /\ \E s \in Shapes(kind) :
                 Becomes(w, [win[w] EXCEPT !.form.n = edits', !.form.shape = s])
           /\ UNCHANGED repeats
  <2>1. PICK s \in Shapes(kind) :
          Becomes(w, [win[w] EXCEPT !.form.n = edits', !.form.shape = s])
    BY <1>2
  <2> DEFINE y == [win[w] EXCEPT !.form.n = edits', !.form.shape = s]
  <2>2. edits' \in Nat /\ s \in {"whole", "half", "part", "invalid"}
    BY <1>1, <1>2 DEF Shapes
  <2>3. y \in Editor /\ SamePage(win[w], y) /\ y.req = win[w].req
    BY <1>1, <2>2 DEF Editor, Form, SamePage
  <2> HIDE DEF y
  <2>4. Becomes(w, y)
    BY <2>1 DEF y
  <2> QED
    BY <1>1, <1>2, <2>2, <2>3, <2>4, PageStep
<1>3. CASE /\ edits' = edits /\ repeats' = repeats + 1
           /\ Becomes(w, PutBack(win[w], win[w].base))
  <2>1. win[w].base \in Form /\ repeats' \in Nat /\ faults <= faults'
    BY <1>1, <1>3, Typed
  <2>2. /\ PutBack(win[w], win[w].base) \in Editor
        /\ SamePage(win[w], PutBack(win[w], win[w].base))
        /\ PutBack(win[w], win[w].base).req = win[w].req
    BY <1>1, <2>1, PutBackKeeps
  <2>3. {edits', faults', loads', repeats'} \subseteq Nat
    BY <1>1, <1>3, <2>1
  <2> QED
    BY <1>1, <1>3, <2>1, <2>2, <2>3, PageStep
<1> QED
  BY <1>2, <1>3 DEF Type

\* A save asked for, by a press, a timer or a link.
LEMMA AskedStep ==
  ASSUME IInv, NEW w \in Windows, NEW x \in Editor, NEW leaving \in BOOLEAN,
         win[w].page # "closed",
         SamePage(win[w], x), x.req = win[w].req,
         Becomes(w, SaveAsked(x, leaving)),
         UNCHANGED <<kind, rows, orphan, created, edits, faults, loads>>,
         repeats' \in Nat
  PROVE  IInv'
<1>1. TypeOK /\ {edits, faults, loads} \subseteq Nat
  BY Counters DEF IInv
<1>2. /\ SaveAsked(x, leaving) \in Editor
      /\ SamePage(win[w], SaveAsked(x, leaving))
      /\ \/ SaveAsked(x, leaving).req = win[w].req
         \/ /\ win[w].req = None
            /\ JustSent(win[w], win[w].id, SaveAsked(x, leaving).req)
  BY SaveAskedKeeps DEF SamePage, JustSent
<1>3. {edits', faults', loads', repeats'} \subseteq Nat /\ faults <= faults'
  BY <1>1
<1> QED
  BY <1>2, <1>3, PageStep

LEMMA RepeatsType ==
  ASSUME TypeOK, NEW x \in Editor, Repeats(x) PROVE repeats' \in Nat
  BY Counters DEF Repeats

LEMMA SaveStep == ASSUME IInv, NEW w \in Windows, Save(w) PROVE IInv'
<1>1. TypeOK /\ win[w] \in Editor /\ win[w].page # "closed"
  BY Typed DEF IInv, Save, Here
<1>2. SamePage(win[w], win[w])
  BY DEF SamePage
<1>3. repeats' \in Nat
  BY <1>1, RepeatsType DEF Save
<1> QED
  BY <1>1, <1>2, <1>3, AskedStep DEF Save, Same

LEMMA AutosaveStep == ASSUME IInv, NEW w \in Windows, Autosave(w) PROVE IInv'
<1>1. TypeOK /\ win[w] \in Editor /\ win[w].page # "closed"
  BY Typed DEF IInv, Autosave, Here
<1>2. SamePage(win[w], win[w]) /\ (win[w].leave = "saving") \in BOOLEAN
  BY DEF SamePage
<1>3. repeats' \in Nat
  BY <1>1, RepeatsType DEF Autosave
<1> QED
  BY <1>1, <1>2, <1>3, AskedStep DEF Autosave, Same

LEMMA LeaveStep == ASSUME IInv, NEW w \in Windows, Leave(w) PROVE IInv'
<1>1. /\ TypeOK /\ win[w] \in Editor /\ win[w].page # "closed"
      /\ {edits, faults, loads, repeats} \subseteq Nat
      /\ UNCHANGED <<kind, edits, faults, loads, repeats, rows, created>>
  BY Typed, Counters DEF IInv, Leave, Here
<1>2. CASE Dirty(win[w]) /\ ~Drafting
  <2> DEFINE y == [win[w] EXCEPT !.leave = "asking"]
  <2>1. y \in Editor /\ SamePage(win[w], y) /\ y.req = win[w].req
    BY <1>1 DEF Editor, SamePage
  <2>2. Becomes(w, y) /\ UNCHANGED orphan
    BY <1>2 DEF Leave
  <2> HIDE DEF y
  <2>3. {edits', faults', loads', repeats'} \subseteq Nat /\ faults <= faults'
    BY <1>1
  <2> QED
    BY <1>1, <2>1, <2>2, <2>3, PageStep
<1>3. CASE Dirty(win[w]) /\ Drafting
  <2> DEFINE x == [win[w] EXCEPT !.leave = "saving", !.owed = win[w].form.n]
  <2>1. x \in Editor /\ SamePage(win[w], x) /\ x.req = win[w].req
    BY <1>1 DEF Editor, Form, SamePage
  <2>2. Becomes(w, SaveAsked(x, TRUE)) /\ UNCHANGED orphan
    BY <1>3 DEF Leave
  <2> HIDE DEF x
  <2>3. repeats' \in Nat
    BY <1>1
  <2> QED
    BY <1>1, <2>1, <2>2, <2>3, AskedStep
<1>4. CASE ~Dirty(win[w])
  BY <1>1, <1>4, AbandonedType, ClosedStep DEF Leave
<1> QED
  BY <1>2, <1>3, <1>4

LEMMA StayStep == ASSUME IInv, NEW w \in Windows, Stay(w) PROVE IInv'
<1> DEFINE y == [win[w] EXCEPT !.leave = "no"]
<1>1. /\ TypeOK /\ win[w] \in Editor
      /\ {edits, faults, loads, repeats} \subseteq Nat
  BY Typed, Counters DEF IInv
<1>2. y \in Editor /\ SamePage(win[w], y) /\ y.req = win[w].req
  BY <1>1 DEF Editor, SamePage
<1>3. /\ Becomes(w, y)
      /\ UNCHANGED <<kind, rows, orphan, created, edits, faults, loads, repeats>>
  BY DEF Stay, OnlyHere, Same
<1> HIDE DEF y
<1>4. {edits', faults', loads', repeats'} \subseteq Nat /\ faults <= faults'
  BY <1>1, <1>3
<1> QED
  BY <1>2, <1>3, <1>4, PageStep

LEMMA LeaveWithoutStep ==
  ASSUME IInv, NEW w \in Windows, LeaveWithout(w) PROVE IInv'
<1>1. TypeOK
  BY DEF IInv
<1> QED
  BY <1>1, AbandonedType, ClosedStep DEF LeaveWithout

LEMMA RestoreStep == ASSUME IInv, NEW w \in Windows, Restore(w) PROVE IInv'
<1>1. /\ TypeOK /\ win[w] \in Editor /\ win[w].offered \in Form
      /\ {edits, faults, loads, repeats} \subseteq Nat
  BY Typed, Counters DEF IInv, Restore, Editor
<1> DEFINE x == PutBack(win[w], win[w].offered)
           y == [x EXCEPT !.offered = None, !.recovered = TRUE]
<1>2. x \in Editor /\ SamePage(win[w], x) /\ x.req = win[w].req
  BY <1>1, PutBackKeeps
<1> HIDE DEF x
<1>3. y \in Editor /\ SamePage(win[w], y) /\ y.req = win[w].req
  BY <1>2 DEF Editor, SamePage
<1>4. /\ Becomes(w, y)
      /\ UNCHANGED <<kind, rows, orphan, created, edits, faults, loads, repeats>>
  BY DEF Restore, OnlyHere, Same, x
<1> HIDE DEF y
<1>5. {edits', faults', loads', repeats'} \subseteq Nat /\ faults <= faults'
  BY <1>1, <1>4
<1> QED
  BY <1>3, <1>4, <1>5, PageStep

\* A window's offered copy is changed in place.
LEMMA DiscardStep ==
  ASSUME IInv, NEW w \in Windows, Discard(w) \/ DiscardMine(w) PROVE IInv'
<1> DEFINE y == [win[w] EXCEPT !.offered = None]
<1>1. /\ TypeOK /\ win[w] \in Editor /\ created[w] \in Nat /\ Sound(w)
      /\ draft \in [Slots -> Form \cup {None}] /\ win[w].form \in Form
      /\ win \in [Windows -> Editor]
      /\ {edits, faults, loads, repeats} \subseteq Nat
      /\ Slot(w, win[w]) \in Slots
  BY Typed, Counters, SlotType DEF IInv, TypeOK
<1>2. y \in Editor /\ SamePage(win[w], y) /\ y.req = win[w].req
  BY <1>1 DEF Editor, SamePage
<1>3. /\ UNCHANGED <<kind, rows, orphan, created, edits, faults, loads, repeats>>
      /\ win' = [win EXCEPT ![w] = y]
      /\ \E f \in {win[w].form, None} : draft' = [draft EXCEPT ![Slot(w, win[w])] = f]
  BY <1>1 DEF Discard, DiscardMine, OnlyHere, Same
<1> HIDE DEF y
<1>4. draft' \in [Slots -> Form \cup {None}]
  BY <1>1, <1>3
<1>5. Knows(y) /\ Pending(y, created[w]) /\ OneRow(y, created[w])
  BY <1>1, <1>2 DEF Sound, Knows, Pending, OneRow, SamePage
<1>6. PICK p \in Editor : p = y
  BY <1>2
<1>7. Knows(p)' /\ Pending(p, created[w])' /\ OneRow(p, created[w])'
  BY <1>3, <1>5, <1>6 DEF Knows, Pending, LeftIn, OneRow
<1>8. /\ rows' \in [Rows -> Seq(Form)] /\ Grown
      /\ orphan' \in [Windows -> Orphan \cup {None}]
      /\ created' \in [Windows -> Nat] /\ win' = [win EXCEPT ![w] = p]
      /\ {edits', faults', loads', repeats'} \subseteq Nat /\ faults <= faults'
  BY <1>1, <1>3, <1>6, StillGrown DEF TypeOK
<1> QED
  BY <1>3, <1>4, <1>7, <1>8, WindowStep

\* A page mounted on row r.
LEMMA MountStep ==
  ASSUME IInv, NEW w \in Windows, NEW r \in Rows \cup {0},
         r # 0 => rows[r] # <<>>,
         Mounts(w, Loaded(w, r)),
         loads' \in Nat, created' = [created EXCEPT ![w] = 0],
         orphan' \in [Windows -> Orphan \cup {None}],
         UNCHANGED <<kind, edits, faults, repeats, rows>>
  PROVE  IInv'
<1>1. TypeOK
  BY DEF IInv
<1>2. PICK y \in Editor : y = Loaded(w, r)
  BY <1>1, LoadedType
<1>3. /\ y.page = "open" /\ y.req = None /\ y.id = r /\ y.url = r /\ ~y.behind
      /\ r # 0 => y.base = Held(r) /\ y.version = Version(r)
  BY <1>1, <1>2, LoadedType
<1>4. win' = [win EXCEPT ![w] = y] /\ draft' \in Copies(w, Slot(w, y), y)
  BY <1>2 DEF Mounts
<1>5. draft' \in [Slots -> Form \cup {None}]
  BY <1>1, <1>4, CopiesType, SlotType
<1>6. /\ created' \in [Windows -> Nat] /\ created'[w] = 0
      /\ \A v \in Windows \ {w} : created'[v] = created[v]
  BY <1>1 DEF TypeOK
<1> QED
  BY <1>3, <1>4, <1>5, <1>6, FreshStep

\* The address of a page is a row that exists.
LEMMA UrlExists ==
  ASSUME IInv, NEW w \in Windows
  PROVE  /\ win[w].url \in Rows \cup {0}
         /\ win[w].url # 0 => rows[win[w].url] # <<>>
  BY Typed DEF IInv, Sound, Knows

LEMMA OpenStep == ASSUME IInv, NEW w \in Windows, Open(w) PROVE IInv'
<1>1. PICK r \in Rows : rows[r] # <<>> /\ Load(w, r)
  BY DEF Open
<1>2. /\ loads' \in Nat /\ UNCHANGED <<kind, edits, faults, repeats, rows>>
      /\ Mounts(w, Loaded(w, r)) /\ created' = [created EXCEPT ![w] = 0]
      /\ orphan' \in [Windows -> Orphan \cup {None}]
  BY <1>1, Counters DEF Open, Load, IInv, TypeOK
<1> QED
  BY <1>1, <1>2, MountStep

LEMMA ReloadStep == ASSUME IInv, NEW w \in Windows, Reload(w) PROVE IInv'
<1>1. TypeOK /\ orphan \in [Windows -> Orphan \cup {None}]
  BY DEF IInv, TypeOK
<1>2. /\ loads' \in Nat /\ UNCHANGED <<kind, edits, faults, repeats, rows>>
      /\ Mounts(w, Loaded(w, win[w].url)) /\ created' = [created EXCEPT ![w] = 0]
  BY <1>1, Counters DEF Reload, Load
<1>3. orphan' \in [Windows -> Orphan \cup {None}]
  <2>1. win[w].req # None => Alone(win[w]) \in Orphan
    BY <1>1, Typed, AloneType
  <2> QED
    BY <1>1, <2>1 DEF Reload, Running
<1> QED
  BY <1>2, <1>3, UrlExists, MountStep

LEMMA ArriveStep == ASSUME IInv, NEW w \in Windows, Arrive(w) PROVE IInv'
<1>1. TypeOK /\ loads \in Nat
  BY DEF IInv, TypeOK
<1> QED
  BY <1>1, AbandonedType, UrlExists, MountStep DEF Arrive

\* A form takes the server's version.
LEMMA RefreshStep == ASSUME IInv, NEW w \in Windows, Refresh(w) PROVE IInv'
<1> DEFINE y == [win[w] EXCEPT !.version = Version(win[w].id)]
           z == Addressed(y)
<1>1. /\ TypeOK /\ Sound(w) /\ win[w] \in Editor /\ created[w] \in Nat
      /\ win[w].id \in Rows /\ kind = "form" /\ win[w].version \in Nat
      /\ rows[win[w].id] \in Seq(Form)
      /\ {edits, faults, loads, repeats} \subseteq Nat
  BY Typed, Counters DEF IInv, Refresh, TypeOK, Editor
<1>2. rows[win[w].id] # <<>>
  BY <1>1, Constants DEF Sound, Knows
<1>3. Version(win[w].id) \in Nat /\ Version(win[w].id) < Len(rows[win[w].id])
  BY <1>1, <1>2, HeldType
<1>4. /\ y \in Editor /\ y.page = win[w].page /\ y.id = win[w].id
      /\ y.url = win[w].url /\ y.version = Version(win[w].id)
      /\ y.req = win[w].req
  BY <1>1, <1>3 DEF Editor
<1>5. /\ UNCHANGED <<kind, rows, orphan, created, edits, faults, loads, repeats>>
      /\ win' = [win EXCEPT ![w] = z] /\ draft' \in Copies(w, Slot(w, win[w]), z)
  BY DEF Refresh, OnlyHere, Same, Becomes
<1> HIDE DEF y
<1>6. Knows(y) /\ Pending(y, created[w]) /\ OneRow(y, created[w])
  BY <1>1, <1>3, <1>4 DEF Sound, Knows, Pending, OneRow
<1>7. z \in Editor /\ Knows(z) /\ Pending(z, created[w]) /\ OneRow(z, created[w])
  BY <1>1, <1>4, <1>6, AddressedSound, AddressedKeeps
<1> HIDE DEF z
<1>8. PICK p \in Editor : p = z
  BY <1>7
<1>9. Knows(p)' /\ Pending(p, created[w])' /\ OneRow(p, created[w])'
  BY <1>5, <1>7, <1>8 DEF Knows, Pending, LeftIn, OneRow
<1>10. /\ rows' \in [Rows -> Seq(Form)] /\ Grown
       /\ orphan' \in [Windows -> Orphan \cup {None}]
       /\ created' \in [Windows -> Nat] /\ win' = [win EXCEPT ![w] = p]
       /\ {edits', faults', loads', repeats'} \subseteq Nat /\ faults <= faults'
  BY <1>1, <1>5, <1>8, StillGrown DEF TypeOK
<1>11. draft' \in [Slots -> Form \cup {None}]
  BY <1>1, <1>5, <1>7, CopiesType, SlotType
<1> QED
  BY <1>5, <1>9, <1>10, <1>11, WindowStep

\* What the server answers, and what it leaves in the row.
LEMMA ServedKeeps ==
  ASSUME TypeOK, NEW q0 \in Request, NEW q \in Served(q0), Writes(q)
  PROVE  /\ q \in Request /\ q.id = q0.id /\ q.seen = q0.seen /\ q.form = q0.form
         /\ rows' \in [Rows -> Seq(Form)] /\ Grown
         /\ q.stage = "landed" => q.row \in Rows /\ LeftIn(q)'
         /\ q.stage # "landed" => q.stage = "stale"
         /\ q.stage = "landed" /\ q.id # 0 =>
               rows[q.id] \in Seq(Form) /\ q.seen = Version(q.id)
<1>0. /\ rows \in [Rows -> Seq(Form)] /\ q0.id \in Rows \cup {0} /\ q0.form \in Form
  BY DEF TypeOK, Request
<1>1. CASE q0.id = 0
  <2>1. PICK r \in Rows :
          rows[r] = <<>> /\ q = [q0 EXCEPT !.stage = "landed", !.row = r, !.at = 0]
    <3> DEFINE free == {f \in Rows : rows[f] = <<>>}
               r == CHOOSE f \in free : TRUE
    <3>1. free # {} /\ q = [q0 EXCEPT !.stage = "landed", !.row = r, !.at = 0]
      BY <1>1 DEF Served
    <3>2. r \in free
      BY <3>1
    <3> QED
      BY <3>1, <3>2
  <2>2. /\ q \in Request /\ q.id = 0 /\ q.seen = q0.seen /\ q.form = q0.form
        /\ q.stage = "landed" /\ q.row = r /\ q.at = 0
    BY <1>1, <2>1 DEF Request
  <2>3. Put(r, q.form)
    BY <2>2 DEF Writes
  <2>4. /\ rows' \in [Rows -> Seq(Form)] /\ Grown
        /\ Len(rows'[r]) = Len(rows[r]) + 1
        /\ rows'[r][Len(rows[r]) + 1] = Stored(q.form)
    BY <1>0, <2>2, <2>3, PutGrows
  <2>5. LeftIn(q)'
    <3>1. Len(rows[r]) = 0 /\ r # 0
      BY <2>1, Constants
    <3>2. rows'[r][1] = Stored(q.form) /\ Len(rows'[r]) = 1
      BY <2>4, <3>1
    <3> QED
      BY <2>2, <3>1, <3>2 DEF LeftIn
  <2> QED
    BY <1>1, <2>2, <2>4, <2>5
<1>2. CASE q0.id # 0 /\ Stale(q0)
  <2>1. q = [q0 EXCEPT !.stage = "stale"]
    BY <1>2 DEF Served
  <2>2. /\ q \in Request /\ q.id = q0.id /\ q.seen = q0.seen /\ q.form = q0.form
        /\ q.stage = "stale"
    BY <2>1 DEF Request
  <2>3. UNCHANGED rows
    BY <2>2 DEF Writes
  <2> QED
    BY <1>0, <2>2, <2>3, StillGrown
<1>3. CASE q0.id # 0 /\ ~Stale(q0)
  <2>1. q = [q0 EXCEPT !.stage = "landed", !.row = q0.id, !.at = Version(q0.id) + 1]
    BY <1>3 DEF Served
  <2>2. /\ rows[q0.id] \in Seq(Form) /\ Version(q0.id) + 1 = Len(rows[q0.id])
        /\ Len(rows[q0.id]) \in Nat /\ q0.id \in Rows /\ q0.seen = Version(q0.id)
    BY <1>0, <1>3 DEF Version, Stale
  <2>3. /\ q \in Request /\ q.id = q0.id /\ q.seen = q0.seen /\ q.form = q0.form
        /\ q.stage = "landed" /\ q.row = q0.id /\ q.at = Len(rows[q0.id])
    BY <2>1, <2>2 DEF Request
  <2>4. Put(q0.id, q.form)
    BY <2>3 DEF Writes
  <2>5. /\ rows' \in [Rows -> Seq(Form)] /\ Grown
        /\ Len(rows'[q0.id]) = Len(rows[q0.id]) + 1
        /\ rows'[q0.id][Len(rows[q0.id]) + 1] = Stored(q.form)
    BY <1>0, <2>2, <2>3, <2>4, PutGrows
  <2>6. LeftIn(q)'
    BY <1>3, <2>2, <2>3, <2>5 DEF LeftIn
  <2> QED
    BY <2>2, <2>3, <2>5, <2>6
<1> QED
  BY <1>1, <1>2, <1>3

LEMMA ServeStep == ASSUME IInv, NEW w \in Windows, Serve(w) PROVE IInv'
<1>1. /\ TypeOK /\ Sound(w) /\ win[w] \in Editor /\ created[w] \in Nat
      /\ win[w].req \in Request /\ win[w].req.stage = "sent" /\ win[w].req # None
      /\ created \in [Windows -> Nat]
  BY Typed DEF IInv, Serve, Running, TypeOK
<1>2. PICK q \in Served(win[w].req) :
        /\ Writes(q)
        /\ win' = [win EXCEPT ![w].req = q]
        /\ created' = IF q.stage = "landed" /\ q.id = 0
                      THEN [created EXCEPT ![w] = @ + 1] ELSE created
  BY DEF Serve
<1>3. UNCHANGED <<kind, edits, faults, loads, repeats, orphan, draft>>
  BY DEF Serve
<1>4. /\ q \in Request /\ q.id = win[w].req.id /\ q.seen = win[w].req.seen
      /\ rows' \in [Rows -> Seq(Form)] /\ Grown
      /\ q.stage = "landed" => LeftIn(q)'
  BY <1>1, <1>2, ServedKeeps
<1> DEFINE y == [win[w] EXCEPT !.req = q]
<1>5. /\ y \in Editor /\ y.req = q /\ y.page = win[w].page /\ y.id = win[w].id
      /\ y.url = win[w].url /\ y.version = win[w].version
      /\ y.base = win[w].base /\ y.behind = win[w].behind
  BY <1>1, <1>4 DEF Editor
<1>6. win' = [win EXCEPT ![w] = y]
  BY <1>1, <1>2
<1> HIDE DEF y
<1>7. Knows(y)
  BY <1>1, <1>5 DEF Sound, Knows
<1>8. PICK p \in Editor : p = y
  BY <1>5
<1>9. Knows(p)'
  <2>1. Knows(p)
    BY <1>7, <1>8
  <2> QED
    BY <2>1, <1>1, <1>3, <1>4, KnowledgeLasts
<1>10. /\ created'[w] = created[w] + (IF q.stage = "landed" /\ q.id = 0 THEN 1 ELSE 0)
       /\ created' \in [Windows -> Nat]
       /\ \A v \in Windows \ {w} : created'[v] = created[v]
  BY <1>1, <1>2
<1>11. Pending(p, created[w])'
  BY <1>1, <1>3, <1>4, <1>5, <1>8, <1>10 DEF Sound, Pending
<1>12. OneRow(p, created[w])'
  <2>1. kind # "menu" => q.id = win[w].id /\ win[w].page # "closed"
    BY <1>1, <1>4 DEF Sound, Pending
  <2> QED
    BY <1>1, <1>3, <1>4, <1>5, <1>8, <1>10, <2>1, NoneAssumption
    DEF Sound, OneRow
<1>13. /\ {edits', faults', loads', repeats'} \subseteq Nat /\ faults <= faults'
       /\ orphan' \in [Windows -> Orphan \cup {None}]
       /\ draft' \in [Slots -> Form \cup {None}]
       /\ win' = [win EXCEPT ![w] = p]
  BY <1>1, <1>3, <1>6, <1>8, Counters DEF TypeOK
<1> QED
  BY <1>3, <1>4, <1>9, <1>10, <1>11, <1>12, <1>13, WindowStep

\* The page after a save of it landed, before the loop goes on.
LEMMA LandedStep ==
  ASSUME IInv, NEW w \in Windows, Running(win[w]),
         win[w].req.stage = "landed", Becomes(w, Landed(win[w])),
         UNCHANGED <<kind, rows, orphan, created, edits, faults, loads, repeats>>
  PROVE  IInv'
<1> DEFINE x == win[w]
           q == x.req
           c == created[w]
           page == IF q.id = 0 /\ ~q.leaving /\ kind # "recipe"
                   THEN "moving" ELSE x.page
           url == IF q.id = 0 /\ (q.leaving \/ kind # "recipe")
                  THEN q.row ELSE x.url
           behind == "half" \in {x.form.shape, q.form.shape}
           y == [x EXCEPT !.id = q.row, !.version = q.at, !.base = Baseline(x),
                          !.behind = behind, !.url = url, !.page = page,
                          !.pill = "saved"]
           id == IF ClosesOverId THEN x.id ELSE q.row
           d == Drained(y, TRUE, id)
<1>1. /\ TypeOK /\ Sound(w) /\ x \in Editor /\ c \in Nat /\ q \in Request
      /\ q # None /\ q.stage = "landed" /\ kind \in Kinds
      /\ x.form \in Form /\ x.base \in Form /\ x.id \in Rows \cup {0}
  BY Typed DEF IInv, Running, TypeOK
<1>2. /\ q.row \in Rows /\ q.at \in Nat /\ q.at < Len(rows[q.row])
      /\ rows[q.row] \in Seq(Form) /\ q.form \in Form
      /\ rows[q.row][q.at + 1] = Stored(q.form) /\ LeftIn(q)
      /\ x.page # "closed"
  BY <1>1 DEF Sound, Pending, LeftIn, Request, TypeOK
<1>3. Landed(x) = d
  BY DEF Landed
<1>4. Baseline(x) \in Form /\ (~behind => Baseline(x) = q.form)
  BY <1>1, <1>2 DEF Baseline
<1>5. /\ page \in {"open", "moving"} /\ url \in Rows \cup {0} /\ behind \in BOOLEAN
      /\ id \in Rows \cup {0}
  BY <1>1, <1>2 DEF Editor
<1>6. ~behind => Stored(q.form) = q.form
  BY <1>2, FormTypes
<1>7. url # 0 => rows[url] # <<>>
  <2>1. x.url # 0 => rows[x.url] # <<>>
    BY <1>1 DEF Sound, Knows
  <2>2. rows[q.row] # <<>>
    BY <1>2
  <2> QED
    BY <2>1, <2>2
<1>8. q.row # 0
  BY <1>2, Constants
<1>9. \/ id = q.row
      \/ kind = "menu" /\ id = x.id
  BY DEF ClosesOverId
<1> HIDE DEF page, url, behind, id
<1>10. /\ y \in Editor /\ y.id = q.row /\ y.version = q.at
       /\ y.base = Baseline(x) /\ y.behind = behind /\ y.url = url
       /\ y.page = page
  BY ZenonT(60), <1>1, <1>2, <1>4, <1>5 DEF Editor
<1> HIDE DEF y
<1>11. Knows(y)
  BY <1>2, <1>4, <1>6, <1>7, <1>10 DEF Knows
<1>12. /\ d \in Editor
       /\ \/ d = Closed
          \/ SamePage(y, d) /\ (d.req = None \/ JustSent(y, id, d.req))
  BY <1>5, <1>10, DrainedKeeps
<1> HIDE DEF d
<1>13. Knows(d)
  BY <1>11, <1>12, ClosedType DEF SamePage, Knows
<1>14. Pending(d, c)
  <2>1. ASSUME d.req # None, JustSent(y, id, d.req), SamePage(y, d)
        PROVE  Pending(d, c)
    <3>1. /\ d.req.stage = "sent" /\ d.req.id = id /\ d.req.seen = y.version
          /\ d.id = q.row /\ d.version = y.version /\ d.page # "closed"
      BY <2>1, <1>5, <1>10 DEF JustSent, SamePage
    <3>2. CASE id = q.row
      BY <3>1, <3>2, <1>8 DEF Pending
    <3>3. CASE kind = "menu" /\ id = x.id
      <4>1. x.id # 0 /\ c <= 1 => x.id = q.row
        BY <1>1, <1>2 DEF Sound, Pending, LeftIn
      <4>2. x.id = 0 => c >= 1
        BY <1>1 DEF Sound, Pending
      <4> QED
        BY <3>1, <3>3, <4>1, <4>2 DEF Pending
    <3> QED
      BY <1>9, <3>2, <3>3
  <2>2. d.req = None => Pending(d, c)
    BY DEF Pending
  <2> QED
    BY <1>12, <2>1, <2>2, ClosedType
<1>15. OneRow(d, c)
  <2>1. kind # "menu" /\ faults = 0 => c \in {0, 1}
    BY <1>1 DEF Sound, OneRow
  <2>2. d.page = "closed" \/ d.id # 0
    BY <1>8, <1>10, <1>12, ClosedType DEF SamePage
  <2> QED
    BY <2>1, <2>2 DEF OneRow
<1> DEFINE z == Addressed(d)
<1>16. z \in Editor /\ Knows(z) /\ Pending(z, c) /\ OneRow(z, c)
  BY <1>1, <1>12, <1>13, <1>14, <1>15, AddressedSound, AddressedKeeps
<1>17. win' = [win EXCEPT ![w] = z] /\ draft' \in Copies(w, Slot(w, win[w]), z)
  BY <1>3 DEF Becomes
<1> HIDE DEF z
<1>18. PICK p \in Editor : p = z
  BY <1>16
<1>19. Knows(p)' /\ Pending(p, created[w])' /\ OneRow(p, created[w])'
  BY <1>16, <1>18 DEF Knows, Pending, LeftIn, OneRow
<1>20. /\ rows' \in [Rows -> Seq(Form)] /\ Grown
       /\ orphan' \in [Windows -> Orphan \cup {None}]
       /\ created' \in [Windows -> Nat] /\ win' = [win EXCEPT ![w] = p]
       /\ {edits', faults', loads', repeats'} \subseteq Nat /\ faults <= faults'
  BY SMTT(30), <1>1, <1>17, <1>18, StillGrown, Counters DEF TypeOK
<1>21. draft' \in [Slots -> Form \cup {None}]
  BY <1>1, <1>16, <1>17, CopiesType, SlotType
<1> QED
  BY <1>19, <1>20, <1>21, WindowStep

\* A loop that ends, or goes on after a failure, sends for the id it has.
LEMMA AnsweredStep ==
  ASSUME IInv, NEW w \in Windows, NEW y \in Editor, Becomes(w, y),
         win[w].page # "closed", SamePage(win[w], y),
         y.req = None \/ JustSent(win[w], win[w].id, y.req),
         (win[w].req.stage = "stale" /\ win[w].req # None) \/ faults' # 0,
         UNCHANGED <<kind, rows, created, edits, loads, repeats>>,
         orphan' \in [Windows -> Orphan \cup {None}],
         faults' \in Nat, faults <= faults'
  PROVE  IInv'
<1> DEFINE z == Addressed(y)
<1>1. /\ TypeOK /\ Sound(w) /\ win[w] \in Editor /\ created[w] \in Nat
      /\ faults \in Nat
  BY Typed DEF IInv, TypeOK
<1>2. Knows(y)
  BY <1>1 DEF Sound, Knows, SamePage
<1>3. Pending(y, created[w])
  BY <1>1 DEF Pending, SamePage, JustSent
<1>4. faults' = 0 => OneRow(y, created[w])
  BY <1>1 DEF Sound, OneRow, SamePage
<1>5. /\ z \in Editor /\ Knows(z) /\ Pending(z, created[w])
      /\ faults' = 0 => OneRow(z, created[w])
  BY <1>1, <1>2, <1>3, <1>4, AddressedSound, AddressedKeeps
<1>6. win' = [win EXCEPT ![w] = z] /\ draft' \in Copies(w, Slot(w, win[w]), z)
  BY DEF Becomes
<1> HIDE DEF z
<1>7. PICK p \in Editor : p = z
  BY <1>5
<1>8. Knows(p)' /\ Pending(p, created[w])' /\ OneRow(p, created[w])'
  <2>1. Knows(p)' /\ Pending(p, created[w])'
    BY <1>5, <1>7 DEF Knows, Pending, LeftIn
  <2>2. OneRow(p, created[w])'
    BY <1>1, <1>5, <1>7 DEF OneRow
  <2> QED
    BY <2>1, <2>2
<1>9. /\ rows' \in [Rows -> Seq(Form)] /\ Grown
      /\ created' \in [Windows -> Nat] /\ win' = [win EXCEPT ![w] = p]
      /\ {edits', faults', loads', repeats'} \subseteq Nat
  BY <1>1, <1>6, <1>7, StillGrown, Counters DEF TypeOK
<1>10. draft' \in [Slots -> Form \cup {None}]
  BY <1>1, <1>5, <1>6, CopiesType, SlotType
<1> QED
  BY <1>8, <1>9, <1>10, WindowStep

LEMMA AnswerStep == ASSUME IInv, NEW w \in Windows, Answer(w) PROVE IInv'
<1>1. /\ TypeOK /\ win[w] \in Editor /\ Running(win[w]) /\ win[w].req # None
      /\ UNCHANGED <<kind, rows, orphan, created, edits, faults, loads, repeats>>
  BY Typed DEF IInv, Answer, OnlyHere, Same, Running
<1>2. CASE win[w].req.stage = "landed" /\ Becomes(w, Landed(win[w]))
  BY <1>1, <1>2, LandedStep
<1>3. CASE win[w].req.stage = "stale" /\ Becomes(w, Refused(win[w]))
  <2> DEFINE x == [win[w] EXCEPT !.pill = "conflict", !.req = None, !.queued = FALSE]
  <2>1. x \in Editor /\ SamePage(win[w], x) /\ x.req = None
    BY <1>1 DEF Editor, SamePage
  <2>2. Refused(win[w]) = Ended(x, FALSE)
    BY DEF Refused
  <2> HIDE DEF x
  <2>3. /\ Refused(win[w]) \in Editor /\ SamePage(win[w], Refused(win[w]))
        /\ Refused(win[w]).req = None
    <3>1. PICK y \in Editor : y = x
      BY <2>1
    <3>2. /\ Ended(y, FALSE) \in Editor /\ SamePage(y, Ended(y, FALSE))
          /\ Ended(y, FALSE).req = y.req
      BY EndedStays
    <3>3. SamePage(win[w], y) /\ y.req = None /\ Refused(win[w]) = Ended(y, FALSE)
      BY <2>1, <2>2, <3>1
    <3> QED
      BY <3>2, <3>3 DEF SamePage
  <2>4. win[w].page # "closed"
    BY <1>1 DEF IInv, Sound, Pending
  <2>5. faults' \in Nat /\ faults <= faults' /\ orphan' \in [Windows -> Orphan \cup {None}]
    BY <1>1 DEF TypeOK
  <2> QED
    BY <1>1, <1>3, <2>3, <2>4, <2>5, AnsweredStep
<1> QED
  BY <1>2, <1>3 DEF Answer

LEMMA FailStep == ASSUME IInv, NEW w \in Windows, Fail(w) PROVE IInv'
<1>1. /\ TypeOK /\ win[w] \in Editor /\ win[w].req # None /\ win[w].req \in Request
      /\ UNCHANGED <<kind, rows, created, edits, loads, repeats>>
      /\ faults \in Nat /\ faults' = faults + 1
      /\ orphan \in [Windows -> Orphan \cup {None}]
  BY Typed DEF IInv, Fail, Running, TypeOK
<1> DEFINE x == [win[w] EXCEPT !.pill = "error"]
<1>2. x \in Editor /\ SamePage(win[w], x) /\ x.id = win[w].id /\ x.id \in Rows \cup {0}
  BY <1>1 DEF Editor, SamePage
<1>3. Failed(win[w]) = Drained(x, FALSE, win[w].id) /\ Becomes(w, Failed(win[w]))
  BY DEF Failed, Fail
<1> HIDE DEF x
<1>4. PICK y \in Editor : y = Drained(x, FALSE, win[w].id)
  BY <1>2, DrainedKeeps
<1>5. SamePage(x, y) /\ (y.req = None \/ JustSent(x, win[w].id, y.req))
  BY <1>2, <1>4, DrainedKeeps
<1>6. SamePage(win[w], y) /\ (y.req = None \/ JustSent(win[w], win[w].id, y.req))
  BY <1>2, <1>5 DEF SamePage, JustSent
<1>7. win[w].page # "closed"
  BY <1>1 DEF IInv, Sound, Pending
<1>8. orphan' \in [Windows -> Orphan \cup {None}]
  <2>1. PICK o \in Orphan : o = Alone(win[w])
    BY <1>1, AloneType
  <2>2. orphan' = orphan \/ orphan' = [orphan EXCEPT ![w] = o]
    BY <2>1 DEF Fail
  <2> QED
    BY <1>1, <2>2
<1>9. faults' \in Nat /\ faults <= faults' /\ faults' # 0
  BY <1>1
<1> QED
  BY <1>1, <1>3, <1>4, <1>6, <1>7, <1>8, <1>9, AnsweredStep

\* The rows grow and no window notices.
LEMMA UnseenStep ==
  ASSUME IInv, rows' \in [Rows -> Seq(Form)], Grown,
         orphan' \in [Windows -> Orphan \cup {None}], NEW w \in Windows,
         UNCHANGED <<kind, edits, faults, loads, repeats, win, draft, created>>
  PROVE  IInv'
<1>1. TypeOK /\ Sound(w) /\ win[w] \in Editor /\ created[w] \in Nat
      /\ {edits, faults, loads, repeats} \subseteq Nat
  BY Typed, Counters DEF IInv
<1>2. PICK y \in Editor, c \in Nat : y = win[w] /\ c = created[w]
  BY <1>1
<1>3. Knows(y) /\ Pending(y, c)
  BY <1>1, <1>2 DEF Sound
<1>4. Knows(y)' /\ Pending(y, c)'
  BY <1>1, <1>3, KnowledgeLasts
<1>5. Pending(y, created[w])' /\ OneRow(y, created[w])'
  BY <1>1, <1>2, <1>4 DEF Pending, LeftIn, Sound, OneRow
<1>6. /\ win' = [win EXCEPT ![w] = y] /\ faults <= faults'
      /\ {edits', faults', loads', repeats'} \subseteq Nat
      /\ created' \in [Windows -> Nat] /\ draft' \in [Slots -> Form \cup {None}]
      /\ \A v \in Windows \ {w} : created'[v] = created[v]
  BY <1>1, <1>2 DEF TypeOK
<1> QED
  BY <1>4, <1>5, <1>6, WindowStep

LEMMA ServeOrphanStep ==
  ASSUME IInv, NEW w \in Windows, ServeOrphan(w) PROVE IInv'
<1>1. /\ TypeOK /\ rows \in [Rows -> Seq(Form)]
      /\ orphan \in [Windows -> Orphan \cup {None}] /\ orphan[w] # None
      /\ UNCHANGED <<kind, edits, faults, loads, repeats, win, draft, created>>
  BY DEF IInv, TypeOK, ServeOrphan
<1>2. /\ orphan[w].req \in Request /\ orphan[w].next \in Form \cup {None}
      /\ orphan[w].recovered \in BOOLEAN
  BY <1>1 DEF Orphan
<1>3. PICK q \in IF orphan[w].req.stage = "sent" THEN Served(orphan[w].req)
                 ELSE {orphan[w].req} :
        /\ IF orphan[w].req.stage = "sent" THEN Writes(q) ELSE UNCHANGED rows
        /\ orphan' = [orphan EXCEPT ![w] =
              IF q.stage = "stale" \/ orphan[w].next = None THEN None
              ELSE [req |-> [q EXCEPT !.stage = "sent",
                                      !.id = IF ClosesOverId THEN q.id ELSE q.row,
                                      !.seen = q.at,
                                      !.form = orphan[w].next,
                                      !.recovered = orphan[w].recovered],
                    next |-> None, recovered |-> FALSE]]
  BY DEF ServeOrphan
<1>4. q \in Request /\ rows' \in [Rows -> Seq(Form)] /\ Grown
  BY <1>1, <1>2, <1>3, ServedKeeps, StillGrown
<1> DEFINE id == IF ClosesOverId THEN q.id ELSE q.row
           next == [q EXCEPT !.stage = "sent", !.id = id, !.seen = q.at,
                             !.form = orphan[w].next,
                             !.recovered = orphan[w].recovered]
           o == IF q.stage = "stale" \/ orphan[w].next = None THEN None
                ELSE [req |-> next, next |-> None, recovered |-> FALSE]
<1>5. id \in Rows \cup {0} /\ q.at \in Nat
  BY <1>4 DEF Request
<1> HIDE DEF id
<1>6. orphan[w].next # None => next \in Request
  BY <1>2, <1>4, <1>5 DEF Request
<1>7. o \in Orphan \cup {None}
  BY <1>6 DEF Orphan
<1>8. orphan' = [orphan EXCEPT ![w] = o]
  BY <1>3 DEF id
<1> HIDE DEF o
<1> QED
  BY <1>1, <1>4, <1>7, <1>8, UnseenStep

LEMMA LoseOrphanStep ==
  ASSUME IInv, NEW w \in Windows, LoseOrphan(w) PROVE IInv'
<1>1. TypeOK /\ Grown /\ rows' \in [Rows -> Seq(Form)]
      /\ orphan' \in [Windows -> Orphan \cup {None}]
  BY StillGrown DEF IInv, TypeOK, LoseOrphan
<1> QED
  BY <1>1, UnseenStep DEF LoseOrphan

LEMMA InitInv == Init => IInv
<1> SUFFICES ASSUME Init PROVE IInv
  OBVIOUS
<1>1. PICK r \in Starts, first \in Windows :
        /\ rows = [s \in Rows |-> IF s = r THEN <<Blank>> ELSE <<>>]
        /\ win = [w \in Windows |-> IF r # 0 \/ w = first
                                    THEN Opened(kind, r) ELSE Closed]
  BY DEF Init
<1>2. r \in Rows \cup {0} /\ kind \in Kinds
  BY <1>1, DocumentAssumption DEF Init, DocumentAssumption
<1>3. <<Blank>> \in Seq(Form) /\ <<>> \in Seq(Form)
  BY FormTypes
<1>4. rows \in [Rows -> Seq(Form)]
  BY <1>1, <1>3
<1>5. /\ Opened(kind, r) \in Editor /\ Opened(kind, r).req = None
      /\ Opened(kind, r).id = r /\ Opened(kind, r).url = r
      /\ Opened(kind, r).version = 0
      /\ r # 0 => Opened(kind, r).base = Blank
  BY ZenonT(60), <1>2, FormTypes, ClosedType DEF Opened, Closed, Editor
<1>6. win \in [Windows -> Editor]
  BY <1>1, <1>5, ClosedType
<1>7. TypeOK
  BY <1>2, <1>4, <1>6 DEF Init, TypeOK
<1>8. ASSUME NEW w \in Windows PROVE Sound(w)
  <2>1. CASE win[w] = Closed
    BY <2>1, ClosedType DEF Init, Sound, Knows, Pending, OneRow
  <2>2. CASE win[w] = Opened(kind, r)
    <3>1. r # 0 => rows[r] = <<Blank>>
      BY <1>1, <1>2
    <3>2. r # 0 => Len(rows[r]) = 1 /\ rows[r][1] = Blank /\ rows[r] # <<>>
      <4>1. \A f : Len(<<f>>) = 1 /\ <<f>>[1] = f
        OBVIOUS
      <4>2. \A f : <<f>> # <<>>
        <5>1. Len(<<>>) = 0
          OBVIOUS
        <5> QED
          BY <4>1, <5>1
      <4> QED
        BY <3>1, <4>1, <4>2
    <3>3. Knows(win[w])
      <4>1. /\ win[w].url = r /\ win[w].id = r /\ win[w].version = 0
            /\ r # 0 => win[w].base = Blank
        BY <2>2, <1>5
      <4>2. r # 0 => rows[r][0 + 1] = Blank
        BY <3>2
      <4> QED
        BY <3>2, <4>1, <4>2 DEF Knows
    <3>4. created[w] = 0
      BY DEF Init
    <3> QED
      BY <2>2, <1>5, <3>3, <3>4 DEF Sound, Pending, OneRow
  <2> QED
    BY <1>1, <2>1, <2>2
<1> QED
  BY <1>7, <1>8 DEF IInv

LEMMA StepInv == IInv /\ [Next]_vars => IInv'
<1> SUFFICES ASSUME IInv, [Next]_vars PROVE IInv'
  OBVIOUS
<1>1. CASE UNCHANGED vars
  BY <1>1 DEF vars, IInv, TypeOK, Sound, Knows, Pending, LeftIn, OneRow
<1>2. ASSUME NEW w \in Windows, Step(w) PROVE IInv'
  BY <1>2, TypeStep, SaveStep, AutosaveStep, LeaveStep, StayStep,
     LeaveWithoutStep, RestoreStep, DiscardStep, OpenStep, ReloadStep,
     ArriveStep, RefreshStep, ServeStep, AnswerStep, FailStep,
     ServeOrphanStep, LoseOrphanStep
  DEF Step
<1> QED
  BY <1>1, <1>2 DEF Next

-----------------------------------------------------------------------------
(* The theorems.                                                           *)

\* What every window knows of its row and of its request.
THEOREM InductiveInvariant == Spec => []IInv
  BY InitInv, StepInv, PTL DEF Spec

\* Every value has its type.
THEOREM TypeCorrect == Spec => []TypeOK
<1>1. IInv => TypeOK
  BY DEF IInv
<1> QED
  BY <1>1, InductiveInvariant, PTL

\* A window that reads Saved shows what its row held at its version.
THEOREM SavedStored == Spec => []SavedIsStored
<1>1. ASSUME IInv PROVE SavedIsStored
  BY <1>1 DEF IInv, Sound, Knows, SavedIsStored, ReadsSaved, Known, Dirty
<1> QED
  BY <1>1, InductiveInvariant, PTL

\* A page creates one row, unless an answer was lost.
THEOREM OneRowEach == Spec => []OneRowPerPage
<1>1. ASSUME IInv PROVE OneRowPerPage
  <2> SUFFICES ASSUME kind # "menu", faults = 0, NEW w \in Windows
               PROVE  created[w] <= 1
    BY DEF OneRowPerPage
  <2>1. created[w] = 0 \/ created[w] = 1
    BY <1>1 DEF IInv, Sound, OneRow
  <2> QED
    BY <2>1
<1> QED
  BY <1>1, InductiveInvariant, PTL


-----------------------------------------------------------------------------
(* What a save replaces.                                                   *)

\* Rendering keeps what is on its way, and where the page is.
LEMMA BecomesReq ==
  ASSUME TypeOK, NEW w \in Windows, NEW y \in Editor, Becomes(w, y)
  PROVE  win'[w].req = y.req /\ win'[w].page = y.page
<1>1. win' = [win EXCEPT ![w] = Addressed(y)] /\ win \in [Windows -> Editor]
  BY DEF Becomes, TypeOK
<1> QED
  BY <1>1, AddressedKeeps

\* A step of one window leaves the editors of the others.
LEMMA OtherWindows ==
  ASSUME TypeOK, NEW v \in Windows, NEW w \in Windows, v # w, Step(v)
  PROVE  win'[w] = win[w]
<1>1. win \in [Windows -> Editor]
  BY DEF TypeOK
<1>2. \A y : Becomes(v, y) \/ Mounts(v, y) \/ win' = [win EXCEPT ![v] = y]
             => win'[w] = win[w]
  BY <1>1 DEF Becomes, Mounts
<1>3. \/ \E y : Becomes(v, y) \/ Mounts(v, y) \/ win' = [win EXCEPT ![v] = y]
      \/ win' = win
  <2>1. CASE \/ Type(v) \/ Save(v) \/ Autosave(v) \/ Leave(v) \/ Stay(v)
             \/ LeaveWithout(v) \/ Restore(v) \/ Refresh(v) \/ Answer(v) \/ Fail(v)
    <3> HIDE DEF Becomes
    <3> QED
      BY <2>1 DEF Type, Save, Autosave, Leave, Stay, LeaveWithout, Restore,
         Refresh, Answer, Fail
  <2>2. CASE Open(v) \/ Reload(v) \/ Arrive(v)
    BY <2>2 DEF Open, Reload, Arrive, Load
  <2>3. CASE Discard(v)
    BY <1>1, <2>3 DEF Discard
  <2>4. CASE DiscardMine(v)
    BY <1>1, <2>4 DEF DiscardMine
  <2>5. CASE Serve(v)
    BY <1>1, <2>5 DEF Serve
  <2>6. CASE ServeOrphan(v) \/ LoseOrphan(v)
    BY <2>6 DEF ServeOrphan, LoseOrphan
  <2> QED
    BY <2>1, <2>2, <2>3, <2>4, <2>5, <2>6 DEF Step
<1> QED
  BY <1>2, <1>3

\* Of a window's own request, sent: nothing but the server lands it.
LEMMA OnlyServeLands ==
  ASSUME IInv, NEW w \in Windows, Running(win[w]), win[w].req.stage = "sent",
         [Next]_vars, ~Serve(w),
         win'[w].req # None, win'[w].req.stage = "landed"
  PROVE  FALSE
<1>1. /\ TypeOK /\ win[w] \in Editor /\ win \in [Windows -> Editor]
      /\ win[w].page # "closed" /\ win[w].req # None
  BY Typed DEF IInv, Sound, Pending, Running, TypeOK
<1>2. SUFFICES win'[w].req = win[w].req \/ win'[w].req = None
               \/ win'[w].req.stage = "sent"
  OBVIOUS
<1>3. SUFFICES ASSUME NEW v \in Windows, Step(v)
               PROVE  win'[w].req = win[w].req \/ win'[w].req = None
                      \/ win'[w].req.stage = "sent"
  BY DEF Next, vars
<1>4. CASE ServeOrphan(v) \/ LoseOrphan(v)
  BY <1>4 DEF ServeOrphan, LoseOrphan
<1>5. CASE v # w
  BY <1>1, <1>3, <1>5, OtherWindows
<1>6. ASSUME Type(w) PROVE win'[w].req = win[w].req
  <2>1. CASE \E s \in Shapes(kind) :
                Becomes(w, [win[w] EXCEPT !.form.n = edits', !.form.shape = s])
    BY <1>1, <2>1 DEF Becomes, Addressed, Editor
  <2>2. CASE Becomes(w, PutBack(win[w], win[w].base))
    BY <1>1, <2>2, Typed, PutBackKeeps, BecomesReq
  <2> QED
    BY <1>6, <2>1, <2>2 DEF Type
<1>7. ASSUME NEW x \in Editor, NEW leaving \in BOOLEAN, x.req = win[w].req,
             Becomes(w, SaveAsked(x, leaving))
      PROVE  win'[w].req = win[w].req
  BY <1>1, <1>7, SaveAskedKeeps, BecomesReq
<1>8. ASSUME Leave(w) PROVE win'[w].req = win[w].req \/ win'[w].req = None
  <2>1. CASE Becomes(w, [win[w] EXCEPT !.leave = "asking"])
    BY <1>1, <2>1 DEF Becomes, Addressed, Editor
  <2>2. CASE Becomes(w, SaveAsked([win[w] EXCEPT !.leave = "saving",
                                                 !.owed = win[w].form.n], TRUE))
    <3> DEFINE x == [win[w] EXCEPT !.leave = "saving", !.owed = win[w].form.n]
    <3>1. x \in Editor /\ x.req = win[w].req
      BY <1>1 DEF Editor, Form
    <3>2. Becomes(w, SaveAsked(x, TRUE))
      BY <2>2
    <3> HIDE DEF x
    <3> QED
      BY <3>1, <3>2, <1>7
  <2>3. CASE Becomes(w, Closed)
    BY <1>1, <2>3, ClosedType, BecomesReq
  <2> QED
    BY <1>8, <2>1, <2>2, <2>3 DEF Leave
<1>9. ASSUME Fail(w) PROVE win'[w].req = None \/ win'[w].req.stage = "sent"
  <2>1. PICK x \in Editor : x = [win[w] EXCEPT !.pill = "error"]
    BY <1>1 DEF Editor
  <2>2. Failed(win[w]) = Drained(x, FALSE, win[w].id) /\ win[w].id \in Rows \cup {0}
    BY <1>1, <2>1, Typed DEF Failed
  <2>3. PICK y \in Editor :
          /\ y = Failed(win[w])
          /\ y.req = None \/ JustSent(x, win[w].id, y.req)
    BY <2>1, <2>2, DrainedKeeps, ClosedType
  <2>4. win'[w].req = y.req
    BY <1>1, <1>9, <2>3, BecomesReq DEF Fail
  <2> QED
    BY <2>3, <2>4 DEF JustSent
<1>10. ASSUME Reload(w) \/ Arrive(w) PROVE win'[w].req = None
  <2>1. Loaded(w, win[w].url) \in Editor /\ Loaded(w, win[w].url).req = None
    BY <1>1, UrlExists, LoadedType
  <2> QED
    BY <1>1, <1>10, <2>1 DEF Reload, Arrive, Load, Mounts, Editor
<1>11. ASSUME Stay(w) \/ Discard(w) \/ DiscardMine(w) \/ Refresh(w)
       PROVE  win'[w].req = win[w].req
  <2>1. CASE Stay(w)
    BY <1>1, <2>1 DEF Stay, Becomes, Addressed, Editor
  <2>2. CASE Discard(w) \/ DiscardMine(w)
    BY <1>1, <2>2 DEF Discard, DiscardMine, Editor
  <2>3. CASE Refresh(w)
    BY <1>1, <2>3 DEF Refresh, Becomes, Addressed, Editor
  <2> QED
    BY <1>11, <2>1, <2>2, <2>3
<1>12. ASSUME Restore(w) PROVE win'[w].req = win[w].req
  <2>1. win[w].offered \in Form
    BY <1>1, <1>12 DEF Restore, Editor
  <2>2. PICK x \in Editor : x = PutBack(win[w], win[w].offered) /\ x.req = win[w].req
    BY <1>1, <2>1, PutBackKeeps
  <2> QED
    BY <1>1, <1>12, <2>2 DEF Restore, Becomes, Addressed, Editor
<1>13. ASSUME LeaveWithout(w) PROVE win'[w].req = None
  BY <1>1, <1>13, ClosedType, BecomesReq DEF LeaveWithout
<1>14. ~Open(w) /\ ~Answer(w)
  BY <1>1 DEF Open, Answer
<1>15. Save(w) \/ Autosave(w) => win'[w].req = win[w].req
  BY <1>1, <1>7 DEF Save, Autosave
<1>16. CASE v = w
  <2>1. Step(w)
    BY <1>3, <1>16
  <2> QED
    BY <2>1, <1>4, <1>16, <1>6, <1>8, <1>9, <1>10, <1>11, <1>12, <1>13, <1>14, <1>15
    DEF Step
<1> QED
  BY <1>5, <1>16

\* A save replaces only what its page had itself loaded or stored.
THEOREM ReplacesKnown == Spec => ReplacesOnlyWhatItKnew
<1>1. ASSUME IInv, [Next]_vars, NEW w \in Windows,
             Running(win[w]), win[w].req.stage = "sent",
             win'[w].req # None, win'[w].req.stage = "landed",
             win'[w].req.id # 0, kind # "form", created[w] <= 1, ~win[w].behind
      PROVE  Held(win'[w].req.id) = win[w].base
  <2>1. Serve(w)
    BY <1>1, OnlyServeLands
  <2>2. /\ TypeOK /\ Sound(w) /\ win[w].req \in Request /\ win[w].req # None
        /\ win \in [Windows -> Editor] /\ win[w] \in Editor
    BY <1>1, Typed DEF IInv, Running, TypeOK
  <2>3. PICK q \in Served(win[w].req) :
          Writes(q) /\ win' = [win EXCEPT ![w].req = q]
    BY <2>1 DEF Serve
  <2>4. win'[w].req = q
    BY <2>2, <2>3 DEF Editor
  <2>5. /\ q.id = win[w].req.id /\ q.seen = win[w].req.seen
        /\ rows[q.id] \in Seq(Form) /\ q.seen = Version(q.id)
    BY <1>1, <2>2, <2>3, <2>4, ServedKeeps
  <2>6. /\ win[w].req.id = win[w].id /\ win[w].req.seen = win[w].version
        /\ rows[win[w].id][win[w].version + 1] = win[w].base
    BY <1>1, <2>2, <2>4, <2>5 DEF Sound, Pending, Knows
  <2>7. Len(rows[q.id]) \in Nat /\ win[w].version + 1 = Len(rows[q.id])
    <3>1. win[w].version = Len(rows[q.id]) - 1
      BY <2>5, <2>6 DEF Version
    <3>2. PICK n \in Nat : n = Len(rows[q.id])
      BY <2>5
    <3> QED
      BY <3>1, <3>2
  <2>8. Held(q.id) = rows[win[w].id][win[w].version + 1]
    BY <2>5, <2>6, <2>7 DEF Held
  <2> QED
    BY <2>4, <2>6, <2>8
<1>2. IInv /\ [Next]_vars =>
        [\A w \in Windows :
            LET q == win'[w].req
            IN  /\ Running(win[w]) /\ win[w].req.stage = "sent"
                /\ q # None /\ q.stage = "landed" /\ q.id # 0
                /\ kind # "form" /\ created[w] <= 1 /\ ~win[w].behind
                => Held(q.id) = win[w].base]_vars
  BY <1>1
<1> QED
  BY <1>2, InductiveInvariant, PTL DEF Spec, ReplacesOnlyWhatItKnew

-----------------------------------------------------------------------------
(* What a link that saves on the way out waits for.                        *)

\* Every form of an editor was typed by edit e.
Written(x, e) ==
    /\ x.form.n <= e /\ x.base.n <= e
    /\ x.req # None => x.req.form.n <= e
    /\ x.offered # None => x.offered.n <= e

\* What a leaving page owes is on the page, and on its way unless a newer form
\* is queued behind it.
Owing(x) == x.leave = "saving" => x.page # "closed" /\ x.owed <= x.form.n
Owes(x) ==
    /\ Owing(x)
    /\ x.leave = "saving" /\ x.req # None /\ ~x.queued => x.owed <= x.req.form.n

Fits(x, e) == Written(x, e) /\ Owes(x)

LEMMA NumberTypes ==
  /\ Blank.n = 0 /\ \A k : Fresh(k).n = 0
  /\ \A f \in Form : f.n \in Nat /\ Stored(f).n = f.n
  BY DEF Form, Blank, Fresh, Stored

LEMMA EditorNumbers ==
  ASSUME NEW x \in Editor
  PROVE  /\ x.form \in Form /\ x.base \in Form /\ x.owed \in Nat
         /\ x.form.n \in Nat /\ x.base.n \in Nat
         /\ x.req # None => x.req \in Request /\ x.req.form \in Form /\ x.req.form.n \in Nat
         /\ x.offered # None => x.offered \in Form /\ x.offered.n \in Nat
  BY DEF Editor, Request, Form

LEMMA ClosedFits == ASSUME NEW e \in Nat PROVE Fits(Closed, e)
<1>1. /\ Closed.form = Blank /\ Closed.base = Blank /\ Closed.req = None
      /\ Closed.offered = None /\ Closed.leave = "no"
  BY DEF Closed
<1> QED
  BY <1>1, NumberTypes DEF Fits, Written, Owes, Owing

LEMMA EndedFits ==
  ASSUME NEW e \in Nat, NEW x \in Editor, NEW ok \in BOOLEAN, Written(x, e), Owes(x) \/ ~ok
  PROVE  Fits(Ended(x, ok), e)
<1>1. CASE x.leave # "saving"
  BY <1>1 DEF Ended, Fits, Owes, Owing
<1>2. CASE x.leave = "saving" /\ ok
  BY <1>2, ClosedFits DEF Ended
<1>3. CASE x.leave = "saving" /\ ~ok
  <2>1. PICK y : y = [x EXCEPT !.leave = "asking"]
    OBVIOUS
  <2>2. /\ y.form = x.form /\ y.base = x.base /\ y.req = x.req
        /\ y.offered = x.offered /\ y.leave = "asking"
    BY <2>1 DEF Editor
  <2>3. Ended(x, ok) = y
    BY <1>3, <2>1 DEF Ended
  <2> QED
    BY <2>2, <2>3 DEF Fits, Written, Owes, Owing
<1> QED
  BY <1>1, <1>2, <1>3

LEMMA SentFits ==
  ASSUME NEW e \in Nat, NEW x \in Editor, NEW id \in Rows \cup {0},
         NEW leaving \in BOOLEAN, Written(x, e), Owing(x)
  PROVE  Fits(Sent(x, id, leaving), e)
<1>1. CASE x.form.shape = "invalid"
  <2>1. PICK y : y = [x EXCEPT !.req = None, !.queued = FALSE,
                               !.pill = IF Drafting THEN "saved" ELSE @]
    OBVIOUS
  <2>2. /\ y.form = x.form /\ y.base = x.base /\ y.req = None
        /\ y.offered = x.offered /\ y \in Editor
    BY <2>1, ZenonT(60) DEF Editor
  <2>3. Sent(x, id, leaving) = Ended(y, FALSE)
    BY <1>1, <2>1 DEF Sent
  <2>4. Written(y, e)
    BY <2>2 DEF Written
  <2> QED
    BY <2>2, <2>3, <2>4, EndedFits
<1>2. CASE x.form.shape # "invalid"
  <2>1. PICK q : q = [id |-> id, seen |-> x.version, form |-> x.form,
                      leaving |-> leaving, recovered |-> x.recovered,
                      stage |-> "sent", row |-> 0, at |-> 0]
    OBVIOUS
  <2>2. PICK y : y = [x EXCEPT !.pill = "saving", !.queued = FALSE, !.req = q]
    OBVIOUS
  <2>3. Sent(x, id, leaving) = y
    BY <1>2, <2>1, <2>2 DEF Sent
  <2>4. /\ y.form = x.form /\ y.base = x.base /\ y.req = q /\ y.offered = x.offered
        /\ y.leave = x.leave /\ y.owed = x.owed /\ y.page = x.page
    BY <2>2 DEF Editor
  <2>5. q.form = x.form
    BY <2>1
  <2> QED
    BY <2>3, <2>4, <2>5 DEF Fits, Written, Owes, Owing
<1> QED
  BY <1>1, <1>2

\* A save asked for while one is on its way either has the same form or queues
\* one, so a link may start to wait for it.
LEMMA SaveAskedFits ==
  ASSUME NEW e \in Nat, NEW x \in Editor, NEW leaving \in BOOLEAN,
         Written(x, e), Owing(x), Drafting \/ Owes(x)
  PROVE  Fits(SaveAsked(x, leaving), e)
<1>1. CASE Drafting /\ x.pill = "conflict"
  <2>1. SaveAsked(x, leaving) = Ended(x, FALSE)
    BY <1>1 DEF SaveAsked
  <2> QED
    BY <2>1, EndedFits
<1>2. CASE Drafting /\ x.pill # "conflict" /\ Running(x)
  <2>1. PICK y : y = [x EXCEPT !.queued = @ \/ OutranRequest(x)]
    OBVIOUS
  <2>2. SaveAsked(x, leaving) = y
    BY <1>2, <2>1 DEF SaveAsked
  <2>3. /\ y.form = x.form /\ y.base = x.base /\ y.req = x.req /\ y.offered = x.offered
        /\ y.leave = x.leave /\ y.owed = x.owed /\ y.page = x.page
    BY <2>1 DEF Editor
  <2>4. ~y.queued => x.form = x.req.form
    BY <2>1 DEF Editor, OutranRequest
  <2> QED
    BY <2>2, <2>3, <2>4 DEF Fits, Written, Owes, Owing
<1>3. CASE ~Drafting /\ (Running(x) \/ (x.id # 0 /\ ~Dirty(x)))
  <2>1. SaveAsked(x, leaving) = x
    BY <1>3 DEF SaveAsked
  <2> QED
    BY <1>3, <2>1 DEF Fits
<1>4. CASE /\ ~(Drafting /\ x.pill = "conflict")
           /\ ~(Drafting /\ x.pill # "conflict" /\ Running(x))
           /\ ~(~Drafting /\ (Running(x) \/ (x.id # 0 /\ ~Dirty(x))))
  <2>1. SaveAsked(x, leaving) = Sent(x, x.id, leaving)
    BY <1>4 DEF SaveAsked
  <2>2. x.id \in Rows \cup {0}
    BY DEF Editor
  <2> QED
    BY <2>1, <2>2, SentFits
<1> QED
  BY <1>1, <1>2, <1>3, <1>4

LEMMA DrainedFits ==
  ASSUME NEW e \in Nat, NEW x \in Editor, NEW ok \in BOOLEAN,
         NEW id \in Rows \cup {0}, Fits(x, e)
  PROVE  Fits(Drained(x, ok, id), e)
<1>1. CASE x.queued
  <2>1. Drained(x, ok, id) = Sent(x, id, x.leave = "saving")
    BY <1>1 DEF Drained
  <2>2. (x.leave = "saving") \in BOOLEAN
    BY Zenon
  <2> QED
    BY <2>1, <2>2, SentFits DEF Fits, Owes
<1>2. CASE ~x.queued
  <2>1. PICK y : y = [x EXCEPT !.req = None]
    OBVIOUS
  <2>2. /\ y.form = x.form /\ y.base = x.base /\ y.req = None /\ y.offered = x.offered
        /\ y.leave = x.leave /\ y.owed = x.owed /\ y.page = x.page /\ y \in Editor
    BY <2>1 DEF Editor
  <2>3. Drained(x, ok, id) = Ended(y, ok)
    BY <1>2, <2>1 DEF Drained
  <2>4. Written(y, e) /\ Owes(y)
    BY <2>2 DEF Fits, Written, Owes, Owing
  <2> QED
    BY <2>2, <2>3, <2>4, EndedFits
<1> QED
  BY <1>1, <1>2

LEMMA LandedFits ==
  ASSUME NEW e \in Nat, NEW x \in Editor, x.req # None, x.page # "closed",
         x.req.row \in Rows, Fits(x, e)
  PROVE  Fits(Landed(x), e)
<1> DEFINE q == x.req
           page == IF q.id = 0 /\ ~q.leaving /\ kind # "recipe"
                   THEN "moving" ELSE x.page
           url == IF q.id = 0 /\ (q.leaving \/ kind # "recipe")
                  THEN q.row ELSE x.url
           behind == "half" \in {x.form.shape, q.form.shape}
           y == [x EXCEPT !.id = q.row, !.version = q.at, !.base = Baseline(x),
                          !.behind = behind, !.url = url, !.page = page,
                          !.pill = "saved"]
           id == IF ClosesOverId THEN x.id ELSE q.row
<1>1. /\ q \in Request /\ q.form \in Form /\ q.at \in Nat /\ x.page \in {"open", "moving"}
      /\ x.form \in Form /\ x.base \in Form /\ x.id \in Rows \cup {0}
      /\ x.url \in Rows \cup {0}
  BY DEF Editor, Request
<1>2. Landed(x) = Drained(y, TRUE, id)
  BY DEF Landed
<1>3. Baseline(x) \in {x.base, q.form}
  BY DEF Baseline
<1>4. /\ page \in {"open", "moving"} /\ url \in Rows \cup {0} /\ behind \in BOOLEAN
      /\ id \in Rows \cup {0}
  BY <1>1
<1> HIDE DEF page, url, behind, id
<1>5. /\ y \in Editor /\ y.form = x.form /\ y.base = Baseline(x) /\ y.req = x.req
      /\ y.offered = x.offered /\ y.leave = x.leave /\ y.owed = x.owed
      /\ y.page = page /\ y.queued = x.queued
  BY ZenonT(60), <1>1, <1>3, <1>4 DEF Editor
<1> HIDE DEF y
<1>6. Fits(y, e)
  BY <1>3, <1>4, <1>5 DEF Fits, Written, Owes, Owing
<1> QED
  BY <1>2, <1>4, <1>5, <1>6, DrainedFits

LEMMA RefusedFits ==
  ASSUME NEW e \in Nat, NEW x \in Editor, Fits(x, e)
  PROVE  Fits(Refused(x), e)
<1>1. PICK y : y = [x EXCEPT !.pill = "conflict", !.req = None, !.queued = FALSE]
  OBVIOUS
<1>2. /\ y \in Editor /\ y.form = x.form /\ y.base = x.base /\ y.req = None
      /\ y.offered = x.offered
  BY <1>1 DEF Editor
<1>3. Refused(x) = Ended(y, FALSE)
  BY <1>1 DEF Refused
<1> QED
  BY <1>2, <1>3, EndedFits DEF Fits, Written

LEMMA FailedFits ==
  ASSUME NEW e \in Nat, NEW x \in Editor, Fits(x, e)
  PROVE  Fits(Failed(x), e)
<1>1. PICK y : y = [x EXCEPT !.pill = "error"]
  OBVIOUS
<1>2. /\ y \in Editor /\ y.form = x.form /\ y.base = x.base /\ y.req = x.req
      /\ y.offered = x.offered /\ y.leave = x.leave /\ y.owed = x.owed
      /\ y.page = x.page /\ y.queued = x.queued
  BY <1>1 DEF Editor
<1>3. Failed(x) = Drained(y, FALSE, x.id) /\ x.id \in Rows \cup {0}
  BY <1>1 DEF Failed, Editor
<1>4. Fits(y, e)
  BY <1>2 DEF Fits, Written, Owes, Owing
<1> QED
  BY <1>2, <1>3, <1>4, DrainedFits

LEMMA AddressedFits ==
  ASSUME NEW e \in Nat, NEW x \in Editor, Fits(x, e)
  PROVE  Fits(Addressed(x), e) /\ Addressed(x).form = x.form
         /\ Addressed(x).page = x.page
<1>1. CASE kind = "recipe" /\ x.id # 0 /\ ~Dirty(x) /\ x.pill = "saved"
  <2>1. PICK y : y = [x EXCEPT !.url = x.id]
    OBVIOUS
  <2>2. /\ y.form = x.form /\ y.base = x.base /\ y.req = x.req
        /\ y.offered = x.offered /\ y.leave = x.leave /\ y.owed = x.owed
        /\ y.page = x.page /\ y.queued = x.queued
    BY <2>1 DEF Editor
  <2>3. Addressed(x) = y
    BY <1>1, <2>1 DEF Addressed
  <2> QED
    BY <2>2, <2>3 DEF Fits, Written, Owes, Owing
<1>2. CASE ~(kind = "recipe" /\ x.id # 0 /\ ~Dirty(x) /\ x.pill = "saved")
  BY <1>2 DEF Addressed
<1> QED
  BY <1>1, <1>2

LEMMA PutBackFits ==
  ASSUME NEW e \in Nat, NEW x \in Editor, Fits(x, e), NEW form \in Form, form.n <= e
  PROVE  Fits(PutBack(x, form), e)
<1>1. PICK o : o = IF x.owed <= form.n THEN x.owed ELSE form.n
  OBVIOUS
<1>2. PICK y : y = [x EXCEPT !.form = form, !.owed = o]
  OBVIOUS
<1>3. PutBack(x, form) = y
  BY <1>1, <1>2 DEF PutBack
<1>4. /\ y.form = form /\ y.base = x.base /\ y.req = x.req
      /\ y.offered = x.offered /\ y.leave = x.leave /\ y.owed = o
      /\ y.page = x.page /\ y.queued = x.queued
  BY <1>2 DEF Editor
<1>5. o <= form.n /\ o <= x.owed /\ o \in Nat
  BY <1>1, EditorNumbers, NumberTypes
<1>6. x.req # None /\ x.owed <= x.req.form.n => o <= x.req.form.n
  BY <1>5, EditorNumbers
<1> QED
  BY <1>3, <1>4, <1>5, <1>6 DEF Fits, Written, Owes, Owing

\* The copies an editor's effects leave.
LEMMA CopiesFit ==
  ASSUME TypeOK, NEW w \in Windows, NEW before \in Slots, NEW y \in Editor,
         NEW copies \in Copies(w, before, y), NEW s \in Slots, copies[s] # None
  PROVE  copies[s] = y.form \/ copies[s] = draft[s]
<1> DEFINE slot == Slot(w, y)
           moved == IF before = slot THEN draft
                    ELSE [draft EXCEPT ![before] = None]
<1>1. draft \in [Slots -> Form \cup {None}] /\ slot \in Slots
  BY SlotType DEF TypeOK
<1>2. moved \in [Slots -> Form \cup {None}] /\ moved[s] \in {draft[s], None}
  BY <1>1
<1>3. copies \in {draft} \cup {moved} \cup {[moved EXCEPT ![slot] = y.form]}
                   \cup {[moved EXCEPT ![slot] = None]}
  BY DEF Copies, DirtyCopies
<1> HIDE DEF moved, slot
<1>4. /\ [moved EXCEPT ![slot] = y.form][s] \in {moved[s], y.form}
      /\ [moved EXCEPT ![slot] = None][s] \in {moved[s], None}
  BY <1>1, <1>2
<1> QED
  BY <1>2, <1>3, <1>4

\* A loop left behind sends nothing typed after edit e.
OrphanFits(o, e) ==
    o # None => /\ o.req.form.n <= e
                /\ o.next # None => o.next.n <= e

\* Nothing anywhere was typed after the last edit, and nobody leaves owing more
\* than is on its way.
OwedInv ==
    /\ \A r \in Rows : \A i \in DOMAIN rows[r] : rows[r][i].n <= edits
    /\ \A s \in Slots : draft[s] # None => draft[s].n <= edits
    /\ \A w \in Windows : OrphanFits(orphan[w], edits)
    /\ \A w \in Windows : Fits(win[w], edits)

LEMMA FitsLasts ==
  ASSUME NEW d \in Nat, NEW e \in Nat, d <= e, NEW x \in Editor, Fits(x, d)
  PROVE  Fits(x, e)
  BY EditorNumbers DEF Fits, Written

LEMMA OwedInit == Init => OwedInv
<1> SUFFICES ASSUME Init PROVE OwedInv
  OBVIOUS
<1>1. PICK r \in Starts, first \in Windows :
        /\ rows = [s \in Rows |-> IF s = r THEN <<Blank>> ELSE <<>>]
        /\ win = [w \in Windows |-> IF r # 0 \/ w = first
                                    THEN Opened(kind, r) ELSE Closed]
  BY DEF Init
<1>2. edits = 0 /\ \A s \in Slots : draft[s] = None
  BY DEF Init
<1>3. \A w \in Windows : OrphanFits(orphan[w], edits)
  BY DEF Init, OrphanFits
<1>4. \A s \in Rows : \A i \in DOMAIN rows[s] : rows[s][i].n <= edits
  <2>1. DOMAIN <<Blank>> = {1} /\ <<Blank>>[1] = Blank
    OBVIOUS
  <2>2. \A s \in Rows : rows[s] = <<Blank>> \/ rows[s] = <<>>
    BY <1>1
  <2> QED
    BY <1>2, <2>1, <2>2, NumberTypes
<1>5. Fits(Opened(kind, r), 0)
  <2>1. PICK f : f = (IF r = 0 THEN Fresh(kind) ELSE Blank)
    OBVIOUS
  <2>2. /\ Opened(kind, r).form = f /\ Opened(kind, r).base = f
        /\ Opened(kind, r).req = None /\ Opened(kind, r).offered = None
        /\ Opened(kind, r).leave = "no"
    BY <2>1 DEF Opened, Closed
  <2>3. f.n = 0
    BY <2>1, NumberTypes
  <2> QED
    BY <2>2, <2>3 DEF Fits, Written, Owes, Owing
<1>6. \A w \in Windows : Fits(win[w], edits)
  BY <1>1, <1>2, <1>5, ClosedFits
<1> QED
  BY <1>2, <1>3, <1>4, <1>6 DEF OwedInv

LEMMA OrphanNumbers ==
  ASSUME NEW o \in Orphan \cup {None}, o # None
  PROVE  o.req.form.n \in Nat /\ (o.next # None => o.next.n \in Nat)
  BY DEF Orphan, Request, Form

\* Window w's editor becomes y.
LEMMA FitsStep ==
  ASSUME TypeOK, OwedInv, NEW w \in Windows, NEW y \in Editor, Fits(y, edits'),
         win' = [win EXCEPT ![w] = y], edits <= edits', edits' \in Nat,
         \A r \in Rows : \A i \in DOMAIN rows'[r] : rows'[r][i].n <= edits',
         \A s \in Slots : draft'[s] # None =>
             draft'[s] = y.form \/ draft'[s] = draft[s],
         \A v \in Windows : OrphanFits(orphan'[v], edits')
  PROVE  OwedInv'
<1>1. edits \in Nat /\ win \in [Windows -> Editor]
      /\ draft \in [Slots -> Form \cup {None}]
  BY DEF TypeOK
<1>2. ASSUME NEW v \in Windows PROVE Fits(win'[v], edits')
  <2>1. CASE v = w
    BY <1>1, <2>1
  <2>2. CASE v # w
    <3>1. win'[v] = win[v] /\ win[v] \in Editor /\ Fits(win[v], edits)
      BY <1>1, <2>2 DEF OwedInv
    <3>2. PICK x \in Editor : x = win[v]
      BY <3>1
    <3> QED
      BY <1>1, <3>1, <3>2, FitsLasts
  <2> QED
    BY <2>1, <2>2
<1>3. ASSUME NEW s \in Slots, draft'[s] # None PROVE draft'[s].n <= edits'
  <2>1. CASE draft'[s] = y.form
    BY <2>1 DEF Fits, Written
  <2>2. CASE draft'[s] = draft[s]
    <3>1. draft[s].n \in Nat /\ draft[s].n <= edits
      BY <1>1, <1>3, <2>2, NumberTypes DEF OwedInv
    <3> QED
      BY <1>1, <2>2, <3>1
  <2> QED
    BY <1>3, <2>1, <2>2
<1> QED
  BY <1>2, <1>3 DEF OwedInv

\* What was written before is still no newer than the last edit.
LEMMA RowsLast ==
  ASSUME TypeOK, OwedInv, UNCHANGED rows, edits <= edits', edits' \in Nat
  PROVE  \A r \in Rows : \A i \in DOMAIN rows'[r] : rows'[r][i].n <= edits'
<1> SUFFICES ASSUME NEW r \in Rows, NEW i \in DOMAIN rows[r]
             PROVE  rows[r][i].n <= edits'
  OBVIOUS
<1>1. rows[r] \in Seq(Form) /\ edits \in Nat
  BY DEF TypeOK
<1>2. rows[r][i].n \in Nat /\ rows[r][i].n <= edits
  BY <1>1, NumberTypes DEF OwedInv
<1> QED
  BY <1>1, <1>2

LEMMA OrphansLast ==
  ASSUME TypeOK, OwedInv, NEW v \in Windows, orphan'[v] = orphan[v],
         edits <= edits', edits' \in Nat
  PROVE  OrphanFits(orphan'[v], edits')
<1>1. edits \in Nat /\ orphan[v] \in Orphan \cup {None} /\ OrphanFits(orphan[v], edits)
  BY DEF TypeOK, OwedInv
<1> QED
  BY <1>1, OrphanNumbers DEF OrphanFits

LEMMA AbandonedFits ==
  ASSUME TypeOK, OwedInv, NEW w \in Windows, NEW v \in Windows,
         orphan' = Abandoned(w), edits' = edits
  PROVE  OrphanFits(orphan'[v], edits')
<1>1. /\ edits \in Nat /\ orphan \in [Windows -> Orphan \cup {None}]
      /\ OrphanFits(orphan[v], edits) /\ Fits(win[w], edits)
  BY DEF TypeOK, OwedInv
<1>2. CASE Running(win[w]) /\ v = w
  <2>1. PICK n : n = IF win[w].queued THEN win[w].form ELSE None
    OBVIOUS
  <2>2. orphan'[v] = [req |-> win[w].req, next |-> n,
                      recovered |-> win[w].recovered]
    BY <1>1, <1>2, <2>1 DEF Abandoned
  <2> QED
    BY <1>1, <1>2, <2>1, <2>2 DEF OrphanFits, Fits, Written, Running
<1>3. CASE ~(Running(win[w]) /\ v = w)
  <2>1. orphan'[v] = orphan[v]
    BY <1>1, <1>3 DEF Abandoned
  <2> QED
    BY <1>1, <2>1 DEF OrphanFits
<1> QED
  BY <1>2, <1>3

LEMMA BecomesFits ==
  ASSUME TypeOK, OwedInv, NEW w \in Windows, NEW y \in Editor, Fits(y, edits'),
         Becomes(w, y), edits <= edits', edits' \in Nat, UNCHANGED rows,
         \A v \in Windows : OrphanFits(orphan'[v], edits')
  PROVE  OwedInv'
<1>1. PICK z \in Editor : z = Addressed(y)
  BY AddressedKeeps
<1>2. Fits(z, edits') /\ z.form = y.form
  <2>1. PICK e \in Nat : e = edits'
    OBVIOUS
  <2> QED
    BY <1>1, <2>1, AddressedFits
<1>3. /\ win' = [win EXCEPT ![w] = z] /\ draft' \in Copies(w, Slot(w, win[w]), z)
      /\ Slot(w, win[w]) \in Slots
  BY <1>1, SlotType, Typed DEF Becomes
<1>4. \A s \in Slots : draft'[s] # None => draft'[s] = z.form \/ draft'[s] = draft[s]
  BY <1>3, CopiesFit
<1> QED
  BY <1>2, <1>3, <1>4, RowsLast, FitsStep

LEMMA LoadedFits ==
  ASSUME TypeOK, OwedInv, NEW w \in Windows, NEW r \in Rows \cup {0},
         r # 0 => rows[r] # <<>>
  PROVE  Fits(Loaded(w, r), edits)
<1>1. PICK held : held = IF r = 0 THEN Fresh(kind) ELSE Held(r)
  OBVIOUS
<1>2. PICK offer : offer = IF Drafting /\ draft[IF r = 0 THEN w ELSE r] # held
                           THEN draft[IF r = 0 THEN w ELSE r] ELSE None
  OBVIOUS
<1>3. PICK version : version = IF r = 0 THEN 0 ELSE Version(r)
  OBVIOUS
<1>4. Loaded(w, r) =
        [Closed EXCEPT !.page = "open", !.id = r, !.url = r, !.form = held,
                       !.base = held, !.version = version, !.offered = offer]
  BY <1>1, <1>2, <1>3 DEF Loaded
<1>5. /\ Loaded(w, r).form = held /\ Loaded(w, r).base = held
      /\ Loaded(w, r).req = None /\ Loaded(w, r).offered = offer
      /\ Loaded(w, r).leave = "no"
  BY <1>4 DEF Closed
<1>6. held.n <= edits
  <2>1. CASE r = 0
    BY <1>1, <2>1, NumberTypes DEF TypeOK
  <2>2. CASE r # 0
    <3>1. rows[r] \in Seq(Form) /\ rows[r] # <<>> /\ held = rows[r][Len(rows[r])]
      BY <1>1, <2>2 DEF Held, TypeOK
    <3>2. Len(rows[r]) \in DOMAIN rows[r]
      BY <3>1
    <3> QED
      BY <2>2, <3>1, <3>2 DEF OwedInv
  <2> QED
    BY <2>1, <2>2
<1>7. offer # None => offer.n <= edits
  <2>1. (IF r = 0 THEN w ELSE r) \in Slots
    BY DEF Slots
  <2> QED
    BY <1>2, <2>1 DEF OwedInv
<1> QED
  BY <1>5, <1>6, <1>7 DEF Fits, Written, Owes, Owing

LEMMA MountsFits ==
  ASSUME TypeOK, OwedInv, NEW w \in Windows, NEW r \in Rows \cup {0},
         r # 0 => rows[r] # <<>>, Mounts(w, Loaded(w, r)), UNCHANGED <<rows, edits>>,
         \A v \in Windows : OrphanFits(orphan'[v], edits')
  PROVE  OwedInv'
<1>1. PICK y \in Editor : y = Loaded(w, r)
  BY LoadedType
<1>2. Fits(y, edits) /\ edits \in Nat
  BY <1>1, LoadedFits DEF TypeOK
<1>3. /\ win' = [win EXCEPT ![w] = y] /\ draft' \in Copies(w, Slot(w, y), y)
      /\ Slot(w, y) \in Slots
  BY <1>1, SlotType DEF Mounts
<1>4. \A s \in Slots : draft'[s] # None => draft'[s] = y.form \/ draft'[s] = draft[s]
  BY <1>3, CopiesFit
<1>5. Fits(y, edits') /\ edits <= edits' /\ edits' \in Nat
  BY <1>2
<1> QED
  BY <1>3, <1>4, <1>5, RowsLast, FitsStep

\* The cook types, saves, leaves or stays.
LEMMA TypeFits ==
  ASSUME TypeOK, OwedInv, NEW w \in Windows, Type(w) PROVE OwedInv'
<1>1. /\ win[w] \in Editor /\ Fits(win[w], edits) /\ edits \in Nat
      /\ UNCHANGED <<rows, orphan>>
  BY Typed DEF OwedInv, Type, Same, TypeOK
<1>2. CASE /\ edits' = edits + 1
           /\ \E s \in Shapes(kind) :
                 Becomes(w, [win[w] EXCEPT !.form.n = edits', !.form.shape = s])
  <2>1. PICK s \in Shapes(kind) :
          Becomes(w, [win[w] EXCEPT !.form.n = edits', !.form.shape = s])
    BY <1>2
  <2>2. PICK e \in Nat : e = edits'
    BY <1>1, <1>2
  <2>3. PICK y : y = [win[w] EXCEPT !.form.n = e, !.form.shape = s]
    OBVIOUS
  <2>4. s \in {"whole", "half", "part", "invalid"}
    BY DEF Shapes
  <2>5. /\ y \in Editor /\ y.form.n = e /\ y.base = win[w].base
        /\ y.req = win[w].req /\ y.offered = win[w].offered
        /\ y.leave = win[w].leave /\ y.owed = win[w].owed
        /\ y.page = win[w].page /\ y.queued = win[w].queued
    <3>1. PICK f : f = [win[w].form EXCEPT !.n = e, !.shape = s]
      OBVIOUS
    <3>2. f \in Form /\ f.n = e
      BY <1>1, <2>4, <3>1, EditorNumbers DEF Form
    <3>3. y = [win[w] EXCEPT !.form = f]
      BY <1>1, <2>3, <3>1 DEF Editor, Form
    <3> QED
      BY <1>1, <3>2, <3>3 DEF Editor
  <2>6. Fits(win[w], e)
    BY <1>1, <1>2, <2>2, FitsLasts
  <2>7. win[w].form.n \in Nat /\ win[w].owed \in Nat /\ win[w].form.n <= edits
    BY <1>1, EditorNumbers DEF Fits, Written
  <2>8. Fits(y, e)
    BY <1>1, <1>2, <2>2, <2>5, <2>6, <2>7 DEF Fits, Written, Owes, Owing
  <2>9. Becomes(w, y) /\ Fits(y, edits') /\ edits <= edits' /\ edits' \in Nat
    BY <1>1, <1>2, <2>1, <2>2, <2>3, <2>8
  <2> QED
    BY <1>1, <2>5, <2>9, OrphansLast, BecomesFits
<1>3. CASE edits' = edits /\ Becomes(w, PutBack(win[w], win[w].base))
  <2>1. PICK y \in Editor : y = PutBack(win[w], win[w].base)
    BY <1>1, EditorNumbers, PutBackKeeps
  <2>2. Fits(y, edits)
    BY <1>1, <2>1, EditorNumbers, PutBackFits DEF Fits, Written
  <2>3. Becomes(w, y) /\ Fits(y, edits') /\ edits <= edits' /\ edits' \in Nat
    BY <1>1, <1>3, <2>1, <2>2
  <2> QED
    BY <1>1, <2>3, OrphansLast, BecomesFits
<1> QED
  BY <1>2, <1>3 DEF Type

\* A step that writes no row, types nothing and sets no loop adrift.
LEMMA QuietFits ==
  ASSUME TypeOK, OwedInv, NEW w \in Windows, NEW y \in Editor, Fits(y, edits),
         Becomes(w, y), UNCHANGED <<rows, edits, orphan>>
  PROVE  OwedInv'
<1>1. edits \in Nat
  BY DEF TypeOK
<1>2. Fits(y, edits') /\ edits <= edits' /\ edits' \in Nat
  BY <1>1
<1> QED
  BY <1>2, OrphansLast, BecomesFits

LEMMA SaveFits ==
  ASSUME TypeOK, OwedInv, NEW w \in Windows, Save(w) \/ Autosave(w) PROVE OwedInv'
<1>1. /\ win[w] \in Editor /\ Fits(win[w], edits) /\ edits \in Nat
      /\ UNCHANGED <<rows, orphan, edits>>
  BY Typed DEF OwedInv, Save, Autosave, Same, TypeOK
<1>2. PICK leaving \in BOOLEAN : Becomes(w, SaveAsked(win[w], leaving))
  <2>1. (win[w].leave = "saving") \in BOOLEAN /\ FALSE \in BOOLEAN
    BY Zenon
  <2> QED
    BY <2>1 DEF Save, Autosave
<1>3. PICK y \in Editor : y = SaveAsked(win[w], leaving)
  BY <1>1, SaveAskedKeeps
<1>4. Fits(y, edits)
  BY <1>1, <1>3, SaveAskedFits DEF Fits, Owes
<1> QED
  BY <1>1, <1>2, <1>3, <1>4, QuietFits

LEMMA ClosedBecomes ==
  ASSUME TypeOK, OwedInv, NEW w \in Windows, Becomes(w, Closed),
         UNCHANGED <<rows, edits>>, orphan' = Abandoned(w)
  PROVE  OwedInv'
<1>1. edits \in Nat /\ Closed \in Editor
  BY ClosedType DEF TypeOK
<1>2. Fits(Closed, edits') /\ edits <= edits' /\ edits' \in Nat
  BY <1>1, ClosedFits
<1>3. \A v \in Windows : OrphanFits(orphan'[v], edits')
  BY AbandonedFits
<1> QED
  BY <1>1, <1>2, <1>3, BecomesFits

LEMMA LeaveFits ==
  ASSUME TypeOK, OwedInv, NEW w \in Windows, Leave(w) PROVE OwedInv'
<1>1. /\ win[w] \in Editor /\ Fits(win[w], edits) /\ edits \in Nat
      /\ UNCHANGED <<rows, edits>> /\ win[w].page # "closed"
  BY Typed DEF OwedInv, Leave, TypeOK, Here
<1>2. CASE Dirty(win[w]) /\ ~Drafting
  <2>1. PICK y : y = [win[w] EXCEPT !.leave = "asking"]
    OBVIOUS
  <2>2. /\ y \in Editor /\ y.form = win[w].form /\ y.base = win[w].base
        /\ y.req = win[w].req /\ y.offered = win[w].offered /\ y.leave = "asking"
    BY <1>1, <2>1 DEF Editor
  <2>3. Fits(y, edits)
    BY <1>1, <2>2 DEF Fits, Written, Owes, Owing
  <2>4. Becomes(w, y) /\ UNCHANGED orphan
    BY <1>2, <2>1 DEF Leave
  <2> QED
    BY <1>1, <2>2, <2>3, <2>4, QuietFits
<1>3. CASE Dirty(win[w]) /\ Drafting
  <2>1. PICK x : x = [win[w] EXCEPT !.leave = "saving", !.owed = win[w].form.n]
    OBVIOUS
  <2>2. /\ x \in Editor /\ x.form = win[w].form /\ x.base = win[w].base
        /\ x.req = win[w].req /\ x.offered = win[w].offered
        /\ x.owed = win[w].form.n /\ x.page = win[w].page
    BY <1>1, <2>1 DEF Editor, Form
  <2>3. Written(x, edits) /\ Owing(x)
    BY <1>1, <2>2, EditorNumbers DEF Fits, Written, Owing
  <2>4. PICK y \in Editor : y = SaveAsked(x, TRUE) /\ Fits(y, edits)
    BY <1>1, <1>3, <2>2, <2>3, SaveAskedKeeps, SaveAskedFits
  <2>5. Becomes(w, y) /\ UNCHANGED orphan
    BY <1>3, <2>1, <2>4 DEF Leave
  <2> QED
    BY <1>1, <2>4, <2>5, QuietFits
<1>4. CASE ~Dirty(win[w])
  BY <1>1, <1>4, ClosedBecomes DEF Leave
<1> QED
  BY <1>2, <1>3, <1>4

LEMMA StayFits ==
  ASSUME TypeOK, OwedInv, NEW w \in Windows, Stay(w) \/ LeaveWithout(w) PROVE OwedInv'
<1>1. CASE Stay(w)
  <2>1. win[w] \in Editor /\ Fits(win[w], edits)
    BY Typed DEF OwedInv
  <2>2. PICK y : y = [win[w] EXCEPT !.leave = "no"]
    OBVIOUS
  <2>3. /\ y \in Editor /\ y.form = win[w].form /\ y.base = win[w].base
        /\ y.req = win[w].req /\ y.offered = win[w].offered /\ y.leave = "no"
    BY <2>1, <2>2 DEF Editor
  <2>4. Fits(y, edits)
    BY <2>1, <2>3 DEF Fits, Written, Owes, Owing
  <2>5. Becomes(w, y) /\ UNCHANGED <<rows, edits, orphan>>
    BY <1>1, <2>2 DEF Stay, OnlyHere, Same
  <2> QED
    BY <2>3, <2>4, <2>5, QuietFits
<1>2. CASE LeaveWithout(w)
  BY <1>2, ClosedBecomes DEF LeaveWithout
<1> QED
  BY <1>1, <1>2

LEMMA RestoreFits ==
  ASSUME TypeOK, OwedInv, NEW w \in Windows, Restore(w) PROVE OwedInv'
<1>1. /\ win[w] \in Editor /\ Fits(win[w], edits) /\ edits \in Nat
      /\ win[w].offered \in Form /\ win[w].offered.n <= edits
  BY Typed, EditorNumbers DEF OwedInv, TypeOK, Restore, Fits, Written
<1>2. PICK x \in Editor : x = PutBack(win[w], win[w].offered) /\ Fits(x, edits)
  BY <1>1, PutBackKeeps, PutBackFits
<1>3. PICK y : y = [x EXCEPT !.offered = None, !.recovered = TRUE]
  OBVIOUS
<1>4. /\ y \in Editor /\ y.form = x.form /\ y.base = x.base /\ y.req = x.req
      /\ y.offered = None /\ y.leave = x.leave /\ y.owed = x.owed
      /\ y.page = x.page /\ y.queued = x.queued
  BY <1>2, <1>3 DEF Editor
<1>5. Fits(y, edits)
  BY <1>2, <1>4 DEF Fits, Written, Owes, Owing
<1>6. Becomes(w, y) /\ UNCHANGED <<rows, edits, orphan>>
  BY <1>2, <1>3 DEF Restore, OnlyHere, Same
<1> QED
  BY <1>4, <1>5, <1>6, QuietFits

LEMMA DiscardFits ==
  ASSUME TypeOK, OwedInv, NEW w \in Windows, Discard(w) \/ DiscardMine(w)
  PROVE  OwedInv'
<1>1. /\ win[w] \in Editor /\ Fits(win[w], edits) /\ edits \in Nat
      /\ win \in [Windows -> Editor] /\ draft \in [Slots -> Form \cup {None}]
  BY Typed DEF OwedInv, TypeOK
<1>2. PICK y : y = [win[w] EXCEPT !.offered = None]
  OBVIOUS
<1>3. /\ y \in Editor /\ y.form = win[w].form /\ y.base = win[w].base
      /\ y.req = win[w].req /\ y.offered = None /\ y.leave = win[w].leave
      /\ y.owed = win[w].owed /\ y.page = win[w].page /\ y.queued = win[w].queued
  BY <1>1, <1>2 DEF Editor
<1>4. Fits(y, edits)
  BY <1>1, <1>3 DEF Fits, Written, Owes, Owing
<1>5. /\ win' = [win EXCEPT ![w] = y] /\ UNCHANGED <<rows, edits, orphan>>
      /\ \E f \in {win[w].form, None} : draft' = [draft EXCEPT ![Slot(w, win[w])] = f]
  BY <1>1, <1>2 DEF Discard, DiscardMine, OnlyHere, Same
<1>6. \A s \in Slots : draft'[s] # None => draft'[s] = y.form \/ draft'[s] = draft[s]
  BY <1>1, <1>3, <1>5
<1>7. Fits(y, edits') /\ edits <= edits' /\ edits' \in Nat
  BY <1>1, <1>4, <1>5
<1> QED
  BY <1>3, <1>5, <1>6, <1>7, RowsLast, OrphansLast, FitsStep

\* Pages load.
LEMMA LoadFits ==
  ASSUME IInv, OwedInv, NEW w \in Windows, Open(w) \/ Reload(w) \/ Arrive(w)
  PROVE  OwedInv'
<1>1. /\ TypeOK /\ win[w].url \in Rows \cup {0} /\ Fits(win[w], edits)
      /\ win[w].url # 0 => rows[win[w].url] # <<>>
      /\ orphan \in [Windows -> Orphan \cup {None}] /\ edits \in Nat
  BY UrlExists DEF IInv, OwedInv, TypeOK
<1>2. UNCHANGED <<rows, edits>>
  BY DEF Open, Reload, Arrive, Load
<1>3. PICK r \in Rows \cup {0} :
        (r # 0 => rows[r] # <<>>) /\ Mounts(w, Loaded(w, r))
  BY <1>1 DEF Open, Reload, Arrive, Load
<1>4. \A v \in Windows : OrphanFits(orphan'[v], edits')
  <2>1. CASE Open(w)
    BY <1>1, <1>2, <2>1, OrphansLast DEF Open
  <2>2. CASE Arrive(w)
    BY <1>1, <2>2, AbandonedFits DEF Arrive
  <2>3. CASE Reload(w) /\ Running(win[w])
    <3>1. orphan' = [orphan EXCEPT ![w] = Alone(win[w])]
      BY <2>3 DEF Reload
    <3>2. OrphanFits(Alone(win[w]), edits)
      BY <1>1, <2>3, Typed, AloneType DEF OrphanFits, Fits, Written, Running
    <3>3. ASSUME NEW v \in Windows, v # w PROVE orphan'[v] = orphan[v]
      BY <1>1, <3>1, <3>3
    <3>4. orphan'[w] = Alone(win[w])
      BY <1>1, <3>1
    <3> QED
      BY <1>1, <1>2, <3>2, <3>3, <3>4 DEF OwedInv
  <2>4. CASE Reload(w) /\ ~Running(win[w])
    BY <1>1, <1>2, <2>4, OrphansLast DEF Reload
  <2> QED
    BY <2>1, <2>2, <2>3, <2>4
<1> QED
  BY <1>1, <1>2, <1>3, <1>4, MountsFits

LEMMA RefreshFits ==
  ASSUME IInv, OwedInv, NEW w \in Windows, Refresh(w) PROVE OwedInv'
<1>1. /\ TypeOK /\ Sound(w) /\ win[w] \in Editor /\ Fits(win[w], edits)
      /\ win[w].id \in Rows /\ rows[win[w].id] \in Seq(Form)
  BY Typed DEF IInv, OwedInv, Refresh, TypeOK
<1>2. rows[win[w].id] # <<>>
  BY <1>1, Constants DEF Sound, Knows, Editor
<1>3. PICK v \in Nat : v = Version(win[w].id)
  BY <1>1, <1>2, HeldType
<1>4. PICK y : y = [win[w] EXCEPT !.version = v]
  OBVIOUS
<1>5. /\ y \in Editor /\ y.form = win[w].form /\ y.base = win[w].base
      /\ y.req = win[w].req /\ y.offered = win[w].offered
      /\ y.leave = win[w].leave /\ y.owed = win[w].owed
      /\ y.page = win[w].page /\ y.queued = win[w].queued
  BY <1>1, <1>4 DEF Editor
<1>6. Fits(y, edits)
  BY <1>1, <1>5 DEF Fits, Written, Owes, Owing
<1>7. Becomes(w, y) /\ UNCHANGED <<rows, edits, orphan>>
  BY <1>3, <1>4 DEF Refresh, OnlyHere, Same
<1> QED
  BY <1>1, <1>5, <1>6, <1>7, QuietFits

\* The server runs a request: its row holds what was sent.
LEMMA WritesFit ==
  ASSUME TypeOK, OwedInv, NEW q0 \in Request, q0.form.n <= edits,
         NEW q \in Served(q0), Writes(q), edits' = edits
  PROVE  \A r \in Rows : \A i \in DOMAIN rows'[r] : rows'[r][i].n <= edits'
<1>1. /\ q \in Request /\ q.form = q0.form /\ rows \in [Rows -> Seq(Form)]
      /\ q.stage = "landed" => q.row \in Rows
      /\ edits \in Nat /\ edits <= edits' /\ edits' \in Nat
  BY ServedKeeps DEF TypeOK
<1>2. CASE q.stage # "landed"
  BY <1>1, <1>2, RowsLast DEF Writes
<1>3. CASE q.stage = "landed"
  <2>1. PICK f : f = Stored(q.form)
    OBVIOUS
  <2>2. f \in Form /\ f.n <= edits
    BY <1>1, <2>1, FormTypes, NumberTypes DEF Request
  <2>3. rows' = [rows EXCEPT ![q.row] = Append(@, f)]
    BY <1>3, <2>1 DEF Writes, Put
  <2> SUFFICES ASSUME NEW r \in Rows, NEW i \in DOMAIN rows'[r]
               PROVE  rows'[r][i].n <= edits
    BY <1>1
  <2>4. CASE r = q.row
    <3>1. rows'[r] = Append(rows[r], f) /\ rows[r] \in Seq(Form)
      BY <1>1, <2>3, <2>4
    <3>2. \/ i = Len(rows[r]) + 1 /\ rows'[r][i] = f
          \/ i \in DOMAIN rows[r] /\ rows'[r][i] = rows[r][i]
      BY <2>2, <3>1
    <3> QED
      BY <2>2, <3>2 DEF OwedInv
  <2>5. CASE r # q.row
    BY <1>1, <2>3, <2>5 DEF OwedInv
  <2> QED
    BY <2>4, <2>5
<1> QED
  BY <1>2, <1>3

LEMMA ServeFits ==
  ASSUME IInv, OwedInv, NEW w \in Windows, Serve(w) PROVE OwedInv'
<1>1. /\ TypeOK /\ win[w] \in Editor /\ Fits(win[w], edits) /\ win[w].req \in Request
      /\ win[w].req # None /\ win \in [Windows -> Editor] /\ edits \in Nat
  BY Typed DEF IInv, OwedInv, TypeOK, Serve, Running
<1>2. PICK q \in Served(win[w].req) :
        Writes(q) /\ win' = [win EXCEPT ![w].req = q]
  BY DEF Serve
<1>3. UNCHANGED <<edits, orphan, draft>>
  BY DEF Serve
<1>4. q \in Request /\ q.form = win[w].req.form
  BY <1>1, <1>2, ServedKeeps
<1>5. PICK y : y = [win[w] EXCEPT !.req = q]
  OBVIOUS
<1>6. /\ y \in Editor /\ y.form = win[w].form /\ y.base = win[w].base
      /\ y.req = q /\ y.offered = win[w].offered
      /\ y.leave = win[w].leave /\ y.owed = win[w].owed
      /\ y.page = win[w].page /\ y.queued = win[w].queued
  BY <1>1, <1>4, <1>5 DEF Editor
<1>7. Fits(y, edits)
  BY <1>1, <1>4, <1>6 DEF Fits, Written, Owes, Owing
<1>8. win' = [win EXCEPT ![w] = y]
  BY <1>1, <1>2, <1>5
<1>9. \A r \in Rows : \A i \in DOMAIN rows'[r] : rows'[r][i].n <= edits'
  BY <1>1, <1>2, <1>3, WritesFit DEF Fits, Written
<1>10. Fits(y, edits') /\ edits <= edits' /\ edits' \in Nat
  BY <1>1, <1>3, <1>7
<1>11. \A v \in Windows : OrphanFits(orphan'[v], edits')
  BY <1>3 DEF OwedInv
<1>12. \A s \in Slots : draft'[s] = draft[s]
  BY <1>3
<1> QED
  BY <1>1, <1>6, <1>8, <1>9, <1>10, <1>11, <1>12, FitsStep

LEMMA LandedType ==
  ASSUME IInv, NEW w \in Windows, Running(win[w]), win[w].req.stage = "landed"
  PROVE  /\ win[w] \in Editor /\ win[w].req # None /\ win[w].page # "closed"
         /\ win[w].req.row \in Rows /\ Landed(win[w]) \in Editor
         /\ win[w].req \in Request
         /\ Landed(win[w]).page = "closed" => ~win[w].queued
<1> DEFINE x == win[w]
           q == x.req
           page == IF q.id = 0 /\ ~q.leaving /\ kind # "recipe"
                   THEN "moving" ELSE x.page
           url == IF q.id = 0 /\ (q.leaving \/ kind # "recipe")
                  THEN q.row ELSE x.url
           behind == "half" \in {x.form.shape, q.form.shape}
           y == [x EXCEPT !.id = q.row, !.version = q.at, !.base = Baseline(x),
                          !.behind = behind, !.url = url, !.page = page,
                          !.pill = "saved"]
           id == IF ClosesOverId THEN x.id ELSE q.row
<1>1. /\ TypeOK /\ Sound(w) /\ x \in Editor /\ q \in Request /\ q # None
      /\ x.form \in Form /\ x.base \in Form /\ x.id \in Rows \cup {0}
      /\ x.url \in Rows \cup {0}
  BY Typed DEF IInv, Running
<1>2. /\ q.row \in Rows /\ q.at \in Nat /\ q.form \in Form
      /\ x.page \in {"open", "moving"}
  BY <1>1 DEF Sound, Pending, LeftIn, Request, Editor
<1>3. Landed(x) = Drained(y, TRUE, id)
  BY DEF Landed
<1>4. Baseline(x) \in Form
  BY <1>1, <1>2 DEF Baseline
<1>5. /\ page \in {"open", "moving"} /\ url \in Rows \cup {0} /\ behind \in BOOLEAN
      /\ id \in Rows \cup {0}
  BY <1>1, <1>2
<1> HIDE DEF page, url, behind, id
<1>6. y \in Editor /\ y.page = page /\ y.queued = x.queued
  BY ZenonT(60), <1>1, <1>2, <1>4, <1>5 DEF Editor
<1> HIDE DEF y
<1>7. Landed(x) \in Editor
  BY <1>3, <1>5, <1>6, DrainedKeeps
<1>8. x.queued => Landed(x).page # "closed"
  <2> SUFFICES ASSUME x.queued PROVE Landed(x).page # "closed"
    OBVIOUS
  <2>1. Landed(x) = Sent(y, id, y.leave = "saving")
    BY <1>3, <1>6 DEF Drained
  <2>2. (y.leave = "saving") \in BOOLEAN
    BY Zenon
  <2>3. PICK leaving \in BOOLEAN : Landed(x) = Sent(y, id, leaving)
    BY <2>1, <2>2
  <2>4. SamePage(y, Sent(y, id, leaving))
    BY <1>5, <1>6, SentKeeps
  <2> QED
    BY <1>5, <1>6, <2>3, <2>4 DEF SamePage
<1> QED
  BY <1>1, <1>2, <1>7, <1>8

LEMMA AnswerFits ==
  ASSUME IInv, OwedInv, NEW w \in Windows, Answer(w) PROVE OwedInv'
<1>1. /\ TypeOK /\ win[w] \in Editor /\ Fits(win[w], edits) /\ edits \in Nat
      /\ UNCHANGED <<rows, edits, orphan>>
  BY Typed DEF IInv, OwedInv, TypeOK, Answer, OnlyHere, Same
<1>2. CASE win[w].req.stage = "landed" /\ Becomes(w, Landed(win[w]))
  <2>1. PICK y \in Editor : y = Landed(win[w]) /\ Fits(y, edits)
    BY <1>1, <1>2, LandedType, LandedFits DEF Answer
  <2> QED
    BY <1>1, <1>2, <2>1, QuietFits
<1>3. CASE Becomes(w, Refused(win[w]))
  <2>1. PICK x \in Editor : x = [win[w] EXCEPT !.pill = "conflict", !.req = None,
                                               !.queued = FALSE]
    BY <1>1 DEF Editor
  <2>2. PICK y \in Editor : y = Refused(win[w]) /\ Fits(y, edits)
    BY <1>1, <2>1, EndedKeeps, RefusedFits DEF Refused
  <2> QED
    BY <1>1, <1>3, <2>2, QuietFits
<1> QED
  BY <1>2, <1>3 DEF Answer

LEMMA FailFits ==
  ASSUME IInv, OwedInv, NEW w \in Windows, Fail(w) PROVE OwedInv'
<1>1. /\ TypeOK /\ win[w] \in Editor /\ Fits(win[w], edits) /\ edits \in Nat
      /\ UNCHANGED <<rows, edits>> /\ win[w].req # None
      /\ orphan \in [Windows -> Orphan \cup {None}]
  BY Typed DEF IInv, OwedInv, TypeOK, Fail, Running
<1>2. PICK x \in Editor : x = [win[w] EXCEPT !.pill = "error"]
  BY <1>1 DEF Editor
<1>3. Failed(win[w]) = Drained(x, FALSE, win[w].id) /\ win[w].id \in Rows \cup {0}
  BY <1>1, <1>2, Typed DEF Failed
<1>4. PICK y \in Editor : y = Failed(win[w]) /\ Fits(y, edits)
  BY <1>1, <1>2, <1>3, DrainedKeeps, ClosedType, FailedFits
<1>5. Becomes(w, y) /\ edits <= edits' /\ edits' \in Nat /\ Fits(y, edits')
  BY <1>1, <1>4 DEF Fail
<1>6. \A v \in Windows : OrphanFits(orphan'[v], edits')
  <2>1. CASE UNCHANGED orphan
    BY <1>1, <2>1 DEF OwedInv
  <2>2. CASE orphan' = [orphan EXCEPT ![w] = Alone(win[w])]
    <3>1. OrphanFits(Alone(win[w]), edits)
      BY <1>1, AloneType DEF OrphanFits, Fits, Written
    <3>2. /\ orphan'[w] = Alone(win[w])
          /\ \A v \in Windows \ {w} : orphan'[v] = orphan[v]
      BY <1>1, <2>2
    <3> QED
      BY <1>1, <3>1, <3>2 DEF OwedInv
  <2> QED
    BY <2>1, <2>2 DEF Fail
<1> QED
  BY <1>1, <1>5, <1>6, BecomesFits

LEMMA ServeOrphanFits ==
  ASSUME IInv, OwedInv, NEW w \in Windows, ServeOrphan(w) PROVE OwedInv'
<1>1. PICK o : o = orphan[w]
  OBVIOUS
<1>2. /\ TypeOK /\ o \in Orphan /\ o.req \in Request /\ edits \in Nat
      /\ orphan \in [Windows -> Orphan \cup {None}] /\ OrphanFits(o, edits) /\ o # None
      /\ UNCHANGED <<edits, win, draft>>
  BY <1>1 DEF IInv, OwedInv, TypeOK, ServeOrphan, Orphan
<1>3. PICK q \in (IF o.req.stage = "sent" THEN Served(o.req) ELSE {o.req}) :
        /\ IF o.req.stage = "sent" THEN Writes(q) ELSE UNCHANGED rows
        /\ orphan' = [orphan EXCEPT ![w] =
              IF q.stage = "stale" \/ o.next = None THEN None
              ELSE [req |-> [q EXCEPT !.stage = "sent",
                                      !.id = IF ClosesOverId THEN q.id ELSE q.row,
                                      !.seen = q.at,
                                      !.form = o.next,
                                      !.recovered = o.recovered],
                    next |-> None, recovered |-> FALSE]]
  BY <1>1 DEF ServeOrphan
<1>4. q \in Request
  BY <1>2, <1>3, ServedKeeps
<1>5. \A r \in Rows : \A i \in DOMAIN rows'[r] : rows'[r][i].n <= edits'
  <2>1. CASE o.req.stage = "sent"
    BY <1>2, <1>3, <2>1, WritesFit DEF OrphanFits
  <2>2. CASE o.req.stage # "sent"
    <3>1. UNCHANGED rows /\ edits <= edits' /\ edits' \in Nat
      BY <1>2, <1>3, <2>2
    <3> QED
      BY <1>2, <3>1, RowsLast
  <2> QED
    BY <2>1, <2>2
<1>6. \A v \in Windows \ {w} : orphan'[v] = orphan[v]
  BY <1>2, <1>3
<1>7. OrphanFits(orphan'[w], edits)
  <2>1. CASE q.stage = "stale" \/ o.next = None
    <3>1. orphan'[w] = None
      BY <1>2, <1>3, <2>1
    <3> QED
      BY <3>1 DEF OrphanFits
  <2>2. CASE ~(q.stage = "stale" \/ o.next = None)
    <3>1. PICK p : p = [q EXCEPT !.stage = "sent",
                                 !.id = IF ClosesOverId THEN q.id ELSE q.row,
                                 !.seen = q.at, !.form = o.next,
                                 !.recovered = o.recovered]
      OBVIOUS
    <3>2. p.form = o.next
      BY <1>4, <3>1 DEF Request
    <3>3. orphan'[w] = [req |-> p, next |-> None, recovered |-> FALSE]
      BY <1>2, <1>3, <2>2, <3>1
    <3> QED
      BY <1>2, <2>2, <3>2, <3>3 DEF OrphanFits
  <2> QED
    BY <2>1, <2>2
<1>8. \A v \in Windows : OrphanFits(orphan'[v], edits')
  BY <1>2, <1>6, <1>7 DEF OwedInv
<1> QED
  BY <1>2, <1>5, <1>8 DEF OwedInv

LEMMA LoseOrphanFits ==
  ASSUME IInv, OwedInv, NEW w \in Windows, LoseOrphan(w) PROVE OwedInv'
<1>1. /\ orphan \in [Windows -> Orphan \cup {None}]
      /\ orphan' = [orphan EXCEPT ![w] = None]
      /\ UNCHANGED <<edits, rows, win, draft>>
  BY DEF IInv, TypeOK, LoseOrphan
<1>2. \A v \in Windows : orphan'[v] = orphan[v] \/ orphan'[v] = None
  BY <1>1
<1>3. \A v \in Windows : OrphanFits(orphan'[v], edits')
  BY <1>1, <1>2 DEF OwedInv, OrphanFits
<1> QED
  BY <1>1, <1>3 DEF OwedInv

LEMMA OwedStep == IInv /\ OwedInv /\ [Next]_vars => OwedInv'
<1> SUFFICES ASSUME IInv, OwedInv, [Next]_vars PROVE OwedInv'
  OBVIOUS
<1>0. TypeOK
  BY DEF IInv
<1>1. CASE UNCHANGED vars
  BY <1>1 DEF vars, OwedInv
<1>2. ASSUME NEW w \in Windows, Step(w) PROVE OwedInv'
  BY <1>0, <1>2, TypeFits, SaveFits, LeaveFits, StayFits, RestoreFits, DiscardFits,
     LoadFits, RefreshFits, ServeFits, AnswerFits, FailFits,
     ServeOrphanFits, LoseOrphanFits
  DEF Step
<1> QED
  BY <1>1, <1>2 DEF Next

\* Nobody leaves owing more than is on its way.
THEOREM NobodyOwes == Spec => []OwedInv
<1>1. Init => OwedInv
  BY OwedInit
<1>2. IInv /\ OwedInv /\ [Next]_vars => OwedInv'
  BY OwedStep
<1> QED
  BY <1>1, <1>2, InductiveInvariant, PTL DEF Spec

\* While a link waits for its save, only the answer that ends the loop closes
\* the page.
LEMMA OnlyAnswerLeaves ==
  ASSUME IInv, OwedInv, NEW w \in Windows, [Next]_vars,
         win[w].leave = "saving", win'[w].page = "closed"
  PROVE  win[w].req # None /\ ~win[w].queued
<1>1. /\ TypeOK /\ win[w] \in Editor /\ win \in [Windows -> Editor]
      /\ win[w].page # "closed" /\ Fits(win[w], edits)
  BY Typed DEF IInv, OwedInv, TypeOK, Fits, Owes, Owing
<1>2. PICK v \in Windows : Step(v)
  BY <1>1 DEF Next, vars
<1>3. v = w
  BY <1>1, <1>2, OtherWindows
<1>4. ASSUME NEW y \in Editor, Becomes(w, y), y.page # "closed" PROVE FALSE
  BY <1>1, <1>4, BecomesReq
<1>5. ~(Leave(w) \/ Stay(w) \/ LeaveWithout(w) \/ Open(w))
  BY <1>1 DEF Leave, Stay, LeaveWithout, Open
<1>6. ~Type(w)
  <2> SUFFICES ASSUME Type(w) PROVE FALSE
    OBVIOUS
  <2>1. CASE \E s \in Shapes(kind) :
                Becomes(w, [win[w] EXCEPT !.form.n = edits', !.form.shape = s])
    BY <1>1, <2>1 DEF Becomes, Addressed, Editor
  <2>2. CASE Becomes(w, PutBack(win[w], win[w].base))
    <3>1. PICK y \in Editor : y = PutBack(win[w], win[w].base) /\ SamePage(win[w], y)
      BY <1>1, EditorNumbers, PutBackKeeps
    <3> QED
      BY <1>1, <1>4, <2>2, <3>1 DEF SamePage
  <2> QED
    BY <2>1, <2>2 DEF Type
<1>7. ~(Save(w) \/ Autosave(w))
  <2> SUFFICES ASSUME Save(w) \/ Autosave(w) PROVE FALSE
    OBVIOUS
  <2>1. PICK leaving \in BOOLEAN : Becomes(w, SaveAsked(win[w], leaving))
    <3>1. (win[w].leave = "saving") \in BOOLEAN /\ FALSE \in BOOLEAN
      BY Zenon
    <3> QED
      BY <3>1 DEF Save, Autosave
  <2>2. PICK y \in Editor : y = SaveAsked(win[w], leaving) /\ SamePage(win[w], y)
    BY <1>1, SaveAskedKeeps
  <2> QED
    BY <1>1, <1>4, <2>1, <2>2 DEF SamePage
<1>8. ~Restore(w)
  <2> SUFFICES ASSUME Restore(w) PROVE FALSE
    OBVIOUS
  <2>1. win[w].offered \in Form
    BY <1>1, EditorNumbers DEF Restore
  <2>2. PICK x \in Editor : x = PutBack(win[w], win[w].offered) /\ SamePage(win[w], x)
    BY <1>1, <2>1, PutBackKeeps
  <2>3. PICK y : y = [x EXCEPT !.offered = None, !.recovered = TRUE]
    OBVIOUS
  <2>4. y \in Editor /\ y.page = x.page /\ Becomes(w, y)
    BY <2>2, <2>3 DEF Editor, Restore
  <2> QED
    BY <1>1, <1>4, <2>2, <2>4 DEF SamePage
<1>9. ~(\/ Discard(w) \/ DiscardMine(w) \/ Refresh(w) \/ Serve(w)
        \/ ServeOrphan(w) \/ LoseOrphan(w))
  <2>1. ~Discard(w) /\ ~DiscardMine(w)
    BY <1>1 DEF Discard, DiscardMine, Editor
  <2>2. ~Refresh(w)
    BY <1>1 DEF Refresh, Becomes, Addressed, Editor
  <2>3. ~Serve(w)
    BY <1>1 DEF Serve, Editor
  <2>4. ~(ServeOrphan(w) \/ LoseOrphan(w))
    BY <1>1 DEF ServeOrphan, LoseOrphan
  <2> QED
    BY <2>1, <2>2, <2>3, <2>4
<1>10. ~(Reload(w) \/ Arrive(w))
  <2>1. Loaded(w, win[w].url) \in Editor /\ Loaded(w, win[w].url).page = "open"
    BY <1>1, UrlExists, LoadedType
  <2> QED
    BY <1>1, <2>1 DEF Reload, Arrive, Load, Mounts, Editor
<1>11. ~Fail(w)
  <2> SUFFICES ASSUME Fail(w) PROVE FALSE
    OBVIOUS
  <2>0. PICK x \in Editor : x = [win[w] EXCEPT !.pill = "error"]
    BY <1>1 DEF Editor
  <2>1. x = [win[w] EXCEPT !.pill = "error"] /\ x.page = win[w].page
    BY <1>1, <2>0 DEF Editor
  <2>2. Failed(win[w]) = Drained(x, FALSE, win[w].id) /\ win[w].id \in Rows \cup {0}
    BY <1>1, <2>1, Typed DEF Failed
  <2>3. PICK y \in Editor : y = Failed(win[w]) /\ SamePage(x, y)
    BY <2>1, <2>2, DrainedKeeps
  <2> QED
    BY <1>1, <1>4, <2>1, <2>3 DEF Fail, SamePage
<1>12. Answer(w)
  BY <1>2, <1>3, <1>5, <1>6, <1>7, <1>8, <1>9, <1>10, <1>11 DEF Step
<1>13. CASE Becomes(w, Refused(win[w]))
  <2>0. PICK x \in Editor : x = [win[w] EXCEPT !.pill = "conflict", !.req = None,
                                               !.queued = FALSE]
    BY <1>1 DEF Editor
  <2>1. /\ x = [win[w] EXCEPT !.pill = "conflict", !.req = None, !.queued = FALSE]
        /\ x.page = win[w].page
    BY <1>1, <2>0 DEF Editor
  <2>2. PICK y \in Editor : y = Refused(win[w]) /\ SamePage(x, y)
    BY <2>1, EndedStays DEF Refused
  <2> QED
    BY <1>1, <1>4, <1>13, <2>1, <2>2 DEF SamePage
<1>14. CASE win[w].req.stage = "landed" /\ Becomes(w, Landed(win[w]))
  <2>1. Running(win[w])
    BY <1>12 DEF Answer
  <2>2. PICK y \in Editor : y = Landed(win[w]) /\ (y.page = "closed" => ~win[w].queued)
    BY <1>14, <2>1, LandedType
  <2> QED
    BY <1>4, <1>14, <2>1, <2>2 DEF Running
<1> QED
  BY <1>12, <1>13, <1>14 DEF Answer

\* A link that saves on the way out leaves only with the form it was pressed on,
\* or a newer one, in its row.
THEOREM LeavesSaved == Spec => LeavesOnlySaved
<1> DEFINE Left ==
      \A w \in Windows :
          win[w].leave = "saving" /\ win'[w].page = "closed"
              => win[w].req.form.n >= win[w].owed
<1>1. ASSUME IInv, OwedInv, [Next]_vars PROVE Left
  <2> SUFFICES ASSUME NEW w \in Windows, win[w].leave = "saving",
                      win'[w].page = "closed"
               PROVE  win[w].req.form.n >= win[w].owed
    OBVIOUS
  <2>1. win[w].req # None /\ ~win[w].queued
    BY <1>1, OnlyAnswerLeaves
  <2>2. Fits(win[w], edits) /\ win[w] \in Editor
    BY <1>1, Typed DEF OwedInv, IInv
  <2>3. win[w].owed <= win[w].req.form.n
    BY <2>1, <2>2 DEF Fits, Owes
  <2> QED
    BY <2>1, <2>2, <2>3, EditorNumbers
<1>2. IInv /\ OwedInv /\ [Next]_vars => [Left]_vars
  BY <1>1
<1>3. Spec => [][Left]_vars
  BY <1>2, InductiveInvariant, NobodyOwes, PTL DEF Spec
<1> QED
  BY <1>3 DEF LeavesOnlySaved

-----------------------------------------------------------------------------
(* What can be recovered.                                                  *)

\* The effects after a render leave a copy of what is dirty.
LEMMA CopiesKeep ==
  ASSUME TypeOK, NEW w \in Windows, NEW before \in Slots, NEW y \in Editor,
         draft' \in Copies(w, before, y), Drafting, y.page # "closed", Dirty(y)
  PROVE  draft'[Slot(w, y)] # None
<1> DEFINE slot == Slot(w, y)
           moved == IF before = slot THEN draft
                    ELSE [draft EXCEPT ![before] = None]
<1>1. /\ draft \in [Slots -> Form \cup {None}] /\ slot \in Slots
      /\ y.form \in Form /\ y.form # None
  BY SlotType, EditorNumbers, NoneAssumption DEF TypeOK
<1>2. moved \in [Slots -> Form \cup {None}]
  BY <1>1
<1>3. draft' \in DirtyCopies(moved, slot, y.form)
  BY DEF Copies
<1> HIDE DEF moved, slot
<1>4. draft'[slot] # None
  BY <1>1, <1>2, <1>3 DEF DirtyCopies
<1> QED
  BY <1>4 DEF slot

LEMMA RenderRecoverable ==
  ASSUME TypeOK, TypeOK', NEW w \in Windows, kind' = kind,
         NEW before \in Slots, draft' \in Copies(w, before, win'[w])
  PROVE  Recoverable(w)'
<1>1. PICK z \in Editor : z = win'[w]
  BY DEF TypeOK
<1>2. Drafting /\ z.page # "closed" /\ Dirty(z) => draft'[Slot(w, z)] # None
  BY <1>1, CopiesKeep
<1> QED
  BY <1>1, <1>2 DEF Recoverable, Drafting, Dirty, Slot

\* A window whose editor changes keeps a copy to recover.
LEMMA StepRecoverable ==
  ASSUME TypeOK, TypeOK', NEW w \in Windows, Step(w), win'[w] # win[w], Recoverable(w)
  PROVE  Recoverable(w)'
<1>1. /\ win[w] \in Editor /\ win \in [Windows -> Editor]
      /\ draft \in [Slots -> Form \cup {None}] /\ Slot(w, win[w]) \in Slots
  BY Typed, SlotType DEF TypeOK
<1>2. kind' = kind
  BY DEF Step, Type, Save, Autosave, Leave, Stay, LeaveWithout,
     Restore, Discard, Open, Reload, DiscardMine, Arrive, Refresh, Serve, Answer,
     Fail, ServeOrphan, LoseOrphan, Same, OnlyHere, Load
<1>3. CASE \E y : Becomes(w, y)
  <2>1. PICK y : Becomes(w, y)
    BY <1>3
  <2>2. win'[w] = Addressed(y) /\ draft' \in Copies(w, Slot(w, win[w]), Addressed(y))
    BY <1>1, <2>1 DEF Becomes
  <2> QED
    BY <1>1, <1>2, <2>2, RenderRecoverable
<1>4. CASE \E y : Mounts(w, y)
  <2>1. PICK y : Mounts(w, y)
    BY <1>4
  <2>2. win'[w] = y /\ y \in Editor /\ draft' \in Copies(w, Slot(w, y), y)
    <3>1. win' = [win EXCEPT ![w] = y] /\ draft' \in Copies(w, Slot(w, y), y)
      BY <2>1 DEF Mounts
    <3> QED
      BY <1>1, <3>1 DEF TypeOK
  <2> QED
    BY <1>2, <2>2, RenderRecoverable, SlotType
<1>5. CASE Type(w) \/ Save(w) \/ Autosave(w) \/ Leave(w) \/ Stay(w) \/ LeaveWithout(w)
           \/ Restore(w) \/ Refresh(w) \/ Answer(w) \/ Fail(w)
  <2> HIDE DEF Becomes
  <2>1. \E y : Becomes(w, y)
    BY <1>5 DEF Type, Save, Autosave, Leave, Stay, LeaveWithout, Restore, Refresh,
       Answer, Fail
  <2> QED
    BY <1>3, <2>1
<1>6. CASE Open(w) \/ Reload(w) \/ Arrive(w)
  <2> HIDE DEF Mounts
  <2>1. \E y : Mounts(w, y)
    BY <1>6 DEF Open, Reload, Arrive, Load
  <2> QED
    BY <1>4, <2>1
<1>7. CASE Discard(w)
  <2>1. PICK y : y = [win[w] EXCEPT !.offered = None]
    OBVIOUS
  <2>2. /\ win'[w] = y /\ y.form = win[w].form /\ y.base = win[w].base /\ y.id = win[w].id
        /\ draft' = [draft EXCEPT ![Slot(w, win[w])] =
                        IF Dirty(win[w]) THEN win[w].form ELSE None]
    BY <1>1, <1>7, <2>1 DEF Discard, Editor
  <2>3. Slot(w, y) = Slot(w, win[w]) /\ (Dirty(y) <=> Dirty(win[w]))
    BY <2>2 DEF Slot, Dirty
  <2>4. Dirty(y) => draft'[Slot(w, y)] # None
    BY <1>1, <2>2, <2>3, EditorNumbers, NoneAssumption
  <2> QED
    BY <2>2, <2>4 DEF Recoverable, Dirty, Slot
<1>8. CASE DiscardMine(w)
  <2>1. PICK y : y = [win[w] EXCEPT !.offered = None]
    OBVIOUS
  <2>2. /\ win'[w] = y /\ y.form = win[w].form /\ y.base = win[w].base /\ y.id = win[w].id
        /\ draft' = [draft EXCEPT ![Slot(w, win[w])] =
                        IF win[w].offered # None /\ Dirty(win[w])
                        THEN win[w].form ELSE None]
    BY <1>1, <1>8, <2>1 DEF DiscardMine, Editor
  <2>3. Slot(w, y) = Slot(w, win[w]) /\ (Dirty(y) <=> Dirty(win[w]))
    BY <2>2 DEF Slot, Dirty
  <2>4. win[w].offered # None
    BY <1>1, <2>1, <2>2 DEF Editor
  <2>5. Dirty(y) => draft'[Slot(w, y)] # None
    BY <1>1, <2>2, <2>3, <2>4, EditorNumbers, NoneAssumption
  <2> QED
    BY <2>2, <2>5 DEF Recoverable, Dirty, Slot
<1>9. CASE Serve(w)
  <2>1. PICK q : win' = [win EXCEPT ![w].req = q]
    BY <1>9 DEF Serve
  <2>2. /\ win'[w].form = win[w].form /\ win'[w].base = win[w].base
        /\ win'[w].id = win[w].id /\ win'[w].page = win[w].page /\ draft' = draft
    BY <1>1, <1>9, <2>1 DEF Serve, Editor
  <2> QED
    BY <1>2, <2>2 DEF Recoverable, Dirty, Slot, Drafting
<1>10. ~(ServeOrphan(w) \/ LoseOrphan(w))
  BY DEF ServeOrphan, LoseOrphan
<1> QED
  BY <1>5, <1>6, <1>7, <1>8, <1>9, <1>10 DEF Step

\* A dirty document keeps a copy to recover through every step of its window.
THEOREM CopiesStay == Spec => CopyKept
<1> DEFINE Kept ==
      \A w \in Windows :
          win'[w] # win[w] /\ Recoverable(w) => Recoverable(w)'
<1>1. ASSUME TypeOK, TypeOK', [Next]_vars PROVE [Kept]_vars
  <2>1. SUFFICES ASSUME NEW w \in Windows, NEW v \in Windows, Step(v),
                        win'[w] # win[w], Recoverable(w)
                 PROVE  Recoverable(w)'
    BY <1>1 DEF Next
  <2>2. v = w
    BY <1>1, <2>1, OtherWindows
  <2> QED
    BY <1>1, <2>1, <2>2, StepRecoverable
<1>2. Spec => [][Kept]_vars
  BY <1>1, TypeCorrect, PTL DEF Spec
<1> QED
  BY <1>2 DEF CopyKept

-----------------------------------------------------------------------------
(* The record the Nutrition tab writes too.  What the record has held is s.*)

\* The line of the version a form or a request stands on.
LineAt(s, v, line) == v < Len(s) /\ s[v + 1].line = line

\* A request that restates the line it was loaded with.
Restates(q, s) ==
    ~q.recovered =>
        /\ q.id = Record => LineAt(s, q.seen, q.form.line)
        /\ q.stage = "landed" /\ q.row = Record =>
              q.id = Record /\ LineAt(s, q.at, q.form.line)

\* A page whose form says the line its version held.
Follows(x, s) ==
    ~x.recovered => /\ x.form.line = x.base.line
                    /\ x.id = Record => LineAt(s, x.version, x.base.line)

\* And the request it has on its way.
Carries(x, s) ==
    x.req # None =>
        /\ Restates(x.req, s)
        /\ x.req.id = x.id
        /\ x.req.recovered => x.recovered
        /\ ~x.req.recovered => x.req.form.line = x.base.line

InLine(x, s) == Follows(x, s) /\ Carries(x, s)

\* A loop without its page, and the save it has queued.
OrphanInLine(o, s) ==
    o # None =>
        /\ Restates(o.req, s)
        /\ o.req.recovered /\ o.next # None => o.recovered
        /\ ~o.recovered /\ o.next # None => o.next.line = o.req.form.line

LineInv ==
    /\ kind = "recipe"
    /\ rows[Record] # <<>>
    /\ \A w \in Windows : InLine(win[w], rows[Record])
    /\ \A w \in Windows : OrphanInLine(orphan[w], rows[Record])

\* What the tab holds, and has in flight.
TabOK ==
    /\ made \in Nat
    /\ screen \in [Domains -> Nat \cup {None}]
    /\ queue \in [Domains -> Tab!Queue]
    /\ write \in [Domains -> Tab!Write]
    /\ late \in [Domains -> SUBSET Nat]
    /\ \A d \in Domains : write[d].stage # "none" => write[d].sent \in Nat

RecordInv == IInv /\ LineInv /\ TabOK

\* s has grown into s2.
Longer(s, s2) ==
    Len(s) <= Len(s2) /\ \A i \in 1 .. Len(s) : s2[i] = s[i]

LEMMA RecordRow ==
  /\ Record \in Rows /\ Record # 0 /\ Record \in Nat
  BY RecordAssumption, Constants DEF RecordAssumption

LEMMA EditorLines ==
  ASSUME NEW x \in Editor
  PROVE  /\ x.form \in Form /\ x.base \in Form /\ x.form.line \in Nat
         /\ x.base.line \in Nat /\ x.version \in Nat /\ x.id \in Rows \cup {0}
         /\ x.recovered \in BOOLEAN
         /\ x.req # None => /\ x.req \in Request /\ x.req.form \in Form
                            /\ x.req.seen \in Nat /\ x.req.at \in Nat
                            /\ x.req.recovered \in BOOLEAN
  BY DEF Editor, Form, Request

LEMMA StoredLine == \A f \in Form : Stored(f) \in Form /\ Stored(f).line = f.line
  BY DEF Stored, Form

LEMMA LineLasts ==
  ASSUME NEW s \in Seq(Form), NEW s2 \in Seq(Form), Longer(s, s2),
         NEW v \in Nat, NEW line, LineAt(s, v, line)
  PROVE  LineAt(s2, v, line)
<1>1. Len(s) \in Nat /\ Len(s2) \in Nat /\ v + 1 \in 1 .. Len(s)
  BY DEF LineAt
<1> QED
  BY <1>1 DEF LineAt, Longer

LEMMA RestatesLasts ==
  ASSUME NEW s \in Seq(Form), NEW s2 \in Seq(Form), Longer(s, s2),
         NEW q \in Request, Restates(q, s)
  PROVE  Restates(q, s2)
<1>1. q.seen \in Nat /\ q.at \in Nat
  BY DEF Request
<1> QED
  BY <1>1, LineLasts DEF Restates

LEMMA InLineLasts ==
  ASSUME NEW s \in Seq(Form), NEW s2 \in Seq(Form), Longer(s, s2),
         NEW x \in Editor, InLine(x, s)
  PROVE  InLine(x, s2)
<1>1. Follows(x, s2)
  BY EditorLines, LineLasts DEF InLine, Follows
<1>2. Carries(x, s2)
  BY EditorLines, RestatesLasts DEF InLine, Carries
<1> QED
  BY <1>1, <1>2 DEF InLine

LEMMA OrphanInLineLasts ==
  ASSUME NEW s \in Seq(Form), NEW s2 \in Seq(Form), Longer(s, s2),
         NEW o \in Orphan \cup {None}, OrphanInLine(o, s)
  PROVE  OrphanInLine(o, s2)
<1>1. o # None => o.req \in Request
  BY DEF Orphan
<1> QED
  BY <1>1, RestatesLasts DEF OrphanInLine

-----------------------------------------------------------------------------
(* The helpers of the loop keep a page in line.                            *)

LEMMA ClosedInLine == ASSUME NEW s PROVE InLine(Closed, s)
  BY RecordRow DEF InLine, Follows, Carries, Closed

LEMMA EndedInLine ==
  ASSUME NEW x \in Editor, NEW ok \in BOOLEAN, NEW s, InLine(x, s)
  PROVE  InLine(Ended(x, ok), s)
<1>1. CASE Ended(x, ok) = x
  BY <1>1
<1>2. CASE Ended(x, ok) = Closed
  BY <1>2, ClosedInLine
<1>3. CASE Ended(x, ok) = [x EXCEPT !.leave = "asking"]
  <2>1. PICK y : y = [x EXCEPT !.leave = "asking"]
    OBVIOUS
  <2>2. /\ y.form = x.form /\ y.base = x.base /\ y.id = x.id /\ y.version = x.version
        /\ y.req = x.req /\ y.recovered = x.recovered
    BY <2>1 DEF Editor
  <2> QED
    BY <1>3, <2>1, <2>2 DEF InLine, Follows, Carries
<1> QED
  BY <1>1, <1>2, <1>3 DEF Ended

LEMMA SentInLine ==
  ASSUME NEW x \in Editor, NEW leaving \in BOOLEAN, NEW s, Follows(x, s)
  PROVE  InLine(Sent(x, x.id, leaving), s)
<1>1. CASE x.form.shape = "invalid"
  <2>1. PICK y : y = [x EXCEPT !.req = None, !.queued = FALSE,
                               !.pill = IF Drafting THEN "saved" ELSE @]
    OBVIOUS
  <2>2. y \in Editor
    BY ZenonT(60), <2>1 DEF Editor
  <2>3. /\ y.form = x.form /\ y.base = x.base /\ y.id = x.id /\ y.version = x.version
        /\ y.req = None /\ y.recovered = x.recovered
    BY <2>1 DEF Editor
  <2>4. InLine(y, s)
    BY <2>3 DEF InLine, Follows, Carries
  <2>5. Sent(x, x.id, leaving) = Ended(y, FALSE)
    BY <1>1, <2>1 DEF Sent
  <2> QED
    BY <2>2, <2>4, <2>5, EndedInLine
<1>2. CASE x.form.shape # "invalid"
  <2>1. PICK q : q = [id |-> x.id, seen |-> x.version, form |-> x.form,
                      leaving |-> leaving, recovered |-> x.recovered,
                      stage |-> "sent", row |-> 0, at |-> 0]
    OBVIOUS
  <2>2. PICK y : y = [x EXCEPT !.pill = "saving", !.queued = FALSE, !.req = q]
    OBVIOUS
  <2>3. Sent(x, x.id, leaving) = y
    BY <1>2, <2>1, <2>2 DEF Sent
  <2>4. /\ y.form = x.form /\ y.base = x.base /\ y.id = x.id /\ y.version = x.version
        /\ y.req = q /\ y.recovered = x.recovered
    BY <2>2 DEF Editor
  <2>5. /\ q.id = x.id /\ q.seen = x.version /\ q.form = x.form /\ q.stage = "sent"
        /\ q.recovered = x.recovered
    BY <2>1
  <2>6. Follows(y, s)
    BY <2>4 DEF Follows
  <2>7. Restates(q, s)
    BY <2>5 DEF Restates, Follows
  <2>8. Carries(y, s)
    BY <2>4, <2>5, <2>7 DEF Carries, Follows
  <2> QED
    BY <2>3, <2>6, <2>8 DEF InLine
<1> QED
  BY <1>1, <1>2

LEMMA SaveAskedInLine ==
  ASSUME NEW x \in Editor, NEW leaving \in BOOLEAN, NEW s, InLine(x, s)
  PROVE  InLine(SaveAsked(x, leaving), s)
<1>1. CASE SaveAsked(x, leaving) = Ended(x, FALSE)
  BY <1>1, EndedInLine
<1>2. CASE SaveAsked(x, leaving) = [x EXCEPT !.queued = @ \/ OutranRequest(x)]
  <2>1. PICK y : y = [x EXCEPT !.queued = @ \/ OutranRequest(x)]
    OBVIOUS
  <2>2. /\ y.form = x.form /\ y.base = x.base /\ y.id = x.id /\ y.version = x.version
        /\ y.req = x.req /\ y.recovered = x.recovered
    BY <2>1 DEF Editor
  <2> QED
    BY <1>2, <2>1, <2>2 DEF InLine, Follows, Carries
<1>3. CASE SaveAsked(x, leaving) = x
  BY <1>3
<1>4. CASE SaveAsked(x, leaving) = Sent(x, x.id, leaving)
  BY <1>4, SentInLine DEF InLine
<1> QED
  BY <1>1, <1>2, <1>3, <1>4 DEF SaveAsked

LEMMA DrainedInLine ==
  ASSUME NEW x \in Editor, NEW ok \in BOOLEAN, NEW s, Follows(x, s)
  PROVE  InLine(Drained(x, ok, x.id), s)
<1>1. CASE x.queued
  <2>1. (x.leave = "saving") \in BOOLEAN
    BY Zenon
  <2>2. PICK leaving \in BOOLEAN : Drained(x, ok, x.id) = Sent(x, x.id, leaving)
    BY <1>1, <2>1 DEF Drained
  <2> QED
    BY <2>2, SentInLine
<1>2. CASE ~x.queued
  <2>1. PICK y : y = [x EXCEPT !.req = None]
    OBVIOUS
  <2>2. y \in Editor
    BY <2>1 DEF Editor
  <2>3. /\ y.form = x.form /\ y.base = x.base /\ y.id = x.id /\ y.version = x.version
        /\ y.req = None /\ y.recovered = x.recovered
    BY <2>1 DEF Editor
  <2>4. InLine(y, s)
    BY <2>3 DEF InLine, Follows, Carries
  <2>5. Drained(x, ok, x.id) = Ended(y, ok)
    BY <1>2, <2>1 DEF Drained
  <2> QED
    BY <2>2, <2>4, <2>5, EndedInLine
<1> QED
  BY <1>1, <1>2

LEMMA LandedInLine ==
  ASSUME NEW x \in Editor, NEW s, InLine(x, s), kind = "recipe",
         x.req # None, x.req.stage = "landed", x.req.row \in Rows
  PROVE  InLine(Landed(x), s)
<1> DEFINE q == x.req
           page == IF q.id = 0 /\ ~q.leaving /\ kind # "recipe"
                   THEN "moving" ELSE x.page
           url == IF q.id = 0 /\ (q.leaving \/ kind # "recipe")
                  THEN q.row ELSE x.url
           behind == "half" \in {x.form.shape, q.form.shape}
           y == [x EXCEPT !.id = q.row, !.version = q.at, !.base = Baseline(x),
                          !.behind = behind, !.url = url, !.page = page,
                          !.pill = "saved"]
<1>1. /\ q \in Request /\ q.at \in Nat /\ q.row \in Rows /\ q.form \in Form
      /\ x.base \in Form /\ x.form \in Form
  BY EditorLines
<1>2. Landed(x) = Drained(y, TRUE, q.row)
  BY DEF Landed, ClosesOverId
<1>3. Baseline(x) \in Form /\ Baseline(x) \in {x.base, q.form}
  BY <1>1 DEF Baseline
<1>4. /\ page \in {"open", "moving", "closed"} /\ url \in Rows \cup {0}
      /\ behind \in BOOLEAN
  BY <1>1 DEF Editor
<1> HIDE DEF page, url, behind
<1>5. y \in Editor
  BY ZenonT(60), <1>1, <1>3, <1>4 DEF Editor
<1>6. /\ y.id = q.row /\ y.version = q.at /\ y.base = Baseline(x)
      /\ y.form = x.form /\ y.recovered = x.recovered
  BY DEF Editor
<1> HIDE DEF y
<1>7. Follows(y, s)
  <2> SUFFICES ASSUME ~x.recovered
               PROVE  /\ x.form.line = Baseline(x).line
                      /\ q.row = Record => LineAt(s, q.at, Baseline(x).line)
    BY <1>6 DEF Follows
  <2>1. x.form.line = x.base.line /\ ~q.recovered /\ q.form.line = x.base.line
    BY DEF InLine, Follows, Carries
  <2>2. Baseline(x).line = x.base.line
    BY <1>3, <2>1
  <2>3. q.row = Record => LineAt(s, q.at, q.form.line)
    BY <2>1 DEF InLine, Carries, Restates
  <2> QED
    BY <2>1, <2>2, <2>3
<1> QED
  BY <1>2, <1>5, <1>6, <1>7, DrainedInLine

LEMMA RefusedInLine ==
  ASSUME NEW x \in Editor, NEW s, InLine(x, s)
  PROVE  InLine(Refused(x), s)
<1>1. PICK y : y = [x EXCEPT !.pill = "conflict", !.req = None, !.queued = FALSE]
  OBVIOUS
<1>2. y \in Editor
  BY <1>1 DEF Editor
<1>3. /\ y.form = x.form /\ y.base = x.base /\ y.id = x.id /\ y.version = x.version
      /\ y.req = None /\ y.recovered = x.recovered
  BY <1>1 DEF Editor
<1>4. InLine(y, s)
  BY <1>3 DEF InLine, Follows, Carries
<1> QED
  BY <1>1, <1>2, <1>4, EndedInLine DEF Refused

LEMMA FailedInLine ==
  ASSUME NEW x \in Editor, NEW s, InLine(x, s)
  PROVE  InLine(Failed(x), s)
<1>1. PICK y : y = [x EXCEPT !.pill = "error"]
  OBVIOUS
<1>2. y \in Editor
  BY <1>1 DEF Editor
<1>3. /\ y.form = x.form /\ y.base = x.base /\ y.id = x.id /\ y.version = x.version
      /\ y.recovered = x.recovered
  BY <1>1 DEF Editor
<1>4. Follows(y, s)
  BY <1>3 DEF InLine, Follows
<1>5. Failed(x) = Drained(y, FALSE, y.id)
  BY <1>1, <1>3 DEF Failed
<1> QED
  BY <1>2, <1>4, <1>5, DrainedInLine

LEMMA AddressedInLine ==
  ASSUME NEW x \in Editor, NEW s, InLine(x, s)
  PROVE  InLine(Addressed(x), s)
<1>1. PICK y : y = [x EXCEPT !.url = x.id]
  OBVIOUS
<1>2. /\ y.form = x.form /\ y.base = x.base /\ y.id = x.id /\ y.version = x.version
      /\ y.req = x.req /\ y.recovered = x.recovered
  BY <1>1 DEF Editor
<1>3. InLine(y, s)
  BY <1>2 DEF InLine, Follows, Carries
<1> QED
  BY <1>1, <1>3 DEF Addressed

\* The form of a page in line is replaced by one with the same line.
LEMMA FormInLine ==
  ASSUME NEW x \in Editor, NEW y \in Editor, NEW s, InLine(x, s),
         y.form.line = x.form.line \/ y.form.line = x.base.line \/ y.recovered,
         y.base = x.base, y.id = x.id, y.version = x.version, y.req = x.req,
         y.recovered = x.recovered \/ y.recovered
  PROVE  InLine(y, s)
  BY EditorLines DEF InLine, Follows, Carries

LEMMA LoadedInLine ==
  ASSUME TypeOK, rows[Record] # <<>>, NEW w \in Windows, NEW r \in Rows \cup {0}
  PROVE  InLine(Loaded(w, r), rows[Record])
<1> DEFINE held == IF r = 0 THEN Fresh(kind) ELSE Held(r)
           version == IF r = 0 THEN 0 ELSE Version(r)
           copy == draft[IF r = 0 THEN w ELSE r]
           offered == IF Drafting /\ copy # held THEN copy ELSE None
           y == [Closed EXCEPT !.page = "open", !.id = r, !.url = r,
                               !.form = held, !.base = held,
                               !.version = version, !.offered = offered]
<1>1. Loaded(w, r) = y
  BY DEF Loaded
<1> HIDE DEF offered
<1>2. /\ y.id = r /\ y.form = held /\ y.base = held /\ y.version = version
      /\ y.req = None
  BY DEF Closed
<1>3. r = Record => LineAt(rows[Record], version, held.line)
  <2>1. /\ rows[Record] \in Seq(Form) /\ rows[Record] # <<>>
        /\ Len(rows[Record]) \in Nat \ {0}
    BY RecordRow DEF TypeOK
  <2> QED
    BY <2>1, RecordRow DEF LineAt, Held, Version
<1> HIDE DEF y, held, version
<1> QED
  BY <1>1, <1>2, <1>3 DEF InLine, Follows, Carries

\* The window's page becomes y, while the record's row grows.
LEMMA WindowInLine ==
  ASSUME TypeOK, LineInv, NEW w \in Windows, NEW y \in Editor,
         win' = [win EXCEPT ![w] = y], kind' = kind,
         rows' \in [Rows -> Seq(Form)], Grown, InLine(y, rows'[Record]),
         \A v \in Windows : OrphanInLine(orphan'[v], rows'[Record])
  PROVE  LineInv'
<1>1. PICK s \in Seq(Form), s2 \in Seq(Form) :
        s = rows[Record] /\ s2 = rows'[Record]
  BY RecordRow DEF TypeOK
<1>2. Longer(s, s2)
  BY <1>1, RecordRow DEF Longer, Grown
<1>3. s # <<>> /\ s2 # <<>>
  BY <1>1, <1>2 DEF LineInv, Longer
<1>4. ASSUME NEW v \in Windows PROVE InLine(win'[v], s2)
  <2>1. CASE v = w
    BY <1>1, <2>1 DEF TypeOK
  <2>2. CASE v # w
    <3>1. win'[v] = win[v] /\ win[v] \in Editor /\ InLine(win[v], s)
      BY <1>1, <2>2 DEF TypeOK, LineInv
    <3> QED
      BY <1>2, <3>1, InLineLasts
  <2> QED
    BY <2>1, <2>2
<1>5. ASSUME NEW v \in Windows PROVE InLine(win[v], rows[Record])'
  BY <1>1, <1>4 DEF InLine, Follows, Carries, Restates, LineAt
<1>6. ASSUME NEW v \in Windows PROVE OrphanInLine(orphan[v], rows[Record])'
  BY DEF OrphanInLine, Restates, LineAt
<1> QED
  BY <1>1, <1>3, <1>5, <1>6 DEF LineInv

-----------------------------------------------------------------------------
(* The editors' steps keep every page in line.                             *)

LEMMA OrphansStay ==
  ASSUME LineInv, UNCHANGED <<rows, orphan>>
  PROVE  \A v \in Windows : OrphanInLine(orphan'[v], rows'[Record])
  BY DEF LineInv

LEMMA SetAdrift ==
  ASSUME TypeOK, LineInv, UNCHANGED rows, NEW w \in Windows,
         orphan' = Abandoned(w) \/ orphan' = [orphan EXCEPT ![w] = Alone(win[w])],
         orphan' = Abandoned(w) \/ Running(win[w])
  PROVE  \A v \in Windows : OrphanInLine(orphan'[v], rows'[Record])
<1> SUFFICES ASSUME NEW v \in Windows
             PROVE  OrphanInLine(orphan'[v], rows[Record])
  OBVIOUS
<1>1. /\ orphan \in [Windows -> Orphan \cup {None}] /\ win[w] \in Editor
      /\ InLine(win[w], rows[Record]) /\ OrphanInLine(orphan[v], rows[Record])
  BY DEF TypeOK, LineInv
<1>2. CASE v # w \/ ~Running(win[w])
  <2>1. orphan'[v] = orphan[v]
    BY <1>1, <1>2 DEF Abandoned
  <2> QED
    BY <1>1, <2>1
<1>3. CASE v = w /\ Running(win[w])
  <2>1. PICK n \in {None, win[w].form}, r \in BOOLEAN :
          /\ orphan'[v] = [req |-> win[w].req, next |-> n, recovered |-> r]
          /\ n # None => r = win[w].recovered
    BY <1>1, <1>3, EditorLines DEF Abandoned, Alone
  <2>2. /\ Restates(win[w].req, rows[Record])
        /\ win[w].req.recovered => win[w].recovered
        /\ ~win[w].recovered => win[w].form.line = win[w].req.form.line
    BY <1>1, <1>3 DEF InLine, Follows, Carries, Running
  <2> QED
    BY <2>1, <2>2 DEF OrphanInLine
<1> QED
  BY <1>2, <1>3

LEMMA BecomesInLine ==
  ASSUME TypeOK, LineInv, NEW w \in Windows, NEW y \in Editor,
         InLine(y, rows[Record]), Becomes(w, y), UNCHANGED <<kind, rows>>,
         \A v \in Windows : OrphanInLine(orphan'[v], rows'[Record])
  PROVE  LineInv'
<1>1. PICK z \in Editor : z = Addressed(y) /\ win' = [win EXCEPT ![w] = z]
  BY AddressedKeeps DEF Becomes
<1>2. InLine(z, rows[Record])
  BY <1>1, AddressedInLine
<1>3. InLine(z, rows'[Record]) /\ rows' \in [Rows -> Seq(Form)] /\ Grown
  BY <1>2, StillGrown DEF TypeOK
<1> QED
  BY <1>1, <1>3, WindowInLine

\* A step that writes no row and sets no loop adrift.
LEMMA QuietInLine ==
  ASSUME TypeOK, LineInv, NEW w \in Windows, NEW y \in Editor,
         InLine(y, rows[Record]), Becomes(w, y), UNCHANGED <<kind, rows, orphan>>
  PROVE  LineInv'
  BY OrphansStay, BecomesInLine

LEMMA TypeInLine ==
  ASSUME TypeOK, LineInv, NEW w \in Windows, Type(w) PROVE LineInv'
<1>1. /\ win[w] \in Editor /\ InLine(win[w], rows[Record]) /\ win[w].form \in Form
      /\ UNCHANGED <<kind, rows, orphan>>
  BY Typed DEF LineInv, Type, Same
<1>2. CASE /\ edits' = edits + 1
           /\ \E s \in Shapes(kind) :
                 Becomes(w, [win[w] EXCEPT !.form.n = edits', !.form.shape = s])
  <2>1. PICK s \in Shapes(kind) :
          Becomes(w, [win[w] EXCEPT !.form.n = edits', !.form.shape = s])
    BY <1>2
  <2>2. PICK e \in Nat : e = edits'
    BY <1>2 DEF TypeOK
  <2>3. PICK f : f = [win[w].form EXCEPT !.n = e, !.shape = s]
    OBVIOUS
  <2>4. f \in Form /\ f.line = win[w].form.line
    <3>1. s \in {"whole", "half", "part", "invalid"}
      BY DEF Shapes
    <3> QED
      BY <1>1, <2>3, <3>1 DEF Form
  <2>5. PICK y : y = [win[w] EXCEPT !.form = f]
    OBVIOUS
  <2>6. /\ y \in Editor /\ y.form = f /\ y.base = win[w].base /\ y.id = win[w].id
        /\ y.version = win[w].version /\ y.req = win[w].req
        /\ y.recovered = win[w].recovered
    BY <1>1, <2>4, <2>5 DEF Editor
  <2>7. y = [win[w] EXCEPT !.form.n = e, !.form.shape = s]
    BY <1>1, <2>3, <2>5 DEF Editor, Form
  <2>8. InLine(y, rows[Record])
    BY <1>1, <2>4, <2>6, FormInLine
  <2>9. Becomes(w, y)
    BY <2>1, <2>2, <2>7
  <2> QED
    BY <1>1, <2>6, <2>8, <2>9, QuietInLine
<1>3. CASE Becomes(w, PutBack(win[w], win[w].base))
  <2>1. PICK y \in Editor : y = PutBack(win[w], win[w].base)
    BY <1>1, EditorNumbers, PutBackKeeps
  <2>2. /\ y.form = win[w].base /\ y.base = win[w].base /\ y.id = win[w].id
        /\ y.version = win[w].version /\ y.req = win[w].req
        /\ y.recovered = win[w].recovered
    BY <1>1, <2>1 DEF PutBack, Editor
  <2>3. InLine(y, rows[Record])
    BY <1>1, <2>2, FormInLine
  <2> QED
    BY <1>1, <1>3, <2>1, <2>3, QuietInLine
<1> QED
  BY <1>2, <1>3 DEF Type

LEMMA SaveInLine ==
  ASSUME TypeOK, LineInv, NEW w \in Windows, Save(w) \/ Autosave(w) PROVE LineInv'
<1>1. /\ win[w] \in Editor /\ InLine(win[w], rows[Record])
      /\ UNCHANGED <<kind, rows, orphan>>
  BY Typed DEF LineInv, Save, Autosave, Same
<1>2. PICK leaving \in BOOLEAN : Becomes(w, SaveAsked(win[w], leaving))
  <2>1. (win[w].leave = "saving") \in BOOLEAN /\ FALSE \in BOOLEAN
    BY Zenon
  <2> QED
    BY <2>1 DEF Save, Autosave
<1>3. PICK y \in Editor : y = SaveAsked(win[w], leaving)
  BY <1>1, SaveAskedKeeps
<1>4. InLine(y, rows[Record])
  BY <1>1, <1>3, SaveAskedInLine
<1> QED
  BY <1>1, <1>2, <1>3, <1>4, QuietInLine

LEMMA ClosedBecomesInLine ==
  ASSUME TypeOK, LineInv, NEW w \in Windows, Becomes(w, Closed),
         UNCHANGED <<kind, rows>>, orphan' = Abandoned(w)
  PROVE  LineInv'
<1>1. Closed \in Editor /\ InLine(Closed, rows[Record])
  BY ClosedType, ClosedInLine
<1> QED
  BY <1>1, SetAdrift, BecomesInLine

LEMMA LeaveInLine ==
  ASSUME TypeOK, LineInv, NEW w \in Windows, Leave(w) PROVE LineInv'
<1>1. /\ win[w] \in Editor /\ InLine(win[w], rows[Record]) /\ Drafting
      /\ UNCHANGED <<kind, rows>>
  BY Typed DEF LineInv, Leave, Drafting
<1>2. CASE Dirty(win[w])
  <2>1. PICK x : x = [win[w] EXCEPT !.leave = "saving", !.owed = win[w].form.n]
    OBVIOUS
  <2>2. /\ x \in Editor /\ x.form = win[w].form /\ x.base = win[w].base
        /\ x.id = win[w].id /\ x.version = win[w].version
        /\ x.req = win[w].req /\ x.recovered = win[w].recovered
    BY <1>1, <2>1 DEF Editor, Form
  <2>3. InLine(x, rows[Record])
    BY <1>1, <2>2, FormInLine
  <2>4. PICK y \in Editor : y = SaveAsked(x, TRUE) /\ InLine(y, rows[Record])
    BY <2>2, <2>3, SaveAskedKeeps, SaveAskedInLine
  <2>5. Becomes(w, y) /\ UNCHANGED orphan
    BY <1>1, <1>2, <2>1, <2>4 DEF Leave
  <2> QED
    BY <1>1, <2>4, <2>5, QuietInLine
<1>3. CASE ~Dirty(win[w])
  BY <1>1, <1>3, ClosedBecomesInLine DEF Leave
<1> QED
  BY <1>2, <1>3

LEMMA StayInLine ==
  ASSUME TypeOK, LineInv, NEW w \in Windows, Stay(w) \/ LeaveWithout(w)
  PROVE  LineInv'
<1>1. CASE Stay(w)
  <2>1. win[w] \in Editor /\ InLine(win[w], rows[Record])
    BY Typed DEF LineInv
  <2>2. PICK y : y = [win[w] EXCEPT !.leave = "no"]
    OBVIOUS
  <2>3. /\ y \in Editor /\ y.form = win[w].form /\ y.base = win[w].base
        /\ y.id = win[w].id /\ y.version = win[w].version
        /\ y.req = win[w].req /\ y.recovered = win[w].recovered
    BY <2>1, <2>2 DEF Editor
  <2>4. InLine(y, rows[Record])
    BY <2>1, <2>3, FormInLine
  <2>5. Becomes(w, y) /\ UNCHANGED <<kind, rows, orphan>>
    BY <1>1, <2>2 DEF Stay, OnlyHere, Same
  <2> QED
    BY <2>3, <2>4, <2>5, QuietInLine
<1>2. CASE LeaveWithout(w)
  BY <1>2, ClosedBecomesInLine DEF LeaveWithout
<1> QED
  BY <1>1, <1>2

LEMMA RestoreInLine ==
  ASSUME TypeOK, LineInv, NEW w \in Windows, Restore(w) PROVE LineInv'
<1>1. /\ win[w] \in Editor /\ InLine(win[w], rows[Record])
      /\ win[w].offered \in Form
  BY Typed, EditorNumbers DEF LineInv, Restore
<1>2. PICK x \in Editor : x = PutBack(win[w], win[w].offered)
  BY <1>1, PutBackKeeps
<1>3. PICK y : y = [x EXCEPT !.offered = None, !.recovered = TRUE]
  OBVIOUS
<1>4. /\ x.base = win[w].base /\ x.id = win[w].id /\ x.version = win[w].version
      /\ x.req = win[w].req
  BY <1>1, <1>2 DEF PutBack, Editor
<1>5. /\ y \in Editor /\ y.base = x.base /\ y.id = x.id /\ y.version = x.version
      /\ y.req = x.req /\ y.recovered
  BY <1>2, <1>3 DEF Editor
<1>6. InLine(y, rows[Record])
  BY <1>1, <1>4, <1>5, FormInLine
<1>7. Becomes(w, y) /\ UNCHANGED <<kind, rows, orphan>>
  BY <1>2, <1>3 DEF Restore, OnlyHere, Same
<1> QED
  BY <1>5, <1>6, <1>7, QuietInLine

\* The window shows y, and nothing else moves but copies and loops adrift.
LEMMA ShowsInLine ==
  ASSUME TypeOK, LineInv, NEW w \in Windows, NEW y \in Editor,
         InLine(y, rows[Record]), win' = [win EXCEPT ![w] = y],
         UNCHANGED <<kind, rows>>,
         \A v \in Windows : OrphanInLine(orphan'[v], rows'[Record])
  PROVE  LineInv'
<1>1. InLine(y, rows'[Record]) /\ rows' \in [Rows -> Seq(Form)] /\ Grown
  BY StillGrown DEF TypeOK
<1> QED
  BY <1>1, WindowInLine

LEMMA DiscardInLine ==
  ASSUME TypeOK, LineInv, NEW w \in Windows, Discard(w) \/ DiscardMine(w)
  PROVE  LineInv'
<1>1. /\ win[w] \in Editor /\ InLine(win[w], rows[Record])
      /\ win \in [Windows -> Editor]
  BY Typed DEF LineInv, TypeOK
<1>2. PICK y : y = [win[w] EXCEPT !.offered = None]
  OBVIOUS
<1>3. /\ y \in Editor /\ y.form = win[w].form /\ y.base = win[w].base
      /\ y.id = win[w].id /\ y.version = win[w].version
      /\ y.req = win[w].req /\ y.recovered = win[w].recovered
  BY <1>1, <1>2 DEF Editor
<1>4. InLine(y, rows[Record])
  BY <1>1, <1>3, FormInLine
<1>5. win' = [win EXCEPT ![w] = y] /\ UNCHANGED <<kind, rows, orphan>>
  BY <1>1, <1>2 DEF Discard, DiscardMine, OnlyHere, Same
<1> QED
  BY <1>3, <1>4, <1>5, OrphansStay, ShowsInLine

LEMMA LoadInLine ==
  ASSUME IInv, LineInv, NEW w \in Windows, Open(w) \/ Reload(w) \/ Arrive(w)
  PROVE  LineInv'
<1>1. /\ TypeOK /\ win[w].url \in Rows \cup {0}
      /\ win[w].url # 0 => rows[win[w].url] # <<>>
  BY UrlExists DEF IInv
<1>2. UNCHANGED <<kind, rows>>
  BY DEF Open, Reload, Arrive, Load
<1>3. PICK r \in Rows \cup {0} :
        (r # 0 => rows[r] # <<>>) /\ Mounts(w, Loaded(w, r))
  BY <1>1 DEF Open, Reload, Arrive, Load
<1>4. \A v \in Windows : OrphanInLine(orphan'[v], rows'[Record])
  <2>1. CASE UNCHANGED orphan
    BY <1>2, <2>1, OrphansStay
  <2>2. CASE orphan' = Abandoned(w)
    BY <1>1, <1>2, <2>2, SetAdrift
  <2>3. CASE Running(win[w]) /\ orphan' = [orphan EXCEPT ![w] = Alone(win[w])]
    BY <1>1, <1>2, <2>3, SetAdrift
  <2> QED
    BY <2>1, <2>2, <2>3 DEF Open, Reload, Arrive
<1>5. PICK y \in Editor : y = Loaded(w, r)
  BY <1>1, <1>3, LoadedType
<1>6. InLine(y, rows[Record])
  BY <1>1, <1>5, LoadedInLine DEF LineInv
<1>7. win' = [win EXCEPT ![w] = y]
  BY <1>3, <1>5 DEF Mounts
<1> QED
  BY <1>1, <1>2, <1>4, <1>6, <1>7, ShowsInLine

LEMMA AnswerInLine ==
  ASSUME IInv, LineInv, NEW w \in Windows, Answer(w) PROVE LineInv'
<1>1. /\ TypeOK /\ win[w] \in Editor /\ InLine(win[w], rows[Record])
      /\ win[w].req # None /\ kind = "recipe" /\ UNCHANGED <<kind, rows, orphan>>
  BY Typed DEF IInv, LineInv, Answer, Running, OnlyHere, Same
<1>2. CASE Becomes(w, Refused(win[w]))
  <2>0. PICK x \in Editor : x = [win[w] EXCEPT !.pill = "conflict", !.req = None,
                                               !.queued = FALSE]
    BY <1>1 DEF Editor
  <2>1. PICK y \in Editor : y = Refused(win[w])
    BY <2>0, EndedStays DEF Refused
  <2>2. InLine(y, rows[Record])
    BY <1>1, <2>1, RefusedInLine
  <2> QED
    BY <1>1, <1>2, <2>1, <2>2, QuietInLine
<1>3. CASE win[w].req.stage = "landed" /\ Becomes(w, Landed(win[w]))
  <2>1. PICK y \in Editor : y = Landed(win[w]) /\ win[w].req.row \in Rows
    BY <1>1, <1>3, LandedType DEF Running
  <2>2. InLine(y, rows[Record])
    BY <1>1, <1>3, <2>1, LandedInLine
  <2> QED
    BY <1>1, <1>3, <2>1, <2>2, QuietInLine
<1> QED
  BY <1>2, <1>3 DEF Answer

LEMMA FailInLine ==
  ASSUME TypeOK, LineInv, NEW w \in Windows, Fail(w) PROVE LineInv'
<1>1. /\ win[w] \in Editor /\ InLine(win[w], rows[Record]) /\ Running(win[w])
      /\ UNCHANGED <<kind, rows>> /\ win[w].id \in Rows \cup {0}
  BY Typed DEF LineInv, Fail
<1>2. PICK x \in Editor : x = [win[w] EXCEPT !.pill = "error"]
  BY <1>1 DEF Editor
<1>3. Failed(win[w]) = Drained(x, FALSE, win[w].id)
  BY <1>2 DEF Failed
<1>4. PICK y \in Editor : y = Failed(win[w])
  BY <1>1, <1>3, DrainedKeeps
<1>5. InLine(y, rows[Record])
  BY <1>1, <1>4, FailedInLine
<1>6. \A v \in Windows : OrphanInLine(orphan'[v], rows'[Record])
  <2>1. CASE UNCHANGED orphan
    BY <1>1, <2>1, OrphansStay
  <2>2. CASE orphan' = [orphan EXCEPT ![w] = Alone(win[w])]
    BY <1>1, <2>2, SetAdrift
  <2> QED
    BY <2>1, <2>2 DEF Fail
<1>7. Becomes(w, y)
  BY <1>4 DEF Fail
<1> QED
  BY <1>1, <1>5, <1>6, <1>7, BecomesInLine

\* A request served restates its line still, and changes the record's line
\* only when a recovery copy was put back into its form.
LEMMA ServedInLine ==
  ASSUME TypeOK, rows[Record] # <<>>, NEW q0 \in Request, q0.stage = "sent",
         Restates(q0, rows[Record]), NEW q \in Served(q0), Writes(q)
  PROVE  /\ Restates(q, rows'[Record])
         /\ q.form = q0.form /\ q.id = q0.id /\ q.recovered = q0.recovered
         /\ Held(Record)'.line # Held(Record).line => q0.recovered
<1>1. PICK s \in Seq(Form), s2 \in Seq(Form) :
        s = rows[Record] /\ s2 = rows'[Record]
  BY ServedKeeps, RecordRow DEF TypeOK
<1>2. /\ s # <<>> /\ Len(s) \in Nat \ {0} /\ Longer(s, s2)
      /\ rows \in [Rows -> Seq(Form)]
  BY <1>1, ServedKeeps, RecordRow DEF Longer, Grown, TypeOK
<1>3. /\ q \in Request /\ q.form = q0.form /\ q.id = q0.id
      /\ q.form \in Form /\ q.id \in Rows \cup {0} /\ q.seen = q0.seen
      /\ q0.seen \in Nat
  BY ServedKeeps DEF Request
<1>4. q.recovered = q0.recovered
  <2>1. \/ \E r : q = [q0 EXCEPT !.stage = "landed", !.row = r, !.at = 0]
        \/ q = [q0 EXCEPT !.stage = "stale"]
        \/ \E r, v : q = [q0 EXCEPT !.stage = "landed", !.row = r, !.at = v]
    BY DEF Served
  <2> QED
    BY <2>1 DEF Request
<1>5. CASE q.stage = "landed" /\ q.row = Record /\ q.id = Record
  <2>1. q0.id # 0 /\ ~Stale(q0)
    <3>1. Stale(q0) => q.stage = "stale"
      BY <1>3, <1>5, RecordRow DEF Served, Request
    <3> QED
      BY <1>3, <1>5, <3>1, RecordRow
  <2>2. q.at = Len(s) /\ q0.seen = Version(Record)
    <3>1. q = [q0 EXCEPT !.stage = "landed", !.row = q0.id, !.at = Version(q0.id) + 1]
      BY <2>1 DEF Served
    <3>2. q.at = Version(Record) + 1
      BY <1>3, <1>5, <3>1 DEF Request
    <3> QED
      BY <1>1, <1>2, <1>3, <1>5, <2>1, <3>2 DEF Version, Stale
  <2>3. s2 = Append(s, Stored(q.form))
    BY <1>1, <1>2, <1>5, RecordRow DEF Writes, Put
  <2>4. LineAt(s2, q.at, q.form.line)
    BY <1>2, <1>3, <2>2, <2>3, StoredLine DEF LineAt
  <2>5. ~q0.recovered => LineAt(s, q0.seen, q.form.line)
    BY <1>1, <1>3, <1>5 DEF Restates
  <2>6. Restates(q, s2)
    BY <1>2, <1>3, <1>4, <1>5, <2>4, <2>5, LineLasts DEF Restates
  <2>7. /\ Held(Record) = s[Len(s)] /\ Held(Record)' = s2[Len(s2)]
        /\ s2[Len(s2)].line = q.form.line
    BY <1>1, <1>2, <1>3, <2>3, StoredLine DEF Held
  <2>8. ~q0.recovered => s[Len(s)].line = q.form.line
    BY <1>1, <1>2, <2>2, <2>5 DEF LineAt, Version
  <2> QED
    BY <1>1, <1>3, <1>4, <2>6, <2>7, <2>8
<1>6. CASE ~(q.stage = "landed" /\ q.row = Record /\ q.id = Record)
  <2>1. q.stage = "landed" => q.row # Record
    <3> SUFFICES ASSUME q.stage = "landed", q.row = Record PROVE FALSE
      OBVIOUS
    <3>1. q.id # Record
      BY <1>6
    <3>2. CASE q0.id = 0
      <4> DEFINE free == {f \in Rows : rows[f] = <<>>}
                 r == CHOOSE f \in free : TRUE
      <4>1. free # {} /\ q = [q0 EXCEPT !.stage = "landed", !.row = r, !.at = 0]
        BY <3>2 DEF Served
      <4>2. r \in free /\ q.row = r
        BY <4>1 DEF Request
      <4> QED
        BY <4>2
    <3>3. CASE q0.id # 0
      <4>1. ~Stale(q0)
        <5>1. Stale(q0) => q = [q0 EXCEPT !.stage = "stale"]
          BY <3>3 DEF Served
        <5> QED
          BY <5>1 DEF Request
      <4>2. q = [q0 EXCEPT !.stage = "landed", !.row = q0.id, !.at = Version(q0.id) + 1]
        BY <3>3, <4>1 DEF Served
      <4>3. q.row = q0.id
        BY <4>2 DEF Request
      <4> QED
        BY <1>3, <3>1, <4>3
    <3> QED
      BY <3>2, <3>3
  <2>2. s2 = s
    <3>1. CASE q.stage = "landed"
      <4>1. rows' = [rows EXCEPT ![q.row] = Append(@, Stored(q.form))]
        BY <3>1 DEF Writes, Put
      <4> QED
        BY <1>1, <1>2, <2>1, <3>1, <4>1, RecordRow
    <3>2. CASE q.stage # "landed"
      BY <1>1, <3>2 DEF Writes
    <3> QED
      BY <3>1, <3>2
  <2>3. Restates(q, s2)
    BY <1>1, <1>3, <1>4, <2>1, <2>2 DEF Restates
  <2>4. Held(Record)' = Held(Record)
    BY <1>1, <2>2 DEF Held
  <2> QED
    BY <1>1, <1>3, <1>4, <2>3, <2>4
<1> QED
  BY <1>5, <1>6

\* The orphans' loops while the record's row grows.
LEMMA OrphansGrow ==
  ASSUME TypeOK, LineInv, rows' \in [Rows -> Seq(Form)], Grown,
         NEW v \in Windows
  PROVE  OrphanInLine(orphan[v], rows'[Record])
<1>1. PICK s \in Seq(Form), s2 \in Seq(Form) :
        s = rows[Record] /\ s2 = rows'[Record]
  BY RecordRow DEF TypeOK
<1>2. Longer(s, s2)
  BY <1>1, RecordRow DEF Longer, Grown
<1>3. PICK o \in Orphan \cup {None} : o = orphan[v]
  BY DEF TypeOK
<1>4. OrphanInLine(o, s)
  BY <1>1, <1>3 DEF LineInv
<1>5. OrphanInLine(o, s2)
  BY <1>2, <1>4, OrphanInLineLasts
<1> QED
  BY <1>1, <1>3, <1>5

LEMMA WindowsGrow ==
  ASSUME TypeOK, LineInv, rows' \in [Rows -> Seq(Form)], Grown,
         NEW v \in Windows
  PROVE  InLine(win[v], rows'[Record])
<1>1. PICK s \in Seq(Form), s2 \in Seq(Form) :
        s = rows[Record] /\ s2 = rows'[Record]
  BY RecordRow DEF TypeOK
<1>2. Longer(s, s2)
  BY <1>1, RecordRow DEF Longer, Grown
<1>3. PICK x \in Editor : x = win[v]
  BY DEF TypeOK
<1>4. InLine(x, s)
  BY <1>1, <1>3 DEF LineInv
<1>5. InLine(x, s2)
  BY <1>2, <1>4, InLineLasts
<1> QED
  BY <1>1, <1>3, <1>5

LEMMA ServeInLine ==
  ASSUME TypeOK, LineInv, NEW w \in Windows, Serve(w)
  PROVE  /\ LineInv'
         /\ Held(Record)'.line # Held(Record).line => win[w].req.recovered
<1>1. /\ win[w] \in Editor /\ InLine(win[w], rows[Record]) /\ win[w].req \in Request
      /\ win[w].req # None /\ win[w].req.stage = "sent"
      /\ rows[Record] # <<>> /\ win \in [Windows -> Editor]
      /\ UNCHANGED <<kind, orphan>>
  BY Typed DEF LineInv, Serve, Running, TypeOK
<1>2. Restates(win[w].req, rows[Record])
  BY <1>1 DEF InLine, Carries
<1>3. PICK q \in Served(win[w].req) :
        Writes(q) /\ win' = [win EXCEPT ![w].req = q]
  BY DEF Serve
<1>4. q \in Request /\ rows' \in [Rows -> Seq(Form)] /\ Grown
  BY <1>1, <1>3, ServedKeeps
<1>5. /\ Restates(q, rows'[Record])
      /\ q.form = win[w].req.form /\ q.id = win[w].req.id
      /\ q.recovered = win[w].req.recovered
      /\ Held(Record)'.line # Held(Record).line => win[w].req.recovered
  BY <1>1, <1>2, <1>3, ServedInLine
<1>6. PICK y : y = [win[w] EXCEPT !.req = q]
  OBVIOUS
<1>7. /\ y \in Editor /\ y.form = win[w].form /\ y.base = win[w].base
      /\ y.id = win[w].id /\ y.version = win[w].version
      /\ y.req = q /\ y.recovered = win[w].recovered
  BY <1>1, <1>4, <1>6 DEF Editor
<1>8. InLine(win[w], rows'[Record])
  BY <1>4, WindowsGrow
<1>9. InLine(y, rows'[Record])
  BY <1>1, <1>5, <1>7, <1>8 DEF InLine, Follows, Carries
<1>10. win' = [win EXCEPT ![w] = y]
  BY <1>1, <1>3, <1>6
<1>11. \A v \in Windows : OrphanInLine(orphan'[v], rows'[Record])
  BY <1>1, <1>4, OrphansGrow
<1>12. LineInv'
  BY <1>1, <1>4, <1>7, <1>9, <1>10, <1>11, WindowInLine
<1> QED
  BY <1>5, <1>12

\* Rows grow and a loop adrift moves on; no window changes.
LEMMA AdriftInLine ==
  ASSUME TypeOK, LineInv, rows' \in [Rows -> Seq(Form)], Grown,
         UNCHANGED <<kind, win>>,
         \A v \in Windows : OrphanInLine(orphan'[v], rows'[Record])
  PROVE  LineInv'
<1>1. \A v \in Windows : InLine(win'[v], rows'[Record])
  BY WindowsGrow
<1>2. rows'[Record] # <<>>
  <2>1. rows[Record] # <<>> /\ rows[Record] \in Seq(Form) /\ rows'[Record] \in Seq(Form)
        /\ Len(rows[Record]) <= Len(rows'[Record])
    BY RecordRow DEF LineInv, TypeOK, Grown
  <2> QED
    BY <2>1
<1>3. ASSUME NEW v \in Windows PROVE InLine(win[v], rows[Record])'
  BY <1>1 DEF InLine, Follows, Carries, Restates, LineAt
<1>4. ASSUME NEW v \in Windows PROVE OrphanInLine(orphan[v], rows[Record])'
  BY DEF OrphanInLine, Restates, LineAt
<1> QED
  BY <1>2, <1>3, <1>4 DEF LineInv

LEMMA ServeOrphanInLine ==
  ASSUME TypeOK, LineInv, NEW w \in Windows, ServeOrphan(w)
  PROVE  /\ LineInv'
         /\ Held(Record)'.line # Held(Record).line => orphan[w].req.recovered
<1>1. PICK o : o = orphan[w]
  OBVIOUS
<1>2. /\ o \in Orphan /\ o.req \in Request /\ o # None
      /\ orphan \in [Windows -> Orphan \cup {None}]
      /\ OrphanInLine(o, rows[Record])
      /\ rows[Record] # <<>> /\ kind = "recipe"
      /\ UNCHANGED <<kind, win>>
  BY <1>1 DEF TypeOK, LineInv, ServeOrphan, Orphan
<1>3. PICK q \in (IF o.req.stage = "sent" THEN Served(o.req) ELSE {o.req}) :
        /\ IF o.req.stage = "sent" THEN Writes(q) ELSE UNCHANGED rows
        /\ orphan' = [orphan EXCEPT ![w] =
              IF q.stage = "stale" \/ o.next = None THEN None
              ELSE [req |-> [q EXCEPT !.stage = "sent",
                                      !.id = IF ClosesOverId THEN q.id ELSE q.row,
                                      !.seen = q.at,
                                      !.form = o.next,
                                      !.recovered = o.recovered],
                    next |-> None, recovered |-> FALSE]]
  BY <1>1 DEF ServeOrphan
<1>4. /\ q \in Request /\ rows' \in [Rows -> Seq(Form)] /\ Grown
      /\ o.req.stage = "sent" => q.stage \in {"landed", "stale"}
  <2>1. CASE o.req.stage = "sent"
    BY <1>2, <1>3, <2>1, ServedKeeps
  <2>2. CASE o.req.stage # "sent"
    BY <1>2, <1>3, <2>2, StillGrown DEF TypeOK
  <2> QED
    BY <2>1, <2>2
<1>5. Restates(o.req, rows[Record])
  BY <1>2 DEF OrphanInLine
<1>6. /\ Restates(q, rows'[Record])
      /\ q.form = o.req.form /\ q.recovered = o.req.recovered
      /\ Held(Record)'.line # Held(Record).line => o.req.recovered
  <2>1. CASE o.req.stage = "sent"
    BY <1>2, <1>3, <1>5, <2>1, ServedInLine
  <2>2. CASE o.req.stage # "sent"
    BY <1>3, <1>5, <2>2 DEF Held
  <2> QED
    BY <2>1, <2>2
<1>7. q.stage \in {"landed", "stale"}
  BY <1>2, <1>3, <1>4 DEF Request
<1>8. OrphanInLine(orphan'[w], rows'[Record])
  <2>1. CASE q.stage = "stale" \/ o.next = None
    <3>1. orphan'[w] = None
      BY <1>2, <1>3, <2>1
    <3> QED
      BY <3>1 DEF OrphanInLine
  <2>2. CASE ~(q.stage = "stale" \/ o.next = None)
    <3>1. PICK p : p = [q EXCEPT !.stage = "sent", !.id = q.row, !.seen = q.at,
                                 !.form = o.next, !.recovered = o.recovered]
      OBVIOUS
    <3>2. /\ p.id = q.row /\ p.seen = q.at /\ p.form = o.next /\ p.stage = "sent"
          /\ p.recovered = o.recovered
      BY <1>4, <3>1 DEF Request
    <3>3. orphan'[w] = [req |-> p, next |-> None, recovered |-> FALSE]
      BY <1>2, <1>3, <2>2, <3>1 DEF ClosesOverId
    <3>4. ~o.recovered => ~q.recovered /\ o.next.line = q.form.line
      BY <1>2, <1>6, <2>2 DEF OrphanInLine
    <3>5. Restates(p, rows'[Record])
      BY <1>6, <1>7, <2>2, <3>2, <3>4 DEF Restates
    <3> QED
      BY <3>3, <3>5 DEF OrphanInLine
  <2> QED
    BY <2>1, <2>2
<1>9. ASSUME NEW v \in Windows PROVE OrphanInLine(orphan'[v], rows'[Record])
  <2>1. CASE v = w
    BY <1>8, <2>1
  <2>2. CASE v # w
    <3>1. orphan'[v] = orphan[v]
      BY <1>2, <1>3, <2>2
    <3> QED
      BY <1>4, <3>1, OrphansGrow
  <2> QED
    BY <2>1, <2>2
<1>10. LineInv'
  BY <1>2, <1>4, <1>9, AdriftInLine
<1> QED
  BY <1>1, <1>6, <1>10

LEMMA LoseOrphanInLine ==
  ASSUME TypeOK, LineInv, NEW w \in Windows, LoseOrphan(w) PROVE LineInv'
<1>1. /\ orphan \in [Windows -> Orphan \cup {None}]
      /\ orphan' = [orphan EXCEPT ![w] = None]
      /\ UNCHANGED <<kind, rows, win>> /\ rows' \in [Rows -> Seq(Form)] /\ Grown
  BY StillGrown DEF TypeOK, LoseOrphan
<1>2. \A v \in Windows : orphan'[v] = orphan[v] \/ orphan'[v] = None
  BY <1>1
<1>3. \A v \in Windows : OrphanInLine(orphan'[v], rows'[Record])
  BY <1>1, <1>2 DEF LineInv, OrphanInLine
<1> QED
  BY <1>1, <1>3, AdriftInLine

LEMMA RefreshInLine ==
  ASSUME LineInv, NEW w \in Windows, Refresh(w) PROVE FALSE
  BY DEF LineInv, Refresh

\* Only the server changes a row.
LEMMA OnlyServersWrite ==
  ASSUME NEW w \in Windows, Step(w), ~Serve(w), ~ServeOrphan(w)
  PROVE  UNCHANGED rows
  BY DEF Step, Type, Save, Autosave, Leave, Stay, LeaveWithout, Restore, Discard,
     Open, Reload, DiscardMine, Arrive, Refresh, Answer, Fail, LoseOrphan, Same,
     OnlyHere, Load

\* The editors' steps, together.
LEMMA EditorsInLine ==
  ASSUME IInv, LineInv, NEW w \in Windows, Step(w)
  PROVE  /\ LineInv'
         /\ Held(Record)'.line # Held(Record).line =>
               \E q \in RequestsOf(w) : q.recovered
<1>0. TypeOK
  BY DEF IInv
<1>1. CASE Serve(w)
  <2>1. win[w].req \in RequestsOf(w)
    BY <1>1 DEF Serve, Running, RequestsOf
  <2> QED
    BY <1>0, <1>1, <2>1, ServeInLine
<1>2. CASE ServeOrphan(w)
  <2>1. orphan[w].req \in RequestsOf(w)
    BY <1>2 DEF ServeOrphan, RequestsOf
  <2> QED
    BY <1>0, <1>2, <2>1, ServeOrphanInLine
<1>3. CASE ~Serve(w) /\ ~ServeOrphan(w)
  <2>1. Held(Record)' = Held(Record)
    BY <1>3, OnlyServersWrite DEF Held
  <2>2. LineInv'
    BY <1>0, <1>3, TypeInLine, SaveInLine, LeaveInLine, StayInLine, RestoreInLine,
       DiscardInLine, LoadInLine, RefreshInLine, AnswerInLine,
       FailInLine, LoseOrphanInLine
    DEF Step
  <2> QED
    BY <2>1, <2>2
<1> QED
  BY <1>1, <1>2, <1>3

-----------------------------------------------------------------------------
(* The tab's steps.                                                        *)

\* What the tab's helpers return.
LEMMA TabTypes ==
  /\ Tab!EmptyQueue \in Tab!Queue /\ Tab!NoWrite \in Tab!Write
  /\ \A q \in Tab!Queue :
        /\ Tab!Drained(q) \in Tab!Queue
        /\ Tab!Sending(q) \in Tab!Write /\ Tab!Sending(q).sent = q.desired
        /\ \A n \in Nat, shown \in Nat \cup {None} :
              /\ Tab!Enqueued(q, n, shown) \in Tab!Queue
              /\ Tab!Enqueued(q, n, shown).desired = n
  BY DEF Tab!EmptyQueue, Tab!NoWrite, Tab!Queue, Tab!Write, Tab!Drained,
     Tab!Sending, Tab!Enqueued, Tab!MaybeValue, Tab!Value

\* The loop goes on, or ends.
LEMMA ContinueOK ==
  ASSUME TabOK, NEW d \in Domains, NEW q \in Tab!Queue, Tab!Continue(d, q)
  PROVE  /\ queue' \in [Domains -> Tab!Queue]
         /\ write' \in [Domains -> Tab!Write]
         /\ \A e \in Domains : write'[e].stage # "none" => write'[e].sent \in Nat
<1>1. /\ queue \in [Domains -> Tab!Queue] /\ write \in [Domains -> Tab!Write]
      /\ \A e \in Domains : write[e].stage # "none" => write[e].sent \in Nat
  BY DEF TabOK
<1>2. CASE q.desired # None
  <2>1. PICK r \in Tab!Queue, u \in Tab!Write :
          r = Tab!Drained(q) /\ u = Tab!Sending(q) /\ u.sent \in Nat
    <3>1. q.desired \in Nat
      BY <1>2 DEF Tab!Queue, Tab!MaybeValue, Tab!Value
    <3> QED
      BY <3>1, TabTypes
  <2>2. queue' = [queue EXCEPT ![d] = r] /\ write' = [write EXCEPT ![d] = u]
    BY <1>2, <2>1 DEF Tab!Continue
  <2> QED
    BY <1>1, <2>1, <2>2
<1>3. CASE q.desired = None
  <2>1. PICK u \in Tab!Write : u = Tab!NoWrite /\ u.stage = "none"
    BY TabTypes DEF Tab!NoWrite
  <2>2. queue' = [queue EXCEPT ![d] = q] /\ write' = [write EXCEPT ![d] = u]
    BY <1>3, <2>1 DEF Tab!Continue
  <2> QED
    BY <1>1, <2>1, <2>2
<1> QED
  BY <1>2, <1>3

LEMMA CommitOK ==
  ASSUME TabOK, NEW d \in Domains, Tab!Commit(d) PROVE TabOK'
<1>1. /\ queue \in [Domains -> Tab!Queue] /\ write \in [Domains -> Tab!Write]
      /\ screen \in [Domains -> Nat \cup {None}] /\ made \in Nat
      /\ \A e \in Domains : write[e].stage # "none" => write[e].sent \in Nat
  BY DEF TabOK
<1>2. PICK n \in Nat : n = made'
  BY <1>1 DEF Tab!Commit
<1>3. PICK q \in Tab!Queue : q = Tab!Enqueued(queue[d], n, screen[d]) /\ q.desired = n
  <2>1. PICK p \in Tab!Queue, shown \in Nat \cup {None} :
          p = queue[d] /\ shown = screen[d]
    BY <1>1
  <2>2. /\ Tab!Enqueued(p, n, shown) \in Tab!Queue
        /\ Tab!Enqueued(p, n, shown).desired = n
    BY TabTypes
  <2> QED
    BY <2>1, <2>2
<1>4. screen' \in [Domains -> Nat \cup {None}] /\ late' = late
  BY <1>1, <1>2 DEF Tab!Commit
<1>5. CASE Tab!Running(d)
  <2>1. queue' = [queue EXCEPT ![d] = q] /\ write' = write
    BY <1>2, <1>3, <1>5 DEF Tab!Commit
  <2> QED
    BY <1>1, <1>2, <1>4, <2>1 DEF TabOK
<1>6. CASE ~Tab!Running(d)
  <2>1. PICK r \in Tab!Queue, u \in Tab!Write :
          r = Tab!Drained(q) /\ u = Tab!Sending(q) /\ u.sent \in Nat
    BY <1>3, TabTypes
  <2>2. queue' = [queue EXCEPT ![d] = r] /\ write' = [write EXCEPT ![d] = u]
    BY <1>2, <1>3, <1>6, <2>1 DEF Tab!Commit
  <2>3. /\ queue' \in [Domains -> Tab!Queue] /\ write' \in [Domains -> Tab!Write]
        /\ \A e \in Domains : write'[e].stage # "none" => write'[e].sent \in Nat
    BY <1>1, <2>1, <2>2
  <2> QED
    BY <1>1, <1>2, <1>4, <2>3 DEF TabOK
<1> QED
  BY <1>5, <1>6

\* A write changes its stage.
LEMMA StageOK ==
  ASSUME TabOK, NEW d \in Domains, NEW stage \in {"landed", "failed"},
         write[d].stage # "none", write' = [write EXCEPT ![d].stage = stage],
         UNCHANGED <<made, screen, queue>>, late' \in [Domains -> SUBSET Nat]
  PROVE  TabOK'
<1>1. /\ write \in [Domains -> Tab!Write]
      /\ \A e \in Domains : write[e].stage # "none" => write[e].sent \in Nat
  BY DEF TabOK
<1>2. PICK u : u = [write[d] EXCEPT !.stage = stage]
  OBVIOUS
<1>3. u \in Tab!Write /\ u.sent = write[d].sent
  BY <1>1, <1>2 DEF Tab!Write
<1>4. write' = [write EXCEPT ![d] = u]
  BY <1>1, <1>2
<1>5. /\ write' \in [Domains -> Tab!Write]
      /\ \A e \in Domains : write'[e].stage # "none" => write'[e].sent \in Nat
  BY <1>1, <1>3, <1>4
<1> QED
  BY <1>5 DEF TabOK

LEMMA LandOK ==
  ASSUME TabOK, NEW d \in Domains, Tab!Land(d)
  PROVE  TabOK' /\ write[d].sent \in Nat /\ write' # write
<1>1. /\ write[d].stage = "out" /\ write' = [write EXCEPT ![d].stage = "landed"]
      /\ UNCHANGED <<made, screen, queue, late>>
  BY DEF Tab!Land
<1>2. TabOK'
  BY <1>1, StageOK DEF TabOK
<1>3. write'[d].stage = "landed"
  BY <1>1 DEF TabOK, Tab!Write
<1> QED
  BY <1>1, <1>2, <1>3 DEF TabOK

LEMMA FailOK ==
  ASSUME TabOK, NEW d \in Domains, Tab!Fail(d) PROVE TabOK'
<1>1. /\ write[d].stage # "none" /\ write' = [write EXCEPT ![d].stage = "failed"]
      /\ UNCHANGED <<made, screen, queue>>
  BY DEF Tab!Fail
<1>2. late \in [Domains -> SUBSET Nat] /\ write[d].sent \in Nat
  BY <1>1 DEF TabOK
<1>3. late' = late \/ late' = [late EXCEPT ![d] = @ \cup {write[d].sent}]
  BY DEF Tab!Fail
<1>4. late' \in [Domains -> SUBSET Nat]
  BY <1>2, <1>3
<1> QED
  BY <1>1, <1>4, StageOK

LEMMA LandLateOK ==
  ASSUME TabOK, NEW d \in Domains, NEW v \in late[d], Tab!LandLate(d, v)
  PROVE  TabOK' /\ v \in Nat /\ late' # late
<1>1. /\ late \in [Domains -> SUBSET Nat]
      /\ late' = [late EXCEPT ![d] = @ \ {v}]
      /\ UNCHANGED <<made, screen, queue, write>>
  BY DEF TabOK, Tab!LandLate
<1>2. v \in Nat /\ late'[d] # late[d] /\ late' \in [Domains -> SUBSET Nat]
  BY <1>1
<1> QED
  BY <1>1, <1>2 DEF TabOK

LEMMA AnswersOK ==
  ASSUME TabOK, NEW d \in Domains, Tab!AnswerSaved(d) \/ Tab!AnswerFailed(d)
  PROVE  TabOK'
<1>1. /\ queue[d] \in Tab!Queue /\ screen \in [Domains -> Nat \cup {None}]
      /\ UNCHANGED <<made, late>>
  BY DEF TabOK, Tab!AnswerSaved, Tab!AnswerFailed
<1>2. queue[d].confirmed \in Nat \cup {None}
  BY <1>1 DEF Tab!Queue, Tab!MaybeValue, Tab!Value
<1>3. screen' \in [Domains -> Nat \cup {None}]
  BY <1>1, <1>2 DEF Tab!AnswerSaved, Tab!AnswerFailed
<1>4. \E q \in Tab!Queue : Tab!Continue(d, q)
  <2>1. /\ [queue[d] EXCEPT !.confirmed = queue[d].desiredRevert] \in Tab!Queue
        /\ [queue[d] EXCEPT !.confirmed = None] \in Tab!Queue
    BY <1>1 DEF Tab!Queue, Tab!MaybeValue
  <2> HIDE DEF Tab!Continue
  <2> QED
    BY <1>1, <2>1 DEF Tab!AnswerSaved, Tab!AnswerFailed
<1> QED
  BY <1>1, <1>3, <1>4, ContinueOK DEF TabOK

\* A commit of either control: the record's row grows, or stays.
LEMMA WriteGrows ==
  ASSUME TypeOK, LineInv, NEW d \in Domains, NEW value \in Nat, Write(d, value)
  PROVE  rows' \in [Rows -> Seq(Form)] /\ Grown
<1>1. /\ rows \in [Rows -> Seq(Form)] /\ rows[Record] # <<>>
      /\ rows[Record] \in Seq(Form)
  BY RecordRow DEF TypeOK, LineInv
<1>2. CASE d = Yield
  <2>1. Held(Record) \in Form
    BY <1>1 DEF Held
  <2>2. PICK f \in Form : f = [Held(Record) EXCEPT !.line = value]
    BY <2>1 DEF Form
  <2>3. rows' = [rows EXCEPT ![Record] = Append(@, f)]
    BY <1>2, <2>2 DEF Write
  <2>4. rows'[Record] = Append(rows[Record], f)
    BY <1>1, <2>3, RecordRow
  <2>5. rows' \in [Rows -> Seq(Form)]
    BY <1>1, <2>2, <2>3, <2>4
  <2>6. ASSUME NEW r \in Rows
        PROVE  /\ Len(rows[r]) <= Len(rows'[r])
               /\ \A i \in 1 .. Len(rows[r]) : rows'[r][i] = rows[r][i]
    <3>1. CASE r = Record
      BY <1>1, <2>2, <2>4, <3>1
    <3>2. CASE r # Record
      <4>1. rows'[r] = rows[r] /\ rows[r] \in Seq(Form)
        BY <1>1, <2>3, <3>2
      <4> QED
        BY <4>1
    <3> QED
      BY <3>1, <3>2
  <2> QED
    BY <2>5, <2>6 DEF Grown
<1>3. CASE d # Yield
  BY <1>1, <1>3, StillGrown DEF Write
<1> QED
  BY <1>2, <1>3

\* The editors while the tab moves.
LEMMA TabGrows ==
  ASSUME IInv, LineInv, EditorsRest, rows' \in [Rows -> Seq(Form)], Grown
  PROVE  IInv' /\ LineInv'
<1>1. /\ TypeOK
      /\ UNCHANGED <<kind, edits, faults, loads, repeats, win, orphan, draft, created>>
  BY DEF IInv, EditorsRest
<1>2. TypeOK'
  BY <1>1 DEF TypeOK
<1>3. orphan' \in [Windows -> Orphan \cup {None}]
  BY <1>1 DEF TypeOK
<1>4. ASSUME NEW w \in Windows PROVE IInv'
  BY <1>1, <1>3, UnseenStep
<1>5. IInv'
  BY <1>2, <1>4 DEF IInv
<1>6. \A v \in Windows : OrphanInLine(orphan'[v], rows'[Record])
  BY <1>1, OrphansGrow
<1> QED
  BY <1>1, <1>5, <1>6, AdriftInLine

LEMMA TabKeeps ==
  ASSUME RecordInv, TabStep
  PROVE  RecordInv' /\ (Held(Record)'.line # Held(Record).line => tabVars' # tabVars)
<1>1. IInv /\ TypeOK /\ LineInv /\ TabOK /\ EditorsRest
  BY DEF RecordInv, IInv, TabStep
<1>2. ASSUME NEW d \in Domains, CommitLands(d) PROVE RecordInv' /\ tabVars' # tabVars
  <2>1. Tab!Land(d) /\ Write(d, write[d].sent)
    BY <1>2 DEF CommitLands
  <2>2. TabOK' /\ write[d].sent \in Nat /\ write' # write
    BY <1>1, <2>1, LandOK
  <2>3. IInv' /\ LineInv'
    BY <1>1, <2>1, <2>2, WriteGrows, TabGrows
  <2> QED
    BY <2>2, <2>3 DEF RecordInv, tabVars
<1>3. ASSUME NEW d \in Domains, LateCommitLands(d) PROVE RecordInv' /\ tabVars' # tabVars
  <2>1. PICK v \in late[d] : Tab!LandLate(d, v) /\ Write(d, v)
    BY <1>3 DEF LateCommitLands
  <2>2. TabOK' /\ v \in Nat /\ late' # late
    BY <1>1, <2>1, LandLateOK
  <2>3. IInv' /\ LineInv'
    BY <1>1, <2>1, <2>2, WriteGrows, TabGrows
  <2> QED
    BY <2>2, <2>3 DEF RecordInv, tabVars
<1>4. CASE UNCHANGED rows
  <2>1. IInv' /\ LineInv'
    BY <1>1, <1>4, StillGrown, TabGrows DEF TypeOK
  <2>2. CASE \E d \in Domains : CommitLands(d) \/ LateCommitLands(d)
    BY <1>2, <1>3, <2>2
  <2>3. CASE \/ \E d \in Domains : \/ Tab!Commit(d) \/ Tab!Fail(d)
                                   \/ Tab!AnswerSaved(d) \/ Tab!AnswerFailed(d)
             \/ Tab!Unmount
    <3>1. TabOK'
      <4>1. Tab!Unmount => TabOK'
        BY <1>1 DEF Tab!Unmount, TabOK
      <4> QED
        BY <1>1, <2>3, <4>1, CommitOK, FailOK, AnswersOK
    <3>2. Held(Record)' = Held(Record)
      BY <1>4 DEF Held
    <3> QED
      BY <2>1, <3>1, <3>2 DEF RecordInv
  <2> QED
    BY <2>2, <2>3 DEF TabStep
<1> QED
  BY <1>2, <1>3, <1>4 DEF TabStep

-----------------------------------------------------------------------------
(* The record.                                                             *)

LEMMA RecordStarts == RecordInit => RecordInv
<1> SUFFICES ASSUME RecordInit PROVE RecordInv
  OBVIOUS
<1>1. IInv /\ kind = "recipe" /\ rows[Record] # <<>> /\ Tab!Init
  BY InitInv DEF RecordInit
<1>2. TabOK
  <2>1. /\ made = 0 /\ screen = [d \in Domains |-> 0]
        /\ queue = [d \in Domains |-> Tab!EmptyQueue]
        /\ write = [d \in Domains |-> Tab!NoWrite]
        /\ late = [d \in Domains |-> {}]
    BY <1>1 DEF Tab!Init
  <2>2. Tab!NoWrite.stage = "none"
    BY DEF Tab!NoWrite
  <2>3. /\ queue \in [Domains -> Tab!Queue] /\ write \in [Domains -> Tab!Write]
        /\ \A d \in Domains : write[d].stage = "none"
    BY <2>1, <2>2, TabTypes
  <2> QED
    BY <2>1, <2>3 DEF TabOK
<1>3. \A w \in Windows : orphan[w] = None
  BY DEF RecordInit, Init
<1>4. ASSUME NEW w \in Windows PROVE InLine(win[w], rows[Record])
  <2>1. PICK r \in Starts, first \in Windows :
          /\ rows = [s \in Rows |-> IF s = r THEN <<Blank>> ELSE <<>>]
          /\ win = [v \in Windows |-> IF r # 0 \/ v = first
                                      THEN Opened(kind, r) ELSE Closed]
    BY DEF RecordInit, Init
  <2>2. r = Record /\ rows[Record] = <<Blank>>
    BY <1>1, <2>1, RecordRow
  <2>3. win[w] = Opened(kind, Record)
    BY <2>1, <2>2, RecordRow
  <2>4. /\ win[w].id = Record /\ win[w].form = Blank /\ win[w].base = Blank
        /\ win[w].version = 0 /\ win[w].req = None
    BY <2>3, RecordRow DEF Opened, Closed
  <2>5. LineAt(rows[Record], 0, Blank.line)
    BY <2>2 DEF LineAt
  <2> QED
    BY <2>4, <2>5 DEF InLine, Follows, Carries
<1> QED
  BY <1>1, <1>2, <1>3, <1>4 DEF RecordInv, LineInv, OrphanInLine

\* What a step may do to the record's line.
Survives ==
    Held(Record).line # Held(Record)'.line =>
        \/ tabVars' # tabVars
        \/ \E w \in Windows : \E q \in RequestsOf(w) : q.recovered

LEMMA RecordStep ==
  ASSUME RecordInv, [RecordNext]_allVars PROVE RecordInv' /\ [Survives]_allVars
<1>1. CASE UNCHANGED allVars
  <2>1. /\ UNCHANGED <<kind, edits, faults, loads, repeats, rows, win, orphan, draft,
                       created>>
        /\ UNCHANGED <<made, screen, queue, write, late>>
    BY <1>1 DEF allVars, vars, tabVars
  <2>2. IInv'
    BY <2>1, StepInv DEF RecordInv, vars
  <2>3. LineInv' /\ TabOK'
    BY <2>1 DEF RecordInv, LineInv, TabOK, InLine, Follows, Carries, OrphanInLine,
       Restates, LineAt
  <2> QED
    BY <1>1, <2>2, <2>3 DEF RecordInv
<1>2. CASE TabStep
  BY <1>2, TabKeeps DEF Survives
<1>3. CASE EditorStep
  <2>1. Next /\ UNCHANGED tabVars
    BY <1>3 DEF EditorStep
  <2>2. PICK w \in Windows : Step(w)
    BY <2>1 DEF Next
  <2>3. IInv'
    BY <2>1, StepInv DEF RecordInv
  <2>4. LineInv' /\ Survives
    BY <2>2, EditorsInLine DEF RecordInv, Survives
  <2>5. TabOK'
    BY <2>1 DEF RecordInv, TabOK, tabVars
  <2> QED
    BY <2>3, <2>4, <2>5 DEF RecordInv
<1> QED
  BY <1>1, <1>2, <1>3 DEF RecordNext

\* Every page and every request for the record restates the line it loaded.
THEOREM RecordInvariant == RecordSpec => []RecordInv
  BY RecordStarts, RecordStep, PTL DEF RecordSpec

\* An editor's save never undoes a commit of the Nutrition tab it has not read.
THEOREM CommitsSurvive == RecordSpec => CommitsSurviveSaves
<1>1. RecordInv /\ [RecordNext]_allVars => [Survives]_allVars
  BY RecordStep
<1>2. RecordSpec => [][Survives]_allVars
  BY <1>1, RecordInvariant, PTL DEF RecordSpec
<1> QED
  BY <1>2 DEF CommitsSurviveSaves, Survives
=============================================================================
