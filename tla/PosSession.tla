---------------------------- MODULE PosSession -----------------------------
(***************************************************************************)
(* Which of a merchant's orders the next Square pass will read: the        *)
(* watermark, the session cursor and the known locations of a connection   *)
(* (integrations/pos_sync.py, domains/sales/pos_sync.py), against a        *)
(* provider whose orders show up late and whose locations open and close,  *)
(* an owner who reconnects (integrations/pos_oauth.py) or undoes an import *)
(* (domains/sales/core.py), and a run that counts its passes.              *)
(*                                                                         *)
(* A session is fixed when it starts: an end, the locations, and chunks of *)
(* locations with a start each.  A pass reads some pages of it; a partial  *)
(* pass commits the cursor, the last one advances the watermark to the     *)
(* session's end.  PosSync shows that a pass whose connection was replaced,*)
(* undone or taken over while it read the provider is never committed, so  *)
(* here a pass is one action.                                              *)
(*                                                                         *)
(* Time is counted in days from 1; watermark 0 is NULL, a pending backfill.*)
(* updated_at and closed_at of an order are one stamp.  The backfill       *)
(* horizon (two years) is before day 1, and a group of locations is one    *)
(* chunk, as it is up to ten locations.                                    *)
(***************************************************************************)
EXTENDS Naturals, Sequences, FiniteSets

CONSTANTS
    Orders,           \* the merchant's orders
    Locations,        \* the merchant's locations
    Overlap,          \* OVERLAP, in days
    LocationsChange,  \* whether locations open and close
    CommitCanFail,    \* whether mirror_pending or COMMIT may raise in a pass
    MaxTime,          \* bound: days
    MaxUpsets         \* bound: reconnects, undos, failed commits, location changes

ASSUME SessionAssumption ==
    /\ Locations # {}
    /\ {Overlap, MaxTime} \subseteq Nat \ {0}
    /\ MaxUpsets \in Nat
    /\ {LocationsChange, CommitCanFail} \subseteq BOOLEAN

VARIABLES
    now,      \* today
    usable,   \* ACTIVE locations, as Square lists them
    order,    \* the orders Square shows: their location and stamp
    conn,     \* watermark, location_ids and sync_cursor of the connection
    imports,  \* active SalesImport batches, oldest first
    resumed,  \* whether the run's continuationPasses is positive
    upsets,   \* upsets spent so far
    cut       \* history: locations a session was cut short for

vars == <<now, usable, order, conn, imports, resumed, upsets, cut>>

Days == 0 .. MaxTime
Order == [loc : Locations, at : Days]
NotShown == [loc |-> CHOOSE l \in Locations : TRUE, at |-> 0]
Chunk == [locs : SUBSET Locations, since : Days]
Cursor == [end : Days, locs : SUBSET Locations, chunks : Seq(Chunk),
           seen : SUBSET Orders, read : SUBSET Orders]
NoCursor == [end |-> 0, locs |-> {}, chunks |-> <<>>, seen |-> {}, read |-> {}]

Shown == {x \in Orders : order[x].at > 0}
Stored == UNION {imports[i].lines : i \in DOMAIN imports}
InSession == conn.cursor.chunks # <<>>

\* A cursor keeps a session only while some of it is unread, and the watermark
\* never runs ahead of the day or of an open session's end.
TypeOK ==
    /\ now \in 1 .. MaxTime
    /\ usable \in (SUBSET Locations) \ {{}}
    /\ order \in [Orders -> Order]
    /\ conn \in [watermark : Days, known : SUBSET Locations, cursor : Cursor]
    /\ imports \in Seq([lines : SUBSET Orders, from : Nat])
    /\ resumed \in BOOLEAN
    /\ upsets \in 0 .. MaxUpsets
    /\ cut \in SUBSET Locations
    /\ conn.watermark <= now
    /\ IF InSession THEN conn.watermark <= conn.cursor.end
                    ELSE conn.cursor = NoCursor

Init ==
    /\ now = 1
    /\ usable \in (SUBSET Locations) \ {{}}
    /\ LocationsChange \/ usable = Locations
    /\ order = [x \in Orders |-> NotShown]
    /\ conn = [watermark |-> 0, known |-> usable, cursor |-> NoCursor]
    /\ imports = <<>>
    /\ resumed = FALSE
    /\ upsets = 0
    /\ cut = {}

-----------------------------------------------------------------------------
(* The provider.                                                            *)

Tick ==
    /\ now < MaxTime
    /\ now' = now + 1
    /\ UNCHANGED <<usable, order, conn, imports, resumed, upsets, cut>>

\* An order shows up, at most Overlap days after its stamp.
Show(x) ==
    /\ x \notin Shown
    /\ \E l \in Locations, at \in 1 .. now :
         /\ now <= at + Overlap
         /\ order' = [order EXCEPT ![x] = [loc |-> l, at |-> at]]
    /\ UNCHANGED <<now, usable, conn, imports, resumed, upsets, cut>>

LocationChanges(l) ==
    /\ LocationsChange
    /\ upsets < MaxUpsets
    /\ upsets' = upsets + 1
    /\ usable' = IF l \in usable THEN usable \ {l} ELSE usable \cup {l}
    /\ usable' # {}
    /\ UNCHANGED <<now, order, conn, imports, resumed, cut>>

-----------------------------------------------------------------------------
(* A pass.                                                                  *)

\* The first pass of a run re-reads Overlap days; a later one trusts it did.
Since ==
    IF resumed THEN conn.watermark
    ELSE IF conn.watermark > Overlap THEN conn.watermark - Overlap ELSE 0

\* Known locations are read from the watermark, new ones from the beginning.
NewChunks ==
    LET old == [locs |-> usable \cap conn.known, since |-> Since]
        new == [locs |-> usable \ conn.known, since |-> 0]
    IN  IF conn.watermark = 0 THEN <<[locs |-> usable, since |-> 0]>>
        ELSE IF old.locs = {} THEN <<new>>
        ELSE IF new.locs = {} THEN <<old>>
        ELSE <<old, new>>

\* The session a pass works on: the open one, or a new one.
Session ==
    IF InSession THEN conn.cursor
    ELSE [end |-> now, locs |-> usable, chunks |-> NewChunks,
          seen |-> Shown, read |-> {}]

Matches(chunk, end) ==
    {x \in Shown : /\ order[x].loc \in chunk.locs
                   /\ order[x].at >= chunk.since
                   /\ order[x].at <= end}

\* The orders the pages of a chunk are sure to have: those shown before the
\* session began (`seen` is history).  A later one may fall behind the provider's page cursor.
Due(chunk, s) == Matches(chunk, s.end) \cap s.seen

\* The first `done` chunks of a session are read to their end, and some pages
\* of the next one.
Reads(s, done, batch) ==
    LET finished == {s.chunks[i] : i \in 1 .. done}
        next == {s.chunks[i] : i \in {done + 1} \cap DOMAIN s.chunks}
    IN  /\ UNION {Due(c, s) : c \in finished} \subseteq batch \cup s.read
        /\ batch \subseteq UNION {Matches(c, s.end) : c \in finished \cup next}

\* What is left of a session after a pass.
Advanced(s, done, batch) ==
    IF done = Len(s.chunks) THEN NoCursor
    ELSE [s EXCEPT !.chunks = SubSeq(s.chunks, done + 1, Len(s.chunks)),
                   !.read = batch \cup IF done = 0 THEN s.read ELSE {}]

\* Mutants of Watermark: the pass's own start instead of the session's end, and
\* a partial pass that commits the place it has reached.
WatermarkNow(s, done) == IF done = Len(s.chunks) THEN now ELSE conn.watermark
WatermarkReached(s, done) ==
    IF done = Len(s.chunks) THEN s.end ELSE s.chunks[done + 1].since

\* The watermark moves when the session's last chunk is read.
Watermark(s, done) == IF done = Len(s.chunks) THEN s.end ELSE conn.watermark

\* The UTC midnight of the earliest local sale date: the day itself, or the
\* next one where local time is ahead.
PeriodStarts(new) ==
    {d \in 1 .. MaxTime + 1 :
        \E x \in new : /\ d \in {order[x].at, order[x].at + 1}
                       /\ \A y \in new : order[x].at <= order[y].at}

\* The locations a resumed run begins a session for without the overlap.
Unlapped ==
    IF resumed /\ ~InSession /\ conn.watermark > 0 THEN usable \cap conn.known
                                                 ELSE {}

Pass ==
    LET s == Session IN
    \E done \in 0 .. Len(s.chunks), batch \in SUBSET Shown :
        /\ Reads(s, done, batch)
        /\ conn' = [watermark |-> Watermark(s, done), known |-> s.locs,
                    cursor |-> Advanced(s, done, batch)]
        /\ \/ batch \subseteq Stored /\ UNCHANGED imports
           \/ \E from \in PeriodStarts(batch \ Stored) :
                imports' = Append(imports, [lines |-> batch \ Stored, from |-> from])
        /\ resumed' = (done < Len(s.chunks))
        /\ cut' = cut \cup Unlapped
        /\ UNCHANGED <<now, usable, order, upsets>>

\* The same pass raising before COMMIT: the pass count, already in the
\* worker's memory, is written with the retry.
RollBackPass ==
    /\ CommitCanFail
    /\ upsets < MaxUpsets
    /\ upsets' = upsets + 1
    /\ resumed' = TRUE
    /\ UNCHANGED <<now, usable, order, conn, imports, cut>>

\* The run fails or is cancelled; the next one starts counting again.
RunEnds ==
    /\ resumed
    /\ resumed' = FALSE
    /\ UNCHANGED <<now, usable, order, conn, imports, upsets, cut>>

-----------------------------------------------------------------------------
(* The owner.                                                               *)

\* Locations the open session still has to read from the beginning.
Pending ==
    IF conn.watermark = 0 THEN {}
    ELSE UNION {conn.cursor.chunks[i].locs :
                  i \in {j \in DOMAIN conn.cursor.chunks :
                           conn.cursor.chunks[j].since = 0}}

\* save_connection for the same merchant: the callback's locations, no cursor.
Reconnect ==
    /\ upsets < MaxUpsets
    /\ upsets' = upsets + 1
    /\ conn' = [conn EXCEPT !.known = usable, !.cursor = NoCursor]
    /\ resumed' = FALSE
    /\ cut' = IF conn.watermark = 0 THEN cut
              ELSE cut \cup Pending \cup (usable \ conn.known)
    /\ UNCHANGED <<now, usable, order, imports>>

\* Mutant of RolledBack: an undo leaves the watermark.
KeptWatermark(from) == conn.watermark

RolledBack(from) == IF conn.watermark > from THEN from ELSE conn.watermark

\* undo-sales-import of the newest active import.
UndoImport ==
    /\ imports # <<>>
    /\ upsets < MaxUpsets
    /\ upsets' = upsets + 1
    /\ imports' = SubSeq(imports, 1, Len(imports) - 1)
    /\ conn' = [conn EXCEPT !.watermark = RolledBack(imports[Len(imports)].from),
                            !.cursor = NoCursor]
    /\ resumed' = FALSE
    /\ cut' = cut \cup Pending
    /\ UNCHANGED <<now, usable, order>>

Next ==
    \/ Tick \/ Pass \/ RollBackPass \/ RunEnds \/ Reconnect \/ UndoImport
    \/ \E x \in Orders : Show(x)
    \/ \E l \in Locations : LocationChanges(l)

Spec == Init /\ [][Next]_vars

\* The owner keeps pressing Sync and passes keep succeeding: each reads a page
\* at least, so some pass reaches the end of the session it works on.
Completes == Pass /\ ~InSession'
FairSpec == Spec /\ WF_vars(Completes)

-----------------------------------------------------------------------------
(* Correctness.                                                             *)

\* What a session begun now would read of an order, whenever it is read.
NewSessionReads(x, watermark, known) ==
    \/ watermark = 0
    \/ order[x].loc \notin known
    \/ order[x].at + Overlap >= watermark

\* What the open session, and the one after it, would read.
OpenSessionReads(x) ==
    \/ \E i \in DOMAIN conn.cursor.chunks :
         /\ x \in Matches(conn.cursor.chunks[i], conn.cursor.end)
         /\ i > 1 \/ x \notin conn.cursor.read
    \/ NewSessionReads(x, conn.cursor.end, conn.cursor.locs)

InReach(x) ==
    \/ x \in Stored
    \/ IF InSession THEN OpenSessionReads(x)
       ELSE NewSessionReads(x, conn.watermark, conn.known)

\* "The overlap guards against late provider writes between sessions", and
\* "the next request safely starts a fresh overlapped session": an order the
\* provider shows is in the ledger or within reach of a coming session.
NothingOutOfReach == \A x \in Shown : InReach(x)

\* The same, but for a location whose first full read a reconnect or an undo
\* cut short, or that a resumed run read without the overlap.
OutOfReachOnlyWhereCut ==
    \A x \in Shown : order[x].loc \in cut \/ InReach(x)

\* The watermark goes back only with an undone import, to where the import's
\* lines will be read again.
WatermarkHolds ==
    [][conn'.watermark < conn.watermark =>
         /\ Len(imports') < Len(imports)
         /\ \A x \in Stored \ Stored' : order[x].at + Overlap >= conn'.watermark]_vars

\* Once the upsets are over, syncing brings every order of the open locations
\* into the ledger, to stay.
EverythingArrives ==
    <>[](\A x \in Shown :
            order[x].loc \in usable \ cut => x \in Stored)
=============================================================================
