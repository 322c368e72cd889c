-------------------------- MODULE PosSessionProofs --------------------------
(***************************************************************************)
(* What the watermark, the session cursor and the known locations of a     *)
(* Square connection keep within reach, for any number of orders,          *)
(* locations, days, reconnects, undos and failed passes.                   *)
(***************************************************************************)
EXTENDS PosSession, SequenceTheorems, TLAPS

-----------------------------------------------------------------------------
(* The inductive invariant.                                                 *)

\* No order is stamped later than today.
OrdersFit == \A x \in Orders : order[x].at <= now

\* The open session ends no later than today, is for the locations the
\* connection counts as known, and has read nothing that is not stored.  What
\* was not shown when it began is in the overlap of the next one, and a chunk
\* that does not start at the beginning starts in the overlap.
SessionFits ==
    /\ conn.cursor.end <= now
    /\ conn.known = conn.cursor.locs
    /\ conn.cursor.read \subseteq Stored
    /\ \A x \in Shown \ conn.cursor.seen : order[x].at + Overlap >= conn.cursor.end
    /\ \A i \in DOMAIN conn.cursor.chunks :
         \/ conn.cursor.chunks[i].since = 0
         \/ conn.cursor.chunks[i].since + Overlap >= conn.watermark

\* A batch starts at most a day after each of its orders.
ImportFits(b) ==
    /\ b.from >= 1
    /\ \A x \in b.lines : x \in Shown /\ b.from <= order[x].at + 1

SessionInv ==
    /\ TypeOK /\ OrdersFit
    /\ InSession => SessionFits
    /\ \A i \in DOMAIN imports : ImportFits(imports[i])
    /\ OutOfReachOnlyWhereCut

LEMMA Constants ==
  /\ Overlap \in Nat /\ Overlap >= 1 /\ MaxTime \in Nat /\ MaxTime >= 1
  /\ MaxUpsets \in Nat /\ Locations # {}
  BY SessionAssumption DEF SessionAssumption

LEMMA Types ==
  ASSUME TypeOK
  PROVE  /\ now \in Nat /\ now \in Days /\ now >= 1 /\ Days \subseteq Nat
         /\ conn.watermark \in Days /\ conn.watermark \in Nat
         /\ conn.known \subseteq Locations /\ conn.cursor \in Cursor
         /\ conn.cursor.chunks \in Seq(Chunk) /\ conn.cursor.end \in Nat
         /\ \A i \in DOMAIN conn.cursor.chunks :
              conn.cursor.chunks[i] \in Chunk /\ conn.cursor.chunks[i].since \in Nat
         /\ \A x \in Orders : order[x] \in Order /\ order[x].at \in Nat
                              /\ order[x].loc \in Locations
<1>1. /\ now \in Nat /\ now \in Days /\ now >= 1 /\ Days \subseteq Nat
      /\ conn.watermark \in Days /\ conn.known \subseteq Locations /\ conn.cursor \in Cursor
  BY Constants DEF TypeOK, Days
<1>2. conn.cursor.chunks \in Seq(Chunk) /\ conn.cursor.end \in Days
  BY <1>1 DEF Cursor
<1>3. \A i \in DOMAIN conn.cursor.chunks :
         conn.cursor.chunks[i] \in Chunk /\ conn.cursor.chunks[i].since \in Nat
  <2>1. \A i \in DOMAIN conn.cursor.chunks : conn.cursor.chunks[i] \in Chunk
    BY <1>2
  <2> QED
    BY <1>1, <2>1 DEF Chunk
<1>4. \A x \in Orders : order[x] \in Order /\ order[x].at \in Nat
                        /\ order[x].loc \in Locations
  BY <1>1 DEF TypeOK, Order
<1> QED
  BY <1>1, <1>2, <1>3, <1>4

LEMMA NoSession == NoCursor \in Cursor /\ NoCursor.chunks = <<>>
<1>1. 0 \in Days /\ <<>> \in Seq(Chunk)
  BY Constants DEF Days
<1> QED
  BY <1>1 DEF NoCursor, Cursor

LEMMA SessionInit == Init => SessionInv
<1> SUFFICES ASSUME Init PROVE SessionInv
  OBVIOUS
<1>1. /\ now = 1 /\ usable \in (SUBSET Locations) \ {{}}
      /\ order = [x \in Orders |-> NotShown]
      /\ conn = [watermark |-> 0, known |-> usable, cursor |-> NoCursor]
      /\ imports = <<>> /\ resumed = FALSE /\ upsets = 0 /\ cut = {}
  BY DEF Init
<1>2. NotShown \in Order /\ NotShown.at = 0
  <2>1. (CHOOSE l \in Locations : TRUE) \in Locations
    BY Constants
  <2>2. 0 \in Days
    BY Constants DEF Days
  <2> QED
    BY <2>1, <2>2 DEF NotShown, Order
<1>3. ~InSession /\ conn.watermark = 0 /\ conn.cursor = NoCursor
  BY <1>1, NoSession DEF InSession
<1>4. conn \in [watermark : Days, known : SUBSET Locations, cursor : Cursor]
  <2>1. 0 \in Days
    BY Constants DEF Days
  <2> QED
    BY <1>1, <2>1, NoSession
<1>5. TypeOK
  <2>1. /\ now \in 1..MaxTime /\ upsets \in 0..MaxUpsets
        /\ conn.watermark <= now
    BY <1>1, <1>3, Constants
  <2>2. imports \in Seq([lines : SUBSET Orders, from : Nat])
    BY <1>1
  <2>3. resumed \in BOOLEAN
    BY <1>1, Zenon
  <2>4. cut \in SUBSET Locations /\ order \in [Orders -> Order]
    BY <1>1, <1>2
  <2> QED
    BY <1>1, <1>3, <1>4, <2>1, <2>2, <2>3, <2>4 DEF TypeOK
<1>6. Shown = {} /\ OrdersFit
  BY <1>1, <1>2 DEF Shown, OrdersFit
<1> QED
  BY <1>1, <1>3, <1>5, <1>6 DEF SessionInv, OutOfReachOnlyWhereCut

-----------------------------------------------------------------------------
(* Steps of the clock, the provider and the run.                            *)

\* Neither the orders nor what the connection and the ledger hold changes.
LEMMA Bystanders ==
  ASSUME SessionInv, UNCHANGED <<order, conn, imports>>, now' >= now,
         now' \in 1..MaxTime, cut' = cut, usable' \in (SUBSET Locations) \ {{}},
         resumed' \in BOOLEAN, upsets' \in 0..MaxUpsets
  PROVE  SessionInv'
<1>1. Shown' = Shown /\ Stored' = Stored /\ InSession' = InSession
  BY DEF Shown, Stored, InSession
<1>2. now \in Nat /\ now' \in Nat
  BY Types, Constants DEF SessionInv
<1>3. TypeOK'
  <2>1. conn.watermark <= now'
    BY <1>2, Types DEF SessionInv, TypeOK
  <2> QED
    BY <1>1, <2>1 DEF SessionInv, TypeOK
<1>4. OrdersFit'
  BY <1>2, Types DEF SessionInv, OrdersFit
<1>5. (InSession => SessionFits)'
  BY <1>1, <1>2, Types DEF SessionInv, SessionFits
<1>6. (\A i \in DOMAIN imports : ImportFits(imports[i]))'
  BY <1>1 DEF SessionInv, ImportFits
<1>7. OutOfReachOnlyWhereCut'
  <2>1. ASSUME NEW x PROVE InReach(x)' <=> InReach(x)
    BY <1>1 DEF InReach, NewSessionReads, OpenSessionReads, Matches, InSession, Stored, Shown
  <2> QED
    BY <1>1, <2>1 DEF SessionInv, OutOfReachOnlyWhereCut
<1> QED
  BY <1>3, <1>4, <1>5, <1>6, <1>7 DEF SessionInv

LEMMA TickKeeps == SessionInv /\ Tick => SessionInv'
<1> SUFFICES ASSUME SessionInv, Tick PROVE SessionInv'
  OBVIOUS
<1>1. /\ now' = now + 1 /\ now' \in 1..MaxTime /\ now' >= now
      /\ UNCHANGED <<usable, order, conn, imports, resumed, upsets, cut>>
  BY Types, Constants DEF Tick, SessionInv
<1> QED
  BY <1>1, Bystanders DEF SessionInv, TypeOK

LEMMA LocationKeeps ==
  ASSUME SessionInv, NEW l \in Locations, LocationChanges(l)
  PROVE  SessionInv'
<1>1. /\ upsets' \in 0..MaxUpsets /\ usable' \in (SUBSET Locations) \ {{}}
      /\ now' = now /\ now' >= now /\ cut' = cut /\ resumed' = resumed
      /\ UNCHANGED <<order, conn, imports>>
  BY Types, Constants DEF LocationChanges, SessionInv, TypeOK
<1> QED
  BY <1>1, Bystanders DEF SessionInv, TypeOK

LEMMA RunKeeps ==
  ASSUME SessionInv, RollBackPass \/ RunEnds
  PROVE  SessionInv'
<1>0. now \in Nat /\ upsets \in 0..MaxUpsets
  BY Types DEF SessionInv, TypeOK
<1>1. resumed' \in BOOLEAN
  BY Zenon DEF RollBackPass, RunEnds
<1>2. /\ upsets' \in 0..MaxUpsets
      /\ now' = now /\ now' >= now /\ usable' = usable /\ cut' = cut
      /\ UNCHANGED <<order, conn, imports>>
  <2>1. CASE RollBackPass
    BY <1>0, <2>1, Constants DEF RollBackPass
  <2>2. CASE RunEnds
    BY <1>0, <2>2, Constants DEF RunEnds
  <2> QED
    BY <2>1, <2>2
<1> QED
  BY <1>1, <1>2, Bystanders DEF SessionInv, TypeOK

\* An order that shows up late is in the overlap of every watermark there is.
LEMMA ShowKeeps ==
  ASSUME SessionInv, NEW x \in Orders, Show(x)
  PROVE  SessionInv'
<1>1. PICK l \in Locations, at \in 1 .. now :
         /\ now <= at + Overlap
         /\ order' = [order EXCEPT ![x] = [loc |-> l, at |-> at]]
  BY DEF Show
<1>2. /\ x \notin Shown
      /\ UNCHANGED <<now, usable, conn, imports, resumed, upsets, cut>>
  BY DEF Show
<1>3. now \in Nat /\ at \in Nat /\ at \in Days /\ at >= 1 /\ at <= now
  <2>1. now \in 1..MaxTime
    BY DEF SessionInv, TypeOK
  <2> QED
    BY <2>1, Constants DEF Days
<1>4. order'[x].at = at /\ \A y \in Orders \ {x} : order'[y] = order[y]
  BY <1>1 DEF SessionInv, TypeOK
<1>5. Shown' = Shown \cup {x} /\ Stored' = Stored /\ InSession' = InSession
  BY <1>2, <1>3, <1>4 DEF Shown, Stored, InSession
<1>6. TypeOK'
  <2>1. order' \in [Orders -> Order]
    BY <1>1, <1>3 DEF SessionInv, TypeOK, Order
  <2> QED
    BY <1>2, <1>5, <2>1 DEF SessionInv, TypeOK
<1>7. OrdersFit'
  BY <1>2, <1>3, <1>4 DEF SessionInv, OrdersFit
<1>8. (InSession => SessionFits)'
  <2>1. SUFFICES ASSUME InSession PROVE SessionFits'
    BY <1>5
  <2>2. SessionFits
    BY <2>1 DEF SessionInv
  <2>3. \A y \in Shown' \ conn.cursor.seen :
           order'[y].at + Overlap >= conn.cursor.end
    <3>1. at + Overlap >= conn.cursor.end
      BY <1>1, <1>3, <2>2, Types, Constants DEF SessionInv, SessionFits
    <3>2. \A y \in Shown : order'[y] = order[y]
      BY <1>2, <1>4 DEF Shown
    <3> QED
      BY <1>4, <1>5, <2>2, <3>1, <3>2 DEF SessionFits
  <2> QED
    BY <1>2, <1>5, <2>2, <2>3 DEF SessionFits
<1>9. (\A i \in DOMAIN imports : ImportFits(imports[i]))'
  <2>1. \A y \in Shown : y \in Shown' /\ order'[y] = order[y]
    BY <1>2, <1>4, <1>5 DEF Shown
  <2> QED
    BY <1>2, <2>1 DEF SessionInv, ImportFits
<1>10. OutOfReachOnlyWhereCut'
  <2>1. InReach(x)'
    <3>1. conn.watermark <= now
      BY DEF SessionInv, TypeOK
    <3>2. ~InSession => at + Overlap >= conn.watermark
      BY <1>1, <1>3, <3>1, Types, Constants DEF SessionInv
    <3>3. InSession => at + Overlap >= conn.cursor.end
      BY <1>1, <1>3, Types, Constants DEF SessionInv, SessionFits
    <3> QED
      BY <1>2, <1>4, <1>5, <3>2, <3>3 DEF InReach, NewSessionReads, OpenSessionReads
  <2>2. ASSUME NEW y \in Shown, y # x, order[y].loc \notin cut
        PROVE  InReach(y)'
    <3>1. InReach(y) /\ order'[y] = order[y] /\ y \in Shown'
      BY <1>4, <1>5, <2>2 DEF SessionInv, OutOfReachOnlyWhereCut, Shown
    <3>2. ASSUME NEW c, NEW e, y \in Matches(c, e) PROVE y \in Matches(c, e)'
      BY <3>1, <3>2 DEF Matches
    <3> QED
      BY <1>2, <1>5, <3>1, <3>2 DEF InReach, NewSessionReads, OpenSessionReads
  <2> QED
    BY <1>2, <1>4, <1>5, <2>1, <2>2 DEF OutOfReachOnlyWhereCut, Shown
<1> QED
  BY <1>6, <1>7, <1>8, <1>9, <1>10 DEF SessionInv

-----------------------------------------------------------------------------
(* What a pass reads.                                                       *)

\* A new session reads each open location, one that is known from the overlap
\* of the watermark (from the watermark itself when the run is resumed), any
\* other from the beginning.
LEMMA NewChunksCover ==
  ASSUME TypeOK
  PROVE  /\ NewChunks \in Seq(Chunk)
         /\ \A i \in DOMAIN NewChunks :
              \/ NewChunks[i].since = 0
              \/ NewChunks[i].since + Overlap >= conn.watermark
         /\ \A l \in usable : \E i \in DOMAIN NewChunks :
              /\ l \in NewChunks[i].locs
              /\ \/ NewChunks[i].since = 0
                 \/ /\ l \in conn.known /\ conn.watermark # 0
                    /\ NewChunks[i].since = Since
<1>1. /\ Since \in Days
      /\ Since = 0 \/ Since + Overlap >= conn.watermark
  BY Types, Constants DEF Since, Days
<1> DEFINE old == [locs |-> usable \cap conn.known, since |-> Since]
           new == [locs |-> usable \ conn.known, since |-> 0]
           all == [locs |-> usable, since |-> 0]
<1>2. old \in Chunk /\ new \in Chunk /\ all \in Chunk
  <2>1. 0 \in Days /\ usable \in SUBSET Locations
    BY Constants DEF Days, TypeOK
  <2> QED
    BY <1>1, <2>1 DEF Chunk
<1>3. /\ old.locs = usable \cap conn.known /\ old.since = Since
      /\ new.locs = usable \ conn.known /\ new.since = 0
      /\ all.locs = usable /\ all.since = 0
  OBVIOUS
<1>4. NewChunks = IF conn.watermark = 0 THEN <<all>>
                  ELSE IF old.locs = {} THEN <<new>>
                  ELSE IF new.locs = {} THEN <<old>>
                  ELSE <<old, new>>
  BY DEF NewChunks
<1> HIDE DEF old, new, all
<1>5. CASE conn.watermark = 0
  <2>1. NewChunks = <<all>>
    BY <1>4, <1>5
  <2> QED
    BY <2>1, <1>2, <1>3
<1>6. CASE conn.watermark # 0 /\ old.locs = {}
  <2>1. NewChunks = <<new>> /\ usable = new.locs
    BY <1>3, <1>4, <1>6
  <2> QED
    BY <2>1, <1>2, <1>3
<1>7. CASE conn.watermark # 0 /\ old.locs # {} /\ new.locs = {}
  <2>1. NewChunks = <<old>> /\ usable = old.locs /\ usable \subseteq conn.known
    BY <1>3, <1>4, <1>7
  <2> QED
    BY <2>1, <1>1, <1>2, <1>3, <1>7
<1>8. CASE conn.watermark # 0 /\ old.locs # {} /\ new.locs # {}
  <2>1. NewChunks = <<old, new>>
    BY <1>4, <1>8
  <2>2. /\ DOMAIN NewChunks = {1, 2} /\ NewChunks[1] = old /\ NewChunks[2] = new
        /\ NewChunks \in Seq(Chunk)
    BY <2>1, <1>2
  <2>3. \A l \in usable : \/ l \in old.locs /\ l \in conn.known
                          \/ l \in new.locs
    BY <1>3
  <2> QED
    BY <2>2, <2>3, <1>1, <1>3, <1>8
<1> QED
  BY <1>5, <1>6, <1>7, <1>8

\* The session of a pass: what is not stored, in reach and not cut off is in
\* one of its chunks, or in reach of the session after it.
SessionIs(s) ==
    /\ s \in Cursor /\ s.end <= now /\ conn.watermark <= s.end
    /\ s.read \subseteq Stored
    /\ \A x \in Shown \ s.seen : order[x].at + Overlap >= s.end
    /\ \A i \in DOMAIN s.chunks :
         s.chunks[i].since = 0 \/ s.chunks[i].since + Overlap >= conn.watermark
    /\ \A x \in Shown :
         \/ order[x].loc \in cut \cup Unlapped \/ x \in Stored
         \/ \E i \in DOMAIN s.chunks : x \in Matches(s.chunks[i], s.end)
         \/ NewSessionReads(x, s.end, s.locs)

LEMMA OpenSession ==
  ASSUME SessionInv, InSession
  PROVE  SessionIs(conn.cursor)
<1>1. SessionFits /\ TypeOK /\ OutOfReachOnlyWhereCut
  BY DEF SessionInv
<1>2. ASSUME NEW x \in Shown
      PROVE  \/ order[x].loc \in cut \/ x \in Stored
             \/ \E i \in DOMAIN conn.cursor.chunks :
                  x \in Matches(conn.cursor.chunks[i], conn.cursor.end)
             \/ NewSessionReads(x, conn.cursor.end, conn.cursor.locs)
  BY <1>1, <1>2 DEF OutOfReachOnlyWhereCut, InReach, OpenSessionReads
<1> QED
  BY <1>1, <1>2, Types DEF SessionIs, SessionFits, TypeOK

LEMMA NewSession ==
  ASSUME SessionInv, ~InSession, NEW s,
         s = [end |-> now, locs |-> usable, chunks |-> NewChunks,
              seen |-> Shown, read |-> {}]
  PROVE  SessionIs(s)
<1>1. PICK chunks : chunks = NewChunks
  OBVIOUS
<1>2. /\ s.end = now /\ s.locs = usable /\ s.chunks = chunks
      /\ s.seen = Shown /\ s.read = {}
  BY <1>1
<1>3. TypeOK /\ conn.watermark <= now /\ chunks \in Seq(Chunk)
  BY <1>1, NewChunksCover DEF SessionInv, TypeOK
<1>4. s \in Cursor
  <2>1. now \in Days /\ usable \in SUBSET Locations /\ Shown \in SUBSET Orders
    BY <1>3, Types DEF TypeOK, Shown
  <2>2. s = [end |-> now, locs |-> usable, chunks |-> chunks,
             seen |-> Shown, read |-> {}]
    BY <1>1
  <2> QED
    BY <1>3, <2>1, <2>2 DEF Cursor
<1>5. ASSUME NEW x \in Shown, order[x].loc \notin cut \cup Unlapped, x \notin Stored,
             order[x].loc \in usable
      PROVE  \E i \in DOMAIN chunks : x \in Matches(chunks[i], now)
  <2>1. PICK i \in DOMAIN chunks :
          /\ order[x].loc \in chunks[i].locs
          /\ \/ chunks[i].since = 0
             \/ /\ order[x].loc \in conn.known /\ conn.watermark # 0
                /\ chunks[i].since = Since
    BY <1>1, <1>3, <1>5, NewChunksCover
  <2>2. x \in Orders /\ order[x].at \in Nat /\ order[x].at <= now
    BY <1>3, <1>5, Types DEF SessionInv, OrdersFit, Shown
  <2>3. CASE chunks[i].since = 0
    BY <1>5, <2>1, <2>2, <2>3 DEF Matches
  <2>4. CASE order[x].loc \in conn.known /\ conn.watermark # 0 /\ chunks[i].since = Since
    <3>1. ~resumed
      BY <1>3, <1>5, <2>4, Types DEF Unlapped
    <3>2. order[x].at + Overlap >= conn.watermark
      BY <1>5, <2>4 DEF SessionInv, OutOfReachOnlyWhereCut, InReach, NewSessionReads
    <3>3. order[x].at >= Since
      BY <1>3, <2>2, <3>1, <3>2, Types, Constants DEF Since
    <3> QED
      BY <1>5, <2>1, <2>2, <2>4, <3>3 DEF Matches
  <2> QED
    BY <2>1, <2>3, <2>4
<1>6. \A i \in DOMAIN chunks :
        chunks[i].since = 0 \/ chunks[i].since + Overlap >= conn.watermark
  BY <1>1, <1>3, NewChunksCover
<1>7. \A x \in Shown : order[x].loc \notin usable => NewSessionReads(x, now, usable)
  BY DEF NewSessionReads
<1> QED
  BY <1>2, <1>3, <1>4, <1>5, <1>6, <1>7, Types DEF SessionIs

LEMMA SessionRead ==
  ASSUME SessionInv, NEW s, s = Session
  PROVE  SessionIs(s)
<1>1. CASE InSession
  BY <1>1, OpenSession DEF Session
<1>2. CASE ~InSession
  BY <1>2, NewSession DEF Session
<1> QED
  BY <1>1, <1>2

-----------------------------------------------------------------------------
(* What a pass leaves.                                                      *)

LEMMA AdvancedIs ==
  ASSUME NEW s \in Cursor, NEW done \in 0 .. Len(s.chunks), done # Len(s.chunks),
         NEW batch \in SUBSET Orders
  PROVE  LET a == Advanced(s, done, batch)
         IN  /\ a \in Cursor /\ a.chunks # <<>>
             /\ a.end = s.end /\ a.locs = s.locs /\ a.seen = s.seen
             /\ a.read = batch \cup (IF done = 0 THEN s.read ELSE {})
             /\ Len(a.chunks) = Len(s.chunks) - done
             /\ \A i \in DOMAIN a.chunks :
                  done + i \in DOMAIN s.chunks /\ a.chunks[i] = s.chunks[done + i]
             /\ \A j \in DOMAIN s.chunks : j > done =>
                  j - done \in DOMAIN a.chunks /\ a.chunks[j - done] = s.chunks[j]
<1> DEFINE k == Len(s.chunks)
           u == SubSeq(s.chunks, done + 1, k)
           r == batch \cup (IF done = 0 THEN s.read ELSE {})
<1>1. /\ s.chunks \in Seq(Chunk) /\ k \in Nat /\ done \in 0..k /\ done < k
      /\ DOMAIN s.chunks = 1..k /\ s.read \in SUBSET Orders
  BY DEF Cursor
<1>2. \A i \in (done + 1)..k : s.chunks[i] \in Chunk
  BY <1>1
<1>3. /\ u \in Seq(Chunk) /\ Len(u) = k - done
      /\ \A i \in 1..(k - done) : u[i] = s.chunks[done + i]
  <2>1. /\ u \in Seq(Chunk)
        /\ Len(u) = IF done + 1 <= k THEN k - (done + 1) + 1 ELSE 0
        /\ \A i \in 1 .. k - (done + 1) + 1 : u[i] = s.chunks[(done + 1) + i - 1]
    <3> HIDE DEF k
    <3> QED
      BY <1>1, <1>2, SubSeqProperties
  <2> QED
    BY <1>1, <2>1
<1>4. Advanced(s, done, batch) = [s EXCEPT !.chunks = u, !.read = r]
  BY <1>1 DEF Advanced
<1>5. r \in SUBSET Orders
  BY <1>1
<1> HIDE DEF u, r
<1>6. PICK a : a = Advanced(s, done, batch)
  OBVIOUS
<1>7. /\ a \in Cursor /\ a.chunks = u /\ a.read = r
      /\ a.end = s.end /\ a.locs = s.locs /\ a.seen = s.seen
  BY <1>3, <1>4, <1>5, <1>6 DEF Cursor
<1>8. u # <<>> /\ DOMAIN u = 1..(k - done)
  BY <1>1, <1>3
<1>9. \A i \in DOMAIN u : done + i \in DOMAIN s.chunks /\ u[i] = s.chunks[done + i]
  BY <1>1, <1>3, <1>8
<1>10. \A j \in DOMAIN s.chunks : j > done =>
         j - done \in DOMAIN u /\ u[j - done] = s.chunks[j]
  <2>1. SUFFICES ASSUME NEW j \in 1..k, j > done
                 PROVE  j - done \in DOMAIN u /\ u[j - done] = s.chunks[j]
    BY <1>1
  <2>2. j - done \in 1..(k - done) /\ done + (j - done) = j
    BY <1>1, <2>1
  <2> QED
    BY <1>3, <1>8, <2>2
<1> QED
  BY <1>3, <1>6, <1>7, <1>8, <1>9, <1>10 DEF r

\* One pass over the session s.
PassOf(s, done, batch) ==
    /\ Reads(s, done, batch)
    /\ conn' = [watermark |-> Watermark(s, done), known |-> s.locs,
                cursor |-> Advanced(s, done, batch)]
    /\ \/ batch \subseteq Stored /\ UNCHANGED imports
       \/ \E from \in PeriodStarts(batch \ Stored) :
            imports' = Append(imports, [lines |-> batch \ Stored, from |-> from])
    /\ resumed' = (done < Len(s.chunks))
    /\ cut' = cut \cup Unlapped
    /\ UNCHANGED <<now, usable, order, upsets>>

\* The ledger gets what the pass read and nothing else.
LEMMA PassStores ==
  ASSUME SessionInv, NEW s, NEW done, NEW batch \in SUBSET Shown,
         PassOf(s, done, batch)
  PROVE  /\ Stored' = Stored \cup batch /\ Len(imports') >= Len(imports)
         /\ imports' \in Seq([lines : SUBSET Orders, from : Nat])
         /\ (\A i \in DOMAIN imports : ImportFits(imports[i]))'
<1>1. /\ imports \in Seq([lines : SUBSET Orders, from : Nat]) /\ TypeOK
      /\ \A i \in DOMAIN imports : ImportFits(imports[i])
      /\ Len(imports) \in Nat /\ DOMAIN imports = 1..Len(imports)
  BY DEF SessionInv, TypeOK
<1>2. order' = order /\ Shown' = Shown
  BY DEF PassOf, Shown
<1>3. CASE batch \subseteq Stored /\ UNCHANGED imports
  BY <1>1, <1>2, <1>3 DEF Stored, ImportFits
<1>4. ASSUME NEW from \in PeriodStarts(batch \ Stored),
             imports' = Append(imports, [lines |-> batch \ Stored, from |-> from])
      PROVE  /\ Stored' = Stored \cup batch /\ Len(imports') >= Len(imports)
             /\ imports' \in Seq([lines : SUBSET Orders, from : Nat])
             /\ (\A i \in DOMAIN imports : ImportFits(imports[i]))'
  <2>1. /\ from \in Nat /\ from >= 1
        /\ \A y \in batch \ Stored : from <= order[y].at + 1
    <3>1. from \in 1 .. MaxTime + 1
      BY DEF PeriodStarts
    <3>2. PICK x \in batch \ Stored :
             /\ from \in {order[x].at, order[x].at + 1}
             /\ \A y \in batch \ Stored : order[x].at <= order[y].at
      BY DEF PeriodStarts
    <3>3. \A y \in batch \ Stored : order[y].at \in Nat
      BY <1>1, Types DEF Shown
    <3>4. \A y \in batch \ Stored : from <= order[y].at + 1
      BY <3>2, <3>3
    <3> QED
      BY <3>1, <3>4, Constants
  <2>2. PICK b : b = [lines |-> batch \ Stored, from |-> from]
    OBVIOUS
  <2>3. /\ b \in [lines : SUBSET Orders, from : Nat]
        /\ b.lines = batch \ Stored /\ b.from = from
    BY <2>1, <2>2 DEF Shown
  <2>4. /\ imports' \in Seq([lines : SUBSET Orders, from : Nat])
        /\ Len(imports') = Len(imports) + 1
        /\ \A i \in 1..Len(imports) : imports'[i] = imports[i]
        /\ imports'[Len(imports) + 1] = b
    BY <1>1, <1>4, <2>2, <2>3, AppendProperties
  <2>5. DOMAIN imports' = DOMAIN imports \cup {Len(imports) + 1}
    BY <1>1, <2>4
  <2>6. Stored' = Stored \cup b.lines
    BY <1>1, <2>4, <2>5 DEF Stored
  <2>7. ImportFits(b)
    BY <2>1, <2>3 DEF ImportFits
  <2>8. \A i \in DOMAIN imports' : ImportFits(imports'[i])
    <3>1. \A i \in DOMAIN imports' :
            imports'[i] = b \/ \E j \in DOMAIN imports : imports'[i] = imports[j]
      BY <1>1, <2>4, <2>5
    <3> QED
      BY <1>1, <2>7, <3>1
  <2>9. (\A i \in DOMAIN imports : ImportFits(imports[i]))'
    BY <1>2, <2>8 DEF ImportFits
  <2> QED
    BY <1>1, <2>3, <2>4, <2>6, <2>9
<1> QED
  BY <1>3, <1>4 DEF PassOf

\* What was in the session and in no later chunk has been read, or was not
\* shown when the session began.
LEMMA PassReads ==
  ASSUME SessionInv, NEW s, SessionIs(s), NEW done \in 0 .. Len(s.chunks),
         NEW batch \in SUBSET Shown, PassOf(s, done, batch),
         NEW x \in Shown, NEW i \in DOMAIN s.chunks, i <= done,
         x \in Matches(s.chunks[i], s.end)
  PROVE  x \in Stored' \/ order[x].at + Overlap >= s.end
<1>1. CASE x \in s.seen
  <2>1. x \in Due(s.chunks[i], s)
    BY <1>1 DEF Due
  <2>2. i \in 1..done
    <3>1. s.chunks \in Seq(Chunk)
      BY DEF SessionIs, Cursor
    <3> QED
      BY <3>1
  <2>3. x \in batch \cup s.read
    BY <2>1, <2>2 DEF PassOf, Reads
  <2> QED
    BY <2>3, PassStores DEF SessionIs
<1>2. CASE x \notin s.seen
  BY <1>2 DEF SessionIs
<1> QED
  BY <1>1, <1>2

\* A comparison is a truth value, which `resumed' needs to be told.
LEMMA LessIsTruth == \A p, q \in Nat : (p < q) \in BOOLEAN
  OBVIOUS

\* A pass that reads the session to its end.
LEMMA LastPassKeeps ==
  ASSUME SessionInv, NEW s, SessionIs(s), NEW done \in 0 .. Len(s.chunks),
         done = Len(s.chunks), NEW batch \in SUBSET Shown, PassOf(s, done, batch)
  PROVE  SessionInv' /\ conn'.watermark >= conn.watermark
<1>1. /\ conn' = [watermark |-> s.end, known |-> s.locs, cursor |-> NoCursor]
      /\ cut' = cut \cup Unlapped
      /\ UNCHANGED <<now, usable, order, upsets>> /\ resumed' \in BOOLEAN
  <2>1. Watermark(s, done) = s.end /\ Advanced(s, done, batch) = NoCursor
    BY DEF Watermark, Advanced
  <2>2. resumed' \in BOOLEAN
    <3>1. resumed' = (done < Len(s.chunks))
      BY DEF PassOf
    <3>2. done \in Nat /\ Len(s.chunks) \in Nat
      BY DEF SessionIs, Cursor
    <3>3. (done < Len(s.chunks)) \in BOOLEAN
      BY <3>2, LessIsTruth
    <3> QED
      BY <3>1, <3>3, Zenon
  <2> QED
    BY <2>1, <2>2 DEF PassOf
<1>2. /\ Stored' = Stored \cup batch
      /\ imports' \in Seq([lines : SUBSET Orders, from : Nat])
      /\ (\A i \in DOMAIN imports : ImportFits(imports[i]))'
  BY PassStores
<1>3. /\ TypeOK /\ s \in Cursor /\ s.end <= now /\ conn.watermark <= s.end
      /\ s.end \in Days /\ s.locs \in SUBSET Locations
      /\ s.chunks \in Seq(Chunk) /\ DOMAIN s.chunks = 1..Len(s.chunks)
  BY DEF SessionIs, Cursor, SessionInv
<1>4. /\ conn'.watermark = s.end /\ conn'.known = s.locs /\ conn'.cursor = NoCursor
      /\ conn' \in [watermark : Days, known : SUBSET Locations, cursor : Cursor]
      /\ ~InSession' /\ Shown' = Shown
  BY <1>1, <1>3, NoSession DEF InSession, Shown
<1>5. Unlapped \subseteq Locations
  BY <1>3 DEF Unlapped, TypeOK
<1>6. TypeOK'
  BY <1>1, <1>2, <1>3, <1>4, <1>5 DEF TypeOK
<1>7. OrdersFit'
  BY <1>1 DEF OrdersFit, SessionInv
<1>8. OutOfReachOnlyWhereCut'
  <2>1. SUFFICES ASSUME NEW x \in Shown, order[x].loc \notin cut \cup Unlapped,
                        x \notin Stored'
                 PROVE  NewSessionReads(x, s.end, s.locs)
    BY <1>1, <1>4 DEF OutOfReachOnlyWhereCut, InReach, NewSessionReads
  <2>2. CASE \E i \in DOMAIN s.chunks : x \in Matches(s.chunks[i], s.end)
    <3>1. PICK i \in DOMAIN s.chunks : x \in Matches(s.chunks[i], s.end)
      BY <2>2
    <3>2. i <= done
      BY <1>3
    <3>3. order[x].at + Overlap >= s.end
      BY <2>1, <3>1, <3>2, PassReads
    <3> QED
      BY <3>3 DEF NewSessionReads
  <2> QED
    BY <1>2, <2>1, <2>2 DEF SessionIs
<1> QED
  BY <1>2, <1>3, <1>4, <1>6, <1>7, <1>8, Types DEF SessionInv

\* A pass that leaves some of it.
LEMMA PartialPassKeeps ==
  ASSUME SessionInv, NEW s, SessionIs(s), NEW done \in 0 .. Len(s.chunks),
         done # Len(s.chunks), NEW batch \in SUBSET Shown, PassOf(s, done, batch)
  PROVE  SessionInv' /\ conn'.watermark = conn.watermark
<1>0. PICK a : a = Advanced(s, done, batch)
  OBVIOUS
<1>1. /\ conn' = [watermark |-> conn.watermark, known |-> s.locs, cursor |-> a]
      /\ cut' = cut \cup Unlapped
      /\ UNCHANGED <<now, usable, order, upsets>> /\ resumed' \in BOOLEAN
  <2>1. Watermark(s, done) = conn.watermark
    BY DEF Watermark
  <2>2. resumed' \in BOOLEAN
    <3>1. resumed' = (done < Len(s.chunks))
      BY DEF PassOf
    <3>2. done \in Nat /\ Len(s.chunks) \in Nat
      BY DEF SessionIs, Cursor
    <3>3. (done < Len(s.chunks)) \in BOOLEAN
      BY <3>2, LessIsTruth
    <3> QED
      BY <3>1, <3>3, Zenon
  <2> QED
    BY <1>0, <2>1, <2>2 DEF PassOf
<1>2. /\ Stored' = Stored \cup batch
      /\ imports' \in Seq([lines : SUBSET Orders, from : Nat])
      /\ (\A i \in DOMAIN imports : ImportFits(imports[i]))'
  BY PassStores
<1>3. /\ TypeOK /\ s \in Cursor /\ s.end <= now /\ conn.watermark <= s.end
      /\ s.end \in Days /\ s.locs \in SUBSET Locations /\ s.read \subseteq Stored
      /\ s.chunks \in Seq(Chunk) /\ DOMAIN s.chunks = 1..Len(s.chunks)
      /\ Len(s.chunks) \in Nat
  BY DEF SessionIs, Cursor, SessionInv
<1>4. /\ a \in Cursor /\ a.chunks # <<>>
      /\ a.end = s.end /\ a.locs = s.locs /\ a.seen = s.seen
      /\ a.read = batch \cup (IF done = 0 THEN s.read ELSE {})
      /\ \A i \in DOMAIN a.chunks :
           done + i \in DOMAIN s.chunks /\ a.chunks[i] = s.chunks[done + i]
      /\ \A j \in DOMAIN s.chunks : j > done =>
           j - done \in DOMAIN a.chunks /\ a.chunks[j - done] = s.chunks[j]
  <2>1. batch \in SUBSET Orders
    BY DEF Shown
  <2> QED
    BY <1>0, <1>3, <2>1, AdvancedIs
<1>5. /\ conn'.watermark = conn.watermark /\ conn'.known = s.locs /\ conn'.cursor = a
      /\ conn' \in [watermark : Days, known : SUBSET Locations, cursor : Cursor]
      /\ InSession' /\ Shown' = Shown
  BY <1>1, <1>3, <1>4, Types DEF InSession, Shown
<1>6. Unlapped \subseteq Locations
  BY <1>3 DEF Unlapped, TypeOK
<1>7. TypeOK'
  BY <1>1, <1>2, <1>3, <1>4, <1>5, <1>6 DEF TypeOK
<1>8. OrdersFit'
  BY <1>1 DEF OrdersFit, SessionInv
<1>9. SessionFits'
  <2>1. a.read \subseteq Stored'
    BY <1>2, <1>3, <1>4
  <2>2. \A x \in Shown \ a.seen : order[x].at + Overlap >= a.end
    BY <1>4 DEF SessionIs
  <2>3. \A i \in DOMAIN a.chunks :
          a.chunks[i].since = 0 \/ a.chunks[i].since + Overlap >= conn.watermark
    BY <1>4 DEF SessionIs
  <2> QED
    BY <1>1, <1>3, <1>4, <1>5, <2>1, <2>2, <2>3 DEF SessionFits
<1>10. OutOfReachOnlyWhereCut'
  <2>1. SUFFICES ASSUME NEW x \in Shown, order[x].loc \notin cut \cup Unlapped,
                        x \notin Stored'
                 PROVE  \/ \E i \in DOMAIN a.chunks :
                             /\ x \in Matches(a.chunks[i], a.end)
                             /\ i > 1 \/ x \notin a.read
                        \/ NewSessionReads(x, a.end, a.locs)
    BY <1>1, <1>5 DEF OutOfReachOnlyWhereCut, InReach, OpenSessionReads,
                      NewSessionReads, Matches
  <2>2. x \notin a.read
    BY <1>2, <1>3, <1>4, <2>1
  <2>3. ASSUME NEW j \in DOMAIN s.chunks, x \in Matches(s.chunks[j], s.end), j > done
        PROVE  \E i \in DOMAIN a.chunks :
                 /\ x \in Matches(a.chunks[i], a.end)
                 /\ i > 1 \/ x \notin a.read
    BY <1>4, <2>2, <2>3
  <2>4. ASSUME NEW j \in DOMAIN s.chunks, x \in Matches(s.chunks[j], s.end), j <= done
        PROVE  NewSessionReads(x, a.end, a.locs)
    <3>1. order[x].at + Overlap >= s.end
      BY <2>1, <2>4, PassReads
    <3> QED
      BY <1>4, <3>1 DEF NewSessionReads
  <2>5. \A j \in DOMAIN s.chunks : j > done \/ j <= done
    BY <1>3
  <2> QED
    BY <1>2, <1>4, <2>1, <2>3, <2>4, <2>5 DEF SessionIs
<1> QED
  BY <1>2, <1>5, <1>7, <1>8, <1>9, <1>10 DEF SessionInv

LEMMA PassKeeps ==
  ASSUME SessionInv, Pass
  PROVE  SessionInv' /\ conn'.watermark >= conn.watermark
<1>1. PICK s : s = Session
  OBVIOUS
<1>2. PICK done \in 0 .. Len(s.chunks), batch \in SUBSET Shown : PassOf(s, done, batch)
  BY <1>1 DEF Pass, PassOf
<1>3. SessionIs(s)
  BY <1>1, SessionRead
<1>4. conn.watermark \in Nat
  BY Types DEF SessionInv
<1>5. CASE done = Len(s.chunks)
  BY <1>2, <1>3, <1>5, LastPassKeeps
<1>6. CASE done # Len(s.chunks)
  BY <1>2, <1>3, <1>4, <1>6, PartialPassKeeps
<1> QED
  BY <1>5, <1>6

-----------------------------------------------------------------------------
(* The owner reconnects or undoes an import.                                *)

\* What a step that ends the open session leaves in reach: what was neither
\* stored nor in a chunk from the beginning is in the overlap of the watermark,
\* or its location is not known.
LEMMA InOverlap ==
  ASSUME SessionInv, NEW x \in Shown, x \notin Stored, order[x].loc \notin cut \cup Pending
  PROVE  NewSessionReads(x, conn.watermark, conn.known)
<1>1. /\ TypeOK /\ InReach(x) /\ x \in Orders /\ order[x].at \in Nat
      /\ conn.watermark \in Nat /\ conn.cursor.end \in Nat
  BY Types DEF SessionInv, OutOfReachOnlyWhereCut, Shown
<1>2. CASE ~InSession
  BY <1>1, <1>2 DEF InReach
<1>3. CASE InSession
  <2>1. /\ conn.watermark <= conn.cursor.end /\ conn.known = conn.cursor.locs
        /\ SessionFits
    BY <1>1, <1>3 DEF SessionInv, SessionFits, TypeOK
  <2>2. ASSUME NEW i \in DOMAIN conn.cursor.chunks,
               x \in Matches(conn.cursor.chunks[i], conn.cursor.end)
        PROVE  NewSessionReads(x, conn.watermark, conn.known)
    <3>1. /\ order[x].loc \in conn.cursor.chunks[i].locs
          /\ order[x].at >= conn.cursor.chunks[i].since
          /\ conn.cursor.chunks[i].since \in Nat
      BY <1>1, <2>2, Types DEF Matches
    <3>2. CASE conn.cursor.chunks[i].since = 0
      <4>1. conn.watermark # 0 => order[x].loc \in Pending
        BY <2>2, <3>1, <3>2 DEF Pending
      <4> QED
        BY <4>1 DEF NewSessionReads
    <3>3. CASE conn.cursor.chunks[i].since + Overlap >= conn.watermark
      <4>1. order[x].at + Overlap >= conn.watermark
        BY <1>1, <3>1, <3>3, Constants
      <4> QED
        BY <4>1 DEF NewSessionReads
    <3> QED
      BY <2>1, <3>2, <3>3 DEF SessionFits
  <2>3. CASE NewSessionReads(x, conn.cursor.end, conn.cursor.locs)
    BY <1>1, <2>1, <2>3, Constants DEF NewSessionReads
  <2> QED
    BY <1>1, <1>3, <2>2, <2>3 DEF InReach, OpenSessionReads
<1> QED
  BY <1>2, <1>3

LEMMA PendingType == TypeOK => Pending \subseteq Locations
<1> SUFFICES ASSUME TypeOK PROVE Pending \subseteq Locations
  OBVIOUS
<1>1. \A i \in DOMAIN conn.cursor.chunks : conn.cursor.chunks[i].locs \subseteq Locations
  BY Types DEF Chunk
<1> QED
  BY <1>1 DEF Pending

LEMMA ReconnectKeeps ==
  ASSUME SessionInv, Reconnect
  PROVE  SessionInv' /\ conn'.watermark = conn.watermark
<1>1. /\ conn' = [conn EXCEPT !.known = usable, !.cursor = NoCursor]
      /\ cut' = IF conn.watermark = 0 THEN cut
                ELSE cut \cup Pending \cup (usable \ conn.known)
      /\ UNCHANGED <<now, usable, order, imports>>
      /\ TypeOK
  BY DEF Reconnect, SessionInv
<1>2. upsets' \in 0..MaxUpsets
  BY <1>1, Constants DEF Reconnect, TypeOK
<1>3. resumed' \in BOOLEAN
  BY Zenon DEF Reconnect
<1>4. /\ conn'.watermark = conn.watermark /\ conn'.known = usable
      /\ conn'.cursor = NoCursor /\ ~InSession'
      /\ conn' \in [watermark : Days, known : SUBSET Locations, cursor : Cursor]
      /\ Shown' = Shown /\ Stored' = Stored
  BY <1>1, NoSession DEF InSession, Shown, Stored, TypeOK
<1>5. cut' \subseteq Locations /\ cut \subseteq cut'
  BY <1>1, PendingType DEF TypeOK
<1>6. TypeOK'
  BY <1>1, <1>2, <1>3, <1>4, <1>5 DEF TypeOK
<1>7. OrdersFit' /\ (\A i \in DOMAIN imports : ImportFits(imports[i]))'
  BY <1>1, <1>4 DEF OrdersFit, SessionInv, ImportFits
<1>8. OutOfReachOnlyWhereCut'
  <2>1. SUFFICES ASSUME NEW x \in Shown, order[x].loc \notin cut', x \notin Stored
                 PROVE  NewSessionReads(x, conn.watermark, usable)
    BY <1>1, <1>4 DEF OutOfReachOnlyWhereCut, InReach, NewSessionReads
  <2>2. CASE conn.watermark # 0
    <3>1. NewSessionReads(x, conn.watermark, conn.known)
      BY <1>1, <2>1, <2>2, InOverlap
    <3> QED
      BY <1>1, <2>1, <2>2, <3>1 DEF NewSessionReads
  <2> QED
    BY <2>2 DEF NewSessionReads
<1> QED
  BY <1>4, <1>6, <1>7, <1>8 DEF SessionInv

\* An undone import takes back the lines of the newest batch only.
LEMMA UndoTakesBack ==
  ASSUME SessionInv, UndoImport
  PROVE  /\ Len(imports) \in DOMAIN imports /\ Len(imports') < Len(imports)
         /\ imports' \in Seq([lines : SUBSET Orders, from : Nat])
         /\ \A i \in DOMAIN imports' : i \in DOMAIN imports /\ imports'[i] = imports[i]
         /\ Stored' \subseteq Stored
         /\ \A x \in Stored \ Stored' : x \in imports[Len(imports)].lines
<1>1. PICK n : n = Len(imports)
  OBVIOUS
<1>2. /\ imports \in Seq([lines : SUBSET Orders, from : Nat]) /\ imports # <<>>
      /\ imports' = SubSeq(imports, 1, n - 1)
  BY <1>1 DEF UndoImport, SessionInv, TypeOK
<1>3. n \in Nat /\ n >= 1 /\ DOMAIN imports = 1..n
  BY <1>1, <1>2
<1>4. /\ imports' \in Seq([lines : SUBSET Orders, from : Nat])
      /\ Len(imports') = n - 1 /\ DOMAIN imports' = 1..(n - 1)
      /\ \A i \in 1..(n - 1) : imports'[i] = imports[i]
  <2>1. PICK T : T = [lines : SUBSET Orders, from : Nat]
    OBVIOUS
  <2>2. imports \in Seq(T)
    BY <1>2, <2>1
  <2>3. PICK u, t : u = imports /\ t = SubSeq(u, 1, n - 1)
    OBVIOUS
  <2>4. t \in Seq(T) /\ Len(t) = n - 1 /\ \A i \in 1..(n - 1) : t[i] = u[i]
    BY <1>1, <1>3, <2>2, <2>3, SubSeqProperties
  <2> QED
    BY <1>2, <1>3, <2>1, <2>3, <2>4
<1>5. \A i \in DOMAIN imports : i = n \/ i \in DOMAIN imports'
  BY <1>3, <1>4
<1>6. \A i \in DOMAIN imports' : i \in DOMAIN imports /\ imports'[i] = imports[i]
  BY <1>3, <1>4
<1>7. Stored' \subseteq Stored /\ \A x \in Stored \ Stored' : x \in imports[n].lines
  BY <1>5, <1>6 DEF Stored
<1> QED
  BY <1>1, <1>3, <1>4, <1>6, <1>7

\* The watermark goes back to where the undone lines are in its overlap.
LEMMA UndoKeeps ==
  ASSUME SessionInv, UndoImport
  PROVE  /\ SessionInv'
         /\ Len(imports') < Len(imports)
         /\ \A x \in Stored \ Stored' : order[x].at + Overlap >= conn'.watermark
<1>1. PICK b : b = imports[Len(imports)]
  OBVIOUS
<1>2. PICK w : w = RolledBack(b.from)
  OBVIOUS
<1>3. /\ conn' = [conn EXCEPT !.watermark = w, !.cursor = NoCursor]
      /\ cut' = cut \cup Pending /\ resumed' = FALSE
      /\ UNCHANGED <<now, usable, order>> /\ TypeOK
      /\ upsets < MaxUpsets /\ upsets' = upsets + 1
  BY <1>1, <1>2 DEF UndoImport, SessionInv
<1>4. upsets' \in 0..MaxUpsets /\ cut' \subseteq Locations /\ cut \subseteq cut'
  BY <1>3, PendingType, Constants DEF TypeOK
<1>5. resumed' \in BOOLEAN
  BY <1>3, Zenon
<1>6. ImportFits(b) /\ b.from \in Nat /\ b.from >= 1
  <2>1. /\ Len(imports) \in DOMAIN imports
        /\ imports \in Seq([lines : SUBSET Orders, from : Nat])
    BY UndoTakesBack DEF SessionInv, TypeOK
  <2>2. b \in [lines : SUBSET Orders, from : Nat]
    <3>1. PICK T : T = [lines : SUBSET Orders, from : Nat]
      OBVIOUS
    <3>2. imports \in Seq(T)
      BY <2>1, <3>1
    <3>3. b \in T
      BY <1>1, <2>1, <3>2, ElementOfSeq
    <3> QED
      BY <3>1, <3>3
  <2> QED
    BY <1>1, <2>1, <2>2 DEF SessionInv, ImportFits
<1>7. /\ w \in Days /\ w \in Nat /\ w <= conn.watermark /\ w <= b.from /\ w <= now
      /\ conn.watermark = 0 => w = 0
  <2>1. conn.watermark \in 0..MaxTime /\ conn.watermark <= now /\ now \in Nat
    BY <1>3, Types DEF TypeOK, Days
  <2> QED
    BY <1>2, <1>6, <2>1, Constants DEF RolledBack, Days
<1>8. /\ conn'.watermark = w /\ conn'.known = conn.known
      /\ conn'.cursor = NoCursor /\ ~InSession' /\ Shown' = Shown
      /\ conn' \in [watermark : Days, known : SUBSET Locations, cursor : Cursor]
  BY <1>3, <1>7, NoSession DEF InSession, Shown, TypeOK
<1>9. TypeOK'
  BY <1>3, <1>4, <1>5, <1>7, <1>8, UndoTakesBack DEF TypeOK
<1>10. OrdersFit' /\ (\A i \in DOMAIN imports : ImportFits(imports[i]))'
  BY <1>3, <1>8, UndoTakesBack DEF OrdersFit, SessionInv, ImportFits
<1>11. \A x \in Stored \ Stored' : x \in Shown /\ order[x].at + Overlap >= w
  <2>1. ASSUME NEW x \in Stored \ Stored'
        PROVE  x \in Shown /\ order[x].at + Overlap >= w
    <3>1. x \in Shown /\ b.from <= order[x].at + 1
      BY <1>1, <1>6, <2>1, UndoTakesBack DEF ImportFits
    <3>2. order[x].at \in Nat
      BY <1>3, <3>1, Types DEF Shown
    <3> QED
      BY <1>6, <1>7, <3>1, <3>2, Constants
  <2> QED
    BY <2>1
<1>12. OutOfReachOnlyWhereCut'
  <2>1. SUFFICES ASSUME NEW x \in Shown, order[x].loc \notin cut \cup Pending,
                        x \notin Stored'
                 PROVE  NewSessionReads(x, w, conn.known)
    BY <1>3, <1>8 DEF OutOfReachOnlyWhereCut, InReach, NewSessionReads
  <2>2. CASE x \in Stored
    BY <1>11, <2>1, <2>2 DEF NewSessionReads
  <2>3. CASE x \notin Stored
    <3>1. NewSessionReads(x, conn.watermark, conn.known)
      BY <2>1, <2>3, InOverlap
    <3>2. order[x].at \in Nat /\ conn.watermark \in Nat
      BY <1>3, <2>1, Types DEF Shown
    <3> QED
      BY <1>7, <3>1, <3>2, Constants DEF NewSessionReads
  <2> QED
    BY <2>2, <2>3
<1> QED
  BY <1>8, <1>9, <1>10, <1>11, <1>12, UndoTakesBack DEF SessionInv

-----------------------------------------------------------------------------
(* The theorems.                                                            *)

LEMMA SessionStep ==
  ASSUME SessionInv, [Next]_vars
  PROVE  /\ SessionInv'
         /\ conn'.watermark < conn.watermark => UndoImport
<1>0. conn.watermark \in Nat
  BY Types DEF SessionInv
<1>1. CASE Tick
  BY <1>0, <1>1, TickKeeps DEF Tick
<1>2. CASE Pass
  <2>1. SessionInv' /\ conn'.watermark >= conn.watermark
    BY <1>2, PassKeeps
  <2>2. conn'.watermark \in Nat
    <3>1. conn' \in [watermark : Days, known : SUBSET Locations, cursor : Cursor]
      BY <2>1 DEF SessionInv, TypeOK
    <3>2. conn'.watermark \in Days
      BY <3>1
    <3> QED
      BY <3>2, Types DEF SessionInv
  <2> QED
    BY <1>0, <2>1, <2>2
<1>3. CASE RollBackPass \/ RunEnds
  <2>1. SessionInv'
    BY <1>3, RunKeeps
  <2> QED
    BY <1>0, <1>3, <2>1 DEF RollBackPass, RunEnds
<1>4. CASE Reconnect
  BY <1>0, <1>4, ReconnectKeeps
<1>5. CASE UndoImport
  BY <1>5, UndoKeeps
<1>6. CASE \E x \in Orders : Show(x)
  <2>1. SessionInv' /\ conn' = conn
    BY <1>6, ShowKeeps DEF Show
  <2> QED
    BY <1>0, <2>1
<1>7. CASE \E l \in Locations : LocationChanges(l)
  <2>1. SessionInv' /\ conn' = conn
    BY <1>7, LocationKeeps DEF LocationChanges
  <2> QED
    BY <1>0, <2>1
<1>8. CASE UNCHANGED vars
  <2>1. /\ now' = now /\ usable' = usable /\ order' = order /\ conn' = conn
        /\ imports' = imports /\ resumed' = resumed /\ upsets' = upsets /\ cut' = cut
    BY <1>8 DEF vars
  <2>2. now \in 1..MaxTime /\ now >= now
    BY Types DEF SessionInv, TypeOK
  <2> QED
    BY <1>0, <2>1, <2>2, Bystanders DEF SessionInv, TypeOK
<1> QED
  BY <1>1, <1>2, <1>3, <1>4, <1>5, <1>6, <1>7, <1>8 DEF Next

\* The inductive invariant holds in every state (pos_sync.py: ingest_pages,
\* Reconnect and undo included).
THEOREM SessionInvariant == Spec => []SessionInv
<1>1. SessionInv /\ [Next]_vars => SessionInv'
  BY SessionStep
<1> QED
  BY <1>1, SessionInit, PTL DEF Spec

\* A cursor is kept only while some of its session is unread, and the watermark
\* never runs ahead of the day or of the open session's end.
THEOREM TypeCorrect == Spec => []TypeOK
<1>1. SessionInv => TypeOK
  BY DEF SessionInv
<1> QED
  BY <1>1, SessionInvariant, PTL

\* Whatever the provider shows late, however a session is cut into passes, a
\* run resumed, a pass rolled back, the account reconnected or an import undone:
\* an order is in the ledger or within reach of a coming session, unless a first
\* full read of its location was cut short or read without the overlap.
THEOREM OnlyCutLocationsAreMissed == Spec => []OutOfReachOnlyWhereCut
<1>1. SessionInv => OutOfReachOnlyWhereCut
  BY DEF SessionInv
<1> QED
  BY <1>1, SessionInvariant, PTL

\* Only an undone import moves the watermark back, and far enough for every
\* line it takes back to be read again.
THEOREM WatermarkIsHeld == Spec => WatermarkHolds
<1> DEFINE Held ==
      conn'.watermark < conn.watermark =>
        /\ Len(imports') < Len(imports)
        /\ \A x \in Stored \ Stored' : order[x].at + Overlap >= conn'.watermark
<1>1. SessionInv /\ [Next]_vars => [Held]_vars
  BY SessionStep, UndoKeeps
<1>2. Spec => [][Held]_vars
  BY <1>1, SessionInvariant, PTL DEF Spec
<1> QED
  BY <1>2 DEF WatermarkHolds

=============================================================================
