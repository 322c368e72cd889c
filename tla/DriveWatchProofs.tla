--------------------------- MODULE DriveWatchProofs ---------------------------
(***************************************************************************)
(* The Drive watcher for any number of workspaces, files, folders, changes  *)
(* and failures: the cursor passes no file that was not registered, what is *)
(* gone is withdrawn, and an import stands.  The inductive invariant says   *)
(* what the poll under way has read, and what of it is still to be done.    *)
(***************************************************************************)
EXTENDS DriveWatch, TLAPS

\* Nothing is known to have happened later than it did.
Clocked ==
    /\ cursor <= clock
    /\ \A f \in Files : changedAt[f] <= clock
    /\ \A w \in Workspaces : listed[w].at <= clock

Active(p) == poll[p].stage # "idle"

\* A poll goes on from the cursor, knows the folder of each workspace that
\* counts as listed, and takes nothing away before it has read the changes.
Polling(p) ==
    /\ poll[p].token = cursor
    /\ poll[p].next <= clock
    /\ poll[p].stage # "seed" => poll[p].next # NoToken
    /\ poll[p].listing # NoOne => poll[p].listing \in poll[p].owes
    /\ poll[p].owes \cup poll[p].settled \subseteq Connected(poll[p].folders)
    /\ \A w \in Workspaces :
         source[w].registered /\ listed[w].folder = source[w].folder
         => poll[p].folders[w] = source[w].folder

Seeding(p) ==
    \A w \in Workspaces, f \in Files : <<f, TRUE>> \notin poll[p].todo[w]

\* What a listing has read: a file that has not changed since is in it, and
\* has a row or is still to be registered, exactly if it is in the folder.
ListingOK(p, w) ==
    /\ cursor <= poll[p].at /\ poll[p].at <= clock
    /\ \A f \in Files : changedAt[f] <= poll[p].at =>
         /\ Kept(f, poll[p].folders[w])
            => <<f, FALSE>> \in poll[p].todo[w] \/ row[w][f] # "none"
         /\ <<f, FALSE>> \in poll[p].todo[w] => Kept(f, poll[p].folders[w])

\* What the changes have been read to say: the same of a file that has not
\* changed since, and of one that was taken away.
PlanOK(p, w) ==
    /\ listed[w].at <= poll[p].next
    /\ poll[p].todo[w] # {} => poll[p].folders[w] # NoFolder
    /\ \A f \in Files : changedAt[f] <= poll[p].next =>
         /\ <<f, FALSE>> \in poll[p].todo[w] => Kept(f, poll[p].folders[w])
         /\ <<f, TRUE>> \in poll[p].todo[w] => ~Kept(f, poll[p].folders[w])
         /\ cursor < changedAt[f] /\ poll[p].folders[w] # NoFolder =>
              /\ Kept(f, poll[p].folders[w])
                 => <<f, FALSE>> \in poll[p].todo[w] \/ row[w][f] # "none"
              /\ place[f] = Away
                 => <<f, TRUE>> \in poll[p].todo[w] \/ row[w][f] # "new"

PollOK(p) ==
    /\ Polling(p)
    /\ IF poll[p].stage \in {"seed", "reseed"}
       THEN /\ Seeding(p)
            /\ \A w \in Workspaces : poll[p].listing = w => ListingOK(p, w)
       ELSE poll[p].listing = NoOne
    /\ poll[p].stage = "register" =>
         cursor <= poll[p].next /\ \A w \in Workspaces : PlanOK(p, w)

IInv ==
    /\ TypeOK
    /\ Clocked
    /\ \A p \in Pollers : IF Active(p) THEN PollOK(p) ELSE poll[p] = Idle
    /\ NothingPassedOver
    /\ GoneIsWithdrawn

-----------------------------------------------------------------------------
(* What does not depend on the action.                                      *)

LEMMA Numbers ==
  ASSUME TypeOK
  PROVE  /\ clock \in Nat /\ NoToken \notin Nat /\ cursor \in Int /\ began \in Int
         /\ \A f \in Files : changedAt[f] \in Nat
         /\ \A w \in Workspaces : listed[w].at \in Nat /\ deaf[w] \in Nat
         /\ Positions \subseteq Nat /\ Positions \subseteq Tokens
  BY DriveAssumption DEF TypeOK, DriveAssumption, Positions, Tokens, NoToken

\* Nobody else's poll is under way beside an active one.
LEMMA Alone ==
  ASSUME TypeOK, NEW p \in Pollers, Active(p)
  PROVE  \A q \in Pollers \ {p} : ~Active(q)
  BY DEF TypeOK, Active

\* One poll moves.
LEMMA Move ==
  ASSUME TypeOK, NEW p \in Pollers, NEW x \in Polls,
         poll' = [poll EXCEPT ![p] = x],
         \A q \in Pollers \ {p} : ~Active(q)
  PROVE  /\ poll' \in [Pollers -> Polls]
         /\ poll'[p] = x
         /\ \A q \in Pollers \ {p} : ~Active(q)' /\ poll'[q] = poll[q]
         /\ \A a, b \in Pollers :
              poll'[a].stage = "idle" \/ poll'[b].stage = "idle" \/ a = b
  BY DEF TypeOK, Active

LEMMA IdleType ==
  /\ Idle \in Polls
  /\ Idle.stage = "idle"
  BY DriveAssumption
  DEF Idle, Polls, Tokens, Positions, NoToken, Nothing, DriveAssumption

\* A poll that only looks, and knows afterwards what it should.
LEMMA OnlyPoll ==
  ASSUME IInv, NEW p \in Pollers, NEW x \in Polls,
         poll' = [poll EXCEPT ![p] = x],
         \A q \in Pollers \ {p} : ~Active(q),
         UNCHANGED <<drive, source, row, skips, cursor, expired, history, extra>>,
         Active(p)', PollOK(p)'
  PROVE  IInv'
<1>1. TypeOK'
  BY Move DEF IInv, TypeOK, drive, history
<1>2. Clocked'
  BY DEF IInv, Clocked, drive, history
<1>3. \A q \in Pollers : IF Active(q)' THEN PollOK(q)' ELSE poll'[q] = Idle
  BY Move DEF IInv
<1>4. NothingPassedOver' /\ GoneIsWithdrawn'
  BY DEF IInv, NothingPassedOver, GoneIsWithdrawn, Told, Kept, drive, history
<1> QED
  BY <1>1, <1>2, <1>3, <1>4 DEF IInv

\* What merchants and Google do: no row is lost or offered again, and a
\* folder that counts as listed is the one that did before.
LEMMA Outside ==
  ASSUME IInv, TypeOK',
         UNCHANGED <<drive, cursor, poll, history>>,
         \A w \in Workspaces, f \in Files :
            /\ row[w][f] # "none" => row'[w][f] # "none"
            /\ row'[w][f] = "new" => row[w][f] = "new",
         \A w \in Workspaces :
            source'[w].registered => source'[w] = source[w]
  PROVE  IInv'
<1>1. Clocked'
  BY DEF IInv, Clocked, drive, history
<1>2. \A f \in Files : /\ Told(f)' <=> Told(f)
                       /\ \A F : Kept(f, F)' <=> Kept(f, F)
  BY DEF Told, Kept, drive, history
<1>3. ASSUME NEW p \in Pollers, Active(p)'
      PROVE  PollOK(p)'
  <2>1. PollOK(p)
    BY <1>3 DEF IInv, Active
  <2>2. Polling(p)'
    <3>1. Polling(p)
      BY <2>1 DEF PollOK
    <3> QED
      BY <3>1 DEF Polling, drive, history
  <2>3. Seeding(p) => Seeding(p)'
    BY DEF Seeding
  <2>4. \A w \in Workspaces : ListingOK(p, w) => ListingOK(p, w)'
    BY <1>2 DEF ListingOK, drive
  <2>5. \A w \in Workspaces : PlanOK(p, w) => PlanOK(p, w)'
    BY <1>2 DEF PlanOK, drive, history
  <2> QED
    BY <2>1, <2>2, <2>3, <2>4, <2>5 DEF PollOK
<1>4. \A p \in Pollers : IF Active(p)' THEN PollOK(p)' ELSE poll'[p] = Idle
  BY <1>3 DEF IInv, Active
<1>5. NothingPassedOver'
  <2> SUFFICES ASSUME NEW w \in Workspaces, NEW f \in Files,
                      source[w].registered, listed[w].folder = source[w].folder,
                      Kept(f, source[w].folder),
                      changedAt[f] <= listed[w].at \/ Told(f)
               PROVE  row'[w][f] # "none"
    BY <1>2 DEF NothingPassedOver, drive, history
  <2> QED
    BY DEF IInv, NothingPassedOver
<1>6. GoneIsWithdrawn'
  BY <1>2 DEF IInv, GoneIsWithdrawn, drive, history
<1> QED
  BY <1>1, <1>4, <1>5, <1>6 DEF IInv

-----------------------------------------------------------------------------
(* Merchants and Drive.                                                     *)

LEMMA InitIInv == Init => IInv
<1> SUFFICES ASSUME Init PROVE IInv
  OBVIOUS
<1>1. TypeOK
  <2>1. /\ NoToken \in Tokens /\ 0 \in Positions
        /\ MaxExtra \in Nat /\ 0 \in 0 .. MaxExtra
    BY DriveAssumption DEF DriveAssumption, Tokens, Positions
  <2> QED
    BY <2>1, IdleType DEF Init, TypeOK, Statuses
<1>2. Clocked
  BY DriveAssumption DEF Init, Clocked, NoToken
<1>3. \A p \in Pollers : ~Active(p) /\ poll[p] = Idle
  BY IdleType DEF Init, Active
<1>4. NothingPassedOver /\ GoneIsWithdrawn
  BY DEF Init, NothingPassedOver, GoneIsWithdrawn
<1> QED
  BY <1>1, <1>2, <1>3, <1>4 DEF IInv

LEMMA MerchantStep ==
  ASSUME IInv,
         \/ Expire
         \/ \E w \in Workspaces, folder \in Folders : Connect(w, folder)
         \/ \E w \in Workspaces : Disconnect(w)
         \/ \E w \in Workspaces, f \in Files :
               Import(w, f) \/ SkipReads(w, f) \/ Unskip(w, f)
         \/ \E s \in skips : SkipWrites(s)
  PROVE  IInv'
<1> USE DEF IInv
<1>1. CASE Expire
  <2>1. TypeOK'
    BY <1>1, DriveAssumption
    DEF Expire, Extra, TypeOK, drive, history, DriveAssumption
  <2> QED
    BY <1>1, <2>1, Outside DEF Expire
<1>2. ASSUME NEW w \in Workspaces, NEW folder \in Folders, Connect(w, folder)
      PROVE  IInv'
  <2>1. TypeOK'
    BY <1>2, DriveAssumption
    DEF Connect, Extra, TypeOK, drive, history, DriveAssumption
  <2>2. \A v \in Workspaces : source'[v].registered => source'[v] = source[v]
    BY <1>2 DEF Connect, TypeOK
  <2> QED
    BY <1>2, <2>1, <2>2, Outside DEF Connect
<1>3. ASSUME NEW w \in Workspaces, Disconnect(w)
      PROVE  IInv'
  <2>1. TypeOK'
    BY <1>3, DriveAssumption
    DEF Disconnect, Extra, TypeOK, drive, history, DriveAssumption
  <2>2. \A v \in Workspaces : source'[v].registered => source'[v] = source[v]
    BY <1>3 DEF Disconnect, TypeOK
  <2> QED
    BY <1>3, <2>1, <2>2, Outside DEF Disconnect
<1>4. ASSUME NEW w \in Workspaces, NEW f \in Files, Import(w, f)
      PROVE  IInv'
  <2>1. TypeOK'
    BY <1>4, DriveAssumption
    DEF Import, Extra, TypeOK, Statuses, drive, history, DriveAssumption
  <2>2. \A v \in Workspaces, g \in Files :
          row'[v][g] = IF v = w /\ g = f THEN "imported" ELSE row[v][g]
    BY <1>4 DEF Import, TypeOK
  <2> QED
    BY <1>4, <2>1, <2>2, Outside DEF Import
<1>5. ASSUME NEW w \in Workspaces, NEW f \in Files, SkipReads(w, f)
      PROVE  IInv'
  <2> DEFINE s == [of |-> w, file |-> f, existed |-> row[w][f] # "none"]
  <2>1. /\ s \in [of : Workspaces, file : Files, existed : BOOLEAN]
        /\ s.existed => row[s.of][s.file] # "none"
    OBVIOUS
  <2>2. skips' = skips \cup {s}
    BY <1>5 DEF SkipReads
  <2> HIDE DEF s
  <2>3. TypeOK'
    BY <1>5, <2>1, <2>2, DriveAssumption
    DEF SkipReads, Extra, TypeOK, drive, history, DriveAssumption
  <2> QED
    BY <1>5, <2>3, Outside DEF SkipReads
<1>6. ASSUME NEW w \in Workspaces, NEW f \in Files, Unskip(w, f)
      PROVE  IInv'
  <2>1. TypeOK'
    BY <1>6, DriveAssumption
    DEF Unskip, Extra, TypeOK, Statuses, drive, history, DriveAssumption
  <2>2. \A v \in Workspaces, g \in Files :
          row'[v][g] = IF v = w /\ g = f THEN "restored" ELSE row[v][g]
    BY <1>6 DEF Unskip, TypeOK
  <2> QED
    BY <1>6, <2>1, <2>2, Outside DEF Unskip
<1>7. ASSUME NEW s \in skips, SkipWrites(s)
      PROVE  IInv'
  <2>1. /\ s.of \in Workspaces /\ s.file \in Files
        /\ s.existed => row[s.of][s.file] # "none"
    BY DEF TypeOK
  <2>2. \A v \in Workspaces, g \in Files :
          row'[v][g] = IF /\ v = s.of /\ g = s.file
                          /\ s.existed \/ row[v][g] = "none"
                       THEN "skipped" ELSE row[v][g]
    BY <1>7, <2>1 DEF SkipWrites, TypeOK
  <2>3. row' \in [Workspaces -> [Files -> Statuses]]
    BY <1>7, <2>1 DEF SkipWrites, TypeOK, Statuses
  <2>4. TypeOK'
    <3>1. /\ skips' \subseteq skips
          /\ \A v \in Workspaces, g \in Files :
               row[v][g] # "none" => row'[v][g] # "none"
      BY <1>7, <2>2 DEF SkipWrites
    <3>2. \A r \in skips' : r.existed => row'[r.of][r.file] # "none"
      BY <3>1 DEF TypeOK
    <3>3. skips' \subseteq [of : Workspaces, file : Files, existed : BOOLEAN]
      BY <3>1 DEF TypeOK
    <3>4. UNCHANGED <<drive, source, cursor, expired, poll, history, extra>>
      BY <1>7 DEF SkipWrites
    <3> QED
      BY <2>3, <3>2, <3>3, <3>4 DEF TypeOK, drive, history
  <2> QED
    BY <1>7, <2>2, <2>4, Outside DEF SkipWrites
<1> QED
  BY <1>1, <1>2, <1>3, <1>4, <1>5, <1>6, <1>7

\* A change is later than anything that was read.
LEMMA ChangeStep ==
  ASSUME IInv, NEW f \in Files, NEW to \in Places, Change(f, to)
  PROVE  IInv'
<1> USE DEF IInv
<1>1. /\ clock' = clock + 1 /\ clock' \in Positions
      /\ \A g \in Files \ {f} : changedAt'[g] = changedAt[g] /\ place'[g] = place[g]
      /\ changedAt'[f] = clock + 1 /\ place'[f] = to
      /\ changedAt' \in [Files -> Positions] /\ place' \in [Files -> Places]
  BY DriveAssumption DEF Change, TypeOK, Positions, DriveAssumption
<1>2. UNCHANGED <<source, row, skips, cursor, expired, poll, history, extra>>
  BY DEF Change
<1>3. \A g \in Files \ {f} : \A x : Kept(g, x)' <=> Kept(g, x)
  BY <1>1 DEF Kept
<1>4. TypeOK'
  BY <1>1, <1>2 DEF TypeOK, history
<1>5. Clocked'
  BY <1>1, <1>2, Numbers DEF Clocked, history
<1>6. ASSUME NEW p \in Pollers, Active(p)'
      PROVE  PollOK(p)'
  <2>1. PollOK(p) /\ poll[p] \in Polls
    BY <1>2, <1>6 DEF Active, TypeOK
  <2>2. /\ poll[p].next \in Int /\ poll[p].at \in Int
        /\ poll[p].next <= clock
    BY <2>1, Numbers
    DEF PollOK, Polling, Polls, Tokens, NoToken
  <2>3. Polling(p)'
    BY <1>1, <1>2, <2>1, <2>2, Numbers DEF PollOK, Polling, history
  <2>4. Seeding(p) => Seeding(p)'
    BY <1>2 DEF Seeding
  <2>5. ASSUME NEW w \in Workspaces, ListingOK(p, w)
        PROVE  ListingOK(p, w)'
    <3>1. ~(changedAt'[f] <= poll'[p].at)
      BY <1>1, <1>2, <2>2, <2>5, Numbers DEF ListingOK
    <3>2. cursor' <= poll'[p].at /\ poll'[p].at <= clock'
      BY <1>1, <1>2, <2>2, <2>5, Numbers DEF ListingOK
    <3> QED
      BY <1>1, <1>2, <1>3, <2>5, <3>1, <3>2 DEF ListingOK
  <2>6. ASSUME NEW w \in Workspaces, PlanOK(p, w)
        PROVE  PlanOK(p, w)'
    <3>1. ~(changedAt'[f] <= poll'[p].next)
      BY <1>1, <1>2, <2>2, Numbers
    <3> QED
      BY <1>1, <1>2, <1>3, <2>6, <3>1 DEF PlanOK, history
  <2> QED
    BY <1>2, <2>1, <2>3, <2>4, <2>5, <2>6 DEF PollOK
<1>7. /\ ~Told(f)' /\ \A w \in Workspaces : ~(changedAt'[f] <= listed'[w].at)
      /\ \A g \in Files \ {f} : Told(g)' <=> Told(g)
  BY <1>1, <1>2, Numbers DEF Told, Clocked, history
<1>8. NothingPassedOver'
  BY <1>1, <1>2, <1>3, <1>7 DEF NothingPassedOver, history
<1>9. GoneIsWithdrawn'
  BY <1>1, <1>2, <1>7 DEF GoneIsWithdrawn, history
<1>10. \A p \in Pollers : IF Active(p)' THEN PollOK(p)' ELSE poll'[p] = Idle
  BY <1>2, <1>6 DEF Active
<1> QED
  BY <1>4, <1>5, <1>8, <1>9, <1>10

-----------------------------------------------------------------------------
(* What a poll reads.                                                       *)

\* It starts from the state as it is.
LEMMA BeginStep ==
  ASSUME IInv, NEW p \in Pollers, Begin(p)
  PROVE  IInv'
<1> DEFINE folders == [w \in Workspaces |-> source[w].folder]
           settled == {w \in Workspaces : source[w].registered}
           x == [Idle EXCEPT !.stage = "seed", !.token = cursor,
                             !.folders = folders, !.settled = settled,
                             !.owes = Connected(folders) \ settled]
<1>1. /\ poll' = [poll EXCEPT ![p] = x]
      /\ UNCHANGED <<drive, source, row, skips, cursor, expired, history, extra>>
      /\ \A q \in Pollers \ {p} : ~Active(q)
  BY DEF Begin, Free, Active
<1>2. /\ folders \in [Workspaces -> Folders \cup {NoFolder}]
      /\ settled \subseteq Workspaces
      /\ Connected(folders) \ settled \subseteq Workspaces
      /\ cursor \in Tokens
  BY DEF IInv, TypeOK, Connected
<1>3. /\ x \in Polls
      /\ x.stage = "seed" /\ x.token = cursor /\ x.next = NoToken
      /\ x.listing = NoOne /\ x.folders = folders /\ x.todo = Nothing
      /\ x.owes = Connected(folders) \ settled /\ x.settled = settled
  BY <1>2, IdleType DEF Idle, Polls
<1> HIDE DEF x
<1>4. poll'[p] = x
  BY <1>1 DEF IInv, TypeOK
<1>5. NoToken <= clock
  BY Numbers, DriveAssumption
  DEF IInv, TypeOK, NoToken, Positions, DriveAssumption
<1>6. Polling(p)'
  <2>1. settled \subseteq Connected(folders)
    BY DEF IInv, TypeOK, Connected
  <2> QED
    BY <1>1, <1>3, <1>4, <1>5, <2>1 DEF Polling, drive
<1>7. Seeding(p)'
  BY <1>3, <1>4 DEF Seeding, Nothing
<1>8. PollOK(p)'
  BY <1>3, <1>4, <1>6, <1>7, DriveAssumption DEF PollOK, DriveAssumption
<1> QED
  BY <1>1, <1>3, <1>4, <1>8, OnlyPoll DEF Active

LEMMA Differ == \A a, b : <<a, TRUE>> # <<b, FALSE>>
  BY SMT

\* What listDriveFolder returns.
LEMMA ListingSays ==
  ASSUME NEW folder
  PROVE  /\ Listing(folder) \subseteq Entries
         /\ \A f \in Files : /\ <<f, FALSE>> \in Listing(folder) <=> Kept(f, folder)
                             /\ <<f, TRUE>> \notin Listing(folder)
<1>1. ASSUME NEW e \in Listing(folder)
      PROVE  e \in Entries
  <2>1. PICK g \in Files : e = <<g, FALSE>>
    BY Zenon DEF Listing
  <2> QED
    BY <2>1 DEF Entries
<1>2. ASSUME NEW f \in Files
      PROVE  <<f, FALSE>> \in Listing(folder) <=> Kept(f, folder)
  <2>1. ASSUME NEW g, <<f, FALSE>> = <<g, FALSE>>
        PROVE  f = g
    BY <2>1, SMT
  <2> QED
    BY <2>1, Zenon DEF Listing
<1>3. ASSUME NEW f \in Files
      PROVE  <<f, TRUE>> \notin Listing(folder)
  BY Differ, Zenon DEF Listing
<1> QED
  BY <1>1, <1>2, <1>3

\* A poll under way: what the other lemmas need of it.
LEMMA UnderWay ==
  ASSUME IInv, NEW p \in Pollers, Active(p)
  PROVE  /\ PollOK(p) /\ Polling(p)
         /\ poll[p] \in Polls
         /\ \A q \in Pollers \ {p} : ~Active(q)
         /\ poll[p].token = cursor
         /\ poll[p].next \in Int /\ poll[p].at \in Int
         /\ poll[p].next <= clock
         /\ poll[p].next \in Tokens
         /\ poll[p].stage # "seed" => poll[p].next \in Positions
         /\ poll[p].folders \in [Workspaces -> Folders \cup {NoFolder}]
         /\ poll[p].todo \in [Workspaces -> SUBSET Entries]
<1>1. PollOK(p) /\ poll[p] \in Polls
  BY DEF IInv, TypeOK
<1>2. poll[p].next \in Int /\ poll[p].at \in Int
  BY <1>1, DriveAssumption
  DEF Polls, Tokens, Positions, NoToken, DriveAssumption
<1>3. poll[p].next # NoToken => poll[p].next \in Positions
  BY <1>1 DEF Polls, Tokens
<1> QED
  BY <1>1, <1>2, <1>3, Alone DEF IInv, PollOK, Polling, Polls

\* The listing is the folder as it is.
LEMMA ListStep ==
  ASSUME IInv, NEW p \in Pollers, NEW w \in Workspaces, List(p, w)
  PROVE  IInv'
<1> DEFINE here == Listing(poll[p].folders[w])
           x == [poll[p] EXCEPT !.listing = w, !.at = clock, !.todo[w] = here]
<1>1. /\ poll' = [poll EXCEPT ![p] = x]
      /\ UNCHANGED <<drive, source, row, skips, cursor, expired, history, extra>>
      /\ poll[p].stage \in {"seed", "reseed"} /\ w \in poll[p].owes
      /\ Active(p)
  BY DEF List, Active
<1>2. /\ PollOK(p) /\ Polling(p) /\ poll[p] \in Polls
      /\ \A q \in Pollers \ {p} : ~Active(q)
  BY <1>1, UnderWay
<1>3. /\ here \subseteq Entries
      /\ \A f \in Files : /\ <<f, FALSE>> \in here <=> Kept(f, poll[p].folders[w])
                          /\ <<f, TRUE>> \notin here
  BY ListingSays
<1> HIDE DEF here
<1>4. clock \in Positions
  BY DEF IInv, TypeOK
<1>5. /\ x \in Polls
      /\ x.stage = poll[p].stage /\ x.token = poll[p].token
      /\ x.next = poll[p].next /\ x.folders = poll[p].folders
      /\ x.owes = poll[p].owes /\ x.settled = poll[p].settled /\ x.listing = w /\ x.at = clock
      /\ x.todo[w] = here
      /\ \A v \in Workspaces \ {w} : x.todo[v] = poll[p].todo[v]
  BY <1>2, <1>3, <1>4 DEF Polls
<1> HIDE DEF x
<1>6. poll'[p] = x
  BY <1>1 DEF IInv, TypeOK
<1>7. Polling(p)'
  BY <1>1, <1>2, <1>5, <1>6 DEF Polling, drive, history
<1>8. Seeding(p)'
  <2>1. Seeding(p)
    BY <1>1, <1>2 DEF PollOK
  <2> QED
    BY <1>3, <1>5, <1>6, <2>1 DEF Seeding
<1>9. ListingOK(p, w)'
  <2>1. cursor <= clock /\ clock <= clock
    BY Numbers DEF IInv, Clocked
  <2>2. \A f \in Files : \A F : Kept(f, F)' <=> Kept(f, F)
    BY <1>1 DEF Kept, drive
  <2> QED
    BY <1>1, <1>3, <1>5, <1>6, <2>1, <2>2 DEF ListingOK, drive
<1>10. PollOK(p)'
  BY <1>1, <1>5, <1>6, <1>7, <1>8, <1>9 DEF PollOK
<1> QED
  BY <1>1, <1>2, <1>5, <1>6, <1>10, OnlyPoll DEF Active

LEMMA TakeFirstTokenStep ==
  ASSUME IInv, NEW p \in Pollers, TakeFirstToken(p)
  PROVE  IInv'
<1> DEFINE x == [poll[p] EXCEPT !.stage = "save", !.next = clock]
<1>1. /\ poll' = [poll EXCEPT ![p] = x]
      /\ UNCHANGED <<drive, source, row, skips, cursor, expired, history, extra>>
      /\ poll[p].stage = "seed" /\ poll[p].owes = {}
      /\ Active(p)
  BY DEF TakeFirstToken, Seeded, Active
<1>2. /\ PollOK(p) /\ Polling(p) /\ poll[p] \in Polls
      /\ \A q \in Pollers \ {p} : ~Active(q)
  BY <1>1, UnderWay
<1>3. clock \in Tokens /\ clock <= clock /\ clock # NoToken
  BY Numbers DEF IInv, TypeOK
<1>4. /\ x \in Polls
      /\ x.stage = "save" /\ x.token = poll[p].token /\ x.next = clock
      /\ x.folders = poll[p].folders /\ x.owes = {} /\ x.settled = poll[p].settled
      /\ x.listing = NoOne
  BY <1>1, <1>2, <1>3 DEF Polls, Polling
<1> HIDE DEF x
<1>5. poll'[p] = x
  BY <1>1 DEF IInv, TypeOK
<1>6. Polling(p)'
  BY <1>1, <1>2, <1>3, <1>4, <1>5 DEF Polling, drive, history
<1>7. PollOK(p)'
  BY <1>4, <1>5, <1>6 DEF PollOK
<1> QED
  BY <1>1, <1>2, <1>4, <1>5, <1>7, OnlyPoll DEF Active

\* A fresh cursor for an expired one: the listings come after it.
LEMMA StartOverStep ==
  ASSUME IInv, NEW p \in Pollers, StartOver(p)
  PROVE  IInv'
<1> DEFINE x == [poll[p] EXCEPT !.stage = "reseed", !.next = clock,
                                !.owes = poll[p].settled]
<1>1. /\ poll' = [poll EXCEPT ![p] = x]
      /\ UNCHANGED <<drive, source, row, skips, cursor, expired, history, extra>>
      /\ poll[p].stage = "seed" /\ poll[p].owes = {}
      /\ Active(p)
  BY DEF StartOver, Seeded, Active
<1>2. /\ PollOK(p) /\ Polling(p) /\ poll[p] \in Polls
      /\ \A q \in Pollers \ {p} : ~Active(q)
  BY <1>1, UnderWay
<1>3. clock \in Tokens /\ clock <= clock /\ clock # NoToken
  BY Numbers DEF IInv, TypeOK
<1>4. /\ x \in Polls
      /\ x.stage = "reseed" /\ x.token = poll[p].token /\ x.next = clock
      /\ x.folders = poll[p].folders /\ x.listing = NoOne
      /\ x.owes = poll[p].settled /\ x.settled = poll[p].settled
      /\ x.todo = poll[p].todo
  BY <1>1, <1>2, <1>3 DEF Polls, Polling
<1> HIDE DEF x
<1>5. poll'[p] = x
  BY <1>1 DEF IInv, TypeOK
<1>6. Polling(p)'
  BY <1>1, <1>2, <1>3, <1>4, <1>5 DEF Polling, drive, history
<1>7. Seeding(p)'
  BY <1>1, <1>2, <1>4, <1>5 DEF PollOK, Seeding
<1>8. PollOK(p)'
  BY <1>4, <1>5, <1>6, <1>7, DriveAssumption DEF PollOK, DriveAssumption
<1> QED
  BY <1>1, <1>2, <1>4, <1>5, <1>8, OnlyPoll DEF Active

\* What planRegistrations makes of the changes it is given.
LEMMA PlanSays ==
  ASSUME TypeOK, NEW since \in Int,
         NEW folders \in [Workspaces -> Folders \cup {NoFolder}]
  PROVE  LET plan == Plan(since, folders)
         IN  /\ DOMAIN plan = Connected(folders)
             /\ \A w \in Connected(folders) :
                  /\ plan[w] \subseteq Entries
                  /\ \A f \in Files :
                       /\ <<f, FALSE>> \in plan[w] => Kept(f, folders[w])
                       /\ <<f, TRUE>> \in plan[w] => ~Kept(f, folders[w])
                       /\ since < changedAt[f] =>
                            /\ Kept(f, folders[w]) => <<f, FALSE>> \in plan[w]
                            /\ place[f] = Away => <<f, TRUE>> \in plan[w]
<1> DEFINE plan == Plan(since, folders)
<1>1. DOMAIN plan = Connected(folders)
  BY DEF Plan
<1>2. ASSUME NEW w \in Connected(folders)
      PROVE  /\ plan[w] \subseteq Entries
             /\ \A f \in Files :
                  /\ <<f, FALSE>> \in plan[w] => Kept(f, folders[w])
                  /\ <<f, TRUE>> \in plan[w] => ~Kept(f, folders[w])
                  /\ since < changedAt[f] =>
                       /\ Kept(f, folders[w]) => <<f, FALSE>> \in plan[w]
                       /\ place[f] = Away => <<f, TRUE>> \in plan[w]
  <2> DEFINE Unheld(f) == \A v \in Connected(folders), hidden \in BOOLEAN :
                            place[f] # <<folders[v], hidden>>
  <2>1. /\ plan[w] \subseteq Entries
        /\ \A f \in Files, removed \in BOOLEAN :
             <<f, removed>> \in plan[w] <=>
               /\ changedAt[f] > since
               /\ place[f] = <<folders[w], removed>> \/ (Unheld(f) /\ removed)
    BY DEF Plan, Entries
  <2>2. ASSUME NEW f \in Files, place[f] = Away
        PROVE  Unheld(f)
    BY <2>2, DriveAssumption DEF Connected, DriveAssumption
  <2>3. ASSUME NEW f \in Files, Kept(f, folders[w])
        PROVE  ~Unheld(f) /\ place[f] # <<folders[w], TRUE>>
    <3>1. place[f] = <<folders[w], FALSE>>
      BY <2>3 DEF Kept
    <3>2. place[f] # <<folders[w], TRUE>>
      BY <3>1, Differ
    <3>3. ~Unheld(f)
      BY <1>2, <3>1, Zenon
    <3> QED
      BY <3>2, <3>3
  <2> HIDE DEF Unheld, plan
  <2>4. ASSUME NEW f \in Files
        PROVE  /\ <<f, FALSE>> \in plan[w] => Kept(f, folders[w])
               /\ <<f, TRUE>> \in plan[w] => ~Kept(f, folders[w])
    BY <2>1, <2>3 DEF Kept
  <2>5. ASSUME NEW f \in Files, since < changedAt[f]
        PROVE  /\ Kept(f, folders[w]) => <<f, FALSE>> \in plan[w]
               /\ place[f] = Away => <<f, TRUE>> \in plan[w]
    <3>1. changedAt[f] > since
      BY <2>5, Numbers
    <3> QED
      BY <2>1, <2>2, <3>1 DEF Kept
  <2> QED
    BY <2>1, <2>4, <2>5
<1> QED
  BY <1>1, <1>2

LEMMA ReadChangesStep ==
  ASSUME IInv, NEW p \in Pollers, ReadChanges(p)
  PROVE  IInv'
<1> DEFINE folders == poll[p].folders
           plan == Plan(poll[p].token, folders)
           shares == [w \in Workspaces |->
                        IF w \in DOMAIN plan THEN plan[w] ELSE {}]
           x == [poll[p] EXCEPT !.stage = "register", !.next = clock,
                                !.todo = shares]
<1>1. /\ poll' = [poll EXCEPT ![p] = x]
      /\ UNCHANGED <<drive, source, row, skips, cursor, expired, history, extra>>
      /\ poll[p].stage = "seed" /\ poll[p].owes = {}
      /\ Active(p)
  BY DEF ReadChanges, Seeded, Active
<1>2. /\ PollOK(p) /\ Polling(p) /\ poll[p] \in Polls
      /\ \A q \in Pollers \ {p} : ~Active(q)
      /\ poll[p].token = cursor
      /\ folders \in [Workspaces -> Folders \cup {NoFolder}]
  BY <1>1, UnderWay
<1>3. /\ clock \in Tokens /\ clock <= clock /\ clock # NoToken
      /\ cursor <= clock /\ cursor \in Int
  BY Numbers DEF IInv, TypeOK, Clocked
<1>4. /\ DOMAIN plan = Connected(folders)
      /\ \A w \in Connected(folders) :
           /\ plan[w] \subseteq Entries
           /\ \A f \in Files :
                /\ <<f, FALSE>> \in plan[w] => Kept(f, folders[w])
                /\ <<f, TRUE>> \in plan[w] => ~Kept(f, folders[w])
                /\ cursor < changedAt[f] =>
                     /\ Kept(f, folders[w]) => <<f, FALSE>> \in plan[w]
                     /\ place[f] = Away => <<f, TRUE>> \in plan[w]
  <2>1. TypeOK /\ poll[p].token \in Int
    BY <1>2, <1>3 DEF IInv
  <2> HIDE DEF folders
  <2> QED
    BY <1>2, <2>1, PlanSays
<1> HIDE DEF plan
<1>5. shares \in [Workspaces -> SUBSET Entries]
  BY <1>4
<1>6. /\ x \in Polls
      /\ x.stage = "register" /\ x.token = poll[p].token /\ x.next = clock
      /\ x.folders = folders /\ x.owes = {} /\ x.settled = poll[p].settled
      /\ x.listing = NoOne
      /\ x.todo = shares
  BY <1>1, <1>2, <1>3, <1>5 DEF Polls, Polling
<1> HIDE DEF x
<1>7. poll'[p] = x
  BY <1>1 DEF IInv, TypeOK
<1>8. Polling(p)'
  BY <1>1, <1>2, <1>3, <1>6, <1>7 DEF Polling, drive, history
<1>9. ASSUME NEW w \in Workspaces
      PROVE  PlanOK(p, w)'
  <2>1. listed'[w].at <= poll'[p].next
    BY <1>1, <1>6, <1>7 DEF IInv, Clocked, history
  <2>2. \A f \in Files : \A F : Kept(f, F)' <=> Kept(f, F)
    BY <1>1 DEF Kept, drive
  <2>3. shares[w] = IF folders[w] # NoFolder THEN plan[w] ELSE {}
    BY <1>4 DEF Connected
  <2>4. folders[w] # NoFolder => w \in Connected(folders)
    BY DEF Connected
  <2> HIDE DEF shares
  <2> QED
    BY <1>1, <1>4, <1>6, <1>7, <2>1, <2>2, <2>3, <2>4 DEF PlanOK, drive
<1>10. PollOK(p)'
  <2>1. cursor' <= poll'[p].next
    BY <1>1, <1>3, <1>6, <1>7
  <2> QED
    BY <1>6, <1>7, <1>8, <1>9, <2>1 DEF PollOK
<1> QED
  BY <1>1, <1>2, <1>6, <1>7, <1>10, OnlyPoll DEF Active

-----------------------------------------------------------------------------
(* How a poll ends.                                                         *)

\* It leaves the cursor where it was.
LEMMA GiveUp ==
  ASSUME IInv, NEW p \in Pollers, Active(p),
         cursor' = poll[p].token,
         poll' = [poll EXCEPT ![p] = Ended(FALSE)],
         UNCHANGED <<drive, source, row, skips, expired, history>>,
         extra' \in 0 .. MaxExtra
  PROVE  IInv'
<1>1. /\ \A q \in Pollers \ {p} : ~Active(q)
      /\ cursor' = cursor
  BY UnderWay
<1>2. TypeOK'
  BY <1>1, Move, IdleType DEF Ended, IInv, TypeOK, drive, history
<1>3. Clocked'
  BY <1>1 DEF IInv, Clocked, drive, history
<1>4. \A q \in Pollers : ~Active(q)' /\ poll'[q] = Idle
  BY <1>1, Move, IdleType DEF Ended, IInv, Active
<1>5. NothingPassedOver' /\ GoneIsWithdrawn'
  BY <1>1 DEF IInv, NothingPassedOver, GoneIsWithdrawn, Told, Kept, drive, history
<1> QED
  BY <1>2, <1>3, <1>4, <1>5 DEF IInv

LEMMA RefusedStep ==
  ASSUME IInv, NEW p \in Pollers, NEW w \in Workspaces, Refused(p, w)
  PROVE  IInv'
<1>1. Active(p)
  BY IdleType, DriveAssumption DEF IInv, Refused, Idle, Active, DriveAssumption
<1>2. extra' \in 0 .. MaxExtra
  BY DEF Refused, IInv, TypeOK
<1> QED
  BY <1>1, <1>2, GiveUp DEF Refused

LEMMA FailStep ==
  ASSUME IInv, NEW p \in Pollers, Fail(p)
  PROVE  IInv'
<1>1. Active(p)
  BY DEF Fail, Active
<1>2. extra' \in 0 .. MaxExtra
  BY DriveAssumption DEF Fail, Extra, IInv, TypeOK, DriveAssumption
<1> QED
  BY <1>1, <1>2, GiveUp DEF Fail

\* The cursor passes what was read: nothing of it is left to be done.
LEMMA SaveStep ==
  ASSUME IInv, NEW p \in Pollers, Save(p)
  PROVE  IInv'
<1>1. /\ Active(p) /\ Done(p)
      /\ poll[p].stage \in {"save", "register", "reseed"}
      /\ UNCHANGED <<drive, source, row, skips, listed, extra>>
      /\ cursor' = poll[p].next /\ expired' = FALSE
      /\ began' = IF poll[p].stage = "register" THEN began ELSE poll[p].next
      /\ deaf' = [w \in Workspaces |-> IF poll[p].folders[w] = NoFolder
                                      THEN poll[p].next ELSE deaf[w]]
      /\ poll' = [poll EXCEPT ![p] = Idle]
  BY DEF Save, Done, Active, Ended
<1>2. /\ PollOK(p)
      /\ \A q \in Pollers \ {p} : ~Active(q)
      /\ poll[p].next \in Int /\ poll[p].next <= clock
      /\ poll[p].next \in Tokens /\ poll[p].next \in Positions
  BY <1>1, UnderWay
<1>3. TypeOK'
  <2>1. began' \in Positions /\ deaf' \in [Workspaces -> Positions]
    BY <1>1, <1>2 DEF IInv, TypeOK
  <2> QED
    BY <1>1, <1>2, <2>1, Move, IdleType DEF IInv, TypeOK, drive
<1>4. Clocked'
  BY <1>1, <1>2 DEF IInv, Clocked, drive
<1>5. \A q \in Pollers : ~Active(q)' /\ poll'[q] = Idle
  BY <1>1, <1>2, Move, IdleType DEF IInv, Active
<1>6. CASE poll[p].stage # "register"
  <2>1. \A f \in Files : ~Told(f)'
    BY <1>1, <1>2, <1>6, Numbers DEF Told, IInv, drive
  <2>2. NothingPassedOver'
    BY <1>1, <2>1 DEF IInv, NothingPassedOver, Kept, drive
  <2>3. GoneIsWithdrawn'
    BY <2>1 DEF GoneIsWithdrawn
  <2> QED
    BY <1>3, <1>4, <1>5, <2>2, <2>3 DEF IInv
<1>7. CASE poll[p].stage = "register"
  <2>1. /\ \A w \in Workspaces : PlanOK(p, w) /\ poll[p].todo[w] = {}
        /\ cursor <= poll[p].next /\ began' = began
    BY <1>1, <1>2, <1>7 DEF PollOK, Done, Nothing
  <2>2. \A f \in Files : Told(f)' =>
          Told(f) \/ (cursor < changedAt[f] /\ changedAt[f] <= poll[p].next)
    BY <1>1, <1>2, <2>1, Numbers DEF Told, IInv, drive
  <2>3. ASSUME NEW w \in Workspaces, NEW f \in Files,
               source[w].registered, listed[w].folder = source[w].folder,
               Kept(f, source[w].folder),
               cursor < changedAt[f], changedAt[f] <= poll[p].next
        PROVE  row[w][f] # "none"
    <3>1. /\ poll[p].folders[w] = source[w].folder
          /\ source[w].folder # NoFolder
      BY <1>2, <2>3 DEF PollOK, Polling, IInv, TypeOK
    <3> QED
      BY <2>1, <2>3, <3>1 DEF PlanOK
  <2>4. NothingPassedOver'
    BY <1>1, <2>2, <2>3 DEF IInv, NothingPassedOver, Kept, drive
  <2>5. ASSUME NEW w \in Workspaces, NEW f \in Files,
               place[f] = Away, changedAt[f] > deaf'[w],
               cursor < changedAt[f], changedAt[f] <= poll[p].next
        PROVE  row[w][f] # "new"
    <3>1. poll[p].folders[w] # NoFolder
      BY <1>1, <1>2, <2>5, Numbers DEF IInv
    <3> QED
      BY <2>1, <2>5, <3>1 DEF PlanOK
  <2>6. ASSUME NEW w \in Workspaces, NEW f \in Files,
               Told(f), changedAt[f] > deaf'[w]
        PROVE  changedAt[f] > deaf[w]
    BY <1>1, <1>2, <2>1, <2>6, Numbers DEF Told, IInv
  <2>7. GoneIsWithdrawn'
    BY <1>1, <2>2, <2>5, <2>6 DEF IInv, GoneIsWithdrawn, drive
  <2> QED
    BY <1>3, <1>4, <1>5, <2>4, <2>7 DEF IInv
<1> QED
  BY <1>6, <1>7

-----------------------------------------------------------------------------
(* What a poll registers.                                                   *)

\* What register_drive_files makes of one workspace's rows.
LEMMA Registers ==
  ASSUME TypeOK, NEW w \in Workspaces, NEW part \in SUBSET Entries,
         Register(w, part)
  PROVE  /\ row' \in [Workspaces -> [Files -> Statuses]]
         /\ skips' \subseteq [of : Workspaces, file : Files, existed : BOOLEAN]
         /\ \A s \in skips' : s.existed => row'[s.of][s.file] # "none"
         /\ \A v \in Workspaces \ {w} : row'[v] = row[v]
         /\ \A f \in Files :
              /\ <<f, TRUE>> \in part => row'[w][f] \in {"none", "imported"}
              /\ <<f, FALSE>> \in part /\ <<f, TRUE>> \notin part
                 => row'[w][f] \in {"new", "skipped", "imported"}
              /\ <<f, FALSE>> \notin part /\ <<f, TRUE>> \notin part
                 => row'[w][f] = row[w][f]
              /\ row[w][f] = "imported" => row'[w][f] = "imported"
<1>1. /\ \A f \in Files :
           row'[w][f] = IF <<f, TRUE>> \in part \/ <<f, FALSE>> \in part
                        THEN Registered(row[w][f], <<f, TRUE>> \in part)
                        ELSE row[w][f]
      /\ \A v \in Workspaces \ {w} : row'[v] = row[v]
      /\ row' = [row EXCEPT ![w] = [f \in Files |-> row'[w][f]]]
      /\ skips' = {s \in skips : s.existed => row'[s.of][s.file] # "none"}
  BY DEF Register, TypeOK
<1>2. ASSUME NEW f \in Files
      PROVE  /\ <<f, TRUE>> \in part => row'[w][f] \in {"none", "imported"}
             /\ <<f, FALSE>> \in part /\ <<f, TRUE>> \notin part
                => row'[w][f] \in {"new", "skipped", "imported"}
             /\ <<f, FALSE>> \notin part /\ <<f, TRUE>> \notin part
                => row'[w][f] = row[w][f]
             /\ row[w][f] = "imported" => row'[w][f] = "imported"
             /\ row'[w][f] \in Statuses
  <2>1. row[w][f] \in Statuses
    BY DEF TypeOK
  <2>2. CASE <<f, TRUE>> \in part
    <3>1. row'[w][f] = IF row[w][f] = "imported" THEN "imported" ELSE "none"
      BY <1>1, <2>2 DEF Registered
    <3> QED
      BY <2>2, <3>1 DEF Statuses
  <2>3. CASE <<f, TRUE>> \notin part /\ <<f, FALSE>> \in part
    <3>1. row'[w][f] = IF row[w][f] \in {"skipped", "imported"}
                       THEN row[w][f] ELSE "new"
      BY <1>1, <2>3 DEF Registered
    <3> QED
      BY <2>3, <3>1 DEF Statuses
  <2>4. CASE <<f, TRUE>> \notin part /\ <<f, FALSE>> \notin part
    BY <1>1, <2>1, <2>4
  <2> QED
    BY <2>2, <2>3, <2>4
<1>3. [f \in Files |-> row'[w][f]] \in [Files -> Statuses]
  BY <1>2
<1>4. row' \in [Workspaces -> [Files -> Statuses]]
  BY <1>1, <1>3 DEF TypeOK
<1> QED
  BY <1>1, <1>2, <1>4 DEF TypeOK

\* A file away is in no connected folder.
LEMMA AwayIsNotKept ==
  ASSUME TypeOK, NEW f \in Files, NEW folder \in Folders, place[f] = Away
  PROVE  ~Kept(f, folder)
<1>1. <<folder, FALSE>> \in Folders \X BOOLEAN
  OBVIOUS
<1> QED
  BY <1>1, DriveAssumption DEF Kept, DriveAssumption

LEMMA RegisterListingStep ==
  ASSUME IInv, NEW p \in Pollers, NEW w \in Workspaces, RegisterListing(p, w)
  PROVE  IInv'
<1>1. PICK part \in Slices(poll[p].todo[w]) :
        /\ Register(w, part)
        /\ poll' = [poll EXCEPT
             ![p].todo[w] = @ \ part,
             ![p].listing = IF part = poll[p].todo[w] THEN NoOne ELSE @,
             ![p].owes = IF part = poll[p].todo[w] THEN @ \ {w} ELSE @]
        /\ IF Marks(part, poll[p].todo[w])
           THEN /\ source' = [source EXCEPT ![w].registered = TRUE]
                /\ listed' = [listed EXCEPT ![w] =
                     [folder |-> poll[p].folders[w], at |-> poll[p].at]]
           ELSE UNCHANGED <<source, listed>>
  BY DEF RegisterListing
<1>2. /\ poll[p].listing = w /\ source[w].folder # NoFolder
      /\ UNCHANGED <<drive, cursor, expired, began, deaf, extra>>
  BY DEF RegisterListing
<1> DEFINE last == part = poll[p].todo[w]
           x == [poll[p] EXCEPT
                  !.todo[w] = @ \ part,
                  !.listing = IF last THEN NoOne ELSE @,
                  !.owes = IF last THEN @ \ {w} ELSE @]
<1>3. Active(p)
  BY <1>2, IdleType, DriveAssumption DEF IInv, Idle, Active, DriveAssumption
<1>4. /\ PollOK(p) /\ Polling(p) /\ poll[p] \in Polls
      /\ \A q \in Pollers \ {p} : ~Active(q)
      /\ poll[p].at \in Int
      /\ poll[p].todo \in [Workspaces -> SUBSET Entries]
      /\ poll[p].folders \in [Workspaces -> Folders \cup {NoFolder}]
  BY <1>3, UnderWay
<1>5. /\ poll[p].stage \in {"seed", "reseed"}
      /\ Seeding(p) /\ ListingOK(p, w)
      /\ w \in poll[p].owes /\ poll[p].folders[w] \in Folders
  BY <1>2, <1>4, DriveAssumption
  DEF PollOK, Polling, Connected, DriveAssumption
<1>6. part \in SUBSET poll[p].todo[w] /\ part \in SUBSET Entries
  BY <1>4 DEF Slices
<1>7. /\ poll' = [poll EXCEPT ![p] = x]
      /\ x \in Polls
      /\ x.stage = poll[p].stage /\ x.token = poll[p].token
      /\ x.next = poll[p].next /\ x.at = poll[p].at
      /\ x.folders = poll[p].folders /\ x.settled = poll[p].settled
      /\ x.listing = IF last THEN NoOne ELSE w
      /\ x.owes = IF last THEN poll[p].owes \ {w} ELSE poll[p].owes
      /\ x.todo[w] = poll[p].todo[w] \ part
      /\ \A v \in Workspaces \ {w} : x.todo[v] = poll[p].todo[v]
  <2>1. poll' = [poll EXCEPT ![p] = x]
    BY <1>1
  <2>2. part \in SUBSET poll[p].todo[w] /\ poll[p].listing = w
    BY <1>2, <1>6
  <2> QED
    BY <1>4, <2>1, <2>2 DEF Polls
<1> HIDE DEF x
<1>8. poll'[p] = x
  BY <1>7 DEF IInv, TypeOK
\* The listing offers; it takes nothing away.
<1>9. ASSUME NEW v \in Workspaces, NEW f \in Files
      PROVE  /\ row[v][f] # "none" => row'[v][f] # "none"
             /\ v = w /\ <<f, FALSE>> \in part => row'[v][f] # "none"
             /\ ~(v = w /\ <<f, FALSE>> \in part) => row'[v][f] = row[v][f]
  <2>1. <<f, TRUE>> \notin part
    BY <1>5, <1>6 DEF Seeding
  <2>2. /\ TypeOK /\ part \in SUBSET Entries /\ Register(w, part)
    BY <1>1, <1>6 DEF IInv
  <2>3. CASE v # w
    BY <2>3, <2>2, Registers
  <2>4. CASE v = w
    <3>1. /\ <<f, FALSE>> \in part => row'[w][f] \in {"new", "skipped", "imported"}
          /\ <<f, FALSE>> \notin part => row'[w][f] = row[w][f]
      BY <2>1, <2>2, Registers
    <3> QED
      BY <2>4, <3>1
  <2> QED
    BY <2>3, <2>4
<1>10. IF last
       THEN /\ source' = [source EXCEPT ![w].registered = TRUE]
            /\ listed' = [listed EXCEPT ![w] =
                 [folder |-> poll[p].folders[w], at |-> poll[p].at]]
       ELSE UNCHANGED <<source, listed>>
  BY <1>1 DEF Marks
<1>11. /\ \A v \in Workspaces :
            /\ source'[v].folder = source[v].folder
            /\ ~(v = w /\ last) => source'[v] = source[v] /\ listed'[v] = listed[v]
       /\ last => /\ listed'[w].folder = poll[p].folders[w]
                  /\ listed'[w].at = poll[p].at
  <2>1. CASE last
    BY <1>10, <2>1 DEF IInv, TypeOK
  <2>2. CASE ~last
    BY <1>10, <2>2
  <2> QED
    BY <2>1, <2>2
<1>12. TypeOK'
  <2>1. poll[p].at \in Positions
    BY <1>4 DEF Polls
  <2>2. /\ source' \in [Workspaces ->
             [folder : Folders \cup {NoFolder}, registered : BOOLEAN]]
        /\ \A v \in Workspaces :
             source'[v].registered => source'[v].folder # NoFolder
    <3>1. CASE last
      <4> DEFINE marked == [source[w] EXCEPT !.registered = TRUE]
      <4>1. source' = [source EXCEPT ![w] = marked]
        BY <1>10, <3>1
      <4>2. /\ marked \in [folder : Folders \cup {NoFolder}, registered : BOOLEAN]
            /\ marked.folder # NoFolder
        <5>1. /\ source[w] \in [folder : Folders \cup {NoFolder}, registered : BOOLEAN]
              /\ source[w].folder # NoFolder
          BY <1>2 DEF IInv, TypeOK
        <5> QED
          BY <5>1
      <4> HIDE DEF marked
      <4>3. \A v \in Workspaces :
              source'[v] = IF v = w THEN marked ELSE source[v]
        BY <4>1 DEF IInv, TypeOK
      <4>4. source' = [v \in Workspaces |-> IF v = w THEN marked ELSE source[v]]
        BY <4>1 DEF IInv, TypeOK
      <4> QED
        BY <4>2, <4>3, <4>4 DEF IInv, TypeOK
    <3>2. CASE ~last
      BY <1>10, <3>2 DEF IInv, TypeOK
    <3> QED
      BY <3>1, <3>2
  <2>3. listed' \in [Workspaces ->
          [folder : Folders \cup {NoFolder}, at : Positions]]
    <3>1. CASE last
      <4> DEFINE entry == [folder |-> poll[p].folders[w], at |-> poll[p].at]
      <4>1. entry \in [folder : Folders \cup {NoFolder}, at : Positions]
        BY <1>5, <2>1
      <4>2. listed' = [listed EXCEPT ![w] = entry]
        BY <1>10, <3>1
      <4> HIDE DEF entry
      <4> QED
        BY <4>1, <4>2 DEF IInv, TypeOK
    <3>2. CASE ~last
      BY <1>10, <3>2 DEF IInv, TypeOK
    <3> QED
      BY <3>1, <3>2
  <2>4. /\ row' \in [Workspaces -> [Files -> Statuses]]
        /\ skips' \subseteq [of : Workspaces, file : Files, existed : BOOLEAN]
        /\ \A s \in skips' : s.existed => row'[s.of][s.file] # "none"
    BY <1>1, <1>6, Registers DEF IInv
  <2>5. /\ poll' \in [Pollers -> Polls]
        /\ \A a, b \in Pollers :
             poll'[a].stage = "idle" \/ poll'[b].stage = "idle" \/ a = b
    BY <1>4, <1>7, Move DEF IInv
  <2> QED
    BY <1>2, <2>2, <2>3, <2>4, <2>5 DEF IInv, TypeOK, drive
<1>13. Clocked'
  BY <1>2, <1>5, <1>11 DEF IInv, Clocked, ListingOK, drive
<1>14. PollOK(p)'
  <2>1. Polling(p)'
    BY <1>2, <1>4, <1>7, <1>8, <1>11 DEF Polling, Connected, drive
  <2>2. Seeding(p)'
    BY <1>5, <1>7, <1>8 DEF Seeding
  <2>3. ASSUME ~last
        PROVE  ListingOK(p, w)'
    <3>1. \A f \in Files : \A F : Kept(f, F)' <=> Kept(f, F)
      BY <1>2 DEF Kept, drive
    <3>2. \A f \in Files :
            /\ <<f, FALSE>> \in poll'[p].todo[w]
               <=> <<f, FALSE>> \in poll[p].todo[w] /\ <<f, FALSE>> \notin part
            /\ row[w][f] # "none" \/ <<f, FALSE>> \in part => row'[w][f] # "none"
      BY <1>7, <1>8, <1>9
    <3>3. /\ poll'[p].at = poll[p].at /\ poll'[p].folders = poll[p].folders
          /\ UNCHANGED <<changedAt, clock, cursor>>
      BY <1>2, <1>7, <1>8 DEF drive
    <3> QED
      BY <1>5, <3>1, <3>2, <3>3 DEF ListingOK
  <2>4. ASSUME NEW v \in Workspaces, poll'[p].listing = v
        PROVE  v = w /\ ~last
    BY <1>7, <1>8, <2>4, DriveAssumption DEF DriveAssumption
  <2> QED
    BY <1>5, <1>7, <1>8, <2>1, <2>2, <2>3, <2>4 DEF PollOK
<1>15. NothingPassedOver'
  <2> SUFFICES ASSUME NEW v \in Workspaces, NEW f \in Files,
                      source'[v].registered,
                      listed'[v].folder = source[v].folder,
                      Kept(f, source[v].folder),
                      changedAt[f] <= listed'[v].at \/ Told(f)
               PROVE  row'[v][f] # "none"
    <3>1. \A f \in Files : /\ Told(f)' <=> Told(f)
                           /\ \A F : Kept(f, F)' <=> Kept(f, F)
      BY <1>2 DEF Kept, Told, drive
    <3> QED
      BY <1>2, <1>11, <3>1 DEF NothingPassedOver, drive
  <2>1. CASE ~(v = w /\ last)
    <3>1. source'[v] = source[v] /\ listed'[v] = listed[v]
      BY <1>11, <2>1
    <3>2. row[v][f] # "none"
      BY <3>1 DEF IInv, NothingPassedOver
    <3> QED
      BY <1>9, <3>2
  <2>2. CASE v = w /\ last
    <3>1. changedAt[f] <= poll[p].at
      BY <1>4, <1>5, <1>11, <2>2, Numbers DEF IInv, ListingOK, Told
    <3>2. Kept(f, poll[p].folders[w])
      BY <1>11, <2>2
    <3> QED
      BY <1>5, <1>9, <2>2, <3>1, <3>2 DEF ListingOK
  <2> QED
    BY <2>1, <2>2
<1>16. GoneIsWithdrawn'
  <2> SUFFICES ASSUME NEW v \in Workspaces, NEW f \in Files,
                      place[f] = Away, Told(f), changedAt[f] > deaf[v]
               PROVE  row'[v][f] # "new"
    BY <1>2 DEF GoneIsWithdrawn, Told, drive
  <2>1. ~(v = w /\ <<f, FALSE>> \in part)
    <3> SUFFICES ASSUME v = w, <<f, FALSE>> \in part PROVE FALSE
      OBVIOUS
    <3>1. changedAt[f] <= poll[p].at
      BY <1>4, <1>5, Numbers DEF IInv, ListingOK, Told
    <3> QED
      BY <1>5, <1>6, <3>1, AwayIsNotKept DEF IInv, ListingOK
  <2> QED
    BY <1>9, <2>1 DEF IInv, GoneIsWithdrawn
<1>17. \A q \in Pollers : IF Active(q)' THEN PollOK(q)' ELSE poll'[q] = Idle
  BY <1>3, <1>4, <1>7, <1>8, <1>14, Move DEF IInv, Active
<1> QED
  BY <1>12, <1>13, <1>15, <1>16, <1>17 DEF IInv

LEMMA RegisterChangesStep ==
  ASSUME IInv, NEW p \in Pollers, NEW w \in Workspaces, RegisterChanges(p, w)
  PROVE  IInv'
<1>1. PICK part \in Slices(poll[p].todo[w]) :
        /\ Register(w, part)
        /\ poll' = [poll EXCEPT ![p].todo[w] = @ \ part]
  BY DEF RegisterChanges
<1>2. /\ poll[p].stage = "register" /\ poll[p].todo[w] # {}
      /\ UNCHANGED <<drive, source, cursor, expired, history, extra>>
      /\ Active(p)
  BY DEF RegisterChanges, Active
<1> DEFINE x == [poll[p] EXCEPT !.todo[w] = @ \ part]
<1>3. /\ PollOK(p) /\ Polling(p) /\ poll[p] \in Polls
      /\ \A q \in Pollers \ {p} : ~Active(q)
      /\ poll[p].next \in Int
      /\ poll[p].todo \in [Workspaces -> SUBSET Entries]
      /\ poll[p].folders \in [Workspaces -> Folders \cup {NoFolder}]
  BY <1>2, UnderWay
<1>4. /\ PlanOK(p, w) /\ cursor <= poll[p].next
      /\ poll[p].folders[w] \in Folders
  BY <1>2, <1>3 DEF PollOK, PlanOK
<1>5. part \in SUBSET poll[p].todo[w] /\ part \in SUBSET Entries
  BY <1>3 DEF Slices
<1>6. /\ poll' = [poll EXCEPT ![p] = x]
      /\ x \in Polls
      /\ x.stage = "register" /\ x.token = poll[p].token
      /\ x.next = poll[p].next /\ x.owes = poll[p].owes
      /\ x.folders = poll[p].folders /\ x.settled = poll[p].settled
      /\ x.listing = poll[p].listing
      /\ x.todo[w] = poll[p].todo[w] \ part
      /\ \A v \in Workspaces \ {w} : x.todo[v] = poll[p].todo[v]
  BY <1>1, <1>2, <1>3 DEF Polls
<1> HIDE DEF x
<1>7. poll'[p] = x
  BY <1>6 DEF IInv, TypeOK
<1>8. \A f \in Files : /\ Told(f)' <=> Told(f)
                       /\ \A F : Kept(f, F)' <=> Kept(f, F)
  BY <1>2 DEF Kept, Told, drive, history
\* Of a file that has not changed since the changes were read.
<1>9. ASSUME NEW f \in Files, changedAt[f] <= poll[p].next
      PROVE  /\ <<f, FALSE>> \in part => Kept(f, poll[p].folders[w])
             /\ <<f, TRUE>> \in part => ~Kept(f, poll[p].folders[w])
             /\ place[f] = Away => ~Kept(f, poll[p].folders[w])
  BY <1>4, <1>5, <1>9, AwayIsNotKept DEF PlanOK, IInv
<1>10. ASSUME NEW f \in Files, changedAt[f] <= poll[p].next
       PROVE  /\ Kept(f, poll[p].folders[w]) =>
                   /\ row[w][f] # "none" => row'[w][f] # "none"
                   /\ <<f, FALSE>> \in part => row'[w][f] # "none"
              /\ place[f] = Away =>
                   /\ row[w][f] # "new" => row'[w][f] # "new"
                   /\ <<f, TRUE>> \in part => row'[w][f] # "new"
  <2>1. /\ <<f, TRUE>> \in part => row'[w][f] \in {"none", "imported"}
        /\ <<f, FALSE>> \in part /\ <<f, TRUE>> \notin part
           => row'[w][f] \in {"new", "skipped", "imported"}
        /\ <<f, FALSE>> \notin part /\ <<f, TRUE>> \notin part
           => row'[w][f] = row[w][f]
    BY <1>1, <1>5, Registers DEF IInv
  <2> QED
    BY <1>9, <1>10, <2>1
<1>11. \A v \in Workspaces \ {w} : row'[v] = row[v]
  BY <1>1, <1>5, Registers DEF IInv
<1>12. TypeOK'
  <2>1. /\ row' \in [Workspaces -> [Files -> Statuses]]
        /\ skips' \subseteq [of : Workspaces, file : Files, existed : BOOLEAN]
        /\ \A s \in skips' : s.existed => row'[s.of][s.file] # "none"
    BY <1>1, <1>5, Registers DEF IInv
  <2>2. /\ poll' \in [Pollers -> Polls]
        /\ \A a, b \in Pollers :
             poll'[a].stage = "idle" \/ poll'[b].stage = "idle" \/ a = b
    BY <1>3, <1>6, Move DEF IInv
  <2> QED
    BY <1>2, <2>1, <2>2 DEF IInv, TypeOK, drive, history
<1>13. Clocked'
  BY <1>2 DEF IInv, Clocked, drive, history
<1>14. PollOK(p)'
  <2>1. Polling(p)'
    BY <1>2, <1>3, <1>6, <1>7 DEF Polling, Connected, drive, history
  <2>2. ASSUME NEW v \in Workspaces, v # w
        PROVE  PlanOK(p, v)'
    <3>1. PlanOK(p, v)
      BY <1>2, <1>3 DEF PollOK
    <3>2. /\ poll'[p].todo[v] = poll[p].todo[v] /\ row'[v] = row[v]
          /\ poll'[p].next = poll[p].next /\ poll'[p].folders = poll[p].folders
          /\ UNCHANGED <<place, changedAt, cursor, listed>>
      BY <1>2, <1>6, <1>7, <1>11, <2>2 DEF drive, history
    <3> QED
      BY <1>8, <3>1, <3>2 DEF PlanOK
  <2>3. PlanOK(p, w)'
    <3>1. \A e : e \in poll'[p].todo[w] <=> e \in poll[p].todo[w] /\ e \notin part
      BY <1>6, <1>7
    <3>2. ASSUME NEW f \in Files, changedAt[f] <= poll[p].next,
                 cursor < changedAt[f]
          PROVE  /\ Kept(f, poll[p].folders[w])
                    => <<f, FALSE>> \in poll'[p].todo[w] \/ row'[w][f] # "none"
                 /\ place[f] = Away
                    => <<f, TRUE>> \in poll'[p].todo[w] \/ row'[w][f] # "new"
      <4>1. /\ Kept(f, poll[p].folders[w])
               => <<f, FALSE>> \in poll[p].todo[w] \/ row[w][f] # "none"
            /\ place[f] = Away
               => <<f, TRUE>> \in poll[p].todo[w] \/ row[w][f] # "new"
        BY <1>4, <3>2, DriveAssumption DEF PlanOK, DriveAssumption
      <4> QED
        BY <1>10, <3>1, <3>2, <4>1
    <3> QED
      BY <1>2, <1>4, <1>6, <1>7, <1>8, <3>1, <3>2 DEF PlanOK, drive, history
  <2> QED
    BY <1>2, <1>3, <1>4, <1>6, <1>7, <2>1, <2>2, <2>3 DEF PollOK
<1>15. NothingPassedOver'
  <2> SUFFICES ASSUME NEW v \in Workspaces, NEW f \in Files,
                      source[v].registered, listed[v].folder = source[v].folder,
                      Kept(f, source[v].folder),
                      changedAt[f] <= listed[v].at \/ Told(f)
               PROVE  row'[v][f] # "none"
    BY <1>2, <1>8 DEF NothingPassedOver, drive, history
  <2>1. row[v][f] # "none"
    BY DEF IInv, NothingPassedOver
  <2>2. CASE v # w
    BY <1>11, <2>1, <2>2
  <2>3. CASE v = w
    <3>1. changedAt[f] <= poll[p].next
      BY <1>3, <1>4, <2>3, Numbers DEF IInv, PlanOK, Told
    <3>2. poll[p].folders[w] = source[w].folder
      BY <1>3, <2>3 DEF Polling
    <3> QED
      BY <1>10, <2>1, <2>3, <3>1, <3>2
  <2> QED
    BY <2>2, <2>3
<1>16. GoneIsWithdrawn'
  <2> SUFFICES ASSUME NEW v \in Workspaces, NEW f \in Files,
                      place[f] = Away, Told(f), changedAt[f] > deaf[v]
               PROVE  row'[v][f] # "new"
    BY <1>2, <1>8 DEF GoneIsWithdrawn, drive, history
  <2>1. row[v][f] # "new"
    BY DEF IInv, GoneIsWithdrawn
  <2>2. changedAt[f] <= poll[p].next
    BY <1>3, <1>4, Numbers DEF IInv, Told
  <2> QED
    BY <1>10, <1>11, <2>1, <2>2
<1>17. \A q \in Pollers : IF Active(q)' THEN PollOK(q)' ELSE poll'[q] = Idle
  BY <1>2, <1>3, <1>6, <1>7, <1>14, Move DEF IInv, Active
<1> QED
  BY <1>12, <1>13, <1>15, <1>16, <1>17 DEF IInv

-----------------------------------------------------------------------------
(* The theorems.                                                            *)

LEMMA Stutter ==
  ASSUME IInv, UNCHANGED vars
  PROVE  IInv'
<1>1. TypeOK'
  BY DEF IInv, TypeOK, vars, drive, history
<1> QED
  BY <1>1, Outside DEF vars, drive, history

LEMMA NextIInv ==
  ASSUME IInv, [Next]_vars
  PROVE  IInv'
<1>1. ASSUME NEW p \in Pollers, Begin(p) \/ PollStep(p) \/ Fail(p)
      PROVE  IInv'
  BY <1>1, BeginStep, FailStep, TakeFirstTokenStep, ReadChangesStep,
     StartOverStep, SaveStep, ListStep, RegisterListingStep,
     RegisterChangesStep, RefusedStep DEF PollStep
<1> QED
  BY <1>1, ChangeStep, MerchantStep, Stutter DEF Next

\* The invariant holds of every behaviour.
THEOREM WatcherInvariant == Spec => []IInv
  BY InitIInv, NextIInv, PTL DEF Spec

\* Every variable has its type, and only one poll is ever under way.
THEOREM TypeCorrect == Spec => []TypeOK
<1>1. IInv => TypeOK
  BY DEF IInv
<1> QED
  BY <1>1, WatcherInvariant, PTL

\* However many workspaces, files and failed polls, no file falls between its
\* folder's listing and the cursor.
THEOREM NothingIsPassedOver == Spec => []NothingPassedOver
<1>1. IInv => NothingPassedOver
  BY DEF IInv
<1> QED
  BY <1>1, WatcherInvariant, PTL

\* What is gone from Drive is no longer offered.
THEOREM GoneAreWithdrawn == Spec => []GoneIsWithdrawn
<1>1. IInv => GoneIsWithdrawn
  BY DEF IInv
<1> QED
  BY <1>1, WatcherInvariant, PTL

\* No registration, removal or unskip takes an import back; only a skip that
\* read the row before the import does.
THEOREM ImportsStand == Spec => ImportedForGood
<1> DEFINE Stands(w, f) ==
      row[w][f] = "imported" /\ row'[w][f] # "imported"
      => /\ row'[w][f] = "skipped"
         /\ [of |-> w, file |-> f, existed |-> TRUE] \in skips \ skips'
<1>1. ASSUME TypeOK, [Next]_vars, NEW w \in Workspaces, NEW f \in Files
      PROVE  Stands(w, f)
  <2>1. ASSUME NEW p \in Pollers, Begin(p) \/ PollStep(p) \/ Fail(p)
        PROVE  Stands(w, f)
    <3>1. CASE UNCHANGED row
      BY <3>1
    <3>2. ASSUME NEW v \in Workspaces, NEW part \in SUBSET Entries,
                 Register(v, part)
          PROVE  Stands(w, f)
      BY <1>1, <3>2, Registers
    <3>3. ASSUME NEW v \in Workspaces,
                 RegisterListing(p, v) \/ RegisterChanges(p, v)
          PROVE  \E part \in SUBSET Entries : Register(v, part)
      <4>1. poll[p].todo[v] \subseteq Entries
        BY <1>1 DEF TypeOK, Polls
      <4> QED
        BY <3>3, <4>1 DEF RegisterListing, RegisterChanges, Slices
    <3>4. \/ UNCHANGED row
          \/ \E v \in Workspaces : RegisterListing(p, v) \/ RegisterChanges(p, v)
      BY <2>1 DEF PollStep, Begin, Fail, TakeFirstToken, ReadChanges,
                  StartOver, Save, List, Refused
    <3> QED
      BY <3>1, <3>2, <3>3, <3>4
  <2>2. ASSUME NEW v \in Workspaces, NEW g \in Files,
               Import(v, g) \/ SkipReads(v, g) \/ Unskip(v, g)
        PROVE  Stands(w, f)
    <3>1. CASE Import(v, g)
      BY <1>1, <3>1 DEF Import, TypeOK
    <3>2. CASE SkipReads(v, g)
      BY <3>2 DEF SkipReads
    <3>3. CASE Unskip(v, g)
      <4>1. row[v][g] # "imported" /\ row' = [row EXCEPT ![v][g] = "restored"]
        BY <3>3 DEF Unskip
      <4>2. row[w][f] = "imported" => row'[w][f] = "imported"
        BY <1>1, <4>1 DEF TypeOK
      <4> QED
        BY <4>2
    <3> QED
      BY <2>2, <3>1, <3>2, <3>3
  <2>3. ASSUME NEW s \in skips, SkipWrites(s)
        PROVE  Stands(w, f)
    <3>1. /\ s \in [of : Workspaces, file : Files, existed : BOOLEAN]
          /\ skips' = skips \ {s}
          /\ row' = [row EXCEPT ![s.of][s.file] =
                       IF s.existed \/ @ = "none" THEN "skipped" ELSE @]
      BY <1>1, <2>3 DEF SkipWrites, TypeOK
    <3>2. CASE s.of = w /\ s.file = f /\ s.existed
      <4>1. s = [of |-> w, file |-> f, existed |-> TRUE]
        BY <3>1, <3>2
      <4> QED
        BY <1>1, <3>1, <3>2, <4>1 DEF TypeOK
    <3>3. CASE ~(s.of = w /\ s.file = f /\ s.existed)
      BY <1>1, <3>1, <3>3 DEF TypeOK
    <3> QED
      BY <3>2, <3>3
  <2>4. CASE \/ \E g \in Files, to \in Places : Change(g, to)
             \/ Expire
             \/ \E v \in Workspaces, folder \in Folders : Connect(v, folder)
             \/ \E v \in Workspaces : Disconnect(v)
             \/ UNCHANGED vars
    BY <2>4 DEF Change, Expire, Connect, Disconnect, vars
  <2> QED
    BY <1>1, <2>1, <2>2, <2>3, <2>4 DEF Next
<1>2. TypeOK /\ [Next]_vars =>
        [\A w \in Workspaces, f \in Files : Stands(w, f)]_vars
  BY <1>1
<1> QED
  BY <1>2, TypeCorrect, PTL DEF Spec, ImportedForGood
=============================================================================
