------------------------------ MODULE DriveWatch ------------------------------
(***************************************************************************)
(* The Google Drive watcher (src/apps/web/lib/drive-watch.ts): one poll of  *)
(* one shared Changes cursor for every workspace.  A poll reads the state   *)
(* Django keeps, lists in full the folders that were never listed, reads    *)
(* the changes since the cursor, registers each changed file to the         *)
(* workspace whose connected folder holds it, and only then saves the new   *)
(* cursor.  Every call in between is awaited, and files move, merchants     *)
(* connect, disconnect, import and skip, calls fail and the process         *)
(* restarts between any two of them.                                        *)
(*                                                                          *)
(* Drive keeps one change per file, its latest, so the feed is the position *)
(* at which each file last changed, and a cursor is a position in it.       *)
(* Sub-folders are not drawn: a file inside a connected folder is "kept",   *)
(* or "hidden" when it is trashed or under a `_` working folder (both paths *)
(* of the watcher treat the two alike), and a file deleted outright and one *)
(* moved out of every connected folder are both Away.  Connected folders do *)
(* not nest here.                                                           *)
(***************************************************************************)
EXTENDS Integers, FiniteSets

CONSTANTS
    Workspaces,   \* the workspaces of the installation
    Files,        \* the Drive files
    Folders,      \* the Drive folders a merchant may connect
    Pollers,      \* callers of runDriveWatch: the timer, the buttons
    NoFolder,     \* no folder is connected
    Away,         \* deleted, or in no connected folder
    NoOne,        \* no workspace is being listed
    Chunk,        \* how many files one registration call carries
    MaxChanges,   \* bound on what happens in Drive
    MaxExtra      \* bound on connections, decisions, failed calls, restarts
                  \* and expired cursors, together

ASSUME DriveAssumption ==
    /\ Chunk \in Nat \ {0}
    /\ MaxChanges \in Nat /\ MaxExtra \in Nat
    /\ NoFolder \notin Folders /\ Away \notin Folders \X BOOLEAN
    /\ NoOne \notin Workspaces

NoToken == -1

VARIABLES
    place,      \* where each file is in Drive
    changedAt,  \* the position of its latest change in the feed
    clock,      \* the position of the latest change of all
    source,     \* DriveFolderSource, one per workspace
    row,        \* DriveFile, one per workspace and file it has seen
    skips,      \* skips of whole files that have read and not yet written
    cursor,     \* DriveWatchState.page_token
    expired,    \* Google no longer knows that cursor
    poll,       \* each caller's poll, if one is under way
    listed,     \* history: the folder and moment of the last full listing
    began,      \* history: the position the current cursor was first taken at
    deaf,       \* history: the last position read without the workspace
    extra       \* what the bound MaxExtra counts

drive == <<place, changedAt, clock>>
history == <<listed, began, deaf>>
vars == <<drive, source, row, skips, cursor, expired, poll, history, extra>>

Places == (Folders \X BOOLEAN) \cup {Away}     \* <<folder, hidden>>
Positions == 0 .. MaxChanges
Tokens == Positions \cup {NoToken}
Entries == Files \X BOOLEAN                    \* <<file, removed>>

Extra == extra < MaxExtra /\ extra' = extra + 1

Kept(f, folder) == place[f] = <<folder, FALSE>>

-----------------------------------------------------------------------------
(* The registry.                                                            *)

\* "restored" is status `new` put there by un-skipping, until the watcher
\* next writes the row; "new" stands for `new` and `unsupported`.
Statuses == {"none", "new", "restored", "skipped", "imported"}

\* Mutant: a removed file takes an imported row as well.
RegisteredForgetful(status, removed) ==
    IF removed THEN "none"
    ELSE IF status \in {"skipped", "imported"} THEN status ELSE "new"

\* The status one registered entry leaves a row with: the workspace's own
\* verdicts stand, and a removed file takes its row with it unless imported.
Registered(status, removed) ==
    IF removed THEN IF status = "imported" THEN "imported" ELSE "none"
    ELSE IF status \in {"skipped", "imported"} THEN status ELSE "new"

\* register_drive_files, one transaction that locks the rows it names.  A
\* skip that read a row deleted here will update nothing.
Register(w, entries) ==
    /\ row' = [row EXCEPT ![w] =
                 [f \in Files |->
                    IF \E removed \in BOOLEAN : <<f, removed>> \in entries
                    THEN Registered(@[f], <<f, TRUE>> \in entries)
                    ELSE @[f]]]
    /\ skips' = {s \in skips : s.existed => row'[s.of][s.file] # "none"}

-----------------------------------------------------------------------------
(* A poll.                                                                  *)

Nothing == [w \in Workspaces |-> {}]

Idle ==
    [stage |-> "idle", token |-> NoToken, next |-> NoToken, at |-> 0,
     folders |-> [w \in Workspaces |-> NoFolder], settled |-> {},
     owes |-> {}, listing |-> NoOne, todo |-> Nothing]

\* `inFlight`: a second caller is handed the run already going.
Free == \A p \in Pollers : poll[p].stage = "idle"

\* Mutant: only a poll that succeeds clears it.
EndedStuck(ok) == IF ok THEN Idle ELSE [Idle EXCEPT !.stage = "stuck"]

\* `finally` clears `inFlight` however the poll ended.
Ended(ok) == Idle

Connected(folders) == {w \in Workspaces : folders[w] # NoFolder}

\* The next slice of registerFiles: Chunk files, or what is left of them.
Slices(entries) ==
    {part \in SUBSET entries :
        \/ Cardinality(part) = Chunk
        \/ part = entries /\ Cardinality(entries) < Chunk}

\* The whole folder, as listDriveFolder returns it.
Listing(folder) == {<<f, FALSE>> : f \in {g \in Files : Kept(g, folder)}}

\* Mutant: a change nothing holds is dropped.
PlanPlaced(since, folders) ==
    [w \in Connected(folders) |->
        {e \in Entries :
            changedAt[e[1]] > since /\ place[e[1]] = <<folders[w], e[2]>>}]

\* planRegistrations: a changed file goes to the workspaces of its folder,
\* removed if hidden there; one no connected folder holds is offered to
\* every workspace as removed.
Plan(since, folders) ==
    [w \in Connected(folders) |->
        {e \in Entries :
            /\ changedAt[e[1]] > since
            /\ \/ place[e[1]] = <<folders[w], e[2]>>
               \/ /\ \A v \in Connected(folders), hidden \in BOOLEAN :
                       place[e[1]] # <<folders[v], hidden>>
                  /\ e[2]}]

Init ==
    /\ place \in [Files -> Places]
    /\ changedAt = [f \in Files |-> 0]
    /\ clock = 0
    /\ source = [w \in Workspaces |-> [folder |-> NoFolder, registered |-> FALSE]]
    /\ row = [w \in Workspaces |-> [f \in Files |-> "none"]]
    /\ skips = {}
    /\ cursor = NoToken
    /\ expired = FALSE
    /\ poll = [p \in Pollers |-> Idle]
    /\ listed = [w \in Workspaces |-> [folder |-> NoFolder, at |-> 0]]
    /\ began = 0
    /\ deaf = [w \in Workspaces |-> 0]
    /\ extra = 0

\* runDriveWatch, and the read of the cursor and the folders.
Begin(p) ==
    /\ Free
    /\ poll[p].stage = "idle"
    /\ LET folders == [w \in Workspaces |-> source[w].folder]
           settled == {w \in Workspaces : source[w].registered}
       IN  poll' = [poll EXCEPT ![p] =
             [Idle EXCEPT !.stage = "seed", !.token = cursor,
                          !.folders = folders, !.settled = settled,
                          !.owes = Connected(folders) \ settled]]
    /\ UNCHANGED <<drive, source, row, skips, cursor, expired, history, extra>>

\* seedFolder's listing.
List(p, w) ==
    /\ poll[p].stage \in {"seed", "reseed"}
    /\ poll[p].listing = NoOne
    /\ w \in poll[p].owes
    /\ poll' = [poll EXCEPT ![p].listing = w, ![p].at = clock,
                            ![p].todo[w] = Listing(poll[p].folders[w])]
    /\ UNCHANGED <<drive, source, row, skips, cursor, expired, history, extra>>

\* Mutant: the first slice says so.
MarksEarly(part, entries) == TRUE

\* Only the last slice says that the folder has been listed in full.
Marks(part, entries) == part = entries

\* seedFolder's registration, one slice at a time; an empty listing still
\* makes the call that marks the folder.
RegisterListing(p, w) ==
    /\ poll[p].listing = w
    /\ source[w].folder # NoFolder
    /\ \E part \in Slices(poll[p].todo[w]) :
         /\ Register(w, part)
         /\ poll' = [poll EXCEPT
              ![p].todo[w] = @ \ part,
              ![p].listing = IF part = poll[p].todo[w] THEN NoOne ELSE @,
              ![p].owes = IF part = poll[p].todo[w] THEN @ \ {w} ELSE @]
         /\ IF Marks(part, poll[p].todo[w])
            THEN /\ source' = [source EXCEPT ![w].registered = TRUE]
                 /\ listed' = [listed EXCEPT ![w] =
                      [folder |-> poll[p].folders[w], at |-> poll[p].at]]
            ELSE UNCHANGED <<source, listed>>
    /\ UNCHANGED <<drive, cursor, expired, began, deaf, extra>>

Seeded(p) == poll[p].stage = "seed" /\ poll[p].owes = {}

\* No cursor yet: the listings above, then a cursor for what comes next.
TakeFirstToken(p) ==
    /\ Seeded(p)
    /\ poll[p].token = NoToken
    /\ poll' = [poll EXCEPT ![p].stage = "save", ![p].next = clock]
    /\ UNCHANGED <<drive, source, row, skips, cursor, expired, history, extra>>

\* listDriveChanges to its end, and the plan of what to register.
ReadChanges(p) ==
    /\ Seeded(p)
    /\ poll[p].token # NoToken
    /\ ~expired
    /\ LET plan == Plan(poll[p].token, poll[p].folders)
       IN  poll' = [poll EXCEPT ![p].stage = "register", ![p].next = clock,
                      ![p].todo = [w \in Workspaces |->
                         IF w \in DOMAIN plan THEN plan[w] ELSE {}]]
    /\ UNCHANGED <<drive, source, row, skips, cursor, expired, history, extra>>

\* DriveCursorExpiredError: a fresh cursor first, then every folder that was
\* registered when the poll began is listed again.
StartOver(p) ==
    /\ Seeded(p)
    /\ poll[p].token # NoToken
    /\ expired
    /\ poll' = [poll EXCEPT ![p].stage = "reseed", ![p].next = clock,
                            ![p].owes = poll[p].settled]
    /\ UNCHANGED <<drive, source, row, skips, cursor, expired, history, extra>>

\* One slice of one workspace's share of the changes.
RegisterChanges(p, w) ==
    /\ poll[p].stage = "register"
    /\ poll[p].todo[w] # {}
    /\ source[w].folder # NoFolder
    /\ \E part \in Slices(poll[p].todo[w]) :
         /\ Register(w, part)
         /\ poll' = [poll EXCEPT ![p].todo[w] = @ \ part]
    /\ UNCHANGED <<drive, source, cursor, expired, history, extra>>

\* Mutant: the cursor is saved as soon as the changes have been read.
DoneEarly(p) ==
    \/ poll[p].stage \in {"save", "register"}
    \/ poll[p].stage = "reseed" /\ poll[p].owes = {}

\* What is left before the cursor may be saved.
Done(p) ==
    \/ poll[p].stage = "save"
    \/ poll[p].stage = "register" /\ poll[p].todo = Nothing
    \/ poll[p].stage = "reseed" /\ poll[p].owes = {}

\* saveDriveWatch with the new cursor: the poll is over.
Save(p) ==
    /\ Done(p)
    /\ cursor' = poll[p].next
    /\ expired' = FALSE
    /\ began' = IF poll[p].stage = "register" THEN began ELSE poll[p].next
    /\ deaf' = [w \in Workspaces |->
                 IF poll[p].folders[w] = NoFolder THEN poll[p].next ELSE deaf[w]]
    /\ poll' = [poll EXCEPT ![p] = Ended(TRUE)]
    /\ UNCHANGED <<drive, source, row, skips, listed, extra>>

\* Django answers 404 for a workspace disconnected since the poll began, and
\* the poll fails with the cursor where it was.
Refused(p, w) ==
    /\ \/ poll[p].listing = w
       \/ poll[p].stage = "register" /\ poll[p].todo[w] # {}
    /\ source[w].folder = NoFolder
    /\ cursor' = poll[p].token
    /\ poll' = [poll EXCEPT ![p] = Ended(FALSE)]
    /\ UNCHANGED <<drive, source, row, skips, expired, history, extra>>

\* A call to Google or to Django fails, before or after it took effect, or
\* the process restarts: the cursor is what the poll started from.  What took
\* effect did so before the poll ended: a registration given up on at its
\* timeout, and served once a later poll is under way, is not modelled.
Fail(p) ==
    /\ poll[p].stage \in {"seed", "reseed", "register", "save"}
    /\ Extra
    /\ cursor' = poll[p].token
    /\ poll' = [poll EXCEPT ![p] = Ended(FALSE)]
    /\ UNCHANGED <<drive, source, row, skips, expired, history>>

-----------------------------------------------------------------------------
(* Drive, and the merchants.                                                *)

\* A file is added, moved, trashed, restored or deleted.
Change(f, to) ==
    /\ clock < MaxChanges
    /\ to # place[f]
    /\ clock' = clock + 1
    /\ changedAt' = [changedAt EXCEPT ![f] = clock + 1]
    /\ place' = [place EXCEPT ![f] = to]
    /\ UNCHANGED <<source, row, skips, cursor, expired, poll, history, extra>>

\* Google forgets the cursor.
Expire ==
    /\ cursor # NoToken /\ ~expired
    /\ Extra
    /\ expired' = TRUE
    /\ UNCHANGED <<drive, source, row, skips, cursor, poll, history>>

\* connect-drive-folder replaces what was connected and owes a full listing.
Connect(w, folder) ==
    /\ Extra
    /\ source' = [source EXCEPT ![w] = [folder |-> folder, registered |-> FALSE]]
    /\ UNCHANGED <<drive, row, skips, cursor, expired, poll, history>>

\* disconnect-drive-folder; the registry survives it.
Disconnect(w) ==
    /\ source[w].folder # NoFolder
    /\ Extra
    /\ source' = [source EXCEPT ![w] = [folder |-> NoFolder, registered |-> FALSE]]
    /\ UNCHANGED <<drive, row, skips, cursor, expired, poll, history>>

\* import-invoices names a file: any file, for the screen may be old and the
\* picker shows the whole of Drive.  One transaction.
Import(w, f) ==
    /\ Extra
    /\ row[w][f] # "imported"
    /\ row' = [row EXCEPT ![w][f] = "imported"]
    /\ UNCHANGED <<drive, source, skips, cursor, expired, poll, history>>

\* skip-drive-files reads the row, in no transaction and under no lock, and
\* leaves an imported one alone.
SkipReads(w, f) ==
    /\ Extra
    /\ row[w][f] # "imported"
    /\ skips' = skips \cup {[of |-> w, file |-> f, existed |-> row[w][f] # "none"]}
    /\ UNCHANGED <<drive, source, row, cursor, expired, poll, history>>

\* It writes the row it read, whatever became of it since; or creates the one
\* it missed, which fails if someone else has.
SkipWrites(s) ==
    /\ skips' = skips \ {s}
    /\ row' = [row EXCEPT ![s.of][s.file] =
                 IF s.existed \/ @ = "none" THEN "skipped" ELSE @]
    /\ UNCHANGED <<drive, source, cursor, expired, poll, history, extra>>

\* unskip-drive-file: one UPDATE that leaves imported rows out.
Unskip(w, f) ==
    /\ Extra
    /\ row[w][f] = "skipped"
    /\ row' = [row EXCEPT ![w][f] = "restored"]
    /\ UNCHANGED <<drive, source, skips, cursor, expired, poll, history>>

PollStep(p) ==
    \/ TakeFirstToken(p) \/ ReadChanges(p) \/ StartOver(p) \/ Save(p)
    \/ \E w \in Workspaces : List(p, w) \/ RegisterListing(p, w)
                             \/ RegisterChanges(p, w) \/ Refused(p, w)

Next ==
    \/ \E p \in Pollers : Begin(p) \/ PollStep(p) \/ Fail(p)
    \/ \E f \in Files, to \in Places : Change(f, to)
    \/ Expire
    \/ \E w \in Workspaces, folder \in Folders : Connect(w, folder)
    \/ \E w \in Workspaces : Disconnect(w)
    \/ \E w \in Workspaces, f \in Files :
          Import(w, f) \/ SkipReads(w, f) \/ Unskip(w, f)
    \/ \E s \in skips : SkipWrites(s)

Spec == Init /\ [][Next]_vars

\* The timer polls for as long as the process runs, and a poll under way
\* goes on; nothing obliges Drive, a merchant or a failure to happen.
Fairness ==
    /\ WF_vars(\E p \in Pollers : Begin(p))
    /\ \A p \in Pollers : WF_vars(PollStep(p))

LiveSpec == Spec /\ Fairness

-----------------------------------------------------------------------------
(* Properties.                                                              *)

Polls ==
    [stage : {"idle", "seed", "reseed", "register", "save"},
     token : Tokens, next : Tokens, at : Positions,
     folders : [Workspaces -> Folders \cup {NoFolder}],
     settled : SUBSET Workspaces, owes : SUBSET Workspaces,
     listing : Workspaces \cup {NoOne},
     todo : [Workspaces -> SUBSET Entries]]

\* Every variable has its type, only one poll is ever under way, and a
\* folder is never marked as listed where none is connected.
TypeOK ==
    /\ place \in [Files -> Places]
    /\ changedAt \in [Files -> Positions] /\ clock \in Positions
    /\ source \in [Workspaces ->
         [folder : Folders \cup {NoFolder}, registered : BOOLEAN]]
    /\ row \in [Workspaces -> [Files -> Statuses]]
    /\ skips \subseteq [of : Workspaces, file : Files, existed : BOOLEAN]
    /\ \A s \in skips : s.existed => row[s.of][s.file] # "none"
    /\ cursor \in Tokens /\ expired \in BOOLEAN
    /\ poll \in [Pollers -> Polls]
    /\ \A p, q \in Pollers :
         poll[p].stage = "idle" \/ poll[q].stage = "idle" \/ p = q
    /\ \A w \in Workspaces : source[w].registered => source[w].folder # NoFolder
    /\ listed \in [Workspaces ->
         [folder : Folders \cup {NoFolder}, at : Positions]]
    /\ began \in Positions /\ deaf \in [Workspaces -> Positions]
    /\ extra \in 0 .. MaxExtra

\* A change of the file that the feed has told the watcher about.
Told(f) == began < changedAt[f] /\ changedAt[f] <= cursor

\* No receipt falls between a folder's listing and the cursor: a file kept
\* in a folder that was listed in full has a row if it was there at the
\* listing, or if its latest change lies between where the cursor began and
\* where it stands.  Failures, restarts, expired cursors and reconnections
\* never let the cursor pass a change that was not registered.
NothingPassedOver ==
    \A w \in Workspaces, f \in Files :
        /\ source[w].registered
        /\ listed[w].folder = source[w].folder
        /\ Kept(f, source[w].folder)
        /\ changedAt[f] <= listed[w].at \/ Told(f)
        => row[w][f] # "none"

\* "so no registry keeps offering a receipt that is gone" (planRegistrations):
\* once the cursor stands past the change that took a file away, no workspace
\* that was connected when the change was read still offers what the watcher
\* wrote of it.
GoneIsWithdrawn ==
    \A w \in Workspaces, f \in Files :
        place[f] = Away /\ Told(f) /\ changedAt[f] > deaf[w]
        => row[w][f] # "new"

\* A file is imported once: no registration, however stale the page it was
\* read from, no removal and no unskip sent from an old screen ever offers an
\* imported file again or forgets that it was.  Only a skip that read the row
\* before the import and writes after it takes the verdict back.
ImportedForGood ==
    [][\A w \in Workspaces, f \in Files :
         row[w][f] = "imported" /\ row'[w][f] # "imported"
         => /\ row'[w][f] = "skipped"
            /\ [of |-> w, file |-> f, existed |-> TRUE] \in skips \ skips']_vars

\* What docs/CONTRACT.md says of skip-drive-files: "An `imported` row is
\* never demoted", with no exception for a skip and an import at once.
ImportedNeverDemoted ==
    [][\A w \in Workspaces, f \in Files :
         row[w][f] = "imported" => row'[w][f] = "imported"]_vars

\* The watcher catches up: once Drive and the merchants rest and failures
\* stop, every connected folder has been listed and every change has been
\* read, whatever a failed, refused or restarted poll left behind.
WatcherCatchesUp ==
    <>[](/\ cursor = clock
         /\ \A w \in Workspaces :
              source[w].folder # NoFolder => source[w].registered)

\* What docs/CONTRACT.md says of a (re)connection: "the poller lists the new
\* folder in full before trusting Changes pages".  So a folder marked as
\* registered has a row for every file that has been sitting in it.
RegisteredMeansListed ==
    \A w \in Workspaces, f \in Files :
        /\ source[w].registered
        /\ changedAt[f] = 0
        /\ Kept(f, source[w].folder)
        => row[w][f] # "none"
=============================================================================
