--------------------------- MODULE RecordEditing ---------------------------
(***************************************************************************)
(* One saved record edited in two ways at once: editor windows             *)
(* (DocumentSave) and a Nutrition tab whose controls commit on change      *)
(* (CommitQueue).  The tab's yield control writes the line an editor's     *)
(* save restates, so its action bumps the record's version and checks      *)
(* none; its serving control owns its field and bumps nothing.  The tab is *)
(* a route of its own, so no editor hears the version it bumped.           *)
(***************************************************************************)
EXTENDS DocumentSave

CONSTANTS
    Record,         \* the record both edit
    Yield,          \* recipe:<id>:item:<itemId>:yield
    Serving,        \* recipe:<id>:serving
    MaxCommits,     \* bound: values picked on the tab
    MaxFailures,    \* bound: commits that fail
    MaxTrouble      \* bound: those failures and the editors', together

ASSUME RecordAssumption == Record \in Rows /\ Yield # Serving

VARIABLES mounted, made, failures, screen, queue, write, pill, late, acked,
          told, serving

Domains == {Yield, Serving}

\* What the server holds of each domain.
stored == [d \in Domains |-> IF d = Yield THEN Held(Record).line ELSE serving]

Tab == INSTANCE CommitQueue WITH Nothing <- None

tabVars == <<mounted, made, failures, screen, queue, write, pill, late, acked,
             told, serving>>
allVars == <<vars, tabVars>>

\* The tab is a saved recipe's.
RecordInit ==
    /\ Init
    /\ kind = "recipe"
    /\ rows[Record] # <<>>
    /\ serving = 0
    /\ Tab!Init

\* Mutant: the commit writes its line and leaves the version.
WriteUnversioned(d, value) ==
    IF d = Yield
    THEN /\ rows' = [rows EXCEPT ![Record][Len(rows[Record])].line = value]
         /\ UNCHANGED serving
    ELSE /\ serving' = value
         /\ UNCHANGED rows

\* The action of a domain: the yield one rewrites its line under the record's
\* lock and bumps the version.
Write(d, value) ==
    IF d = Yield
    THEN /\ rows' = [rows EXCEPT ![Record] =
                        Append(@, [Held(Record) EXCEPT !.line = value])]
         /\ UNCHANGED serving
    ELSE /\ serving' = value
         /\ UNCHANGED rows

CommitLands(d) ==
    /\ Write(d, write[d].sent)
    /\ Tab!Land(d)

LateCommitLands(d) ==
    \E v \in late[d] :
        /\ Write(d, v)
        /\ Tab!LandLate(d, v)

EditorsRest ==
    UNCHANGED <<kind, edits, faults, loads, repeats, win, orphan, draft,
                created>>

TabStep ==
    /\ \/ \E d \in Domains : CommitLands(d) \/ LateCommitLands(d)
       \/ /\ UNCHANGED <<rows, serving>>
          /\ \/ \E d \in Domains :
                   \/ Tab!Commit(d)
                   \/ Tab!Fail(d)
                   \/ Tab!AnswerSaved(d)
                   \/ Tab!AnswerFailed(d)
             \/ Tab!Unmount
    /\ EditorsRest

EditorStep == Next /\ UNCHANGED tabVars

InBound == faults + loads + repeats + failures <= MaxTrouble

RecordNext == (EditorStep \/ TabStep) /\ InBound'

\* The editors' fairness, as in DocumentSave.
RecordFairness ==
    \A w \in Windows :
        /\ WF_allVars(Autosave(w) /\ UNCHANGED tabVars /\ InBound')
        /\ WF_allVars((Serve(w) \/ Fail(w)) /\ UNCHANGED tabVars /\ InBound')
        /\ WF_allVars(Answer(w) /\ UNCHANGED tabVars)

RecordSpec == RecordInit /\ [][RecordNext]_allVars /\ RecordFairness

-----------------------------------------------------------------------------
\* The requests a step of the editors serves.
RequestsOf(w) == {x \in {win[w].req} : x # None} \cup
               {x.req : x \in {orphan[w]} \ {None}}

\* An editor's save never undoes a commit it has not read: it is refused
\* instead (the bump rule of SAVE_SYSTEM.md).  A form that put a recovery
\* copy back restates the copy's line.
CommitsSurviveSaves ==
    [][Held(Record).line # Held(Record)'.line =>
          \/ tabVars' # tabVars
          \/ \E w \in Windows : \E q \in RequestsOf(w) : q.recovered]_allVars
=============================================================================
