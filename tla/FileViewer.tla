------------------------------ MODULE FileViewer ------------------------------
(***************************************************************************)
(* The file viewer and the photo editor of public/enhancements.js.  One    *)
(* dialog shows the file opened last: a photo is put on its stage at once  *)
(* and replaced as larger pictures of it arrive, a document once it has    *)
(* been fetched, and only then are the viewer's buttons its own.  The      *)
(* editor works on the photo of the stage, keeps a history of its edits    *)
(* and saves them as another file.                                         *)
(*                                                                         *)
(* The edits of a photo are one setting; videos, which are put on the      *)
(* stage at once like photos and have no editor, favorites, sharing and    *)
(* the sheet of information are left out.                                  *)
(***************************************************************************)
EXTENDS Integers, Sequences, FiniteSets, SequencesExt

CONSTANTS
    None,           \* no file, no edits
    Folder,          \* the files of the folder, in the order it lists them
    Photos,         \* those that are photos; the others are documents
    Sizes,          \* the pictures of a photo it asks for: on a phone, not the original
    Levels,         \* what the operator can set a photo's edits to
    Budgets         \* bounds, one of which a behaviour keeps to: files opened and deleted; edits
                    \* and saves

FileViewerAssumption ==
    /\ IsInjective(Folder) /\ Photos \subseteq Range(Folder) /\ None \notin Range(Folder)
    /\ Sizes \subseteq {"preview", "original"} /\ Levels \subseteq Nat
    /\ Budgets \subseteq [opens : Nat, changes : Nat]

VARIABLES
    stored,         \* files of the folder on the server
    listing,        \* those the page lists
    viewer,         \* the dialog and its dataset; "bound" is the file of its buttons
    fetches,        \* documents asked for; "current" until another file is opened, or the viewer
                    \* closed
    warming,        \* pictures asked for; "connected" while their element is on the stage
    late,           \* a document came, or failed to come, in a way the viewer does not expect
                    \* since it last opened a file
    editor,         \* the photo editor
    copied,         \* mobileCopiedEdits
    saves,          \* edits being saved
    copies,         \* files saved
    deletes,        \* files being deleted
    ops             \* what is left of the behaviour's budget

vars == <<stored, listing, viewer, fetches, warming, late, editor, copied, saves, copies,
          deletes, ops>>

\* defaultMobileEdits().
Plain == 0
Picture(f, size) == [file |-> f, size |-> size]

Place(f) == CHOOSE i \in DOMAIN Folder : Folder[i] = f

\* The place of a file among those of previewItems(), 0 when it is not one of them.
Position(f) == Cardinality({g \in listing : f \in listing /\ Place(g) <= Place(f)})

TypeOK ==
    /\ stored \subseteq Range(Folder) /\ listing \subseteq Range(Folder)
    /\ {viewer.source, viewer.current, viewer.bound, viewer.background}
           \subseteq Range(Folder) \cup {None}
    /\ editor.source \in Photos \cup {None}
    /\ editor.open => editor.index \in DOMAIN editor.history
    /\ \A i \in DOMAIN saves : saves[i].at \in {"decoding", "drawn", "written"}
    /\ ops.opens \in Nat /\ ops.changes \in Nat

-----------------------------------------------------------------------------
(* The viewer *)

Spend(on) == ops[on] > 0 /\ ops' = [ops EXCEPT ![on] = @ - 1]
OnViewer == viewer.open /\ ~editor.open

\* What the operator opened before is no longer awaited, and its pictures are off the
\* stage.
Outdated == [i \in DOMAIN fetches |-> [fetches[i] EXCEPT !.current = FALSE]]
Disconnected == {[w EXCEPT !.connected = FALSE] : w \in warming}
Cleared == fetches' = Outdated /\ warming' = Disconnected

\* Where openPreview() ends: the element is on the stage, the buttons are the file's, and
\* the viewer is open.
Attached(v, f, element) ==
    [v EXCEPT !.stage = Append(@, element), !.bound = f, !.current = f,
              !.strip = Cardinality(listing), !.open = TRUE]

\* Variant: the stage is cleared where something is put on it, of photos only.
EmptiedLate(f) ==
    [viewer EXCEPT !.source = f, !.background = None,
                   !.stage = IF f \in Photos THEN <<>> ELSE @]

\* Where openPreview() starts: the title is the file's and the stage is empty.
Emptied(f) == [viewer EXCEPT !.source = f, !.background = None, !.stage = <<>>]

Warming(f, size) == [file |-> f, size |-> size, connected |-> TRUE]

OpenPhoto(f) ==
    /\ viewer' = [Attached(Emptied(f), f, Picture(f, "tile")) EXCEPT !.background = f]
    /\ fetches' = Outdated
    /\ warming' = Disconnected \cup {Warming(f, size) : size \in Sizes}

OpenDocument(f) ==
    /\ viewer' = Emptied(f)
    /\ fetches' = Append(Outdated, [file |-> f, current |-> TRUE])
    /\ warming' = Disconnected

Open(f) ==
    /\ Spend("opens")
    /\ IF f \in Photos THEN OpenPhoto(f) ELSE OpenDocument(f)
    /\ late' = FALSE
    /\ UNCHANGED <<stored, listing, editor, copied, saves, copies, deletes>>

\* A file of the page.
Click(f) ==
    /\ f \in listing
    /\ ~viewer.open /\ ~editor.open
    /\ Open(f)

\* The arrows, a swipe or the keys.
Navigate(offset) ==
    /\ OnViewer
    /\ \E f \in listing : Position(f) = Position(viewer.current) + offset /\ Open(f)

\* The filmstrip: its pictures are those of the listing it was made from, and one of them
\* opens the file at its place in the listing of now.
Filmstrip(i) ==
    /\ OnViewer
    /\ i <= viewer.strip
    /\ \E f \in listing : Position(f) = i /\ Open(f)

\* The document came; the viewer opens if it is closed.
Fetched(i) ==
    LET f == fetches[i].file IN
    /\ f \in stored
    /\ viewer' = Attached(viewer, f, Picture(f, "document"))
    /\ late' = (late \/ ~fetches[i].current)
    /\ fetches' = RemoveAt(fetches, i)
    /\ UNCHANGED <<stored, listing, warming, editor, copied, saves, copies, deletes, ops>>

FetchFails(i) ==
    /\ late' = (late \/ fetches[i].current)
    /\ fetches' = RemoveAt(fetches, i)
    /\ UNCHANGED <<stored, listing, viewer, warming, editor, copied, saves, copies, deletes, ops>>

\* Variant: a picture is shown whatever the viewer shows by then.
BelongsAlways(w) == viewer.open

\* Whether a picture that comes is still of the photo shown.
Belongs(w) == viewer.source = w.file /\ w.connected

\* A picture that fails is one that never comes.
Warmed(w) ==
    /\ warming' = warming \ {w}
    /\ viewer' =
           IF Belongs(w)
           THEN [viewer EXCEPT !.background = w.file,
                               !.stage = [j \in DOMAIN @ |->
                                   IF @[j].file = w.file THEN Picture(w.file, w.size) ELSE @[j]]]
           ELSE viewer
    /\ UNCHANGED <<stored, listing, fetches, late, editor, copied, saves, copies, deletes, ops>>

Shut(v) ==
    IF v.open THEN [v EXCEPT !.open = FALSE, !.source = None, !.current = None, !.stage = <<>>]
    ELSE v
Shuts == viewer' = Shut(viewer) /\ IF viewer.open THEN Cleared ELSE UNCHANGED <<fetches, warming>>

Close ==
    /\ OnViewer
    /\ Shuts
    /\ UNCHANGED <<stored, listing, late, editor, copied, saves, copies, deletes, ops>>

-----------------------------------------------------------------------------
(* The files *)

\* The page lists its folder again.
Relist ==
    /\ listing # stored
    /\ listing' = stored
    /\ UNCHANGED <<stored, viewer, fetches, warming, late, editor, copied, saves, copies,
                   deletes, ops>>

\* The operator confirms the name of the file of the button.
Delete ==
    /\ OnViewer /\ Spend("opens")
    /\ viewer.bound # None
    /\ deletes' = deletes \cup {viewer.bound}
    /\ UNCHANGED <<stored, listing, viewer, fetches, warming, late, editor, copied, saves, copies>>

Deleted(f) ==
    /\ f \in stored
    /\ stored' = stored \ {f}
    /\ deletes' = deletes \ {f}
    /\ Shuts
    /\ UNCHANGED <<listing, late, editor, copied, saves, copies, ops>>

DeleteFails(f) ==
    /\ deletes' = deletes \ {f}
    /\ UNCHANGED <<stored, listing, viewer, fetches, warming, late, editor, copied, saves,
                   copies, ops>>

-----------------------------------------------------------------------------
(* The photo editor *)

OnEditor == editor.open /\ ~editor.sliding

\* The photo that querySelector() finds on the stage: the first, if any.
Shown ==
    LET photos == {j \in DOMAIN viewer.stage : viewer.stage[j].file \in Photos}
    IN  {viewer.stage[j] : j \in {i \in photos : \A k \in photos : i <= k}}

\* Saves hold the edits by reference: those of the same object see it change until they
\* are drawn, and the copied edits to the end.
Mutated(e) == [i \in DOMAIN saves |->
    IF saves[i].live THEN [saves[i] EXCEPT !.edits = e, !.again = TRUE] ELSE saves[i]]
Parted == [i \in DOMAIN saves |-> [saves[i] EXCEPT !.live = FALSE]]

\* Variant: the editor keeps the name of the photo it was first opened on.
NamedOnce == IF editor.source = None THEN viewer.source ELSE editor.source

\* The name under which edits will be saved.
Named == viewer.source

OpenEditor(e) ==
    /\ OnViewer
    /\ \E image \in Shown :
           editor' = [open |-> TRUE, source |-> Named, picture |-> image, edits |-> e,
                      history |-> <<e>>, index |-> 1, sliding |-> FALSE]
    /\ saves' = [i \in DOMAIN saves |-> [Parted[i] EXCEPT !.again = TRUE]]
    /\ UNCHANGED <<stored, listing, viewer, fetches, warming, late, copied, copies, deletes, ops>>

\* Edit photo, and Paste edits.
Edit == OpenEditor(Plain)
PasteEdits == copied # None /\ OpenEditor(copied)

\* Those of the editor, whatever photo it was last open on.
CopyEdits ==
    /\ OnViewer /\ Shown # {}
    /\ copied' = editor.edits
    /\ UNCHANGED <<stored, listing, viewer, fetches, warming, late, editor, saves, copies,
                   deletes, ops>>

\* Variant: what was undone stays in the history.
PushedLast(ed) == [ed EXCEPT !.history = Append(@, ed.edits), !.index = Len(ed.history) + 1]

\* pushHistory()
Pushed(ed) ==
    [ed EXCEPT !.history = Append(SubSeq(@, 1, ed.index), ed.edits), !.index = @ + 1]

\* restoreHistory(k)
Restored(ed, k) == [ed EXCEPT !.index = k, !.edits = ed.history[k]]

OnlyEditor == UNCHANGED <<stored, listing, viewer, fetches, warming, late, copied, copies, deletes>>

Slide(e) ==
    /\ editor.open /\ e # editor.edits
    /\ IF editor.sliding THEN UNCHANGED ops ELSE Spend("changes")
    /\ editor' = [editor EXCEPT !.edits = e, !.sliding = TRUE]
    /\ saves' = Mutated(e)
    /\ OnlyEditor

Release ==
    /\ editor.open /\ editor.sliding
    /\ editor' = [Pushed(editor) EXCEPT !.sliding = FALSE]
    /\ UNCHANGED <<saves, ops>> /\ OnlyEditor

\* A filter, a crop, a rotation or a flip.
Choose(e) ==
    /\ OnEditor /\ Spend("changes")
    /\ editor' = Pushed([editor EXCEPT !.edits = e])
    /\ saves' = Mutated(e)
    /\ OnlyEditor

Revert ==
    /\ OnEditor /\ Spend("changes")
    /\ editor' = Pushed([editor EXCEPT !.edits = Plain])
    /\ saves' = Parted
    /\ OnlyEditor

Undo ==
    /\ OnEditor
    /\ editor' = Restored(editor, IF editor.index > 1 THEN editor.index - 1 ELSE 1)
    /\ saves' = Parted
    /\ UNCHANGED ops /\ OnlyEditor

Redo ==
    /\ OnEditor
    /\ editor' = Restored(editor, IF editor.index < Len(editor.history) THEN editor.index + 1
                                  ELSE editor.index)
    /\ saves' = Parted
    /\ UNCHANGED ops /\ OnlyEditor

Cancel ==
    /\ OnEditor
    /\ editor' = [editor EXCEPT !.open = FALSE]
    /\ UNCHANGED <<saves, ops>> /\ OnlyEditor

\* Done.  "asked" is what the operator saw, "again" that the edits changed or the editor
\* was opened again since.
Done ==
    /\ OnEditor /\ Spend("changes")
    /\ saves' = Append(saves, [at |-> "decoding", picture |-> editor.picture,
                               edits |-> editor.edits, live |-> TRUE, drawn |-> Plain,
                               asked |-> editor.edits, again |-> FALSE])
    /\ UNCHANGED editor /\ OnlyEditor

Only(i, step) ==
    /\ saves' = [saves EXCEPT ![i] = step]
    /\ UNCHANGED <<stored, listing, viewer, fetches, warming, late, editor, copied, deletes, ops>>

\* The picture is decoded, and drawn with the edits.
Drawn(i) ==
    /\ saves[i].at = "decoding"
    /\ Only(i, [saves[i] EXCEPT !.at = "drawn", !.drawn = saves[i].edits])
    /\ UNCHANGED copies

\* Variant: the copy is named for the file of the viewer.
NameOfViewer == viewer.source

\* The photo a copy is named for: that of the editor, by then.
NameOfCopy == editor.source

\* The picture is encoded, sent and written; when, nothing here can tell.
Written(i) ==
    /\ saves[i].at = "drawn"
    /\ copies' = copies \cup {[of |-> NameOfCopy, picture |-> saves[i].picture,
                               edits |-> saves[i].drawn, asked |-> saves[i].asked,
                               again |-> saves[i].again]}
    /\ Only(i, [saves[i] EXCEPT !.at = "written"])

\* The editor and the viewer close, whatever they show by then.
Saved(i) ==
    /\ saves[i].at = "written"
    /\ copied' = saves[i].edits
    /\ saves' = RemoveAt(saves, i)
    /\ editor' = [editor EXCEPT !.open = FALSE, !.sliding = FALSE]
    /\ Shuts
    /\ UNCHANGED <<stored, listing, late, copies, deletes, ops>>

\* An alert, when it was written but its answer was lost too.
SaveFails(i) ==
    /\ saves' = RemoveAt(saves, i)
    /\ UNCHANGED <<stored, listing, viewer, fetches, warming, late, editor, copied, copies,
                   deletes, ops>>

-----------------------------------------------------------------------------
Init ==
    /\ stored = Range(Folder) /\ listing = stored
    /\ viewer = [open |-> FALSE, source |-> None, current |-> None, bound |-> None,
                 stage |-> <<>>, background |-> None, strip |-> 0]
    /\ fetches = <<>> /\ warming = {} /\ late = FALSE
    /\ editor = [open |-> FALSE, source |-> None, picture |-> None, edits |-> None,
                 history |-> <<>>, index |-> 0, sliding |-> FALSE]
    /\ copied = None /\ saves = <<>> /\ copies = {} /\ deletes = {} /\ ops \in Budgets

OfTheViewer ==
    \/ \E f \in Range(Folder) : Click(f)
    \/ \E offset \in {-1, 1} : Navigate(offset)
    \/ \E i \in DOMAIN Folder : Filmstrip(i)
    \/ \E i \in DOMAIN fetches : Fetched(i) \/ FetchFails(i)
    \/ \E w \in warming : Warmed(w)
    \/ Close

OfTheFiles == Relist \/ Delete \/ \E f \in deletes : Deleted(f) \/ DeleteFails(f)

OfTheEditor ==
    \/ Edit \/ PasteEdits \/ CopyEdits
    \/ \E e \in Levels : Slide(e) \/ Choose(e)
    \/ Release \/ Revert \/ Undo \/ Redo \/ Cancel \/ Done
    \/ \E i \in DOMAIN saves : Drawn(i) \/ Written(i) \/ Saved(i) \/ SaveFails(i)

Next == OfTheViewer \/ OfTheFiles \/ OfTheEditor

Spec == Init /\ [][Next]_vars

-----------------------------------------------------------------------------
\* The viewer shows one file: what is on its stage, behind it, and under its buttons is
\* the file of its title, and the arrows go from it.  Left out are a document still
\* awaited, and what a document leaves behind that came after another file was opened, or
\* did not come (late).  A picture never shows behind another file.
ShowsOneFile ==
    viewer.open =>
        /\ viewer.source # None => viewer.background \in {None, viewer.source}
        /\ (~late /\ \A i \in DOMAIN fetches : ~fetches[i].current) =>
               /\ Len(viewer.stage) = 1 /\ viewer.stage[1].file = viewer.source
               /\ viewer.bound = viewer.source /\ viewer.current = viewer.source

\* A copy is of the photo it is named for, with the edits the operator saw when asking for
\* it.  Left out are copies during whose making the photo was edited on or the editor
\* opened again.
CopiesAreAsSeen ==
    \A c \in copies : ~c.again => c.of = c.picture.file /\ c.edits = c.asked

\* The edits shown are those at the editor's place in its history.
HistoryHolds == OnEditor => editor.edits = editor.history[editor.index]

\* The editor's history is a stack to undo and one to redo: a change puts what was shown
\* on the first and empties the second.
Past(ed) == SubSeq(ed.history, 1, ed.index - 1)
Future(ed) == SubSeq(ed.history, ed.index + 1, Len(ed.history))
Stands(ed) == <<Past(ed), ed.history[ed.index], Future(ed)>>

UndoesAndRedoes ==
    editor.open /\ editor'.open =>
        \/ Stands(editor') = Stands(editor)
        \/ Past(editor') = Append(Past(editor), editor.history[editor.index])
           /\ Future(editor') = <<>>
        \/ Past(editor) = Append(Past(editor'), editor'.history[editor'.index])
           /\ Future(editor') = <<editor.history[editor.index]>> \o Future(editor)
        \/ Past(editor') = Append(Past(editor), editor.history[editor.index])
           /\ Future(editor) = <<editor'.history[editor'.index]>> \o Future(editor')
=============================================================================
