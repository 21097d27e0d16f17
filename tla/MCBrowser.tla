------------------------------ MODULE MCBrowser ------------------------------
(***************************************************************************)
(* Instances for TLC of three modules of the browser: the files page, the  *)
(* parts that scripts add to the pages of app.js, and the file viewer.  An *)
(* initial state chooses the one that runs, "part"; the variables that are *)
(* not its own stay Off, and the first two use "deed" and "deeds".         *)
(***************************************************************************)
EXTENDS Integers, Sequences, FiniteSets, TLC

CONSTANTS
    Folders, MaxClicks, MaxLoads,           \* the files page
    Parts, MaxPaints, MaxMoves, MaxReads,   \* parts that scripts add
    MaxDeeds,                               \* of either
    Folder, Photos, Sizes, Levels, Budgets, \* the file viewer
    NotLoaded, Off

VARIABLES
    part, deed, deeds,
    disk, allFilesCache, view, section, files, remembered, fileError, loadingKeys,
    retries, loads, clicks,
    subject, on, paint, loaded, shown, pending, reads, failed, version, paints, moves,
    stored, listing, viewer, fetches, warming, late, editor, copied, saves, copies, deletes, ops

\* The folder of the viewer: two photos, and a document between them.
PhotosAndDocument == <<"p", "d", "q">>

\* Either three files are opened, or two and there is a change, or one and there are two.
OpensOrChanges == {[opens |-> 3, changes |-> 0], [opens |-> 2, changes |-> 1],
                   [opens |-> 1, changes |-> 2]}

Files == INSTANCE FilesPage

Added == INSTANCE AddedParts

Viewer == INSTANCE FileViewer WITH None <- Off

ASSUME BrowserAssumption ==
    Files!FilesPageAssumption /\ Added!AddedPartsAssumption /\ Viewer!FileViewerAssumption

filesOwn == <<disk, allFilesCache, view, section, files, remembered, fileError, loadingKeys,
              retries, loads, clicks>>
addedOwn == <<subject, on, paint, loaded, shown, pending, reads, failed, version, paints, moves>>
viewerOwn == <<stored, listing, viewer, fetches, warming, late, editor, copied, saves, copies,
               deletes, ops>>
vars == <<part, deed, deeds, filesOwn, addedOwn, viewerOwn>>

FilesOff ==
    /\ disk = Off /\ allFilesCache = Off /\ view = Off /\ section = Off /\ files = Off
    /\ remembered = Off /\ fileError = Off /\ loadingKeys = Off /\ retries = Off
    /\ loads = Off /\ clicks = Off

AddedOff ==
    /\ subject = Off /\ on = Off /\ paint = Off /\ loaded = Off /\ shown = Off
    /\ pending = Off /\ reads = Off /\ failed = Off /\ version = Off /\ paints = Off
    /\ moves = Off

ViewerOff ==
    /\ stored = Off /\ listing = Off /\ viewer = Off /\ fetches = Off /\ warming = Off
    /\ late = Off /\ editor = Off /\ copied = Off /\ saves = Off /\ copies = Off
    /\ deletes = Off /\ ops = Off

Init ==
    \/ part = "files" /\ Files!Init /\ AddedOff /\ ViewerOff
    \/ part = "added" /\ Added!Init /\ FilesOff /\ ViewerOff
    \/ part = "viewer" /\ Viewer!Init /\ FilesOff /\ AddedOff /\ deed = Off /\ deeds = Off

\* Steps of the part that runs.
OfFiles(A) == part = "files" /\ A /\ UNCHANGED <<part, addedOwn, viewerOwn>>
OfAdded(A) == part = "added" /\ A /\ UNCHANGED <<part, filesOwn, viewerOwn>>
OfViewer(A) == part = "viewer" /\ A /\ UNCHANGED <<part, deed, deeds, filesOwn, addedOwn>>

Next == OfFiles(Files!Next) \/ OfAdded(Added!Next) \/ OfViewer(Viewer!Next)

\* The fairness of each module's FairSpec.  One part runs for good, so a fairness
\* condition of each part is one of the disjunction of their steps.
Spec ==
    /\ Init /\ [][Next]_vars
    /\ \A f \in Folders : WF_vars(OfFiles(Files!Retry(f)) \/ OfAdded(Added!Enhance))
    /\ WF_vars(OfFiles(Files!Retry("all")) \/ OfAdded(Added!Answered))
    /\ WF_vars(OfFiles(Files!Reload) \/ OfAdded(Added!Refresh))
    /\ \A s \in Folders \cup {"all"} : SF_vars(OfFiles(Files!Served(s))) /\ SF_vars(OfFiles(Files!Replied(s)))
    /\ SF_vars(OfFiles(\E i \in DOMAIN loads : Files!Walk(i)))
    /\ SF_vars(OfFiles(\E i \in DOMAIN loads : Files!Walked(i)))

-----------------------------------------------------------------------------
\* The properties of the modules, each of the part that runs.
\* What is listed, shown or saved belongs to what its name says.
ListingBelongs ==
    /\ part = "files" => Files!ListingBelongs
    /\ part = "viewer" =>
           Viewer!ShowsOneFile /\ Viewer!CopiesAreAsSeen /\ Viewer!HistoryHolds

\* Once an operation is done, what its page shows is no older; and undoing in the editor
\* shows again what the operator saw before.
DeedsAreShown ==
    /\ [](part = "added" => Added!DeedShown)
    /\ [][/\ part = "files" => Files!DeedShows
          /\ part = "viewer" => Viewer!UndoesAndRedoes]_vars

\* A page does not stay without what it is there to show: Recovers of FilesPage and
\* Appears of AddedParts.
Bare == (part = "files" /\ Files!Bare) \/ (part = "added" /\ Added!Missing)
PagesFill == Bare ~> ~Bare
=============================================================================
