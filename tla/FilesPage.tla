------------------------------ MODULE FilesPage ------------------------------
(***************************************************************************)
(* The files page of the browser, public/app.js, and the list of all files *)
(* that src/files.mjs keeps for it: sections (all files, or one folder)    *)
(* whose listings are remembered, loads of several sections at a time,     *)
(* errors tried again by a timer, and operations on files that load the    *)
(* section again when they are done.  A listing is the version of what the *)
(* disk held of its section when it was read.                              *)
(***************************************************************************)
EXTENDS Integers, Sequences, SequencesExt, FiniteSets

CONSTANTS
    Folders,    \* sections of one folder each; "all" is the section of all files
    NotLoaded,  \* null
    MaxClicks,  \* bound: what the user does
    MaxDeeds,   \* bound: operations on files
    MaxLoads    \* bound: loads in flight

FilesPageAssumption ==
    "all" \notin Folders /\ {MaxClicks, MaxDeeds, MaxLoads} \subseteq Nat

VARIABLES
    disk,           \* what each section would list
    allFilesCache,  \* of listAllFiles()
    view,           \* "files" or "other"
    section,        \* the folder or library tab of the page
    files,          \* state.files: the listing shown, and of which section it is
    remembered,     \* state.fileSectionCache
    fileError,      \* state.fileError # null
    loadingKeys,    \* state.filesLoadingKeys
    retries,        \* sections whose retry timer is running
    loads,          \* loads in flight
    deed,           \* the operation at work
    clicks, deeds

page == <<view, section, files, remembered, fileError, loadingKeys, retries, loads>>
server == <<disk, allFilesCache>>
vars == <<server, page, deed, clicks, deeds>>

Sections == Folders \cup {"all"}
Unread == -1    \* an empty list in place of one that could not be loaded
Listing(s, v) == [of |-> s, version |-> v]
Load(s, force, mine) == [of |-> s, force |-> force, mine |-> mine, at |-> "asked", got |-> Unread]
Idle == [at |-> "idle", of |-> "all", version |-> 0, certain |-> TRUE]

-----------------------------------------------------------------------------
(* Loads *)

\* Variant: the section on the page is taken for the one asked for.
IsAlwaysCurrent(s) == TRUE

\* isCurrentRequest()
IsCurrent(s) == section = s

\* restoreFilesSection()
Restored(s, otherwise) == IF remembered[s] # NotLoaded THEN Listing(s, remembered[s]) ELSE otherwise

\* loadFiles() begins, of section s which becomes the page's when it is not.
Begins(s, force, mine, shown) ==
    /\ files' = IF force THEN shown ELSE Restored(s, shown)
    /\ fileError' = FALSE
    /\ loadingKeys' = loadingKeys \cup {s}
    /\ loads' = Append(loads, Load(s, force, mine))

\* render('files') with a listing: it loads the section when there is none, an
\* error, or one that is stale (older than 15 seconds).
Shows(s, listing, stale) ==
    IF (listing = NotLoaded \/ stale \/ fileError) /\ s \notin loadingKeys
    THEN Begins(s, FALSE, FALSE, listing)
    ELSE files' = listing /\ UNCHANGED <<fileError, loadingKeys, loads>>

\* The server: a list it has, which expires, or one it starts to put together.
Serve(i) ==
    /\ loads[i].at = "asked"
    /\ \/ /\ loads[i].of # "all"
          /\ loads' = [loads EXCEPT ![i].at = "answered", ![i].got = disk[loads[i].of]]
       \/ /\ loads[i].of = "all" /\ ~loads[i].force /\ allFilesCache # NotLoaded
          /\ loads' = [loads EXCEPT ![i].at = "answered", ![i].got = allFilesCache]
       \/ /\ loads[i].of = "all"
          /\ loads' = [loads EXCEPT ![i].at = "walking"]
    /\ UNCHANGED <<server, view, section, files, remembered, fileError, loadingKeys, retries,
                   deed, clicks, deeds>>

\* It reads the folders; what it read becomes the list it has, and the reply,
\* when the last folder is read.
Walk(i) ==
    /\ loads[i].at = "walking"
    /\ loads' = [loads EXCEPT ![i].at = "walked", ![i].got = disk["all"]]
    /\ UNCHANGED <<server, view, section, files, remembered, fileError, loadingKeys, retries,
                   deed, clicks, deeds>>

Walked(i) ==
    /\ loads[i].at = "walked"
    /\ allFilesCache' = loads[i].got
    /\ loads' = [loads EXCEPT ![i].at = "answered"]
    /\ UNCHANGED <<disk, view, section, files, remembered, fileError, loadingKeys, retries,
                   deed, clicks, deeds>>

Finish(l) == deed' = IF l.mine THEN [deed EXCEPT !.at = "shown"] ELSE deed

\* Drawing the page with an error begins another load of its section, if a load that
\* ended meanwhile took the key away.
Again(s) == IsCurrent(s) /\ view = "files" /\ s \notin loadingKeys

Ends(i, error, again) ==
    LET l == loads[i]
        rest == RemoveAt(loads, i)
    IN  /\ fileError' = (error /\ ~again)
        /\ loads' = IF again THEN Append(rest, Load(l.of, FALSE, FALSE)) ELSE rest
        /\ loadingKeys' = IF again THEN loadingKeys \cup {l.of} ELSE loadingKeys \ {l.of}
        /\ Finish(l)

\* A listing comes: remembered, and shown if its section still is the page's.
Reply(i) ==
    LET l == loads[i] IN
    /\ l.at = "answered"
    /\ remembered' = [remembered EXCEPT ![l.of] = l.got]
    /\ files' = IF IsCurrent(l.of) THEN Listing(l.of, l.got) ELSE files
    /\ Ends(i, fileError, fileError /\ Again(l.of))
    /\ UNCHANGED <<server, view, section, retries, clicks, deeds>>

\* Variant: nothing tries again.
GivenUp(s) == retries

\* The timer set when the load of the page's section fails.
RetryLater(s) == IF IsCurrent(s) THEN retries \cup {s} ELSE retries

\* A load fails: an error of the page's section is shown, and tried again.
Fail(i) ==
    LET l == loads[i]
        current == IsCurrent(l.of)
        shown == IF current /\ files = NotLoaded THEN Listing(l.of, Unread) ELSE files
    IN  /\ files' = IF Again(l.of) THEN Restored(l.of, shown) ELSE shown
        /\ retries' = RetryLater(l.of)
        /\ Ends(i, fileError \/ current, Again(l.of))
        /\ UNCHANGED <<server, view, section, remembered, clicks, deeds>>

\* 2.5 seconds after a failure, if nothing has changed.
Retry(s) ==
    /\ s \in retries
    /\ retries' = retries \ {s}
    /\ IF view = "files" /\ IsCurrent(s) /\ s \notin loadingKeys
       THEN Begins(s, FALSE, FALSE, files)
       ELSE UNCHANGED <<files, fileError, loadingKeys, loads>>
    /\ UNCHANGED <<server, view, section, remembered, deed, clicks, deeds>>

-----------------------------------------------------------------------------
(* The user *)

Clicks ==
    /\ clicks < MaxClicks /\ Len(loads) < MaxLoads
    /\ clicks' = clicks + 1
    /\ UNCHANGED <<server, remembered, retries, deed, deeds>>

\* A folder of the list: the listing is dropped.
Open(s) ==
    /\ Clicks
    /\ view = "files" /\ s # section
    /\ section' = s
    /\ Shows(s, NotLoaded, FALSE)
    /\ UNCHANGED view

\* A library of the sidebar: what is remembered of it is shown, and loaded anew
\* when the page was on the screen already.
Sidebar(s) ==
    /\ Clicks
    /\ section' = s
    /\ view' = "files"
    /\ IF view = "files" /\ s \notin loadingKeys
       THEN Begins(s, FALSE, FALSE, Restored(s, NotLoaded))
       ELSE \E stale \in BOOLEAN : Shows(s, Restored(s, NotLoaded), stale)

Leave == Clicks /\ view = "files" /\ view' = "other" /\ UNCHANGED <<section, files, fileError, loadingKeys, loads>>

Return ==
    /\ Clicks
    /\ view = "other" /\ view' = "files"
    /\ \E stale \in BOOLEAN : Shows(section, files, stale)
    /\ UNCHANGED section

\* The refresh button: loadFiles(true)
Refresh == Clicks /\ view = "files" /\ Begins(section, TRUE, FALSE, files) /\ UNCHANGED <<view, section>>

-----------------------------------------------------------------------------
(* Operations on files: a new folder, a deletion, a conversion, uploads *)

Submit ==
    /\ deed.at \in {"idle", "shown"} /\ deeds < MaxDeeds
    /\ view = "files"
    /\ deed' = [Idle EXCEPT !.at = "sent", !.of = section]
    /\ deeds' = deeds + 1
    /\ UNCHANGED <<server, page, clicks>>

\* Variant: a deletion that does not invalidate.
KeptAllFiles == allFilesCache

\* invalidateAllFilesCache()
InvalidateAllFilesCache == NotLoaded

After(converting) ==
    [deed EXCEPT !.at = "done", !.version = disk[deed.of] + 1,
       !.certain = ~converting /\ ~\E i \in DOMAIN loads : loads[i].of = deed.of]

\* The server does it; a conversion alone leaves the list of all files as it is.
\* "certain": neither that, nor is a listing of the section in flight.
Done ==
    /\ deed.at = "sent"
    /\ \/ allFilesCache' = InvalidateAllFilesCache /\ deed' = After(FALSE)
       \/ UNCHANGED allFilesCache /\ deed' = After(TRUE)
    /\ disk' = [s \in Sections |-> IF s \in {"all", deed.of} THEN disk[s] + 1 ELSE disk[s]]
    /\ UNCHANGED <<page, clicks, deeds>>

\* Of the section the page shows by now.
LoadsAgain(force) ==
    /\ deed' = [deed EXCEPT !.at = "loading", !.certain = @ /\ deed.of = section]
    /\ Begins(section, force, TRUE, files)
    /\ UNCHANGED <<view, section, remembered, retries>>

LoadsNothing == deed' = [deed EXCEPT !.at = "shown"] /\ UNCHANGED page

\* A deletion, a conversion and uploads await loadFiles(), which returns at once when a
\* load of the section is in flight; the dialog of a new folder clicks the refresh
\* button, which another page does not have, and which may be waiting for a load.
Reload ==
    /\ deed.at = "done" /\ Len(loads) < MaxLoads
    /\ \/ IF section \in loadingKeys THEN LoadsNothing ELSE LoadsAgain(FALSE)
       \/ IF view # "files" \/ \E i \in DOMAIN loads : loads[i].force
          THEN LoadsNothing ELSE LoadsAgain(TRUE)
    /\ UNCHANGED <<server, clicks, deeds>>

-----------------------------------------------------------------------------
Init ==
    /\ disk = [s \in Sections |-> 0]
    /\ allFilesCache = NotLoaded
    /\ view = "files"
    /\ section = "all"
    /\ files = NotLoaded
    /\ remembered = [s \in Sections |-> NotLoaded]
    /\ fileError = FALSE
    /\ loadingKeys = {"all"}
    /\ loads = <<Load("all", FALSE, FALSE)>>
    /\ retries = {}
    /\ deed = Idle
    /\ clicks = 0 /\ deeds = 0

Next ==
    \/ \E s \in Sections : Open(s) \/ Sidebar(s) \/ Retry(s)
    \/ Leave \/ Return \/ Refresh
    \/ Submit \/ Done \/ Reload
    \/ \E i \in DOMAIN loads : Serve(i) \/ Walk(i) \/ Walked(i) \/ Reply(i) \/ Fail(i)

Spec == Init /\ [][Next]_vars

Served(s) == \E i \in DOMAIN loads : loads[i].of = s /\ Serve(i)
Replied(s) == \E i \in DOMAIN loads : loads[i].of = s /\ Reply(i)

\* The server answers, timers fire, and a section asked for again and again is
\* read in the end.
FairSpec ==
    /\ Spec
    /\ \A s \in Sections : WF_vars(Retry(s)) /\ SF_vars(Served(s)) /\ SF_vars(Replied(s))
    /\ SF_vars(\E i \in DOMAIN loads : Walk(i))
    /\ SF_vars(\E i \in DOMAIN loads : Walked(i))
    /\ WF_vars(Reload)

-----------------------------------------------------------------------------
\* The listing on the page is of the section the user has chosen, in whatever
\* order the replies come.
ListingBelongs == view = "files" /\ files # NotLoaded => files.of = section

\* After an operation the listing shows it, if the user has stayed, no other listing
\* of the section is in flight, and it was no conversion: nothing the server or the
\* page remembers is taken for the new one.
DeedShows ==
    /\ deed.at = "loading" /\ deed'.at = "shown" /\ deed.certain
    /\ ~fileError' /\ section = deed.of
    /\ ~\E i \in DOMAIN loads' : loads'[i].of = deed.of
    => files'.version >= deed.version

DeedShown == [][DeedShows]_vars

\* A files page is not left without a listing: errors are tried again.
Bare == view = "files" /\ (files = NotLoaded \/ files.version = Unread)
Recovers == Bare ~> ~Bare
=============================================================================
