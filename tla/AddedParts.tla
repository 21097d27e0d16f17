----------------------------- MODULE AddedParts -----------------------------
(***************************************************************************)
(* Scripts that add a part of their own to the pages app.js paints:        *)
(* admin-security.js (groups, sign-in verification, automation),           *)
(* identity-providers.js and kubernetes.js.  Painting a page wipes it; a   *)
(* mutation observer then notices that the part is missing, reads what it  *)
(* shows and puts it in when the reply comes.  An operation started from   *)
(* the part refreshes it.  What is shown is the version of the server's    *)
(* state that was read.                                                    *)
(***************************************************************************)
EXTENDS Integers, Sequences, SequencesExt

CONSTANTS
    Parts,      \* the scripts' parts, one of which a behaviour is about
    MaxPaints,  \* bound: pages the user has painted
    MaxMoves,   \* bound: mutations of the page by other scripts
    MaxDeeds,   \* bound: operations
    MaxReads    \* bound: reads in flight

AddedPartsAssumption ==
    /\ Parts \subseteq {"groups", "totp", "automation", "providers", "kubernetes"}
    /\ {MaxPaints, MaxMoves, MaxDeeds} \subseteq Nat /\ MaxReads \in Nat \ {0}

VARIABLES
    subject,    \* the part
    on,         \* its page is the one painted
    paint,      \* which painting of a page is on the screen
    loaded,     \* dataset.loaded of the panel of that painting
    shown,      \* versions of the copies of the part in it
    pending,    \* the observer has a call to make
    reads,      \* reads in flight
    failed,     \* a read of this painting failed
    version,    \* of the server's state
    deed,       \* the operation at work
    paints, moves, deeds

vars == <<subject, on, paint, loaded, shown, pending, reads, failed, version, deed, paints, moves, deeds>>

Panel == subject = "kubernetes"
\* Inserted after the heading of whatever page is painted by then.
LandsAnywhere == subject \in {"groups", "automation", "providers"}
Removes == subject \in {"groups", "providers"}
Navigates == subject \in {"groups", "totp", "automation"}
Idle == [at |-> "idle", version |-> 0, certain |-> FALSE, back |-> FALSE]
Read == [of |-> paint, at |-> "asked", got |-> 0]

-----------------------------------------------------------------------------
(* The page *)

Painted(here) ==
    /\ on' = here
    /\ paint' = paint + 1
    /\ loaded' = FALSE /\ shown' = <<>> /\ failed' = FALSE
    /\ pending' = TRUE

\* Another page, this one again, or a refresh of it.
Paint ==
    /\ paints < MaxPaints /\ paints' = paints + 1
    /\ deed.at # "home"
    /\ \E here \in BOOLEAN : Painted(here)
    /\ UNCHANGED <<subject, reads, version, deed, moves, deeds>>

Mutate ==
    /\ moves < MaxMoves /\ moves' = moves + 1
    /\ ~pending /\ pending' = TRUE
    /\ UNCHANGED <<subject, on, paint, loaded, shown, reads, failed, version, deed, paints, deeds>>

\* refresh() of a panel does nothing while another is at work; the others look
\* for a copy of theirs.
Wanted == on /\ IF Panel THEN ~loaded /\ reads = <<>> ELSE shown = <<>>

\* The observer's call, 140 ms after the last mutation, or that of hashchange.
Enhance ==
    /\ pending /\ pending' = FALSE
    /\ Len(reads) < MaxReads
    /\ reads' = IF Wanted THEN Append(reads, Read) ELSE reads
    /\ loaded' = (loaded \/ Wanted)
    /\ UNCHANGED <<subject, on, paint, shown, failed, version, deed, paints, moves, deeds>>

-----------------------------------------------------------------------------
(* Reads *)

Serve(i) ==
    /\ reads[i].at = "asked"
    /\ reads' = [reads EXCEPT ![i].at = "answered", ![i].got = version]
    /\ UNCHANGED <<subject, on, paint, loaded, shown, pending, failed, version, deed, paints, moves, deeds>>

\* A copy is inserted; whether there is one by now is not asked again.
ReplyInserted(i) ==
    /\ ~Panel /\ reads[i].at = "answered"
    /\ IF on \/ LandsAnywhere
       THEN shown' = Append(shown, reads[i].got) /\ pending' = TRUE
       ELSE UNCHANGED <<shown, pending>>
    /\ reads' = RemoveAt(reads, i)
    /\ UNCHANGED <<subject, on, paint, loaded, failed, version, deed, paints, moves, deeds>>

FailInserted(i) ==
    /\ ~Panel
    /\ reads' = RemoveAt(reads, i)
    /\ failed' = (failed \/ reads[i].of = paint)
    /\ UNCHANGED <<subject, on, paint, loaded, shown, pending, version, deed, paints, moves, deeds>>

\* Variant: the panel that replaced the one just read is left to the observer.
LeaveToObserver(i) == reads' = RemoveAt(reads, i) /\ UNCHANGED loaded

\* finally: a panel other than the one just read is read now.
ReadTheNewPanel(i) ==
    LET other == on /\ reads[i].of # paint IN
    /\ reads' = IF other THEN <<Read>> ELSE RemoveAt(reads, i)
    /\ loaded' = (loaded \/ other)

\* The panel read is filled, with the reply or the error, if it is still there.
ReplyPanel(i) ==
    /\ Panel /\ reads[i].at = "answered"
    /\ IF on /\ reads[i].of = paint
       THEN shown' = <<reads[i].got>> /\ pending' = TRUE /\ failed' = FALSE
       ELSE UNCHANGED <<shown, pending, failed>>
    /\ ReadTheNewPanel(i)
    /\ UNCHANGED <<subject, on, paint, version, deed, paints, moves, deeds>>

FailPanel(i) ==
    /\ Panel
    /\ IF on /\ reads[i].of = paint
       THEN shown' = <<>> /\ pending' = TRUE /\ failed' = TRUE
       ELSE UNCHANGED <<shown, pending, failed>>
    /\ ReadTheNewPanel(i)
    /\ UNCHANGED <<subject, on, paint, version, deed, paints, moves, deeds>>

-----------------------------------------------------------------------------
(* Operations *)

Submit ==
    /\ deed.at \in {"idle", "refreshed"} /\ deeds < MaxDeeds
    /\ on /\ shown # <<>>
    /\ deed' = [Idle EXCEPT !.at = "sent"]
    /\ deeds' = deeds + 1
    /\ UNCHANGED <<subject, on, paint, loaded, shown, pending, reads, failed, version, paints, moves>>

\* The server does it.  "certain": there was one copy, and nothing is being read.
Commit ==
    /\ deed.at = "sent"
    /\ version' = version + 1
    /\ deed' = [deed EXCEPT !.at = "done", !.version = version + 1,
                            !.certain = reads = <<>> /\ Len(shown) <= 1]
    /\ UNCHANGED <<subject, on, paint, loaded, shown, pending, reads, failed, paints, moves, deeds>>

\* An error is written into the form; a panel whose preview was accepted is refreshed
\* all the same.
Reject ==
    /\ deed.at = "sent"
    /\ \/ deed' = Idle
       \/ Panel /\ deed' = [deed EXCEPT !.at = "done"]
    /\ UNCHANGED <<subject, on, paint, loaded, shown, pending, reads, failed, version, paints, moves, deeds>>

\* Variant: the copy there is is left in its place.
WithoutOne(copies) == copies

\* q('.groups-admin')?.remove()
WithoutFirst(copies) == IF copies = <<>> THEN copies ELSE Tail(copies)

\* refreshGroupsPanel(), of its own page only, and refreshProviders()
RefreshByRemoval ==
    LET left == IF subject = "groups" /\ ~on THEN shown ELSE WithoutFirst(shown) IN
    /\ Removes /\ deed.at = "done" /\ Len(reads) < MaxReads
    /\ deed' = [deed EXCEPT !.at = "refreshed"]
    /\ shown' = left
    /\ pending' = (pending \/ left # shown)
    /\ reads' = IF on /\ left = <<>> THEN Append(reads, Read) ELSE reads
    /\ UNCHANGED <<subject, on, paint, loaded, failed, version, paints, moves, deeds>>

\* refreshCurrent(): to the home page, and back in the next frame.
RefreshByLeaving ==
    /\ Navigates /\ deed.at = "done"
    /\ deed' = [deed EXCEPT !.at = "home", !.back = on]
    /\ Painted(FALSE)
    /\ UNCHANGED <<subject, reads, version, paints, moves, deeds>>

ComeBack ==
    /\ deed.at = "home"
    /\ deed' = [deed EXCEPT !.at = "refreshed"]
    /\ Painted(deed.back)
    /\ UNCHANGED <<subject, reads, version, paints, moves, deeds>>

\* A token or a webhook is created: its secret is shown, the list stays.
ShowSecret ==
    /\ subject = "automation" /\ deed.at = "done"
    /\ deed' = Idle
    /\ UNCHANGED <<subject, on, paint, loaded, shown, pending, reads, failed, version, paints, moves, deeds>>

\* mutate(): finally refresh()
RefreshPanel ==
    /\ Panel /\ deed.at = "done"
    /\ deed' = [deed EXCEPT !.at = "refreshed"]
    /\ reads' = IF on /\ reads = <<>> THEN <<Read>> ELSE reads
    /\ loaded' = (loaded \/ (on /\ reads = <<>>))
    /\ UNCHANGED <<subject, on, paint, shown, pending, failed, version, paints, moves, deeds>>

-----------------------------------------------------------------------------
Init ==
    /\ subject \in Parts
    /\ on = FALSE /\ paint = 0 /\ loaded = FALSE /\ shown = <<>>
    /\ pending = FALSE /\ reads = <<>> /\ failed = FALSE
    /\ version = 0 /\ deed = Idle
    /\ paints = 0 /\ moves = 0 /\ deeds = 0

Refresh == RefreshByRemoval \/ RefreshByLeaving \/ ComeBack \/ ShowSecret \/ RefreshPanel
Answered == \E i \in DOMAIN reads : Serve(i) \/ ReplyInserted(i) \/ ReplyPanel(i)

Next ==
    \/ Paint \/ Mutate \/ Enhance
    \/ \E i \in DOMAIN reads : FailInserted(i) \/ FailPanel(i)
    \/ Answered
    \/ Submit \/ Commit \/ Reject \/ Refresh

\* Timers fire, reads are answered, and a page left for a frame is returned to.
Fairness == WF_vars(Enhance) /\ WF_vars(Answered) /\ WF_vars(Refresh)

Spec == Init /\ [][Next]_vars
FairSpec == Spec /\ Fairness

-----------------------------------------------------------------------------
\* A page gets its part, however often it is painted again while a read is in
\* flight, unless a read of that painting fails.
Missing == on /\ ~failed /\ shown = <<>>
Appears == Missing ~> ~Missing

\* After an operation has refreshed the part, no copy on its page is older than
\* the operation, unless older reads were in flight or copies were there twice.
DeedShown ==
    deed.at = "refreshed" /\ deed.certain /\ on /\ reads = <<>>
        => \A i \in DOMAIN shown : shown[i] >= deed.version
=============================================================================
