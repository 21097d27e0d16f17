----------------------------- MODULE StoragePage -----------------------------
(***************************************************************************)
(* How a disk that is attached comes to be shown: the storage page of the  *)
(* browser (public/storage-manager.js fills a slot that app.js paints, and *)
(* polls), the scan that app.js makes every 12 seconds                     *)
(* (autoDetectStorage), and the inventory of storage that src/server.mjs   *)
(* keeps, refreshed one at a time.  What is known of the storage is a      *)
(* record of versions: disks, definitions of pools, content policies.      *)
(***************************************************************************)
EXTENDS Integers, Sequences, SequencesExt

CONSTANTS
    Nothing,        \* null
    Reading,        \* a refresh that has not yet looked at the disks
    Overtaking,     \* whether one reply may overtake another
    MaxChanges,     \* bound: disks attached and operations on pools
    MaxClicks,      \* bound: what the user does
    MaxFailures,    \* bound: requests that fail
    MaxReads        \* bound: reads of the pools in flight

StoragePageAssumption ==
    /\ Overtaking \in BOOLEAN
    /\ {MaxChanges, MaxClicks, MaxFailures} \subseteq Nat /\ MaxReads \in Nat \ {0}

VARIABLES
    storage,        \* what there is
    overviewCache,  \* overviewStorageCache: the disks of it, Nothing at first
    refresh,        \* overviewStorageRefresh
    page,           \* "storage" or "other"
    paint,          \* which painting of the slot is on the screen
    slot,           \* what it says: "loading", "error", or "data"
    data,           \* storageUi.data
    polled,         \* storageInventorySignature of storage-manager.js
    reads,          \* reads of the pools in flight, oldest first
    remembered,     \* lastStorageSignature of app.js
    scan,           \* autoDetectStorage() or the refresh button at work
    deed,           \* the operation at work
    changes, clicks, failures

server == <<storage, overviewCache, refresh>>
manager == <<page, paint, slot, data, polled, reads>>
bounds == <<changes, clicks, failures>>
vars == <<server, manager, remembered, scan, deed, bounds>>

Provisional == -1      \* quickStorageSummary(): no disks are listed
NoScan == [at |-> "off", got |-> Nothing, button |-> FALSE]
NoDeed == [at |-> "idle", field |-> "pools", version |-> 0]
Read(kind, of, mine) == [kind |-> kind, of |-> of, mine |-> mine, got |-> Nothing]
Signature(s) == <<s.disks, s.pools>>

-----------------------------------------------------------------------------
(* The server *)

Attach ==
    /\ changes < MaxChanges /\ changes' = changes + 1
    /\ storage' = [storage EXCEPT !.disks = @ + 1]
    /\ UNCHANGED <<overviewCache, refresh, manager, remembered, scan, deed, clicks, failures>>

\* refreshOverviewStorage() looks at the disks; the next step stores what it read
\* and answers the scan that waits.
Look ==
    /\ refresh = Reading
    /\ refresh' = storage.disks
    /\ UNCHANGED <<storage, overviewCache, manager, remembered, scan, deed, bounds>>

Store ==
    /\ refresh \in Nat
    /\ overviewCache' = refresh /\ refresh' = Nothing
    /\ scan' = IF scan.at = "asked" THEN [scan EXCEPT !.at = "scanned", !.got = refresh] ELSE scan
    /\ UNCHANGED <<storage, manager, remembered, deed, bounds>>

\* It throws: the finally clause lets the next one begin, and the scan fails.
RefreshFails ==
    /\ refresh # Nothing /\ refresh' = Nothing
    /\ failures < MaxFailures /\ failures' = failures + 1
    /\ scan' = IF scan.at = "asked" THEN NoScan ELSE scan
    /\ UNCHANGED <<storage, overviewCache, manager, remembered, deed, changes, clicks>>

Refreshing == IF refresh = Nothing THEN Reading ELSE refresh

-----------------------------------------------------------------------------
(* The slot of the storage page *)

\* The page is painted; the observer calls refreshStorageManager() at once.
Painted ==
    /\ paint' = paint + 1
    /\ slot' = "loading"
    /\ reads' = Append(reads, Read("slot", paint + 1, FALSE))

Visit ==
    /\ clicks < MaxClicks /\ clicks' = clicks + 1
    /\ page' = "storage" /\ Len(reads) < MaxReads
    /\ Painted
    /\ UNCHANGED <<server, data, polled, remembered, scan, deed, changes, failures>>

Leave ==
    /\ clicks < MaxClicks /\ clicks' = clicks + 1
    /\ page = "storage" /\ page' = "other"
    /\ UNCHANGED <<server, paint, slot, data, polled, reads, remembered, scan, deed, changes, failures>>

\* Every 8 seconds; one at a time is a bound.
Poll ==
    /\ page = "storage" /\ Len(reads) < MaxReads
    /\ ~\E i \in DOMAIN reads : reads[i].kind = "poll"
    /\ reads' = Append(reads, Read("poll", paint, FALSE))
    /\ UNCHANGED <<server, page, paint, slot, data, polled, remembered, scan, deed, bounds>>

InOrder(i) == Overtaking \/ i = 1

Serve(i) ==
    /\ reads[i].got = Nothing
    /\ Overtaking \/ \A j \in 1..(i - 1) : reads[j].got # Nothing
    /\ reads' = [reads EXCEPT ![i].got = storage]
    /\ UNCHANGED <<server, page, paint, slot, data, polled, remembered, scan, deed, bounds>>

\* renderStorageManager(): into the slot there is now.
Shows(new) ==
    /\ data' = new
    /\ slot' = IF page = "storage" THEN "data" ELSE slot

Finished == [deed EXCEPT !.at = "shown"]

ReplySlot(i) ==
    /\ reads[i].kind = "slot" /\ reads[i].got # Nothing /\ InOrder(i)
    /\ Shows(reads[i].got)
    /\ deed' = IF reads[i].mine THEN Finished ELSE deed
    /\ reads' = RemoveAt(reads, i)
    /\ UNCHANGED <<server, page, paint, polled, remembered, scan, bounds>>

\* A poll shows what it read only if it differs from the last poll, or nothing
\* has been read before.
ReplyPoll(i) ==
    LET new == reads[i].got
        differs == polled # Nothing /\ polled # Signature(new)
    IN  /\ reads[i].kind = "poll" /\ new # Nothing /\ InOrder(i)
        /\ IF differs \/ data = Nothing THEN Shows(new) ELSE UNCHANGED <<slot, data>>
        /\ polled' = Signature(new)
        /\ reads' = RemoveAt(reads, i)
        /\ UNCHANGED <<server, page, paint, remembered, scan, deed, bounds>>

\* The error is written into the slot that was on the page when it was asked.
FailRead(i) ==
    /\ InOrder(i) /\ failures < MaxFailures
    /\ failures' = failures + 1
    /\ slot' = IF reads[i].kind = "slot" /\ reads[i].of = paint /\ page = "storage"
               THEN "error" ELSE slot
    /\ deed' = IF reads[i].mine THEN NoDeed ELSE deed
    /\ reads' = RemoveAt(reads, i)
    /\ UNCHANGED <<server, page, paint, data, polled, remembered, scan, changes, clicks>>

-----------------------------------------------------------------------------
(* Operations: a definition created or removed, a content policy *)

Submit ==
    /\ deed.at \in {"idle", "shown"} /\ changes < MaxChanges
    /\ page = "storage" /\ data # Nothing
    /\ \E f \in {"pools", "policy"} : deed' = [NoDeed EXCEPT !.at = "sent", !.field = f]
    /\ changes' = changes + 1
    /\ UNCHANGED <<server, manager, remembered, scan, clicks, failures>>

Commit ==
    /\ deed.at = "sent"
    /\ storage' = [storage EXCEPT ![deed.field] = @ + 1]
    /\ deed' = [deed EXCEPT !.at = "done", !.version = storage'[deed.field]]
    /\ UNCHANGED <<overviewCache, refresh, manager, remembered, scan, bounds>>

Reject ==
    /\ deed.at = "sent" /\ deed' = NoDeed
    /\ UNCHANGED <<server, manager, remembered, scan, bounds>>

\* Variant: what has been read before will do.
ShowHeld == deed' = Finished /\ UNCHANGED reads

ReadAgain == deed' = [deed EXCEPT !.at = "reading"] /\ reads' = Append(reads, Read("slot", paint, TRUE))

\* await refreshStorageManager(): of the slot there is by now, if there is one.
Refresh ==
    /\ deed.at = "done" /\ Len(reads) < MaxReads
    /\ ReadAgain
    /\ slot' = IF page = "storage" THEN "loading" ELSE slot
    /\ UNCHANGED <<server, page, paint, data, polled, remembered, scan, bounds>>

-----------------------------------------------------------------------------
(* autoDetectStorage() *)

\* /api/storage/scan forces a refresh, or waits for the one at work; by the timer
\* (one at a time is a bound) or by the refresh button.
ScanBegins ==
    /\ scan.at = "off"
    /\ \/ scan' = [NoScan EXCEPT !.at = "asked"] /\ UNCHANGED clicks
       \/ /\ page = "storage" /\ clicks < MaxClicks
          /\ scan' = [NoScan EXCEPT !.at = "asked", !.button = TRUE]
          /\ clicks' = clicks + 1
    /\ refresh' = Refreshing
    /\ UNCHANGED <<storage, overviewCache, manager, remembered, deed, changes, failures>>

\* Variant: the signature of the scan is remembered as soon as it is seen.
KeptEarly(got) == got

\* lastStorageSignature is left until the overview has come.
KeptSoFar(got) == remembered

Scanned ==
    /\ scan.at = "scanned"
    /\ scan' = IF scan.button \/ scan.got # remembered THEN [scan EXCEPT !.at = "wanted"] ELSE NoScan
    /\ remembered' = KeptSoFar(scan.got)
    /\ UNCHANGED <<server, manager, deed, bounds>>

\* /api/overview answers with what is cached, and has it refreshed when that is
\* 15 seconds old.
Overview ==
    /\ scan.at = "wanted"
    /\ scan' = [scan EXCEPT !.at = "fetched",
                            !.got = IF overviewCache = Nothing THEN Provisional ELSE overviewCache]
    /\ \/ refresh' = Refreshing
       \/ overviewCache # Nothing /\ UNCHANGED refresh
    /\ UNCHANGED <<storage, overviewCache, manager, remembered, deed, bounds>>

\* Its signature is remembered and the page painted.
Fetched ==
    /\ scan.at = "fetched" /\ Len(reads) < MaxReads
    /\ remembered' = scan.got
    /\ scan' = NoScan
    /\ IF page = "storage" THEN Painted ELSE UNCHANGED <<paint, slot, reads>>
    /\ UNCHANGED <<server, page, data, polled, deed, bounds>>

ScanFails ==
    /\ scan.at # "off" /\ failures < MaxFailures
    /\ failures' = failures + 1
    /\ scan' = NoScan
    /\ UNCHANGED <<server, manager, remembered, deed, changes, clicks>>

-----------------------------------------------------------------------------
\* showConsole(): the overview of the server, cold or not, has been remembered.
Init ==
    /\ storage = [disks |-> 0, pools |-> 0, policy |-> 0]
    /\ overviewCache \in {Nothing, 0}
    /\ refresh = IF overviewCache = Nothing THEN Reading ELSE Nothing
    /\ remembered = IF overviewCache = Nothing THEN Provisional ELSE 0
    /\ page = "other" /\ paint = 0 /\ slot = "loading"
    /\ data = Nothing /\ polled = Nothing /\ reads = <<>>
    /\ scan = NoScan /\ deed = NoDeed
    /\ changes = 0 /\ clicks = 0 /\ failures = 0

Replies == \E i \in DOMAIN reads : Serve(i) \/ ReplySlot(i) \/ ReplyPoll(i)

Next ==
    \/ Attach \/ Look \/ Store \/ RefreshFails
    \/ Visit \/ Leave \/ Poll
    \/ Replies \/ \E i \in DOMAIN reads : FailRead(i)
    \/ Submit \/ Commit \/ Reject \/ Refresh
    \/ ScanBegins \/ Scanned \/ Overview \/ Fetched \/ ScanFails

\* Timers fire and requests are answered.
Fairness ==
    /\ WF_vars(Look \/ Store) /\ WF_vars(Replies) /\ WF_vars(Refresh)
    /\ WF_vars(ScanBegins \/ Scanned \/ Overview) /\ SF_vars(Fetched)

Spec == Init /\ [][Next]_vars
FairSpec == Spec /\ Fairness

-----------------------------------------------------------------------------
\* A disk that is attached while the storage page is open, or before, is shown
\* in the end: a poll that misses it, a failed request and a stale inventory of
\* the server are made up for.  (An error in the slot stays.)
DisksShown ==
    page = "storage" => slot = "error" \/ (slot = "data" /\ data.disks = storage.disks)

DisksDetected == <>[]DisksShown

\* Once the handler of an operation is done, what the page holds is no older.
DeedShown == deed.at = "shown" => data[deed.field] >= deed.version
=============================================================================
