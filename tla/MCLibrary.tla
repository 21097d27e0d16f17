------------------------------ MODULE MCLibrary ------------------------------
(***************************************************************************)
(* Instances for TLC of the modules in which what the user sends arrives:  *)
(* chunked uploads to the file library, a batch of uploads, the previews   *)
(* made of the library's files and their conversions, the content of a     *)
(* storage pool, the storage page, and the dialogs about a guest.  An      *)
(* initial state chooses the one that runs, "part", and the variables of   *)
(* the others stay Off.                                                    *)
(***************************************************************************)
EXTENDS Integers, Sequences, FiniteSets, TLC

CONSTANTS
    Uploads, Puts, Paths, NChunks, Quota, MaxTries, MaxRestarts,    \* chunked uploads
    NFiles, Workers,                                                \* a batch
    Photos, Clips, Raw, Viewers, Warmers, Transcoders,              \* previews
    MaxVersions, MaxActs, MaxSize,
    Converters, Outputs, MaxAsks,                                   \* conversions
    Images, Streams, Drivers, Checked, Names, Capacity, Reserve,    \* a storage pool
    PageReads, MaxChanges, MaxClicks, MaxFailures,                  \* the storage page
    Kinds, MaxDeeds, MaxReads, MaxDocked,                           \* the dialogs
    None, Others, Reading, Gone, NoForm, Off

VARIABLE part
VARIABLES target, disk, sessions, reserved, handlers, clients, puts, restarts
VARIABLES taken, stored, unheard, phase, nextIndex, worker, outcome
VARIABLES named, hidden, place, served, client, stream, starts, placed, unanswered
VARIABLES storage, overviewCache, refresh, page, paint, slot, data, polled, reads,
          remembered, scan, deed, changes, clicks, failures
VARIABLES version, present, cached, jobs, caller, queue, fresh, owed, acts
VARIABLES output, conversion, converting, disturbed, robbed, owned, asks
VARIABLES kind, guest, cache, asked, form, deeds, items, saved

Chunked == INSTANCE Uploads WITH Files <- Paths, Overlap <- FALSE

Batch == INSTANCE UploadBatch

Media == INSTANCE MediaCache

Conversions == INSTANCE MediaConversion WITH Requests <- Converters

Content == INSTANCE StorageContent WITH
    Uploads <- Images, Nothing <- None, Overlap <- FALSE, part <- hidden,
    handlers <- served, restarts <- starts, unheard <- unanswered

Page == INSTANCE StoragePage WITH
    Nothing <- None, Overtaking <- FALSE, MaxReads <- PageReads

Dialogs == INSTANCE GuestDialogs WITH NotLoaded <- None, reads <- asked

ASSUME LibraryAssumption ==
    /\ Chunked!UploadsAssumption /\ Batch!UploadBatchAssumption
    /\ Content!StorageContentAssumption /\ Page!StoragePageAssumption
    /\ Dialogs!GuestDialogsAssumption /\ Media!MediaCacheAssumption
    /\ Conversions!MediaConversionAssumption

chunkedVars == <<target, disk, sessions, reserved, handlers, clients, puts, restarts>>
batchVars == <<taken, stored, unheard, phase, nextIndex, worker, outcome>>
mediaVars == <<version, present, cached, jobs, caller, queue, fresh, owed, acts>>
conversionVars == <<output, conversion, converting, disturbed, robbed, owned, asks>>
contentVars == <<named, hidden, place, served, client, stream, starts, placed, unanswered>>
pageVars == <<storage, overviewCache, refresh, page, paint, slot, data, polled, reads,
              remembered, scan, deed, changes, clicks, failures>>
dialogVars == <<kind, guest, cache, asked, form, deeds, items, saved>>
vars == <<part, chunkedVars, batchVars, mediaVars, conversionVars, contentVars, pageVars,
          dialogVars>>

ChunkedOff ==
    /\ target = Off /\ disk = Off /\ sessions = Off /\ reserved = Off
    /\ handlers = Off /\ clients = Off /\ puts = Off /\ restarts = Off

BatchOff ==
    /\ taken = Off /\ stored = Off /\ unheard = Off /\ phase = Off
    /\ nextIndex = Off /\ worker = Off /\ outcome = Off

MediaOff ==
    /\ version = Off /\ present = Off /\ cached = Off /\ jobs = Off /\ caller = Off
    /\ queue = Off /\ fresh = Off /\ owed = Off /\ acts = Off

ConversionsOff ==
    /\ output = Off /\ conversion = Off /\ converting = Off /\ disturbed = Off
    /\ robbed = Off /\ owned = Off /\ asks = Off

ContentOff ==
    /\ named = Off /\ hidden = Off /\ place = Off /\ served = Off /\ client = Off
    /\ stream = Off /\ starts = Off /\ placed = Off /\ unanswered = Off

PageOff ==
    /\ storage = Off /\ overviewCache = Off /\ refresh = Off /\ page = Off /\ paint = Off
    /\ slot = Off /\ data = Off /\ polled = Off /\ reads = Off /\ remembered = Off
    /\ scan = Off /\ deed = Off /\ changes = Off /\ clicks = Off /\ failures = Off

DialogsOff ==
    /\ kind = Off /\ guest = Off /\ cache = Off /\ asked = Off /\ form = Off
    /\ deeds = Off /\ items = Off /\ saved = Off

Init ==
    \/ /\ part = "uploads" /\ Chunked!Init
       /\ BatchOff /\ MediaOff /\ ConversionsOff /\ ContentOff /\ PageOff /\ DialogsOff
    \/ /\ part = "batch" /\ Batch!Init
       /\ ChunkedOff /\ MediaOff /\ ConversionsOff /\ ContentOff /\ PageOff /\ DialogsOff
    \/ /\ part = "media" /\ Media!Init
       /\ ChunkedOff /\ BatchOff /\ ConversionsOff /\ ContentOff /\ PageOff /\ DialogsOff
    \/ /\ part = "conversions" /\ Conversions!Init
       /\ ChunkedOff /\ BatchOff /\ MediaOff /\ ContentOff /\ PageOff /\ DialogsOff
    \/ /\ part = "content" /\ Content!Init
       /\ ChunkedOff /\ BatchOff /\ MediaOff /\ ConversionsOff /\ PageOff /\ DialogsOff
    \/ /\ part = "page" /\ Page!Init
       /\ ChunkedOff /\ BatchOff /\ MediaOff /\ ConversionsOff /\ ContentOff /\ DialogsOff
    \/ /\ part = "dialogs" /\ Dialogs!Init
       /\ ChunkedOff /\ BatchOff /\ MediaOff /\ ConversionsOff /\ ContentOff /\ PageOff

\* Steps of the part that runs.
OfChunked(A) ==
    /\ part = "uploads" /\ A
    /\ UNCHANGED <<part, batchVars, mediaVars, conversionVars, contentVars, pageVars, dialogVars>>
OfBatch(A) ==
    /\ part = "batch" /\ A
    /\ UNCHANGED <<part, chunkedVars, mediaVars, conversionVars, contentVars, pageVars, dialogVars>>
OfMedia(A) ==
    /\ part = "media" /\ A
    /\ UNCHANGED <<part, chunkedVars, batchVars, conversionVars, contentVars, pageVars, dialogVars>>
OfConversions(A) ==
    /\ part = "conversions" /\ A
    /\ UNCHANGED <<part, chunkedVars, batchVars, mediaVars, contentVars, pageVars, dialogVars>>
OfContent(A) ==
    /\ part = "content" /\ A
    /\ UNCHANGED <<part, chunkedVars, batchVars, mediaVars, conversionVars, pageVars, dialogVars>>
OfPage(A) ==
    /\ part = "page" /\ A
    /\ UNCHANGED <<part, chunkedVars, batchVars, mediaVars, conversionVars, contentVars, dialogVars>>
OfDialogs(A) ==
    /\ part = "dialogs" /\ A
    /\ UNCHANGED <<part, chunkedVars, batchVars, mediaVars, conversionVars, contentVars, pageVars>>

Next ==
    \/ OfChunked(Chunked!Next) \/ OfBatch(Batch!Next) \/ OfMedia(Media!Next)
    \/ OfConversions(Conversions!Next)
    \/ OfContent(Content!Next) \/ OfPage(Page!Next) \/ OfDialogs(Dialogs!Next)

\* The fairness of UploadBatch, MediaCache, StoragePage and GuestDialogs.  One part runs
\* for good, so a fairness condition of each is one of the disjunction of their steps.
Spec ==
    /\ Init /\ [][Next]_vars
    /\ WF_vars(\/ OfBatch(Batch!Next)
               \/ OfMedia(Media!Progress)
               \/ OfPage(Page!Look \/ Page!Store)
               \/ OfDialogs(Dialogs!Progress))
    /\ WF_vars(OfPage(Page!Replies)) /\ WF_vars(OfPage(Page!Refresh))
    /\ WF_vars(OfPage(Page!ScanBegins \/ Page!Scanned \/ Page!Overview))
    /\ SF_vars(OfPage(Page!Fetched))

-----------------------------------------------------------------------------
\* The properties of the modules, each of the part that runs.
UploadsArrive == part = "uploads" => Chunked!DoneIsWhole /\ Chunked!RetryResumes

\* What a storage pool lists, and what is sent of a file, is what has been stored, and a
\* conversion that was answered is there.
ContentArrives ==
    /\ part = "content" => Content!ListedIsWhole /\ Content!AnswersAreTrue
    /\ part = "media" =>
          Media!PreviewsAreCurrent /\ Media!UploadsArePrepared /\ Media!RangesAreRight
    /\ part = "conversions" => Conversions!OutputsStay /\ Conversions!NeverStuck

\* What the user is told of an upload, or by the task of a dialog, is true.
ReportIsTrue ==
    /\ part = "batch" => Batch!ReportIsTrue
    /\ part = "dialogs" => Dialogs!TasksTell

\* A batch of uploads ends, and so do the tasks of the dialogs and the work on previews.
BatchEnds ==
    <>[](/\ part = "batch" => Batch!Ended
         /\ part = "media" => Media!Rests
         /\ part = "dialogs" => ~Dialogs!Hangs)

\* Once an operation is done, the storage page shows it; what a dialog has saved is what
\* was entered, and what its task shows of it stays.
DeedsAreShown ==
    /\ [](part = "page" => Page!DeedShown)
    /\ [][part = "dialogs" => Dialogs!AsEntered /\ Dialogs!StaysShown]_vars

DisksDetected == <>[](part = "page" => Page!DisksShown)
=============================================================================
