------------------------------ MODULE MediaCache ------------------------------
(***************************************************************************)
(* Thumbnails and previews of the file library, src/thumbnails.mjs and the *)
(* media part of src/server.mjs.  What ffmpeg makes of a file is kept on   *)
(* the disk under a name that changes with the file; who asks for          *)
(* something that is being made waits for it; and two queues have it made  *)
(* after an upload, before anybody asks.  A drawing (.svg) is sent as it   *)
(* is and is no file of this model.                                        *)
(***************************************************************************)
EXTENDS Integers, Sequences, SequencesExt

CONSTANTS
    Photos, Clips,         \* the files: pictures and videos
    Raw,                   \* pictures for which there is a second program, convert
    Viewers,               \* requests
    Warmers, Transcoders,  \* places of the two queues: two, and one
    MaxVersions, MaxActs, MaxSize,    \* bounds: of versions, of what comes from outside, of sizes
    None

MediaCacheAssumption ==
    /\ Photos \cap Clips = {} /\ Raw \subseteq Photos
    /\ Viewers \cap Warmers = {} /\ Viewers \cap Transcoders = {}
    /\ Warmers \cap Transcoders = {}
    /\ MaxVersions \in Nat \ {0} /\ MaxActs \in Nat /\ MaxSize \in Nat

Files == Photos \cup Clips
Queues == {"pictures", "videos"}    \* thumbnailWarmQueue and videoWarmQueue
Places(q) == IF q = "pictures" THEN Warmers ELSE Transcoders
Slots == Warmers \cup Transcoders
Callers == Viewers \cup Slots
Keys == Files \X (1..MaxVersions) \X {"thumbnail", "preview", "video"}

VARIABLES
    version,  \* per file: of its content; no two have the same size and time
    present,  \* the files that exist
    cached,   \* per key: the version its content is of, 0 if none; and is it whole
    jobs,     \* thumbnailJobs and videoPreviewJobs
    caller,   \* who asks: where it is, for what, and what was there when it asked
    queue,    \* per queue: the files to prepare
    fresh,    \* files uploaded whose request is saving the state
    owed,     \* history: files a queue has taken on and no place has looked at since
    acts

vars == <<version, present, cached, jobs, caller, queue, fresh, owed, acts>>
files == <<version, present>>
others == <<fresh, acts>>

Idle == [at |-> "idle", file |-> None, kind |-> None, version |-> 0, since |-> 0]
Over == [Idle EXCEPT !.at = "over"]
NoJob == [at |-> "none", tool |-> "ffmpeg", of |-> 0]
First(q) == IF q = "pictures" THEN "thumbnail" ELSE "video"
Asked(f, kind) ==
    [at |-> "asked", file |-> f, kind |-> kind, version |-> 0, since |-> version[f]]

Nothing == [of |-> 0, whole |-> FALSE]

\* The server has begun; what it kept before it stopped is still there, or nothing is.
Init ==
    /\ version = [f \in Files |-> 1]
    /\ present = Files
    /\ cached \in {[k \in Keys |-> Nothing],
                  [k \in Keys |-> IF k[2] = 1 THEN [of |-> 1, whole |-> TRUE] ELSE Nothing]}
    /\ jobs = [k \in Keys |-> NoJob]
    /\ caller = [c \in Callers |-> Idle]
    /\ queue = [q \in Queues |-> <<>>]
    /\ fresh = {}
    /\ owed = [q \in Queues |-> {}]
    /\ acts = 0

-----------------------------------------------------------------------------
\* Requests, and what is made for them.

Act == acts < MaxActs /\ acts' = acts + 1

Ask(c, f, kind) ==
    /\ Act /\ caller[c] = Idle
    /\ caller' = [caller EXCEPT ![c] = Asked(f, kind)]
    /\ UNCHANGED <<files, cached, jobs, queue, fresh, owed>>

AskPicture(c, f) == \E kind \in {"thumbnail", "preview"} : Ask(c, f, kind)
AskVideo(c, f) == f \in Clips /\ Ask(c, f, "video")
AskFile(c, f) == Ask(c, f, "file")

\* Variant: the name under which it is kept does not change with the file.
KeyByName(c) == <<caller[c].file, 1, caller[c].kind>>

Key(c) == <<caller[c].file, caller[c].version, caller[c].kind>>

\* What becomes of a caller that has its answer: a request is answered with the file; a
\* place of the first queue has the larger picture made too; a place is done.
Served(c) ==
    CASE c \in Viewers -> [caller[c] EXCEPT !.at = "sending"]
      [] c \notin Viewers /\ caller[c].kind = "thumbnail" -> Asked(caller[c].file, "preview")
      [] OTHER -> Over

Failed(c) == IF c \in Viewers THEN Idle ELSE Over

\* What is no file is refused.
downloadFile(f) == f \in present

\* The file as it is now; the file itself is sent at once.
Find(c) ==
    /\ caller[c].at = "asked"
    /\ \/ ~downloadFile(caller[c].file) /\ caller' = [caller EXCEPT ![c] = Failed(c)]
       \/ /\ downloadFile(caller[c].file)
          /\ caller' = [caller EXCEPT
                 ![c].at = IF caller[c].kind = "file" THEN "sending" ELSE "looking",
                 ![c].version = version[caller[c].file]]
    /\ owed' = [q \in Queues |->
           IF c \in Places(q) /\ caller[c].kind = First(q) THEN owed[q] \ {caller[c].file} ELSE owed[q]]
    /\ UNCHANGED <<files, cached, jobs, queue, others>>

\* stat() of what is kept.  Part of a picture may be found, unless it is still empty.
Look(c) ==
    /\ caller[c].at = "looking"
    /\ \/ cached[Key(c)].of # 0 /\ caller' = [caller EXCEPT ![c] = Served(c)]
       \/ ~cached[Key(c)].whole /\ caller' = [caller EXCEPT ![c].at = "missing"]
    /\ UNCHANGED <<files, cached, jobs, queue, owed, others>>

\* It is awaited if it is being made, and else begun.
Join(c) ==
    /\ caller[c].at = "missing"
    /\ caller' = [caller EXCEPT ![c].at = "waiting"]
    /\ jobs' = IF jobs[Key(c)] # NoJob THEN jobs
               ELSE [jobs EXCEPT ![Key(c)].at = "begun"]
    /\ UNCHANGED <<files, cached, queue, owed, others>>

\* A picture is written where it will be found; a video beside it, and moved when it is done.
WritesPicture(k) ==
    /\ k[3] # "video"
    /\ cached' = [cached EXCEPT ![k] = [of |-> version[k[1]], whole |-> FALSE]]

\* Variant: a video too is written where it will be found.
WritesVideoInPlace(k) ==
    k[3] = "video" /\ cached' = [cached EXCEPT ![k] = [of |-> version[k[1]], whole |-> FALSE]]

WritesVideo(k) == k[3] = "video" /\ UNCHANGED cached

\* The program opens the file, as it is by then.
Opens(k) ==
    /\ jobs[k].at = "begun" /\ k[1] \in present
    /\ jobs' = [jobs EXCEPT ![k].at = "writing", ![k].of = version[k[1]]]
    /\ WritesPicture(k) \/ WritesVideo(k)
    /\ UNCHANGED <<files, caller, queue, owed, others>>

Waiting(c, k) == caller[c].at = "waiting" /\ Key(c) = k

Finishes(k) ==
    /\ jobs[k].at = "writing"
    /\ jobs' = [jobs EXCEPT ![k] = NoJob]
    /\ cached' = [cached EXCEPT ![k] = [of |-> jobs[k].of, whole |-> TRUE]]
    /\ caller' = [c \in Callers |->
           IF Waiting(c, k) THEN [caller[c] EXCEPT !.at = "made"] ELSE caller[c]]
    /\ UNCHANGED <<files, queue, owed, others>>

\* The program fails, or is stopped after its time: part of a picture stays where it is.
\* convert is tried after ffmpeg, for the formats it knows.
Breaks(k) ==
    /\ jobs[k] # NoJob
    /\ IF k[1] \in Raw /\ jobs[k].tool = "ffmpeg"
       THEN /\ jobs' = [jobs EXCEPT ![k] = [at |-> "begun", tool |-> "convert", of |-> 0]]
            /\ UNCHANGED caller
       ELSE /\ jobs' = [jobs EXCEPT ![k] = NoJob]
            /\ caller' = [c \in Callers |-> IF Waiting(c, k) THEN Failed(c) ELSE caller[c]]
    /\ UNCHANGED <<files, cached, queue, owed, others>>

\* stat() of what was made.
Made(c) ==
    /\ caller[c].at = "made"
    /\ caller' = [caller EXCEPT ![c] = Served(c)]
    /\ UNCHANGED <<files, cached, jobs, queue, owed, others>>

Sent(c) ==
    /\ caller[c].at = "sending"
    /\ caller' = [caller EXCEPT ![c] = Idle]
    /\ UNCHANGED <<files, cached, jobs, queue, owed, others>>

-----------------------------------------------------------------------------
\* Ranges of a video or a file, "bytes=first-last", with Absent for what is left out.

Absent == -1
Least(a, b) == IF a < b THEN a ELSE b

\* Variant: a range from the end is not cut to the file.
SpanUncut(first, last, size) ==
    LET start == IF first # Absent THEN first ELSE IF last # Absent THEN size - last ELSE 0
        end == IF first = Absent \/ last = Absent THEN size - 1 ELSE last
    IN  IF start < 0 \/ end < start \/ start >= size THEN {} ELSE start..Least(end, size - 1)

\* streamRangedMedia(): the positions that are sent; none is the answer 416.
Span(first, last, size) ==
    LET start == IF first # Absent THEN first
                 ELSE IF last # Absent THEN size - Least(last, size) ELSE 0
        end == IF first = Absent \/ last = Absent THEN size - 1 ELSE last
    IN  IF start < 0 \/ end < start \/ start >= size THEN {} ELSE start..Least(end, size - 1)

-----------------------------------------------------------------------------
\* The queues.

\* Variant: a name leaves the set of those queued when its work is done.
QueuedLonger(q, f) ==
    f \in ToSet(queue[q]) \/ \E c \in Places(q) : caller[c].file = f

\* thumbnailWarmQueued and videoWarmQueued: a name leaves them with its queue.
Queued(q, f) == f \in ToSet(queue[q])

Line(q, f) ==
    IF (q = "videos" => f \in Clips) /\ ~Queued(q, f) THEN Append(queue[q], f) ELSE queue[q]

Free(q) == {c \in Places(q) : caller[c] = Idle}
Taker(q) == CHOOSE c \in Free(q) : TRUE
Takes(q, f) == Free(q) # {} /\ Line(q, f) # <<>>

\* enqueueMediaWarm(): each queue takes the file unless it waits there; a free place
\* begins with the first.
Enqueue(f) ==
    /\ queue' = [q \in Queues |-> IF Takes(q, f) THEN Tail(Line(q, f)) ELSE Line(q, f)]
    /\ caller' = [c \in Callers |->
           IF \E q \in Queues : Takes(q, f) /\ c = Taker(q)
           THEN LET q == CHOOSE q \in Queues : c \in Places(q) IN Asked(Head(Line(q, f)), First(q))
           ELSE caller[c]]
    /\ UNCHANGED <<files, cached, jobs>>

\* Variant: a place that is done does not look for more.
LeavesQueue(q, c) ==
    /\ c \in Places(q) /\ caller[c].at = "over"
    /\ caller' = [caller EXCEPT ![c] = Idle] /\ UNCHANGED queue
    /\ UNCHANGED <<files, cached, jobs, owed, others>>

\* A place that is done, well or not, takes the next file.
TakesNext(q, c) ==
    /\ c \in Places(q) /\ caller[c].at = "over"
    /\ \/ queue[q] = <<>> /\ caller' = [caller EXCEPT ![c] = Idle] /\ UNCHANGED queue
       \/ /\ queue[q] # <<>>
          /\ caller' = [caller EXCEPT ![c] = Asked(Head(queue[q]), First(q))]
          /\ queue' = [queue EXCEPT ![q] = Tail(@)]
    /\ UNCHANGED <<files, cached, jobs, owed, others>>

Prewarm(f) ==
    /\ Act /\ Enqueue(f)
    /\ UNCHANGED <<fresh, owed>>

\* A phone has what it lists prepared; no such file need exist any more.
queueMobileMediaPrewarm == \E f \in Files : Prewarm(f)

\* The last of an upload arrives.  Its request saves the state, and then has the file
\* prepared; when it cannot save it fails.
Upload(f) ==
    /\ Act /\ version[f] < MaxVersions /\ f \notin fresh
    /\ version' = [version EXCEPT ![f] = @ + 1]
    /\ present' = present \cup {f}
    /\ fresh' = fresh \cup {f}
    /\ UNCHANGED <<cached, jobs, caller, queue, owed>>

Warm(f) ==
    /\ f \in fresh /\ fresh' = fresh \ {f}
    /\ Enqueue(f)
    /\ owed' = [q \in Queues |->
           IF q = "videos" /\ f \notin Clips THEN owed[q] ELSE owed[q] \cup {f}]
    /\ UNCHANGED acts

SaveFails(f) ==
    /\ f \in fresh /\ fresh' = fresh \ {f}
    /\ UNCHANGED <<files, cached, jobs, caller, queue, owed, acts>>

\* Others write the files and delete them: editors, shares, an upload that is arriving, and
\* a phone's upload, whose request has nothing prepared.
Write(f) ==
    /\ Act /\ version[f] < MaxVersions
    /\ version' = [version EXCEPT ![f] = @ + 1]
    /\ present' = present \cup {f}
    /\ UNCHANGED <<cached, jobs, caller, queue, fresh, owed>>

Delete(f) ==
    /\ Act /\ f \in present /\ present' = present \ {f}
    /\ UNCHANGED <<version, cached, jobs, caller, queue, fresh, owed>>

\* The server stops and starts: what is kept stays, as it is.
Restart ==
    /\ Act
    /\ jobs' = [k \in Keys |-> NoJob]
    /\ caller' = [c \in Callers |-> Idle]
    /\ queue' = [q \in Queues |-> <<>>]
    /\ fresh' = {}
    /\ owed' = [q \in Queues |-> {}]
    /\ UNCHANGED <<files, cached>>

Progress ==
    \/ \E c \in Callers : Find(c) \/ Look(c) \/ Join(c) \/ Made(c) \/ Sent(c)
    \/ \E k \in Keys : Opens(k) \/ Finishes(k) \/ Breaks(k)
    \/ \E q \in Queues, c \in Slots : TakesNext(q, c)
    \/ \E f \in Files : Warm(f) \/ SaveFails(f)

Next ==
    \/ \E c \in Viewers, f \in Files : AskPicture(c, f) \/ AskVideo(c, f) \/ AskFile(c, f)
    \/ \E f \in Files : Upload(f) \/ Write(f) \/ Delete(f)
    \/ queueMobileMediaPrewarm \/ Progress \/ Restart

-----------------------------------------------------------------------------
\* What is sent is of the file as it was when it was asked for, or newer, and a video is
\* whole, whatever was kept, was being made or broke off: the interleavings of requests
\* with the programs of thumbnails.mjs:67-69 and server.mjs:531-578.
PreviewsAreCurrent ==
    \A c \in Viewers :
        caller[c].at = "sending" /\ caller[c].kind # "file" =>
            /\ cached[Key(c)].of >= caller[c].since
            /\ caller[c].kind = "video" => cached[Key(c)].whole

\* A file uploaded while its queue holds an earlier version, or works on it, is looked at
\* once more (server.mjs:603-645).
UploadsArePrepared ==
    \A q \in Queues : \A f \in owed[q] :
        \/ Queued(q, f)
        \/ \E c \in Places(q) :
              caller[c].at = "asked" /\ caller[c].file = f /\ caller[c].kind = First(q)

\* The positions a range asks for, by its definition in HTTP.
Wanted(first, last, size) ==
    {p \in 0..(size - 1) :
        IF first = Absent THEN last = Absent \/ p >= size - last
        ELSE p >= first /\ (last = Absent \/ p <= last)}

\* Whatever range is asked of a file being sent, what is sent is what it asks for, cut to
\* the file (server.mjs:657-686, 2703-2727).
RangesAreRight ==
    (\E c \in Viewers : caller[c].at = "sending" /\ caller[c].kind \in {"video", "file"}) =>
        \A size \in 0..MaxSize, first, last \in {Absent} \cup (0..(MaxSize + 1)) :
            Span(first, last, size) = Wanted(first, last, size)

\* Nobody waits and nothing is being made.
Rests ==
    /\ fresh = {} /\ \A c \in Callers : caller[c] = Idle
    /\ \A q \in Queues : queue[q] = <<>>
=============================================================================
