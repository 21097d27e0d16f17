---------------------------- MODULE StorageContent ----------------------------
(***************************************************************************)
(* The content of a storage pool, src/storage-pools.mjs, templates.mjs and *)
(* guest-tools.mjs: images the browser uploads in chunks                   *)
(* (public/storage-manager.js), images and templates that arrive in one    *)
(* stream, driver media fetched when there are none, and deletions.  What  *)
(* is transferred is put together in a hidden file and renamed when whole. *)
(* A file is the sequence of the chunks written to it.                     *)
(***************************************************************************)
EXTENDS Integers, Sequences, FiniteSets, FiniteSetsExt

CONSTANTS
    Uploads,     \* uploads by chunks
    Streams,     \* imports, and uploads and downloads of templates
    Drivers,     \* those of ensureWindowsVirtioDrivers()
    Checked,     \* those whose checksum the catalog tells
    Names,       \* names of files
    Nothing,     \* no such file
    NChunks,     \* the size of each upload; a stream is one chunk
    Capacity,    \* of the pool, in chunks
    Reserve,     \* SPACE_RESERVE_BYTES
    MaxRestarts, \* bound: restarts of the server
    Overlap      \* whether a chunk can be sent again before the handler of the
                 \* attempt before it has ended

StorageContentAssumption ==
    /\ Drivers \subseteq Streams /\ Checked \subseteq Streams
    /\ Uploads \cap Streams = {}
    /\ NChunks \in Nat \ {0} /\ {Capacity, Reserve, MaxRestarts} \subseteq Nat
    /\ Overlap \in BOOLEAN

MaxAttempts == 3

VARIABLES
    named,      \* the name each transfer is for
    part,       \* the hidden file of a transfer
    place,      \* what the pool lists: by whom, and its chunks
    handlers,   \* requests for a chunk that are being served
    client,     \* the browser's side of each upload
    stream,     \* each stream
    restarts,
    placed,     \* history: transfers put in place
    unheard     \* history: uploads of which an answer was lost

vars == <<named, part, place, handlers, client, stream, restarts, placed, unheard>>

Transfers == Uploads \cup Streams
Torn == -1     \* a chunk that was not received whole
Bad == -2      \* one that is not what its source has

Size(file) == IF file = Nothing THEN 0 ELSE Len(file)
Used ==
    MapThenSumSet(LAMBDA t : Size(part[t]), Transfers)
      + MapThenSumSet(LAMBDA n : IF place[n] = Nothing THEN 0 ELSE Len(place[n].chunks), Names)
AvailableBytes == Capacity - Used

\* A handler: "fd" is the file its stream writes to, wherever that file is now.
Handler(u) ==
    [upload |-> u, chunk |-> client[u].chunk, attempt |-> client[u].attempt,
     at |-> "resolve", fd |-> "none", says |-> ""]
With(h, at) == [h EXCEPT !.at = at]
Says(h, what) == [h EXCEPT !.at = "answer", !.says = what]
Move(h, g) == handlers' = (handlers \ {h}) \cup {g}

\* The handlers that hold a file of u open, after it was moved or removed.
Follow(hs, u, from, to) ==
    {IF g.upload = u /\ g.fd = from THEN [g EXCEPT !.fd = to] ELSE g : g \in hs}

-----------------------------------------------------------------------------
(* The browser *)

\* A chunk is sent; the upload may be canceled before.
Send(u) ==
    /\ client[u].at = "ready"
    /\ \/ /\ client' = [client EXCEPT ![u].at = "waiting"]
          /\ handlers' = handlers \cup {Handler(u)}
       \/ /\ client' = [client EXCEPT ![u].at = "canceled"]
          /\ UNCHANGED handlers
    /\ UNCHANGED <<named, part, place, stream, restarts, placed, unheard>>

\* A failure, whatever it is, is tried again twice.
Failed(u, why) ==
    IF client[u].attempt < MaxAttempts
    THEN [client[u] EXCEPT !.at = "again", !.attempt = @ + 1, !.why = why]
    ELSE [client[u] EXCEPT !.at = "failed", !.why = why]

Resend(u) ==
    /\ client[u].at = "again"
    /\ Overlap \/ \A h \in handlers : h.upload # u
    /\ client' = [client EXCEPT ![u].at = "ready"]
    /\ UNCHANGED <<named, part, place, handlers, stream, restarts, placed, unheard>>

Accepted(u) ==
    IF client[u].chunk = NChunks - 1 THEN [client[u] EXCEPT !.at = "done"]
    ELSE [client[u] EXCEPT !.at = "ready", !.chunk = @ + 1, !.attempt = 1]

Awaits(h) ==
    LET c == client[h.upload] IN
    c.at = "waiting" /\ c.chunk = h.chunk /\ c.attempt = h.attempt

\* The answer of a handler arrives, if the browser is waiting for it; or the
\* connection is lost, before the answer or with it.
Answer(h) ==
    LET u == h.upload IN
    /\ h.at = "answer"
    /\ handlers' = handlers \ {h}
    /\ \/ /\ Awaits(h)
          /\ client' = [client EXCEPT ![u] = IF h.says = "ok" THEN Accepted(u) ELSE Failed(u, h.says)]
          /\ UNCHANGED unheard
       \/ /\ Awaits(h)
          /\ client' = [client EXCEPT ![u] = Failed(u, "lost")]
          /\ unheard' = unheard \cup {u}
       \/ /\ ~Awaits(h)
          /\ unheard' = unheard \cup {u}
          /\ UNCHANGED client
    /\ UNCHANGED <<named, part, place, stream, restarts, placed>>

\* With overlapping attempts, the browser may also lose a connection the server
\* still reads from.
GiveUp(h) ==
    /\ Overlap
    /\ Awaits(h) /\ h.at # "answer"
    /\ client' = [client EXCEPT ![h.upload] = Failed(h.upload, "lost")]
    /\ unheard' = unheard \cup {h.upload}
    /\ UNCHANGED <<named, part, place, handlers, stream, restarts, placed>>

-----------------------------------------------------------------------------
(* uploadStorageContent(), between its awaits *)

\* The pool must be there, allow the content, and have space for the whole file.
Resolve(h) ==
    /\ h.at = "resolve"
    /\ \/ Move(h, Says(h, "refused"))
       \/ /\ NChunks + Reserve <= AvailableBytes
          /\ Move(h, With(h, "position"))
       \/ /\ NChunks + Reserve > AvailableBytes
          /\ Move(h, Says(h, IF NChunks - Size(part[h.upload]) + Reserve <= AvailableBytes
                             THEN "full though it fits" ELSE "full"))
    /\ UNCHANGED <<named, part, place, client, stream, restarts, placed, unheard>>

EndsAt(file, chunk) ==
    file # Nothing /\ Size(file) = chunk /\ \A i \in DOMAIN file : file[i] # Torn

\* The first chunk begins anew; the others must go on where the file ends.
Position(h) ==
    LET u == h.upload IN
    /\ h.at = "position"
    /\ IF h.chunk = 0
       THEN /\ part' = [part EXCEPT ![u] = Nothing]
            /\ handlers' = Follow(handlers \ {h}, u, "part", "gone") \cup {With(h, "open")}
       ELSE /\ Move(h, IF EndsAt(part[u], h.chunk) THEN With(h, "open") ELSE Says(h, "mismatch"))
            /\ UNCHANGED part
    /\ UNCHANGED <<named, place, client, stream, restarts, placed, unheard>>

\* An error other than a mismatch removes the hidden file.
Abandon(h) ==
    /\ part' = [part EXCEPT ![h.upload] = Nothing]
    /\ handlers' = Follow(handlers \ {h}, h.upload, "part", "gone") \cup {Says(h, "error")}

\* createWriteStream(): exclusively for the first chunk, appending for others.
Open(h) ==
    LET u == h.upload IN
    /\ h.at = "open"
    /\ IF h.chunk = 0 /\ part[u] # Nothing THEN Abandon(h)
       ELSE /\ part' = [part EXCEPT ![u] = IF @ = Nothing THEN <<>> ELSE @]
            /\ Move(h, [h EXCEPT !.at = "write", !.fd = "part"])
    /\ UNCHANGED <<named, place, client, stream, restarts, placed, unheard>>

\* The chunk is received; or the connection, or the disk, fails.
Write(h) ==
    LET u == h.upload
        n == named[u]
    IN  /\ h.at = "write"
        /\ \/ /\ AvailableBytes > 0 \/ h.fd = "gone"
              /\ part' = IF h.fd = "part" THEN [part EXCEPT ![u] = Append(@, h.chunk)] ELSE part
              /\ place' = IF h.fd = "place"
                          THEN [place EXCEPT ![n].chunks = Append(@, h.chunk)] ELSE place
              /\ Move(h, With(h, "measure"))
           \/ Abandon(h) /\ UNCHANGED place
        /\ UNCHANGED <<named, client, stream, restarts, placed, unheard>>

\* stat(): the hidden file must have grown to the end of the chunk.
Measure(h) ==
    LET u == h.upload IN
    /\ h.at = "measure"
    /\ IF part[u] = Nothing \/ Size(part[u]) # h.chunk + 1
       THEN Abandon(h)
       ELSE /\ Move(h, IF h.chunk + 1 < NChunks THEN Says(h, "ok") ELSE With(h, "place"))
            /\ UNCHANGED part
    /\ UNCHANGED <<named, place, client, stream, restarts, placed, unheard>>

\* What a transfer replaces is no longer a file others write to.
Displace(hs, n) ==
    {IF g.fd = "place" /\ named[g.upload] = n THEN [g EXCEPT !.fd = "gone"] ELSE g : g \in hs}

\* Variant: the answer of the last chunk goes out before the rename.
PlaceLater(h) ==
    /\ h.at = "place"
    /\ Move(h, Says(h, "ok"))
    /\ UNCHANGED <<named, part, place, client, stream, restarts, placed, unheard>>

\* rename()
Place(h) ==
    LET u == h.upload
        n == named[u]
    IN  /\ h.at = "place"
        /\ IF part[u] = Nothing THEN Abandon(h) /\ UNCHANGED <<place, placed>>
           ELSE /\ place' = [place EXCEPT ![n] = [by |-> u, chunks |-> part[u]]]
                /\ part' = [part EXCEPT ![u] = Nothing]
                /\ placed' = placed \cup {u}
                /\ handlers' = {Says(h, "ok")}
                       \cup Follow(Displace(handlers \ {h}, n), u, "part", "place")
        /\ UNCHANGED <<named, client, stream, restarts, unheard>>

-----------------------------------------------------------------------------
(* importStorageContent(), saveStream(), ensureWindowsVirtioDrivers() *)

\* Drivers that are there already are not fetched.
FindDrivers(s) ==
    /\ stream[s] = "idle"
    /\ s \in Drivers /\ place[named[s]] # Nothing
    /\ stream' = [stream EXCEPT ![s] = "there"]
    /\ UNCHANGED <<named, part, place, handlers, client, restarts, placed, unheard>>

\* A source that can be reached, and space for what it says it has.
BeginStream(s) ==
    /\ stream[s] = "idle"
    /\ s \notin Drivers \/ place[named[s]] = Nothing
    /\ \E at \in {"receiving", "failed"} : stream' = [stream EXCEPT ![s] = at]
    /\ UNCHANGED <<named, part, place, handlers, client, restarts, placed, unheard>>

\* The body, right or not, into a hidden file of its own.
ReceiveStream(s) ==
    /\ stream[s] = "receiving"
    /\ \/ /\ AvailableBytes > 0
          /\ \E c \in {0, Bad} : part' = [part EXCEPT ![s] = <<c>>]
          /\ stream' = [stream EXCEPT ![s] = "received"]
       \/ stream' = [stream EXCEPT ![s] = "failed"] /\ UNCHANGED part
    /\ UNCHANGED <<named, place, handlers, client, restarts, placed, unheard>>

\* Variant: the checksum is not compared.
IsAlwaysRight(s) == TRUE

\* The checksum, when the catalog has one.
IsRight(s) == s \in Checked => part[s] = <<0>>

PlaceStream(s) ==
    /\ stream[s] = "received"
    /\ part' = [part EXCEPT ![s] = Nothing]
    /\ IF IsRight(s)
       THEN /\ place' = [place EXCEPT ![named[s]] = [by |-> s, chunks |-> part[s]]]
            /\ handlers' = Displace(handlers, named[s])
            /\ placed' = placed \cup {s}
            /\ stream' = [stream EXCEPT ![s] = "done"]
       ELSE /\ stream' = [stream EXCEPT ![s] = "failed"]
            /\ UNCHANGED <<place, handlers, placed>>
    /\ UNCHANGED <<named, client, restarts, unheard>>

\* deleteStorageContent(), deleteContainerTemplate()
Delete(n) ==
    /\ place[n] # Nothing
    /\ place' = [place EXCEPT ![n] = Nothing]
    /\ handlers' = Displace(handlers, n)
    /\ UNCHANGED <<named, part, client, stream, restarts, placed, unheard>>

-----------------------------------------------------------------------------
\* The server restarts: a chunk that was being written is there in part, and
\* hidden files stay.
Restart ==
    /\ restarts < MaxRestarts
    /\ restarts' = restarts + 1
    /\ part' = [t \in Transfers |->
          IF \E h \in handlers : h.upload = t /\ h.at = "write" /\ h.fd = "part"
          THEN Append(part[t], Torn) ELSE part[t]]
    /\ handlers' = {}
    /\ client' = [u \in Uploads |-> IF client[u].at = "waiting" THEN Failed(u, "lost") ELSE client[u]]
    /\ unheard' = unheard \cup {h.upload : h \in handlers}
    /\ stream' = [s \in Streams |->
          IF stream[s] \in {"receiving", "received"} THEN "lost" ELSE stream[s]]
    /\ UNCHANGED <<named, place, placed>>

Init ==
    /\ named \in [Transfers -> Names]
    /\ part = [t \in Transfers |-> Nothing]
    /\ place = [n \in Names |-> Nothing]
    /\ handlers = {}
    /\ client = [u \in Uploads |-> [at |-> "ready", chunk |-> 0, attempt |-> 1, why |-> ""]]
    /\ stream = [s \in Streams |-> "idle"]
    /\ restarts = 0
    /\ placed = {} /\ unheard = {}

Next ==
    \/ \E u \in Uploads : Send(u) \/ Resend(u)
    \/ \E h \in handlers :
         \/ Resolve(h) \/ Position(h) \/ Open(h) \/ Write(h) \/ Measure(h) \/ Place(h)
         \/ Answer(h) \/ GiveUp(h)
    \/ \E s \in Streams : FindDrivers(s) \/ BeginStream(s) \/ ReceiveStream(s) \/ PlaceStream(s)
    \/ \E n \in Names : Delete(n)
    \/ Restart

Spec == Init /\ [][Next]_vars

-----------------------------------------------------------------------------
\* What the pool lists is whole: all chunks of one upload in their order, or a
\* stream, and one with a checksum is what its source has.
ListedIsWhole ==
    \A n \in Names : place[n] # Nothing =>
      LET t == place[n].by IN
      IF t \in Uploads THEN place[n].chunks = [i \in 1..NChunks |-> i - 1]
      ELSE place[n].chunks = <<0>> \/ t \notin Checked

\* What the browser is told is true: an upload that succeeded was put in place,
\* one that failed was not, unless an answer was lost.
AnswersAreTrue ==
    \A u \in Uploads :
      /\ client[u].at = "done" => u \in placed
      /\ (client[u].at \in {"failed", "canceled"} /\ u \notin unheard) => u \notin placed

\* "ISO uploads stream directly to storage in resumable chunks": a chunk that
\* failed is tried again, and that is not refused for its position.
ResumesAfterFailure == \A u \in Uploads : client[u].why # "mismatch"

\* "Available disk space is the limit": no chunk is refused for lack of space
\* while what is left of the file fits.
FitsIsStored == \A u \in Uploads : client[u].why # "full though it fits"
=============================================================================
