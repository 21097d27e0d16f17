------------------------------- MODULE Uploads -------------------------------
(***************************************************************************)
(* Uploads of src/files.mjs into the library of one user: uploadFile(),    *)
(* which receives a file in one request, and uploadFileChunk(), which      *)
(* receives it chunk by chunk in a session kept in memory.  Both reserve   *)
(* space against the user's quota.  The client of a chunked upload is the  *)
(* one of public/app.js: it sends one chunk after the other and repeats a  *)
(* request whose response does not arrive.                                 *)
(*                                                                         *)
(* A handler is a request being served; its steps are what runs between    *)
(* two awaits.  The unit of size is the chunk.                             *)
(***************************************************************************)
EXTENDS Integers, FiniteSets, FiniteSetsExt

CONSTANTS
    Uploads,        \* chunked uploads, each with its upload identifier
    Puts,           \* uploads in one request
    Files,          \* the paths they may write to
    None,           \* an absent file, session or reply
    NChunks,        \* size of each upload
    Quota,          \* the user's quota
    MaxTries,       \* attempts of a client for one chunk (4 in the code)
    Overlap,        \* whether a retry can arrive before the handler of the
                    \* attempt before it has ended
    MaxRestarts     \* bound: restarts of the server

UploadsAssumption ==
    /\ NChunks \in Nat \ {0} /\ Quota \in Nat /\ Overlap \in BOOLEAN
    /\ Uploads \cap Puts = {}
    /\ None \notin [by : Uploads \cup Puts, chunks : SUBSET (0..NChunks - 1)]
    /\ None \notin [expected : 0..NChunks, listed : BOOLEAN]

VARIABLES
    target,         \* the path of each upload
    disk,           \* a file: who created it, and the chunks written
    sessions,       \* chunkUploads, and the sessions handlers still hold
    reserved,       \* quotaReservations of the user
    handlers,       \* the requests being served
    clients,        \* clients of chunked uploads
    puts,           \* uploads in one request
    restarts

vars == <<target, disk, sessions, reserved, handlers, clients, puts, restarts>>

Chunks == 0..NChunks - 1
Actors == Uploads \cup Puts

\* A file is as long as its last chunk makes it.
SizeOf(f) == IF disk[f] = None \/ disk[f].chunks = {} THEN 0
             ELSE Max(disk[f].chunks) + 1

\* fileUsage()
fileUsage == MapThenSumSet(SizeOf, Files)

-----------------------------------------------------------------------------
(* The client of a chunked upload *)

Send(u, c) ==
    /\ clients' = [clients EXCEPT ![u] =
           [at |-> "waiting", chunk |-> c, tries |-> clients[u].tries + 1]]
    /\ \E arrives \in BOOLEAN :
          handlers' = IF arrives
                      THEN handlers \cup
                           {[upload |-> u, chunk |-> c, at |-> "begun",
                             try |-> clients[u].tries + 1, used |-> 0,
                             reserved |-> 0]}
                      ELSE handlers

\* The next chunk, for the first time.
SendChunk(u) ==
    /\ clients[u].at = "sending"
    /\ Send(u, clients[u].chunk)
    /\ UNCHANGED <<target, disk, sessions, reserved, puts, restarts>>

Served(u) == \E h \in handlers : h.upload = u

\* The connection fails: the chunk is sent again, or the client gives up.
RetryChunk(u) ==
    /\ clients[u].at = "waiting"
    /\ Overlap \/ ~Served(u)
    /\ IF clients[u].tries < MaxTries
       THEN Send(u, clients[u].chunk)
       ELSE /\ clients' = [clients EXCEPT ![u].at = "gave up"]
            /\ UNCHANGED handlers
    /\ UNCHANGED <<target, disk, sessions, reserved, puts, restarts>>

\* Variant: the client goes on past the last chunk.
AfterEach(c, answer) ==
    IF answer # "ok" THEN [c EXCEPT !.at = "refused"]
    ELSE IF c.chunk < NChunks
         THEN [at |-> "sending", chunk |-> c.chunk + 1, tries |-> 0]
         ELSE [c EXCEPT !.at = "done"]

\* The client after a response: the next chunk, the end, or an error, since a
\* status of 4xx is not retried.
After(c, answer) ==
    IF answer # "ok" THEN [c EXCEPT !.at = "refused"]
    ELSE IF c.chunk + 1 < NChunks
         THEN [at |-> "sending", chunk |-> c.chunk + 1, tries |-> 0]
         ELSE [c EXCEPT !.at = "done"]

\* A handler responds.  The response arrives when the client still waits for
\* it, or it is lost.
Respond(h, answer) ==
    /\ handlers' = handlers \ {h}
    /\ \/ UNCHANGED clients
       \/ /\ clients[h.upload].at = "waiting" /\ clients[h.upload].tries = h.try
          /\ clients[h.upload].chunk = h.chunk
          /\ clients' = [clients EXCEPT ![h.upload] = After(@, answer)]

-----------------------------------------------------------------------------
(* uploadFileChunk() *)

Goto(h, at) == /\ handlers' = (handlers \ {h}) \cup {[h EXCEPT !.at = at]}
               /\ UNCHANGED clients

\* Variant: a chunk that was received already is out of place.
PlacedStrictly(h, s) ==
    IF h.chunk # s.expected THEN Respond(h, "offset")
    ELSE Goto(h, "writing")

\* A chunk of a session: acknowledged again, refused, or written next.
Placed(h, s) ==
    IF h.chunk < s.expected THEN Respond(h, "ok")
    ELSE IF h.chunk # s.expected THEN Respond(h, "offset")
    ELSE Goto(h, "writing")

\* Looks the session up.  Without one, only the first chunk can begin it.
FindSession(h) ==
    /\ h.at = "begun"
    /\ LET s == sessions[h.upload] IN
       IF s # None /\ s.listed THEN Placed(h, s)
       ELSE IF h.chunk # 0 THEN Respond(h, "restart")
       ELSE Goto(h, "measuring")
    /\ UNCHANGED <<target, disk, sessions, reserved, puts, restarts>>

\* fileUsage() ends; the quota test follows at once, but the files may change
\* while they are being measured.
Measure(h) ==
    /\ h.at = "measuring"
    /\ handlers' = (handlers \ {h}) \cup
                   {[h EXCEPT !.at = "testing", !.used = fileUsage]}
    /\ UNCHANGED <<target, disk, sessions, reserved, clients, puts, restarts>>

TestQuota(h) ==
    /\ h.at = "testing"
    /\ IF h.used + reserved + NChunks > Quota
       THEN Respond(h, "quota")
       ELSE /\ handlers' = (handlers \ {h}) \cup
                           {[h EXCEPT !.at = "opening", !.reserved = reserved]}
            /\ UNCHANGED clients
    /\ UNCHANGED <<target, disk, sessions, reserved, puts, restarts>>

\* What open(path, 'wx') asks of a path.
Creatable(f) == disk[f] = None

Create(a) == disk' = [disk EXCEPT ![target[a]] = [by |-> a, chunks |-> {}]]

\* open() creates the file, and the handler closes it.
Open(h) ==
    /\ h.at = "opening"
    /\ IF Creatable(target[h.upload])
       THEN Create(h.upload) /\ Goto(h, "created")
       ELSE Respond(h, "exists") /\ UNCHANGED disk
    /\ UNCHANGED <<target, sessions, reserved, puts, restarts>>

BeginSession(h) ==
    /\ h.at = "created"
    /\ reserved' = h.reserved + NChunks
    /\ sessions' = [sessions EXCEPT ![h.upload] =
                        [expected |-> 0, listed |-> TRUE]]
    /\ Goto(h, "writing")
    /\ UNCHANGED <<target, disk, puts, restarts>>

\* Variant: a chunk that could not be written counts.
WriteOrNot(h) ==
    /\ h.at = "writing"
    /\ \/ UNCHANGED disk
       \/ disk' = [disk EXCEPT ![target[h.upload]].chunks = @ \cup {h.chunk}]
    /\ Goto(h, "written")
    /\ UNCHANGED <<target, sessions, reserved, puts, restarts>>

WriteChunk(h) ==
    /\ h.at = "writing"
    /\ disk' = [disk EXCEPT ![target[h.upload]].chunks = @ \cup {h.chunk}]
    /\ Goto(h, "written")
    /\ UNCHANGED <<target, sessions, reserved, puts, restarts>>

\* The write fails: a response of 500, which the client retries like a lost one.
FailChunk(h) ==
    /\ h.at = "writing"
    /\ handlers' = handlers \ {h}
    /\ UNCHANGED <<target, disk, sessions, reserved, clients, puts, restarts>>

\* A reservation is given back, down to none.
Less(amount) == IF reserved > amount THEN reserved - amount ELSE 0

Complete(next) == next >= NChunks

\* The session advances by the chunk, and ends with the last one.
EndChunk(h) ==
    /\ h.at = "written"
    /\ LET s == sessions[h.upload]
           next == s.expected + 1
       IN  /\ sessions' = [sessions EXCEPT ![h.upload] =
                  [expected |-> next, listed |-> s.listed /\ ~Complete(next)]]
           /\ reserved' = IF Complete(next) THEN Less(NChunks) ELSE reserved
    /\ Respond(h, "ok")
    /\ UNCHANGED <<target, disk, puts, restarts>>

Handle(h) ==
    \/ FindSession(h) \/ Measure(h) \/ TestQuota(h) \/ Open(h)
    \/ BeginSession(h) \/ WriteChunk(h) \/ FailChunk(h) \/ EndChunk(h)

-----------------------------------------------------------------------------
(* uploadFile() *)

Put(p, at) == puts' = [puts EXCEPT ![p].at = at]

MeasurePut(p) ==
    /\ puts[p].at = "begun"
    /\ puts' = [puts EXCEPT ![p] = [at |-> "testing", used |-> fileUsage]]
    /\ UNCHANGED <<target, disk, sessions, reserved, handlers, clients, restarts>>

\* The test and the reservation are one step.
ReservePut(p) ==
    /\ puts[p].at = "testing"
    /\ IF puts[p].used + reserved + NChunks > Quota
       THEN Put(p, "refused") /\ UNCHANGED reserved
       ELSE Put(p, "opening") /\ reserved' = reserved + NChunks
    /\ UNCHANGED <<target, disk, sessions, handlers, clients, restarts>>

\* A file of that name ends the upload before the block whose finally clause
\* gives the reservation back.
OpenPut(p) ==
    /\ puts[p].at = "opening"
    /\ IF Creatable(target[p])
       THEN Create(p) /\ Put(p, "receiving")
       ELSE Put(p, "refused") /\ UNCHANGED disk
    /\ UNCHANGED <<target, sessions, reserved, handlers, clients, restarts>>

Receive(p) ==
    /\ puts[p].at = "receiving"
    /\ LET c == Cardinality(disk[target[p]].chunks) IN
       /\ c < NChunks
       /\ disk' = [disk EXCEPT ![target[p]].chunks = @ \cup {c}]
    /\ UNCHANGED <<target, sessions, reserved, handlers, clients, puts, restarts>>

\* The request ends, or it is aborted and its file removed.
EndPut(p) ==
    /\ puts[p].at = "receiving"
    /\ \/ /\ disk[target[p]].chunks = Chunks
          /\ Put(p, "done")
          /\ UNCHANGED disk
       \/ /\ disk' = [disk EXCEPT ![target[p]] = None]
          /\ Put(p, "aborted")
    /\ reserved' = Less(NChunks)
    /\ UNCHANGED <<target, sessions, handlers, clients, restarts>>

-----------------------------------------------------------------------------
\* The server restarts: sessions, reservations and requests are gone.
Restart ==
    /\ restarts < MaxRestarts
    /\ restarts' = restarts + 1
    /\ handlers' = {} /\ reserved' = 0
    /\ sessions' = [u \in Uploads |-> None]
    /\ puts' = [p \in Puts |->
          IF puts[p].at \in {"testing", "opening", "receiving"}
          THEN [puts[p] EXCEPT !.at = "aborted"] ELSE puts[p]]
    /\ UNCHANGED <<target, disk, clients>>

Init ==
    /\ target \in [Actors -> Files]
    /\ disk = [f \in Files |-> None]
    /\ sessions = [u \in Uploads |-> None]
    /\ reserved = 0 /\ handlers = {} /\ restarts = 0
    /\ clients = [u \in Uploads |-> [at |-> "sending", chunk |-> 0, tries |-> 0]]
    /\ puts = [p \in Puts |-> [at |-> "begun", used |-> 0]]

Next ==
    \/ \E u \in Uploads : SendChunk(u) \/ RetryChunk(u)
    \/ \E h \in handlers : Handle(h)
    \/ \E p \in Puts : \/ MeasurePut(p) \/ ReservePut(p) \/ OpenPut(p)
                       \/ Receive(p) \/ EndPut(p)
    \/ Restart

Spec == Init /\ [][Next]_vars

-----------------------------------------------------------------------------
Whole(a) == disk[target[a]] = [by |-> a, chunks |-> Chunks]

\* An upload its client was told is complete is a whole file of that upload:
\* retries do not leave holes in it, and no other upload writes into it.
DoneIsWhole ==
    /\ \A u \in Uploads : clients[u].at = "done" => Whole(u)
    /\ \A p \in Puts : puts[p].at = "done" => Whole(p)

\* "Retrying only failed chunks rather than restarting the whole upload": while
\* the server runs, no request for a chunk between the first and the last is
\* refused.  (The last is the exception: it ends the session, so its retry is.)
RetryResumes ==
    \A u \in Uploads :
        (restarts = 0 /\ clients[u].chunk \in 1..NChunks - 2) =>
            clients[u].at # "refused"
=============================================================================
