----------------------------- MODULE UploadBatch -----------------------------
(***************************************************************************)
(* A selection of files the browser uploads, uploadFilesWithProgress() of  *)
(* public/app.js: the folders are made first, then workers take the files  *)
(* one after another and send each, under another name when its own is     *)
(* taken, again when the connection failed.  What the server stores is     *)
(* known to the browser only by the answers it gets.                       *)
(***************************************************************************)
EXTENDS Integers, FiniteSets

CONSTANTS
    NFiles,        \* files selected, 1..NFiles
    Workers        \* three, or one on a phone

UploadBatchAssumption == NFiles \in Nat \ {0} /\ Workers # {} /\ IsFiniteSet(Workers)

MaxRenames == 4    \* attempts under another name
MaxResends == 2    \* attempts after a failure of the connection

VARIABLES
    taken,      \* files of the selection whose own name something else has
    stored,     \* what the server has of the selection: <<file, name>>
    unheard,    \* files stored whose answer was lost: how often
    phase,      \* "folders", "sending", "reported" or "refused"
    nextIndex,
    worker,     \* per worker: where it is, its file, attempt and name
    outcome     \* per file: "none", "uploaded" or "failed"

vars == <<taken, stored, unheard, phase, nextIndex, worker, outcome>>

Files == 1..NFiles
Own == 0                 \* the file's own name; the others are by their attempt
Ready == [at |-> "ready", file |-> 1, attempt |-> 0, name |-> Own]
Copies(f) == {c \in stored : c[1] = f}
Occupied(f, name) == <<f, name>> \in stored \/ (name = Own /\ f \in taken)

Init ==
    /\ taken \in SUBSET Files
    /\ stored = {}
    /\ unheard = [f \in Files |-> 0]
    /\ phase = "folders"
    /\ nextIndex = 1
    /\ worker = [w \in Workers |-> Ready]
    /\ outcome = [f \in Files |-> "none"]

-----------------------------------------------------------------------------
\* ensureUploadDirectories(): a folder that is there already is no error.
EnsureUploadDirectories ==
    /\ phase = "folders"
    /\ phase' \in {"sending", "refused"}
    /\ UNCHANGED <<taken, stored, unheard, nextIndex, worker, outcome>>

\* A worker takes the next file, or is done.
Take(w) ==
    /\ phase = "sending" /\ worker[w].at = "ready"
    /\ worker' = [worker EXCEPT ![w] =
           IF nextIndex \in Files THEN [Ready EXCEPT !.at = "sending", !.file = nextIndex]
           ELSE [@ EXCEPT !.at = "done"]]
    /\ nextIndex' = nextIndex + 1
    /\ UNCHANGED <<taken, stored, unheard, phase, outcome>>

\* The server takes the file in (PUT /api/files), and its answer arrives or not;
\* it refuses a name that is taken; or it, or the connection, fails.
Put(w) ==
    LET f == worker[w].file
        name == worker[w].name
        hears(a) == worker' = [worker EXCEPT ![w].at = a]
    IN  /\ worker[w].at = "sending"
        /\ \/ ~Occupied(f, name) /\ stored' = stored \cup {<<f, name>>}
              /\ \/ hears("ok") /\ UNCHANGED unheard
                 \/ hears("transient") /\ unheard' = [unheard EXCEPT ![f] = @ + 1]
           \/ Occupied(f, name) /\ hears("conflict") /\ UNCHANGED <<stored, unheard>>
           \/ hears("transient") /\ UNCHANGED <<stored, unheard>>
           \/ hears("permanent") /\ UNCHANGED <<stored, unheard>>
        /\ UNCHANGED <<taken, phase, nextIndex, outcome>>

Resent(w, attempt, name) ==
    worker' = [worker EXCEPT ![w] = [@ EXCEPT !.at = "sending", !.attempt = attempt, !.name = name]]

Settled(w, how) ==
    /\ worker' = [worker EXCEPT ![w] = Ready]
    /\ outcome' = [outcome EXCEPT ![worker[w].file] = how]

\* Variant: a conflict says the file is there.
JudgeByName(w) ==
    LET s == worker[w] IN
    /\ s.at \in {"ok", "conflict", "transient", "permanent"}
    /\ CASE s.at \in {"ok", "conflict"} -> Settled(w, "uploaded")
         [] s.at = "transient" /\ s.attempt < MaxResends ->
              Resent(w, s.attempt + 1, s.name) /\ UNCHANGED outcome
         [] OTHER -> Settled(w, "failed")
    /\ UNCHANGED <<taken, stored, unheard, phase, nextIndex>>

\* Variant: a failure of the connection is tried again without counting.
JudgeUncounted(w) ==
    LET s == worker[w] IN
    /\ s.at \in {"ok", "conflict", "transient", "permanent"}
    /\ CASE s.at = "ok" -> Settled(w, "uploaded")
         [] s.at = "conflict" /\ s.attempt < MaxRenames ->
              Resent(w, s.attempt + 1, s.attempt + 1) /\ UNCHANGED outcome
         [] s.at = "transient" -> Resent(w, s.attempt, s.name) /\ UNCHANGED outcome
         [] OTHER -> Settled(w, "failed")
    /\ UNCHANGED <<taken, stored, unheard, phase, nextIndex>>

\* What the worker makes of the answer: one counter for both kinds of attempts.
Judge(w) ==
    LET s == worker[w] IN
    /\ s.at \in {"ok", "conflict", "transient", "permanent"}
    /\ CASE s.at = "ok" -> Settled(w, "uploaded")
         [] s.at = "conflict" /\ s.attempt < MaxRenames ->
              Resent(w, s.attempt + 1, s.attempt + 1) /\ UNCHANGED outcome
         [] s.at = "transient" /\ s.attempt < MaxResends ->
              Resent(w, s.attempt + 1, s.name) /\ UNCHANGED outcome
         [] OTHER -> Settled(w, "failed")
    /\ UNCHANGED <<taken, stored, unheard, phase, nextIndex>>

\* Promise.all(): the numbers are told, and the listing is loaded.
Report ==
    /\ phase = "sending" /\ \A w \in Workers : worker[w].at = "done"
    /\ phase' = "reported"
    /\ UNCHANGED <<taken, stored, unheard, nextIndex, worker, outcome>>

Next ==
    \/ EnsureUploadDirectories \/ Report
    \/ \E w \in Workers : Take(w) \/ Put(w) \/ Judge(w)

Fairness == WF_vars(Next)    \* requests end, one way or another
Spec == Init /\ [][Next]_vars
FairSpec == Spec /\ Fairness

-----------------------------------------------------------------------------
\* What is reported is true: a file reported as uploaded is on the server; one
\* reported as failed is not, unless an answer was lost; and a file is there
\* once, and once more at most for each answer lost.
ReportIsTrue ==
    \A f \in Files :
      /\ outcome[f] = "uploaded" => Copies(f) # {}
      /\ (outcome[f] = "failed" /\ unheard[f] = 0) => Copies(f) = {}
      /\ Cardinality(Copies(f)) <= 1 + unheard[f]

\* Whatever fails, the batch comes to an end, and every file of it is accounted
\* for: uploaded or failed.
Ended == phase = "refused" \/ (phase = "reported" /\ \A f \in Files : outcome[f] # "none")
BatchEnds == <>Ended
=============================================================================
