--------------------------- MODULE MediaConversion ---------------------------
(***************************************************************************)
(* Conversions of media files, src/media.mjs with its route in             *)
(* src/server.mjs and mediaPaths() of src/files.mjs.  One program is to be *)
(* at work at a time, and none writes over a file; both are tested before  *)
(* awaits after which the program begins, and a conversion that fails      *)
(* removes what is there under the name of its output.                     *)
(***************************************************************************)
EXTENDS Integers

CONSTANTS
    Requests,   \* requests to convert, one at a time each
    Outputs,    \* names of outputs; files of one stem have the same
    MaxAsks,    \* bound: of what comes from outside
    None, Others

MediaConversionAssumption ==
    /\ None \notin Requests /\ Others \notin Requests /\ None # Others
    /\ MaxAsks \in Nat

VARIABLES
    output,      \* per name: who made the file, None if there is none; and is it whole
    conversion,  \* per request: where it is, and for which output
    converting,
    disturbed,   \* history: requests whose output was made by others since they looked
    robbed,      \* history: requests whose output was deleted, or removed by a disturbed one
    owned,       \* history: outputs others made, but for those deleted or removed so
    asks

vars == <<output, conversion, converting, disturbed, robbed, owned, asks>>

Absent == [by |-> None, whole |-> FALSE]
Idle == [at |-> "idle", name |-> None]
Stands(r, at) == conversion[r].at = at
Goes(r, at) == conversion' = [conversion EXCEPT ![r].at = at]

\* Those that have looked for the output and do not look again.
Past(n) == {r \in Requests : conversion[r].name = n /\ conversion[r].at \notin {"idle", "naming"}}

Init ==
    /\ output = [n \in Outputs |-> Absent]
    /\ conversion = [r \in Requests |-> Idle]
    /\ converting = FALSE
    /\ disturbed = {} /\ robbed = {} /\ owned = {}
    /\ asks = 0

Ask == asks < MaxAsks /\ asks' = asks + 1

\* convertMedia(): refused while another program is at work.
Convert(r, n) ==
    /\ Ask /\ Stands(r, "idle") /\ ~converting
    /\ conversion' = [conversion EXCEPT ![r] = [at |-> "naming", name |-> n]]
    /\ disturbed' = disturbed \ {r} /\ robbed' = robbed \ {r}
    /\ UNCHANGED <<output, converting, owned>>

\* Variant: the file found is taken for a failure of the conversion.
LooksWithin(r) ==
    /\ Stands(r, "naming")
    /\ \/ output[conversion[r].name] = Absent /\ Goes(r, "looked")
       \/ output[conversion[r].name] # Absent /\ Goes(r, "failing")
    /\ UNCHANGED <<output, converting, disturbed, robbed, owned, asks>>

\* mediaPaths() and lstat(): refused when the input is no file or the output exists.
Looks(r) ==
    /\ Stands(r, "naming")
    /\ \/ output[conversion[r].name] = Absent /\ Goes(r, "looked")
       \/ conversion' = [conversion EXCEPT ![r] = Idle]
    /\ UNCHANGED <<output, converting, disturbed, robbed, owned, asks>>

Begins(r) ==
    /\ Stands(r, "looked") /\ Goes(r, "running")
    /\ converting' = TRUE
    /\ UNCHANGED <<output, disturbed, robbed, owned, asks>>

\* ffmpeg -n: the program makes the file, or ends when there is one.
Opens(r) ==
    LET n == conversion[r].name
    IN  /\ Stands(r, "running") /\ output[n] = Absent
        /\ Goes(r, "writing")
        /\ output' = [output EXCEPT ![n] = [by |-> r, whole |-> FALSE]]
        /\ disturbed' = disturbed \cup (Past(n) \ {r})
        /\ UNCHANGED <<converting, robbed, owned, asks>>

Fails(r) ==
    /\ conversion[r].at \in {"running", "writing"} /\ Goes(r, "failing")
    /\ UNCHANGED <<output, converting, disturbed, robbed, owned, asks>>

\* What was deleted meanwhile has no name any more.
Finishes(r) ==
    LET n == conversion[r].name
    IN  /\ Stands(r, "writing") /\ Goes(r, "made")
        /\ output' = IF output[n].by = r THEN [output EXCEPT ![n].whole = TRUE] ELSE output
        /\ converting' = FALSE
        /\ UNCHANGED <<disturbed, robbed, owned, asks>>

\* Whatever is there under the name is removed.
Unlinks(r) ==
    LET n == conversion[r].name
    IN  /\ Stands(r, "failing") /\ Goes(r, "unlinked")
        /\ output' = [output EXCEPT ![n] = Absent]
        /\ IF r \in disturbed THEN owned' = owned \ {n} /\ robbed' = robbed \cup Past(n)
           ELSE UNCHANGED <<owned, robbed>>
        /\ UNCHANGED <<converting, disturbed, asks>>

\* Variant: a conversion that failed does not free the converter.
EndsTaken(r) ==
    /\ Stands(r, "unlinked") /\ conversion' = [conversion EXCEPT ![r] = Idle]
    /\ UNCHANGED <<output, converting, disturbed, robbed, owned, asks>>

Ends(r) ==
    /\ Stands(r, "unlinked") /\ conversion' = [conversion EXCEPT ![r] = Idle]
    /\ converting' = FALSE
    /\ UNCHANGED <<output, disturbed, robbed, owned, asks>>

\* The route records the conversion and answers; it fails when it cannot.
Answers(r) ==
    /\ Stands(r, "made")
    /\ Goes(r, "told") \/ conversion' = [conversion EXCEPT ![r] = Idle]
    /\ UNCHANGED <<output, converting, disturbed, robbed, owned, asks>>

Closes(r) ==
    /\ Stands(r, "told") /\ conversion' = [conversion EXCEPT ![r] = Idle]
    /\ UNCHANGED <<output, converting, disturbed, robbed, owned, asks>>

\* Others upload a file under the name, which must be free, and delete it.
Upload(n) ==
    /\ Ask /\ output[n] = Absent
    /\ output' = [output EXCEPT ![n] = [by |-> Others, whole |-> TRUE]]
    /\ owned' = owned \cup {n}
    /\ disturbed' = disturbed \cup Past(n)
    /\ UNCHANGED <<conversion, converting, robbed>>

Delete(n) ==
    /\ Ask /\ output[n] # Absent
    /\ output' = [output EXCEPT ![n] = Absent]
    /\ owned' = owned \ {n} /\ robbed' = robbed \cup Past(n)
    /\ UNCHANGED <<conversion, converting, disturbed>>

\* The server stops, and its programs with it; what they have written stays.
Restart ==
    /\ Ask
    /\ conversion' = [r \in Requests |-> Idle]
    /\ converting' = FALSE
    /\ disturbed' = {} /\ robbed' = {}
    /\ UNCHANGED <<output, owned>>

Next ==
    \/ \E r \in Requests :
          \/ \E n \in Outputs : Convert(r, n)
          \/ Looks(r) \/ Begins(r) \/ Opens(r) \/ Fails(r) \/ Finishes(r)
          \/ Unlinks(r) \/ Ends(r) \/ Answers(r) \/ Closes(r)
    \/ \E n \in Outputs : Upload(n) \/ Delete(n)
    \/ Restart

-----------------------------------------------------------------------------
\* A conversion answered with success has its file, whole, and what others have made is
\* not removed, whatever fails: but for a conversion that was disturbed after it looked,
\* whose failure does remove what is another's (media.mjs:16, 30).
OutputsStay ==
    /\ \A r \in Requests :
          Stands(r, "told") /\ r \notin robbed =>
              output[conversion[r].name] = [by |-> r, whole |-> TRUE]
    /\ \A n \in owned : output[n] = [by |-> Others, whole |-> TRUE]

\* The converter is taken only while a conversion is under way (media.mjs:25-32).
NeverStuck ==
    converting => \E r \in Requests :
        conversion[r].at \in {"running", "writing", "failing", "unlinked"}
=============================================================================
