----------------------------- MODULE ActivityLog -----------------------------
(***************************************************************************)
(* The activity log of the control plane: addActivity() of src/store.mjs,  *)
(* a hash chain of the newest events, and the handlers of src/server.mjs   *)
(* that add an event and await a save of the state it is part of.          *)
(***************************************************************************)
EXTENDS StateStore, FiniteSets

CONSTANTS
    Handlers,       \* requests of the control plane
    None,           \* no event
    Limit,          \* events kept (LIGHTNAS_AUDIT_MAX_EVENTS)
    MaxEvents,      \* bound: events added
    MaxFailures,    \* bound: writes of the state file that fail
    MaxRestarts     \* bound: restarts of the server

ActivityLogAssumption == None \notin Nat /\ Limit \in Nat \ {0}

VARIABLES
    handlers,       \* the event each request waits to have saved
    added,          \* events added so far: each has its own identifier
    acked,          \* history: events of which a save was acknowledged
                    \* they were added
    failures, restarts

log == <<handlers, added, acked, failures, restarts>>
vars == <<store, log>>

Cut(activity) ==
    IF Len(activity) <= Limit THEN activity ELSE SubSeq(activity, 1, Limit)

\* Variant: the event is linked to the oldest one kept.
LinkedToOldest(activity, id) ==
    Cut(<<[id |-> id,
           previous |-> IF activity = <<>> THEN None ELSE Last(activity).id]>>
        \o activity)

\* addActivity(): the event is linked to the newest one, and the log is cut.
Linked(activity, id) ==
    Cut(<<[id |-> id,
           previous |-> IF activity = <<>> THEN None ELSE activity[1].id]>>
        \o activity)

Events(activity) == {activity[i].id : i \in DOMAIN activity}

\* A handler changes the state, adds an event and calls save().
Record(h) ==
    /\ handlers[h] = None /\ added < MaxEvents
    /\ added' = added + 1
    /\ state' = Linked(state, added')
    /\ SaveCalled(state', h)
    /\ handlers' = [handlers EXCEPT ![h] = added']
    /\ UNCHANGED <<file, broken, acked, failures, restarts>>

\* The caller of the save at the head of the queue goes on.
Answer == handlers' = [handlers EXCEPT ![Head(queue).for] = None]

\* Variant: a save is acknowledged when it is queued behind another.
WrittenTogether ==
    /\ HeadWritten
    /\ handlers' = [h \in Handlers |-> None]
    /\ acked' = acked \cup ({handlers[h] : h \in Handlers} \ {None})
    /\ UNCHANGED <<added, failures, restarts>>

Written ==
    /\ HeadWritten /\ Answer
    /\ acked' = acked \cup {handlers[Head(queue).for]}
    /\ UNCHANGED <<added, failures, restarts>>

Failed ==
    /\ HeadFails /\ Answer
    /\ failures < MaxFailures /\ failures' = failures + 1
    /\ UNCHANGED <<added, acked, restarts>>

Rejected ==
    /\ HeadRejected /\ Answer
    /\ UNCHANGED <<added, acked, failures, restarts>>

Restart ==
    /\ Reload
    /\ restarts < MaxRestarts /\ restarts' = restarts + 1
    /\ handlers' = [h \in Handlers |-> None]
    /\ UNCHANGED <<added, acked, failures>>

Init ==
    /\ state = <<>> /\ file = <<>> /\ queue = <<>> /\ broken = FALSE
    /\ handlers = [h \in Handlers |-> None]
    /\ added = 0 /\ acked = {}
    /\ failures = 0 /\ restarts = 0

Next == \/ \E h \in Handlers : Record(h)
        \/ Written \/ Failed \/ Rejected \/ Restart

Spec == Init /\ [][Next]_vars

-----------------------------------------------------------------------------
\* "Audit/activity records are retained with a SHA-256 hash chain": each event
\* of the file is linked to the event before it, across failed writes and
\* restarts, and the oldest is the first ever or linked to one that was cut.
Chained(activity) ==
    \A i \in 1..Len(activity) - 1 : activity[i].previous = activity[i + 1].id

ChainIntact == Chained(state) /\ Chained(file)

\* An event whose save was acknowledged is in the file until newer events push
\* it out.
AckedIsDurable ==
    \A e \in acked :
        \/ e \in Events(file)
        \/ Cardinality({f \in Events(file) : f > e}) = Limit

\* Saves are written in the order of their calls: while the server runs the file
\* never goes back to an older log.
MovesOn == (file' # file /\ file # <<>>) => file'[1].id > file[1].id

FileMovesOn == [][MovesOn]_vars
=============================================================================
