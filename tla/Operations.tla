----------------------------- MODULE Operations -----------------------------
(***************************************************************************)
(* The job engine of the storage agent: class Operations of                *)
(* src/storage-agent/operations.js.  A mutation of the host is previewed,  *)
(* approved, executed step by step and, where possible, rolled back; every *)
(* step is journalled in jobs.json, and a restart of the agent reads the   *)
(* journal back.                                                           *)
(*                                                                         *)
(* The JavaScript runs on one thread: a step of the model is what runs     *)
(* between two awaits.  pc[j] names the await that job j's approve() or    *)
(* execute() call is suspended at.                                         *)
(***************************************************************************)
EXTENDS Integers, Sequences, FiniteSets

CONSTANTS
    Jobs,              \* job identifiers (randomUUID)
    NoJob,             \* the caller of a save() nobody's next step waits for
    Kinds,             \* the kinds of mutation requested in this instance
    NParts,            \* files or objects of the host one mutation writes
    Values,            \* the contents of a part
    Limit,             \* job retention limit (1000 in the code)
    MaxPending,        \* bound: saves waiting when a client call arrives
    MaxCrashes,        \* bound: restarts of the agent
    MaxFaults,         \* bound: journal writes that fail
    MaxEdits           \* bound: edits of the host by its administrator

AllKinds == {"shares", "resource", "feature", "protection", "volume"}

ASSUME JobsAssumption == NoJob \notin Jobs
ASSUME KindsAssumption == Kinds \subseteq AllKinds
ASSUME BoundsAssumption ==
    /\ NParts \in Nat \ {0} /\ Limit \in Nat /\ MaxPending \in Nat
    /\ MaxCrashes \in Nat /\ MaxFaults \in Nat /\ MaxEdits \in Nat

VARIABLES
    jobs,       \* this.jobs
    busy,       \* this.busy: the slot of the one active mutation
    saving,     \* this.saving: the journal texts still to be written, in order
    journal,    \* what jobs.json holds
    pc,         \* where the preview, approve or execute call of a job waits
    io,         \* the outcome of the save() that call awaits
    written,    \* parts the running apply or rollback has written so far
    plan,       \* the impact of a job: kind, state before, state after
    expired,    \* previews whose five minutes are over
    host,       \* the host configuration the plans are about
    wrote,      \* history: jobs that changed the host
    starts,     \* history: how often execute() was entered for a job
    overtaken,  \* history: jobs with an administrator's edit since their recheck
    crashes, faults, edits

work == <<pc, io, written, plan>>
past == <<wrote, starts, overtaken>>
spent == <<crashes, faults, edits>>
vars == <<jobs, busy, saving, journal, work, expired, host, past, spent>>

-----------------------------------------------------------------------------
(* Values *)

Revertible == {"shares", "resource"}      \* kinds whose catch block restores
Terminal == {"succeeded", "failed", "cancelled", "interrupted"}
Statuses == {"absent", "preview", "queued", "running"} \cup Terminal
Rollbacks == {"none", "available", "restored", "error", "inspect"}

JobRecord == [status : Statuses, cancelRequested : BOOLEAN,
              commitStarted : BOOLEAN, rollback : Rollbacks, created : Nat]

Absent == [status |-> "absent", cancelRequested |-> FALSE,
           commitStarted |-> FALSE, rollback |-> "none", created |-> 0]

HostStates == [1..NParts -> Values]
Plans == [kind : AllKinds, before : HostStates, after : HostStates]

\* What one save() writes, and whose next step waits for it.
Texts == [Jobs -> JobRecord]
Entries == [text : Texts, for : Jobs \cup {NoJob}]
Outcomes == {"none", "pending", "ok", "error"}
Uniform(v) == [p \in 1..NParts |-> v]

\* Awaits of execute(), in the order it reaches them.
Executing == {"opening", "validating", "rechecking", "comparing", "cancelling",
              "committing", "applying", "creating", "applied", "confirming", "recording",
              "finishing", "undoing", "noting", "failing"}
\* Awaits during which the job holds the mutation slot.
Holding == {"approving", "queueing", "scheduled"} \cup Executing
Locations == {"idle", "planning"} \cup Holding

Present == {j \in Jobs : jobs[j].status # "absent"}

-----------------------------------------------------------------------------
(* The journal.  save() serialises the jobs when it is called and chains   *)
(* the write behind the earlier ones.                                      *)

Save(new, caller) ==
    /\ jobs' = new
    /\ saving' = Append(saving, [text |-> new, for |-> caller])

\* execute() and approve() await the save they call: at is where they wait.
SaveAndWait(j, new, at) ==
    /\ Save(new, j)
    /\ pc' = [pc EXCEPT ![j] = at]
    /\ io' = [io EXCEPT ![j] = "pending"]

With(j, rec) == [jobs EXCEPT ![j] = rec]
Set(j, status) == With(j, [jobs[j] EXCEPT !.status = status])

Answer(entry, outcome) ==
    io' = IF entry.for \in Jobs THEN [io EXCEPT ![entry.for] = outcome] ELSE io

\* atomic(): the text replaces the file ...
WriteJournal ==
    /\ saving # <<>>
    /\ journal' = Head(saving).text
    /\ Answer(Head(saving), "ok")
    /\ saving' = Tail(saving)
    /\ UNCHANGED <<jobs, busy, pc, written, plan, expired, host, past, spent>>

\* ... or throws and leaves the file (if it threw before the rename) or has
\* replaced it (if only the directory fsync threw); the next write goes ahead.
FailJournal ==
    /\ saving # <<>>
    /\ faults < MaxFaults
    /\ faults' = faults + 1
    /\ \/ journal' = journal
       \/ journal' = Head(saving).text
    /\ Answer(Head(saving), "error")
    /\ saving' = Tail(saving)
    /\ UNCHANGED <<jobs, busy, pc, written, plan, expired, host, past,
                   crashes, edits>>

Saved(j) == io[j] = "ok"
NotSaved(j) == io[j] = "error"

-----------------------------------------------------------------------------
(* Requests of clients *)

\* preview(): the retention limit is tested first, the state of the host is
\* read while the plan is made, and the job enters the map only afterwards.
BeginPreview(j, k, v) ==
    /\ jobs[j].status = "absent" /\ pc[j] = "idle"
    /\ Cardinality(Present) < Limit
    /\ pc' = [pc EXCEPT ![j] = "planning"]
    /\ plan' = [plan EXCEPT ![j] = [kind |-> k, before |-> host, after |-> Uniform(v)]]
    /\ UNCHANGED <<jobs, busy, saving, journal, io, written, expired, host, past, spent>>

\* previewRollback(): a share preview whose target is what job old replaced.
BeginRollbackPreview(j, old) ==
    /\ jobs[j].status = "absent" /\ pc[j] = "idle"
    /\ Cardinality(Present) < Limit
    /\ jobs[old].rollback \in {"available", "restored", "error"}
    /\ plan[old].kind = "shares"
    /\ pc' = [pc EXCEPT ![j] = "planning"]
    /\ plan' = [plan EXCEPT ![j] =
                    [kind |-> "shares", before |-> host, after |-> plan[old].before]]
    /\ UNCHANGED <<jobs, busy, saving, journal, io, written, expired, host, past, spent>>

EndPreview(j) ==
    /\ pc[j] = "planning"
    /\ Len(saving) < MaxPending
    /\ pc' = [pc EXCEPT ![j] = "idle"]
    /\ Save(Set(j, "preview"), NoJob)
    /\ expired' = expired \ {j}
    /\ UNCHANGED <<busy, journal, io, written, plan, host, past, spent>>

\* Validation or discovery threw: no job is made.
RefusePreview(j) ==
    /\ pc[j] = "planning"
    /\ pc' = [pc EXCEPT ![j] = "idle"]
    /\ UNCHANGED <<jobs, busy, saving, journal, io, written, plan, expired, host, past, spent>>

Expire(j) ==
    /\ jobs[j].status = "preview" /\ j \notin expired
    /\ expired' = expired \cup {j}
    /\ UNCHANGED <<jobs, busy, saving, journal, work, host, past, spent>>

\* approve(), up to its first await: the slot is taken before the recheck.
Approve(j) ==
    /\ jobs[j].status = "preview" /\ j \notin expired
    /\ ~busy
    /\ busy' = TRUE
    /\ pc' = [pc EXCEPT ![j] = "approving"]
    /\ UNCHANGED <<jobs, saving, journal, io, written, plan, expired, host, past, spent>>

\* recheck(): what the plan was made from is still what the host holds.
Unchanged(j) == host = plan[j].before

ApproveRecheck(j) ==
    /\ pc[j] = "approving"
    /\ Unchanged(j)
    /\ SaveAndWait(j, Set(j, "queued"), "queueing")
    /\ UNCHANGED <<busy, journal, written, plan, expired, host, past, spent>>

\* Variant: a failed approval keeps the slot.
ApproveFailsHolding(j) ==
    /\ \/ pc[j] = "approving"
       \/ pc[j] = "queueing" /\ NotSaved(j)
    /\ pc' = [pc EXCEPT ![j] = "idle"]
    /\ io' = [io EXCEPT ![j] = "none"]
    /\ UNCHANGED <<jobs, busy, saving, journal, written, plan, expired, host, past, spent>>

\* The recheck threw, or the save of the queued job did: the slot is given
\* back, and the status stays what it is by then.
ApproveFails(j) ==
    /\ \/ pc[j] = "approving"
       \/ pc[j] = "queueing" /\ NotSaved(j)
    /\ busy' = FALSE
    /\ pc' = [pc EXCEPT ![j] = "idle"]
    /\ io' = [io EXCEPT ![j] = "none"]
    /\ UNCHANGED <<jobs, saving, journal, written, plan, expired, host, past, spent>>

\* Variant: execute() is scheduled without awaiting the save.
ApproveEndsUnsaved(j) ==
    /\ pc[j] = "queueing"
    /\ pc' = [pc EXCEPT ![j] = "scheduled"]
    /\ io' = [io EXCEPT ![j] = "none"]
    /\ UNCHANGED <<jobs, busy, saving, journal, written, plan, expired, host, past, spent>>

\* The job is durably queued: setImmediate(() => this.execute(j)).
ApproveEnds(j) ==
    /\ pc[j] = "queueing" /\ Saved(j)
    /\ pc' = [pc EXCEPT ![j] = "scheduled"]
    /\ io' = [io EXCEPT ![j] = "none"]
    /\ UNCHANGED <<jobs, busy, saving, journal, written, plan, expired, host, past, spent>>

Cancel(j) ==
    /\ jobs[j].status \in {"queued", "running"} /\ ~jobs[j].commitStarted
    /\ Len(saving) < MaxPending
    /\ Save(With(j, [jobs[j] EXCEPT !.cancelRequested = TRUE]), NoJob)
    /\ UNCHANGED <<busy, journal, work, expired, host, past, spent>>

-----------------------------------------------------------------------------
(* execute() *)

\* Where execute() resumes when no journal write is awaited.
Goto(j, at) ==
    /\ pc' = [pc EXCEPT ![j] = at]
    /\ io' = [io EXCEPT ![j] = "none"]

Start(j) ==
    /\ pc[j] = "scheduled"
    /\ SaveAndWait(j, Set(j, "running"), "opening")
    /\ starts' = [starts EXCEPT ![j] = @ + 1]
    /\ UNCHANGED <<busy, journal, written, plan, expired, host, wrote, overtaken, spent>>

Opened(j) ==
    /\ pc[j] = "opening" /\ Saved(j)
    /\ Goto(j, IF plan[j].kind = "shares" THEN "validating" ELSE "rechecking")
    /\ UNCHANGED <<jobs, busy, saving, journal, written, plan, expired, host, past, spent>>

\* Variant: a misspelt status.
StopMisspelt(j) ==
    /\ jobs[j].cancelRequested
    /\ SaveAndWait(j, Set(j, "canceled"), "cancelling")

StopCancelled(j) ==
    /\ jobs[j].cancelRequested
    /\ SaveAndWait(j, Set(j, "cancelled"), "cancelling")

\* The commit record is journalled, with the rollback data, before anything
\* is written to the host.
EnterCommit(j) ==
    SaveAndWait(j,
        With(j, [jobs[j] EXCEPT
            !.commitStarted = TRUE,
            !.rollback = IF plan[j].kind \in Revertible THEN "available" ELSE @]),
        "committing")

\* adapter.validate(after), of shares only.
Validate(j) ==
    /\ pc[j] = "validating"
    /\ \/ StopCancelled(j)
       \/ ~jobs[j].cancelRequested /\ Goto(j, "rechecking") /\ UNCHANGED <<jobs, saving>>
    /\ UNCHANGED <<busy, journal, written, plan, expired, host, past, spent>>

\* Variant: a cancellation is looked at before the recheck only.
RecheckBlindly(j) ==
    /\ pc[j] = "rechecking"
    /\ Unchanged(j)
    /\ overtaken' = overtaken \ {j}
    /\ IF plan[j].kind = "shares" /\ plan[j].before = plan[j].after
       THEN Goto(j, "comparing") /\ UNCHANGED <<jobs, saving>>
       ELSE EnterCommit(j)
    /\ UNCHANGED <<busy, journal, written, plan, expired, host, wrote, starts, spent>>

\* Variant: the host is rechecked at the approval only.
RecheckNothing(j) ==
    /\ pc[j] = "rechecking"
    /\ \/ StopCancelled(j)
       \/ ~jobs[j].cancelRequested /\ EnterCommit(j)
    /\ overtaken' = overtaken \ {j}
    /\ UNCHANGED <<busy, journal, written, plan, expired, host, wrote, starts, spent>>

\* The no-op test of shares awaits verifyCurrent() when nothing would change.
Recheck(j) ==
    /\ pc[j] = "rechecking"
    /\ Unchanged(j)
    /\ overtaken' = overtaken \ {j}
    /\ \/ StopCancelled(j)
       \/ /\ ~jobs[j].cancelRequested
          /\ IF plan[j].kind = "shares" /\ plan[j].before = plan[j].after
             THEN Goto(j, "comparing") /\ UNCHANGED <<jobs, saving>>
             ELSE EnterCommit(j)
    /\ UNCHANGED <<busy, journal, written, plan, expired, host, wrote, starts, spent>>

\* verifyCurrent() answers: the services run this configuration, or not.
Compare(j) ==
    /\ pc[j] = "comparing"
    /\ \/ SaveAndWait(j, Set(j, "succeeded"), "finishing")
       \/ EnterCommit(j)
    /\ UNCHANGED <<busy, journal, written, plan, expired, host, past, spent>>

\* Variant: the commit does not await its journal record.
CommittedUnsaved(j) ==
    /\ pc[j] = "committing"
    /\ Goto(j, "applying")
    /\ written' = [written EXCEPT ![j] = 0]
    /\ UNCHANGED <<jobs, busy, saving, journal, plan, expired, host, past, spent>>

Committed(j) ==
    /\ pc[j] = "committing" /\ Saved(j)
    /\ Goto(j, "applying")
    /\ written' = [written EXCEPT ![j] = 0]
    /\ UNCHANGED <<jobs, busy, saving, journal, plan, expired, host, past, spent>>

\* The adapter writes the parts of its plan one at a time.
WritePart(j, p, target) ==
    /\ written[j] < NParts
    /\ host' = [host EXCEPT ![p] = target[p]]
    /\ written' = [written EXCEPT ![j] = @ + 1]
    /\ wrote' = IF host[p] = target[p] THEN wrote ELSE wrote \cup {j}

\* The parts of a resource are directories and then the definitions; each new
\* directory is journalled, by onCreated(), before the next part is touched.
Apply(j) ==
    /\ pc[j] = "applying"
    /\ WritePart(j, written[j] + 1, plan[j].after)
    /\ IF plan[j].kind = "resource" /\ written'[j] < NParts
       THEN SaveAndWait(j, With(j, [jobs[j] EXCEPT !.created = @ + 1]), "creating")
       ELSE UNCHANGED <<jobs, saving, pc, io>>
    /\ UNCHANGED <<busy, journal, plan, expired, starts, overtaken, spent>>

\* Variant: onCreated() is not awaited.
CreatedUnsaved(j) ==
    /\ pc[j] = "creating"
    /\ Goto(j, "applying")
    /\ UNCHANGED <<jobs, busy, saving, journal, written, plan, expired, host, past, spent>>

CreatedSaved(j) ==
    /\ pc[j] = "creating" /\ Saved(j)
    /\ Goto(j, "applying")
    /\ UNCHANGED <<jobs, busy, saving, journal, written, plan, expired, host, past, spent>>

\* Variant: the writes of apply() are not awaited.
AppliedEarly(j) ==
    /\ pc[j] = "applying"
    /\ SaveAndWait(j, Set(j, "succeeded"), "finishing")
    /\ UNCHANGED <<busy, journal, written, plan, expired, host, past, spent>>

\* apply() returned.  A feature is then done (a protection run first records
\* its outcome); the other kinds report progress and confirm the result.
Applied(j) ==
    /\ pc[j] = "applying" /\ written[j] = NParts
    /\ CASE plan[j].kind = "feature" ->
              SaveAndWait(j, Set(j, "succeeded"), "finishing")
         [] plan[j].kind = "protection" ->
              Goto(j, "recording") /\ jobs' = Set(j, "succeeded") /\ UNCHANGED saving
         [] OTHER -> SaveAndWait(j, jobs, "applied")
    /\ UNCHANGED <<busy, journal, written, plan, expired, host, past, spent>>

AppliedSaved(j) ==
    /\ pc[j] = "applied" /\ Saved(j)
    /\ Goto(j, "confirming")
    /\ UNCHANGED <<jobs, busy, saving, journal, written, plan, expired, host, past, spent>>

\* reload() of shares; the definitions of a resource are read back and must
\* be the planned ones; a volume is looked for in a fresh discovery.
Confirm(j) ==
    /\ pc[j] = "confirming"
    /\ plan[j].kind = "resource" => host = plan[j].after
    /\ SaveAndWait(j, Set(j, "succeeded"), "finishing")
    /\ UNCHANGED <<busy, journal, written, plan, expired, host, past, spent>>

\* protection.record(): the outcome of a run in the task's runtime record.
Record(j) ==
    /\ pc[j] = "recording"
    /\ SaveAndWait(j, jobs, "finishing")
    /\ UNCHANGED <<busy, journal, written, plan, expired, host, past, spent>>

\* Variant: the slot is freed only when the last event was journalled.
FinishSaved(j) ==
    /\ pc[j] \in {"finishing", "cancelling", "failing"} /\ Saved(j)
    /\ busy' = FALSE
    /\ Goto(j, "idle")
    /\ UNCHANGED <<jobs, saving, journal, written, plan, expired, host, past, spent>>

\* finally { this.busy = false }
Finish(j) ==
    /\ \/ pc[j] \in {"finishing", "cancelling"} /\ Saved(j)
       \/ pc[j] = "failing" /\ (Saved(j) \/ NotSaved(j))
    /\ busy' = FALSE
    /\ Goto(j, "idle")
    /\ UNCHANGED <<jobs, saving, journal, written, plan, expired, host, past, spent>>

\* What may throw: the adapter's awaits, and any awaited journal write.
Throws(j) ==
    \/ pc[j] \in {"validating", "rechecking", "comparing", "confirming", "recording"}
    \/ pc[j] = "applying" /\ written[j] < NParts
    \/ /\ pc[j] \in {"opening", "cancelling", "committing", "creating", "applied",
                    "finishing"}
       /\ NotSaved(j)

\* Variant: the error path frees the slot before its own last event.
CatchFreeing(j) ==
    /\ Throws(j)
    /\ SaveAndWait(j, Set(j, "failed"), "failing")
    /\ busy' = FALSE
    /\ UNCHANGED <<journal, written, plan, expired, host, past, spent>>

\* The catch block.  A kind that can be restored is, once its commit began.
Catch(j) ==
    /\ Throws(j)
    /\ LET j0 == [jobs[j] EXCEPT !.status = "failed"]
           undo == plan[j].kind \in Revertible /\ jobs[j].commitStarted
           failed == IF plan[j].kind \in Revertible \/ ~jobs[j].commitStarted
                     THEN j0 ELSE [j0 EXCEPT !.rollback = "inspect"]
       IN CASE undo ->
                 /\ Goto(j, "undoing")
                 /\ jobs' = With(j, failed)
                 /\ written' = [written EXCEPT ![j] = 0]
                 /\ UNCHANGED saving
            [] plan[j].kind = "protection" ->
                 Goto(j, "noting") /\ jobs' = With(j, failed) /\ UNCHANGED <<saving, written>>
            [] OTHER ->
                 SaveAndWait(j, With(j, failed), "failing") /\ UNCHANGED written
    /\ UNCHANGED <<busy, journal, plan, expired, host, past, spent>>

\* protection.record() of the failure; an error of its own is only logged.
Note(j) ==
    /\ pc[j] = "noting"
    /\ SaveAndWait(j, jobs, "failing")
    /\ UNCHANGED <<busy, journal, written, plan, expired, host, past, spent>>

\* A resource is undone in the reverse order: definitions, then directories.
Undo(j) ==
    /\ pc[j] = "undoing"
    /\ WritePart(j, IF plan[j].kind = "resource" THEN NParts - written[j] ELSE written[j] + 1,
                 plan[j].before)
    /\ UNCHANGED <<jobs, busy, saving, journal, pc, io, plan, expired,
                   starts, overtaken, spent>>

\* Variant: the writes of the rollback are not awaited.
UndoneEarly(j) ==
    /\ pc[j] = "undoing"
    /\ \E r \in {"restored", "error"} :
          SaveAndWait(j, With(j, [jobs[j] EXCEPT !.rollback = r]), "failing")
    /\ UNCHANGED <<busy, journal, written, plan, expired, host, past, spent>>

\* The rollback ran to its end, or threw on the way.
Undone(j) ==
    /\ pc[j] = "undoing"
    /\ \E r \in {"restored", "error"} :
          /\ r = "restored" => written[j] = NParts
          /\ SaveAndWait(j, With(j, [jobs[j] EXCEPT !.rollback = r]), "failing")
    /\ UNCHANGED <<busy, journal, written, plan, expired, host, past, spent>>

-----------------------------------------------------------------------------
(* The environment *)

\* The agent stops at any moment and starts again: init() reads the journal,
\* marks what was active as interrupted and saves.
Recovered ==
    [j \in Jobs |-> IF journal[j].status \in {"queued", "running"}
                    THEN [journal[j] EXCEPT !.status = "interrupted"]
                    ELSE journal[j]]

Restart ==
    /\ crashes < MaxCrashes
    /\ crashes' = crashes + 1
    /\ jobs' = Recovered /\ journal' = Recovered
    /\ busy' = FALSE /\ saving' = <<>>
    /\ pc' = [j \in Jobs |-> "idle"]
    /\ io' = [j \in Jobs |-> "none"]
    /\ UNCHANGED <<written, plan, expired, host, past, faults, edits>>

\* Someone other than the agent changes the host.
Edit(p, v) ==
    /\ edits < MaxEdits
    /\ edits' = edits + 1
    /\ host[p] # v
    /\ host' = [host EXCEPT ![p] = v]
    /\ overtaken' = Jobs
    /\ UNCHANGED <<jobs, busy, saving, journal, work, expired, wrote, starts,
                   crashes, faults>>

-----------------------------------------------------------------------------
Init ==
    /\ jobs = [j \in Jobs |-> Absent]
    /\ journal = [j \in Jobs |-> Absent]
    /\ busy = FALSE /\ saving = <<>>
    /\ pc = [j \in Jobs |-> "idle"]
    /\ io = [j \in Jobs |-> "none"]
    /\ written = [j \in Jobs |-> 0]
    /\ \E v \in Values :
          /\ host = Uniform(v)
          /\ plan = [j \in Jobs |-> [kind |-> "shares", before |-> Uniform(v), after |-> Uniform(v)]]
    /\ expired = {}
    /\ wrote = {} /\ starts = [j \in Jobs |-> 0] /\ overtaken = {}
    /\ crashes = 0 /\ faults = 0 /\ edits = 0

Client(j) ==
    \/ \E k \in Kinds, v \in Values : BeginPreview(j, k, v)
    \/ \E old \in Jobs : BeginRollbackPreview(j, old)
    \/ EndPreview(j) \/ RefusePreview(j) \/ Expire(j)
    \/ Approve(j) \/ Cancel(j)

\* The continuations of approve() and execute().
Engine(j) ==
    \/ ApproveRecheck(j) \/ ApproveFails(j) \/ ApproveEnds(j)
    \/ Start(j) \/ Opened(j) \/ Validate(j) \/ Recheck(j) \/ Compare(j)
    \/ Committed(j) \/ Apply(j) \/ CreatedSaved(j) \/ Applied(j) \/ AppliedSaved(j)
    \/ Confirm(j) \/ Record(j) \/ Finish(j)
    \/ Catch(j) \/ Note(j) \/ Undo(j) \/ Undone(j)

Next ==
    \/ \E j \in Jobs : Client(j) \/ Engine(j)
    \/ WriteJournal \/ FailJournal
    \/ Restart
    \/ \E p \in 1..NParts, v \in Values : Edit(p, v)

Spec == Init /\ [][Next]_vars

\* A suspended call is resumed once what it awaits is there, and a chained
\* write is made: the event loop and the kernel see to both.  Clients,
\* crashes and failures are owed nothing.
Fairness == /\ \A j \in Jobs : WF_vars(Engine(j))
            /\ WF_vars(WriteJournal \/ FailJournal)

FairSpec == Spec /\ Fairness
-----------------------------------------------------------------------------
(* What the engine promises *)

\* The engine is a job ledger: jobs.json is the ledger ...
Ledgered == [j \in Jobs |->
    CASE journal[j].status = "absent" -> "none"
      [] journal[j].status = "preview" -> "preview"
      [] journal[j].status \in {"queued", "running"} -> "approved"
      [] OTHER -> "settled"]

\* ... and a job runs from the start of execute() to its finally block.
Runs == IF \E j \in Jobs : pc[j] \in Executing
        THEN CHOOSE j \in Jobs : pc[j] \in Executing ELSE NoJob

Started == {j \in Jobs : starts[j] > 0}

Ledger == INSTANCE JobLedger WITH
    ledger <- Ledgered, running <- Runs, ran <- Started

\* Every behaviour of the engine is one of the ledger.
ImplementsLedger == Ledger!Spec

TypeOK ==
    /\ jobs \in Texts /\ journal \in Texts
    /\ busy \in BOOLEAN
    /\ saving \in Seq(Entries)
    /\ pc \in [Jobs -> Locations]
    /\ io \in [Jobs -> Outcomes]
    /\ written \in [Jobs -> 0..NParts]
    /\ plan \in [Jobs -> Plans]
    /\ expired \subseteq Jobs /\ host \in HostStates
    /\ wrote \subseteq Jobs /\ starts \in [Jobs -> Nat] /\ overtaken \subseteq Jobs
    /\ crashes \in Nat /\ faults \in Nat /\ edits \in Nat

\* One mutation at a time: the slot is taken exactly while one job is between
\* its approval and the end of its execution, whatever throws in between.
OneMutation ==
    /\ \A i, j \in Jobs : pc[i] \in Holding /\ pc[j] \in Holding => i = j
    /\ busy <=> \E j \in Jobs : pc[j] \in Holding

\* An approval is used once: no crash, failed journal write or second request
\* makes execute() run a job again.
NeverReplayed == \A j \in Jobs : starts[j] <= 1

\* A job changes the host only from the state its owner approved: of two jobs
\* previewed from the same state the second is refused once the first has
\* committed.  Only an administrator's edit after the recheck can come between.
CommitsFromPreviewed ==
    \A j \in Jobs :
        \/ pc[j] \in {"comparing", "committing"}
        \/ pc[j] = "applying" /\ written[j] = 0
        => host = plan[j].before \/ j \in overtaken

\* The rollback data is on disk before a job that can be undone changes
\* anything, so an interrupted job can be rolled back after a restart.
RollbackJournaled ==
    \A j \in wrote \ overtaken :
        plan[j].kind \in Revertible => journal[j].rollback # "none"

\* Every directory a resource job has made, but the last, is in the journal.
DirectoriesJournaled ==
    \A j \in Jobs : plan[j].kind = "resource" /\ pc[j] = "applying" /\ written[j] < NParts
        => journal[j].created = written[j]

\* The status tells the truth: a job that succeeds leaves the host as planned,
\* one reported as restored leaves it as it was, a cancelled one untouched.
OutcomeIsReal ==
    \A j \in Jobs \ overtaken :
        /\ pc[j] = "finishing" => host = plan[j].after
        /\ pc[j] = "failing" /\ jobs[j].rollback = "restored" => host = plan[j].before
        /\ jobs[j].status = "cancelled" => j \notin wrote

\* An accepted cancellation is honoured: a job that would change the host does
\* not do so any more.
CancelPreventsChange ==
    \A j \in wrote \ overtaken : ~jobs[j].cancelRequested

\* As the API documents it: cancellation is "before commit", so a job whose
\* cancellation was accepted never enters its commit.
CancelBeforeCommit ==
    \A j \in Jobs : ~(jobs[j].cancelRequested /\ jobs[j].commitStarted)

\* The slot never leaks: whatever fails, it becomes free again.
SlotFreed == busy ~> ~busy

\* A job whose approval was answered reaches a final status and lets go, if
\* only as interrupted after a restart.
ApprovedJobEnds ==
    \A j \in Jobs : pc[j] = "scheduled" ~> jobs[j].status \in Terminal /\ pc[j] = "idle"
=============================================================================
