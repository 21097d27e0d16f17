------------------------------ MODULE Scheduler ------------------------------
(***************************************************************************)
(* The scheduler of the storage agent: startScheduler() of                 *)
(* src/storage-agent/features.js.  A tick claims every protection task     *)
(* whose time has come in runtime.json, previews and approves a run of it, *)
(* and now and then renews the ACME certificates.  Ticks, the jobs they    *)
(* start and the jobs of administrators share the mutation slot, the task  *)
(* registry and runtime.json, which record() reads and writes back whole.  *)
(*                                                                         *)
(* The job engine itself is modelled in Operations; a job is here what its *)
(* plan, recheck, apply and record do to the scheduler's files.  Writes of *)
(* those files do not fail here.                                           *)
(***************************************************************************)
EXTENDS Naturals, FiniteSets

CONSTANTS
    Tasks,          \* recurring protection tasks
    Jobs,           \* job identifiers: as many as the retention limit allows
    None,           \* no time, no job, no task
    Clients,        \* kinds of job administrators ask for: "run", "save",
                    \* "delete"
    Acme,           \* whether a certificate was issued by ACME
    MaxClock,       \* bound: the last instant at which the tasks are due
    MaxCrashes      \* bound: restarts of the agent

SchedulerAssumption ==
    /\ None \notin Nat /\ None \notin Jobs \cup Tasks
    /\ Clients \subseteq {"run", "save", "delete"}
    /\ Acme \in BOOLEAN

VARIABLES
    registry,       \* registry.json: the enabled tasks
    runtime,        \* runtime.json
    busy,           \* ops.busy
    jobs,           \* the jobs and where each waits
    tick,           \* where the tick waits, and what it holds
    up,             \* whether the agent runs
    clock,          \* the time
    crashes         \* restarts so far

files == <<registry, runtime>>
world == <<up, clock, crashes>>
vars == <<files, busy, jobs, tick, world>>

-----------------------------------------------------------------------------
(* Values *)

\* nextRun(): the first instant of the schedule strictly after now.  Every
\* task is due at every instant of the clock.
nextRun(now) == now + 1

Unrun == [next |-> None, job |-> None, status |-> "none"]
Blank == [t \in Tasks |-> Unrun]

\* The entry of a task in what record() read, with some fields replaced.
Recorded(read, t, values) ==
    [read EXCEPT ![t] = [f \in DOMAIN read[t] |->
                            IF f \in DOMAIN values THEN values[f] ELSE read[t][f]]]

Idle == [at |-> "idle", now |-> 0, todo |-> {}, read |-> Blank, task |-> None,
         due |-> None, job |-> None, values |-> Unrun, held |-> Blank,
         then |-> "loop"]

NoJob == [at |-> "free", kind |-> None, task |-> None, due |-> None,
          before |-> {}, status |-> "none", ran |-> FALSE, held |-> Blank]

\* The awaits of a job that has the mutation slot.
Waiting == {"approving", "queued", "applying", "clear read", "clear write",
            "record read", "record write", "finishing"}
Active(j) == jobs[j].at \in Waiting

-----------------------------------------------------------------------------
(* The tick *)

\* The interval fires: nothing is done while a tick runs or a mutation is
\* active.
Tick ==
    /\ up /\ tick.at = "idle" /\ ~busy
    /\ tick' = [Idle EXCEPT !.at = "registry", !.now = clock]
    /\ UNCHANGED <<files, busy, jobs, world>>

ReadRegistry ==
    /\ tick.at = "registry"
    /\ tick' = [tick EXCEPT !.todo = registry, !.at = "runtime"]
    /\ UNCHANGED <<files, busy, jobs, world>>

\* The tick calls record(), which first reads runtime.json.
Record(t, values, then) ==
    [tick EXCEPT !.at = "record read", !.task = t, !.values = values,
                 !.then = then]

Planned == [next |-> nextRun(tick.now)]

\* Variant: the time of the next run is not part of the claim.
ClaimWithoutTime == [status |-> "starting"]

\* The claim of a run: the next one is advanced before this one executes.
Claim == [next |-> nextRun(tick.now), status |-> "starting"]

\* The loop over the tasks of one tick, up to its next await.  A task without a
\* time gets one, a task whose time has come is claimed.  After the loop the
\* certificates may be due for renewal.
Continue(read, todo) ==
    LET due == {t \in todo : read[t].next = None \/ read[t].next <= tick.now}
    IN  IF busy \/ due = {}
        THEN \/ tick' = Idle
             \/ ~busy /\ tick' = [Idle EXCEPT !.at = "certificates"]
        ELSE \E t \in due :
                tick' = [(IF read[t].next = None
                          THEN Record(t, Planned, "loop")
                          ELSE Record(t, Claim, "preview"))
                         EXCEPT !.read = read, !.todo = due \ {t},
                                !.due = read[t].next, !.job = None]

ReadRuntime ==
    /\ tick.at = "runtime"
    /\ Continue(runtime, tick.todo)
    /\ UNCHANGED <<files, busy, jobs, world>>

RecordRead ==
    /\ tick.at = "record read"
    /\ tick' = [tick EXCEPT !.at = "record write",
                            !.held = Recorded(runtime, tick.task, tick.values)]
    /\ UNCHANGED <<files, busy, jobs, world>>

RecordWrite ==
    /\ tick.at = "record write"
    /\ runtime' = tick.held
    /\ IF tick.then = "loop"
       THEN Continue(tick.read, tick.todo)
       ELSE tick' = [tick EXCEPT !.at = tick.then, !.held = Blank]
    /\ UNCHANGED <<registry, busy, jobs, world>>

\* What the catch block of the run records.
Refused == Record(tick.task, [status |-> "failed"], "loop")

Previewed(j, kind, t, due) ==
    jobs' = [jobs EXCEPT ![j] =
        [NoJob EXCEPT !.at = "preview", !.kind = kind, !.task = t, !.due = due,
                      !.before = registry]]

\* ops.preview() of the run.  It throws when the task is gone or the job
\* history is full.
PreviewRun ==
    /\ tick.at = "preview"
    /\ LET free == {j \in Jobs : jobs[j].at = "free"} IN
       IF tick.task \in registry /\ free # {}
       THEN \E j \in free :
              /\ Previewed(j, "run", tick.task, tick.due)
              /\ tick' = [tick EXCEPT !.at = "approve", !.job = j]
       ELSE tick' = Refused /\ UNCHANGED jobs
    /\ UNCHANGED <<files, busy, world>>

\* Variant: approve() does not look at the slot.
ApproveAnyway(j, due) ==
    /\ jobs[j].at = "preview"
    /\ busy' = TRUE
    /\ jobs' = [jobs EXCEPT ![j].at = "approving", ![j].due = due]

\* ops.approve(): a preview that was not approved takes the free slot.
Approve(j, due) ==
    /\ jobs[j].at = "preview" /\ ~busy
    /\ busy' = TRUE
    /\ jobs' = [jobs EXCEPT ![j].at = "approving", ![j].due = due]

\* ops.approve() of the run.
ApproveRun ==
    /\ tick.at = "approve"
    /\ \/ Approve(tick.job, tick.due) /\ tick' = [tick EXCEPT !.at = "approving"]
       \/ /\ busy \/ jobs[tick.job].at # "preview"
          /\ tick' = Refused
          /\ UNCHANGED <<busy, jobs>>
    /\ UNCHANGED <<files, world>>

\* The renewal, if there is a certificate for it, takes the slot.
StartRenewal ==
    /\ tick.at = "certificates"
    /\ IF Acme
       THEN busy' = TRUE /\ tick' = [tick EXCEPT !.at = "renewing"]
       ELSE busy' = busy /\ tick' = Idle
    /\ UNCHANGED <<files, jobs, world>>

Renewed ==
    /\ tick.at = "renewing"
    /\ busy' = FALSE
    /\ tick' = Idle
    /\ UNCHANGED <<files, jobs, world>>

-----------------------------------------------------------------------------
(* Jobs *)

\* An administrator previews and approves jobs; a preview the scheduler left
\* behind can be approved as well, and is then a run the administrator asked for.
ClientPreview(j, kind, t) ==
    /\ up /\ jobs[j].at = "free"
    /\ kind # "save" => t \in registry
    /\ Previewed(j, kind, t, None)
    /\ UNCHANGED <<files, busy, tick, world>>

ClientApprove(j) ==
    /\ up /\ Clients # {}
    /\ Approve(j, None)
    /\ UNCHANGED <<files, tick, world>>

\* Variant: a run the schedule asked for is trusted.
RecheckedByHand(j) == jobs[j].due # None \/ jobs[j].before = registry

\* recheck(): the plan made now equals the plan approved, which holds the
\* registry.
Rechecked(j) == jobs[j].before = registry

\* approve() ends; the tick goes on if it made the call.
ApproveEnds(j) ==
    LET awaited == tick.at = "approving" /\ tick.job = j IN
    /\ jobs[j].at = "approving"
    /\ IF Rechecked(j)
       THEN /\ jobs' = [jobs EXCEPT ![j].at = "queued"]
            /\ tick' = IF awaited
                       THEN Record(tick.task,
                                   [job |-> j, status |-> "queued"], "loop")
                       ELSE tick
            /\ busy' = busy
       ELSE /\ jobs' = [jobs EXCEPT ![j].at = "preview"]
            /\ tick' = IF awaited THEN Refused ELSE tick
            /\ busy' = FALSE
    /\ UNCHANGED <<files, world>>

Goto(j, at) == jobs' = [jobs EXCEPT ![j].at = at]

\* The status of a job is set, and with a run it is recorded.
Settled(j, status) ==
    [jobs[j] EXCEPT !.status = status,
                    !.at = IF @ = "finishing" \/ jobs[j].kind # "run"
                           THEN "finishing" ELSE "record read"]

Execute(j) ==
    /\ jobs[j].at = "queued"
    /\ IF Rechecked(j)
       THEN Goto(j, "applying")
       ELSE jobs' = [jobs EXCEPT ![j] = Settled(j, "failed")]
    /\ UNCHANGED <<files, busy, tick, world>>

\* apply() of a run: its commands succeed or fail.
Run(j) ==
    /\ jobs[j].at = "applying" /\ jobs[j].kind = "run"
    /\ \E s \in {"succeeded", "failed"} :
          jobs' = [jobs EXCEPT ![j] = [Settled(j, s) EXCEPT !.ran = TRUE]]
    /\ UNCHANGED <<files, busy, tick, world>>

\* apply() of a saved or deleted task writes the registry, and then forgets the
\* task's entry of runtime.json.
WriteRegistry(j) ==
    /\ jobs[j].at = "applying" /\ jobs[j].kind # "run"
    /\ registry' = IF jobs[j].kind = "save"
                   THEN jobs[j].before \cup {jobs[j].task}
                   ELSE jobs[j].before \ {jobs[j].task}
    /\ Goto(j, "clear read")
    /\ UNCHANGED <<runtime, busy, tick, world>>

ClearRead(j) ==
    /\ jobs[j].at = "clear read"
    /\ jobs' = [jobs EXCEPT ![j].at = "clear write",
                            ![j].held = [runtime EXCEPT ![jobs[j].task] = Unrun]]
    /\ UNCHANGED <<files, busy, tick, world>>

ClearWrite(j) ==
    /\ jobs[j].at = "clear write"
    /\ runtime' = jobs[j].held
    /\ jobs' = [jobs EXCEPT ![j].held = Blank, ![j].at = "finishing",
                            ![j].status = "succeeded"]
    /\ UNCHANGED <<registry, busy, tick, world>>

\* What executeFeature() records of a run.
Outcome(j) == [job |-> j, status |-> jobs[j].status]

OutcomeRead(j) ==
    /\ jobs[j].at = "record read"
    /\ jobs' = [jobs EXCEPT ![j].at = "record write",
                   ![j].held = Recorded(runtime, jobs[j].task, Outcome(j))]
    /\ UNCHANGED <<files, busy, tick, world>>

OutcomeWrite(j) ==
    /\ jobs[j].at = "record write"
    /\ runtime' = jobs[j].held
    /\ jobs' = [jobs EXCEPT ![j].held = Blank, ![j].at = "finishing"]
    /\ UNCHANGED <<registry, busy, tick, world>>

\* Variant: a job that failed keeps the slot.
FinishSucceeded(j) ==
    /\ jobs[j].at = "finishing"
    /\ busy' = (jobs[j].status = "failed")
    /\ Goto(j, "done")
    /\ UNCHANGED <<files, tick, world>>

\* The last event is journalled and the slot is freed.
Finish(j) ==
    /\ jobs[j].at = "finishing"
    /\ busy' = FALSE
    /\ Goto(j, "done")
    /\ UNCHANGED <<files, tick, world>>

Step(j) ==
    \/ ApproveEnds(j) \/ Execute(j) \/ Run(j) \/ Finish(j)
    \/ WriteRegistry(j) \/ ClearRead(j) \/ ClearWrite(j)
    \/ OutcomeRead(j) \/ OutcomeWrite(j)

-----------------------------------------------------------------------------
(* Time and restarts *)

Advance ==
    /\ clock < MaxClock
    /\ clock' = clock + 1
    /\ UNCHANGED <<files, busy, jobs, tick, up, crashes>>

\* The jobs that were queued or running are interrupted when init() reads them;
\* one whose approval was not yet saved is a preview again.
Crash ==
    /\ up /\ crashes < MaxCrashes
    /\ up' = FALSE /\ crashes' = crashes + 1
    /\ busy' = FALSE /\ tick' = Idle
    /\ jobs' = [j \in Jobs |->
          CASE jobs[j].at = "approving" -> [jobs[j] EXCEPT !.at = "preview"]
            [] jobs[j].at \in Waiting \ {"approving"} ->
                 [jobs[j] EXCEPT !.at = "done", !.held = Blank,
                                 !.status = "interrupted"]
            [] OTHER -> jobs[j]]
    /\ UNCHANGED <<files, clock>>

StartAgent ==
    /\ ~up
    /\ up' = TRUE
    /\ UNCHANGED <<files, busy, jobs, tick, clock, crashes>>

-----------------------------------------------------------------------------
Init ==
    /\ registry = Tasks /\ runtime = Blank
    /\ busy = FALSE
    /\ jobs = [j \in Jobs |-> NoJob]
    /\ tick = Idle
    /\ up = TRUE /\ clock = 0 /\ crashes = 0

TickStep ==
    \/ ReadRegistry \/ ReadRuntime \/ RecordRead \/ RecordWrite
    \/ PreviewRun \/ ApproveRun \/ StartRenewal \/ Renewed

Client ==
    \/ \E j \in Jobs, kind \in Clients, t \in Tasks : ClientPreview(j, kind, t)
    \/ \E j \in Jobs : ClientApprove(j)

Next ==
    \/ Tick \/ TickStep
    \/ \E j \in Jobs : Step(j)
    \/ Client
    \/ Advance \/ Crash \/ StartAgent

Spec == Init /\ [][Next]_vars

\* The interval keeps firing, commands and file operations end, and systemd
\* starts the agent again.
FairSpec ==
    /\ Spec
    /\ SF_vars(Tick) /\ WF_vars(TickStep) /\ WF_vars(StartAgent)
    /\ \A j \in Jobs : WF_vars(Step(j))

-----------------------------------------------------------------------------
\* A due instant of a task leads to one run at most: the claim is on disk before
\* the run, and no restart brings it back.  With two tasks and administrators it is
\* not so: the clearing of a deleted task reads runtime.json before a claim and
\* writes it after.
OncePerDue ==
    \A i, j \in Jobs :
        /\ jobs[i].ran /\ jobs[j].ran /\ jobs[i].due # None
        /\ jobs[j].task = jobs[i].task /\ jobs[j].due = jobs[i].due
        => i = j

\* A run executes a policy that is saved when it executes: neither the registry
\* the tick read nor the one it was previewed from is enough.
RunsSaved ==
    \A j \in Jobs : jobs'[j].ran /\ ~jobs[j].ran => jobs[j].task \in registry

RunsSavedTask == [][RunsSaved]_vars

\* The host mutations are serialized: a renewal and a job, or two jobs, are
\* never under way together.
Serialized ==
    /\ Cardinality({j \in Jobs : Active(j)}) <= 1
    /\ tick.at = "renewing" => \A j \in Jobs : ~Active(j)

\* Variant: the status of runtime.json is shown.
ShownOfFile(t) == runtime[t].status

\* What protectionInventory() shows as the status of a task.
Shown(t) == IF runtime[t].job # None
            THEN jobs[runtime[t].job].status ELSE runtime[t].status

\* When nothing is under way the status shown of a task is final, and if a job
\* of it ended it is that of a job that ended: record("queued") of the tick and
\* record(outcome) of the job may be written in either order.
ShownIsFinal ==
    tick.at = "idle" /\ crashes = 0 /\ (\A j \in Jobs : ~Active(j)) =>
        \A t \in Tasks : Shown(t) \notin {"starting", "queued"}

\* A task waits for the instant d, which has come.
DueAt(t, d) == t \in registry /\ runtime[t].next = d /\ d <= clock

\* A task whose time has come is claimed, or was deleted.
DueIsClaimed ==
    \A t \in Tasks, d \in 0..MaxClock : DueAt(t, d) ~> ~DueAt(t, d)
=============================================================================
