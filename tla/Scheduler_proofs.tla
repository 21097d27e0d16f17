-------------------------- MODULE Scheduler_proofs --------------------------
(***************************************************************************)
(* Theorems about the protection scheduler, for every set of tasks and     *)
(* jobs and any number of restarts.                                        *)
(*                                                                         *)
(* The first two are for every kind of job an administrator may ask for,   *)
(* as long as no certificate is renewed: a renewal takes the mutation slot *)
(* without looking at it, and with one both properties fail.  The third is *)
(* for the scheduler alone, with certificates, and the fourth for that or  *)
(* one task: record() and the delete of a task read runtime.json and write *)
(* it back later, and what is written of another task in between is lost.  *)
(***************************************************************************)
EXTENDS Scheduler, FiniteSetTheorems, TLAPS

-----------------------------------------------------------------------------
(* The inductive invariant *)

\* Jobs and the tick are records of these fields; what the other files hold does
\* not matter here.
IsRecord(r, fields) == DOMAIN r = fields /\ r = [f \in fields |-> r[f]]

IsJob(r) ==
    /\ IsRecord(r, {"at", "kind", "task", "due", "before", "status", "ran", "held"})
    /\ r.ran \in BOOLEAN

IsTick(r) ==
    IsRecord(r, {"at", "now", "todo", "read", "task", "due", "job", "values",
                 "held", "then"})

Shapes ==
    /\ jobs = [j \in Jobs |-> jobs[j]]
    /\ \A j \in Jobs : IsJob(jobs[j])
    /\ IsTick(tick)
    /\ busy \in BOOLEAN

\* The slot is taken exactly while a job is under way, and by one job.
Slot ==
    /\ busy <=> \E j \in Jobs : Active(j)
    /\ \A i, j \in Jobs : Active(i) /\ Active(j) => i = j

\* The tick renews nothing, nor will it after a record, and it approves a job.
Ticking ==
    /\ tick.at # "renewing"
    /\ tick.then \in {"loop", "preview"}
    /\ tick.at = "approve" => tick.job \in Jobs

\* What a job that applies was planned from is still the registry, and the plan
\* of a run has the task.
Planning ==
    \A j \in Jobs :
        /\ jobs[j].at = "applying" => jobs[j].before = registry
        /\ jobs[j].at # "free" /\ jobs[j].kind = "run"
              => jobs[j].task \in jobs[j].before

Inv == Shapes /\ Slot /\ Ticking /\ Planning

-----------------------------------------------------------------------------
(* Changes of one job and of the tick *)

\* A job that stays where it is with respect to the slot: the slot stays too.
LEMMA SlotKept ==
    ASSUME Slot, busy' = busy,
           \A j \in Jobs : Active(j)' <=> Active(j)
    PROVE  Slot'
  BY DEF Slot

\* The slot is taken by one job.
LEMMA SlotTaken ==
    ASSUME Slot, ~busy, busy' = TRUE, NEW j \in Jobs, Active(j)',
           \A i \in Jobs \ {j} : Active(i)' <=> Active(i)
    PROVE  Slot'
  BY DEF Slot

\* The slot is freed by the job that had it.
LEMMA SlotFreed ==
    ASSUME Slot, busy' = FALSE, NEW j \in Jobs, Active(j), ~Active(j)',
           \A i \in Jobs \ {j} : Active(i)' <=> Active(i)
    PROVE  Slot'
  BY DEF Slot

\* The loop of a tick leads to no renewal, and leaves a tick.
LEMMA Loops ==
    ASSUME IsTick(tick), NEW read, NEW todo, Continue(read, todo)
    PROVE  IsTick(tick') /\ Ticking'
  <1>1. CASE tick' = Idle \/ tick' = [Idle EXCEPT !.at = "certificates"]
    BY <1>1 DEF Idle, IsTick, IsRecord, Ticking
  <1>2. ASSUME NEW t \in todo, NEW b \in {"loop", "preview"}, NEW v,
               tick' = [Record(t, v, b) EXCEPT !.read = read,
                          !.todo = {u \in todo : read[u].next = None
                                       \/ read[u].next <= tick.now} \ {t},
                          !.due = read[t].next, !.job = None]
        PROVE  IsTick(tick') /\ Ticking'
    BY <1>2 DEF Record, IsTick, IsRecord, Ticking
  <1> QED BY <1>1, <1>2 DEF Continue

\* A call of record() by the tick.
LEMMA Records ==
    ASSUME IsTick(tick), NEW t, NEW v, tick' = Record(t, v, "loop")
    PROVE  IsTick(tick') /\ Ticking'
  BY DEF Record, IsTick, IsRecord, Ticking

-----------------------------------------------------------------------------
(* Steps *)

\* A preview of the tick or of an administrator.
LEMMA PreviewKeeps ==
    ASSUME Inv, NEW j \in Jobs, NEW kind, NEW t, NEW due,
           jobs[j].at = "free", kind = "run" => t \in registry,
           Previewed(j, kind, t, due), busy' = busy, registry' = registry,
           IsTick(tick'), Ticking'
    PROVE  Inv'
  <1> USE DEF Inv
  <1>1. /\ Shapes'
        /\ \A i \in Jobs \ {j} : jobs'[i] = jobs[i]
        /\ jobs'[j].at = "preview" /\ jobs'[j].kind = kind
        /\ jobs'[j].task = t /\ jobs'[j].before = registry
    BY DEF Previewed, NoJob, Shapes, IsJob, IsRecord
  <1>2. Slot'
    BY <1>1, SlotKept DEF Active, Waiting
  <1>3. Planning'
    BY <1>1 DEF Planning
  <1> QED BY <1>1, <1>2, <1>3

\* An approval by the tick or an administrator.
LEMMA ApprovalKeeps ==
    ASSUME Inv, NEW j \in Jobs, NEW due, Approve(j, due), registry' = registry,
           IsTick(tick'), Ticking'
    PROVE  Inv'
  <1> USE DEF Inv
  <1>1. /\ Shapes'
        /\ \A i \in Jobs \ {j} : jobs'[i] = jobs[i]
        /\ jobs'[j].at = "approving" /\ jobs'[j].kind = jobs[j].kind
        /\ jobs'[j].task = jobs[j].task /\ jobs'[j].before = jobs[j].before
    BY DEF Approve, Shapes, IsJob, IsRecord
  <1>2. Slot'
    BY <1>1, SlotTaken DEF Approve, Active, Waiting
  <1>3. Planning'
    BY <1>1 DEF Approve, Planning
  <1> QED BY <1>1, <1>2, <1>3

\* The tick changes the jobs at most by a preview or an approval.
LEMMA TickKeeps ==
    ASSUME Inv, ~Acme, Tick \/ TickStep PROVE Inv'
  <1> USE DEF Inv, files, world
  <1>1. ASSUME jobs' = jobs, busy' = busy, registry' = registry,
               IsTick(tick'), Ticking'
        PROVE  Inv'
    BY <1>1, SlotKept DEF Shapes, Active, Planning
  <1>2. CASE Tick \/ ReadRegistry \/ RecordRead
    BY <1>1, <1>2 DEF Tick, ReadRegistry, RecordRead, Idle, Shapes, IsTick, IsRecord, Ticking
  <1>3. CASE ReadRuntime
    BY <1>1, <1>3, Loops DEF ReadRuntime, Shapes
  <1>4. CASE RecordWrite
    <2>1. IsTick(tick') /\ Ticking'
      BY <1>4, Loops DEF RecordWrite, Shapes, IsTick, IsRecord, Ticking
    <2> QED BY <1>1, <1>4, <2>1 DEF RecordWrite
  <1>5. CASE PreviewRun
    <2>1. CASE tick' = Refused /\ UNCHANGED jobs
      BY <1>1, <1>5, <2>1, Records DEF PreviewRun, Refused, Shapes
    <2>2. ASSUME NEW j \in Jobs, jobs[j].at = "free", tick.task \in registry,
                 Previewed(j, "run", tick.task, tick.due),
                 tick' = [tick EXCEPT !.at = "approve", !.job = j]
          PROVE  Inv'
      <3>1. IsTick(tick') /\ Ticking'
        BY <2>2 DEF Shapes, IsTick, IsRecord, Ticking
      <3> QED BY <1>5, <2>2, <3>1, PreviewKeeps DEF PreviewRun
    <2> QED BY <1>5, <2>1, <2>2 DEF PreviewRun
  <1>6. CASE ApproveRun
    <2>1. CASE tick' = Refused /\ UNCHANGED <<busy, jobs>>
      BY <1>1, <1>6, <2>1, Records DEF ApproveRun, Refused, Shapes
    <2>2. CASE Approve(tick.job, tick.due) /\ tick' = [tick EXCEPT !.at = "approving"]
      <3>1. tick.job \in Jobs /\ registry' = registry
        BY <1>6 DEF ApproveRun, Ticking
      <3>2. IsTick(tick') /\ Ticking'
        BY <2>2 DEF Shapes, IsTick, IsRecord, Ticking
      <3> QED BY <2>2, <3>1, <3>2, ApprovalKeeps
    <2> QED BY <1>6, <2>1, <2>2 DEF ApproveRun
  <1>7. CASE StartRenewal \/ Renewed
    BY <1>1, <1>7 DEF StartRenewal, Renewed, Idle, Shapes, IsTick, IsRecord, Ticking
  <1> QED BY <1>2, <1>3, <1>4, <1>5, <1>6, <1>7 DEF TickStep

\* The administrators preview and approve.
LEMMA ClientKeeps ==
    ASSUME Inv, Client PROVE Inv'
  <1> USE DEF Inv, files, world
  <1>1. ASSUME NEW j \in Jobs, NEW kind \in Clients, NEW t \in Tasks,
               ClientPreview(j, kind, t)
        PROVE  Inv'
    <2>1. (kind = "run" => t \in registry) /\ IsTick(tick') /\ Ticking'
      BY <1>1 DEF ClientPreview, Shapes, Ticking
    <2> QED BY <1>1, <2>1, PreviewKeeps DEF ClientPreview
  <1>2. ASSUME NEW j \in Jobs, ClientApprove(j) PROVE Inv'
    <2>1. IsTick(tick') /\ Ticking'
      BY <1>2 DEF ClientApprove, Shapes, Ticking
    <2> QED BY <1>2, <2>1, ApprovalKeeps DEF ClientApprove
  <1> QED BY <1>1, <1>2 DEF Client

\* A step of a job that keeps the slot: it applies only what it rechecked, and
\* writes the registry only as the one job that applies.
LEMMA StepKeeps ==
    ASSUME Inv, NEW j \in Jobs, Step(j) PROVE Inv'
  <1> USE DEF Inv, files, world
  <1>0. Active(j)
    BY DEF Step, ApproveEnds, Execute, Run, Finish, WriteRegistry, ClearRead,
       ClearWrite, OutcomeRead, OutcomeWrite, Active, Waiting
  <1>1. ASSUME NEW r, IsJob(r), jobs' = [jobs EXCEPT ![j] = r],
               r.at # "free", r.kind = jobs[j].kind, r.task = jobs[j].task,
               r.before = jobs[j].before,
               r.at = "applying" => r.before = registry',
               registry' = registry \/ jobs[j].at = "applying",
               busy' = (busy /\ r.at \in Waiting),
               IsTick(tick'), Ticking'
        PROVE  Inv'
    <2>1. /\ Shapes' /\ jobs'[j] = r
          /\ \A i \in Jobs \ {j} : jobs'[i] = jobs[i]
      BY <1>1 DEF Shapes, IsJob, IsRecord
    <2>2. Slot'
      <3>1. \A i \in Jobs \ {j} : Active(i)' <=> Active(i)
        BY <2>1 DEF Active
      <3>2. CASE r.at \in Waiting
        BY <1>0, <1>1, <2>1, <3>1, <3>2, SlotKept DEF Active, Shapes
      <3>3. CASE r.at \notin Waiting
        BY <1>0, <1>1, <2>1, <3>1, <3>3, SlotFreed DEF Active
      <3> QED BY <3>2, <3>3
    <2>3. Planning'
      <3>1. \A i \in Jobs \ {j} : jobs[i].at # "applying"
        BY <1>0 DEF Slot, Active, Waiting
      <3> QED BY <1>0, <1>1, <2>1, <3>1 DEF Planning, Active, Waiting
    <2> QED BY <1>1, <2>1, <2>2, <2>3
  <1>2. IsJob(jobs[j]) /\ busy = TRUE /\ (tick' = tick => IsTick(tick') /\ Ticking')
    BY <1>0 DEF Shapes, Slot, Ticking
  <1>3. CASE ApproveEnds(j)
    <2>1. IsTick(tick') /\ Ticking'
      BY <1>3, <1>2, Records DEF ApproveEnds, Refused, Shapes
    <2>2. ASSUME NEW at \in {"queued", "preview"}, jobs' = [jobs EXCEPT ![j].at = at],
                 busy' = (at = "queued")
          PROVE  Inv'
      <3> DEFINE r == [jobs[j] EXCEPT !.at = at]
      <3>1. /\ IsJob(r) /\ r.at = at /\ r.kind = jobs[j].kind
            /\ r.task = jobs[j].task /\ r.before = jobs[j].before
        BY <1>2 DEF IsJob, IsRecord
      <3>2. jobs' = [jobs EXCEPT ![j] = r]
        BY <2>2
      <3> QED BY <1>1, <1>2, <1>3, <2>1, <2>2, <3>1, <3>2 DEF ApproveEnds, Waiting
    <2> QED BY <1>2, <1>3, <2>2 DEF ApproveEnds
  <1>4. CASE Execute(j)
    <2> DEFINE r == IF Rechecked(j) THEN [jobs[j] EXCEPT !.at = "applying"]
                                    ELSE Settled(j, "failed")
    <2>1. /\ IsJob(r) /\ r.kind = jobs[j].kind
          /\ r.at = IF Rechecked(j) THEN "applying"
                    ELSE IF jobs[j].kind = "run" THEN "record read" ELSE "finishing"
          /\ r.task = jobs[j].task /\ r.before = jobs[j].before
      BY <1>2, <1>4 DEF Execute, Settled, IsJob, IsRecord
    <2>2. jobs' = [jobs EXCEPT ![j] = r]
      BY <1>4 DEF Execute, Goto
    <2> HIDE DEF r
    <2> QED BY <1>1, <1>2, <1>4, <2>1, <2>2 DEF Execute, Rechecked, Waiting
  <1>5. CASE Run(j)
    <2>1. PICK s \in {"succeeded", "failed"} :
             jobs' = [jobs EXCEPT ![j] = [Settled(j, s) EXCEPT !.ran = TRUE]]
      BY <1>5 DEF Run
    <2> DEFINE r == [Settled(j, s) EXCEPT !.ran = TRUE]
    <2>2. /\ IsJob(r) /\ r.at = "record read" /\ r.kind = jobs[j].kind
          /\ r.task = jobs[j].task /\ r.before = jobs[j].before
      BY <1>2, <1>5 DEF Run, Settled, IsJob, IsRecord
    <2> QED BY <1>1, <1>2, <1>5, <2>1, <2>2 DEF Run, Waiting
  <1>6. ASSUME NEW r, IsJob(r), jobs' = [jobs EXCEPT ![j] = r],
               r.at \in Waiting \ {"applying"}, r.kind = jobs[j].kind,
               r.task = jobs[j].task, r.before = jobs[j].before,
               registry' = registry \/ jobs[j].at = "applying",
               UNCHANGED <<busy, tick>>
        PROVE  Inv'
    BY <1>1, <1>2, <1>6 DEF Waiting
  <1>7. CASE WriteRegistry(j)
    <2> DEFINE r == [jobs[j] EXCEPT !.at = "clear read"]
    <2>1. /\ IsJob(r) /\ r.at = "clear read" /\ r.kind = jobs[j].kind
          /\ r.task = jobs[j].task /\ r.before = jobs[j].before
      BY <1>2 DEF IsJob, IsRecord
    <2> QED BY <1>6, <1>7, <2>1 DEF WriteRegistry, Goto, Waiting
  <1>8. CASE ClearRead(j)
    <2> DEFINE r == [jobs[j] EXCEPT !.at = "clear write",
                    !.held = [runtime EXCEPT ![jobs[j].task] = Unrun]]
    <2>1. /\ IsJob(r) /\ r.at = "clear write" /\ r.kind = jobs[j].kind
          /\ r.task = jobs[j].task /\ r.before = jobs[j].before
      BY <1>2 DEF IsJob, IsRecord
    <2>2. jobs' = [jobs EXCEPT ![j] = r]
      BY <1>8 DEF ClearRead
    <2> HIDE DEF r
    <2> QED BY <1>6, <1>8, <2>1, <2>2 DEF ClearRead, Waiting
  <1>9. CASE ClearWrite(j)
    <2> DEFINE r == [jobs[j] EXCEPT !.held = Blank, !.at = "finishing",
                    !.status = "succeeded"]
    <2>1. /\ IsJob(r) /\ r.at = "finishing" /\ r.kind = jobs[j].kind
          /\ r.task = jobs[j].task /\ r.before = jobs[j].before
      BY <1>2 DEF IsJob, IsRecord
    <2>2. jobs' = [jobs EXCEPT ![j] = r]
      BY <1>9 DEF ClearWrite
    <2> HIDE DEF r
    <2> QED BY <1>6, <1>9, <2>1, <2>2 DEF ClearWrite, Waiting
  <1>10. CASE OutcomeRead(j)
    <2> DEFINE r == [jobs[j] EXCEPT !.at = "record write",
                    !.held = Recorded(runtime, jobs[j].task, Outcome(j))]
    <2>1. /\ IsJob(r) /\ r.at = "record write" /\ r.kind = jobs[j].kind
          /\ r.task = jobs[j].task /\ r.before = jobs[j].before
      BY <1>2 DEF IsJob, IsRecord
    <2>2. jobs' = [jobs EXCEPT ![j] = r]
      BY <1>10 DEF OutcomeRead
    <2> HIDE DEF r
    <2> QED BY <1>6, <1>10, <2>1, <2>2 DEF OutcomeRead, Waiting
  <1>11. CASE OutcomeWrite(j)
    <2> DEFINE r == [jobs[j] EXCEPT !.held = Blank, !.at = "finishing"]
    <2>1. /\ IsJob(r) /\ r.at = "finishing" /\ r.kind = jobs[j].kind
          /\ r.task = jobs[j].task /\ r.before = jobs[j].before
      BY <1>2 DEF IsJob, IsRecord
    <2>2. jobs' = [jobs EXCEPT ![j] = r]
      BY <1>11 DEF OutcomeWrite
    <2> HIDE DEF r
    <2> QED BY <1>6, <1>11, <2>1, <2>2 DEF OutcomeWrite, Waiting
  <1>12. CASE Finish(j)
    <2> DEFINE r == [jobs[j] EXCEPT !.at = "done"]
    <2>1. /\ IsJob(r) /\ r.at = "done" /\ r.kind = jobs[j].kind
          /\ r.task = jobs[j].task /\ r.before = jobs[j].before
      BY <1>2 DEF IsJob, IsRecord
    <2> QED BY <1>1, <1>2, <1>12, <2>1 DEF Finish, Goto, Waiting
  <1> QED BY <1>3, <1>4, <1>5, <1>7, <1>8, <1>9, <1>10, <1>11, <1>12 DEF Step

\* A restart frees the slot and leaves no job under way.
LEMMA CrashKeeps ==
    ASSUME Inv, Crash PROVE Inv'
  <1> USE DEF Inv, files
  <1>1. Shapes' /\ Ticking'
    BY DEF Crash, Idle, Shapes, IsJob, IsTick, IsRecord, Ticking
  <1>2. \A j \in Jobs :
           /\ jobs'[j].at \notin Waiting
           /\ jobs'[j].kind = jobs[j].kind /\ jobs'[j].task = jobs[j].task
           /\ jobs'[j].before = jobs[j].before
           /\ jobs[j].at = "free" => jobs'[j].at = "free"
    BY DEF Crash, Shapes, IsJob, IsRecord, Waiting
  <1>3. Slot'
    BY <1>2 DEF Crash, Slot, Active
  <1>4. Planning'
    BY <1>2 DEF Planning, Waiting
  <1> QED BY <1>1, <1>3, <1>4

LEMMA InitInv == Init => Inv
  <1> SUFFICES ASSUME Init PROVE Inv
    OBVIOUS
  <1>1. Shapes
    BY DEF Init, Shapes, IsJob, IsTick, IsRecord, NoJob, Idle
  <1>2. \A j \in Jobs : jobs[j].at = "free"
    BY DEF Init, NoJob
  <1> QED BY <1>1, <1>2 DEF Init, Inv, Slot, Ticking, Planning, Idle, Active, Waiting

LEMMA NextInv ==
    ASSUME Inv, ~Acme, [Next]_vars PROVE Inv'
  <1>1. CASE UNCHANGED vars \/ Advance \/ StartAgent
    BY <1>1 DEF vars, files, world, Advance, StartAgent, Inv, Shapes, Slot, Ticking,
       Planning, Active
  <1> QED BY <1>1, TickKeeps, ClientKeeps, StepKeeps, CrashKeeps DEF Next

\* Whatever is asked and whenever the agent stops, the invariant holds.
LEMMA Invariance == ASSUME ~Acme PROVE Spec => []Inv
  <1>1. Inv /\ [Next]_vars => Inv'
    BY NextInv
  <1> QED BY <1>1, InitInv, PTL DEF Spec

-----------------------------------------------------------------------------
(* What the slot and the recheck are for *)

\* Two mutations of the host are never under way together: the tick and the
\* administrators test the slot and take it in one step.
THEOREM MutationsSerialized == ASSUME ~Acme PROVE Spec => []Serialized
  <1>1. Inv => Serialized
    <2> SUFFICES ASSUME Inv PROVE Cardinality({j \in Jobs : Active(j)}) <= 1
      BY DEF Inv, Ticking, Serialized
    <2>1. CASE {j \in Jobs : Active(j)} = {}
      BY <2>1, FS_EmptySet
    <2>2. CASE \E j \in Jobs : Active(j)
      <3>1. PICK j \in Jobs : {i \in Jobs : Active(i)} = {j}
        BY <2>2 DEF Inv, Slot
      <3> QED BY <3>1, FS_Singleton
    <2> QED BY <2>1, <2>2
  <1> QED BY <1>1, Invariance, PTL

\* Only Run() sets "ran".
LEMMA RunsOnly ==
    ASSUME Inv, Next, NEW j \in Jobs, jobs'[j].ran, ~jobs[j].ran
    PROVE  jobs[j].at = "applying" /\ jobs[j].kind = "run"
  <1> USE DEF Inv, Shapes, IsJob, IsRecord
  <1>1. jobs' # jobs
    OBVIOUS
  <1>2. ASSUME NEW i \in Jobs, NEW due, Approve(i, due) PROVE FALSE
    BY <1>2 DEF Approve
  <1>3. ASSUME NEW i \in Jobs, NEW kind, NEW t, NEW due, Previewed(i, kind, t, due)
        PROVE  FALSE
    <2>1. jobs'[i].ran = FALSE
      BY <1>3 DEF Previewed, NoJob
    <2>2. \A k \in Jobs \ {i} : jobs'[k] = jobs[k]
      BY <1>3 DEF Previewed
    <2> QED BY <2>1, <2>2
  <1>4. ~TickStep /\ ~Tick
    <2>1. ~(Tick \/ ReadRegistry \/ ReadRuntime \/ RecordRead \/ RecordWrite
              \/ StartRenewal \/ Renewed)
      BY <1>1 DEF Tick, ReadRegistry, ReadRuntime, RecordRead, RecordWrite,
         StartRenewal, Renewed
    <2>2. ~PreviewRun
      BY <1>1, <1>3 DEF PreviewRun
    <2>3. ~ApproveRun
      BY <1>1, <1>2 DEF ApproveRun, Ticking
    <2> QED BY <2>1, <2>2, <2>3 DEF TickStep
  <1>5. ~Client
    BY <1>2, <1>3 DEF Client, ClientPreview, ClientApprove
  <1>6. ~(Advance \/ StartAgent)
    BY <1>1 DEF Advance, StartAgent
  <1>7. ~Crash
    <2> SUFFICES ASSUME Crash PROVE jobs'[j].ran = jobs[j].ran
      OBVIOUS
    <2> QED BY DEF Crash
  <1>8. PICK i \in Jobs : Step(i)
    BY <1>4, <1>5, <1>6, <1>7 DEF Next
  <1>9. ASSUME NEW r, jobs' = [jobs EXCEPT ![i] = r], r.ran = jobs[i].ran PROVE FALSE
    BY <1>9
  <1>10. ~(ApproveEnds(i) \/ Finish(i) \/ WriteRegistry(i) \/ Execute(i))
    <2>1. \A at : LET r == [jobs[i] EXCEPT !.at = at] IN
             jobs' = [jobs EXCEPT ![i] = r] => FALSE
      BY <1>9
    <2>2. \A at, s : LET r == [jobs[i] EXCEPT !.status = s, !.at = at] IN
             jobs' = [jobs EXCEPT ![i] = r] => FALSE
      BY <1>9
    <2>3. ~(ApproveEnds(i) \/ Finish(i) \/ WriteRegistry(i))
      BY <2>1 DEF ApproveEnds, Finish, WriteRegistry, Goto
    <2>4. ~Execute(i)
      BY <2>1, <2>2 DEF Execute, Goto, Settled
    <2> QED BY <2>3, <2>4
  <1>11. ~ClearRead(i)
    <2> SUFFICES ASSUME ClearRead(i) PROVE FALSE
      OBVIOUS
    <2> DEFINE r == [jobs[i] EXCEPT !.at = "clear write",
                    !.held = [runtime EXCEPT ![jobs[i].task] = Unrun]]
    <2>1. r.ran = jobs[i].ran
      OBVIOUS
    <2> QED BY <1>9, <2>1 DEF ClearRead
  <1>12. ~ClearWrite(i)
    <2> SUFFICES ASSUME ClearWrite(i) PROVE FALSE
      OBVIOUS
    <2> DEFINE r == [jobs[i] EXCEPT !.held = Blank, !.at = "finishing",
                    !.status = "succeeded"]
    <2>1. r.ran = jobs[i].ran
      OBVIOUS
    <2> QED BY <1>9, <2>1 DEF ClearWrite
  <1>13. ~OutcomeRead(i)
    <2> SUFFICES ASSUME OutcomeRead(i) PROVE FALSE
      OBVIOUS
    <2> DEFINE r == [jobs[i] EXCEPT !.at = "record write",
                    !.held = Recorded(runtime, jobs[i].task, Outcome(i))]
    <2>1. r.ran = jobs[i].ran
      OBVIOUS
    <2> QED BY <1>9, <2>1 DEF OutcomeRead
  <1>14. ~OutcomeWrite(i)
    <2> SUFFICES ASSUME OutcomeWrite(i) PROVE FALSE
      OBVIOUS
    <2> DEFINE r == [jobs[i] EXCEPT !.held = Blank, !.at = "finishing"]
    <2>1. r.ran = jobs[i].ran
      OBVIOUS
    <2> QED BY <1>9, <2>1 DEF OutcomeWrite
  <1>15. CASE Run(i)
    <2>1. i = j
      BY <1>15 DEF Run
    <2> QED BY <1>15, <2>1 DEF Run
  <1> QED BY <1>8, <1>10, <1>11, <1>12, <1>13, <1>14, <1>15 DEF Step

\* A run executes a policy that is saved at that instant: between the recheck
\* and the run no other job can write the registry.
THEOREM RunsAreOfSavedTasks == ASSUME ~Acme PROVE Spec => RunsSavedTask
  <1>1. Inv /\ [Next]_vars => [RunsSaved]_vars
    BY RunsOnly DEF RunsSaved, Inv, Planning
  <1> QED BY <1>1, Invariance, PTL DEF Spec, RunsSavedTask

-----------------------------------------------------------------------------
(* The inductive invariant of the scheduler alone *)

\* An entry of runtime.json has a time, or none.
Entry(e) == "next" \in DOMAIN e /\ e.next \in Nat \cup {None}
IsRuntime(r) == DOMAIN r = Tasks /\ r = [t \in Tasks |-> r[t]] /\ \A t \in Tasks : Entry(r[t])

\* The time an entry has once some fields are replaced.
NextAfter(e, values) == IF "next" \in DOMAIN values THEN values.next ELSE e.next

\* The time of every task is the same in both.
SameTimes(r, s) == \A t \in Tasks : r[t].next = s[t].next

\* Where a tick is in its loop, and where it is in record().
Recording == {"record read", "record write"}
Looping == Recording \cup {"preview", "approve", "approving"}

\* A tick that writes the time of a task.
Timing == tick.at \in Recording /\ "next" \in DOMAIN tick.values

\* No job has been approved yet in this turn of the loop.
Before == tick.at \in {"registry", "runtime", "preview", "approve", "certificates", "renewing"}
          \/ Timing

\* Every task is there for good, and jobs are runs.
OnlyRuns ==
    /\ registry = Tasks /\ IsRuntime(runtime)
    /\ clock \in Nat
    /\ \A j \in Jobs :
          /\ jobs[j].at # "free" => jobs[j].task \in Tasks /\ jobs[j].kind = "run"
          /\ jobs[j].at = "free" => jobs[j].due = None
          /\ jobs[j].at \notin {"clear read", "clear write"}
          /\ jobs[j].due # None => jobs[j].due \in Nat

\* The slot has one job, which the tick that approved it or a renewal does not meet.
OneAtATime ==
    /\ busy => tick.at = "renewing" \/ \E j \in Jobs : Active(j)
    /\ \A i, j \in Jobs : Active(i) /\ Active(j) => i = j
    /\ \A j \in Jobs : Active(j) => busy /\ ~Before

\* What the tick read at its start is still the time of the tasks to come.
Reading ==
    /\ tick.todo \subseteq Tasks /\ tick.now \in Nat
    /\ tick.at \in Looping =>
          /\ IsRuntime(tick.read)
          /\ \A t \in tick.todo : tick.read[t].next = runtime[t].next
          /\ tick.task \in Tasks \ tick.todo
    /\ tick.at = "approve" => tick.job \in Jobs /\ jobs[tick.job].due = tick.due

\* What the tick is to write, and what it holds to write.
Writing ==
    /\ tick.at \in Recording =>
          /\ tick.then \in {"loop", "preview"}
          /\ tick.then = "preview" => Timing /\ tick.due # None
          /\ Timing => tick.values.next = tick.now + 1 /\ tick.due = runtime[tick.task].next
                       /\ (tick.due # None => tick.due <= tick.now)
    /\ tick.at = "record write" =>
          /\ IsRuntime(tick.held)
          /\ \A u \in Tasks : tick.held[u].next =
                IF u = tick.task THEN NextAfter(runtime[u], tick.values) ELSE runtime[u].next
    /\ \A j \in Jobs : jobs[j].at = "record write" =>
          IsRuntime(jobs[j].held) /\ SameTimes(jobs[j].held, runtime)

\* The times of the runs of a task are before that of the next, and differ.
Times ==
    /\ \A j \in Jobs : jobs[j].due # None =>
          /\ runtime[jobs[j].task].next # None
          /\ jobs[j].due < runtime[jobs[j].task].next
    /\ \A i, j \in Jobs :
          jobs[i].due # None /\ jobs[i].due = jobs[j].due /\ jobs[i].task = jobs[j].task => i = j
    /\ tick.at = "preview" =>
          /\ tick.due \in Nat /\ runtime[tick.task].next # None
          /\ tick.due < runtime[tick.task].next
          /\ \A j \in Jobs : jobs[j].due # None /\ jobs[j].task = tick.task => jobs[j].due < tick.due

OnceInv == Shapes /\ OnlyRuns /\ OneAtATime /\ Reading /\ Writing /\ Times

-----------------------------------------------------------------------------
(* Times, the tick and the slot *)

LEMMA RecordsTime ==
    ASSUME NEW read, IsRuntime(read), NEW t \in Tasks, NEW values,
           "next" \in DOMAIN values => values.next \in Nat
    PROVE  /\ IsRuntime(Recorded(read, t, values))
           /\ \A u \in Tasks : Recorded(read, t, values)[u].next =
                 IF u = t THEN NextAfter(read[t], values) ELSE read[u].next
  <1> DEFINE e == [f \in DOMAIN read[t] |->
                    IF f \in DOMAIN values THEN values[f] ELSE read[t][f]]
  <1>1. "next" \in DOMAIN e /\ e.next = NextAfter(read[t], values)
    BY DEF IsRuntime, Entry, NextAfter
  <1>2. Recorded(read, t, values) = [read EXCEPT ![t] = e]
    BY DEF Recorded
  <1> HIDE DEF e
  <1> QED BY <1>1, <1>2 DEF IsRuntime, Entry, NextAfter

\* A tick that is between its steps.
LEMMA RestsReading ==
    ASSUME tick'.at \in {"idle", "certificates", "registry"}, tick'.todo = {}, tick'.now \in Nat
    PROVE  Reading'
  BY DEF Reading, Looping, Recording

LEMMA RestsWriting ==
    ASSUME tick'.at \notin Recording,
           \A j \in Jobs : jobs'[j].at = "record write" =>
                IsRuntime(jobs'[j].held) /\ SameTimes(jobs'[j].held, runtime')
    PROVE  Writing'
  BY DEF Writing, Recording

LEMMA RestsTimes ==
    ASSUME tick'.at # "preview", jobs' = jobs, Times,
           \A j \in Jobs : jobs[j].due # None =>
                /\ runtime'[jobs[j].task].next # None
                /\ jobs[j].due < runtime'[jobs[j].task].next
    PROVE  Times'
  BY DEF Times

\* The slot stays as it is while nobody takes or frees it.
LEMMA SlotStays ==
    ASSUME OneAtATime, jobs' = jobs, busy' = busy, tick.at # "renewing", tick'.at # "renewing",
           Before' => Before \/ ~busy
    PROVE  OneAtATime'
  <1>1. \A j \in Jobs : Active(j)' <=> Active(j)
    BY DEF Active
  <1> QED BY <1>1 DEF OneAtATime

\* A record without a time keeps the times.
LEMMA KeepsTimes ==
    ASSUME NEW read, IsRuntime(read), NEW t \in Tasks, NEW v, "next" \notin DOMAIN v
    PROVE  IsRuntime(Recorded(read, t, v)) /\ SameTimes(Recorded(read, t, v), read)
  <1>1. /\ IsRuntime(Recorded(read, t, v))
        /\ \A u \in Tasks : Recorded(read, t, v)[u].next =
              IF u = t THEN NextAfter(read[t], v) ELSE read[u].next
    BY RecordsTime
  <1> QED BY <1>1 DEF NextAfter, SameTimes

LEMMA IdleIs ==
    \A at : LET i == [Idle EXCEPT !.at = at] IN
        /\ Idle.at = "idle" /\ Idle.todo = {} /\ Idle.now \in Nat
        /\ i.at = at /\ i.todo = {} /\ i.now \in Nat
  BY DEF Idle

\* One turn of the loop: it ends with no job under way, or goes on to write the time of
\* a task that is still as it was read.
LEMMA LoopGoesOn ==
    ASSUME Shapes, OnlyRuns, OneAtATime, Times, tick.now \in Nat,
           tick.at # "renewing", tick.at # "preview",
           IsRuntime(runtime'), UNCHANGED <<registry, busy, jobs, clock>>,
           \A j \in Jobs : jobs'[j].at = "record write" =>
                IsRuntime(jobs'[j].held) /\ SameTimes(jobs'[j].held, runtime'),
           \A j \in Jobs : jobs[j].due # None =>
                /\ runtime'[jobs[j].task].next # None
                /\ jobs[j].due < runtime'[jobs[j].task].next,
           NEW read, NEW todo \in SUBSET Tasks, IsRuntime(read),
           \A t \in todo : read[t].next = runtime'[t].next,
           Continue(read, todo)
    PROVE  OnceInv'
  <1>0. IsTick(tick) /\ Shapes'
    BY Loops DEF Shapes
  <1>1. OnlyRuns'
    BY DEF OnlyRuns
  <1>2. CASE tick' = Idle \/ (~busy /\ tick' = [Idle EXCEPT !.at = "certificates"])
    <2>1. /\ tick'.at \in {"idle", "certificates"} /\ tick'.todo = {} /\ tick'.now \in Nat
          /\ tick'.at = "certificates" => ~busy
      BY <1>2, IdleIs
    <2>2. OneAtATime'
      <3>1. Before' => ~busy
        BY <2>1 DEF Before, Timing, Recording
      <3> QED BY <2>1, <3>1, SlotStays
    <2>3. Reading'
      BY <2>1, RestsReading
    <2>4. Writing'
      BY <2>1, RestsWriting DEF Recording
    <2>5. Times'
      BY <2>1, RestsTimes
    <2> QED BY <1>0, <1>1, <2>2, <2>3, <2>4, <2>5 DEF OnceInv
  <1>3. ASSUME ~busy, NEW t \in todo, NEW b \in {"loop", "preview"}, NEW v,
               "next" \in DOMAIN v, v.next = tick.now + 1,
               b = "preview" => read[t].next # None,
               read[t].next # None => read[t].next <= tick.now,
               tick' = [Record(t, v, b) EXCEPT !.read = read,
                          !.todo = {u \in todo : read[u].next = None
                                       \/ read[u].next <= tick.now} \ {t},
                          !.due = read[t].next, !.job = None]
        PROVE  OnceInv'
    <2>1. /\ tick'.at = "record read" /\ tick'.task = t /\ tick'.values = v
          /\ tick'.then = b /\ tick'.read = read /\ tick'.todo \subseteq todo \ {t}
          /\ tick'.due = read[t].next /\ tick'.now = tick.now
      BY <1>0, <1>3 DEF Record, IsTick, IsRecord
    <2>2. OneAtATime'
      BY <1>3, <2>1, SlotStays
    <2>3. Reading'
      BY <1>3, <2>1 DEF Reading, Looping, Recording
    <2>4. Writing'
      BY <1>3, <2>1 DEF Writing, Timing, Recording
    <2>5. Times'
      BY <2>1, RestsTimes
    <2> QED BY <1>0, <1>1, <2>2, <2>3, <2>4, <2>5 DEF OnceInv
  <1>4. CASE ~(tick' = Idle \/ (~busy /\ tick' = [Idle EXCEPT !.at = "certificates"]))
    <2> DEFINE due == {t \in todo : read[t].next = None \/ read[t].next <= tick.now}
    <2>1. ~busy
      BY <1>4 DEF Continue
    <2>2. PICK t \in due :
              tick' = [(IF read[t].next = None
                        THEN Record(t, Planned, "loop")
                        ELSE Record(t, Claim, "preview"))
                         EXCEPT !.read = read, !.todo = due \ {t},
                                !.due = read[t].next, !.job = None]
      BY <1>4 DEF Continue
    <2>3. /\ "next" \in DOMAIN Planned /\ Planned.next = tick.now + 1
          /\ "next" \in DOMAIN Claim /\ Claim.next = tick.now + 1
      BY DEF Planned, Claim, nextRun
    <2>4. t \in todo /\ (read[t].next # None => read[t].next <= tick.now)
      BY <2>2
    <2>5. CASE read[t].next = None
      BY <1>3, <2>1, <2>2, <2>3, <2>4, <2>5
    <2>6. CASE read[t].next # None
      BY <1>3, <2>1, <2>2, <2>3, <2>4, <2>6
    <2> QED BY <2>5, <2>6
  <1> QED BY <1>2, <1>4

\* The tick writes a refusal, or that a run is queued: no time.
LEMMA RecordsNoTime ==
    ASSUME OnceInv, NEW v, "next" \notin DOMAIN v, tick.at \in Looping,
           tick' = Record(tick.task, v, "loop"),
           runtime' = runtime
    PROVE  /\ IsTick(tick') /\ ~Before'
           /\ Reading'
           /\ tick'.at = "record read" /\ tick'.then = "loop" /\ ~Timing'
  <1>1. /\ tick'.at = "record read" /\ tick'.then = "loop" /\ tick'.values = v
        /\ tick'.task = tick.task /\ tick'.todo = tick.todo /\ tick'.read = tick.read
        /\ tick'.now = tick.now
    BY DEF Record, OnceInv, Shapes, IsTick, IsRecord
  <1>2. IsTick(tick')
    BY DEF Record, OnceInv, Shapes, IsTick, IsRecord
  <1>3. Reading'
    BY <1>1 DEF OnceInv, Reading, Looping, Recording
  <1> QED BY <1>1, <1>2, <1>3 DEF Before, Timing

\* So it is when nothing else happens.
LEMMA RefusalKeeps ==
    ASSUME OnceInv, NEW v, "next" \notin DOMAIN v, tick.at \in Looping, tick.at # "renewing",
           tick' = Record(tick.task, v, "loop"), UNCHANGED <<files, busy, jobs, clock>>
    PROVE  OnceInv'
  <1>1. /\ IsTick(tick') /\ ~Before'
        /\ Reading'
        /\ tick'.at = "record read" /\ tick'.then = "loop" /\ ~Timing'
    BY RecordsNoTime DEF files
  <1>2. Shapes' /\ OnlyRuns'
    BY <1>1 DEF files, OnceInv, Shapes, OnlyRuns
  <1>3. OneAtATime'
    BY <1>1, SlotStays DEF OnceInv
  <1>4. Writing'
    BY <1>1 DEF files, OnceInv, Writing, SameTimes, Recording
  <1>5. Times'
    BY <1>1, RestsTimes DEF files, OnceInv, Times
  <1> QED BY <1>1, <1>2, <1>3, <1>4, <1>5 DEF OnceInv

LEMMA TickKeepsOnce == ASSUME OnceInv, Tick PROVE OnceInv'
  <1>1. /\ tick'.at = "registry" /\ tick'.todo = {} /\ tick'.now \in Nat
        /\ IsTick(tick')
    BY DEF Tick, Idle, OnceInv, OnlyRuns, IsTick, IsRecord
  <1>2. /\ UNCHANGED <<registry, runtime, busy, jobs, clock>> /\ ~busy /\ tick.at = "idle"
    BY DEF Tick, files, world
  <1>3. Shapes' /\ OnlyRuns'
    BY <1>1, <1>2 DEF OnceInv, Shapes, OnlyRuns
  <1>4. OneAtATime'
    BY <1>1, <1>2, SlotStays DEF OnceInv
  <1>5. Reading'
    BY <1>1, RestsReading
  <1>6. Writing'
    BY <1>1, <1>2 DEF OnceInv, Writing, Recording, SameTimes
  <1>7. Times'
    BY <1>1, <1>2, RestsTimes DEF OnceInv, Times
  <1> QED BY <1>3, <1>4, <1>5, <1>6, <1>7 DEF OnceInv

LEMMA ReadRegistryKeepsOnce == ASSUME OnceInv, ReadRegistry PROVE OnceInv'
  <1>1. /\ tick'.at = "runtime" /\ tick'.todo = Tasks /\ tick'.now = tick.now
        /\ IsTick(tick')
    BY DEF ReadRegistry, OnceInv, OnlyRuns, Shapes, IsTick, IsRecord
  <1>2. /\ UNCHANGED <<registry, runtime, busy, jobs, clock>> /\ tick.at = "registry"
    BY DEF ReadRegistry, files, world
  <1>3. Shapes' /\ OnlyRuns'
    BY <1>1, <1>2 DEF OnceInv, Shapes, OnlyRuns
  <1>4. OneAtATime'
    BY <1>1, <1>2, SlotStays DEF OnceInv, Before
  <1>5. Reading'
    BY <1>1 DEF OnceInv, Reading, Looping, Recording
  <1>6. Writing'
    BY <1>1, <1>2 DEF OnceInv, Writing, Recording, SameTimes
  <1>7. Times'
    BY <1>1, <1>2, RestsTimes DEF OnceInv, Times
  <1> QED BY <1>3, <1>4, <1>5, <1>6, <1>7 DEF OnceInv

LEMMA ReadRuntimeKeepsOnce == ASSUME OnceInv, ReadRuntime PROVE OnceInv'
  <1>1. UNCHANGED <<registry, runtime, busy, jobs, clock>> /\ tick.at = "runtime"
    BY DEF ReadRuntime, files, world
  <1>2. Continue(runtime, tick.todo)
    BY DEF ReadRuntime
  <1>3. PICK read : read = runtime
    OBVIOUS
  <1>4. IsRuntime(read) /\ IsRuntime(runtime')
    BY <1>1, <1>3 DEF OnceInv, OnlyRuns
  <1>5. tick.todo \in SUBSET Tasks /\ tick.now \in Nat
    BY DEF OnceInv, Reading
  <1>6. \A j \in Jobs : jobs'[j].at = "record write" =>
            IsRuntime(jobs'[j].held) /\ SameTimes(jobs'[j].held, runtime')
    BY <1>1 DEF OnceInv, Writing
  <1>7. \A j \in Jobs : jobs[j].due # None =>
            /\ runtime'[jobs[j].task].next # None
            /\ jobs[j].due < runtime'[jobs[j].task].next
    BY <1>1 DEF OnceInv, Times
  <1>8. \A t \in tick.todo : read[t].next = runtime'[t].next
    BY <1>1, <1>3
  <1>9. tick.at # "renewing" /\ tick.at # "preview"
    BY <1>1
  <1>10. Continue(read, tick.todo)
    BY <1>2, <1>3
  <1> QED BY <1>1, <1>4, <1>5, <1>6, <1>7, <1>8, <1>9, <1>10, LoopGoesOn DEF OnceInv

LEMMA RecordReadKeepsOnce == ASSUME OnceInv, RecordRead PROVE OnceInv'
  <1>1. /\ tick'.at = "record write" /\ tick'.todo = tick.todo /\ tick'.now = tick.now
        /\ tick'.values = tick.values /\ tick'.then = tick.then /\ tick'.task = tick.task
        /\ tick'.due = tick.due /\ tick'.read = tick.read
        /\ tick'.held = Recorded(runtime, tick.task, tick.values)
        /\ IsTick(tick')
    BY DEF RecordRead, OnceInv, Shapes, IsTick, IsRecord
  <1>2. /\ UNCHANGED <<registry, runtime, busy, jobs, clock>> /\ tick.at = "record read"
    BY DEF RecordRead, files, world
  <1>3. Shapes' /\ OnlyRuns'
    BY <1>1, <1>2 DEF OnceInv, Shapes, OnlyRuns
  <1>4. OneAtATime'
    BY <1>1, <1>2, SlotStays DEF OnceInv, Before, Timing, Recording
  <1>5. Reading'
    BY <1>1, <1>2 DEF OnceInv, Reading, Looping, Recording
  <1>6. Writing'
    <2>0. tick.at \in Looping /\ tick.at \in Recording
      BY <1>2 DEF Looping, Recording
    <2>1. /\ tick.task \in Tasks /\ IsRuntime(runtime)
          /\ "next" \in DOMAIN tick.values => tick.values.next \in Nat
      <3>1. tick.task \in Tasks /\ IsRuntime(runtime) /\ tick.now \in Nat
        BY <2>0 DEF OnceInv, OnlyRuns, Reading
      <3>2. "next" \in DOMAIN tick.values => tick.values.next = tick.now + 1
        BY <2>0 DEF OnceInv, Writing, Timing
      <3> QED BY <3>1, <3>2
    <2>2. PICK held : held = Recorded(runtime, tick.task, tick.values)
      OBVIOUS
    <2>3. /\ IsRuntime(held)
          /\ \A u \in Tasks : held[u].next =
                IF u = tick.task THEN NextAfter(runtime[u], tick.values) ELSE runtime[u].next
      BY <2>1, <2>2, RecordsTime
    <2>4. /\ IsRuntime(tick'.held)
          /\ \A u \in Tasks : tick'.held[u].next =
                IF u = tick'.task THEN NextAfter(runtime'[u], tick'.values)
                ELSE runtime'[u].next
      BY <1>1, <1>2, <2>2, <2>3
    <2> QED BY <1>1, <1>2, <2>4 DEF OnceInv, Writing, Recording, Timing, SameTimes
  <1>7. Times'
    BY <1>1, <1>2, RestsTimes DEF OnceInv, Times
  <1> QED BY <1>3, <1>4, <1>5, <1>6, <1>7 DEF OnceInv

LEMMA RecordWriteKeepsOnce ==
    ASSUME None \notin Nat, OnceInv, RecordWrite PROVE OnceInv'
  <1>0. Shapes /\ OnlyRuns /\ OneAtATime /\ Reading /\ Writing /\ Times
    BY DEF OnceInv
  <1>1. UNCHANGED <<registry, busy, jobs, clock>> /\ tick.at = "record write" /\ runtime' = tick.held
    BY DEF RecordWrite, world
  <1>2. /\ tick.at \in Looping /\ tick.at \in Recording /\ tick.at # "renewing"
        /\ tick.at # "preview"
    BY <1>1 DEF Looping, Recording
  <1>3. /\ IsRuntime(tick.read) /\ tick.task \in Tasks \ tick.todo /\ tick.todo \in SUBSET Tasks
        /\ tick.now \in Nat /\ \A t \in tick.todo : tick.read[t].next = runtime[t].next
    BY <1>0, <1>2 DEF Reading
  <1>4. /\ IsRuntime(runtime')
        /\ \A u \in Tasks : runtime'[u].next =
              IF u = tick.task THEN NextAfter(runtime[u], tick.values) ELSE runtime[u].next
    BY <1>0, <1>1 DEF Writing
  <1>5. /\ Timing => /\ tick.values.next = tick.now + 1 /\ tick.due = runtime[tick.task].next
                     /\ tick.due # None => tick.due <= tick.now
        /\ tick.then \in {"loop", "preview"}
        /\ tick.then = "preview" => Timing /\ tick.due # None
    BY <1>0, <1>2 DEF Writing
  <1>6. ~Timing => \A u \in Tasks : runtime'[u].next = runtime[u].next
    BY <1>2, <1>4 DEF Timing, NextAfter
  <1>7. Timing => runtime'[tick.task].next = tick.now + 1
    BY <1>3, <1>4, <1>5 DEF Timing, NextAfter
  <1>8. \A j \in Jobs : jobs'[j].at = "record write" =>
            IsRuntime(jobs'[j].held) /\ SameTimes(jobs'[j].held, runtime')
    <2> SUFFICES ASSUME NEW j \in Jobs, jobs[j].at = "record write"
                 PROVE  IsRuntime(jobs[j].held) /\ SameTimes(jobs[j].held, runtime')
      BY <1>1
    <2>1. IsRuntime(jobs[j].held) /\ SameTimes(jobs[j].held, runtime)
      BY <1>0 DEF Writing
    <2>2. Active(j)
      BY DEF Active, Waiting
    <2>3. ~Timing
      BY <1>0, <2>2 DEF OneAtATime, Before
    <2> QED BY <1>6, <2>1, <2>3 DEF SameTimes
  <1>9. ASSUME NEW j \in Jobs, jobs[j].due # None
        PROVE  /\ jobs[j].task \in Tasks
               /\ runtime'[jobs[j].task].next # None
               /\ jobs[j].due < runtime'[jobs[j].task].next
               /\ (Timing /\ jobs[j].task = tick.task) => jobs[j].due < tick.due
    <2>1. jobs[j].task \in Tasks /\ jobs[j].due \in Nat
      BY <1>0, <1>9 DEF OnlyRuns
    <2>2. /\ runtime[jobs[j].task].next # None
          /\ jobs[j].due < runtime[jobs[j].task].next
      BY <1>0, <1>9 DEF Times
    <2>3. CASE Timing /\ jobs[j].task = tick.task
      <3>1. tick.due # None /\ tick.due <= tick.now /\ jobs[j].due < tick.due
        BY <1>5, <2>2, <2>3
      <3>2. tick.due \in Nat
        BY <1>0, <2>1, <2>3, <3>1, <1>5 DEF OnlyRuns, IsRuntime, Entry
      <3>3. runtime'[jobs[j].task].next = tick.now + 1
        BY <1>7, <2>3
      <3>4. tick.now + 1 # None /\ jobs[j].due < tick.now + 1
        BY <1>3, <2>1, <3>1, <3>2
      <3> QED BY <2>1, <3>1, <3>3, <3>4
    <2>4. CASE ~(Timing /\ jobs[j].task = tick.task)
      <3>1. runtime'[jobs[j].task].next = runtime[jobs[j].task].next
        BY <1>4, <1>6, <2>1, <2>4
      <3> QED BY <2>1, <2>2, <2>4, <3>1
    <2> QED BY <2>3, <2>4
  <1>10. CASE tick.then = "loop"
    <2>1. PICK read, todo : read = tick.read /\ todo = tick.todo
      OBVIOUS
    <2>2. Continue(read, todo)
      BY <1>10, <2>1 DEF RecordWrite
    <2>3. \A t \in todo : read[t].next = runtime'[t].next
      BY <1>3, <1>4, <2>1
    <2>4. IsRuntime(read) /\ todo \in SUBSET Tasks
      BY <1>3, <2>1
    <2> QED BY <1>0, <1>1, <1>2, <1>3, <1>4, <1>8, <1>9, <2>2, <2>3, <2>4, LoopGoesOn
  <1>11. CASE tick.then = "preview"
    <2>1. Timing /\ tick.due # None /\ tick.due = runtime[tick.task].next
      BY <1>5, <1>11
    <2>2. tick' = [tick EXCEPT !.at = tick.then, !.held = Blank]
      BY <1>11 DEF RecordWrite
    <2>3. /\ tick'.at = "preview" /\ tick'.todo = tick.todo /\ tick'.now = tick.now
          /\ tick'.task = tick.task /\ tick'.due = tick.due /\ tick'.read = tick.read
          /\ IsTick(tick')
      BY <1>0, <1>11, <2>2 DEF Shapes, IsTick, IsRecord
    <2>4. Shapes' /\ OnlyRuns'
      BY <1>0, <1>1, <1>4, <2>3 DEF Shapes, OnlyRuns
    <2>5. OneAtATime'
      BY <1>0, <1>1, <1>2, <2>1, <2>3, SlotStays DEF Before
    <2>6. Reading'
      <3>1. \A t \in tick'.todo : tick'.read[t].next = runtime'[t].next
        BY <1>3, <1>4, <2>3
      <3> QED BY <1>3, <2>3, <3>1 DEF Reading
    <2>7. Writing'
      <3>1. tick'.at \notin Recording
        BY <2>3 DEF Recording
      <3> QED BY <1>8, <3>1, RestsWriting
    <2>8. Times'
      <3>1. tick.due \in Nat
        BY <1>0, <1>3, <2>1 DEF OnlyRuns, IsRuntime, Entry
      <3>2. /\ tick'.due \in Nat /\ runtime'[tick'.task].next # None
            /\ tick'.due < runtime'[tick'.task].next
        BY <1>3, <1>5, <1>7, <2>1, <2>3, <3>1
      <3>3. \A j \in Jobs : jobs'[j].due # None /\ jobs'[j].task = tick'.task =>
                jobs'[j].due < tick'.due
        BY <1>1, <1>9, <2>1, <2>3
      <3>4. \A i, j \in Jobs :
                jobs'[i].due # None /\ jobs'[i].due = jobs'[j].due
                /\ jobs'[i].task = jobs'[j].task => i = j
        BY <1>0, <1>1 DEF Times
      <3>5. \A j \in Jobs : jobs'[j].due # None =>
                /\ runtime'[jobs'[j].task].next # None
                /\ jobs'[j].due < runtime'[jobs'[j].task].next
        BY <1>1, <1>9
      <3> QED BY <3>2, <3>3, <3>4, <3>5 DEF Times
    <2> QED BY <2>4, <2>5, <2>6, <2>7, <2>8 DEF OnceInv
  <1> QED BY <1>5, <1>10, <1>11

LEMMA PreviewKeepsOnce ==
    ASSUME None \notin Nat, OnceInv, PreviewRun PROVE OnceInv'
  <1>0. Shapes /\ OnlyRuns /\ OneAtATime /\ Reading /\ Writing /\ Times
    BY DEF OnceInv
  <1>1. UNCHANGED <<registry, runtime, busy, clock>> /\ tick.at = "preview"
    BY DEF PreviewRun, files, world
  <1>2. tick.at \in Looping /\ tick.at # "renewing"
    BY <1>1 DEF Looping
  <1>3. CASE tick' = Refused /\ UNCHANGED jobs
    <2>1. "next" \notin DOMAIN [status |-> "failed"]
      OBVIOUS
    <2> QED BY <1>1, <1>2, <1>3, <2>1, RefusalKeeps DEF Refused, files
  <1>4. ASSUME NEW k \in Jobs, jobs[k].at = "free", Previewed(k, "run", tick.task, tick.due),
               tick' = [tick EXCEPT !.at = "approve", !.job = k]
        PROVE  OnceInv'
    <2>1. /\ tick'.at = "approve" /\ tick'.todo = tick.todo /\ tick'.now = tick.now
          /\ tick'.task = tick.task /\ tick'.due = tick.due /\ tick'.read = tick.read
          /\ tick'.job = k /\ IsTick(tick')
      BY <1>0, <1>4 DEF Shapes, IsTick, IsRecord
    <2>2. /\ jobs'[k].at = "preview" /\ jobs'[k].kind = "run" /\ jobs'[k].task = tick.task
          /\ jobs'[k].due = tick.due
          /\ \A j \in Jobs \ {k} : jobs'[j] = jobs[j]
          /\ Shapes'
      <3> DEFINE r == [NoJob EXCEPT !.at = "preview", !.kind = "run", !.task = tick.task,
                                    !.due = tick.due, !.before = registry]
      <3>1. /\ r.at = "preview" /\ r.kind = "run" /\ r.task = tick.task /\ r.due = tick.due
            /\ IsJob(r)
        BY DEF NoJob, IsJob, IsRecord
      <3>2. jobs' = [jobs EXCEPT ![k] = r]
        BY <1>4 DEF Previewed
      <3> HIDE DEF r
      <3> QED BY <1>0, <1>1, <2>1, <3>1, <3>2 DEF Shapes
    <2>3. tick.task \in Tasks /\ tick.due \in Nat
      BY <1>0, <1>1, <1>2 DEF Reading, Times
    <2>4. OnlyRuns'
      BY <1>0, <1>1, <2>2, <2>3 DEF OnlyRuns
    <2>5. OneAtATime'
      <3>1. ~Active(k) /\ ~Active(k)'
        BY <1>4, <2>2 DEF Active, Waiting
      <3>2. \A j \in Jobs : Active(j)' <=> Active(j)
        <4>1. \A j \in Jobs \ {k} : Active(j)' <=> Active(j)
          BY <2>2 DEF Active
        <4> QED BY <3>1, <4>1
      <3>3. Before
        BY <1>1 DEF Before
      <3> QED BY <1>0, <1>1, <2>1, <3>2, <3>3 DEF OneAtATime
    <2>6. Reading'
      <3>1. tick'.job \in Jobs /\ jobs'[tick'.job].due = tick'.due
        BY <2>1, <2>2
      <3> QED BY <1>0, <1>1, <1>2, <2>1, <3>1 DEF Reading
    <2>7. Writing'
      <3>1. tick'.at \notin Recording
        BY <2>1 DEF Recording
      <3>2. \A j \in Jobs : jobs'[j].at = "record write" =>
                IsRuntime(jobs'[j].held) /\ SameTimes(jobs'[j].held, runtime')
        <4> SUFFICES ASSUME NEW j \in Jobs, jobs'[j].at = "record write"
                     PROVE  IsRuntime(jobs'[j].held) /\ SameTimes(jobs'[j].held, runtime')
          OBVIOUS
        <4>1. j # k /\ jobs'[j] = jobs[j]
          BY <2>2
        <4>2. IsRuntime(jobs[j].held) /\ SameTimes(jobs[j].held, runtime)
          BY <1>0, <4>1 DEF Writing
        <4> QED BY <1>1, <4>1, <4>2 DEF SameTimes
      <3> QED BY <3>1, <3>2, RestsWriting
    <2>8. Times'
      <3>1. /\ runtime[tick.task].next # None /\ tick.due < runtime[tick.task].next
            /\ \A j \in Jobs : jobs[j].due # None /\ jobs[j].task = tick.task =>
                  jobs[j].due < tick.due
        BY <1>0, <1>1 DEF Times
      <3>2. \A j \in Jobs : jobs'[j].due # None =>
                /\ runtime'[jobs'[j].task].next # None
                /\ jobs'[j].due < runtime'[jobs'[j].task].next
        BY <1>0, <1>1, <2>2, <3>1 DEF Times
      <3>3. \A i, j \in Jobs :
                jobs'[i].due # None /\ jobs'[i].due = jobs'[j].due
                /\ jobs'[i].task = jobs'[j].task => i = j
        <4> SUFFICES ASSUME NEW i \in Jobs, NEW j \in Jobs, i # j,
                            jobs'[i].due # None, jobs'[i].due = jobs'[j].due,
                            jobs'[i].task = jobs'[j].task
                     PROVE  FALSE
          OBVIOUS
        <4>1. \A l \in Jobs \ {k} : jobs'[l].due # None /\ jobs'[l].task = tick.task =>
                  jobs'[l].due < tick.due
          BY <2>2, <3>1
        <4>2. ~(tick.due < tick.due)
          BY <2>3
        <4>3. i # k /\ j # k
          BY <2>2, <4>1, <4>2
        <4> QED BY <1>0, <2>2, <4>3 DEF Times
      <3> QED BY <2>1, <3>2, <3>3 DEF Times
    <2> QED BY <2>2, <2>4, <2>5, <2>6, <2>7, <2>8 DEF OnceInv
  <1> QED BY <1>3, <1>4 DEF PreviewRun

\* A job goes on: it neither becomes another run nor changes a time.
LEMMA JobGoesOn ==
    ASSUME OnceInv, NEW j \in Jobs, NEW r, IsJob(r), jobs' = [jobs EXCEPT ![j] = r],
           jobs[j].at # "free", r.at \notin {"free", "clear read", "clear write"},
           r.kind = jobs[j].kind, r.task = jobs[j].task, r.due = jobs[j].due,
           r.at = "record write" => IsRuntime(r.held) /\ SameTimes(r.held, runtime),
           IsRuntime(runtime'), SameTimes(runtime', runtime),
           UNCHANGED <<registry, clock>>
    PROVE  /\ jobs' = [i \in Jobs |-> jobs'[i]] /\ \A i \in Jobs : IsJob(jobs'[i])
           /\ OnlyRuns'
           /\ \A i \in Jobs : jobs'[i].due = jobs[i].due /\ jobs'[i].task = jobs[i].task
           /\ \A i \in Jobs : jobs'[i].at = "record write" =>
                  IsRuntime(jobs'[i].held) /\ SameTimes(jobs'[i].held, runtime')
           /\ tick'.at # "preview" => Times'
  <1>0. Shapes /\ OnlyRuns /\ Writing /\ Times
    BY DEF OnceInv
  <1>1. /\ jobs'[j] = r /\ \A i \in Jobs \ {j} : jobs'[i] = jobs[i]
        /\ jobs' = [i \in Jobs |-> jobs'[i]]
    BY <1>0 DEF Shapes
  <1>2. \A i \in Jobs : /\ jobs'[i].due = jobs[i].due /\ jobs'[i].task = jobs[i].task
                        /\ jobs'[i].kind = jobs[i].kind
                        /\ jobs'[i].at = "free" => jobs[i].at = "free"
                        /\ jobs[i].at = "free" => jobs'[i].at = "free"
                        /\ jobs'[i].at \notin {"clear read", "clear write"}
                        /\ IsJob(jobs'[i])
    BY <1>0, <1>1 DEF Shapes, OnlyRuns
  <1>3. OnlyRuns'
    BY <1>0, <1>2 DEF OnlyRuns
  <1>4. \A i \in Jobs : jobs'[i].at = "record write" =>
                  IsRuntime(jobs'[i].held) /\ SameTimes(jobs'[i].held, runtime')
    <2> SUFFICES ASSUME NEW i \in Jobs, jobs'[i].at = "record write"
                 PROVE  IsRuntime(jobs'[i].held) /\ SameTimes(jobs'[i].held, runtime')
      OBVIOUS
    <2>1. IsRuntime(jobs'[i].held) /\ SameTimes(jobs'[i].held, runtime)
      BY <1>0, <1>1 DEF Writing
    <2> QED BY <2>1 DEF SameTimes
  <1>5. ASSUME tick'.at # "preview" PROVE Times'
    <2>1. \A i \in Jobs : jobs[i].due # None => jobs[i].task \in Tasks
      BY <1>0 DEF OnlyRuns
    <2>2. \A i \in Jobs : jobs'[i].due # None =>
              /\ runtime'[jobs'[i].task].next # None
              /\ jobs'[i].due < runtime'[jobs'[i].task].next
      <3> SUFFICES ASSUME NEW i \in Jobs, jobs[i].due # None
                   PROVE  /\ runtime'[jobs[i].task].next # None
                          /\ jobs[i].due < runtime'[jobs[i].task].next
        BY <1>2
      <3>1. runtime'[jobs[i].task].next = runtime[jobs[i].task].next
        BY <2>1 DEF SameTimes
      <3>2. /\ runtime[jobs[i].task].next # None
            /\ jobs[i].due < runtime[jobs[i].task].next
        BY <1>0 DEF Times
      <3> QED BY <3>1, <3>2
    <2>3. \A i, k \in Jobs :
              jobs'[i].due # None /\ jobs'[i].due = jobs'[k].due
              /\ jobs'[i].task = jobs'[k].task => i = k
      <3> SUFFICES ASSUME NEW i \in Jobs, NEW k \in Jobs,
                          jobs'[i].due # None, jobs'[i].due = jobs'[k].due,
                          jobs'[i].task = jobs'[k].task
                   PROVE  i = k
        OBVIOUS
      <3>1. /\ jobs'[i].due = jobs[i].due /\ jobs'[i].task = jobs[i].task
            /\ jobs'[k].due = jobs[k].due /\ jobs'[k].task = jobs[k].task
        BY <1>2
      <3> QED BY <1>0, <3>1 DEF Times
    <2> QED BY <1>5, <2>2, <2>3 DEF Times
  <1> QED BY <1>1, <1>2, <1>3, <1>4, <1>5

\* An approval or an outcome of a job that has the slot, whether the tick goes on or not.
LEMMA StepGoesOn ==
    ASSUME OnceInv, NEW j \in Jobs, Active(j), NEW r, IsJob(r), jobs' = [jobs EXCEPT ![j] = r],
           r.at \notin {"free", "clear read", "clear write"},
           r.kind = jobs[j].kind, r.task = jobs[j].task, r.due = jobs[j].due,
           r.at = "record write" => IsRuntime(r.held) /\ SameTimes(r.held, runtime),
           IsRuntime(runtime'), SameTimes(runtime', runtime),
           UNCHANGED <<registry, clock>>, busy' = (busy /\ r.at \in Waiting),
           tick' = tick
    PROVE  OnceInv'
  <1>0. Shapes /\ OnlyRuns /\ OneAtATime /\ Reading /\ Writing /\ Times
    BY DEF OnceInv
  <1>1. busy = TRUE /\ ~Before /\ jobs[j].at # "free" /\ tick.at # "preview"
    BY <1>0 DEF OneAtATime, Active, Waiting, Before, Shapes
  <1>2. /\ jobs' = [i \in Jobs |-> jobs'[i]] /\ \A i \in Jobs : IsJob(jobs'[i])
        /\ OnlyRuns'
        /\ \A i \in Jobs : jobs'[i].due = jobs[i].due /\ jobs'[i].task = jobs[i].task
        /\ \A i \in Jobs : jobs'[i].at = "record write" =>
               IsRuntime(jobs'[i].held) /\ SameTimes(jobs'[i].held, runtime')
        /\ Times'
    BY <1>1, JobGoesOn
  <1>3. Shapes'
    BY <1>0, <1>1, <1>2 DEF Shapes
  <1>4. OneAtATime'
    <2>1. /\ jobs'[j] = r /\ \A i \in Jobs \ {j} : jobs'[i] = jobs[i]
      BY <1>0 DEF Shapes
    <2>2. /\ \A i \in Jobs \ {j} : ~Active(i)'
          /\ Active(j)' <=> r.at \in Waiting
      BY <1>0, <2>1 DEF OneAtATime, Active
    <2>3. ~Before' /\ (busy' <=> r.at \in Waiting)
      BY <1>1 DEF Before, Timing
    <2> QED BY <2>2, <2>3 DEF OneAtATime
  <1>5. Reading'
    <2>1. tick.at \in Looping => \A t \in tick.todo : runtime'[t].next = runtime[t].next
      BY <1>0 DEF Reading, SameTimes
    <2>2. tick.at # "approve"
      BY <1>1 DEF Before
    <2> QED BY <1>0, <2>1, <2>2 DEF Reading
  <1>6. Writing'
    <2>1. ~Timing /\ ~Timing'
      BY <1>1 DEF Before, Timing
    <2>2. tick.at \in Recording => tick.then \in {"loop", "preview"} /\ tick.then # "preview"
      BY <1>0, <2>1 DEF Writing
    <2>3. tick.at = "record write" =>
              /\ IsRuntime(tick.held)
              /\ \A u \in Tasks : tick.held[u].next =
                    IF u = tick.task THEN NextAfter(runtime'[u], tick.values)
                    ELSE runtime'[u].next
      <3> SUFFICES ASSUME tick.at = "record write"
                   PROVE  /\ IsRuntime(tick.held)
                          /\ \A u \in Tasks : tick.held[u].next =
                                IF u = tick.task THEN NextAfter(runtime'[u], tick.values)
                                ELSE runtime'[u].next
        OBVIOUS
      <3>1. "next" \notin DOMAIN tick.values
        BY <2>1 DEF Timing, Recording
      <3>2. /\ IsRuntime(tick.held)
            /\ \A u \in Tasks : tick.held[u].next =
                  IF u = tick.task THEN NextAfter(runtime[u], tick.values) ELSE runtime[u].next
        BY <1>0 DEF Writing
      <3>3. \A u \in Tasks : runtime'[u].next = runtime[u].next
        BY DEF SameTimes
      <3> QED BY <3>1, <3>2, <3>3 DEF NextAfter
    <2> QED BY <1>2, <2>1, <2>2, <2>3 DEF Writing
  <1> QED BY <1>2, <1>3, <1>4, <1>5, <1>6 DEF OnceInv

\* The end of an approval the tick waits for.
LEMMA ApprovalGoesOn ==
    ASSUME OnceInv, NEW j \in Jobs, jobs[j].at = "approving", tick.at = "approving",
           NEW at \in {"queued", "preview"}, jobs' = [jobs EXCEPT ![j].at = at],
           UNCHANGED <<files, clock>>, busy' = (at = "queued"),
           NEW v, "next" \notin DOMAIN v, tick' = Record(tick.task, v, "loop")
    PROVE  OnceInv'
  <1>0. Shapes /\ OnlyRuns /\ OneAtATime /\ Reading /\ Writing /\ Times
    BY DEF OnceInv
  <1>1. /\ IsTick(tick') /\ ~Before' /\ Reading'
        /\ tick'.at = "record read" /\ tick'.then = "loop" /\ ~Timing'
    BY RecordsNoTime DEF Looping, files
  <1> DEFINE r == [jobs[j] EXCEPT !.at = at]
  <1>2. /\ IsJob(r) /\ r.at = at /\ r.kind = jobs[j].kind
        /\ r.task = jobs[j].task /\ r.due = jobs[j].due
    BY <1>0 DEF Shapes, IsJob, IsRecord
  <1>3. jobs' = [jobs EXCEPT ![j] = r]
    OBVIOUS
  <1>4. IsRuntime(runtime') /\ SameTimes(runtime', runtime) /\ registry' = registry
    BY <1>0 DEF files, OnlyRuns, SameTimes
  <1> HIDE DEF r
  <1>5. /\ jobs' = [i \in Jobs |-> jobs'[i]] /\ \A i \in Jobs : IsJob(jobs'[i])
        /\ OnlyRuns'
        /\ \A i \in Jobs : jobs'[i].at = "record write" =>
               IsRuntime(jobs'[i].held) /\ SameTimes(jobs'[i].held, runtime')
        /\ Times'
    BY <1>1, <1>2, <1>3, <1>4, JobGoesOn
  <1>6. Shapes'
    BY <1>0, <1>1, <1>5 DEF Shapes
  <1>7. OneAtATime'
    <2>1. /\ jobs'[j] = r /\ \A i \in Jobs \ {j} : jobs'[i] = jobs[i]
      BY <1>0, <1>3 DEF Shapes
    <2>2. Active(j)
      BY DEF Active, Waiting
    <2>3. /\ \A i \in Jobs \ {j} : ~Active(i)'
          /\ Active(j)' <=> at = "queued"
      BY <1>0, <1>2, <2>1, <2>2 DEF OneAtATime, Active, Waiting
    <2> QED BY <1>1, <2>3 DEF OneAtATime
  <1>8. Writing'
    BY <1>1, <1>5 DEF Writing, Recording
  <1> QED BY <1>1, <1>5, <1>6, <1>7, <1>8 DEF OnceInv

LEMMA ApproveKeepsOnce == ASSUME OnceInv, ApproveRun PROVE OnceInv'
  <1>0. Shapes /\ OnlyRuns /\ OneAtATime /\ Reading /\ Writing /\ Times
    BY DEF OnceInv
  <1>1. UNCHANGED <<files, clock>> /\ tick.at = "approve" /\ tick.at \in Looping
    BY DEF ApproveRun, world, Looping
  <1>2. CASE tick' = Refused /\ UNCHANGED <<busy, jobs>>
    <2>1. "next" \notin DOMAIN [status |-> "failed"]
      OBVIOUS
    <2> QED BY <1>1, <1>2, <2>1, RefusalKeeps DEF Refused
  <1>3. CASE Approve(tick.job, tick.due) /\ tick' = [tick EXCEPT !.at = "approving"]
    <2>1. /\ tick'.at = "approving" /\ tick'.todo = tick.todo /\ tick'.now = tick.now
          /\ tick'.task = tick.task /\ tick'.read = tick.read /\ IsTick(tick')
      BY <1>0, <1>3 DEF Shapes, IsTick, IsRecord
    <2>2. PICK j \in Jobs : j = tick.job
      BY <1>0, <1>1 DEF Reading
    <2>3. /\ jobs[j].at = "preview" /\ jobs[j].due = tick.due /\ busy' = TRUE
          /\ jobs' = [jobs EXCEPT ![j].at = "approving", ![j].due = tick.due]
      BY <1>0, <1>1, <1>3, <2>2 DEF Approve, Reading
    <2> DEFINE r == [jobs[j] EXCEPT !.at = "approving", !.due = tick.due]
    <2>4. /\ IsJob(r) /\ r.at = "approving" /\ r.kind = jobs[j].kind
          /\ r.task = jobs[j].task /\ r.due = jobs[j].due
      BY <1>0, <2>3 DEF Shapes, IsJob, IsRecord
    <2>5. jobs' = [jobs EXCEPT ![j] = r]
      BY <2>3
    <2>6. IsRuntime(runtime') /\ SameTimes(runtime', runtime)
          /\ registry' = registry /\ clock' = clock
      BY <1>0, <1>1 DEF files, OnlyRuns, SameTimes
    <2> HIDE DEF r
    <2>7. /\ jobs' = [i \in Jobs |-> jobs'[i]] /\ \A i \in Jobs : IsJob(jobs'[i])
          /\ OnlyRuns'
          /\ \A i \in Jobs : jobs'[i].at = "record write" =>
                 IsRuntime(jobs'[i].held) /\ SameTimes(jobs'[i].held, runtime')
          /\ Times'
      BY <2>1, <2>3, <2>4, <2>5, <2>6, JobGoesOn
    <2>8. Shapes'
      BY <2>1, <2>3, <2>7 DEF Shapes
    <2>9. OneAtATime'
      <3>1. /\ jobs'[j] = r /\ \A i \in Jobs \ {j} : jobs'[i] = jobs[i]
        BY <1>0, <2>5 DEF Shapes
      <3>2. \A i \in Jobs : ~Active(i)
        BY <1>0, <1>1 DEF OneAtATime, Before
      <3>3. Active(j)' /\ \A i \in Jobs \ {j} : ~Active(i)'
        BY <2>4, <3>1, <3>2 DEF Active, Waiting
      <3>4. ~Before'
        BY <2>1 DEF Before, Timing, Recording
      <3> QED BY <2>3, <3>3, <3>4 DEF OneAtATime
    <2>10. Reading'
      <3>1. \A t \in tick.todo : tick.read[t].next = runtime'[t].next
        BY <1>0, <1>1 DEF Reading, files
      <3> QED BY <1>0, <1>1, <2>1, <3>1 DEF Reading
    <2>11. Writing'
      BY <2>1, <2>7, RestsWriting DEF Recording
    <2> QED BY <2>7, <2>8, <2>9, <2>10, <2>11 DEF OnceInv
  <1> QED BY <1>2, <1>3 DEF ApproveRun

LEMMA RenewalKeepsOnce == ASSUME OnceInv, StartRenewal \/ Renewed PROVE OnceInv'
  <1>0. Shapes /\ OnlyRuns /\ OneAtATime /\ Reading /\ Writing /\ Times
    BY DEF OnceInv
  <1>1. /\ UNCHANGED <<registry, runtime, jobs, clock>> /\ tick.at \in {"certificates", "renewing"}
        /\ Before
    BY DEF StartRenewal, Renewed, files, world, Before
  <1>2. \A j \in Jobs : ~Active(j) /\ ~Active(j)'
    BY <1>0, <1>1 DEF OneAtATime, Active
  <1>3. CASE tick' = Idle /\ (busy' = FALSE \/ (busy' = busy /\ tick.at = "certificates"))
    <2>1. tick'.at = "idle" /\ tick'.todo = {} /\ tick'.now \in Nat /\ IsTick(tick')
      BY <1>3, IdleIs DEF Idle, IsTick, IsRecord
    <2>2. Shapes' /\ OnlyRuns'
      BY <1>0, <1>1, <1>3, <2>1 DEF Shapes, OnlyRuns
    <2>3. OneAtATime'
      BY <1>0, <1>2, <1>3 DEF OneAtATime
    <2>4. Reading'
      BY <2>1, RestsReading
    <2>5. Writing'
      BY <1>0, <1>1, <2>1, RestsWriting DEF Writing, Recording
    <2>6. Times'
      BY <1>0, <1>1, <2>1, RestsTimes DEF Times
    <2> QED BY <2>2, <2>3, <2>4, <2>5, <2>6 DEF OnceInv
  <1>4. CASE busy' = TRUE /\ tick' = [tick EXCEPT !.at = "renewing"]
    <2>1. tick'.at = "renewing" /\ tick'.todo = tick.todo /\ tick'.now = tick.now /\ IsTick(tick')
      BY <1>0, <1>4 DEF Shapes, IsTick, IsRecord
    <2>2. Shapes' /\ OnlyRuns'
      BY <1>0, <1>1, <1>4, <2>1 DEF Shapes, OnlyRuns
    <2>3. OneAtATime'
      BY <1>2, <2>1 DEF OneAtATime
    <2>4. Reading'
      BY <1>0, <2>1 DEF Reading, Looping, Recording
    <2>5. Writing'
      BY <1>0, <1>1, <2>1, RestsWriting DEF Writing, Recording
    <2>6. Times'
      BY <1>0, <1>1, <2>1, RestsTimes DEF Times
    <2> QED BY <2>2, <2>3, <2>4, <2>5, <2>6 DEF OnceInv
  <1> QED BY <1>3, <1>4 DEF StartRenewal, Renewed

LEMMA StepKeepsOnce ==
    ASSUME None \notin Nat, OnceInv, NEW j \in Jobs, Step(j) PROVE OnceInv'
  <1>0. Shapes /\ OnlyRuns /\ OneAtATime /\ Reading /\ Writing /\ Times
    BY DEF OnceInv
  <1>1. Active(j) /\ jobs[j].at # "free" /\ jobs[j].kind = "run" /\ IsJob(jobs[j])
        /\ jobs[j].task \in Tasks /\ jobs[j].at \notin {"clear read", "clear write"}
    <2>1. Active(j) /\ jobs[j].at # "free"
      BY DEF Step, ApproveEnds, Execute, Run, Finish, WriteRegistry, ClearRead,
         ClearWrite, OutcomeRead, OutcomeWrite, Active, Waiting
    <2> QED BY <1>0, <2>1 DEF OnlyRuns, Shapes
  <1>2. busy = TRUE
    BY <1>0, <1>1 DEF OneAtATime, Shapes
  <1>3. IsRuntime(runtime) /\ SameTimes(runtime, runtime)
    BY <1>0 DEF OnlyRuns, SameTimes
  <1>4. ASSUME NEW r, IsJob(r), jobs' = [jobs EXCEPT ![j] = r],
               r.at \in {"queued", "applying", "record read", "record write", "finishing",
                         "preview", "done"},
               r.kind = jobs[j].kind, r.task = jobs[j].task, r.due = jobs[j].due,
               r.at = "record write" => IsRuntime(r.held) /\ SameTimes(r.held, runtime),
               IsRuntime(runtime'), SameTimes(runtime', runtime),
               UNCHANGED <<registry, clock>>,
               busy' = (r.at \notin {"preview", "done"}),
               tick' = tick
        PROVE  OnceInv'
    <2>1. busy' = (busy /\ r.at \in Waiting)
      BY <1>2, <1>4 DEF Waiting
    <2> QED BY <1>1, <1>4, <2>1, StepGoesOn
  <1>5. CASE ApproveEnds(j)
    <2>1. UNCHANGED <<files, clock>> /\ UNCHANGED <<registry, runtime>>
          /\ jobs[j].at = "approving"
      BY <1>5 DEF ApproveEnds, world, files
    <2>2. CASE tick.at = "approving" /\ tick.job = j
      <3>1. /\ "next" \notin DOMAIN [status |-> "failed"]
            /\ "next" \notin DOMAIN [job |-> j, status |-> "queued"]
        OBVIOUS
      <3>2. CASE Rechecked(j)
        <4>1. /\ jobs' = [jobs EXCEPT ![j].at = "queued"] /\ busy' = ("queued" = "queued")
              /\ tick' = Record(tick.task, [job |-> j, status |-> "queued"], "loop")
          BY <1>2, <1>5, <2>2, <3>2 DEF ApproveEnds
        <4> QED BY <2>1, <2>2, <3>1, <4>1, ApprovalGoesOn
      <3>3. CASE ~Rechecked(j)
        <4>1. /\ jobs' = [jobs EXCEPT ![j].at = "preview"] /\ busy' = ("preview" = "queued")
              /\ tick' = Record(tick.task, [status |-> "failed"], "loop")
          BY <1>5, <2>2, <3>3 DEF ApproveEnds, Refused
        <4> QED BY <2>1, <2>2, <3>1, <4>1, ApprovalGoesOn
      <3> QED BY <3>2, <3>3
    <2>3. CASE ~(tick.at = "approving" /\ tick.job = j)
      <3>1. PICK at \in {"queued", "preview"} :
                jobs' = [jobs EXCEPT ![j].at = at] /\ busy' = (at = "queued") /\ tick' = tick
        BY <1>2, <1>5, <2>3 DEF ApproveEnds
      <3> DEFINE r == [jobs[j] EXCEPT !.at = at]
      <3>2. /\ IsJob(r) /\ r.at = at /\ r.kind = jobs[j].kind
            /\ r.task = jobs[j].task /\ r.due = jobs[j].due
        BY <1>1 DEF IsJob, IsRecord
      <3>3. jobs' = [jobs EXCEPT ![j] = r]
        BY <3>1
      <3> HIDE DEF r
      <3> QED BY <1>3, <1>4, <2>1, <3>1, <3>2, <3>3
    <2> QED BY <2>2, <2>3
  <1>6. CASE Execute(j)
    <2> DEFINE r == IF Rechecked(j) THEN [jobs[j] EXCEPT !.at = "applying"]
                                    ELSE Settled(j, "failed")
    <2>1. /\ IsJob(r) /\ r.kind = jobs[j].kind
          /\ r.at \in {"applying", "record read"}
          /\ r.task = jobs[j].task /\ r.due = jobs[j].due
      BY <1>1, <1>6 DEF Execute, Settled, IsJob, IsRecord
    <2>2. jobs' = [jobs EXCEPT ![j] = r]
      BY <1>6 DEF Execute, Goto
    <2>3. UNCHANGED <<registry, runtime, busy, clock, tick>>
      BY <1>6 DEF Execute, files, world
    <2> HIDE DEF r
    <2> QED BY <1>2, <1>3, <1>4, <2>1, <2>2, <2>3
  <1>7. CASE Run(j)
    <2>1. PICK s \in {"succeeded", "failed"} :
             jobs' = [jobs EXCEPT ![j] = [Settled(j, s) EXCEPT !.ran = TRUE]]
      BY <1>7 DEF Run
    <2> DEFINE r == [Settled(j, s) EXCEPT !.ran = TRUE]
    <2>2. /\ IsJob(r) /\ r.at = "record read" /\ r.kind = jobs[j].kind
          /\ r.task = jobs[j].task /\ r.due = jobs[j].due
      BY <1>1, <1>7 DEF Run, Settled, IsJob, IsRecord
    <2>3. UNCHANGED <<registry, runtime, busy, clock, tick>>
      BY <1>7 DEF Run, files, world
    <2> HIDE DEF r
    <2> QED BY <1>2, <1>3, <1>4, <2>1, <2>2, <2>3 DEF r
  <1>8. ~(WriteRegistry(j) \/ ClearRead(j) \/ ClearWrite(j))
    BY <1>1 DEF WriteRegistry, ClearRead, ClearWrite
  <1>9. CASE OutcomeRead(j)
    <2> DEFINE held == Recorded(runtime, jobs[j].task, Outcome(j))
               r == [jobs[j] EXCEPT !.at = "record write", !.held = held]
    <2>1. IsRuntime(held) /\ SameTimes(held, runtime)
      <3>1. "next" \notin DOMAIN Outcome(j)
        BY DEF Outcome
      <3>2. PICK read, task, v : read = runtime /\ task = jobs[j].task /\ v = Outcome(j)
        OBVIOUS
      <3>3. /\ IsRuntime(Recorded(read, task, v)) /\ SameTimes(Recorded(read, task, v), read)
        BY <1>1, <1>3, <3>1, <3>2, KeepsTimes
      <3> QED BY <3>2, <3>3
    <2> HIDE DEF held
    <2>2. /\ IsJob(r) /\ r.at = "record write" /\ r.kind = jobs[j].kind
          /\ r.task = jobs[j].task /\ r.due = jobs[j].due /\ r.held = held
      BY <1>1 DEF IsJob, IsRecord
    <2>3. jobs' = [jobs EXCEPT ![j] = r]
      BY <1>9 DEF OutcomeRead, held
    <2>4. UNCHANGED <<registry, runtime, busy, clock, tick>>
      BY <1>9 DEF OutcomeRead, files, world
    <2> HIDE DEF r
    <2> QED BY <1>2, <1>3, <1>4, <2>1, <2>2, <2>3, <2>4
  <1>10. CASE OutcomeWrite(j)
    <2> DEFINE r == [jobs[j] EXCEPT !.held = Blank, !.at = "finishing"]
    <2>1. /\ IsJob(r) /\ r.at = "finishing" /\ r.kind = jobs[j].kind
          /\ r.task = jobs[j].task /\ r.due = jobs[j].due
      BY <1>1 DEF IsJob, IsRecord
    <2>2. jobs' = [jobs EXCEPT ![j] = r]
      BY <1>10 DEF OutcomeWrite
    <2>3. IsRuntime(runtime') /\ SameTimes(runtime', runtime)
      BY <1>0, <1>10 DEF OutcomeWrite, Writing
    <2>4. UNCHANGED <<registry, busy, clock, tick>>
      BY <1>10 DEF OutcomeWrite, world
    <2> HIDE DEF r
    <2> QED BY <1>2, <1>4, <2>1, <2>2, <2>3, <2>4
  <1>11. CASE Finish(j)
    <2> DEFINE r == [jobs[j] EXCEPT !.at = "done"]
    <2>1. /\ IsJob(r) /\ r.at = "done" /\ r.kind = jobs[j].kind
          /\ r.task = jobs[j].task /\ r.due = jobs[j].due
      BY <1>1 DEF IsJob, IsRecord
    <2>2. jobs' = [jobs EXCEPT ![j] = r] /\ busy' = FALSE
      BY <1>11 DEF Finish, Goto
    <2>3. UNCHANGED <<registry, runtime, clock, tick>>
      BY <1>11 DEF Finish, files, world
    <2> HIDE DEF r
    <2> QED BY <1>3, <1>4, <2>1, <2>2, <2>3
  <1> QED BY <1>5, <1>6, <1>7, <1>8, <1>9, <1>10, <1>11 DEF Step

LEMMA CrashKeepsOnce == ASSUME OnceInv, Crash PROVE OnceInv'
  <1>0. Shapes /\ OnlyRuns /\ OneAtATime /\ Reading /\ Writing /\ Times
    BY DEF OnceInv
  <1>1. UNCHANGED <<registry, runtime, clock>> /\ busy' = FALSE /\ tick' = Idle
    BY DEF Crash, files
  <1>2. \A j \in Jobs :
           /\ jobs'[j].at \notin Waiting
           /\ jobs'[j].kind = jobs[j].kind /\ jobs'[j].task = jobs[j].task
           /\ jobs'[j].due = jobs[j].due
           /\ (jobs[j].at = "free") <=> (jobs'[j].at = "free")
    BY <1>0 DEF Crash, Shapes, IsJob, IsRecord, Waiting
  <1>3. Shapes'
    BY <1>0 DEF Crash, Idle, Shapes, IsJob, IsTick, IsRecord
  <1>4. OnlyRuns'
    BY <1>0, <1>1, <1>2 DEF OnlyRuns, Waiting
  <1>5. OneAtATime'
    BY <1>1, <1>2 DEF OneAtATime, Active
  <1>6. tick'.at = "idle" /\ tick'.todo = {} /\ tick'.now \in Nat
    BY <1>1, IdleIs
  <1>7. Reading'
    BY <1>6, RestsReading
  <1>8. Writing'
    BY <1>2, <1>6, RestsWriting DEF Waiting, Recording
  <1>9. Times'
    BY <1>0, <1>1, <1>2, <1>6 DEF Times
  <1> QED BY <1>3, <1>4, <1>5, <1>7, <1>8, <1>9 DEF OnceInv

LEMMA InitOnce == Init => OnceInv
  <1> SUFFICES ASSUME Init PROVE OnceInv
    OBVIOUS
  <1>1. Shapes
    BY InitInv DEF Inv
  <1>2. \A j \in Jobs : jobs[j].at = "free" /\ jobs[j].due = None
    BY DEF Init, NoJob
  <1>3. IsRuntime(runtime)
    BY DEF Init, Blank, Unrun, IsRuntime, Entry
  <1>4. OnlyRuns
    BY <1>2, <1>3 DEF Init, OnlyRuns
  <1>5. OneAtATime
    BY <1>2 DEF Init, OneAtATime, Active, Waiting
  <1>6. tick.at = "idle" /\ tick.todo = {} /\ tick.now \in Nat
    BY IdleIs DEF Init
  <1>7. Reading
    BY <1>6 DEF Reading, Looping, Recording
  <1>8. Writing
    BY <1>2, <1>6 DEF Writing, Recording
  <1>9. Times
    BY <1>2, <1>6 DEF Times
  <1> QED BY <1>1, <1>4, <1>5, <1>7, <1>8, <1>9 DEF OnceInv

LEMMA NextOnce ==
    ASSUME None \notin Nat, Clients = {}, OnceInv, [Next]_vars PROVE OnceInv'
  <1>1. CASE UNCHANGED vars \/ StartAgent \/ Advance
    <2>1. UNCHANGED <<registry, runtime, busy, jobs, tick>> /\ (clock \in Nat => clock' \in Nat)
      BY <1>1 DEF vars, files, world, StartAgent, Advance
    <2>2. Shapes' /\ OnlyRuns'
      BY <2>1 DEF OnceInv, Shapes, OnlyRuns
    <2>3. OneAtATime'
      BY <2>1 DEF OnceInv, OneAtATime, Active, Before, Timing
    <2>4. Reading'
      BY <2>1 DEF OnceInv, Reading
    <2>5. Writing'
      BY <2>1 DEF OnceInv, Writing, Timing
    <2>6. Times'
      BY <2>1 DEF OnceInv, Times
    <2> QED BY <2>2, <2>3, <2>4, <2>5, <2>6 DEF OnceInv
  <1>2. ~Client
    BY DEF Client, ClientApprove
  <1>3. CASE TickStep \/ Tick
    BY <1>3, TickKeepsOnce, ReadRegistryKeepsOnce, ReadRuntimeKeepsOnce, RecordReadKeepsOnce,
       RecordWriteKeepsOnce, PreviewKeepsOnce, ApproveKeepsOnce, RenewalKeepsOnce DEF TickStep
  <1>4. CASE Crash \/ \E j \in Jobs : Step(j)
    BY <1>4, CrashKeepsOnce, StepKeepsOnce
  <1> QED BY <1>1, <1>2, <1>3, <1>4 DEF Next

\* A due instant of a task leads to one run at most, through restarts at any step: the
\* next time is on disk before the job of this one is approved, and the tick that reads
\* it goes on from there.
THEOREM RunsOncePerDue ==
    ASSUME SchedulerAssumption, Clients = {} PROVE Spec => []OncePerDue
  <1>1. OnceInv /\ [Next]_vars => OnceInv'
    BY NextOnce DEF SchedulerAssumption
  <1>2. OnceInv => OncePerDue
    BY DEF OnceInv, Times, OncePerDue
  <1> QED BY <1>1, <1>2, InitOnce, PTL DEF Spec

-----------------------------------------------------------------------------
(* The invariant of the status that is shown, until a restart *)

\* The fields of an entry of runtime.json that say how a task is.
IsStatus(r) == /\ DOMAIN r = Tasks /\ r = [t \in Tasks |-> r[t]]
               /\ \A t \in Tasks : "job" \in DOMAIN r[t] /\ "status" \in DOMAIN r[t]

\* A job that was approved for good, and one that ended.
Begun(j) == j \in Jobs /\ jobs[j].at \in (Waiting \ {"approving"}) \cup {"done"}
Ended(j) == jobs[j].at \in {"record read", "record write", "finishing", "done"}

\* What an entry names has begun, and without a job its status is final.
Refers(r) == \A t \in Tasks : r[t].job # None => Begun(r[t].job)
Final(e) == e.job = None => e.status \in {"none", "failed"}

\* The tick is to write how the run of t went.
Open(t) ==
    /\ tick.task = t
    /\ \/ tick.at \in {"preview", "approve", "approving"}
       \/ tick.at \in Recording /\ tick.then = "loop" /\ "status" \in DOMAIN tick.values

\* A job under way is one of the task the tick is at.
Together == \A j \in Jobs, t \in Tasks : Active(j) /\ Open(t) => jobs[j].task = t

Tasked ==
    /\ registry \subseteq Tasks /\ tick.todo \subseteq Tasks
    /\ tick.at \in Looping => tick.task \in Tasks
    /\ tick.at = "approve" => tick.job \in Jobs
    /\ \A j \in Jobs : jobs[j].before \subseteq Tasks
                       /\ (jobs[j].at # "free" => jobs[j].task \in Tasks)

\* What the tick is to write in an entry.
Values ==
    tick.at \in Recording =>
        /\ tick.then \in {"loop", "preview"}
        /\ tick.then = "preview" => "job" \notin DOMAIN tick.values
        /\ tick.then = "loop" /\ "status" \in DOMAIN tick.values =>
               tick.values.status = "failed" \/ "job" \in DOMAIN tick.values
        /\ "job" \in DOMAIN tick.values =>
               "status" \in DOMAIN tick.values /\ tick.values.job # None /\ Begun(tick.values.job)

\* What is on disk, and what the tick and the jobs hold to write there.
Disk == IsStatus(runtime) /\ Refers(runtime) /\ \A t \in Tasks : Final(runtime[t]) \/ Open(t)

TickHolds ==
    tick.at = "record write" =>
        /\ IsStatus(tick.held) /\ Refers(tick.held)
        /\ \A t \in Tasks :
              Final(tick.held[t]) \/ (t = tick.task /\ tick.then = "preview")

JobHolds(r) ==
    r.at \in {"record write", "clear write"} =>
        IsStatus(r.held) /\ Refers(r.held) /\ \A t \in Tasks : Final(r.held[t])

JobsHold == \A j \in Jobs : JobHolds(jobs[j])

Statuses == Disk /\ TickHolds /\ JobsHold

Outcomes == \A j \in Jobs : Ended(j) => jobs[j].status \in {"succeeded", "failed"}

ShownInv == Tasked /\ Values /\ Statuses /\ Outcomes

-----------------------------------------------------------------------------
(* What is recorded, and the loop *)

LEMMA RecordsStatus ==
    ASSUME NEW read, IsStatus(read), NEW t \in Tasks, NEW v
    PROVE  /\ IsStatus(Recorded(read, t, v))
           /\ \A u \in Tasks \ {t} : Recorded(read, t, v)[u] = read[u]
           /\ Recorded(read, t, v)[t].job = IF "job" \in DOMAIN v THEN v.job ELSE read[t].job
           /\ Recorded(read, t, v)[t].status =
                 IF "status" \in DOMAIN v THEN v.status ELSE read[t].status
  <1> DEFINE e == [f \in DOMAIN read[t] |-> IF f \in DOMAIN v THEN v[f] ELSE read[t][f]]
  <1>1. /\ "job" \in DOMAIN e /\ "status" \in DOMAIN e
        /\ e.job = IF "job" \in DOMAIN v THEN v.job ELSE read[t].job
        /\ e.status = IF "status" \in DOMAIN v THEN v.status ELSE read[t].status
    BY DEF IsStatus
  <1>2. Recorded(read, t, v) = [read EXCEPT ![t] = e]
    BY DEF Recorded
  <1> HIDE DEF e
  <1> QED BY <1>1, <1>2 DEF IsStatus

\* What the tick is at after a turn of the loop: the claim or the plan of a task, which it
\* is not to answer for.
LEMMA LoopClaims ==
    ASSUME IsTick(tick), NEW read, NEW todo \in SUBSET Tasks, Continue(read, todo)
    PROVE  /\ tick'.todo \subseteq Tasks
           /\ tick'.at \in {"idle", "certificates", "record read"}
           /\ tick'.at = "record read" =>
                 /\ tick'.task \in Tasks /\ tick'.then \in {"loop", "preview"}
                 /\ "job" \notin DOMAIN tick'.values
                 /\ tick'.then = "loop" => "status" \notin DOMAIN tick'.values
  <1>1. CASE tick' = Idle \/ (~busy /\ tick' = [Idle EXCEPT !.at = "certificates"])
    BY <1>1, IdleIs
  <1>2. CASE ~(tick' = Idle \/ (~busy /\ tick' = [Idle EXCEPT !.at = "certificates"]))
    <2> DEFINE due == {t \in todo : read[t].next = None \/ read[t].next <= tick.now}
    <2>1. PICK t \in due :
              tick' = [(IF read[t].next = None
                        THEN Record(t, Planned, "loop")
                        ELSE Record(t, Claim, "preview"))
                         EXCEPT !.read = read, !.todo = due \ {t},
                                !.due = read[t].next, !.job = None]
      BY <1>2 DEF Continue
    <2>2. /\ "job" \notin DOMAIN Planned /\ "status" \notin DOMAIN Planned
          /\ "job" \notin DOMAIN Claim
      BY DEF Planned, Claim
    <2>3. ASSUME NEW v, NEW b \in {"loop", "preview"},
                 tick' = [Record(t, v, b) EXCEPT !.read = read, !.todo = due \ {t},
                                !.due = read[t].next, !.job = None]
          PROVE  /\ tick'.todo = due \ {t} /\ tick'.at = "record read" /\ tick'.task = t
                 /\ tick'.then = b /\ tick'.values = v
      BY <2>3 DEF Record, IsTick, IsRecord
    <2>4. CASE read[t].next = None
      BY <2>1, <2>2, <2>3, <2>4
    <2>5. CASE read[t].next # None
      BY <2>1, <2>2, <2>3, <2>5
    <2> QED BY <2>4, <2>5
  <1> QED BY <1>1, <1>2

\* What the tick calls record() with.
LEMMA RecordIs ==
    ASSUME IsTick(tick), NEW v, tick' = Record(tick.task, v, "loop")
    PROVE  /\ tick'.at = "record read" /\ tick'.then = "loop" /\ tick'.values = v
           /\ tick'.task = tick.task /\ tick'.todo = tick.todo
  BY DEF Record, IsTick, IsRecord

-----------------------------------------------------------------------------
(* Jobs that have begun *)

LEMMA RefersStays ==
    ASSUME NEW r, Refers(r), \A j : Begun(j) => Begun(j)'
    PROVE  Refers(r)'
  BY DEF Refers

\* A step of the tick or of an administrator takes no job back.
LEMMA BegunStays ==
    ASSUME Shapes, NEW j \in Jobs, NEW r, jobs' = [jobs EXCEPT ![j] = r],
           jobs[j].at \in (Waiting \ {"approving"}) \cup {"done"} =>
               r.at \in (Waiting \ {"approving"}) \cup {"done"}
    PROVE  \A i : Begun(i) => Begun(i)'
  BY DEF Shapes, Begun

\* Jobs stay and runtime.json stays: only the tick goes on.
LEMMA TickGoesOn ==
    ASSUME ShownInv, UNCHANGED <<files, jobs>>,
           tick'.todo \subseteq Tasks, tick'.at \in Looping => tick'.task \in Tasks,
           tick'.at # "approve", Values',
           \A t \in Tasks : Open(t) => Open(t)',
           tick'.at = "record write" =>
              /\ IsStatus(tick'.held) /\ Refers(tick'.held)
              /\ \A t \in Tasks :
                    Final(tick'.held[t]) \/ (t = tick'.task /\ tick'.then = "preview")
    PROVE  ShownInv'
  <1>0. Tasked /\ Values /\ Statuses /\ Outcomes
    BY DEF ShownInv
  <1>1. registry' = registry /\ runtime' = runtime /\ jobs' = jobs
    BY DEF files
  <1>2. Tasked'
    BY <1>0, <1>1 DEF Tasked
  <1>3. \A j : Begun(j) <=> Begun(j)'
    BY <1>1 DEF Begun
  <1>4. \A r : Refers(r) => Refers(r)'
    BY <1>3 DEF Refers
  <1>5. Statuses'
    <2>1. IsStatus(runtime) /\ Refers(runtime)'
      BY <1>0, <1>1, <1>3 DEF Statuses, Disk, TickHolds, JobsHold, JobHolds, Refers
    <2>2. \A t \in Tasks : Final(runtime[t]) \/ Open(t)'
      BY <1>0 DEF Statuses, Disk, TickHolds, JobsHold, JobHolds
    <2>3. tick'.at = "record write" => Refers(tick.held)'
      BY <1>3 DEF Refers
    <2>4. \A j \in Jobs : jobs[j].at \in {"record write", "clear write"} =>
              IsStatus(jobs[j].held) /\ Refers(jobs[j].held)' /\ \A t \in Tasks : Final(jobs[j].held[t])
      BY <1>0, <1>1, <1>3 DEF Statuses, Disk, TickHolds, JobsHold, JobHolds, Refers
    <2> QED BY <1>1, <2>1, <2>2, <2>3, <2>4 DEF Statuses, Disk, TickHolds, JobsHold, JobHolds
  <1>6. Outcomes'
    BY <1>0, <1>1 DEF Outcomes, Ended
  <1> QED BY <1>2, <1>5, <1>6 DEF ShownInv

LEMMA TickShown == ASSUME Shapes, ShownInv, Tick \/ ReadRegistry PROVE ShownInv'
  <1>1. UNCHANGED <<files, jobs>> /\ tick.at \in {"idle", "registry"}
    BY DEF Tick, ReadRegistry, world
  <1>2. tick'.at \in {"registry", "runtime"} /\ tick'.todo \subseteq Tasks
    <2>1. CASE Tick
      BY <2>1 DEF Tick, Idle
    <2>2. CASE ReadRegistry
      BY <2>2 DEF ReadRegistry, Shapes, IsTick, IsRecord, ShownInv, Tasked
    <2> QED BY <2>1, <2>2
  <1>3. tick'.at \notin Looping /\ tick'.at \notin Recording /\ tick'.at # "approve"
        /\ tick'.at # "record write"
    BY <1>2 DEF Looping, Recording
  <1>4. Values'
    BY <1>3 DEF Values
  <1>5. \A t : ~Open(t)
    BY <1>1 DEF Open, Recording
  <1> QED BY <1>1, <1>2, <1>3, <1>4, <1>5, TickGoesOn

LEMMA LoopShown ==
    ASSUME Shapes, ShownInv, UNCHANGED <<files, jobs>>, tick.at = "runtime",
           Continue(runtime, tick.todo)
    PROVE  ShownInv'
  <1>1. /\ tick'.todo \subseteq Tasks
        /\ tick'.at \in {"idle", "certificates", "record read"}
        /\ tick'.at = "record read" =>
              /\ tick'.task \in Tasks /\ tick'.then \in {"loop", "preview"}
              /\ "job" \notin DOMAIN tick'.values
              /\ tick'.then = "loop" => "status" \notin DOMAIN tick'.values
    BY LoopClaims DEF Shapes, ShownInv, Tasked
  <1>2. Values'
    BY <1>1 DEF Values, Recording
  <1>3. \A t : ~Open(t)
    BY DEF Open, Recording
  <1>4. tick'.at # "approve" /\ tick'.at # "record write"
        /\ (tick'.at \in Looping => tick'.task \in Tasks)
    BY <1>1 DEF Looping, Recording
  <1> QED BY <1>1, <1>2, <1>3, <1>4, TickGoesOn

LEMMA RecordReadShown == ASSUME None \notin Jobs, Shapes, ShownInv, RecordRead PROVE ShownInv'
  <1>0. Tasked /\ Values /\ Statuses
    BY DEF ShownInv
  <1>1. UNCHANGED <<files, jobs>> /\ tick.at = "record read"
    BY DEF RecordRead, world
  <1>2. /\ tick'.at = "record write" /\ tick'.task = tick.task /\ tick'.todo = tick.todo
        /\ tick'.values = tick.values /\ tick'.then = tick.then
        /\ tick'.held = Recorded(runtime, tick.task, tick.values)
    BY DEF RecordRead, Shapes, IsTick, IsRecord
  <1>3. tick.task \in Tasks /\ tick.at \in Recording /\ tick.at \in Looping
    BY <1>0, <1>1 DEF Tasked, Looping, Recording
  <1>4. IsStatus(runtime) /\ Refers(runtime) /\ \A t \in Tasks : Final(runtime[t]) \/ Open(t)
    BY <1>0 DEF Statuses, Disk, TickHolds, JobsHold, JobHolds
  <1>5. PICK read, task, v : read = runtime /\ task = tick.task /\ v = tick.values
    OBVIOUS
  <1>6. PICK held : held = Recorded(read, task, v)
    OBVIOUS
  <1>7. /\ IsStatus(held)
        /\ \A u \in Tasks \ {task} : held[u] = runtime[u]
        /\ held[task].job = IF "job" \in DOMAIN v THEN v.job ELSE runtime[task].job
        /\ held[task].status = IF "status" \in DOMAIN v THEN v.status ELSE runtime[task].status
    BY <1>3, <1>4, <1>5, <1>6, RecordsStatus
  <1>8. /\ tick.then \in {"loop", "preview"}
        /\ tick.then = "preview" => "job" \notin DOMAIN v
        /\ tick.then = "loop" /\ "status" \in DOMAIN v => v.status = "failed" \/ "job" \in DOMAIN v
        /\ "job" \in DOMAIN v => "status" \in DOMAIN v /\ v.job # None /\ Begun(v.job)
    BY <1>0, <1>3, <1>5 DEF Values
  <1>9. Refers(held)
    <2> SUFFICES ASSUME NEW u \in Tasks, held[u].job # None PROVE Begun(held[u].job)
      BY DEF Refers
    <2>1. CASE u = task /\ "job" \in DOMAIN v
      BY <1>7, <1>8, <2>1
    <2>2. CASE ~(u = task /\ "job" \in DOMAIN v)
      <3>1. held[u].job = runtime[u].job
        BY <1>7, <2>2
      <3> QED BY <1>4, <3>1 DEF Refers
    <2> QED BY <2>1, <2>2
  <1>10. \A t \in Tasks : Final(held[t]) \/ (t = task /\ tick.then = "preview")
    <2> SUFFICES ASSUME NEW t \in Tasks, ~(t = task /\ tick.then = "preview")
                 PROVE  Final(held[t])
      OBVIOUS
    <2>1. CASE t # task
      <3>1. ~Open(t)
        BY <1>5, <2>1 DEF Open
      <3> QED BY <1>4, <1>7, <2>1, <3>1
    <2>2. CASE t = task /\ "status" \in DOMAIN v
      <3>1. held[t].status = "failed" \/ held[t].job # None
        BY <1>7, <1>8, <2>2
      <3> QED BY <3>1 DEF Final
    <2>3. CASE t = task /\ "status" \notin DOMAIN v
      <3>1. ~Open(t)
        BY <1>1, <1>5, <2>3 DEF Open
      <3>2. held[t].job = runtime[t].job /\ held[t].status = runtime[t].status
        BY <1>7, <1>8, <2>3
      <3> QED BY <1>4, <3>1, <3>2 DEF Final
    <2> QED BY <2>1, <2>2, <2>3
  <1>11. Values'
    <2>1. jobs' = jobs
      BY <1>1
    <2> QED BY <1>2, <1>3, <1>5, <1>8, <2>1 DEF Values, Begun, Recording
  <1>12. \A t \in Tasks : Open(t) => Open(t)'
    BY <1>1, <1>2 DEF Open, Recording
  <1>13. tick'.held = held /\ tick'.todo \subseteq Tasks /\ tick'.task = task
    BY <1>0, <1>2, <1>5, <1>6 DEF Tasked
  <1> QED BY <1>1, <1>2, <1>3, <1>5, <1>7, <1>9, <1>10, <1>11, <1>12, <1>13, TickGoesOn

\* A refusal is written as it is.
LEMMA RefusalShown ==
    ASSUME Shapes, ShownInv, tick' = Refused, tick.at \in {"preview", "approve"},
           UNCHANGED <<files, jobs>>
    PROVE  ShownInv'
  <1>1. PICK v : v = [status |-> "failed"]
    OBVIOUS
  <1>2. "status" \in DOMAIN v /\ v.status = "failed" /\ "job" \notin DOMAIN v
    BY <1>1
  <1>3. /\ tick'.at = "record read" /\ tick'.then = "loop" /\ tick'.values = v
        /\ tick'.task = tick.task /\ tick'.todo = tick.todo
    BY <1>1, RecordIs DEF Refused, Shapes
  <1>4. Values'
    BY <1>2, <1>3 DEF Values
  <1>5. tick.task \in Tasks /\ tick.todo \subseteq Tasks
    BY DEF ShownInv, Tasked, Looping
  <1>6. \A t \in Tasks : Open(t) => Open(t)'
    BY <1>2, <1>3 DEF Open, Recording
  <1> QED BY <1>3, <1>4, <1>5, <1>6, TickGoesOn

LEMMA RenewalShown == ASSUME Shapes, ShownInv, StartRenewal \/ Renewed PROVE ShownInv'
  <1>1. UNCHANGED <<files, jobs>> /\ tick.at \in {"certificates", "renewing"}
    BY DEF StartRenewal, Renewed, world
  <1>2. tick'.at \in {"idle", "renewing"} /\ tick'.todo \subseteq Tasks
    BY IdleIs DEF StartRenewal, Renewed, Shapes, IsTick, IsRecord, ShownInv, Tasked
  <1>3. tick'.at \notin Looping /\ tick'.at \notin Recording /\ tick'.at # "approve"
        /\ tick'.at # "record write"
    BY <1>2 DEF Looping, Recording
  <1>4. Values'
    BY <1>3 DEF Values
  <1>5. \A t : ~Open(t)
    BY <1>1 DEF Open, Recording
  <1> QED BY <1>1, <1>2, <1>3, <1>4, <1>5, TickGoesOn

\* What jobs and the tick are, while one job goes on.
LEMMA JobTasked ==
    ASSUME Shapes, Tasked, NEW j \in Jobs, NEW r, jobs' = [jobs EXCEPT ![j] = r],
           r.before \subseteq Tasks, r.task \in Tasks, registry' \subseteq Tasks,
           tick'.todo \subseteq Tasks, tick'.at \in Looping => tick'.task \in Tasks,
           tick'.at = "approve" => tick'.job \in Jobs
    PROVE  Tasked'
  <1>1. jobs'[j] = r /\ \A i \in Jobs \ {j} : jobs'[i] = jobs[i]
    BY DEF Shapes
  <1>2. \A i \in Jobs : jobs'[i].before \subseteq Tasks
                        /\ (jobs'[i].at # "free" => jobs'[i].task \in Tasks)
    BY <1>1 DEF Tasked
  <1> QED BY <1>2 DEF Tasked

LEMMA JobOutcomes ==
    ASSUME Shapes, Outcomes, NEW j \in Jobs, NEW r, jobs' = [jobs EXCEPT ![j] = r],
           r.at \in {"record read", "record write", "finishing", "done"} =>
               r.status \in {"succeeded", "failed"}
    PROVE  Outcomes'
  <1>1. jobs'[j] = r /\ \A i \in Jobs \ {j} : jobs'[i] = jobs[i]
    BY DEF Shapes
  <1>2. \A i \in Jobs : jobs'[i].at \in {"record read", "record write", "finishing", "done"}
                           => jobs'[i].status \in {"succeeded", "failed"}
    BY <1>1 DEF Outcomes, Ended
  <1> QED BY <1>2 DEF Outcomes, Ended

LEMMA JobsHoldOn ==
    ASSUME Shapes, JobsHold, NEW j \in Jobs, NEW r, jobs' = [jobs EXCEPT ![j] = r],
           \A i : Begun(i) => Begun(i)', JobHolds(r)
    PROVE  JobsHold'
  <1>1. jobs'[j] = r /\ \A i \in Jobs \ {j} : jobs'[i] = jobs[i]
    BY DEF Shapes
  <1>2. \A i \in Jobs : JobHolds(jobs'[i])
    BY <1>1 DEF JobsHold
  <1>3. \A s : JobHolds(s) => JobHolds(s)'
    BY DEF JobHolds, Refers
  <1>4. ASSUME NEW i \in Jobs PROVE JobHolds(jobs[i])'
    <2>1. PICK s : s = jobs'[i]
      OBVIOUS
    <2>2. JobHolds(s)
      BY <1>2, <2>1
    <2>3. JobHolds(s)'
      BY <1>3, <2>2
    <2> QED BY <2>1, <2>3 DEF JobHolds
  <1> QED BY <1>4 DEF JobsHold

\* What the tick holds stays while it stays, and so does what it is to write.
LEMMA TickHoldsOn ==
    ASSUME TickHolds, \A i : Begun(i) => Begun(i)', tick' = tick
    PROVE  TickHolds'
  <1>1. \A s : Refers(s) => Refers(s)'
    BY DEF Refers
  <1>2. PICK s : s = tick.held
    OBVIOUS
  <1>3. tick.at = "record write" => Refers(s)'
    BY <1>1, <1>2 DEF TickHolds
  <1> QED BY <1>2, <1>3 DEF TickHolds, Refers

LEMMA ValuesOn ==
    ASSUME Values, \A i : Begun(i) => Begun(i)', tick' = tick
    PROVE  Values'
  <1>1. PICK n : n = tick.values.job
    OBVIOUS
  <1>2. Begun(n) => Begun(n)'
    OBVIOUS
  <1> QED BY <1>1, <1>2 DEF Values, Begun

\* The file stays, or a file all of whose entries are final is written.
LEMMA DiskStays ==
    ASSUME Disk, \A i : Begun(i) => Begun(i)', runtime' = runtime,
           \A t \in Tasks : Open(t) => Open(t)'
    PROVE  Disk'
  <1>1. Refers(runtime)'
    <2>1. PICK s : s = runtime
      OBVIOUS
    <2>2. Refers(s)'
      BY <2>1 DEF Disk, Refers
    <2> QED BY <2>1, <2>2 DEF Refers
  <1>2. \A t \in Tasks : Final(runtime[t]) \/ Open(t)'
    BY DEF Disk
  <1> QED BY <1>1, <1>2 DEF Disk

LEMMA DiskWritten ==
    ASSUME NEW s, IsStatus(s), Refers(s), \A i : Begun(i) => Begun(i)',
           \A t \in Tasks : Final(s[t]), runtime' = s
    PROVE  Disk'
  <1>1. Refers(s)'
    BY DEF Refers
  <1> QED BY <1>1 DEF Disk, Refers

\* A job goes on, and the tick stays.
LEMMA JobShown ==
    ASSUME Shapes, ShownInv, NEW j \in Jobs, NEW r, jobs' = [jobs EXCEPT ![j] = r],
           tick' = tick, r.before \subseteq Tasks, r.task \in Tasks,
           registry' \subseteq Tasks, Disk', JobHolds(r),
           jobs[j].at \in (Waiting \ {"approving"}) \cup {"done"} =>
               r.at \in (Waiting \ {"approving"}) \cup {"done"},
           r.at \in {"record read", "record write", "finishing", "done"} =>
               r.status \in {"succeeded", "failed"}
    PROVE  ShownInv'
  <1>0. Tasked /\ Values /\ TickHolds /\ JobsHold /\ Outcomes
    BY DEF ShownInv, Statuses
  <1>1. \A i : Begun(i) => Begun(i)'
    BY BegunStays
  <1>2. Tasked'
    <2>1. /\ tick'.todo \subseteq Tasks /\ (tick'.at \in Looping => tick'.task \in Tasks)
          /\ (tick'.at = "approve" => tick'.job \in Jobs)
      BY <1>0 DEF Tasked
    <2> QED BY <1>0, <2>1, JobTasked
  <1>3. Values'
    BY <1>0, <1>1, ValuesOn
  <1>4. TickHolds'
    BY <1>0, <1>1, TickHoldsOn
  <1>5. JobsHold'
    BY <1>0, <1>1, JobsHoldOn
  <1>6. Outcomes'
    BY <1>0, JobOutcomes
  <1> QED BY <1>2, <1>3, <1>4, <1>5, <1>6, Zenon DEF ShownInv, Statuses

\* So it does where the file stays too.
LEMMA JobAloneShown ==
    ASSUME Shapes, ShownInv, NEW j \in Jobs, NEW r, jobs' = [jobs EXCEPT ![j] = r],
           tick' = tick, runtime' = runtime, r.before \subseteq Tasks, r.task \in Tasks,
           registry' \subseteq Tasks, JobHolds(r),
           jobs[j].at \in (Waiting \ {"approving"}) \cup {"done"} =>
               r.at \in (Waiting \ {"approving"}) \cup {"done"},
           r.at \in {"record read", "record write", "finishing", "done"} =>
               r.status \in {"succeeded", "failed"}
    PROVE  ShownInv'
  <1>1. \A i : Begun(i) => Begun(i)'
    BY BegunStays
  <1>2. Disk
    BY DEF ShownInv, Statuses
  <1>3. \A t : Open(t) => Open(t)'
    BY DEF Open
  <1>4. Disk'
    BY <1>1, <1>2, <1>3, DiskStays
  <1> QED BY <1>4, JobShown

\* A job of the record it was.
LEMMA JobIs ==
    ASSUME Shapes, ShownInv, NEW j \in Jobs
    PROVE  /\ IsJob(jobs[j]) /\ jobs[j].before \subseteq Tasks
           /\ jobs[j].at # "free" => jobs[j].task \in Tasks
           /\ jobs[j].at \in {"record read", "record write", "finishing", "done"} =>
                 jobs[j].status \in {"succeeded", "failed"}
           /\ registry \subseteq Tasks
  BY DEF Shapes, ShownInv, Tasked, Outcomes, Ended

LEMMA ExecuteShown == ASSUME Shapes, ShownInv, NEW j \in Jobs, Execute(j) PROVE ShownInv'
  <1>1. PICK r : /\ jobs' = [jobs EXCEPT ![j] = r]
                 /\ r = [jobs[j] EXCEPT !.at = "applying"] \/ r = Settled(j, "failed")
    BY DEF Execute, Goto
  <1>2. /\ jobs[j].at = "queued" /\ tick' = tick /\ runtime' = runtime /\ registry' = registry
    BY DEF Execute, files
  <1>3. /\ r.before = jobs[j].before /\ r.task = jobs[j].task
        /\ r.at \in {"applying", "finishing", "record read"}
        /\ r.at # "applying" => r.status = "failed"
    BY <1>1, <1>2, JobIs DEF Settled, IsJob, IsRecord
  <1>4. JobHolds(r)
    BY <1>3 DEF JobHolds
  <1>5. r.before \subseteq Tasks /\ r.task \in Tasks /\ registry' \subseteq Tasks
    BY <1>2, <1>3, JobIs
  <1>6. r.at \in (Waiting \ {"approving"}) \cup {"done"}
    BY <1>3 DEF Waiting
  <1>7. r.at \in {"record read", "record write", "finishing", "done"} =>
               r.status \in {"succeeded", "failed"}
    BY <1>3
  <1> QED BY <1>1, <1>2, <1>4, <1>5, <1>6, <1>7, JobAloneShown

LEMMA RunShown == ASSUME Shapes, ShownInv, NEW j \in Jobs, Run(j) PROVE ShownInv'
  <1>1. PICK s \in {"succeeded", "failed"} :
            jobs' = [jobs EXCEPT ![j] = [Settled(j, s) EXCEPT !.ran = TRUE]]
    BY DEF Run
  <1>2. PICK r : r = [Settled(j, s) EXCEPT !.ran = TRUE]
    OBVIOUS
  <1>3. /\ jobs[j].at = "applying" /\ tick' = tick /\ runtime' = runtime /\ registry' = registry
    BY DEF Run, files
  <1>4. /\ r.before = jobs[j].before /\ r.task = jobs[j].task
        /\ r.at \in {"finishing", "record read"} /\ r.status = s
    BY <1>2, <1>3, JobIs DEF Settled, IsJob, IsRecord
  <1>5. JobHolds(r)
    BY <1>4 DEF JobHolds
  <1>6. r.before \subseteq Tasks /\ r.task \in Tasks /\ registry' \subseteq Tasks
    BY <1>3, <1>4, JobIs
  <1>7. r.at \in (Waiting \ {"approving"}) \cup {"done"}
    BY <1>4 DEF Waiting
  <1>8. r.status \in {"succeeded", "failed"}
    BY <1>4
  <1>9. jobs' = [jobs EXCEPT ![j] = r]
    BY <1>1, <1>2
  <1> QED BY <1>3, <1>5, <1>6, <1>7, <1>8, <1>9, JobAloneShown

LEMMA WriteRegistryShown ==
    ASSUME Shapes, ShownInv, NEW j \in Jobs, WriteRegistry(j) PROVE ShownInv'
  <1>1. PICK r : r = [jobs[j] EXCEPT !.at = "clear read"]
    OBVIOUS
  <1>2. /\ jobs[j].at = "applying" /\ tick' = tick /\ runtime' = runtime
        /\ jobs' = [jobs EXCEPT ![j] = r]
    BY <1>1 DEF WriteRegistry, Goto
  <1>3. r.before = jobs[j].before /\ r.task = jobs[j].task /\ r.at = "clear read"
    BY <1>1, JobIs DEF IsJob, IsRecord
  <1>4. JobHolds(r)
    BY <1>3 DEF JobHolds
  <1>5. r.before \subseteq Tasks /\ r.task \in Tasks
    BY <1>2, <1>3, JobIs
  <1>6. registry' \subseteq Tasks
    BY <1>2, JobIs DEF WriteRegistry
  <1>7. r.at \in (Waiting \ {"approving"}) \cup {"done"}
    BY <1>3 DEF Waiting
  <1> QED BY <1>2, <1>3, <1>4, <1>5, <1>6, <1>7, JobAloneShown

LEMMA FinishShown == ASSUME Shapes, ShownInv, NEW j \in Jobs, Finish(j) PROVE ShownInv'
  <1>1. PICK r : r = [jobs[j] EXCEPT !.at = "done"]
    OBVIOUS
  <1>2. /\ jobs[j].at = "finishing" /\ tick' = tick /\ runtime' = runtime
        /\ registry' = registry /\ jobs' = [jobs EXCEPT ![j] = r]
    BY <1>1 DEF Finish, Goto, files
  <1>3. /\ r.before = jobs[j].before /\ r.task = jobs[j].task /\ r.at = "done"
        /\ r.status = jobs[j].status
    BY <1>1, JobIs DEF IsJob, IsRecord
  <1>4. JobHolds(r)
    BY <1>3 DEF JobHolds
  <1>5. r.before \subseteq Tasks /\ r.task \in Tasks /\ registry' \subseteq Tasks
        /\ r.status \in {"succeeded", "failed"}
    BY <1>2, <1>3, JobIs
  <1> QED BY <1>2, <1>3, <1>4, <1>5, JobAloneShown

\* What is held to be written once an entry is cleared, or the outcome of its run is set.
LEMMA ClearReadShown ==
    ASSUME Shapes, ShownInv, Together, NEW j \in Jobs, ClearRead(j) PROVE ShownInv'
  <1>0. jobs[j].at = "clear read" /\ tick' = tick /\ runtime' = runtime /\ registry' = registry
    BY DEF ClearRead, files
  <1>1. PICK h : h = [runtime EXCEPT ![jobs[j].task] = Unrun]
    OBVIOUS
  <1>2. PICK r : r = [jobs[j] EXCEPT !.at = "clear write", !.held = h]
    OBVIOUS
  <1>3. jobs' = [jobs EXCEPT ![j] = r]
    BY <1>1, <1>2 DEF ClearRead, Shapes
  <1>4. r.before = jobs[j].before /\ r.task = jobs[j].task /\ r.at = "clear write" /\ r.held = h
    BY <1>2, JobIs DEF IsJob, IsRecord
  <1>5. r.before \subseteq Tasks /\ r.task \in Tasks /\ registry' \subseteq Tasks
    BY <1>0, <1>4, JobIs
  <1>6. IsStatus(runtime) /\ Refers(runtime) /\ \A t \in Tasks : Final(runtime[t]) \/ Open(t)
    BY DEF ShownInv, Statuses, Disk
  <1>7. IsStatus(h) /\ h[r.task] = Unrun /\ \A u \in Tasks \ {r.task} : h[u] = runtime[u]
    <2>1. PICK s, t : s = runtime /\ t = r.task
      OBVIOUS
    <2>2. h = [s EXCEPT ![t] = Unrun] /\ t \in Tasks /\ IsStatus(s)
      BY <1>1, <1>4, <1>5, <1>6, <2>1
    <2>3. h[t] = Unrun /\ \A u \in Tasks \ {t} : h[u] = s[u]
      BY <2>2 DEF IsStatus
    <2>4. "job" \in DOMAIN Unrun /\ "status" \in DOMAIN Unrun
      BY DEF Unrun
    <2>5. IsStatus(h)
      BY <2>2, <2>3, <2>4 DEF IsStatus
    <2> QED BY <2>1, <2>3, <2>5
  <1>8. Refers(h)
    BY <1>6, <1>7 DEF Refers, Unrun
  <1>9. ASSUME NEW t \in Tasks PROVE Final(h[t])
    <2>1. CASE t = r.task
      BY <1>7, <2>1 DEF Final, Unrun
    <2>2. CASE t # r.task
      <3>1. ~Open(t)
        BY <1>0, <1>4, <2>2 DEF Together, Active, Waiting
      <3> QED BY <1>6, <1>7, <2>2, <3>1
    <2> QED BY <2>1, <2>2
  <1>10. JobHolds(r)
    BY <1>4, <1>7, <1>8, <1>9 DEF JobHolds
  <1>11. r.at \in (Waiting \ {"approving"}) \cup {"done"}
    BY <1>4 DEF Waiting
  <1> QED BY <1>0, <1>3, <1>4, <1>5, <1>10, <1>11, JobAloneShown

LEMMA OutcomeReadShown ==
    ASSUME None \notin Jobs, Shapes, ShownInv, Together, NEW j \in Jobs, OutcomeRead(j)
    PROVE  ShownInv'
  <1>0. jobs[j].at = "record read" /\ tick' = tick /\ runtime' = runtime /\ registry' = registry
    BY DEF OutcomeRead, files
  <1>1. PICK v, task : v = Outcome(j) /\ task = jobs[j].task
    OBVIOUS
  <1>2. PICK h : h = Recorded(runtime, task, v)
    OBVIOUS
  <1>3. PICK r : r = [jobs[j] EXCEPT !.at = "record write", !.held = h]
    OBVIOUS
  <1>4. jobs' = [jobs EXCEPT ![j] = r]
    BY <1>1, <1>2, <1>3 DEF OutcomeRead, Shapes
  <1>5. /\ r.before = jobs[j].before /\ r.task = task /\ r.at = "record write" /\ r.held = h
        /\ r.status = jobs[j].status
    BY <1>1, <1>3, JobIs DEF IsJob, IsRecord
  <1>6. r.before \subseteq Tasks /\ task \in Tasks /\ registry' \subseteq Tasks
        /\ r.status \in {"succeeded", "failed"}
    BY <1>0, <1>1, <1>5, JobIs
  <1>7. IsStatus(runtime) /\ Refers(runtime) /\ \A t \in Tasks : Final(runtime[t]) \/ Open(t)
    BY DEF ShownInv, Statuses, Disk
  <1>8. "job" \in DOMAIN v /\ v.job = j
    BY <1>1 DEF Outcome
  <1>9. IsStatus(h) /\ h[task].job = j /\ \A u \in Tasks \ {task} : h[u] = runtime[u]
    BY <1>2, <1>6, <1>7, <1>8, RecordsStatus
  <1>10. Begun(j)
    BY <1>0 DEF Begun, Waiting
  <1>11. Refers(h)
    BY <1>7, <1>9, <1>10 DEF Refers
  <1>12. ASSUME NEW t \in Tasks PROVE Final(h[t])
    <2>1. CASE t = task
      BY <1>9, <2>1 DEF Final
    <2>2. CASE t # task
      <3>1. ~Open(t)
        BY <1>0, <1>1, <2>2 DEF Together, Active, Waiting
      <3> QED BY <1>7, <1>9, <2>2, <3>1
    <2> QED BY <2>1, <2>2
  <1>13. JobHolds(r)
    BY <1>5, <1>9, <1>11, <1>12 DEF JobHolds
  <1>14. r.at \in (Waiting \ {"approving"}) \cup {"done"}
    BY <1>5 DEF Waiting
  <1> QED BY <1>0, <1>4, <1>5, <1>6, <1>13, <1>14, JobAloneShown

\* A job writes what it holds.
LEMMA JobWritesShown ==
    ASSUME Shapes, ShownInv, NEW j \in Jobs, ClearWrite(j) \/ OutcomeWrite(j)
    PROVE  ShownInv'
  <1>0. /\ jobs[j].at \in {"clear write", "record write"} /\ tick' = tick
        /\ runtime' = jobs[j].held /\ registry' = registry
    BY DEF ClearWrite, OutcomeWrite
  <1>1. PICK r : /\ jobs' = [jobs EXCEPT ![j] = r]
                 /\ r.before = jobs[j].before /\ r.task = jobs[j].task /\ r.at = "finishing"
                 /\ r.status \in {"succeeded", "failed"}
    <2>1. CASE ClearWrite(j)
      <3>1. PICK r : r = [jobs[j] EXCEPT !.held = Blank, !.at = "finishing",
                                         !.status = "succeeded"]
        OBVIOUS
      <3>2. jobs' = [jobs EXCEPT ![j] = r]
        BY <2>1, <3>1 DEF ClearWrite, Shapes
      <3>3. r.before = jobs[j].before /\ r.task = jobs[j].task /\ r.at = "finishing"
            /\ r.status = "succeeded"
        BY <3>1, JobIs DEF IsJob, IsRecord
      <3> QED BY <3>2, <3>3
    <2>2. CASE OutcomeWrite(j)
      <3>1. PICK r : r = [jobs[j] EXCEPT !.held = Blank, !.at = "finishing"]
        OBVIOUS
      <3>2. jobs' = [jobs EXCEPT ![j] = r] /\ jobs[j].at = "record write"
        BY <2>2, <3>1 DEF OutcomeWrite, Shapes
      <3>3. /\ r.before = jobs[j].before /\ r.task = jobs[j].task /\ r.at = "finishing"
            /\ r.status = jobs[j].status
        BY <3>1, JobIs DEF IsJob, IsRecord
      <3>4. r.status \in {"succeeded", "failed"}
        BY <3>2, <3>3, JobIs
      <3> QED BY <3>2, <3>3, <3>4
    <2> QED BY <2>1, <2>2
  <1>2. JobHolds(jobs[j])
    BY DEF ShownInv, Statuses, JobsHold
  <1>3. PICK h : h = jobs[j].held
    OBVIOUS
  <1>4. IsStatus(h) /\ Refers(h) /\ \A t \in Tasks : Final(h[t])
    BY <1>0, <1>2, <1>3 DEF JobHolds
  <1>5. r.at \in (Waiting \ {"approving"}) \cup {"done"}
    BY <1>1 DEF Waiting
  <1>6. \A i : Begun(i) => Begun(i)'
    BY <1>1, <1>5, BegunStays
  <1>7. Disk'
    BY <1>0, <1>3, <1>4, <1>6, DiskWritten
  <1>8. r.before \subseteq Tasks /\ r.task \in Tasks /\ registry' \subseteq Tasks
    BY <1>0, <1>1, JobIs
  <1>9. JobHolds(r)
    BY <1>1 DEF JobHolds
  <1> QED BY <1>0, <1>1, <1>5, <1>7, <1>8, <1>9, JobShown

-----------------------------------------------------------------------------
(* Previews and approvals *)

\* The tick goes on with a job, and keeps the task.
LEMMA TickJobShown ==
    ASSUME Shapes, ShownInv, NEW j \in Jobs, NEW r, jobs' = [jobs EXCEPT ![j] = r],
           UNCHANGED files, r.before \subseteq Tasks, r.task \in Tasks,
           r.at \in {"preview", "approving", "queued"},
           jobs[j].at \in {"free", "preview", "approving"},
           tick'.todo = tick.todo, tick'.task = tick.task, tick.task \in Tasks,
           tick'.at \in {"approve", "approving", "record read"},
           tick'.at = "approve" => tick'.job \in Jobs, Values',
           \A t \in Tasks : Open(t) => Open(t)'
    PROVE  ShownInv'
  <1>0. Tasked /\ Disk /\ JobsHold /\ Outcomes
    BY DEF ShownInv, Statuses
  <1>1. \A i : Begun(i) => Begun(i)'
    BY BegunStays DEF Waiting
  <1>2. registry' \subseteq Tasks /\ tick'.todo \subseteq Tasks /\ runtime' = runtime
    BY <1>0 DEF Tasked, files
  <1>3. Tasked'
    BY <1>0, <1>2, JobTasked
  <1>4. Outcomes'
    BY <1>0, JobOutcomes
  <1>5. JobHolds(r)
    BY DEF JobHolds
  <1>6. JobsHold'
    BY <1>0, <1>1, <1>5, JobsHoldOn
  <1>7. TickHolds'
    BY DEF TickHolds
  <1>8. Disk'
    BY <1>0, <1>1, <1>2, DiskStays
  <1> QED BY <1>3, <1>4, <1>6, <1>7, <1>8, Zenon DEF ShownInv, Statuses

LEMMA PreviewShown == ASSUME Shapes, ShownInv, PreviewRun PROVE ShownInv'
  <1>0. UNCHANGED files /\ tick.at = "preview" /\ tick.task \in Tasks
    BY DEF PreviewRun, ShownInv, Tasked, Looping
  <1>1. CASE tick' = Refused /\ UNCHANGED jobs
    BY <1>0, <1>1, RefusalShown
  <1>2. ASSUME NEW j \in Jobs, jobs[j].at = "free", Previewed(j, "run", tick.task, tick.due),
               tick' = [tick EXCEPT !.at = "approve", !.job = j]
        PROVE  ShownInv'
    <2>1. PICK r : r = [NoJob EXCEPT !.at = "preview", !.kind = "run", !.task = tick.task,
                                     !.due = tick.due, !.before = registry]
      OBVIOUS
    <2>2. r.before = registry /\ r.task = tick.task /\ r.at = "preview"
      BY <2>1 DEF NoJob
    <2>3. jobs' = [jobs EXCEPT ![j] = r]
      BY <1>2, <2>1 DEF Previewed
    <2>4. tick'.at = "approve" /\ tick'.job = j /\ tick'.todo = tick.todo
          /\ tick'.task = tick.task
      BY <1>2 DEF Shapes, IsTick, IsRecord
    <2>5. Values'
      BY <2>4 DEF Values, Recording
    <2>6. \A t \in Tasks : Open(t) => Open(t)'
      BY <2>4 DEF Open
    <2>7. r.before \subseteq Tasks
      BY <2>2 DEF ShownInv, Tasked
    <2> QED BY <1>0, <1>2, <2>2, <2>3, <2>4, <2>5, <2>6, <2>7, TickJobShown
  <1> QED BY <1>1, <1>2 DEF PreviewRun

\* The record of a job that is approved.
LEMMA ApprovedIs ==
    ASSUME Shapes, NEW j \in Jobs, NEW due, Approve(j, due)
    PROVE  /\ jobs[j].at = "preview"
           /\ \E r : /\ jobs' = [jobs EXCEPT ![j] = r] /\ r.at = "approving"
                     /\ r.before = jobs[j].before /\ r.task = jobs[j].task
  <1>1. PICK r : r = [jobs[j] EXCEPT !.at = "approving", !.due = due]
    OBVIOUS
  <1>2. jobs' = [jobs EXCEPT ![j] = r]
    BY <1>1 DEF Approve, Shapes
  <1>3. r.at = "approving" /\ r.before = jobs[j].before /\ r.task = jobs[j].task
    BY <1>1 DEF Shapes, IsJob, IsRecord
  <1> QED BY <1>2, <1>3 DEF Approve

LEMMA ApproveShown == ASSUME Shapes, ShownInv, ApproveRun PROVE ShownInv'
  <1>0. UNCHANGED files /\ tick.at = "approve" /\ tick.task \in Tasks /\ tick.job \in Jobs
    BY DEF ApproveRun, ShownInv, Tasked, Looping
  <1>1. CASE tick' = Refused /\ UNCHANGED jobs
    BY <1>0, <1>1, RefusalShown
  <1>2. CASE Approve(tick.job, tick.due) /\ tick' = [tick EXCEPT !.at = "approving"]
    <2>1. PICK j \in Jobs : j = tick.job
      BY <1>0
    <2>2. jobs[j].at = "preview"
      BY <1>2, <2>1, ApprovedIs
    <2>3. PICK r : /\ jobs' = [jobs EXCEPT ![j] = r] /\ r.at = "approving"
                   /\ r.before = jobs[j].before /\ r.task = jobs[j].task
      BY <1>2, <2>1, ApprovedIs
    <2>4. tick'.at = "approving" /\ tick'.todo = tick.todo /\ tick'.task = tick.task
      BY <1>2 DEF Shapes, IsTick, IsRecord
    <2>5. Values'
      BY <2>4 DEF Values, Recording
    <2>6. \A t \in Tasks : Open(t) => Open(t)'
      BY <2>4 DEF Open
    <2>7. r.before \subseteq Tasks /\ r.task \in Tasks
      BY <2>2, <2>3, JobIs
    <2> QED BY <1>0, <2>2, <2>3, <2>4, <2>5, <2>6, <2>7, TickJobShown
  <1> QED BY <1>1, <1>2 DEF ApproveRun

LEMMA ApproveEndsShown ==
    ASSUME None \notin Jobs, Shapes, ShownInv, NEW j \in Jobs, ApproveEnds(j) PROVE ShownInv'
  <1>0. jobs[j].at = "approving" /\ UNCHANGED files /\ registry' = registry /\ runtime' = runtime
    BY DEF ApproveEnds, files
  <1>1. PICK r : /\ jobs' = [jobs EXCEPT ![j] = r]
                 /\ r.before = jobs[j].before /\ r.task = jobs[j].task
                 /\ \/ r.at = "queued" /\ Rechecked(j)
                    \/ r.at = "preview" /\ ~Rechecked(j)
    <2>1. CASE Rechecked(j)
      <3>1. PICK r : r = [jobs[j] EXCEPT !.at = "queued"]
        OBVIOUS
      <3>2. r.before = jobs[j].before /\ r.task = jobs[j].task /\ r.at = "queued"
        BY <3>1, JobIs DEF IsJob, IsRecord
      <3> QED BY <2>1, <3>1, <3>2 DEF ApproveEnds
    <2>2. CASE ~Rechecked(j)
      <3>1. PICK r : r = [jobs[j] EXCEPT !.at = "preview"]
        OBVIOUS
      <3>2. r.before = jobs[j].before /\ r.task = jobs[j].task /\ r.at = "preview"
        BY <3>1, JobIs DEF IsJob, IsRecord
      <3> QED BY <2>2, <3>1, <3>2 DEF ApproveEnds
    <2> QED BY <2>1, <2>2
  <1>2. r.before \subseteq Tasks /\ r.task \in Tasks /\ registry' \subseteq Tasks
    BY <1>0, <1>1, JobIs
  <1>3. CASE ~(tick.at = "approving" /\ tick.job = j)
    <2>1. tick' = tick
      BY <1>3 DEF ApproveEnds
    <2>2. JobHolds(r)
      BY <1>1 DEF JobHolds
    <2>3. jobs[j].at \notin (Waiting \ {"approving"}) \cup {"done"}
      BY <1>0 DEF Waiting
    <2>4. r.at \notin {"record read", "record write", "finishing", "done"}
      BY <1>1
    <2> QED BY <1>0, <1>1, <1>2, <2>1, <2>2, <2>3, <2>4, JobAloneShown
  <1>4. CASE tick.at = "approving" /\ tick.job = j
    <2>1. PICK v : /\ tick' = Record(tick.task, v, "loop")
                   /\ \/ r.at = "queued" /\ v = [job |-> j, status |-> "queued"]
                      \/ v = [status |-> "failed"]
      <3>1. CASE Rechecked(j)
        <4>1. r.at = "queued" /\ tick' = Record(tick.task, [job |-> j, status |-> "queued"], "loop")
          BY <1>1, <1>4, <3>1 DEF ApproveEnds
        <4> QED BY <4>1
      <3>2. CASE ~Rechecked(j)
        <4>1. tick' = Record(tick.task, [status |-> "failed"], "loop")
          BY <1>4, <3>2 DEF ApproveEnds, Refused
        <4> QED BY <4>1
      <3> QED BY <3>1, <3>2
    <2>2. "status" \in DOMAIN v /\ (v.status = "failed" \/ "job" \in DOMAIN v)
      BY <2>1
    <2>3. "job" \in DOMAIN v => v.job = j /\ r.at = "queued"
      BY <2>1
    <2>4. /\ tick'.at = "record read" /\ tick'.then = "loop" /\ tick'.values = v
          /\ tick'.task = tick.task /\ tick'.todo = tick.todo
      BY <2>1, RecordIs DEF Shapes
    <2>5. r.at = "queued" => Begun(j)'
      BY <1>1 DEF Begun, Waiting, Shapes
    <2>6. Values'
      <3>1. "job" \in DOMAIN v => v.job # None /\ Begun(v.job)'
        BY <2>3, <2>5 DEF Begun
      <3>2. PICK n : n = v.job
        OBVIOUS
      <3>3. "job" \in DOMAIN v => n # None /\ Begun(n)'
        BY <2>3, <2>5, <3>2
      <3> QED BY <2>2, <2>4, <3>2, <3>3 DEF Values, Begun
    <2>7. \A t \in Tasks : Open(t) => Open(t)'
      BY <2>2, <2>4 DEF Open, Recording
    <2>8. tick.task \in Tasks
      BY <1>4 DEF ShownInv, Tasked, Looping
    <2> QED BY <1>0, <1>1, <1>2, <2>4, <2>6, <2>7, <2>8, TickJobShown
  <1> QED BY <1>3, <1>4

LEMMA ClientShown == ASSUME Shapes, ShownInv, Client PROVE ShownInv'
  <1>1. PICK j \in Jobs : /\ jobs[j].at \in {"free", "preview"}
                          /\ \E r : /\ jobs' = [jobs EXCEPT ![j] = r]
                                    /\ r.at \in {"preview", "approving"}
                                    /\ r.before \subseteq Tasks /\ r.task \in Tasks
    <2>1. ASSUME NEW j \in Jobs, NEW kind, NEW t \in Tasks, ClientPreview(j, kind, t)
          PROVE  /\ jobs[j].at = "free"
                 /\ \E r : /\ jobs' = [jobs EXCEPT ![j] = r] /\ r.at = "preview"
                           /\ r.before \subseteq Tasks /\ r.task \in Tasks
      <3>1. PICK r : r = [NoJob EXCEPT !.at = "preview", !.kind = kind, !.task = t,
                                       !.due = None, !.before = registry]
        OBVIOUS
      <3>2. r.at = "preview" /\ r.before = registry /\ r.task = t
        BY <3>1 DEF NoJob
      <3>3. registry \subseteq Tasks
        BY DEF ShownInv, Tasked
      <3>4. jobs' = [jobs EXCEPT ![j] = r] /\ jobs[j].at = "free"
        BY <2>1, <3>1 DEF ClientPreview, Previewed
      <3> QED BY <3>2, <3>3, <3>4
    <2>2. ASSUME NEW j \in Jobs, ClientApprove(j)
          PROVE  /\ jobs[j].at = "preview"
                 /\ \E r : /\ jobs' = [jobs EXCEPT ![j] = r] /\ r.at = "approving"
                           /\ r.before \subseteq Tasks /\ r.task \in Tasks
      <3>1. Approve(j, None)
        BY <2>2 DEF ClientApprove
      <3>2. jobs[j].at = "preview"
        BY <3>1, ApprovedIs
      <3>3. PICK r : /\ jobs' = [jobs EXCEPT ![j] = r] /\ r.at = "approving"
                     /\ r.before = jobs[j].before /\ r.task = jobs[j].task
        BY <3>1, ApprovedIs
      <3>4. r.before \subseteq Tasks /\ r.task \in Tasks
        BY <3>2, <3>3, JobIs
      <3> QED BY <3>2, <3>3, <3>4
    <2>3. CASE \E j \in Jobs, kind \in Clients, t \in Tasks : ClientPreview(j, kind, t)
      BY <2>1, <2>3
    <2>4. CASE \E j \in Jobs : ClientApprove(j)
      BY <2>2, <2>4
    <2> QED BY <2>3, <2>4 DEF Client
  <1>2. PICK r : /\ jobs' = [jobs EXCEPT ![j] = r] /\ r.at \in {"preview", "approving"}
                 /\ r.before \subseteq Tasks /\ r.task \in Tasks
    BY <1>1
  <1>3. tick' = tick /\ runtime' = runtime /\ registry' = registry
    BY DEF Client, ClientPreview, ClientApprove, files
  <1>4. JobHolds(r)
    BY <1>2 DEF JobHolds
  <1>5. jobs[j].at \notin (Waiting \ {"approving"}) \cup {"done"}
    BY <1>1 DEF Waiting
  <1>6. registry' \subseteq Tasks
    BY <1>3 DEF ShownInv, Tasked
  <1>7. r.at \notin {"record read", "record write", "finishing", "done"}
    BY <1>2
  <1> QED BY <1>2, <1>3, <1>4, <1>5, <1>6, <1>7, JobAloneShown

LEMMA RecordWriteShown == ASSUME Shapes, ShownInv, RecordWrite PROVE ShownInv'
  <1>0. Tasked /\ Values /\ TickHolds /\ JobsHold /\ Outcomes
    BY DEF ShownInv, Statuses
  <1>1. /\ registry' = registry /\ jobs' = jobs /\ runtime' = tick.held
        /\ tick.at = "record write" /\ tick.then \in {"loop", "preview"} /\ tick.task \in Tasks
    BY <1>0 DEF RecordWrite, Tasked, Values, Looping, Recording
  <1>2. PICK h : h = tick.held
    OBVIOUS
  <1>3. IsStatus(h) /\ Refers(h)
        /\ \A t \in Tasks : Final(h[t]) \/ (t = tick.task /\ tick.then = "preview")
    BY <1>0, <1>1, <1>2 DEF TickHolds
  <1>4. \A i : Begun(i) <=> Begun(i)'
    BY <1>1 DEF Begun
  <1>5. JobsHold'
    <2>1. \A s : JobHolds(s) => JobHolds(s)'
      BY <1>4 DEF JobHolds, Refers
    <2>2. ASSUME NEW i \in Jobs PROVE JobHolds(jobs[i])'
      <3>1. PICK s : s = jobs[i]
        OBVIOUS
      <3>2. JobHolds(s)
        BY <1>0, <3>1 DEF JobsHold
      <3>3. JobHolds(s)'
        BY <2>1, <3>2
      <3> QED BY <1>1, <3>1, <3>3 DEF JobHolds
    <2> QED BY <2>2 DEF JobsHold
  <1>6. Outcomes'
    BY <1>0, <1>1 DEF Outcomes, Ended
  <1>7. /\ tick'.todo \subseteq Tasks
        /\ tick'.at \in {"idle", "certificates", "record read", "preview"}
        /\ tick'.at \in Looping => tick'.task \in Tasks
        /\ tick'.at = "record read" =>
              /\ tick'.then \in {"loop", "preview"} /\ "job" \notin DOMAIN tick'.values
              /\ tick'.then = "loop" => "status" \notin DOMAIN tick'.values
        /\ tick.then = "preview" => tick'.at = "preview" /\ tick'.task = tick.task
    <2>1. CASE tick.then = "loop"
      <3>1. Continue(tick.read, tick.todo)
        BY <2>1 DEF RecordWrite
      <3>2. IsTick(tick) /\ tick.todo \in SUBSET Tasks
        BY <1>0 DEF Shapes, Tasked
      <3>3. PICK read, todo : read = tick.read /\ todo = tick.todo
        OBVIOUS
      <3>4. Continue(read, todo) /\ todo \in SUBSET Tasks
        BY <3>1, <3>2, <3>3
      <3>5. /\ tick'.todo \subseteq Tasks
            /\ tick'.at \in {"idle", "certificates", "record read"}
            /\ tick'.at = "record read" =>
                  /\ tick'.task \in Tasks /\ tick'.then \in {"loop", "preview"}
                  /\ "job" \notin DOMAIN tick'.values
                  /\ tick'.then = "loop" => "status" \notin DOMAIN tick'.values
        BY <3>2, <3>4, LoopClaims
      <3> QED BY <2>1, <3>5 DEF Looping, Recording
    <2>2. CASE tick.then = "preview"
      <3>1. tick' = [tick EXCEPT !.at = tick.then, !.held = Blank]
        BY <2>2 DEF RecordWrite
      <3>2. tick'.at = "preview" /\ tick'.task = tick.task /\ tick'.todo = tick.todo
        BY <2>2, <3>1 DEF Shapes, IsTick, IsRecord
      <3> QED BY <1>0, <1>1, <3>2 DEF Tasked
    <2> QED BY <1>1, <2>1, <2>2
  <1>8. tick'.at # "approve" /\ tick'.at # "record write"
        /\ (tick'.at \in Recording => tick'.at = "record read")
    BY <1>7 DEF Recording
  <1>9. Tasked'
    BY <1>0, <1>1, <1>7, <1>8 DEF Tasked
  <1>10. Values'
    BY <1>7, <1>8 DEF Values
  <1>11. TickHolds'
    BY <1>8 DEF TickHolds
  <1>12. Disk'
    <2>1. Refers(h)'
      BY <1>3, <1>4 DEF Refers
    <2>2. \A t \in Tasks : Final(h[t]) \/ Open(t)'
      BY <1>3, <1>7 DEF Open
    <2> QED BY <1>1, <1>2, <1>3, <2>1, <2>2 DEF Disk, Refers
  <1> QED BY <1>5, <1>6, <1>9, <1>10, <1>11, <1>12, Zenon DEF ShownInv, Statuses

-----------------------------------------------------------------------------
(* A job under way is of the task the tick is at *)

\* Without administrators, because the tick approved it in this turn of its loop.
Same ==
    /\ \A j \in Jobs : Active(j) /\ tick.at \in Looping => jobs[j].task = tick.task
    /\ tick.at = "approve" => jobs[tick.job].task = tick.task

LEMMA SameIsTogether == ASSUME Same PROVE Together
  BY DEF Same, Together, Open, Looping, Recording

\* Where no job is under way, or the tick has left its loop, it need not be said again.
LEMMA SameIdle ==
    ASSUME tick'.at # "approve",
           tick'.at \notin Looping \/ \A j \in Jobs : ~Active(j)'
    PROVE  Same'
  BY DEF Same, Looping, Recording

LEMMA SameTick == ASSUME OnceInv, Same, Tick \/ TickStep PROVE Same'
  <1>0. Shapes /\ OneAtATime /\ tick.todo \in SUBSET Tasks
        /\ (tick.at = "approve" => tick.job \in Jobs)
        /\ (tick.at = "record write" => tick.then \in {"loop", "preview"})
    BY DEF OnceInv, Reading, Writing, Recording
  <1>1. Before => \A j \in Jobs : ~Active(j)
    BY <1>0 DEF OneAtATime
  <1>2. jobs' = jobs => \A j \in Jobs : Active(j)' <=> Active(j)
    BY DEF Active
  <1>3. CASE Tick \/ ReadRegistry \/ StartRenewal \/ Renewed
    <2>1. tick'.at \in {"registry", "runtime", "renewing", "idle"}
      <3>1. CASE Tick
        BY <3>1 DEF Tick, Idle
      <3>2. CASE ReadRegistry
        BY <1>0, <3>2 DEF ReadRegistry, Shapes, IsTick, IsRecord
      <3>3. CASE StartRenewal \/ Renewed
        BY <1>0, <3>3, IdleIs DEF StartRenewal, Renewed, Shapes, IsTick, IsRecord
      <3> QED BY <1>3, <3>1, <3>2, <3>3
    <2>2. tick'.at # "approve" /\ tick'.at \notin Looping
      BY <2>1 DEF Looping, Recording
    <2> QED BY <2>2, SameIdle
  <1>4. CASE ReadRuntime
    <2>1. IsTick(tick) /\ Continue(runtime, tick.todo) /\ jobs' = jobs /\ Before
      BY <1>0, <1>4 DEF ReadRuntime, Shapes, Before
    <2>2. tick'.at \in {"idle", "certificates", "record read"}
      BY <1>0, <2>1, LoopClaims
    <2> QED BY <1>1, <1>2, <2>1, <2>2, SameIdle
  <1>5. CASE RecordRead
    <2>1. /\ jobs' = jobs /\ tick.at = "record read" /\ tick'.at = "record write"
          /\ tick'.task = tick.task
      BY <1>0, <1>5 DEF RecordRead, Shapes, IsTick, IsRecord
    <2>2. tick.at \in Looping
      BY <2>1 DEF Looping, Recording
    <2> QED BY <1>2, <2>1, <2>2 DEF Same
  <1>6. CASE RecordWrite
    <2>1. jobs' = jobs /\ tick.at = "record write"
      BY <1>6 DEF RecordWrite
    <2>2. CASE tick.then = "loop"
      <3>1. Continue(tick.read, tick.todo) /\ IsTick(tick)
        BY <1>0, <1>6, <2>2 DEF RecordWrite, Shapes
      <3>2. PICK read : read = tick.read
        OBVIOUS
      <3>3. tick'.at \in {"idle", "certificates", "record read"}
        BY <1>0, <3>1, <3>2, LoopClaims
      <3>4. CASE busy
        <4>1. tick' = Idle \/ tick' = [Idle EXCEPT !.at = "certificates"]
          BY <3>1, <3>4 DEF Continue
        <4>2. tick'.at \notin Looping
          BY <4>1, IdleIs DEF Looping, Recording
        <4> QED BY <3>3, <4>2, SameIdle
      <3>5. CASE ~busy
        <4>1. \A j \in Jobs : ~Active(j)
          BY <1>0, <3>5 DEF OneAtATime
        <4> QED BY <1>2, <2>1, <3>3, <4>1, SameIdle
      <3> QED BY <3>4, <3>5
    <2>3. CASE tick.then = "preview"
      <3>1. tick' = [tick EXCEPT !.at = tick.then, !.held = Blank]
        BY <1>6, <2>3 DEF RecordWrite
      <3>2. tick'.at = "preview" /\ tick'.task = tick.task
        BY <1>0, <2>3, <3>1 DEF Shapes, IsTick, IsRecord
      <3>3. tick.at \in Looping
        BY <2>1 DEF Looping, Recording
      <3> QED BY <1>2, <2>1, <3>2, <3>3 DEF Same
    <2> QED BY <1>0, <2>1, <2>2, <2>3
  <1>7. CASE (PreviewRun \/ ApproveRun) /\ tick' = Refused /\ UNCHANGED jobs
    <2>1. Before
      BY <1>7 DEF PreviewRun, ApproveRun, Before
    <2>2. tick'.at = "record read"
      BY <1>0, <1>7 DEF Refused, Record, Shapes, IsTick, IsRecord
    <2> QED BY <1>1, <1>2, <1>7, <2>1, <2>2, SameIdle
  <1>8. CASE PreviewRun /\ ~(tick' = Refused /\ UNCHANGED jobs)
    <2>1. PICK j \in Jobs : /\ Previewed(j, "run", tick.task, tick.due)
                            /\ tick' = [tick EXCEPT !.at = "approve", !.job = j]
      BY <1>8 DEF PreviewRun
    <2>2. PICK r : r = [NoJob EXCEPT !.at = "preview", !.kind = "run", !.task = tick.task,
                                     !.due = tick.due, !.before = registry]
      OBVIOUS
    <2>3. r.task = tick.task /\ r.at = "preview"
      BY <2>2 DEF NoJob
    <2>4. jobs' = [jobs EXCEPT ![j] = r] /\ Before
      BY <1>8, <2>1, <2>2 DEF Previewed, PreviewRun, Before
    <2>5. jobs'[j] = r /\ \A i \in Jobs \ {j} : jobs'[i] = jobs[i]
      BY <1>0, <2>4 DEF Shapes
    <2>6. \A i \in Jobs : ~Active(i)'
      BY <1>1, <2>3, <2>4, <2>5 DEF Active, Waiting
    <2>7. tick'.task = tick.task /\ tick'.job = j
      BY <1>0, <2>1 DEF Shapes, IsTick, IsRecord
    <2> QED BY <2>3, <2>5, <2>6, <2>7 DEF Same
  <1>9. CASE ApproveRun /\ ~(tick' = Refused /\ UNCHANGED jobs)
    <2>1. Approve(tick.job, tick.due) /\ tick' = [tick EXCEPT !.at = "approving"]
          /\ tick.at = "approve"
      BY <1>9 DEF ApproveRun
    <2>2. PICK j \in Jobs : j = tick.job
      BY <1>0, <2>1
    <2>3. PICK r : /\ jobs' = [jobs EXCEPT ![j] = r] /\ r.at = "approving"
                   /\ r.task = jobs[j].task
      BY <1>0, <2>1, <2>2, ApprovedIs
    <2>4. Before /\ jobs[j].task = tick.task
      BY <2>1, <2>2 DEF Before, Same
    <2>5. jobs'[j] = r /\ \A i \in Jobs \ {j} : jobs'[i] = jobs[i]
      BY <1>0, <2>3 DEF Shapes
    <2>6. \A i \in Jobs \ {j} : ~Active(i)'
      BY <1>1, <2>4, <2>5 DEF Active
    <2>7. tick'.task = tick.task /\ tick'.at = "approving"
      BY <1>0, <2>1 DEF Shapes, IsTick, IsRecord
    <2>8. \A i \in Jobs : Active(i)' => jobs'[i].task = tick'.task
      BY <2>3, <2>4, <2>5, <2>6, <2>7
    <2> QED BY <2>7, <2>8 DEF Same
  <1> QED BY <1>3, <1>4, <1>5, <1>6, <1>7, <1>8, <1>9 DEF TickStep

\* A step of a job keeps its task, and is of one that is under way.
LEMMA StepKeepsTask ==
    ASSUME Shapes, NEW j \in Jobs, Step(j)
    PROVE  Active(j) /\ \A i \in Jobs : /\ jobs'[i].task = jobs[i].task
                                        /\ i # j => jobs'[i] = jobs[i]
  <1>1. IsJob(jobs[j])
    BY DEF Shapes
  <1>2. ASSUME NEW r, jobs' = [jobs EXCEPT ![j] = r], r.task = jobs[j].task
        PROVE  \A i \in Jobs : /\ jobs'[i].task = jobs[i].task
                               /\ i # j => jobs'[i] = jobs[i]
    BY <1>2 DEF Shapes
  <1>3. CASE Execute(j) \/ Run(j)
    <2>1. \A s : /\ Settled(j, s).task = jobs[j].task
                 /\ [Settled(j, s) EXCEPT !.ran = TRUE].task = jobs[j].task
      BY <1>1 DEF Settled, IsJob, IsRecord
    <2>2. [jobs[j] EXCEPT !.at = "applying"].task = jobs[j].task
      BY <1>1 DEF IsJob, IsRecord
    <2>3. \E r : jobs' = [jobs EXCEPT ![j] = r] /\ r.task = jobs[j].task
      BY <1>3, <2>1, <2>2 DEF Execute, Run, Goto
    <2> QED BY <1>2, <1>3, <2>3 DEF Execute, Run, Active, Waiting
  <1>4. CASE ApproveEnds(j) \/ Finish(j) \/ WriteRegistry(j)
    <2>1. PICK at : jobs' = [jobs EXCEPT ![j].at = at]
      BY <1>4 DEF ApproveEnds, Finish, WriteRegistry, Goto
    <2>2. [jobs[j] EXCEPT !.at = at].task = jobs[j].task
      BY <1>1 DEF IsJob, IsRecord
    <2>3. \E r : jobs' = [jobs EXCEPT ![j] = r] /\ r.task = jobs[j].task
      BY <2>1, <2>2
    <2> QED BY <1>2, <1>4, <2>3 DEF ApproveEnds, Finish, WriteRegistry, Active, Waiting
  <1>5. CASE ClearRead(j) \/ OutcomeRead(j)
    <2>1. PICK at, h : jobs' = [jobs EXCEPT ![j].at = at, ![j].held = h]
      BY <1>5 DEF ClearRead, OutcomeRead
    <2>2. PICK r : r = [jobs[j] EXCEPT !.at = at, !.held = h]
      OBVIOUS
    <2>3. r.task = jobs[j].task
      BY <1>1, <2>2 DEF IsJob, IsRecord
    <2>4. jobs' = [jobs EXCEPT ![j] = r]
      BY <2>1, <2>2 DEF Shapes
    <2> QED BY <1>2, <1>5, <2>3, <2>4 DEF ClearRead, OutcomeRead, Active, Waiting
  <1>6. CASE ClearWrite(j)
    <2>1. PICK r : r = [jobs[j] EXCEPT !.held = Blank, !.at = "finishing",
                                       !.status = "succeeded"]
      OBVIOUS
    <2>2. r.task = jobs[j].task
      BY <1>1, <2>1 DEF IsJob, IsRecord
    <2>3. jobs' = [jobs EXCEPT ![j] = r]
      BY <1>6, <2>1 DEF ClearWrite, Shapes
    <2> QED BY <1>2, <1>6, <2>2, <2>3 DEF ClearWrite, Active, Waiting
  <1>7. CASE OutcomeWrite(j)
    <2>1. PICK r : r = [jobs[j] EXCEPT !.held = Blank, !.at = "finishing"]
      OBVIOUS
    <2>2. r.task = jobs[j].task
      BY <1>1, <2>1 DEF IsJob, IsRecord
    <2>3. jobs' = [jobs EXCEPT ![j] = r]
      BY <1>7, <2>1 DEF OutcomeWrite, Shapes
    <2> QED BY <1>2, <1>7, <2>2, <2>3 DEF OutcomeWrite, Active, Waiting
  <1> QED BY <1>3, <1>4, <1>5, <1>6, <1>7 DEF Step

LEMMA SameStep == ASSUME OnceInv, Same, NEW j \in Jobs, Step(j) PROVE Same'
  <1>0. Shapes /\ Active(j) /\ \A i \in Jobs : /\ jobs'[i].task = jobs[i].task
                                               /\ i # j => jobs'[i] = jobs[i]
    BY StepKeepsTask DEF OnceInv
  <1>1. tick.at # "approve"
    BY <1>0 DEF OnceInv, OneAtATime, Before
  <1>2. \A i \in Jobs : Active(i)' => Active(i)
    BY <1>0 DEF Active
  <1>3. \/ tick' = tick
        \/ tick.at = "approving" /\ tick'.at = "record read" /\ tick'.task = tick.task
    <2>1. CASE tick' = tick
      BY <2>1
    <2>2. CASE tick' # tick
      <3>1. tick.at = "approving" /\ \E v : tick' = Record(tick.task, v, "loop")
        BY <2>2 DEF Step, ApproveEnds, Execute, Run, Finish, WriteRegistry, ClearRead,
                    ClearWrite, OutcomeRead, OutcomeWrite, Refused
      <3> QED BY <1>0, <3>1, RecordIs DEF Shapes
    <2> QED BY <2>1, <2>2
  <1>4. tick'.at \in Looping => tick.at \in Looping /\ tick'.task = tick.task
    BY <1>3 DEF Looping
  <1>5. tick'.at # "approve"
    BY <1>1, <1>3
  <1> QED BY <1>0, <1>2, <1>4, <1>5 DEF Same

LEMMA SameNext == ASSUME Clients = {}, OnceInv, Same, [Next]_vars PROVE Same'
  <1>1. CASE UNCHANGED vars \/ StartAgent \/ Advance
    <2>1. UNCHANGED <<jobs, tick>>
      BY <1>1 DEF vars, StartAgent, Advance
    <2> QED BY <2>1 DEF Same, Active
  <1>2. CASE Crash
    <2>1. tick'.at = "idle"
      BY <1>2, IdleIs DEF Crash
    <2> QED BY <2>1, SameIdle DEF Looping, Recording
  <1>3. ~Client
    BY DEF Client, ClientApprove
  <1> QED BY <1>1, <1>2, <1>3, SameTick, SameStep DEF Next

LEMMA InitSame == Init => Same
  BY IdleIs DEF Init, Same, Looping, Recording

\* With one task, because there is no other.
LEMMA OneIsTogether ==
    ASSUME NEW t, Tasks = {t}, Tasked PROVE Together
  BY DEF Tasked, Together, Active, Waiting

-----------------------------------------------------------------------------
(* The status that is shown *)

LEMMA NextShown ==
    ASSUME None \notin Jobs, Shapes, crashes \in Nat, crashes = 0 => ShownInv /\ Together,
           [Next]_vars
    PROVE  crashes' \in Nat /\ (crashes' = 0 => ShownInv')
  <1>1. CASE Crash
    <2>1. crashes' = crashes + 1
      BY <1>1 DEF Crash
    <2> QED BY <2>1
  <1>2. CASE ~Crash
    <2>1. crashes' = crashes
      BY <1>2 DEF Next, vars, world, Tick, TickStep, Step, Client, Advance, StartAgent,
            ReadRegistry, ReadRuntime, RecordRead, RecordWrite, PreviewRun, ApproveRun,
            StartRenewal, Renewed, ClientPreview, ClientApprove, ApproveEnds, Execute, Run,
            WriteRegistry, ClearRead, ClearWrite, OutcomeRead, OutcomeWrite, Finish
    <2> SUFFICES ASSUME ShownInv, Together PROVE ShownInv'
      BY <2>1
    <2>2. CASE UNCHANGED vars \/ StartAgent \/ Advance
      <3>1. UNCHANGED <<registry, runtime, jobs, tick>>
        BY <2>2 DEF vars, files, StartAgent, Advance
      <3>2. Tasked' /\ Outcomes'
        BY <3>1 DEF ShownInv, Tasked, Outcomes, Ended
      <3>3. Values'
        BY <3>1 DEF ShownInv, Values, Begun
      <3>4. Disk' /\ TickHolds' /\ JobsHold'
        BY <3>1 DEF ShownInv, Statuses, Disk, TickHolds, JobsHold, JobHolds, Refers, Begun, Open
      <3> QED BY <3>2, <3>3, <3>4, Zenon DEF ShownInv, Statuses
    <2>3. CASE Tick \/ TickStep
      <3>1. CASE ReadRuntime
        BY <3>1, LoopShown DEF ReadRuntime
      <3>2. CASE ~ReadRuntime
        BY <2>3, <3>2, TickShown, RecordReadShown, RecordWriteShown, PreviewShown,
           ApproveShown, RenewalShown DEF TickStep
      <3> QED BY <3>1, <3>2
    <2>4. CASE \E j \in Jobs : Step(j)
      BY <2>4, ApproveEndsShown, ExecuteShown, RunShown, FinishShown, WriteRegistryShown,
         ClearReadShown, OutcomeReadShown, JobWritesShown DEF Step
    <2>5. CASE Client
      BY <2>5, ClientShown
    <2> QED BY <1>2, <2>2, <2>3, <2>4, <2>5 DEF Next
  <1> QED BY <1>1, <1>2

LEMMA InitShown == ASSUME None \notin Jobs, Init PROVE ShownInv
  <1>1. /\ registry = Tasks /\ runtime = Blank /\ tick.at = "idle" /\ tick.todo = {}
        /\ \A j \in Jobs : jobs[j] = NoJob
    BY IdleIs DEF Init
  <1>2. Tasked
    BY <1>1 DEF Tasked, Looping, Recording, NoJob
  <1>3. Values
    BY <1>1 DEF Values, Recording
  <1>4. Disk
    <2>1. /\ "job" \in DOMAIN Unrun /\ "status" \in DOMAIN Unrun
          /\ Unrun.job = None /\ Unrun.status = "none"
      BY DEF Unrun
    <2>2. DOMAIN runtime = Tasks /\ runtime = [t \in Tasks |-> runtime[t]]
          /\ \A t \in Tasks : runtime[t] = Unrun
      BY <1>1 DEF Blank
    <2>3. IsStatus(runtime)
      BY <2>1, <2>2, Zenon DEF IsStatus
    <2>4. Refers(runtime)
      BY <2>1, <2>2 DEF Refers
    <2>5. \A t \in Tasks : Final(runtime[t])
      BY <2>1, <2>2 DEF Final
    <2> QED BY <2>3, <2>4, <2>5 DEF Disk
  <1>5. TickHolds /\ JobsHold
    <2>1. NoJob.at = "free"
      BY DEF NoJob
    <2>2. JobHolds(NoJob)
      BY <2>1 DEF JobHolds
    <2>3. JobsHold
      BY <1>1, <2>2, Zenon DEF JobsHold
    <2> QED BY <1>1, <2>3 DEF TickHolds
  <1>6. Outcomes
    <2>1. \A j \in Jobs : jobs[j].at = "free"
      BY <1>1 DEF NoJob
    <2> QED BY <2>1 DEF Outcomes, Ended
  <1> QED BY <1>2, <1>3, <1>4, <1>5, <1>6 DEF ShownInv, Statuses

LEMMA ShownIs == ASSUME ShownInv, crashes = 0 PROVE ShownIsFinal
  <1> SUFFICES ASSUME tick.at = "idle", \A j \in Jobs : ~Active(j), NEW t \in Tasks
               PROVE  Shown(t) \notin {"starting", "queued"}
    BY DEF ShownIsFinal
  <1>1. Refers(runtime) /\ Final(runtime[t])
    BY DEF ShownInv, Statuses, Disk, Open, Recording
  <1>2. CASE runtime[t].job = None
    BY <1>1, <1>2 DEF Final, Shown
  <1>3. CASE runtime[t].job # None
    <2>1. Begun(runtime[t].job)
      BY <1>1, <1>3 DEF Refers
    <2>2. PICK j \in Jobs : j = runtime[t].job
      BY <2>1 DEF Begun
    <2>3. jobs[j].at = "done"
      BY <2>1, <2>2 DEF Begun, Active
    <2>4. jobs[j].status \in {"succeeded", "failed"}
      BY <2>3 DEF ShownInv, Outcomes, Ended
    <2> QED BY <1>3, <2>2, <2>4 DEF Shown
  <1> QED BY <1>2, <1>3

\* Until a restart, the status shown of a task when nothing is under way is final: what the
\* tick records of a run and what its job records may be written in either order.  With
\* administrators it is of one task, as record() may put back the entry of another that
\* it read before.
THEOREM ShownStaysFinal ==
    ASSUME SchedulerAssumption, Clients = {} \/ (~Acme /\ \E t : Tasks = {t})
    PROVE  Spec => []ShownIsFinal
  <1> DEFINE Until == crashes \in Nat /\ (crashes = 0 => ShownInv)
  <1>0. None \notin Nat /\ None \notin Jobs
    BY DEF SchedulerAssumption
  <1>1. Init => Until
    <2> SUFFICES ASSUME Init PROVE Until
      OBVIOUS
    <2>1. crashes = 0
      BY DEF Init
    <2> QED BY <1>0, <2>1, InitShown
  <1>2. Until => ShownIsFinal
    <2>1. CASE crashes = 0
      BY <2>1, ShownIs
    <2>2. CASE crashes # 0
      BY <2>2 DEF ShownIsFinal
    <2> QED BY <2>1, <2>2
  <1>3. CASE Clients = {}
    <2> DEFINE Sole == OnceInv /\ Same /\ Until
    <2>1. Init => Sole
      BY <1>1, InitOnce, InitSame
    <2>2. Sole /\ [Next]_vars => Sole'
      <3> SUFFICES ASSUME Sole, [Next]_vars PROVE Sole'
        OBVIOUS
      <3>1. Shapes /\ Together
        BY SameIsTogether DEF OnceInv
      <3>2. Until'
        BY <1>0, <3>1, NextShown
      <3>3. OnceInv' /\ Same'
        BY <1>0, <1>3, NextOnce, SameNext
      <3> QED BY <3>2, <3>3
    <2>3. Sole => ShownIsFinal
      BY <1>2
    <2> HIDE DEF Sole
    <2> QED BY <2>1, <2>2, <2>3, PTL DEF Spec
  <1>4. CASE ~Acme /\ \E t : Tasks = {t}
    <2> DEFINE Few == Inv /\ Until
    <2>1. Init => Few
      BY <1>1, InitInv
    <2>2. Few /\ [Next]_vars => Few'
      <3> SUFFICES ASSUME Few, [Next]_vars PROVE Few'
        OBVIOUS
      <3>1. Shapes /\ (crashes = 0 => Together)
        BY <1>4, OneIsTogether DEF Inv, ShownInv
      <3>2. Until'
        BY <1>0, <3>1, NextShown
      <3>3. Inv'
        BY <1>4, NextInv
      <3> QED BY <3>2, <3>3
    <2>3. Few => ShownIsFinal
      BY <1>2
    <2> HIDE DEF Few
    <2> QED BY <2>1, <2>2, <2>3, PTL DEF Spec
  <1> QED BY <1>3, <1>4

=============================================================================
