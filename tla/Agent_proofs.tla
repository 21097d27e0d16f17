----------------------------- MODULE Agent_proofs -----------------------------
(***************************************************************************)
(* What ShareActivation_proofs and Scheduler_proofs prove of one module    *)
(* each, of the instances of them that MCAgent puts side by side: the      *)
(* properties of its run, stated as the run checks them.                   *)
(***************************************************************************)
EXTENDS MCAgent, TLAPS

\* The theorems about the activation of shares, of the shares of this module.
SharesP == INSTANCE ShareActivation_proofs WITH
    Fragments <- {f, g}, MaxReboots <- 1, MaxFailures <- 1, up <- active

FailingP == INSTANCE ShareActivation_proofs WITH
    Fragments <- {f}, MaxReboots <- 1, MaxFailures <- 2, up <- active

\* Those about the scheduler, of the one that administrators use.
AdminP == INSTANCE Scheduler_proofs WITH
    Tasks <- {t1}, Jobs <- {j1, j2}, Clients <- {"run", "save", "delete"},
    Acme <- FALSE, MaxClock <- 2, MaxCrashes <- 1

\* And of the one alone.
AloneP == INSTANCE Scheduler_proofs WITH
    Tasks <- {t1, t2}, Jobs <- {j1, j2, j3}, Clients <- {}, Acme <- TRUE,
    MaxClock <- 2, MaxCrashes <- 1

\* The part that runs stays.
LEMMA PartStays == ASSUME [Next]_vars PROVE part' = part
  BY DEF Next, vars

-----------------------------------------------------------------------------
(* Shares *)

LEMMA SharesBegin == ASSUME Init, part = "shares" PROVE SharesP!Init
  BY DEF Init, Shares!Init, Shares!Rendered, Shares!NoShares, Shares!Services, SharesP!Init,
         SharesP!Rendered, SharesP!NoShares, SharesP!Services

LEMMA SharesRun ==
    ASSUME [Next]_vars, part = "shares"
    PROVE  [SharesP!Next]_(SharesP!vars)
  <1>1. CASE UNCHANGED vars
    BY <1>1 DEF vars, sharesVars, SharesP!vars
  <1>2. CASE Next
    <2>1. Shares!Next
      BY <1>2 DEF Next
    <2> QED BY <2>1
      DEF Shares!Next, Shares!Agent, Shares!Configure, Shares!WriteFile,
          Shares!ReloadSmb, Shares!ReloadNfs, Shares!Activate, Shares!Throw,
          Shares!Crash, Shares!Reboot, Shares!Stop, Shares!StartService, Shares!Fail,
          Shares!Verified, Shares!VerifiedCurrent, Shares!Needed, Shares!ApplyTo,
          Shares!After, Shares!Refused, Shares!RolledBack, Shares!Misleads,
          Shares!RestoresHalf, Shares!Stopped, Shares!Rendered, Shares!Whole,
          Shares!Services, Shares!Contents, Shares!Shares, SharesP!Next, SharesP!Agent,
          SharesP!Configure, SharesP!WriteFile, SharesP!ReloadSmb, SharesP!ReloadNfs,
          SharesP!Activate, SharesP!Throw, SharesP!Crash, SharesP!Reboot, SharesP!Stop,
          SharesP!StartService, SharesP!Fail, SharesP!Verified,
          SharesP!VerifiedCurrent, SharesP!Needed, SharesP!ApplyTo, SharesP!After,
          SharesP!Refused, SharesP!RolledBack, SharesP!Misleads, SharesP!RestoresHalf,
          SharesP!Stopped, SharesP!Rendered, SharesP!Whole, SharesP!Services,
          SharesP!Contents, SharesP!Shares
  <1> QED BY <1>1, <1>2

LEMMA SharesAsProved ==
    /\ SharesP!NoopIsActive => Shares!NoopIsActive
    /\ SharesP!ActiveSharesServed => Shares!ActiveSharesServed
    /\ SharesP!CurrentIsWhole => Shares!CurrentIsWhole
    /\ SharesP!RollbackRestores => Shares!RollbackRestores
  BY DEF Shares!NoopIsActive, Shares!ActiveSharesServed, Shares!CurrentIsWhole,
         Shares!RollbackRestores, Shares!Verified, Shares!VerifiedCurrent,
         Shares!Serves, Shares!Services, Shares!Rendered, Shares!Whole,
         SharesP!NoopIsActive, SharesP!ActiveSharesServed, SharesP!CurrentIsWhole,
         SharesP!RollbackRestores, SharesP!Verified, SharesP!VerifiedCurrent,
         SharesP!Serves, SharesP!Services, SharesP!Rendered, SharesP!Whole

\* What is proved of the shares holds while they are the part that runs.
LEMMA SharesHold ==
    Spec => [](part = "shares" =>
                   /\ Shares!NoopIsActive /\ Shares!ActiveSharesServed
                   /\ Shares!CurrentIsWhole /\ Shares!RollbackRestores)
  <1> DEFINE In == part = "shares"
             Held == /\ Shares!NoopIsActive /\ Shares!ActiveSharesServed
                     /\ Shares!CurrentIsWhole /\ Shares!RollbackRestores
  <1>1. Init /\ In => SharesP!Init
    BY SharesBegin
  <1>2. In /\ [Next]_vars => In' /\ [SharesP!Next]_(SharesP!vars)
    BY PartStays, SharesRun
  <1>3. ~In /\ [Next]_vars => ~In'
    BY PartStays
  <1>4. SharesP!Spec => /\ []SharesP!NoopIsActive /\ []SharesP!ActiveSharesServed
                   /\ []SharesP!CurrentIsWhole /\ []SharesP!RollbackRestores
    BY SharesP!NoopsAreActive, SharesP!ActiveIsServed, SharesP!RecordIsWhole, SharesP!RollbackIsComplete
  <1>5. /\ SharesP!NoopIsActive /\ SharesP!ActiveSharesServed
        /\ SharesP!CurrentIsWhole /\ SharesP!RollbackRestores
        => Held
    BY SharesAsProved
  <1> HIDE DEF In, Held
  <1>6. Spec => [](In => Held)
    BY <1>1, <1>2, <1>3, <1>4, <1>5, PTL DEF Spec, SharesP!Spec
  <1> QED BY <1>6 DEF In, Held

-----------------------------------------------------------------------------
(* Shares, and two failures *)

LEMMA FailingBegin == ASSUME Init, part = "failing" PROVE FailingP!Init
  BY DEF Init, Failing!Init, Failing!Rendered, Failing!NoShares, Failing!Services,
         FailingP!Init, FailingP!Rendered, FailingP!NoShares, FailingP!Services

LEMMA FailingRun ==
    ASSUME [Next]_vars, part = "failing"
    PROVE  [FailingP!Next]_(FailingP!vars)
  <1>1. CASE UNCHANGED vars
    BY <1>1 DEF vars, sharesVars, FailingP!vars
  <1>2. CASE Next
    <2>1. Failing!Next
      BY <1>2 DEF Next
    <2> QED BY <2>1
      DEF Failing!Next, Failing!Agent, Failing!Configure, Failing!WriteFile,
          Failing!ReloadSmb, Failing!ReloadNfs, Failing!Activate, Failing!Throw,
          Failing!Crash, Failing!Reboot, Failing!Stop, Failing!StartService,
          Failing!Fail, Failing!Verified, Failing!VerifiedCurrent, Failing!Needed,
          Failing!ApplyTo, Failing!After, Failing!Refused, Failing!RolledBack,
          Failing!Misleads, Failing!RestoresHalf, Failing!Stopped, Failing!Rendered,
          Failing!Whole, Failing!Services, Failing!Contents, Failing!Shares,
          FailingP!Next, FailingP!Agent, FailingP!Configure, FailingP!WriteFile,
          FailingP!ReloadSmb, FailingP!ReloadNfs, FailingP!Activate, FailingP!Throw,
          FailingP!Crash, FailingP!Reboot, FailingP!Stop, FailingP!StartService,
          FailingP!Fail, FailingP!Verified, FailingP!VerifiedCurrent, FailingP!Needed,
          FailingP!ApplyTo, FailingP!After, FailingP!Refused, FailingP!RolledBack,
          FailingP!Misleads, FailingP!RestoresHalf, FailingP!Stopped,
          FailingP!Rendered, FailingP!Whole, FailingP!Services, FailingP!Contents,
          FailingP!Shares
  <1> QED BY <1>1, <1>2

LEMMA FailingAsProved ==
    /\ FailingP!NoopIsActive => Failing!NoopIsActive
    /\ FailingP!ActiveSharesServed => Failing!ActiveSharesServed
    /\ FailingP!CurrentIsWhole => Failing!CurrentIsWhole
    /\ FailingP!RollbackRestores => Failing!RollbackRestores
  BY DEF Failing!NoopIsActive, Failing!ActiveSharesServed, Failing!CurrentIsWhole,
         Failing!RollbackRestores, Failing!Verified, Failing!VerifiedCurrent,
         Failing!Serves, Failing!Services, Failing!Rendered, Failing!Whole,
         FailingP!NoopIsActive, FailingP!ActiveSharesServed, FailingP!CurrentIsWhole,
         FailingP!RollbackRestores, FailingP!Verified, FailingP!VerifiedCurrent,
         FailingP!Serves, FailingP!Services, FailingP!Rendered, FailingP!Whole

\* What is proved of the shares holds while they are the part that runs.
LEMMA FailingHold ==
    Spec => [](part = "failing" =>
                   /\ Failing!NoopIsActive /\ Failing!ActiveSharesServed
                   /\ Failing!CurrentIsWhole /\ Failing!RollbackRestores)
  <1> DEFINE In == part = "failing"
             Held == /\ Failing!NoopIsActive /\ Failing!ActiveSharesServed
                     /\ Failing!CurrentIsWhole /\ Failing!RollbackRestores
  <1>1. Init /\ In => FailingP!Init
    BY FailingBegin
  <1>2. In /\ [Next]_vars => In' /\ [FailingP!Next]_(FailingP!vars)
    BY PartStays, FailingRun
  <1>3. ~In /\ [Next]_vars => ~In'
    BY PartStays
  <1>4. FailingP!Spec => /\ []FailingP!NoopIsActive /\ []FailingP!ActiveSharesServed
                   /\ []FailingP!CurrentIsWhole /\ []FailingP!RollbackRestores
    BY FailingP!NoopsAreActive, FailingP!ActiveIsServed, FailingP!RecordIsWhole, FailingP!RollbackIsComplete
  <1>5. /\ FailingP!NoopIsActive /\ FailingP!ActiveSharesServed
        /\ FailingP!CurrentIsWhole /\ FailingP!RollbackRestores
        => Held
    BY FailingAsProved
  <1> HIDE DEF In, Held
  <1>6. Spec => [](In => Held)
    BY <1>1, <1>2, <1>3, <1>4, <1>5, PTL DEF Spec, FailingP!Spec
  <1> QED BY <1>6 DEF In, Held

-----------------------------------------------------------------------------
(* The properties of MCAgent about shares *)

\* A request answered as a no-op finds its shares served, and so is every share of a
\* record the agent would rely on: apply() and verifyCurrent() of ShareAdapter, through
\* failures, rollbacks, stops of the agent and of the services, and reboots.
THEOREM RecordsAreActive == Spec => []RecordIsActive
  BY SharesHold, FailingHold, PTL DEF RecordIsActive

\* What is called current is one configuration, never half of two, and a rollback that
\* ends has put the previous one back: the three writes and two reloads of apply().
THEOREM FilesStayWhole == Spec => []FilesAreWhole
  BY SharesHold, FailingHold, PTL DEF FilesAreWhole

-----------------------------------------------------------------------------
(* The scheduler and administrators *)

LEMMA AdminBegin == ASSUME Init, part = "admin" PROVE AdminP!Init
  BY DEF Init, Admin!Init, Admin!Blank, Admin!Unrun, Admin!NoJob, Admin!Idle, AdminP!Init,
         AdminP!Blank, AdminP!Unrun, AdminP!NoJob, AdminP!Idle

LEMMA AdminRuns ==
    ASSUME [Next]_vars, part = "admin"
    PROVE  [AdminP!Next]_(AdminP!vars)
  <1>1. CASE UNCHANGED vars
    BY <1>1 DEF vars, schedulerVars, AdminP!vars, AdminP!files, AdminP!world
  <1>2. CASE Next
    <2>1. Admin!Next
      BY <1>2 DEF Next
    <2> QED BY <2>1
      DEF Admin!Next, Admin!Tick, Admin!TickStep, Admin!Client, Admin!Step,
          Admin!Advance, Admin!Crash, Admin!StartAgent, Admin!ReadRegistry,
          Admin!ReadRuntime, Admin!RecordRead, Admin!RecordWrite, Admin!PreviewRun,
          Admin!ApproveRun, Admin!StartRenewal, Admin!Renewed, Admin!ClientPreview,
          Admin!ClientApprove, Admin!Record, Admin!Planned, Admin!Claim,
          Admin!Continue, Admin!Refused, Admin!Previewed, Admin!Approve,
          Admin!RecheckedByHand, Admin!Rechecked, Admin!ApproveEnds, Admin!Goto,
          Admin!Settled, Admin!Execute, Admin!Run, Admin!WriteRegistry,
          Admin!ClearRead, Admin!ClearWrite, Admin!Outcome, Admin!OutcomeRead,
          Admin!OutcomeWrite, Admin!Finish, Admin!nextRun, Admin!Unrun, Admin!Blank,
          Admin!Recorded, Admin!Idle, Admin!NoJob, Admin!Waiting, Admin!Active,
          Admin!files, Admin!world, AdminP!Next, AdminP!Tick, AdminP!TickStep,
          AdminP!Client, AdminP!Step, AdminP!Advance, AdminP!Crash, AdminP!StartAgent,
          AdminP!ReadRegistry, AdminP!ReadRuntime, AdminP!RecordRead,
          AdminP!RecordWrite, AdminP!PreviewRun, AdminP!ApproveRun,
          AdminP!StartRenewal, AdminP!Renewed, AdminP!ClientPreview,
          AdminP!ClientApprove, AdminP!Record, AdminP!Planned, AdminP!Claim,
          AdminP!Continue, AdminP!Refused, AdminP!Previewed, AdminP!Approve,
          AdminP!RecheckedByHand, AdminP!Rechecked, AdminP!ApproveEnds, AdminP!Goto,
          AdminP!Settled, AdminP!Execute, AdminP!Run, AdminP!WriteRegistry,
          AdminP!ClearRead, AdminP!ClearWrite, AdminP!Outcome, AdminP!OutcomeRead,
          AdminP!OutcomeWrite, AdminP!Finish, AdminP!nextRun, AdminP!Unrun,
          AdminP!Blank, AdminP!Recorded, AdminP!Idle, AdminP!NoJob, AdminP!Waiting,
          AdminP!Active, AdminP!files, AdminP!world
  <1> QED BY <1>1, <1>2

LEMMA AdminAsProved ==
    /\ AdminP!Serialized => Admin!Serialized
    /\ AdminP!RunsSaved => Admin!RunsSaved
  <1>1. \A S : AdminP!Cardinality(S) = Admin!Cardinality(S)
    BY Zenon DEF AdminP!Cardinality, Admin!Cardinality
  <1> QED BY <1>1
     DEF Admin!Serialized, Admin!RunsSaved, Admin!Active, Admin!Waiting,
         AdminP!Serialized, AdminP!RunsSaved, AdminP!Active, AdminP!Waiting

LEMMA AdminShownAsProved == AdminP!ShownIsFinal => Admin!ShownIsFinal
  BY DEF AdminP!ShownIsFinal, Admin!ShownIsFinal, AdminP!Shown, Admin!Shown, AdminP!Active,
         Admin!Active, AdminP!Waiting, Admin!Waiting

\* What is proved of the scheduler holds while administrators use it.
LEMMA AdminHolds ==
    Spec => /\ [](part = "admin" => Admin!Serialized /\ Admin!ShownIsFinal)
            /\ [][part = "admin" => Admin!RunsSaved]_vars
  <1> DEFINE In == part = "admin"
  <1>1. Init /\ In => AdminP!Init
    BY AdminBegin
  <1>2. In /\ [Next]_vars => In' /\ [AdminP!Next]_(AdminP!vars)
    BY PartStays, AdminRuns
  <1>3. ~In /\ [Next]_vars => ~In'
    BY PartStays
  <1> DEFINE Held == AdminP!Serialized /\ AdminP!ShownIsFinal
  <1>4. AdminP!Spec => []Held /\ AdminP!RunsSavedTask
    <2>1. AdminP!SchedulerAssumption
      BY SchedulersAssumption DEF Admin!SchedulerAssumption, AdminP!SchedulerAssumption
    <2>2. AdminP!Spec => []AdminP!ShownIsFinal
      BY <2>1, AdminP!ShownStaysFinal
    <2> QED BY <2>2, AdminP!MutationsSerialized, AdminP!RunsAreOfSavedTasks, PTL
  <1>5. Held => Admin!Serialized /\ Admin!ShownIsFinal
    BY AdminAsProved, AdminShownAsProved
  <1>6. [AdminP!RunsSaved]_(AdminP!vars) => Admin!RunsSaved
    BY AdminAsProved DEF AdminP!vars, Admin!RunsSaved
  <1> DEFINE Slot == Admin!Serialized /\ Admin!ShownIsFinal
             Runs == Admin!RunsSaved
  <1>7. Held => Slot
    BY <1>5
  <1>8. [AdminP!RunsSaved]_(AdminP!vars) => Runs
    BY <1>6
  <1> HIDE DEF In, Slot, Runs, Held
  <1>9. Spec => [](In => Slot) /\ [][In => Runs]_vars
    BY <1>1, <1>2, <1>3, <1>4, <1>7, <1>8, PTL DEF Spec, AdminP!Spec, AdminP!RunsSavedTask
  <1> QED BY <1>9 DEF In, Slot, Runs

-----------------------------------------------------------------------------
(* The scheduler alone *)

LEMMA AloneBegin == ASSUME Init, part = "alone" PROVE AloneP!Init
  BY DEF Init, Alone!Init, Alone!Blank, Alone!Unrun, Alone!NoJob, Alone!Idle, AloneP!Init,
         AloneP!Blank, AloneP!Unrun, AloneP!NoJob, AloneP!Idle

LEMMA AloneRuns ==
    ASSUME [Next]_vars, part = "alone"
    PROVE  [AloneP!Next]_(AloneP!vars)
  <1>1. CASE UNCHANGED vars
    BY <1>1 DEF vars, schedulerVars, AloneP!vars, AloneP!files, AloneP!world
  <1>2. CASE Next
    <2>1. Alone!Next
      BY <1>2 DEF Next
    <2> QED BY <2>1
      DEF Alone!Next, Alone!Tick, Alone!TickStep, Alone!Client, Alone!Step,
          Alone!Advance, Alone!Crash, Alone!StartAgent, Alone!ReadRegistry,
          Alone!ReadRuntime, Alone!RecordRead, Alone!RecordWrite, Alone!PreviewRun,
          Alone!ApproveRun, Alone!StartRenewal, Alone!Renewed, Alone!ClientPreview,
          Alone!ClientApprove, Alone!Record, Alone!Planned, Alone!Claim,
          Alone!Continue, Alone!Refused, Alone!Previewed, Alone!Approve,
          Alone!RecheckedByHand, Alone!Rechecked, Alone!ApproveEnds, Alone!Goto,
          Alone!Settled, Alone!Execute, Alone!Run, Alone!WriteRegistry,
          Alone!ClearRead, Alone!ClearWrite, Alone!Outcome, Alone!OutcomeRead,
          Alone!OutcomeWrite, Alone!Finish, Alone!nextRun, Alone!Unrun, Alone!Blank,
          Alone!Recorded, Alone!Idle, Alone!NoJob, Alone!Waiting, Alone!Active,
          Alone!files, Alone!world, AloneP!Next, AloneP!Tick, AloneP!TickStep,
          AloneP!Client, AloneP!Step, AloneP!Advance, AloneP!Crash, AloneP!StartAgent,
          AloneP!ReadRegistry, AloneP!ReadRuntime, AloneP!RecordRead,
          AloneP!RecordWrite, AloneP!PreviewRun, AloneP!ApproveRun,
          AloneP!StartRenewal, AloneP!Renewed, AloneP!ClientPreview,
          AloneP!ClientApprove, AloneP!Record, AloneP!Planned, AloneP!Claim,
          AloneP!Continue, AloneP!Refused, AloneP!Previewed, AloneP!Approve,
          AloneP!RecheckedByHand, AloneP!Rechecked, AloneP!ApproveEnds, AloneP!Goto,
          AloneP!Settled, AloneP!Execute, AloneP!Run, AloneP!WriteRegistry,
          AloneP!ClearRead, AloneP!ClearWrite, AloneP!Outcome, AloneP!OutcomeRead,
          AloneP!OutcomeWrite, AloneP!Finish, AloneP!nextRun, AloneP!Unrun,
          AloneP!Blank, AloneP!Recorded, AloneP!Idle, AloneP!NoJob, AloneP!Waiting,
          AloneP!Active, AloneP!files, AloneP!world
  <1> QED BY <1>1, <1>2

LEMMA AloneShownAsProved == AloneP!ShownIsFinal => Alone!ShownIsFinal
  BY DEF AloneP!ShownIsFinal, Alone!ShownIsFinal, AloneP!Shown, Alone!Shown, AloneP!Active, Alone!Active,
         AloneP!Waiting, Alone!Waiting

\* What is proved of the scheduler alone holds while it is the part that runs.
LEMMA AloneHolds == Spec => [](part = "alone" => Alone!OncePerDue /\ Alone!ShownIsFinal)
  <1> DEFINE In == part = "alone"
             Once == Alone!OncePerDue /\ Alone!ShownIsFinal
  <1>1. Init /\ In => AloneP!Init
    BY AloneBegin
  <1>2. In /\ [Next]_vars => In' /\ [AloneP!Next]_(AloneP!vars)
    BY PartStays, AloneRuns
  <1>3. ~In /\ [Next]_vars => ~In'
    BY PartStays
  <1>4. AloneP!SchedulerAssumption
    BY SchedulersAssumption DEF Alone!SchedulerAssumption, AloneP!SchedulerAssumption
  <1>5. AloneP!Spec => []AloneP!OncePerDue /\ []AloneP!ShownIsFinal
    BY <1>4, AloneP!RunsOncePerDue, AloneP!ShownStaysFinal
  <1>6. AloneP!OncePerDue /\ AloneP!ShownIsFinal => Once
    BY AloneShownAsProved DEF AloneP!OncePerDue, Alone!OncePerDue
  <1> HIDE DEF In, Once
  <1>7. Spec => [](In => Once)
    BY <1>1, <1>2, <1>3, <1>5, <1>6, PTL DEF Spec, AloneP!Spec
  <1> QED BY <1>7 DEF In, Once

-----------------------------------------------------------------------------
(* The properties of MCAgent about the scheduler *)

\* A due instant of a task leads to one run at most, through restarts and renewals: the
\* claim of features.js is on disk before the run it claims is approved.
THEOREM RunsOnce == Spec => []OncePerDue
  BY AloneHolds, PTL DEF OncePerDue

\* Until the agent restarts, the status an administrator is shown when nothing is under way
\* is final, whichever of the tick and the job writes last (protectionInventory() and
\* record() of protection.js).
THEOREM ShownStaysFinal == Spec => []ShownIsFinal
  BY AloneHolds, AdminHolds, PTL DEF ShownIsFinal

\* Mutations of the host are serialized, whatever administrators ask for: one job at a
\* time is approved, queued or applied, and a tick starts none while one is (features.js
\* and execute() of operations.js).
THEOREM MutationsStaySerial == Spec => []Serialized
  BY AdminHolds, PTL DEF Serialized

\* A run executes a policy that is saved when it executes: a job whose policy was changed
\* or deleted since the preview is refused by the recheck() of operations.js.
THEOREM RunsAreSaved == Spec => RunsSavedTask
  BY AdminHolds, PTL DEF RunsSavedTask

=============================================================================
