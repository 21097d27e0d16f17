------------------------------- MODULE MCAgent -------------------------------
(***************************************************************************)
(* Instances for TLC of the storage agent's modules beside its job engine: *)
(* the protection scheduler alone with certificates to renew, the scheduler*)
(* against administrators, and two of the activation of shares.  They share*)
(* no state, so an initial state chooses the one that runs, "part", and    *)
(* the variables of the other module stay Off.                             *)
(***************************************************************************)
EXTENDS Integers, FiniteSets, TLC

CONSTANTS t1, t2, j1, j2, j3, f, g, None, Off

VARIABLE part
VARIABLES registry, runtime, busy, jobs, tick, up, clock, crashes
VARIABLES files, live, active, record, boot, pc, job, needed, cutShort, misled, failures

Alone == INSTANCE Scheduler WITH
    Tasks <- {t1, t2}, Jobs <- {j1, j2, j3}, Clients <- {}, Acme <- TRUE,
    MaxClock <- 2, MaxCrashes <- 1

Admin == INSTANCE Scheduler WITH
    Tasks <- {t1}, Jobs <- {j1, j2}, Clients <- {"run", "save", "delete"},
    Acme <- FALSE, MaxClock <- 2, MaxCrashes <- 1

Shares == INSTANCE ShareActivation WITH
    Fragments <- {f, g}, MaxReboots <- 1, MaxFailures <- 1, up <- active

Failing == INSTANCE ShareActivation WITH
    Fragments <- {f}, MaxReboots <- 1, MaxFailures <- 2, up <- active

ASSUME SchedulersAssumption == Alone!SchedulerAssumption /\ Admin!SchedulerAssumption
ASSUME Shares!ShareActivationAssumption /\ Failing!ShareActivationAssumption

schedulerVars == <<registry, runtime, busy, jobs, tick, up, clock, crashes>>
sharesVars == <<files, live, active, record, boot, pc, job, needed, cutShort, misled, failures>>
vars == <<part, schedulerVars, sharesVars>>

SchedulerOff ==
    /\ registry = Off /\ runtime = Off /\ busy = Off /\ jobs = Off
    /\ tick = Off /\ up = Off /\ clock = Off /\ crashes = Off

SharesOff ==
    /\ files = Off /\ live = Off /\ active = Off /\ record = Off /\ boot = Off
    /\ pc = Off /\ job = Off /\ needed = Off /\ cutShort = Off /\ misled = Off
    /\ failures = Off

Init ==
    \/ part = "alone" /\ Alone!Init /\ SharesOff
    \/ part = "admin" /\ Admin!Init /\ SharesOff
    \/ part = "shares" /\ Shares!Init /\ SchedulerOff
    \/ part = "failing" /\ Failing!Init /\ SchedulerOff

Next ==
    \/ part = "alone" /\ Alone!Next /\ UNCHANGED <<part, sharesVars>>
    \/ part = "admin" /\ Admin!Next /\ UNCHANGED <<part, sharesVars>>
    \/ part = "shares" /\ Shares!Next /\ UNCHANGED <<part, schedulerVars>>
    \/ part = "failing" /\ Failing!Next /\ UNCHANGED <<part, schedulerVars>>

\* An action of the scheduler that administrators use.
Of(A) == part = "admin" /\ A /\ UNCHANGED <<part, sharesVars>>

\* The fairness of Scheduler's FairSpec.
Spec ==
    /\ Init /\ [][Next]_vars
    /\ SF_vars(Of(Admin!Tick)) /\ WF_vars(Of(Admin!TickStep))
    /\ WF_vars(Of(Admin!StartAgent))
    /\ \A j \in {j1, j2} : WF_vars(Of(Admin!Step(j)))

\* The properties of the modules, each of the part that runs.
OncePerDue == part = "alone" => Alone!OncePerDue

ShownIsFinal ==
    /\ part = "alone" => Alone!ShownIsFinal
    /\ part = "admin" => Admin!ShownIsFinal

Serialized == part = "admin" => Admin!Serialized
RunsSavedTask == [][part = "admin" => Admin!RunsSaved]_vars

\* DueIsClaimed of Scheduler.
Due(d) == part = "admin" /\ Admin!DueAt(t1, d)
DueIsClaimed == \A d \in 0..2 : Due(d) ~> ~Due(d)

\* A record the agent would rely on, alone and after failures.
RecordIsActive ==
    /\ part = "shares" => Shares!ActiveSharesServed /\ Shares!NoopIsActive
    /\ part = "failing" => Failing!ActiveSharesServed /\ Failing!NoopIsActive

\* The files of one configuration, whole, and put back by a rollback.
FilesAreWhole ==
    /\ part = "shares" => Shares!CurrentIsWhole /\ Shares!RollbackRestores
    /\ part = "failing" => Failing!CurrentIsWhole /\ Failing!RollbackRestores
=============================================================================
