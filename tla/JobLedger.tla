------------------------------ MODULE JobLedger ------------------------------
(***************************************************************************)
(* What the storage agent promises about jobs, without saying how: a       *)
(* ledger that survives the agent records each job as previewed, approved  *)
(* or settled; a job runs at most once, only after the ledger says it is   *)
(* approved, and never while another one runs.                             *)
(***************************************************************************)
EXTENDS FiniteSets

CONSTANTS Jobs, NoJob

VARIABLES
    ledger,     \* what the ledger says of a job
    running,    \* the job that is being executed, or NoJob
    ran         \* the jobs whose execution was ever begun

vars == <<ledger, running, ran>>

Entries == {"none", "preview", "approved", "settled"}

LedgerTypeOK ==
    /\ ledger \in [Jobs -> Entries]
    /\ running \in Jobs \cup {NoJob}
    /\ ran \subseteq Jobs

Init ==
    /\ ledger = [j \in Jobs |-> "none"]
    /\ running = NoJob
    /\ ran = {}

\* An entry only moves forward, and nothing is settled that was not approved.
\* One write of the ledger may carry the news of several jobs.
Follows(old, new) ==
    \/ new = old
    \/ old \in {"none", "preview"} /\ new \in {"preview", "approved"} /\ new # old
    \/ old = "approved" /\ new = "settled"

Advance ==
    /\ ledger' \in [Jobs -> Entries]
    /\ \A j \in Jobs : Follows(ledger[j], ledger'[j])
    /\ UNCHANGED <<running, ran>>

Begin(j) ==
    /\ running = NoJob /\ j \notin ran
    /\ ledger[j] = "approved"
    /\ running' = j
    /\ ran' = ran \cup {j}
    /\ UNCHANGED ledger

End ==
    /\ running # NoJob
    /\ running' = NoJob
    /\ UNCHANGED <<ledger, ran>>

\* The agent restarts: what was approved is settled, unexecuted or not.
Recover ==
    /\ ledger' = [j \in Jobs |-> IF ledger[j] = "approved" THEN "settled" ELSE ledger[j]]
    /\ running' = NoJob
    /\ UNCHANGED ran

Next == Advance \/ (\E j \in Jobs : Begin(j)) \/ End \/ Recover

Spec == Init /\ [][Next]_vars
=============================================================================
