--------------------------- MODULE ShareActivation ---------------------------
(***************************************************************************)
(* Class ShareAdapter of src/storage-agent/operations.js: three files, the *)
(* Samba fragment, the NFS fragment and the manifest, are written one by   *)
(* one, the services are reloaded, and an activation record remembers the  *)
(* hash of the files and the boot they were verified in.  A later request  *)
(* for the same configuration is a no-op when the record still matches.    *)
(*                                                                         *)
(* One job runs at a time (MutualExclusion of Operations_proofs), so one   *)
(* commit or rollback is modelled: its files, reloads and record.          *)
(***************************************************************************)
EXTENDS Naturals

CONSTANTS
    Fragments,      \* share definitions of one protocol, other than none
    None,           \* the empty fragment; also "no activation record"
    MaxReboots,     \* bound: reboots of the host
    MaxFailures     \* bound: commits cut short by a stop of the agent or a
                    \* reboot, failing commands or writes, and stops of a
                    \* file service, together

ShareActivationAssumption == None \notin Fragments

VARIABLES
    files,      \* the managed files: smb, nfs and manifest
    live,       \* what each running service serves
    up,         \* which services are active
    record,     \* activation record: [hash, boot] or None
    boot,       \* the boot identifier
    pc,         \* where apply() or reload() waits
    job,        \* the configurations before and after, and which is applied
    needed,     \* smbReloadNeeded, nfsReloadNeeded
    cutShort,   \* history: whether an application of files was cut short, by a
                \* stop of the agent or because a rollback failed itself
    misled,     \* history: see Misleads
    failures

vars == <<files, live, up, record, boot, pc, job, needed, cutShort, misled, failures>>

Services == {"smb", "nfs"}
Contents == Fragments \cup {None}
Shares == [Services -> Contents]

\* renderShares(): the files of a list of shares.
Rendered(s) == [smb |-> s["smb"], nfs |-> s["nfs"], manifest |-> s]

\* Files rendered from one list of shares.
Whole(config) == config = Rendered(config.manifest)

Fail == failures < MaxFailures /\ failures' = failures + 1

-----------------------------------------------------------------------------
\* verify(): the services the manifest needs are active, and each path it
\* exports over NFS is exported (with whatever options: the fragments here
\* differ in their clients, not in their path).
Verified ==
    /\ files.manifest["smb"] # None => up["smb"]
    /\ files.manifest["nfs"] # None => up["nfs"] /\ live["nfs"] # None

\* verifyCurrent()
VerifiedCurrent ==
    /\ record # None
    /\ record.hash = files /\ record.boot = boot
    /\ Verified

\* Variant: only a changed fragment is reloaded.
NeededIfChanged(target) == [s \in Services |-> files[s] # target[s]]

\* The reloads apply() finds necessary for a target.
Needed(target) ==
    [s \in Services |->
        files[s] # target[s] \/ (~VerifiedCurrent /\ target[s] # None)]

\* apply() begins to write its target.
ApplyTo(target, doing) ==
    /\ needed' = Needed(target)
    /\ job' = [job EXCEPT !.target = target, !.doing = doing]
    /\ pc' = "smb"

\* execute(): the no-op test, or the commit of new shares.
Configure(s) ==
    /\ pc = "idle"
    /\ LET after == Rendered(s) IN
       IF files = after /\ VerifiedCurrent
       THEN UNCHANGED <<pc, job, needed>>
       ELSE /\ job' = [before |-> files, target |-> after, doing |-> "commit"]
            /\ needed' = Needed(after)
            /\ pc' = "smb"
    /\ UNCHANGED <<files, live, up, record, boot, cutShort, misled, failures>>

\* Variant: the manifest is forgotten.
AfterTwo == [smb |-> "nfs", nfs |-> "reload smb", manifest |-> "reload smb"]

\* The three atomic writes, in this order.
After == [smb |-> "nfs", nfs |-> "manifest", manifest |-> "reload smb"]

WriteFile ==
    /\ pc \in DOMAIN After
    /\ files' = [files EXCEPT ![pc] = job.target[pc]]
    /\ pc' = After[pc]
    /\ UNCHANGED <<live, up, record, boot, job, needed, cutShort, misled, failures>>

\* systemctl reload smbd, which fails for an inactive service.
ReloadSmb ==
    /\ pc = "reload smb"
    /\ IF needed["smb"]
       THEN up["smb"] /\ live' = [live EXCEPT !["smb"] = files.smb]
       ELSE UNCHANGED live
    /\ pc' = "reload nfs"
    /\ UNCHANGED <<files, up, record, boot, job, needed, cutShort, misled, failures>>

\* exportfs -ra
ReloadNfs ==
    /\ pc = "reload nfs"
    /\ IF needed["nfs"] /\ up["nfs"]
       THEN live' = [live EXCEPT !["nfs"] = files.nfs]
       ELSE UNCHANGED live
    /\ pc' = "verify"
    /\ UNCHANGED <<files, up, record, boot, job, needed, cutShort, misled, failures>>

\* verify(), and the record when it holds: the end of reload().
Activate ==
    /\ pc = "verify"
    /\ Verified
    /\ record' = [hash |-> files, boot |-> boot]
    /\ pc' = "idle"
    /\ UNCHANGED <<files, live, up, boot, job, needed, cutShort, misled, failures>>

\* What the code itself finds wrong.
Refused ==
    \/ pc = "reload smb" /\ needed["smb"] /\ ~up["smb"]
    \/ pc = "verify" /\ ~Verified

\* Variant: a failed commit is left as it is.
LeftAsIs == pc' = "idle" /\ UNCHANGED <<job, needed>>

\* Variant: the rollback applies the new configuration once more.
RolledForward ==
    IF job.doing = "commit"
    THEN ApplyTo(job.target, "undo")
    ELSE pc' = "idle" /\ UNCHANGED <<job, needed>>

\* An exception: a commit is rolled back, by apply(before) and reload(); a
\* rollback that throws is recorded as an error of the job and left there.
RolledBack ==
    IF job.doing = "commit"
    THEN ApplyTo(job.before, "undo")
    ELSE pc' = "idle" /\ UNCHANGED <<job, needed>>

\* An application that ends early leaves a record one cannot rely on: it has
\* written the very files the record names, in a rollback or after another that
\* was cut short, and not reloaded them.
Misleads ==
    /\ record # None /\ record.hash = files
    /\ job.doing = "undo" \/ (cutShort /\ pc # "smb")

\* Files that an application cut short left half written are put back.
RestoresHalf == job.doing = "commit" /\ ~Whole(job.before)

Throw ==
    /\ pc # "idle"
    /\ \/ Refused /\ UNCHANGED failures
       \/ ~Refused /\ Fail
    /\ RolledBack
    /\ cutShort' = (cutShort \/ job.doing = "undo")
    /\ misled' = (misled \/ Misleads \/ RestoresHalf)
    /\ UNCHANGED <<files, live, up, record, boot>>

-----------------------------------------------------------------------------
(* The host *)

\* What the stop of an application means for the history.
Stopped ==
    /\ cutShort' = (cutShort \/ pc # "idle")
    /\ misled' = (misled \/ (pc # "idle" /\ Misleads))

\* The agent stops where it is; init() marks the job interrupted and nothing
\* touches the files.
Crash ==
    /\ pc # "idle"
    /\ Fail
    /\ pc' = "idle"
    /\ Stopped
    /\ UNCHANGED <<files, live, up, record, boot, job, needed>>

\* A boot gives a new boot identifier, and the services load their files.
Reboot ==
    /\ boot < MaxReboots /\ boot' = boot + 1
    /\ IF pc = "idle" THEN UNCHANGED failures ELSE Fail
    /\ up' = [s \in Services |-> TRUE]
    /\ live' = [s \in Services |-> files[s]]
    /\ pc' = "idle"
    /\ Stopped
    /\ UNCHANGED <<files, record, job, needed>>

Stop(s) ==
    /\ up[s]
    /\ Fail
    /\ up' = [up EXCEPT ![s] = FALSE]
    /\ live' = [live EXCEPT ![s] = None]
    /\ UNCHANGED <<files, record, boot, pc, job, needed, cutShort, misled>>

StartService(s) ==
    /\ ~up[s]
    /\ up' = [up EXCEPT ![s] = TRUE]
    /\ live' = [live EXCEPT ![s] = files[s]]
    /\ UNCHANGED <<files, record, boot, pc, job, needed, cutShort, misled, failures>>

-----------------------------------------------------------------------------
NoShares == [s \in Services |-> None]

Init ==
    /\ files = Rendered(NoShares)
    /\ live = NoShares
    /\ up = [s \in Services |-> TRUE]
    /\ record = None /\ boot = 0
    /\ pc = "idle"
    /\ job = [before |-> files, target |-> files, doing |-> "commit"]
    /\ needed = [s \in Services |-> FALSE]
    /\ cutShort = FALSE /\ misled = FALSE
    /\ failures = 0

Agent == WriteFile \/ ReloadSmb \/ ReloadNfs \/ Activate \/ Throw

Next ==
    \/ \E s \in Shares : Configure(s)
    \/ Agent
    \/ Crash \/ Reboot
    \/ \E s \in Services : Stop(s) \/ StartService(s)

Spec == Init /\ [][Next]_vars

-----------------------------------------------------------------------------
Serves(s) == up[s] => live[s] = files[s]

\* As the documentation promises of the no-op test, "matching files without an
\* activation record are not treated as a verified no-op": where a repeated
\* request would be answered as a no-op, the services run what the files say.
\* Once a commit or a rollback stopped between its writes and its reloads this
\* fails for a protocol whose shares were all removed: nothing reloads it.
NoopIsActive ==
    (pc = "idle" /\ ~cutShort /\ VerifiedCurrent) => \A s \in Services : Serves(s)

\* The same of the protocols that have shares at all, and then through stops,
\* failed rollbacks and reboots too: a share the agent calls active is served as
\* its files define it.  The record is not withdrawn while files are written, so
\* this fails when the files that come back are those it names and the writing
\* of them stops before the reloads.
ActiveSharesServed ==
    (pc = "idle" /\ ~misled /\ VerifiedCurrent) =>
        \A s \in Services : files[s] # None => Serves(s)

\* The record is never written over half of a configuration: what is called
\* current was rendered from one list of shares.
CurrentIsWhole == (~misled /\ VerifiedCurrent) => Whole(files)

\* A rollback that ran to its end has put back the previous configuration, in
\* the files and in the services.
RollbackRestores ==
    (pc = "verify" /\ job.doing = "undo") =>
        /\ files = job.before
        /\ \A s \in Services :
              (~cutShort \/ (~misled /\ files[s] # None)) => Serves(s)
=============================================================================
