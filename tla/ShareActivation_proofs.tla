----------------------- MODULE ShareActivation_proofs -----------------------
(***************************************************************************)
(* Theorems about the activation of shares, for every set of fragments and *)
(* any number of failures, stops and reboots.                              *)
(***************************************************************************)
EXTENDS ShareActivation, TLAPS

-----------------------------------------------------------------------------
(* The inductive invariant *)

IsFiles(x) == x = [smb |-> x.smb, nfs |-> x.nfs, manifest |-> x.manifest]

Writing == {"smb", "nfs", "manifest"}
Places == Writing \cup {"idle", "reload smb", "reload nfs", "verify"}

Shapes ==
    /\ IsFiles(files)
    /\ live = [s \in Services |-> live[s]]
    /\ up \in [Services -> BOOLEAN] /\ needed \in [Services -> BOOLEAN]
    /\ pc \in Places
    /\ job = [before |-> job.before, target |-> job.target, doing |-> job.doing]
    /\ IsFiles(job.before) /\ IsFiles(job.target)
    /\ job.doing \in {"commit", "undo"}
    /\ cutShort \in BOOLEAN /\ misled \in BOOLEAN

Committing == pc # "idle" /\ job.doing = "commit"
Undoing == pc # "idle" /\ job.doing = "undo"

\* How far the files are written, and what they are written over.
Written ==
    /\ pc \in {"nfs", "manifest"} => files.smb = job.target.smb
    /\ pc = "manifest" => files.nfs = job.target.nfs
    /\ pc \in {"reload smb", "reload nfs", "verify"} => files = job.target
    /\ Committing =>
          /\ pc = "smb" => files = job.before
          /\ \A s \in Services : files[s] \in {job.before[s], job.target[s]}
    /\ Undoing => job.target = job.before

\* What is applied, and what is recorded, is of one configuration.
Wholes ==
    /\ Committing => Whole(job.target)
    /\ ~misled =>
          /\ Undoing => Whole(job.before)
          /\ record # None => Whole(record.hash)

\* The reload of a service that was necessary is over.
Reloaded(s) == IF s = "smb" THEN pc \in {"reload nfs", "verify"} ELSE pc = "verify"

\* As long as nothing was cut short, a service runs what its file says unless the
\* file was just written and the reload is still to come; the record is that of
\* the files before.
Orderly ==
    ~cutShort =>
        /\ pc = "idle" => \A s \in Services : Serves(s)
        /\ Committing => \A s \in Services :
              /\ files[s] = job.before[s] => Serves(s)
              /\ job.target[s] # job.before[s] => needed[s]
        /\ Undoing => \A s \in Services :
              ~needed[s] => files[s] = job.target[s] /\ Serves(s)
        /\ \A s \in Services : Reloaded(s) => Serves(s)
        /\ record # None =>
              record.hash = IF pc = "idle" THEN files ELSE job.before

\* A share of one file is served as the file says.
Active(s) == files[s] # None => Serves(s)

Trusted == record # None /\ record.hash = files => \A s \in Services : Active(s)

\* A record that is not misleading can be relied on, and a service that is not
\* reloaded needs no reload.
Trusting ==
    ~misled =>
        /\ pc = "idle" => Trusted
        /\ Committing /\ pc = "smb" => Trusted
        /\ pc # "idle" => \A s \in Services :
              ~needed[s] => files[s] = job.target[s] /\ Active(s)
        /\ \A s \in Services : Reloaded(s) => Active(s)

Inv == Shapes /\ Written /\ Wholes /\ Orderly /\ Trusting

LEMMA InitActivation == Init => Inv
  <1> SUFFICES ASSUME Init PROVE Inv
    OBVIOUS
  <1>1. /\ files = Rendered(NoShares) /\ job.before = files /\ job.target = files
        /\ job = [before |-> files, target |-> files, doing |-> "commit"]
        /\ job.doing = "commit" /\ pc = "idle" /\ record = None
        /\ ~cutShort /\ ~misled
    BY DEF Init
  <1>2. /\ \A s \in Services : files[s] = None /\ live[s] = None
        /\ IsFiles(files) /\ live = [s \in Services |-> live[s]]
        /\ up \in [Services -> BOOLEAN] /\ needed \in [Services -> BOOLEAN]
    BY <1>1 DEF Init, Rendered, NoShares, IsFiles, Services
  <1>3. Shapes
    <2>1. /\ job.before = files /\ job.target = files /\ job.doing = "commit"
          /\ job = [before |-> job.before, target |-> job.target, doing |-> job.doing]
      BY <1>1
    <2>2. IsFiles(job.before) /\ IsFiles(job.target)
      BY <1>2, <2>1
    <2>3. pc \in Places
      BY <1>1 DEF Places
    <2>4. cutShort = FALSE /\ misled = FALSE
      BY DEF Init
    <2> QED BY <1>2, <2>1, <2>2, <2>3, <2>4 DEF Shapes
  <1>4. Written /\ Wholes
    BY <1>1 DEF Written, Wholes, Committing, Undoing
  <1>5. Orderly /\ Trusting
    BY <1>1, <1>2
       DEF Orderly, Trusting, Trusted, Committing, Undoing, Reloaded, Serves, Services
  <1> QED BY <1>3, <1>4, <1>5 DEF Inv

\* A step that leaves files, record and application alone keeps what is said of
\* them; the services may come and go.
Quiet == UNCHANGED <<files, record, pc, job, needed, cutShort, misled>>

LEMMA QuietKeeps ==
    ASSUME Inv, Quiet, live' = [s \in Services |-> live'[s]], up' \in [Services -> BOOLEAN],
           \A s \in Services : Serves(s) => Serves(s)'
    PROVE  Inv'
  <1> USE DEF Quiet
  <1>1. Shapes' /\ Written' /\ Wholes'
    BY DEF Inv, Shapes, Written, Wholes, Committing, Undoing
  <1>2. Orderly'
    BY DEF Inv, Orderly, Committing, Undoing, Reloaded
  <1>3. Trusting'
    BY DEF Inv, Trusting, Trusted, Active, Committing, Reloaded
  <1> QED BY <1>1, <1>2, <1>3 DEF Inv

LEMMA StopKeeps == ASSUME Inv, NEW s \in Services, Stop(s) PROVE Inv'
  <1>1. Quiet /\ live' = [r \in Services |-> live'[r]] /\ up' \in [Services -> BOOLEAN]
    BY DEF Inv, Shapes, Stop, Quiet
  <1>2. \A r \in Services : Serves(r) => Serves(r)'
    BY DEF Inv, Shapes, Stop, Serves
  <1> QED BY <1>1, <1>2, QuietKeeps

LEMMA StartServiceKeeps == ASSUME Inv, NEW s \in Services, StartService(s) PROVE Inv'
  <1>1. Quiet /\ live' = [r \in Services |-> live'[r]] /\ up' \in [Services -> BOOLEAN]
    BY DEF Inv, Shapes, StartService, Quiet
  <1>2. \A r \in Services : Serves(r) => Serves(r)'
    BY DEF Inv, Shapes, StartService, Serves
  <1> QED BY <1>1, <1>2, QuietKeeps

LEMMA ConfigureKeeps == ASSUME Inv, NEW s \in Shares, Configure(s) PROVE Inv'
  <1> DEFINE after == Rendered(s)
  <1>1. CASE UNCHANGED <<pc, job, needed>>
    <2>1. Quiet /\ live' = live /\ up' = up
      BY <1>1 DEF Configure, Quiet
    <2> QED BY <2>1, QuietKeeps DEF Inv, Shapes, Serves, Quiet
  <1>2. CASE /\ job' = [before |-> files, target |-> after, doing |-> "commit"]
             /\ needed' = Needed(after)
             /\ pc' = "smb"
    <2>1. /\ pc = "idle"
          /\ UNCHANGED <<files, live, up, record, boot, cutShort, misled>>
      BY DEF Configure
    <2>2. /\ job'.before = files /\ job'.target = after /\ job'.doing = "commit"
          /\ Committing' /\ ~Undoing'
      BY <1>2 DEF Committing, Undoing
    <2>3. IsFiles(after) /\ Whole(after)
      BY DEF Rendered, IsFiles, Whole
    <2>4. /\ needed' \in [Services -> BOOLEAN]
          /\ \A r \in Services : needed'[r] =
                (files[r] # after[r] \/ (~VerifiedCurrent /\ after[r] # None))
      BY <1>2 DEF Needed
    <2> HIDE DEF after
    <2>5. Shapes'
      BY <1>2, <2>1, <2>2, <2>3, <2>4 DEF Inv, Shapes, IsFiles, Places, Writing
    <2>6. Written' /\ Wholes'
      BY <1>2, <2>1, <2>2, <2>3 DEF Inv, Written, Wholes
    <2>7. Orderly'
      BY <1>2, <2>1, <2>2, <2>4 DEF Inv, Orderly, Serves, Reloaded
    <2>8. Trusting'
      <3> SUFFICES ASSUME ~misled PROVE Trusting'
        BY <2>1 DEF Trusting
      <3>1. Trusted
        BY <2>1 DEF Inv, Trusting
      <3>2. \A r \in Services : ~needed'[r] => files[r] = after[r] /\ Active(r)
        BY <2>4, <3>1 DEF VerifiedCurrent, Trusted, Active
      <3>3. Trusted' /\ \A r \in Services : Active(r)' <=> Active(r)
        BY <2>1, <3>1 DEF Trusted, Active, Serves
      <3> QED BY <1>2, <2>1, <2>2, <3>2, <3>3 DEF Trusting, Reloaded
    <2> QED BY <2>5, <2>6, <2>7, <2>8 DEF Inv
  <1> QED BY <1>1, <1>2 DEF Configure

LEMMA WriteFileKeeps == ASSUME Inv, WriteFile PROVE Inv'
  <1>1. /\ pc \in Writing /\ pc' = After[pc]
        /\ files' = [files EXCEPT ![pc] = job.target[pc]]
        /\ UNCHANGED <<live, up, record, boot, job, needed, cutShort, misled>>
    BY DEF WriteFile, After, Writing
  <1>2. /\ pc = "smb" => pc' = "nfs"
        /\ pc = "nfs" => pc' = "manifest"
        /\ pc = "manifest" => pc' = "reload smb"
    <2>1. /\ After["smb"] = "nfs"
          /\ After["nfs"] = "manifest"
          /\ After["manifest"] = "reload smb"
      BY DEF After
    <2> QED BY <1>1, <2>1
  <1>3. /\ \A x \in Writing : files'[x] = IF x = pc THEN job.target[x] ELSE files[x]
        /\ DOMAIN files' = Writing
    <2>1. files = [x \in Writing |-> files[x]]
      BY DEF Inv, Shapes, IsFiles, Writing
    <2> QED BY <1>1, <2>1
  <1>4. IsFiles(files')
    <2>1. files' = [x \in Writing |-> files'[x]]
      <3>1. files = [x \in Writing |-> files[x]]
        BY DEF Inv, Shapes, IsFiles, Writing
      <3> QED BY <1>1, <3>1
    <2> QED BY <2>1 DEF IsFiles, Writing
  <1>5. /\ pc' \in Places /\ pc' # "idle" /\ pc' # "smb" /\ pc # "idle"
        /\ \A s \in Services : files'[s] \in {files[s], job.target[s]}
        /\ \A s \in Services : files'[s] # files[s] => pc = s
    BY <1>1, <1>2, <1>3 DEF Places, Writing, Services
  <1>6. Shapes'
    BY <1>1, <1>4, <1>5 DEF Inv, Shapes
  <1>7. (Committing' <=> Committing) /\ (Undoing' <=> Undoing)
    BY <1>1, <1>5 DEF Committing, Undoing
  <1>8. Written'
    <2>1. pc' = "reload smb" => files' = job.target
      <3> SUFFICES ASSUME pc = "manifest" PROVE files' = job.target
        BY <1>1, <1>2 DEF Writing
      <3>1. IsFiles(job.target) /\ files.smb = job.target.smb /\ files.nfs = job.target.nfs
        BY DEF Inv, Shapes, Written
      <3>2. /\ files'.smb = files.smb /\ files'.nfs = files.nfs
            /\ files'.manifest = job.target.manifest
        BY <1>3 DEF Writing
      <3> QED BY <1>4, <3>1, <3>2 DEF IsFiles
    <2>2. pc' \in {"nfs", "manifest"} => files'.smb = job.target.smb
      BY <1>1, <1>2, <1>3 DEF Inv, Written, Writing
    <2>3. pc' = "manifest" => files'.nfs = job.target.nfs
      BY <1>1, <1>2, <1>3 DEF Inv, Written, Writing
    <2>4. Committing => \A s \in Services : files'[s] \in {job.before[s], job.target[s]}
      BY <1>5 DEF Inv, Written
    <2>5. pc' \in {"nfs", "manifest", "reload smb"}
      BY <1>1, <1>2 DEF Writing
    <2> QED BY <1>1, <1>5, <1>7, <2>1, <2>2, <2>3, <2>4, <2>5 DEF Inv, Written
  <1>9. Wholes'
    BY <1>1, <1>7 DEF Inv, Wholes
  <1>10. \A s \in Services : ~Reloaded(s)'
    BY <1>1, <1>2 DEF Reloaded, Writing
  <1>11. Orderly'
    <2> SUFFICES ASSUME ~cutShort PROVE Orderly'
      BY <1>1 DEF Orderly
    <2>1. ASSUME Committing, NEW s \in Services
          PROVE  /\ files'[s] = job.before[s] => Serves(s)'
                 /\ job.target[s] # job.before[s] => needed[s]
      <3>1. files'[s] = job.before[s] => files[s] = job.before[s]
        BY <1>5, <2>1 DEF Inv, Written
      <3>2. /\ files[s] = job.before[s] => Serves(s)
            /\ job.target[s] # job.before[s] => needed[s]
        BY <2>1 DEF Inv, Orderly
      <3> QED BY <1>1, <3>1, <3>2 DEF Serves
    <2>2. ASSUME Undoing, NEW s \in Services, ~needed[s]
          PROVE  files'[s] = job.target[s] /\ Serves(s)'
      <3>1. files[s] = job.target[s] /\ Serves(s)
        BY <2>2 DEF Inv, Orderly
      <3> QED BY <1>1, <1>5, <3>1 DEF Serves
    <2>3. record # None => record.hash = job.before
      BY <1>5 DEF Inv, Orderly
    <2> QED BY <1>1, <1>5, <1>7, <1>10, <2>1, <2>2, <2>3 DEF Orderly
  <1>12. Trusting'
    <2> SUFFICES ASSUME ~misled PROVE Trusting'
      BY <1>1 DEF Trusting
    <2>1. ASSUME NEW s \in Services, ~needed[s]
          PROVE  files'[s] = job.target[s] /\ Active(s)'
      <3>1. files[s] = job.target[s] /\ Active(s)
        BY <1>5, <2>1 DEF Inv, Trusting
      <3> QED BY <1>1, <1>5, <3>1 DEF Active, Serves
    <2> QED BY <1>1, <1>5, <1>10, <2>1 DEF Trusting
  <1> QED BY <1>6, <1>8, <1>9, <1>11, <1>12 DEF Inv

\* A reload leaves files, record and application alone too; afterwards the service
\* runs what its file says, if the reload was necessary.
LEMMA ReloadKeeps ==
    ASSUME Inv, NEW s \in Services,
           \/ (pc = "reload smb" /\ s = "smb" /\ pc' = "reload nfs")
           \/ (pc = "reload nfs" /\ s = "nfs" /\ pc' = "verify"),
           live' = [r \in Services |-> live'[r]],
           \A r \in Services \ {s} : live'[r] = live[r],
           ~needed[s] => live'[s] = live[s],
           needed[s] => Serves(s)',
           UNCHANGED <<files, up, record, boot, job, needed, cutShort, misled>>
    PROVE  Inv'
  <1>1. /\ pc' \in Places /\ pc # "idle" /\ pc' # "idle" /\ pc' # "smb" /\ pc # "smb"
        /\ files = job.target
    BY DEF Places, Inv, Written
  <1>2. (Committing' <=> Committing) /\ (Undoing' <=> Undoing)
    BY <1>1 DEF Committing, Undoing
  <1>3. Shapes' /\ Written' /\ Wholes'
    BY <1>1, <1>2 DEF Inv, Shapes, Written, Wholes
  <1>4. \A r \in Services : Serves(r) => Serves(r)'
    BY DEF Serves
  <1>5. \A r \in Services : Reloaded(r)' => Reloaded(r) \/ r = s
    BY DEF Reloaded, Services
  <1>6. Orderly'
    <2> SUFFICES ASSUME ~cutShort PROVE Orderly'
      BY DEF Orderly
    <2>1. Serves(s)'
      <3>1. CASE Committing
        <4>1. ~needed[s] => Serves(s)
          BY <1>1, <3>1 DEF Inv, Orderly
        <4> QED BY <1>4, <4>1
      <3>2. CASE Undoing
        BY <1>4, <3>2 DEF Inv, Orderly
      <3> QED BY <1>1, <3>1, <3>2 DEF Inv, Shapes, Committing, Undoing
    <2>2. \A r \in Services : Reloaded(r)' => Serves(r)'
      BY <1>4, <1>5, <2>1 DEF Inv, Orderly
    <2> QED BY <1>1, <1>2, <1>4, <2>2 DEF Inv, Orderly
  <1>7. Trusting'
    <2> SUFFICES ASSUME ~misled PROVE Trusting'
      BY DEF Trusting
    <2>1. \A r \in Services : Active(r) => Active(r)'
      BY <1>4 DEF Active
    <2>2. Active(s)'
      BY <1>1, <2>1 DEF Inv, Trusting, Active
    <2> QED BY <1>1, <1>5, <2>1, <2>2 DEF Inv, Trusting
  <1> QED BY <1>3, <1>6, <1>7 DEF Inv

LEMMA ReloadSmbKeeps == ASSUME Inv, ReloadSmb PROVE Inv'
  <1>1. "smb" \in Services /\ live = [r \in Services |-> live[r]]
    BY DEF Services, Inv, Shapes
  <1>2. /\ live' = [r \in Services |-> live'[r]]
        /\ \A r \in Services \ {"smb"} : live'[r] = live[r]
        /\ ~needed["smb"] => live'["smb"] = live["smb"]
        /\ needed["smb"] => live'["smb"] = files.smb
    BY <1>1 DEF ReloadSmb
  <1>3. needed["smb"] => Serves("smb")'
    BY <1>2 DEF ReloadSmb, Serves
  <1>4. /\ pc = "reload smb" /\ pc' = "reload nfs"
        /\ UNCHANGED <<files, up, record, boot, job, needed, cutShort, misled>>
    BY DEF ReloadSmb
  <1> QED BY <1>1, <1>2, <1>3, <1>4, ReloadKeeps

LEMMA ReloadNfsKeeps == ASSUME Inv, ReloadNfs PROVE Inv'
  <1>1. "nfs" \in Services /\ live = [r \in Services |-> live[r]]
    BY DEF Services, Inv, Shapes
  <1>2. /\ live' = [r \in Services |-> live'[r]]
        /\ \A r \in Services \ {"nfs"} : live'[r] = live[r]
        /\ ~needed["nfs"] => live'["nfs"] = live["nfs"]
        /\ needed["nfs"] /\ up["nfs"] => live'["nfs"] = files.nfs
    BY <1>1 DEF ReloadNfs
  <1>3. needed["nfs"] => Serves("nfs")'
    BY <1>2 DEF ReloadNfs, Serves
  <1>4. /\ pc = "reload nfs" /\ pc' = "verify"
        /\ UNCHANGED <<files, up, record, boot, job, needed, cutShort, misled>>
    BY DEF ReloadNfs
  <1> QED BY <1>1, <1>2, <1>3, <1>4, ReloadKeeps

\* At its end every service runs what its file says, and the record is of the
\* files just verified.
LEMMA ActivateKeeps == ASSUME Inv, Activate PROVE Inv'
  <1>1. /\ pc = "verify" /\ pc' = "idle" /\ record'.hash = files
        /\ UNCHANGED <<files, live, up, boot, job, needed, cutShort, misled>>
    BY DEF Activate
  <1>2. /\ files = job.target /\ \A s \in Services : Reloaded(s)
        /\ ~Committing' /\ ~Undoing' /\ \A s \in Services : ~Reloaded(s)'
    BY <1>1 DEF Inv, Written, Reloaded, Committing, Undoing
  <1>3. Shapes' /\ Written'
    BY <1>1, <1>2 DEF Inv, Shapes, Written, Places
  <1>4. Wholes'
    <2>1. ~misled => Whole(files)
      BY <1>1, <1>2 DEF Inv, Shapes, Written, Wholes, Committing, Undoing
    <2> QED BY <1>1, <1>2, <2>1 DEF Wholes
  <1>5. Orderly'
    BY <1>1, <1>2 DEF Inv, Orderly, Serves
  <1>6. Trusting'
    BY <1>1, <1>2 DEF Inv, Trusting, Trusted, Active, Serves
  <1> QED BY <1>3, <1>4, <1>5, <1>6 DEF Inv

\* Files of an application that ends here are those of the record only where the
\* services run them, unless the record misleads from now on.
LEMMA EarlyEnd ==
    ASSUME Inv, pc # "idle", ~misled, ~Misleads
    PROVE  Trusted
  <1> SUFFICES ASSUME record # None, record.hash = files, NEW s \in Services
               PROVE  Active(s)
    BY DEF Trusted
  <1>1. job.doing = "commit" /\ Committing /\ (~cutShort \/ pc = "smb")
    BY DEF Misleads, Inv, Shapes, Committing
  <1>2. CASE pc = "smb"
    BY <1>1, <1>2 DEF Inv, Trusting, Trusted
  <1>3. CASE ~cutShort
    <2>1. files = job.before /\ (files[s] = job.before[s] => Serves(s))
      BY <1>1, <1>3 DEF Inv, Orderly
    <2> QED BY <2>1 DEF Active
  <1> QED BY <1>1, <1>2, <1>3

\* The agent stops, or a rollback fails.
LEMMA CutKeeps ==
    ASSUME Inv, pc # "idle", pc' = "idle", cutShort',
           misled' = (misled \/ Misleads), 
           UNCHANGED <<files, record, job, needed>>,
           live' = [s \in Services |-> live'[s]], up' \in [Services -> BOOLEAN],
           \A s \in Services : Serves(s) => Serves(s)'
    PROVE  Inv'
  <1>1. ~Committing' /\ ~Undoing' /\ \A s \in Services : ~Reloaded(s)'
    BY DEF Committing, Undoing, Reloaded
  <1>2. misled' \in BOOLEAN
    BY DEF Inv, Shapes, Misleads
  <1>3. Shapes' /\ Written' /\ Wholes' /\ Orderly'
    BY <1>1, <1>2 DEF Inv, Shapes, Written, Wholes, Orderly, Places
  <1>4. Trusting'
    <2> SUFFICES ASSUME ~misled' PROVE Trusting'
      BY DEF Trusting
    <2>1. Trusted
      BY EarlyEnd
    <2>2. Trusted'
      BY <2>1 DEF Trusted, Active
    <2> QED BY <1>1, <2>2 DEF Trusting
  <1> QED BY <1>3, <1>4 DEF Inv

LEMMA CrashKeeps == ASSUME Inv, Crash PROVE Inv'
  <1>1. /\ pc # "idle" /\ pc' = "idle" /\ cutShort' /\ misled' = (misled \/ Misleads)
        /\ UNCHANGED <<files, live, up, record, job, needed>>
    BY DEF Crash, Stopped, Inv, Shapes
  <1>2. \A s \in Services : Serves(s) => Serves(s)'
    BY <1>1 DEF Serves
  <1> QED BY <1>1, <1>2, CutKeeps DEF Inv, Shapes

LEMMA RebootKeeps == ASSUME Inv, Reboot PROVE Inv'
  <1>1. /\ live' = [s \in Services |-> live'[s]] /\ up' \in [Services -> BOOLEAN]
        /\ \A s \in Services : Serves(s)'
    BY DEF Reboot, Serves
  <1>2. CASE pc = "idle"
    <2>1. Quiet
      BY <1>2 DEF Reboot, Stopped, Quiet, Inv, Shapes
    <2> QED BY <1>1, <2>1, QuietKeeps
  <1>3. CASE pc # "idle"
    <2>1. /\ pc' = "idle" /\ cutShort' /\ misled' = (misled \/ Misleads)
          /\ UNCHANGED <<files, record, job, needed>>
      BY <1>3 DEF Reboot, Stopped, Inv, Shapes
    <2> QED BY <1>1, <1>3, <2>1, CutKeeps
  <1> QED BY <1>2, <1>3

\* A commit fails and its rollback begins.
LEMMA UndoKeeps == ASSUME Inv, Throw, job.doing = "commit" PROVE Inv'
  <1>1. /\ pc # "idle" /\ pc' = "smb" /\ Committing /\ needed' = Needed(job.before)
        /\ UNCHANGED <<files, live, up, record, boot, cutShort>>
        /\ misled' = (misled \/ Misleads \/ ~Whole(job.before))
    BY DEF Throw, RolledBack, ApplyTo, RestoresHalf, Committing, Inv, Shapes
  <1>2. /\ job' = [before |-> job.before, target |-> job.before, doing |-> "undo"]
        /\ job'.before = job.before /\ job'.target = job.before /\ job'.doing = "undo"
    BY DEF Throw, RolledBack, ApplyTo, Inv, Shapes
  <1>3. Undoing' /\ ~Committing' /\ \A s \in Services : ~Reloaded(s)'
    BY <1>1, <1>2 DEF Undoing, Committing, Reloaded
  <1>4. /\ needed' \in [Services -> BOOLEAN]
        /\ \A s \in Services : needed'[s] =
              (files[s] # job.before[s] \/ (~VerifiedCurrent /\ job.before[s] # None))
    BY <1>1 DEF Needed
  <1>5. misled' \in BOOLEAN
    BY <1>1 DEF Inv, Shapes, Misleads, Whole
  <1>6. Shapes'
    BY <1>1, <1>2, <1>4, <1>5 DEF Inv, Shapes, Places, Writing
  <1>7. Written' /\ Wholes'
    BY <1>1, <1>2, <1>3 DEF Inv, Written, Wholes
  <1>8. Orderly'
    <2> SUFFICES ASSUME ~cutShort PROVE Orderly'
      BY <1>1 DEF Orderly
    <2>1. \A s \in Services : ~needed'[s] => files[s] = job.before[s] /\ Serves(s)
      BY <1>1, <1>4 DEF Inv, Orderly
    <2>2. record # None => record.hash = job.before
      BY <1>1 DEF Inv, Orderly
    <2> QED BY <1>1, <1>2, <1>3, <2>1, <2>2 DEF Orderly, Serves
  <1>9. Trusting'
    <2> SUFFICES ASSUME ~misled' PROVE Trusting'
      BY DEF Trusting
    <2>1. ~misled /\ ~Misleads
      BY <1>1
    <2>2. Trusted
      BY <1>1, <2>1, EarlyEnd
    <2>3. \A s \in Services : ~needed'[s] => files[s] = job.before[s] /\ Active(s)
      BY <1>4, <2>2 DEF VerifiedCurrent, Trusted, Active
    <2>4. \A s \in Services : Active(s) => Active(s)'
      BY <1>1 DEF Active, Serves
    <2> QED BY <1>1, <1>2, <1>3, <2>3, <2>4 DEF Trusting
  <1> QED BY <1>6, <1>7, <1>8, <1>9 DEF Inv

LEMMA ThrowKeeps == ASSUME Inv, Throw PROVE Inv'
  <1>1. CASE job.doing = "commit"
    BY <1>1, UndoKeeps
  <1>2. CASE job.doing # "commit"
    <2>1. job.doing = "undo"
      BY <1>2 DEF Inv, Shapes
    <2>2. /\ pc # "idle" /\ pc' = "idle" /\ cutShort' /\ misled' = (misled \/ Misleads)
          /\ UNCHANGED <<files, live, up, record, job, needed>>
      BY <2>1 DEF Throw, RolledBack, RestoresHalf, Inv, Shapes
    <2>3. \A s \in Services : Serves(s) => Serves(s)'
      BY <2>2 DEF Serves
    <2> QED BY <2>2, <2>3, CutKeeps DEF Inv, Shapes
  <1> QED BY <1>1, <1>2

LEMMA NextKeeps == ASSUME Inv, [Next]_vars PROVE Inv'
  <1>1. CASE UNCHANGED vars
    <2>1. Quiet /\ live' = live /\ up' = up
      BY <1>1 DEF vars, Quiet
    <2> QED BY <2>1, QuietKeeps DEF Inv, Shapes, Serves, Quiet
  <1>2. CASE Agent
    BY <1>2, WriteFileKeeps, ReloadSmbKeeps, ReloadNfsKeeps, ActivateKeeps, ThrowKeeps DEF Agent
  <1>3. CASE Crash \/ Reboot
    BY <1>3, CrashKeeps, RebootKeeps
  <1>4. CASE \E s \in Shares : Configure(s)
    BY <1>4, ConfigureKeeps
  <1>5. CASE \E s \in Services : Stop(s) \/ StartService(s)
    BY <1>5, StopKeeps, StartServiceKeeps
  <1> QED BY <1>1, <1>2, <1>3, <1>4, <1>5 DEF Next

LEMMA Holds == Spec => []Inv
  BY InitActivation, NextKeeps, PTL DEF Spec

-----------------------------------------------------------------------------
(* Theorems *)

\* While no commit or rollback was cut short, a request that would be answered as
\* a no-op finds the services running what the files say: verifyCurrent().
THEOREM NoopsAreActive == Spec => []NoopIsActive
<1>1. Inv => NoopIsActive
  BY DEF Inv, Orderly, NoopIsActive
<1> QED BY <1>1, Holds, PTL

\* Through stops, failed rollbacks and reboots, a share that verifyCurrent() calls
\* active is served as its file says, unless the record misleads.
THEOREM ActiveIsServed == Spec => []ActiveSharesServed
<1>1. Inv => ActiveSharesServed
  BY DEF Inv, Trusting, Trusted, Active, ActiveSharesServed, VerifiedCurrent
<1> QED BY <1>1, Holds, PTL

\* What is recorded as active is one configuration and not parts of two.
THEOREM RecordIsWhole == Spec => []CurrentIsWhole
<1>1. Inv => CurrentIsWhole
  BY DEF Inv, Wholes, CurrentIsWhole, VerifiedCurrent
<1> QED BY <1>1, Holds, PTL

\* A rollback that comes to its end has put the previous files back, and the
\* services run them.
THEOREM RollbackIsComplete == Spec => []RollbackRestores
<1>1. ASSUME Inv PROVE RollbackRestores
  <2> SUFFICES ASSUME pc = "verify", job.doing = "undo"
               PROVE  /\ files = job.before
                      /\ \A s \in Services :
                            (~cutShort \/ (~misled /\ files[s] # None)) => Serves(s)
    BY DEF RollbackRestores
  <2>1. Undoing /\ files = job.before /\ \A s \in Services : Reloaded(s)
    BY <1>1 DEF Inv, Written, Undoing, Reloaded
  <2> QED BY <1>1, <2>1 DEF Inv, Orderly, Trusting, Active
<1> QED BY <1>1, Holds, PTL
=============================================================================
