-------------------------- MODULE Operations_proofs --------------------------
(***************************************************************************)
(* Theorems about the storage agent's job engine, for every set of jobs,   *)
(* every bound and every number of crashes, failures and edits.            *)
(***************************************************************************)
EXTENDS Operations, SequenceTheorems, TLAPS

-----------------------------------------------------------------------------
(* Types *)

\* A change of status leaves a well-typed map of jobs.
LEMMA SetType ==
    ASSUME NEW j \in Jobs, NEW s \in Statuses, jobs \in Texts
    PROVE  Set(j, s) \in Texts
  BY DEF Set, With, Texts, JobRecord

\* So does replacing one job by another well-typed one.
LEMMA WithType ==
    ASSUME NEW j \in Jobs, NEW r \in JobRecord, jobs \in Texts
    PROVE  With(j, r) \in Texts
  BY DEF With, Texts

\* save() appends a well-typed text.
LEMMA SaveType ==
    ASSUME saving \in Seq(Entries), NEW new \in Texts, NEW c \in Jobs \cup {NoJob},
           Save(new, c)
    PROVE  jobs' \in Texts /\ saving' \in Seq(Entries)
  <1>1. [text |-> new, for |-> c] \in Entries
    BY DEF Entries
  <1> QED BY <1>1, AppendProperties DEF Save

LEMMA SaveAndWaitType ==
    ASSUME saving \in Seq(Entries), NEW new \in Texts, NEW j \in Jobs, NEW at \in Locations,
           pc \in [Jobs -> Locations], io \in [Jobs -> Outcomes],
           SaveAndWait(j, new, at)
    PROVE  /\ jobs' \in Texts /\ saving' \in Seq(Entries)
           /\ pc' \in [Jobs -> Locations]
           /\ io' \in [Jobs -> Outcomes]
  <1>1. jobs' \in Texts /\ saving' \in Seq(Entries)
    BY SaveType DEF SaveAndWait
  <1>2. /\ pc' \in [Jobs -> Locations]
        /\ io' \in [Jobs -> Outcomes]
    BY DEF SaveAndWait, Outcomes
  <1> QED BY <1>1, <1>2

LEMMA GotoType ==
    ASSUME NEW j \in Jobs, NEW at \in Locations,
           pc \in [Jobs -> Locations], io \in [Jobs -> Outcomes],
           Goto(j, at)
    PROVE  /\ pc' \in [Jobs -> Locations]
           /\ io' \in [Jobs -> Outcomes]
  BY DEF Goto, Outcomes

LEMMA InitType == Init => TypeOK
  <1> SUFFICES ASSUME Init PROVE TypeOK
    OBVIOUS
  <1>1. Absent \in JobRecord
    BY DEF Absent, JobRecord, Statuses, Terminal, Rollbacks
  <1>2. jobs \in Texts /\ journal \in Texts
    BY <1>1 DEF Init, Texts
  <1>3. saving \in Seq(Entries)
    BY DEF Init
  <1>4. host \in HostStates /\ plan \in [Jobs -> Plans]
    BY DEF Init, HostStates, Uniform, AllKinds, Plans
  <1>5. pc \in [Jobs -> Locations] /\ io \in [Jobs -> Outcomes]
    BY DEF Init, Locations, Outcomes
  <1>6. written \in [Jobs -> 0..NParts] /\ starts \in [Jobs -> Nat]
    BY BoundsAssumption DEF Init
  <1>7. busy \in BOOLEAN
    BY DEF Init
  <1>8. /\ expired \subseteq Jobs /\ wrote \subseteq Jobs /\ overtaken \subseteq Jobs
        /\ crashes \in Nat /\ faults \in Nat /\ edits \in Nat
    BY DEF Init
  <1> QED
    BY <1>2, <1>3, <1>4, <1>5, <1>6, <1>7, <1>8 DEF TypeOK

\* The facts about a save, a wait and a status that the actions of a job need.
LEMMA SaveTypes ==
    ASSUME TypeOK, NEW j \in Jobs
    PROVE  /\ \A new \in Texts, c \in Jobs \cup {NoJob} :
                  Save(new, c) => jobs' \in Texts /\ saving' \in Seq(Entries)
           /\ \A new \in Texts, at \in Locations : SaveAndWait(j, new, at) =>
                  /\ jobs' \in Texts /\ saving' \in Seq(Entries)
                  /\ pc' \in [Jobs -> Locations] /\ io' \in [Jobs -> Outcomes]
           /\ \A at \in Locations : Goto(j, at) =>
                  pc' \in [Jobs -> Locations] /\ io' \in [Jobs -> Outcomes]
           /\ \A s \in Statuses : Set(j, s) \in Texts
           /\ \A r \in JobRecord : With(j, r) \in Texts
           /\ jobs[j] \in JobRecord
  <1>1. /\ jobs \in Texts /\ saving \in Seq(Entries)
        /\ pc \in [Jobs -> Locations] /\ io \in [Jobs -> Outcomes]
    BY DEF TypeOK
  <1>2. jobs[j] \in JobRecord
    BY <1>1 DEF Texts
  <1> QED BY <1>1, <1>2, SaveType, SaveAndWaitType, GotoType, SetType, WithType

\* Nothing a client asks for breaks the types.
LEMMA ClientType ==
    ASSUME TypeOK, NEW j \in Jobs, Client(j) PROVE TypeOK'
  <1> USE DEF past, spent, work
  <1>1. ASSUME NEW k \in Kinds, NEW v \in Values, BeginPreview(j, k, v) PROVE TypeOK'
    <2>1. [kind |-> k, before |-> host, after |-> Uniform(v)] \in Plans
      BY KindsAssumption DEF TypeOK, Plans, Uniform, HostStates
    <2> QED BY <1>1, <2>1 DEF BeginPreview, TypeOK, Locations
  <1>2. ASSUME NEW old \in Jobs, BeginRollbackPreview(j, old) PROVE TypeOK'
    <2>1. plan[old] \in Plans /\ host \in HostStates
      BY DEF TypeOK
    <2>2. [kind |-> "shares", before |-> host, after |-> plan[old].before] \in Plans
      BY <2>1 DEF Plans, AllKinds
    <2> QED BY <1>2, <2>2 DEF BeginRollbackPreview, TypeOK, Locations
  <1>3. CASE EndPreview(j)
    BY <1>3, SaveTypes DEF EndPreview, TypeOK, Locations, Statuses
  <1>4. CASE RefusePreview(j)
    BY <1>4 DEF RefusePreview, TypeOK, Locations
  <1>5. CASE Expire(j)
    BY <1>5 DEF Expire, TypeOK
  <1>6. CASE Approve(j)
    BY <1>6 DEF Approve, TypeOK, Locations, Holding
  <1>7. CASE Cancel(j)
    <2>1. [jobs[j] EXCEPT !.cancelRequested = TRUE] \in JobRecord
      BY SaveTypes DEF JobRecord
    <2> QED BY <1>7, <2>1, SaveTypes DEF Cancel, TypeOK
  <1> QED BY <1>1, <1>2, <1>3, <1>4, <1>5, <1>6, <1>7 DEF Client

\* Writing one part keeps the host and the counter well typed.
LEMMA WritePartType ==
    ASSUME TypeOK, NEW j \in Jobs, NEW p \in Int, NEW t \in HostStates,
           0 < p, p <= NParts, WritePart(j, p, t)
    PROVE  /\ host' \in HostStates /\ written' \in [Jobs -> 0..NParts]
           /\ wrote' \subseteq Jobs
  BY BoundsAssumption DEF WritePart, TypeOK, HostStates

\* Neither does a step of approve() or execute().
LEMMA EngineType ==
    ASSUME TypeOK, NEW j \in Jobs, Engine(j) PROVE TypeOK'
  <1> USE DEF past, spent, work
  <1> DEFINE r == jobs[j]
  <1>0. /\ r \in JobRecord /\ plan[j] \in Plans
        /\ plan[j].after \in HostStates /\ plan[j].before \in HostStates
        /\ written[j] \in 0..NParts
    BY SaveTypes DEF TypeOK, Plans
  <1>1. CASE ApproveRecheck(j)
    BY <1>1, SaveTypes DEF ApproveRecheck, TypeOK, Locations, Holding, Statuses
  <1>2. CASE ApproveFails(j)
    BY <1>2 DEF ApproveFails, TypeOK, Locations, Outcomes
  <1>3. CASE ApproveEnds(j)
    BY <1>3 DEF ApproveEnds, TypeOK, Locations, Holding, Outcomes
  <1>4. CASE Start(j)
    <2>1. starts' \in [Jobs -> Nat]
      BY <1>4 DEF Start, TypeOK
    <2> QED BY <1>4, <2>1, SaveTypes DEF Start, TypeOK, Locations, Holding, Executing, Statuses
  <1>5. CASE Opened(j)
    BY <1>5, SaveTypes DEF Opened, TypeOK, Locations, Holding, Executing
  <1>6. \A s \in Statuses : Set(j, s) \in Texts
    BY SaveTypes
  <1>7. {"cancelled", "succeeded", "failed", "running", "queued"} \subseteq Statuses
    BY DEF Statuses, Terminal
  <1>8. Executing \subseteq Locations /\ "idle" \in Locations
    BY DEF Locations, Holding
  <1>9. {"cancelling", "committing", "comparing", "rechecking", "applying", "applied",
         "confirming", "creating", "recording", "finishing", "undoing", "noting",
         "failing"} \subseteq Locations
    BY <1>8 DEF Executing
  <1>10. ASSUME StopCancelled(j)
         PROVE  /\ jobs' \in Texts /\ saving' \in Seq(Entries)
                /\ pc' \in [Jobs -> Locations] /\ io' \in [Jobs -> Outcomes]
    BY <1>10, <1>7, <1>9, SaveTypes DEF StopCancelled
  <1>11. ASSUME EnterCommit(j)
         PROVE  /\ jobs' \in Texts /\ saving' \in Seq(Entries)
                /\ pc' \in [Jobs -> Locations] /\ io' \in [Jobs -> Outcomes]
    <2>1. [r EXCEPT !.commitStarted = TRUE,
                    !.rollback = IF plan[j].kind \in Revertible THEN "available" ELSE @]
             \in JobRecord
      BY <1>0 DEF JobRecord, Rollbacks
    <2> QED BY <1>11, <2>1, <1>9, SaveTypes DEF EnterCommit
  <1>12. CASE Validate(j)
    BY <1>12, <1>9, <1>10, SaveTypes DEF Validate, TypeOK
  <1>13. CASE Recheck(j)
    <2>1. overtaken' \subseteq Jobs
      BY <1>13 DEF Recheck, TypeOK
    <2>2. /\ jobs' \in Texts /\ saving' \in Seq(Entries)
          /\ pc' \in [Jobs -> Locations] /\ io' \in [Jobs -> Outcomes]
      BY <1>13, <1>9, <1>10, <1>11, SaveTypes DEF Recheck, TypeOK
    <2> QED BY <1>13, <2>1, <2>2 DEF Recheck, TypeOK
  <1>14. CASE Compare(j)
    BY <1>14, <1>7, <1>9, <1>11, SaveTypes DEF Compare, TypeOK
  <1>15. CASE Committed(j)
    <2>1. written' \in [Jobs -> 0..NParts]
      BY <1>15, BoundsAssumption DEF Committed, TypeOK
    <2> QED BY <1>15, <2>1, <1>9, SaveTypes DEF Committed, TypeOK
  <1>16. CASE Apply(j)
    <2>1. written[j] + 1 \in Int /\ 0 < written[j] + 1 /\ written[j] < NParts
      BY <1>0, <1>16, BoundsAssumption DEF Apply, WritePart
    <2>2. written[j] + 1 <= NParts
      BY <2>1, <1>0, BoundsAssumption
    <2>3. /\ host' \in HostStates /\ written' \in [Jobs -> 0..NParts] /\ wrote' \subseteq Jobs
      BY <2>1, <2>2, <1>0, <1>16, WritePartType DEF Apply
    <2>4. [r EXCEPT !.created = @ + 1] \in JobRecord
      BY <1>0 DEF JobRecord
    <2>5. /\ jobs' \in Texts /\ saving' \in Seq(Entries)
          /\ pc' \in [Jobs -> Locations] /\ io' \in [Jobs -> Outcomes]
      BY <1>16, <2>4, <1>9, SaveTypes DEF Apply, TypeOK
    <2> QED BY <1>16, <2>3, <2>5 DEF Apply, TypeOK
  <1>17. CASE CreatedSaved(j)
    BY <1>17, <1>9, SaveTypes DEF CreatedSaved, TypeOK
  <1>18. CASE Applied(j)
    <2>1. /\ jobs' \in Texts /\ saving' \in Seq(Entries)
          /\ pc' \in [Jobs -> Locations] /\ io' \in [Jobs -> Outcomes]
      <3>1. CASE plan[j].kind = "feature"
        BY <1>18, <3>1, <1>7, <1>9, SaveTypes DEF Applied
      <3>2. CASE plan[j].kind = "protection"
        BY <1>18, <3>2, <1>7, <1>9, SaveTypes DEF Applied, TypeOK
      <3>3. CASE plan[j].kind \notin {"feature", "protection"}
        <4>1. SaveAndWait(j, jobs, "applied") /\ jobs \in Texts
          BY <1>18, <3>3 DEF Applied, TypeOK
        <4> QED BY <4>1, <1>9, SaveTypes
      <3> QED BY <3>1, <3>2, <3>3
    <2> QED BY <1>18, <2>1 DEF Applied, TypeOK
  <1>19. CASE AppliedSaved(j)
    BY <1>19, <1>9, SaveTypes DEF AppliedSaved, TypeOK
  <1>20. CASE Confirm(j)
    BY <1>20, <1>7, <1>9, SaveTypes DEF Confirm, TypeOK
  <1>21. CASE Record(j)
    BY <1>21, <1>9, SaveTypes DEF Record, TypeOK
  <1>22. CASE Finish(j)
    BY <1>22, <1>8, SaveTypes DEF Finish, TypeOK
  <1>23. CASE Catch(j)
    <2> DEFINE j0 == [r EXCEPT !.status = "failed"]
               failed == IF plan[j].kind \in Revertible \/ ~r.commitStarted
                         THEN j0 ELSE [j0 EXCEPT !.rollback = "inspect"]
    <2>1. failed \in JobRecord
      BY <1>0, <1>7 DEF JobRecord, Rollbacks
    <2>2. With(j, failed) \in Texts
      BY <2>1, SaveTypes
    <2> HIDE DEF failed
    <2>3. \/ /\ Goto(j, "undoing") /\ jobs' = With(j, failed)
             /\ written' = [written EXCEPT ![j] = 0] /\ UNCHANGED saving
          \/ Goto(j, "noting") /\ jobs' = With(j, failed) /\ UNCHANGED <<saving, written>>
          \/ SaveAndWait(j, With(j, failed), "failing") /\ UNCHANGED written
      BY <1>23 DEF Catch, failed
    <2>4. written' \in [Jobs -> 0..NParts]
      BY <2>3, BoundsAssumption DEF TypeOK
    <2>5. /\ jobs' \in Texts /\ saving' \in Seq(Entries)
          /\ pc' \in [Jobs -> Locations] /\ io' \in [Jobs -> Outcomes]
      BY <2>2, <2>3, <1>9, SaveTypes DEF TypeOK
    <2> QED BY <1>23, <2>4, <2>5 DEF Catch, TypeOK
  <1>24. CASE Note(j)
    BY <1>24, <1>9, SaveTypes DEF Note, TypeOK
  <1>25. CASE Undo(j)
    <2> DEFINE p == IF plan[j].kind = "resource" THEN NParts - written[j] ELSE written[j] + 1
    <2>1. p \in Int /\ 0 < p /\ p <= NParts
      BY <1>0, <1>25, BoundsAssumption DEF Undo, WritePart
    <2>2. WritePart(j, p, plan[j].before)
      BY <1>25 DEF Undo
    <2> HIDE DEF p
    <2>3. /\ host' \in HostStates /\ written' \in [Jobs -> 0..NParts] /\ wrote' \subseteq Jobs
      BY <2>1, <2>2, <1>0, WritePartType
    <2> QED BY <1>25, <2>3 DEF Undo, TypeOK
  <1>26. CASE Undone(j)
    <2>1. PICK o \in {"restored", "error"} :
              SaveAndWait(j, With(j, [r EXCEPT !.rollback = o]), "failing")
      BY <1>26 DEF Undone
    <2>2. [r EXCEPT !.rollback = o] \in JobRecord
      BY <1>0 DEF JobRecord, Rollbacks
    <2> QED BY <1>26, <2>1, <2>2, <1>9, SaveTypes DEF Undone, TypeOK
  <1> QED
    BY <1>1, <1>2, <1>3, <1>4, <1>5, <1>12, <1>13, <1>14, <1>15, <1>16, <1>17, <1>18,
       <1>19, <1>20, <1>21, <1>22, <1>23, <1>24, <1>25, <1>26 DEF Engine

\* Nor do the journal, a restart or an edit.
LEMMA WorldType ==
    ASSUME TypeOK, WriteJournal \/ FailJournal \/ Restart
                   \/ \E p \in 1..NParts, v \in Values : Edit(p, v)
    PROVE  TypeOK'
  <1> USE DEF past, spent, work
  <1>1. ASSUME saving # <<>>
        PROVE  /\ Head(saving).text \in Texts /\ Tail(saving) \in Seq(Entries)
               /\ \A o \in {"ok", "error"} :
                      Answer(Head(saving), o) => io' \in [Jobs -> Outcomes]
    <2>1. Head(saving) \in Entries /\ Tail(saving) \in Seq(Entries)
      BY <1>1, HeadTailProperties DEF TypeOK
    <2> QED BY <2>1 DEF Answer, Entries, TypeOK, Outcomes
  <1>2. CASE WriteJournal
    BY <1>1, <1>2 DEF WriteJournal, TypeOK
  <1>3. CASE FailJournal
    <2>1. faults' \in Nat
      BY <1>3 DEF FailJournal, TypeOK
    <2> QED BY <1>1, <1>3, <2>1 DEF FailJournal, TypeOK
  <1>4. CASE Restart
    <2>1. Recovered \in Texts
      BY DEF Recovered, TypeOK, Texts, JobRecord, Statuses, Terminal
    <2>2. crashes' \in Nat /\ saving' \in Seq(Entries)
      BY <1>4 DEF Restart, TypeOK
    <2>3. pc' \in [Jobs -> Locations] /\ io' \in [Jobs -> Outcomes] /\ busy' \in BOOLEAN
      BY <1>4 DEF Restart, Locations, Outcomes
    <2>4. jobs' \in Texts /\ journal' \in Texts
      BY <1>4, <2>1 DEF Restart
    <2> QED BY <1>4, <2>2, <2>3, <2>4 DEF Restart, TypeOK
  <1>5. ASSUME NEW p \in 1..NParts, NEW v \in Values, Edit(p, v) PROVE TypeOK'
    <2>1. edits' \in Nat /\ host' \in HostStates /\ overtaken' \subseteq Jobs
      BY <1>5 DEF Edit, TypeOK, HostStates
    <2> QED BY <1>5, <2>1 DEF Edit, TypeOK
  <1> QED BY <1>2, <1>3, <1>4, <1>5

\* Every variable of the engine keeps to its type.
THEOREM Typing == Spec => []TypeOK
  <1>1. TypeOK /\ [Next]_vars => TypeOK'
    <2> SUFFICES ASSUME TypeOK, [Next]_vars PROVE TypeOK'
      OBVIOUS
    <2>1. CASE Next
      BY <2>1, ClientType, EngineType, WorldType DEF Next
    <2>2. CASE UNCHANGED vars
      BY <2>2 DEF vars, work, past, spent, TypeOK
    <2> QED BY <2>1, <2>2
  <1> QED BY <1>1, InitType, PTL DEF Spec

-----------------------------------------------------------------------------
(* One mutation at a time *)

\* A step of approve() or execute() is taken by the job that holds the slot;
\* the job keeps it, or gives it back and is done.
LEMMA EngineSlot ==
    ASSUME TypeOK, NEW j \in Jobs, Engine(j)
    PROVE  /\ pc[j] \in Holding
           /\ \/ busy' = busy /\ pc' = pc
              \/ busy' = busy /\ \E at \in Holding : pc' = [pc EXCEPT ![j] = at]
              \/ busy' = FALSE /\ pc' = [pc EXCEPT ![j] = "idle"]
  <1> USE DEF past, spent, work, Holding, Executing
  <1>1. CASE ApproveRecheck(j) BY <1>1 DEF ApproveRecheck, SaveAndWait
  <1>2. CASE ApproveFails(j) BY <1>2 DEF ApproveFails
  <1>3. CASE ApproveEnds(j) BY <1>3 DEF ApproveEnds
  <1>4. CASE Start(j) BY <1>4 DEF Start, SaveAndWait
  <1>5. CASE Opened(j) BY <1>5 DEF Opened, Goto
  <1>6. CASE Validate(j) BY <1>6 DEF Validate, StopCancelled, SaveAndWait, Goto
  <1>7. CASE Recheck(j)
    BY <1>7 DEF Recheck, StopCancelled, EnterCommit, SaveAndWait, Goto
  <1>8. CASE Compare(j) BY <1>8 DEF Compare, EnterCommit, SaveAndWait
  <1>9. CASE Committed(j) BY <1>9 DEF Committed, Goto
  <1>10. CASE Apply(j) BY <1>10 DEF Apply, SaveAndWait
  <1>11. CASE CreatedSaved(j) BY <1>11 DEF CreatedSaved, Goto
  <1>12. CASE Applied(j)
    <2>1. \E at \in Holding : pc' = [pc EXCEPT ![j] = at]
      <3>1. CASE plan[j].kind = "feature"
        BY <1>12, <3>1 DEF Applied, SaveAndWait
      <3>2. CASE plan[j].kind = "protection"
        BY <1>12, <3>2 DEF Applied, Goto
      <3>3. CASE plan[j].kind \notin {"feature", "protection"}
        BY <1>12, <3>3 DEF Applied, SaveAndWait
      <3> QED BY <3>1, <3>2, <3>3
    <2> QED BY <1>12, <2>1 DEF Applied
  <1>13. CASE AppliedSaved(j) BY <1>13 DEF AppliedSaved, Goto
  <1>14. CASE Confirm(j) BY <1>14 DEF Confirm, SaveAndWait
  <1>15. CASE Record(j) BY <1>15 DEF Record, SaveAndWait
  <1>16. CASE Finish(j) BY <1>16 DEF Finish, Goto
  <1>17. CASE Catch(j)
    <2>1. \E at \in {"undoing", "noting", "failing"} : pc' = [pc EXCEPT ![j] = at]
      BY <1>17 DEF Catch, SaveAndWait, Goto
    <2>2. pc[j] \in Holding /\ busy' = busy
      BY <1>17 DEF Catch, Throws
    <2> QED BY <2>1, <2>2
  <1>18. CASE Note(j) BY <1>18 DEF Note, SaveAndWait
  <1>19. CASE Undo(j) BY <1>19 DEF Undo
  <1>20. CASE Undone(j) BY <1>20 DEF Undone, SaveAndWait
  <1> QED
    BY <1>1, <1>2, <1>3, <1>4, <1>5, <1>6, <1>7, <1>8, <1>9, <1>10, <1>11, <1>12, <1>13,
       <1>14, <1>15, <1>16, <1>17, <1>18, <1>19, <1>20 DEF Engine

\* A client takes the slot only when it is free.
LEMMA ClientSlot ==
    ASSUME TypeOK, NEW j \in Jobs, Client(j)
    PROVE  \/ busy' = busy /\ pc' = pc
           \/ /\ busy' = busy /\ pc[j] \notin Holding
              /\ \E at \in {"idle", "planning"} : pc' = [pc EXCEPT ![j] = at]
           \/ ~busy /\ busy' = TRUE /\ pc' = [pc EXCEPT ![j] = "approving"]
  BY DEF Client, BeginPreview, BeginRollbackPreview, EndPreview, RefusePreview, Expire,
         Approve, Cancel, work, Holding, Executing

\* The slot is taken exactly while one job is between its approval and the end
\* of its execution.
THEOREM MutualExclusion == Spec => []OneMutation
  <1>1. Init => OneMutation
    BY DEF Init, OneMutation, Holding, Executing
  <1>2. TypeOK /\ OneMutation /\ [Next]_vars => OneMutation'
    <2> SUFFICES ASSUME TypeOK, OneMutation, [Next]_vars PROVE OneMutation'
      OBVIOUS
    <2>0. pc \in [Jobs -> Locations] /\ busy \in BOOLEAN
      BY DEF TypeOK
    <2>1. ASSUME NEW j \in Jobs, Client(j) PROVE OneMutation'
      <3>1. CASE busy' = busy /\ pc' = pc
        BY <3>1 DEF OneMutation
      <3>2. CASE /\ busy' = busy /\ pc[j] \notin Holding
                 /\ \E at \in {"idle", "planning"} : pc' = [pc EXCEPT ![j] = at]
        <4>1. \A i \in Jobs : pc'[i] \in Holding <=> pc[i] \in Holding
          BY <2>0, <3>2 DEF Holding, Executing
        <4> QED BY <4>1, <3>2 DEF OneMutation
      <3>3. CASE ~busy /\ busy' = TRUE /\ pc' = [pc EXCEPT ![j] = "approving"]
        <4>1. \A i \in Jobs : pc'[i] \in Holding <=> i = j
          BY <2>0, <3>3 DEF OneMutation, Holding
        <4> QED BY <4>1, <3>3 DEF OneMutation
      <3> QED BY <2>1, <3>1, <3>2, <3>3, ClientSlot
    <2>2. ASSUME NEW j \in Jobs, Engine(j) PROVE OneMutation'
      <3>0. pc[j] \in Holding
        BY <2>2, EngineSlot
      <3>1. CASE busy' = busy /\ pc' = pc
        BY <3>1 DEF OneMutation
      <3>2. CASE busy' = busy /\ \E at \in Holding : pc' = [pc EXCEPT ![j] = at]
        <4>1. \A i \in Jobs : pc'[i] \in Holding <=> pc[i] \in Holding
          BY <2>0, <3>0, <3>2
        <4> QED BY <4>1, <3>2 DEF OneMutation
      <3>3. CASE busy' = FALSE /\ pc' = [pc EXCEPT ![j] = "idle"]
        <4>1. \A i \in Jobs : pc'[i] \notin Holding
          BY <2>0, <3>0, <3>3 DEF OneMutation, Holding, Executing
        <4> QED BY <4>1, <3>3 DEF OneMutation
      <3> QED BY <2>2, <3>1, <3>2, <3>3, EngineSlot
    <2>3. CASE WriteJournal \/ FailJournal \/ \E p \in 1..NParts, v \in Values : Edit(p, v)
      BY <2>3 DEF WriteJournal, FailJournal, Edit, OneMutation, work
    <2>4. CASE Restart
      BY <2>4 DEF Restart, OneMutation, Holding, Executing
    <2>5. CASE UNCHANGED vars
      BY <2>5 DEF vars, work, OneMutation
    <2> QED BY <2>1, <2>2, <2>3, <2>4, <2>5 DEF Next
  <1> QED BY <1>1, <1>2, Typing, PTL DEF Spec

-----------------------------------------------------------------------------
(* No approval is used twice *)

\* The record says that the job's approval was used.
Used(r) == r.status \notin {"absent", "preview"}

\* Time does not go back along journal, chained writes and memory: a job whose
\* approval is used in one of them has it used in all the later ones.
Monotone ==
    \A j \in Jobs :
        /\ Used(journal[j]) =>
              Used(jobs[j]) /\ \A k \in 1..Len(saving) : Used(saving[k].text[j])
        /\ \A k \in 1..Len(saving) : Used(saving[k].text[j]) =>
              Used(jobs[j]) /\ \A l \in k..Len(saving) : Used(saving[l].text[j])

\* What a job's own call awaits to be written has its approval used.
Own ==
    \A k \in 1..Len(saving) :
        saving[k].for \in Jobs => Used(saving[k].text[saving[k].for])

\* How far the records of a job are when its call waits at pc[j].
Stages ==
    \A j \in Jobs :
        /\ pc[j] = "planning" => jobs[j].status = "absent"
        /\ pc[j] = "approving" => jobs[j].status = "preview"
        /\ pc[j] = "queueing" => Used(jobs[j])
        /\ pc[j] = "queueing" /\ io[j] = "ok" => Used(journal[j])
        /\ pc[j] \in {"scheduled"} \cup Executing => Used(journal[j])

\* A job that was started cannot be on its way to a start again.
Once ==
    \A j \in Jobs :
        /\ starts[j] <= 1
        /\ starts[j] = 1 =>
              Used(journal[j]) /\ pc[j] \notin {"approving", "queueing", "scheduled"}

RunInv == Monotone /\ Own /\ Stages /\ Once

\* Setting a status other than "absent" and "preview" uses the approval.
LEMMA SetUsed ==
    ASSUME jobs \in Texts, NEW j \in Jobs,
           NEW s \in Statuses \ {"absent", "preview"}
    PROVE  Used(Set(j, s)[j]) /\ \A i \in Jobs \ {j} : Set(j, s)[i] = jobs[i]
  BY DEF Set, With, Used, Texts, JobRecord

\* A save that uses approvals and takes none back keeps the order.
LEMMA SaveKeepsOrder ==
    ASSUME TypeOK, Monotone, Own, NEW new \in Texts, NEW c \in Jobs \cup {NoJob},
           Save(new, c), journal' = journal,
           \A i \in Jobs : Used(jobs[i]) => Used(new[i]),
           c \in Jobs => Used(new[c])
    PROVE  Monotone' /\ Own'
  <1> DEFINE e == [text |-> new, for |-> c]
  <1>1. e \in Entries /\ saving \in Seq(Entries) /\ jobs' = new /\ saving' = Append(saving, e)
    BY DEF Save, Entries, TypeOK
  <1>2. /\ Len(saving') = Len(saving) + 1 /\ Len(saving) \in Nat
        /\ saving'[Len(saving) + 1] = e
        /\ \A k \in 1..Len(saving) : saving'[k] = saving[k]
    BY <1>1, AppendProperties, LenProperties
  <1>3. e.text = new /\ e.for = c
    OBVIOUS
  <1> HIDE DEF e
  <1>4. Monotone'
    BY <1>1, <1>2, <1>3 DEF Monotone
  <1>5. Own'
    BY <1>1, <1>2, <1>3 DEF Own
  <1> QED BY <1>4, <1>5

\* So does a change of the jobs that is not saved yet.
LEMMA MemoryKeepsOrder ==
    ASSUME Monotone, Own, saving' = saving, journal' = journal,
           \A i \in Jobs : Used(jobs[i]) => Used(jobs'[i])
    PROVE  Monotone' /\ Own'
  BY DEF Monotone, Own

\* And the end of the first chained write, made or failed.
LEMMA WriteKeepsOrder ==
    ASSUME TypeOK, Monotone, Own, saving # <<>>, saving' = Tail(saving), jobs' = jobs,
           journal' = journal \/ journal' = Head(saving).text
    PROVE  Monotone' /\ Own'
  <1>1. saving \in Seq(Entries) /\ Len(saving) \in Nat /\ Len(saving) > 0
    BY LenProperties, EmptySeq DEF TypeOK
  <1>2. /\ Head(saving) = saving[1] /\ Len(saving') = Len(saving) - 1
        /\ \A k \in 1..Len(saving') : saving'[k] = saving[k + 1]
    BY <1>1, HeadTailProperties
  <1>3. Monotone'
    BY <1>1, <1>2 DEF Monotone
  <1>4. Own'
    BY <1>1, <1>2 DEF Own
  <1> QED BY <1>3, <1>4

\* What a step of approve() or execute() does to the records.
LEMMA EngineRecords ==
    ASSUME TypeOK, RunInv, NEW j \in Jobs, Engine(j)
    PROVE  /\ journal' = journal
           /\ \A i \in Jobs \ {j} : jobs'[i] = jobs[i] /\ io'[i] = io[i] /\ starts'[i] = starts[i]
           /\ \/ jobs' = jobs /\ saving' = saving
              \/ Used(jobs'[j]) /\ saving' = saving
              \/ Used(jobs'[j]) /\ Save(jobs', j)
           /\ \/ pc[j] = "approving" /\ pc'[j] = "queueing" /\ io'[j] = "pending"
                   /\ Used(jobs'[j]) /\ starts' = starts
              \/ pc'[j] = "idle" /\ starts' = starts
              \/ pc[j] = "queueing" /\ io[j] = "ok" /\ pc'[j] = "scheduled" /\ starts' = starts
              \/ pc[j] = "scheduled" /\ pc'[j] = "opening"
                   /\ starts'[j] = starts[j] + 1
              \/ pc[j] \in Executing /\ pc'[j] \in Executing /\ starts' = starts
  <1> USE DEF past, spent, work
  <1>0. /\ jobs \in Texts /\ pc \in [Jobs -> Locations] /\ io \in [Jobs -> Outcomes]
        /\ starts \in [Jobs -> Nat]
    BY DEF TypeOK
  <1>a. pc[j] \in Executing => Used(jobs[j])
    BY DEF RunInv, Stages, Monotone
  <1>b. {"cancelled", "succeeded", "failed", "running", "queued"} \subseteq
             Statuses \ {"absent", "preview"}
    BY DEF Statuses, Terminal
  <1>c. \A s \in {"cancelled", "succeeded", "failed", "running", "queued"} :
             Used(Set(j, s)[j]) /\ \A i \in Jobs \ {j} : Set(j, s)[i] = jobs[i]
    BY <1>0, <1>b, SetUsed
  <1>d. \A r \in JobRecord : /\ With(j, r)[j] = r
                             /\ \A i \in Jobs \ {j} : With(j, r)[i] = jobs[i]
    BY <1>0 DEF With, Texts
  <1>r. jobs[j] \in JobRecord
    BY <1>0 DEF Texts
  <1>p. \A at : SaveAndWait(j, jobs', at) =>
            /\ pc'[j] = at /\ io'[j] = "pending"
            /\ \A i \in Jobs \ {j} : io'[i] = io[i]
            /\ Save(jobs', j)
    BY <1>0 DEF SaveAndWait
  <1>q. \A at : Goto(j, at) => pc'[j] = at /\ \A i \in Jobs \ {j} : io'[i] = io[i]
    BY <1>0 DEF Goto
  <1>s. \A at, new : SaveAndWait(j, new, at) => jobs' = new /\ SaveAndWait(j, jobs', at)
    BY DEF SaveAndWait, Save
  <1>1. CASE ApproveRecheck(j)
    BY <1>1, <1>c, <1>p, <1>s DEF ApproveRecheck
  <1>2. CASE ApproveFails(j)
    BY <1>2, <1>0 DEF ApproveFails
  <1>3. CASE ApproveEnds(j)
    BY <1>3, <1>0 DEF ApproveEnds, Saved
  <1>4. CASE Start(j)
    BY <1>4, <1>0, <1>c, <1>p, <1>s DEF Start
  <1> DEFINE Keeps == /\ journal' = journal /\ starts' = starts
                      /\ pc[j] \in Executing
                      /\ pc'[j] \in Executing \cup {"idle"}
                      /\ \A i \in Jobs \ {j} : jobs'[i] = jobs[i] /\ io'[i] = io[i]
                      /\ \/ jobs' = jobs /\ saving' = saving
                         \/ Used(jobs'[j]) /\ saving' = saving
                         \/ Used(jobs'[j]) /\ Save(jobs', j)
  <1>e. ASSUME StopCancelled(j)
        PROVE  /\ Used(jobs'[j]) /\ Save(jobs', j) /\ pc'[j] \in Executing
               /\ \A i \in Jobs \ {j} : jobs'[i] = jobs[i] /\ io'[i] = io[i]
    BY <1>e, <1>c, <1>p, <1>s DEF StopCancelled, Executing
  <1>f. ASSUME EnterCommit(j), pc[j] \in Executing
        PROVE  /\ Used(jobs'[j]) /\ Save(jobs', j) /\ pc'[j] \in Executing
               /\ \A i \in Jobs \ {j} : jobs'[i] = jobs[i] /\ io'[i] = io[i]
    <2> DEFINE r == [jobs[j] EXCEPT !.commitStarted = TRUE,
                         !.rollback = IF plan[j].kind \in Revertible THEN "available" ELSE @]
    <2>1. r \in JobRecord /\ r.status = jobs[j].status
      BY <1>r DEF JobRecord, Rollbacks
    <2>2. Used(r)
      BY <2>1, <1>a, <1>f DEF Used
    <2>3. SaveAndWait(j, With(j, r), "committing")
      BY <1>f DEF EnterCommit
    <2> HIDE DEF r
    <2>4. /\ jobs' = With(j, r) /\ Save(jobs', j) /\ pc'[j] = "committing"
          /\ \A i \in Jobs \ {j} : io'[i] = io[i]
      BY <2>3, <1>p, <1>s
    <2> QED BY <2>1, <2>2, <2>4, <1>d DEF Executing
  <1>5. CASE Opened(j)
    BY <1>5, <1>q DEF Opened, Executing
  <1>6. CASE Validate(j)
    BY <1>6, <1>e, <1>q DEF Validate, Executing
  <1>7. CASE Recheck(j)
    <2>1. pc[j] \in Executing
      BY <1>7 DEF Recheck, Executing
    <2>2. CASE StopCancelled(j) BY <2>1, <2>2, <1>7, <1>e DEF Recheck
    <2>3. CASE EnterCommit(j) BY <2>1, <2>3, <1>7, <1>f DEF Recheck
    <2>4. CASE Goto(j, "comparing") /\ UNCHANGED <<jobs, saving>>
      BY <2>1, <2>4, <1>7, <1>q DEF Recheck, Executing
    <2> QED BY <2>2, <2>3, <2>4, <1>7 DEF Recheck
  <1>8. CASE Compare(j)
    <2>1. pc[j] \in Executing /\ journal' = journal /\ starts' = starts
      BY <1>8 DEF Compare, Executing
    <2>2. CASE EnterCommit(j) BY <2>1, <2>2, <1>f
    <2>3. CASE SaveAndWait(j, Set(j, "succeeded"), "finishing")
      BY <2>1, <2>3, <1>c, <1>p, <1>s DEF Executing
    <2> QED BY <2>2, <2>3, <1>8 DEF Compare
  <1>9. CASE Committed(j)
    BY <1>9, <1>q DEF Committed, Executing
  <1>10. CASE Apply(j)
    <2>1. pc[j] \in Executing /\ journal' = journal /\ starts' = starts
      BY <1>10 DEF Apply, Executing
    <2>2. CASE UNCHANGED <<jobs, saving, pc, io>>
      BY <2>1, <2>2
    <2>3. CASE SaveAndWait(j, With(j, [jobs[j] EXCEPT !.created = @ + 1]), "creating")
      <3> DEFINE r == [jobs[j] EXCEPT !.created = @ + 1]
      <3>1. r \in JobRecord /\ Used(r)
        BY <1>r, <1>a, <2>1 DEF JobRecord, Used
      <3> HIDE DEF r
      <3>2. /\ jobs' = With(j, r) /\ Save(jobs', j) /\ pc'[j] = "creating"
            /\ \A i \in Jobs \ {j} : io'[i] = io[i]
        BY <2>3, <1>p, <1>s DEF r
      <3> QED BY <2>1, <3>1, <3>2, <1>d DEF Executing
    <2> QED BY <2>2, <2>3, <1>10 DEF Apply
  <1>11. CASE CreatedSaved(j)
    BY <1>11, <1>q DEF CreatedSaved, Executing
  <1>12. CASE Applied(j)
    <2>1. pc[j] \in Executing /\ journal' = journal /\ starts' = starts
      BY <1>12 DEF Applied, Executing
    <2>2. CASE SaveAndWait(j, Set(j, "succeeded"), "finishing")
      BY <2>1, <2>2, <1>c, <1>p, <1>s DEF Executing
    <2>3. CASE Goto(j, "recording") /\ jobs' = Set(j, "succeeded") /\ UNCHANGED saving
      BY <2>1, <2>3, <1>c, <1>q DEF Executing
    <2>4. CASE SaveAndWait(j, jobs, "applied")
      BY <2>1, <2>4, <1>a, <1>p, <1>s DEF Executing
    <2> QED BY <2>2, <2>3, <2>4, <1>12 DEF Applied
  <1>13. CASE AppliedSaved(j)
    BY <1>13, <1>q DEF AppliedSaved, Executing
  <1>14. CASE Confirm(j)
    BY <1>14, <1>c, <1>p, <1>s DEF Confirm, Executing
  <1>15. CASE Record(j)
    BY <1>15, <1>a, <1>p, <1>s DEF Record, Executing
  <1>16. CASE Finish(j)
    BY <1>16, <1>q DEF Finish, Executing
  <1>17. CASE Catch(j)
    <2> DEFINE j0 == [jobs[j] EXCEPT !.status = "failed"]
               failed == IF plan[j].kind \in Revertible \/ ~jobs[j].commitStarted
                         THEN j0 ELSE [j0 EXCEPT !.rollback = "inspect"]
    <2>1. failed \in JobRecord /\ Used(failed)
      BY <1>r, <1>b DEF JobRecord, Rollbacks, Used
    <2> HIDE DEF failed
    <2>2. /\ pc[j] \in Executing /\ journal' = journal /\ starts' = starts
          /\ \/ /\ \E at \in {"undoing", "noting"} : Goto(j, at)
                /\ jobs' = With(j, failed) /\ saving' = saving
             \/ SaveAndWait(j, With(j, failed), "failing")
      BY <1>17 DEF Catch, Throws, Executing, failed
    <2>3. CASE SaveAndWait(j, With(j, failed), "failing")
      BY <2>1, <2>2, <2>3, <1>d, <1>p, <1>s DEF Executing
    <2>4. CASE /\ \E at \in {"undoing", "noting"} : Goto(j, at)
               /\ jobs' = With(j, failed) /\ saving' = saving
      BY <2>1, <2>2, <2>4, <1>d, <1>q DEF Executing
    <2> QED BY <2>2, <2>3, <2>4
  <1>18. CASE Note(j)
    BY <1>18, <1>a, <1>p, <1>s DEF Note, Executing
  <1>19. CASE Undo(j)
    BY <1>19 DEF Undo, Executing
  <1>20. CASE Undone(j)
    <2>1. PICK o \in {"restored", "error"} :
              SaveAndWait(j, With(j, [jobs[j] EXCEPT !.rollback = o]), "failing")
      BY <1>20 DEF Undone
    <2> DEFINE r == [jobs[j] EXCEPT !.rollback = o]
    <2>2. pc[j] \in Executing /\ journal' = journal /\ starts' = starts
      BY <1>20 DEF Undone, Executing
    <2>3. r \in JobRecord /\ Used(r)
      BY <1>r, <1>a, <2>2 DEF JobRecord, Rollbacks, Used
    <2> HIDE DEF r
    <2>4. /\ jobs' = With(j, r) /\ Save(jobs', j) /\ pc'[j] = "failing"
          /\ \A i \in Jobs \ {j} : io'[i] = io[i]
      BY <2>1, <1>p, <1>s DEF r
    <2> QED BY <2>2, <2>3, <2>4, <1>d DEF Executing
  <1> QED
    BY <1>1, <1>2, <1>3, <1>4, <1>5, <1>6, <1>7, <1>8, <1>9, <1>10, <1>11, <1>12, <1>13,
       <1>14, <1>15, <1>16, <1>17, <1>18, <1>19, <1>20 DEF Engine

\* A step of approve() or execute() preserves the invariant.
LEMMA EngineRuns ==
    ASSUME TypeOK, TypeOK', RunInv, NEW j \in Jobs, Engine(j) PROVE RunInv'
  <1>0. /\ pc \in [Jobs -> Locations] /\ pc' \in [Jobs -> Locations]
        /\ jobs \in Texts /\ jobs' \in Texts
        /\ starts \in [Jobs -> Nat] /\ starts' \in [Jobs -> Nat]
    BY DEF TypeOK
  <1>1. /\ journal' = journal
        /\ \A i \in Jobs \ {j} : jobs'[i] = jobs[i] /\ io'[i] = io[i] /\ starts'[i] = starts[i]
        /\ \/ jobs' = jobs /\ saving' = saving
           \/ Used(jobs'[j]) /\ saving' = saving
           \/ Used(jobs'[j]) /\ Save(jobs', j)
    BY EngineRecords
  <1>2. Monotone' /\ Own'
    <2>1. \A i \in Jobs : Used(jobs[i]) => Used(jobs'[i])
      BY <1>1
    <2>2. CASE saving' = saving
      BY <1>1, <2>1, <2>2, MemoryKeepsOrder DEF RunInv
    <2>3. CASE Used(jobs'[j]) /\ Save(jobs', j)
      BY <1>0, <1>1, <2>1, <2>3, SaveKeepsOrder DEF RunInv
    <2> QED BY <1>1, <2>2, <2>3
  <1>3. \A i \in Jobs \ {j} : pc'[i] = pc[i]
    BY <1>0, EngineSlot
  <1>4. \/ pc[j] = "approving" /\ pc'[j] = "queueing" /\ io'[j] = "pending"
           /\ Used(jobs'[j]) /\ starts' = starts
        \/ pc'[j] = "idle" /\ starts' = starts
        \/ pc[j] = "queueing" /\ io[j] = "ok" /\ pc'[j] = "scheduled" /\ starts' = starts
        \/ pc[j] = "scheduled" /\ pc'[j] = "opening" /\ starts'[j] = starts[j] + 1
        \/ pc[j] \in Executing /\ pc'[j] \in Executing /\ starts' = starts
    BY EngineRecords
  <1>5. Stages'
    <2>1. \A i \in Jobs \ {j} :
             /\ pc'[i] = "planning" => jobs'[i].status = "absent"
             /\ pc'[i] = "approving" => jobs'[i].status = "preview"
             /\ pc'[i] = "queueing" => Used(jobs'[i])
             /\ pc'[i] = "queueing" /\ io'[i] = "ok" => Used(journal'[i])
             /\ pc'[i] \in {"scheduled"} \cup Executing => Used(journal'[i])
      BY <1>1, <1>3 DEF RunInv, Stages
    <2>2. /\ pc'[j] = "planning" => jobs'[j].status = "absent"
          /\ pc'[j] = "approving" => jobs'[j].status = "preview"
          /\ pc'[j] = "queueing" => Used(jobs'[j])
          /\ pc'[j] = "queueing" /\ io'[j] = "ok" => Used(journal'[j])
          /\ pc'[j] \in {"scheduled"} \cup Executing => Used(journal'[j])
      <3> USE DEF RunInv, Stages
      <3>1. "opening" \in Executing /\ "queueing" \notin Executing /\ "scheduled" \notin Executing
            /\ "planning" \notin Executing /\ "approving" \notin Executing /\ "idle" \notin Executing
        BY DEF Executing
      <3> QED BY <1>1, <1>4, <3>1
    <2> QED BY <2>1, <2>2 DEF Stages
  <1>6. Once'
    <2>1. \A i \in Jobs \ {j} :
             /\ starts'[i] <= 1
             /\ starts'[i] = 1 =>
                   Used(journal'[i]) /\ pc'[i] \notin {"approving", "queueing", "scheduled"}
      BY <1>1, <1>3 DEF RunInv, Once
    <2>2. /\ starts'[j] <= 1
          /\ starts'[j] = 1 =>
                Used(journal'[j]) /\ pc'[j] \notin {"approving", "queueing", "scheduled"}
      <3>1. "opening" \in Executing /\ "queueing" \notin Executing /\ "scheduled" \notin Executing
            /\ "approving" \notin Executing
        BY DEF Executing
      <3>2. CASE pc[j] = "scheduled" /\ pc'[j] = "opening" /\ starts'[j] = starts[j] + 1
        <4>1. starts[j] = 0 /\ Used(journal[j])
          BY <1>0, <3>2 DEF RunInv, Once, Stages
        <4> QED BY <1>0, <1>1, <3>2, <4>1
      <3>3. CASE starts' = starts
        BY <1>1, <1>4, <3>1, <3>3 DEF RunInv, Once
      <3> QED BY <1>4, <3>2, <3>3
    <2> QED BY <2>1, <2>2 DEF Once
  <1> QED BY <1>2, <1>5, <1>6 DEF RunInv

\* So does a request of a client.
LEMMA ClientRuns ==
    ASSUME TypeOK, TypeOK', RunInv, NEW j \in Jobs, Client(j) PROVE RunInv'
  <1> USE DEF past, work
  <1>0. /\ pc \in [Jobs -> Locations] /\ jobs \in Texts /\ jobs[j] \in JobRecord
    BY DEF TypeOK, Texts
  <1>1. ASSUME UNCHANGED <<jobs, saving, journal, io, starts>>,
               \/ pc' = pc
               \/ /\ pc' = [pc EXCEPT ![j] = "planning"] /\ jobs[j].status = "absent"
                  /\ pc[j] = "idle"
               \/ pc' = [pc EXCEPT ![j] = "idle"]
               \/ pc' = [pc EXCEPT ![j] = "approving"] /\ jobs[j].status = "preview"
        PROVE  RunInv'
    <2>1. Monotone' /\ Own'
      BY <1>1, MemoryKeepsOrder DEF RunInv
    <2>2. Stages'
      BY <1>0, <1>1 DEF RunInv, Stages, Executing
    <2>3. Once'
      BY <1>0, <1>1 DEF RunInv, Once, Monotone, Used
    <2> QED BY <2>1, <2>2, <2>3 DEF RunInv
  <1>2. CASE \/ \E k \in Kinds, v \in Values : BeginPreview(j, k, v)
             \/ \E old \in Jobs : BeginRollbackPreview(j, old)
             \/ RefusePreview(j) \/ Expire(j) \/ Approve(j)
    BY <1>1, <1>2 DEF BeginPreview, BeginRollbackPreview, RefusePreview, Expire, Approve
  <1>3. CASE EndPreview(j)
    <2>1. /\ jobs' = Set(j, "preview") /\ Save(jobs', NoJob) /\ journal' = journal
          /\ pc[j] = "planning" /\ pc' = [pc EXCEPT ![j] = "idle"]
          /\ io' = io /\ starts' = starts
      BY <1>3 DEF EndPreview, Save
    <2>2. \A i \in Jobs \ {j} : jobs'[i] = jobs[i]
      BY <1>0, <2>1 DEF Set, With, Texts
    <2>3. ~Used(jobs[j])
      BY <2>1 DEF RunInv, Stages, Used
    <2>4. Monotone' /\ Own'
      BY <2>1, <2>2, <2>3, SaveKeepsOrder, JobsAssumption DEF RunInv, TypeOK
    <2>5. Stages'
      BY <1>0, <2>1, <2>2 DEF RunInv, Stages, Executing
    <2>6. Once'
      BY <1>0, <2>1 DEF RunInv, Once
    <2> QED BY <2>4, <2>5, <2>6 DEF RunInv
  <1>4. CASE Cancel(j)
    <2> DEFINE r == [jobs[j] EXCEPT !.cancelRequested = TRUE]
    <2>1. r.status = jobs[j].status /\ r \in JobRecord
      BY <1>0 DEF JobRecord
    <2>2. /\ jobs' = With(j, r) /\ Save(jobs', NoJob) /\ journal' = journal
          /\ pc' = pc /\ io' = io /\ starts' = starts
      BY <1>4 DEF Cancel, Save
    <2> HIDE DEF r
    <2>3. jobs'[j] = r /\ \A i \in Jobs \ {j} : jobs'[i] = jobs[i]
      BY <1>0, <2>2 DEF With, Texts
    <2>4. \A i \in Jobs : jobs'[i].status = jobs[i].status
      BY <2>1, <2>3
    <2>5. Monotone' /\ Own'
      BY <2>2, <2>4, SaveKeepsOrder, JobsAssumption DEF RunInv, TypeOK, Used
    <2>6. Stages'
      BY <2>2, <2>4 DEF RunInv, Stages, Used
    <2>7. Once'
      BY <2>2 DEF RunInv, Once
    <2> QED BY <2>5, <2>6, <2>7 DEF RunInv
  <1> QED BY <1>2, <1>3, <1>4 DEF Client

\* So does the end of a journal write: a job whose own write was made is
\* durably used, because its own text says so.
LEMMA WriteRuns ==
    ASSUME TypeOK, RunInv, WriteJournal \/ FailJournal PROVE RunInv'
  <1> USE DEF past
  <1>1. /\ saving # <<>> /\ saving' = Tail(saving) /\ jobs' = jobs
        /\ journal' = journal \/ journal' = Head(saving).text
        /\ pc' = pc /\ starts' = starts
        /\ \/ Answer(Head(saving), "ok") /\ journal' = Head(saving).text
           \/ Answer(Head(saving), "error")
    BY DEF WriteJournal, FailJournal
  <1>2. Monotone' /\ Own'
    BY <1>1, WriteKeepsOrder DEF RunInv
  <1>3. saving \in Seq(Entries) /\ Len(saving) \in Nat /\ Len(saving) > 0 /\ Head(saving) = saving[1]
    BY <1>1, LenProperties, EmptySeq, HeadTailProperties DEF TypeOK
  <1>4. \A i \in Jobs : Used(journal[i]) => Used(journal'[i])
    BY <1>1, <1>3 DEF RunInv, Monotone
  <1>5. \A i \in Jobs : io'[i] = "ok" => io[i] = "ok" \/ Used(journal'[i])
    <2>1. io \in [Jobs -> Outcomes]
      BY DEF TypeOK
    <2>2. Head(saving).for \in Jobs => Used(Head(saving).text[Head(saving).for])
      BY <1>3 DEF RunInv, Own
    <2> QED BY <1>1, <2>1, <2>2 DEF Answer
  <1>6. Stages'
    BY <1>1, <1>4, <1>5 DEF RunInv, Stages
  <1>7. Once'
    BY <1>1, <1>4 DEF RunInv, Once
  <1> QED BY <1>2, <1>6, <1>7 DEF RunInv

\* So does a restart: init() turns no used approval back into a preview.
LEMMA RestartRuns ==
    ASSUME TypeOK, RunInv, Restart PROVE RunInv'
  <1> USE DEF past
  <1>1. /\ jobs' = Recovered /\ journal' = Recovered /\ saving' = <<>> /\ starts' = starts
        /\ pc' = [j \in Jobs |-> "idle"]
    BY DEF Restart
  <1>2. \A j \in Jobs : Used(Recovered[j]) <=> Used(journal[j])
    BY DEF Recovered, Used, TypeOK, Texts, JobRecord
  <1>3. Monotone' /\ Own'
    BY <1>1 DEF Monotone, Own
  <1>4. Stages'
    BY <1>1 DEF Stages, Executing
  <1>5. Once'
    BY <1>1, <1>2 DEF RunInv, Once
  <1> QED BY <1>3, <1>4, <1>5 DEF RunInv

LEMMA RunInvariance == Spec => []RunInv
  <1>1. Init => RunInv
    BY DEF Init, RunInv, Monotone, Own, Stages, Once, Executing, Used
  <1>2. TypeOK /\ TypeOK' /\ RunInv /\ [Next]_vars => RunInv'
    <2> SUFFICES ASSUME TypeOK, TypeOK', RunInv, [Next]_vars PROVE RunInv'
      OBVIOUS
    <2>1. CASE \E p \in 1..NParts, v \in Values : Edit(p, v)
      BY <2>1 DEF Edit, work, RunInv, Monotone, Own, Stages, Once
    <2>2. CASE UNCHANGED vars
      BY <2>2 DEF vars, work, past, RunInv, Monotone, Own, Stages, Once
    <2> QED BY <2>1, <2>2, ClientRuns, EngineRuns, WriteRuns, RestartRuns DEF Next
  <1> QED BY <1>1, <1>2, Typing, PTL DEF Spec

\* An approval is used once: whatever crashes or fails, and however often the
\* agent restarts, execute() is entered at most once for a job.
THEOREM SingleUse == Spec => []NeverReplayed
  <1>1. RunInv => NeverReplayed
    BY DEF RunInv, Once, NeverReplayed
  <1> QED BY <1>1, RunInvariance, PTL

-----------------------------------------------------------------------------
(* A commit starts from the state that was previewed *)

\* A job that waits for onCreated() has written at least that directory.
CommitInv ==
    /\ CommitsFromPreviewed
    /\ \A j \in Jobs : pc[j] = "creating" => written[j] > 0

\* The awaits at which a job relies on what its recheck saw.
Relying(j) == \/ pc[j] \in {"comparing", "committing"}
              \/ pc[j] = "applying" /\ written[j] = 0

\* A step of one job: no other job relies on the host, by mutual exclusion.
LEMMA EngineCommits ==
    ASSUME TypeOK, OneMutation, CommitInv, NEW j \in Jobs, Engine(j) PROVE CommitInv'
  <1> USE DEF past, work
  <1>0. /\ pc \in [Jobs -> Locations] /\ written \in [Jobs -> 0..NParts]
        /\ io \in [Jobs -> Outcomes]
    BY DEF TypeOK
  <1>1. \A i \in Jobs \ {j} : pc'[i] = pc[i] /\ pc[i] \notin Holding
    BY <1>0, EngineSlot DEF OneMutation
  <1>2. ASSUME /\ Relying(j)' => host' = plan[j].before \/ j \in overtaken'
               /\ pc'[j] = "creating" => written'[j] > 0
               /\ plan' = plan
        PROVE  CommitInv'
    BY <1>1, <1>2 DEF CommitInv, CommitsFromPreviewed, Relying, Holding, Executing
  <1>3. ASSUME pc'[j] \notin {"comparing", "committing", "applying", "creating"}, plan' = plan
        PROVE  CommitInv'
    BY <1>2, <1>3 DEF Relying
  <1>4. CASE \/ ApproveRecheck(j) \/ ApproveFails(j) \/ ApproveEnds(j) \/ Start(j) \/ Opened(j)
             \/ Validate(j) \/ AppliedSaved(j) \/ Confirm(j) \/ Record(j) \/ Finish(j)
             \/ Note(j) \/ Undo(j) \/ Undone(j)
    <2>1. pc'[j] \notin {"comparing", "committing", "applying", "creating"} /\ plan' = plan
      BY <1>0, <1>4 DEF ApproveRecheck, ApproveFails, ApproveEnds, Start, Opened, Validate,
         AppliedSaved, Confirm, Record, Finish, Note, Undo, Undone, SaveAndWait, Goto, StopCancelled
    <2> QED BY <2>1, <1>3
  <1>5. CASE Recheck(j)
    <2>1. host = plan[j].before /\ host' = host /\ plan' = plan
      BY <1>5 DEF Recheck, Unchanged
    <2>2. pc'[j] # "creating"
      BY <1>0, <1>5 DEF Recheck, StopCancelled, EnterCommit, SaveAndWait, Goto
    <2> QED BY <1>2, <2>1, <2>2
  <1>6. CASE Compare(j)
    <2>1. /\ pc[j] = "comparing" /\ host' = host /\ plan' = plan /\ overtaken' = overtaken
          /\ pc'[j] # "creating"
      BY <1>0, <1>6 DEF Compare, EnterCommit, SaveAndWait
    <2> QED BY <1>2, <2>1 DEF CommitInv, CommitsFromPreviewed
  <1>7. CASE Committed(j)
    <2>1. /\ pc[j] = "committing" /\ host' = host /\ plan' = plan /\ overtaken' = overtaken
          /\ pc'[j] # "creating"
      BY <1>0, <1>7 DEF Committed, Goto
    <2> QED BY <1>2, <2>1 DEF CommitInv, CommitsFromPreviewed
  <1>8. CASE Apply(j)
    <2>1. written'[j] > 0 /\ plan' = plan
      BY <1>0, <1>8 DEF Apply, WritePart
    <2>2. pc'[j] \in {"applying", "creating"}
      BY <1>0, <1>8 DEF Apply, SaveAndWait
    <2> QED BY <1>2, <2>1, <2>2 DEF Relying
  <1>9. CASE CreatedSaved(j)
    <2>1. written'[j] > 0 /\ pc'[j] = "applying" /\ plan' = plan
      BY <1>0, <1>9 DEF CreatedSaved, Goto, CommitInv
    <2> QED BY <1>2, <2>1 DEF Relying
  <1>10. CASE Applied(j)
    <2>1. /\ \/ \E new : SaveAndWait(j, new, "finishing") \/ SaveAndWait(j, new, "applied")
             \/ Goto(j, "recording")
          /\ plan' = plan
      BY <1>10 DEF Applied
    <2>2. pc'[j] \notin {"comparing", "committing", "applying", "creating"}
      BY <1>0, <2>1 DEF SaveAndWait, Goto
    <2> QED BY <1>3, <2>1, <2>2
  <1>11. CASE Catch(j)
    <2>1. /\ \/ \E new : SaveAndWait(j, new, "failing")
             \/ \E at \in {"undoing", "noting"} : Goto(j, at)
          /\ plan' = plan
      BY <1>11 DEF Catch
    <2>2. pc'[j] \notin {"comparing", "committing", "applying", "creating"}
      BY <1>0, <2>1 DEF SaveAndWait, Goto
    <2> QED BY <1>3, <2>1, <2>2
  <1> QED BY <1>4, <1>5, <1>6, <1>7, <1>8, <1>9, <1>10, <1>11 DEF Engine

\* A job writes the host only from the state its owner approved, unless the
\* administrator edited the host after the recheck: no mutation of the agent
\* is lost under another one.
THEOREM NoLostMutation == Spec => []CommitsFromPreviewed
  <1>1. Init => CommitInv
    BY DEF Init, CommitInv, CommitsFromPreviewed
  <1>2. TypeOK /\ OneMutation /\ CommitInv /\ [Next]_vars => CommitInv'
    <2> SUFFICES ASSUME TypeOK, OneMutation, CommitInv, [Next]_vars PROVE CommitInv'
      OBVIOUS
    <2> USE DEF CommitInv, CommitsFromPreviewed, work, past
    <2>0. pc \in [Jobs -> Locations] /\ plan \in [Jobs -> Plans]
      BY DEF TypeOK
    <2>1. ASSUME NEW j \in Jobs, Client(j) PROVE CommitInv'
      <3>1. /\ host' = host /\ overtaken' = overtaken /\ written' = written
            /\ \/ pc' = pc /\ plan' = plan
               \/ /\ \E at \in {"idle", "planning", "approving"} : pc' = [pc EXCEPT ![j] = at]
                  /\ \A i \in Jobs \ {j} : plan'[i] = plan[i]
        BY <2>0, <2>1 DEF Client, BeginPreview, BeginRollbackPreview, EndPreview,
           RefusePreview, Expire, Approve, Cancel
      <3> QED BY <2>0, <3>1
    <2>2. ASSUME NEW j \in Jobs, Engine(j) PROVE CommitInv'
      BY <2>2, EngineCommits
    <2>3. CASE WriteJournal \/ FailJournal
      BY <2>3 DEF WriteJournal, FailJournal
    <2>4. CASE Restart
      BY <2>4 DEF Restart
    <2>5. CASE \E p \in 1..NParts, v \in Values : Edit(p, v)
      BY <2>5 DEF Edit
    <2>6. CASE UNCHANGED vars
      BY <2>6 DEF vars
    <2> QED BY <2>1, <2>2, <2>3, <2>4, <2>5, <2>6 DEF Next
  <1>3. CommitInv => CommitsFromPreviewed
    BY DEF CommitInv
  <1> QED BY <1>1, <1>2, <1>3, Typing, MutualExclusion, PTL DEF Spec

-----------------------------------------------------------------------------
(* How far a record is, and the order of the texts of the journal *)

Level(r) == IF r.status = "absent" THEN 0
            ELSE IF r.status = "preview" THEN 1
            ELSE IF r.status \in {"queued", "running"} THEN 2 ELSE 3

\* Along journal, chained writes and memory no record goes back.
Ordered ==
    \A j \in Jobs :
        /\ Level(journal[j]) <= Level(jobs[j])
        /\ \A k \in 1..Len(saving) :
              /\ Level(journal[j]) <= Level(saving[k].text[j])
              /\ Level(saving[k].text[j]) <= Level(jobs[j])
              /\ \A l \in k..Len(saving) :
                    Level(saving[k].text[j]) <= Level(saving[l].text[j])

\* Nothing is settled whose approval is not in the journal.
Settling == \A j \in Jobs : Level(jobs[j]) = 3 => Level(journal[j]) >= 2

\* A job that was not started yet is queued.
Waiting == \A j \in Jobs :
    pc[j] \in {"queueing", "scheduled"} => jobs[j].status = "queued"

LevelInv == Ordered /\ Settling /\ Waiting

LEMMA LevelType == \A r : Level(r) \in {0, 1, 2, 3}
  BY DEF Level

\* A level is above 1 when the approval is used.
LEMMA LevelUsed == \A r : Used(r) <=> Level(r) >= 2
  BY DEF Level, Used

\* A save of records that do not go back keeps the order.
LEMMA SaveKeepsLevels ==
    ASSUME TypeOK, Ordered, NEW new \in Texts, NEW c, Save(new, c), journal' = journal,
           \A i \in Jobs : Level(jobs[i]) <= Level(new[i])
    PROVE  Ordered'
  <1> DEFINE e == [text |-> new, for |-> c]
  <1>1. saving \in Seq(Entries) /\ jobs' = new /\ saving' = Append(saving, e)
    BY DEF Save, TypeOK
  <1>2. /\ Len(saving') = Len(saving) + 1 /\ Len(saving) \in Nat
        /\ saving'[Len(saving) + 1] = e
        /\ \A k \in 1..Len(saving) : saving'[k] = saving[k]
    BY <1>1, LenProperties
  <1>3. e.text = new
    OBVIOUS
  <1> HIDE DEF e
  <1> QED BY <1>1, <1>2, <1>3, LevelType DEF Ordered

\* So does a change of the jobs that is not saved yet.
LEMMA MemoryKeepsLevels ==
    ASSUME Ordered, saving' = saving, journal' = journal,
           \A i \in Jobs : Level(jobs[i]) <= Level(jobs'[i])
    PROVE  Ordered'
  BY LevelType DEF Ordered

\* And the end of the first chained write, made or failed.
LEMMA WriteKeepsLevels ==
    ASSUME TypeOK, Ordered, saving # <<>>, saving' = Tail(saving), jobs' = jobs,
           journal' = journal \/ journal' = Head(saving).text
    PROVE  Ordered' /\ \A j \in Jobs : Level(journal[j]) <= Level(journal'[j])
  <1>1. saving \in Seq(Entries) /\ Len(saving) \in Nat /\ Len(saving) > 0
    BY LenProperties, EmptySeq DEF TypeOK
  <1>2. /\ Head(saving) = saving[1] /\ Len(saving') = Len(saving) - 1
        /\ \A k \in 1..Len(saving') : saving'[k] = saving[k + 1]
    BY <1>1, HeadTailProperties
  <1>3. Ordered'
    BY <1>1, <1>2 DEF Ordered
  <1>4. \A j \in Jobs : Level(journal[j]) <= Level(journal'[j])
    BY <1>1, <1>2, LevelType DEF Ordered
  <1> QED BY <1>3, <1>4

-----------------------------------------------------------------------------
(* Steps *)

\* A step of approve() or execute() takes no record back, and settles a job only
\* while it executes it.
LEMMA EngineLevels ==
    ASSUME TypeOK, RunInv, LevelInv, NEW j \in Jobs, Engine(j)
    PROVE  /\ Level(jobs[j]) <= Level(jobs'[j])
           /\ Level(jobs'[j]) = 3 => Level(jobs[j]) = 3 \/ pc[j] \in Executing
           /\ pc'[j] \in {"queueing", "scheduled"} => jobs'[j].status = "queued"
  <1> USE DEF past, spent, work
  <1>0. /\ jobs \in Texts /\ jobs[j] \in JobRecord /\ pc \in [Jobs -> Locations]
    BY DEF TypeOK, Texts
  <1>1. \A s \in Statuses : Set(j, s)[j].status = s
    BY <1>0 DEF Set, With, Texts, JobRecord
  <1>2. {"queued", "running", "cancelled", "succeeded", "failed"} \subseteq Statuses
    BY DEF Statuses, Terminal
  <1>3. ASSUME jobs'[j].status = jobs[j].status,
               pc'[j] \in {"queueing", "scheduled"} => pc[j] = "queueing"
        PROVE  /\ Level(jobs[j]) <= Level(jobs'[j])
               /\ Level(jobs'[j]) = 3 => Level(jobs[j]) = 3
               /\ pc'[j] \in {"queueing", "scheduled"} => jobs'[j].status = "queued"
    BY <1>3, LevelType DEF Level, LevelInv, Waiting
  <1>4. ASSUME pc[j] \in Executing, pc'[j] \notin {"queueing", "scheduled"},
               \/ jobs'[j].status \in {"cancelled", "succeeded", "failed"}
               \/ jobs'[j].status = jobs[j].status
        PROVE  /\ Level(jobs[j]) <= Level(jobs'[j])
               /\ pc'[j] \in {"queueing", "scheduled"} => jobs'[j].status = "queued"
    BY <1>4, LevelType DEF Level
  <1>5. \A at : SaveAndWait(j, jobs', at) => pc'[j] = at
    BY <1>0 DEF SaveAndWait
  <1>6. \A at : Goto(j, at) => pc'[j] = at
    BY <1>0 DEF Goto
  <1>7. \A at, new : SaveAndWait(j, new, at) => jobs' = new /\ pc'[j] = at
    BY <1>0 DEF SaveAndWait, Save
  <1>8. \A r : With(j, r)[j] = r
    BY <1>0 DEF With, Texts
  <1>9. StopCancelled(j) => jobs'[j].status = "cancelled" /\ pc'[j] = "cancelling"
    BY <1>1, <1>2, <1>7 DEF StopCancelled
  <1>10. EnterCommit(j) => jobs'[j].status = jobs[j].status /\ pc'[j] = "committing"
    <2> SUFFICES ASSUME EnterCommit(j)
                 PROVE  jobs'[j].status = jobs[j].status /\ pc'[j] = "committing"
      OBVIOUS
    <2> DEFINE r == [jobs[j] EXCEPT
                       !.commitStarted = TRUE,
                       !.rollback = IF plan[j].kind \in Revertible THEN "available" ELSE @]
    <2>1. r.status = jobs[j].status
      BY <1>0 DEF JobRecord
    <2>2. SaveAndWait(j, With(j, r), "committing")
      BY DEF EnterCommit
    <2> HIDE DEF r
    <2> QED BY <1>7, <1>8, <2>1, <2>2
  <1>11. CASE ApproveRecheck(j)
    <2>1. jobs[j].status = "preview" /\ jobs'[j].status = "queued" /\ pc'[j] = "queueing"
      BY <1>1, <1>2, <1>7, <1>11 DEF ApproveRecheck, RunInv, Stages
    <2> QED BY <2>1 DEF Level
  <1>12. CASE ApproveFails(j) \/ ApproveEnds(j)
    BY <1>0, <1>3, <1>12 DEF ApproveFails, ApproveEnds
  <1>13. CASE Start(j)
    <2>1. jobs[j].status = "queued" /\ jobs'[j].status = "running" /\ pc'[j] = "opening"
      BY <1>1, <1>2, <1>7, <1>13 DEF Start, LevelInv, Waiting
    <2> QED BY <2>1 DEF Level
  <1>14. CASE Opened(j) \/ Committed(j) \/ CreatedSaved(j) \/ AppliedSaved(j) \/ Finish(j)
    <2>1. jobs' = jobs /\ pc'[j] \notin {"queueing", "scheduled"}
      BY <1>6, <1>14 DEF Opened, Committed, CreatedSaved, AppliedSaved, Finish
    <2> QED BY <1>3, <2>1
  <1>15. CASE Validate(j)
    <2>1. pc[j] \in Executing /\ pc'[j] \notin {"queueing", "scheduled"}
      BY <1>6, <1>9, <1>15 DEF Validate, Executing
    <2> QED BY <1>4, <1>9, <1>15, <2>1 DEF Validate
  <1>16. CASE Recheck(j)
    <2>1. pc[j] \in Executing /\ pc'[j] \notin {"queueing", "scheduled"}
      BY <1>6, <1>9, <1>10, <1>16 DEF Recheck, Executing
    <2> QED BY <1>4, <1>9, <1>10, <1>16, <2>1 DEF Recheck
  <1>17. CASE Compare(j)
    <2>1. pc[j] \in Executing /\ pc'[j] \notin {"queueing", "scheduled"}
      BY <1>7, <1>10, <1>17 DEF Compare, Executing
    <2>2. jobs'[j].status \in {"succeeded", jobs[j].status}
      BY <1>1, <1>2, <1>7, <1>10, <1>17 DEF Compare
    <2> QED BY <1>4, <2>1, <2>2
  <1>18. CASE Apply(j)
    <2>1. pc[j] \in Executing /\ pc'[j] \in {"applying", "creating"}
      BY <1>7, <1>18 DEF Apply, Executing
    <2> DEFINE r == [jobs[j] EXCEPT !.created = @ + 1]
    <2>2. r.status = jobs[j].status
      BY <1>0 DEF JobRecord
    <2>3. jobs' = jobs \/ SaveAndWait(j, With(j, r), "creating")
      BY <1>18 DEF Apply
    <2> HIDE DEF r
    <2>4. jobs'[j].status = jobs[j].status
      BY <1>7, <1>8, <2>2, <2>3
    <2> QED BY <1>4, <2>1, <2>4
  <1>19. CASE Applied(j)
    <2>1. pc[j] \in Executing
      BY <1>19 DEF Applied, Executing
    <2>2. \/ SaveAndWait(j, Set(j, "succeeded"), "finishing")
          \/ Goto(j, "recording") /\ jobs' = Set(j, "succeeded")
          \/ SaveAndWait(j, jobs, "applied")
      BY <1>19 DEF Applied
    <2>3. /\ pc'[j] \notin {"queueing", "scheduled"}
          /\ jobs'[j].status \in {"succeeded", jobs[j].status}
      BY <1>1, <1>2, <1>6, <1>7, <2>2
    <2> QED BY <1>4, <2>1, <2>3
  <1>20. CASE Confirm(j) \/ Record(j) \/ Note(j)
    <2>1. pc[j] \in Executing
      BY <1>20 DEF Confirm, Record, Note, Executing
    <2>2. \/ SaveAndWait(j, Set(j, "succeeded"), "finishing")
          \/ \E at \in {"finishing", "failing"} : SaveAndWait(j, jobs, at)
      BY <1>20 DEF Confirm, Record, Note
    <2>3. /\ pc'[j] \notin {"queueing", "scheduled"}
          /\ jobs'[j].status \in {"succeeded", jobs[j].status}
      BY <1>1, <1>2, <1>7, <2>2
    <2> QED BY <1>4, <2>1, <2>3
  <1>21. CASE Catch(j)
    <2>1. pc[j] \in Executing
      BY <1>21 DEF Catch, Throws, Executing
    <2> DEFINE j0 == [jobs[j] EXCEPT !.status = "failed"]
               failed == IF plan[j].kind \in Revertible \/ ~jobs[j].commitStarted
                         THEN j0 ELSE [j0 EXCEPT !.rollback = "inspect"]
    <2>2. failed.status = "failed"
      BY <1>0 DEF JobRecord
    <2>3. \/ Goto(j, "undoing") /\ jobs' = With(j, failed)
          \/ Goto(j, "noting") /\ jobs' = With(j, failed)
          \/ SaveAndWait(j, With(j, failed), "failing")
      BY <1>21 DEF Catch
    <2> HIDE DEF failed
    <2>4. /\ pc'[j] \notin {"queueing", "scheduled"} /\ jobs'[j].status = "failed"
      BY <1>6, <1>7, <1>8, <2>2, <2>3
    <2> QED BY <1>4, <2>1, <2>4
  <1>22. CASE Undo(j)
    BY <1>3, <1>22 DEF Undo
  <1>23. CASE Undone(j)
    <2>1. pc[j] \in Executing
      BY <1>23 DEF Undone, Executing
    <2>2. PICK end \in {"restored", "error"} :
             SaveAndWait(j, With(j, [jobs[j] EXCEPT !.rollback = end]), "failing")
      BY <1>23 DEF Undone
    <2> DEFINE r == [jobs[j] EXCEPT !.rollback = end]
    <2>3. r.status = jobs[j].status
      BY <1>0 DEF JobRecord
    <2>4. SaveAndWait(j, With(j, r), "failing")
      BY <2>2
    <2> HIDE DEF r
    <2>5. pc'[j] = "failing" /\ jobs'[j].status = jobs[j].status
      BY <1>7, <1>8, <2>3, <2>4
    <2> QED BY <1>4, <2>1, <2>5
  <1> QED BY <1>11, <1>12, <1>13, <1>14, <1>15, <1>16, <1>17, <1>18, <1>19, <1>20, <1>21,
             <1>22, <1>23 DEF Engine

LEMMA EngineKeepsLevels ==
    ASSUME TypeOK, TypeOK', RunInv, LevelInv, NEW j \in Jobs, Engine(j) PROVE LevelInv'
  <1>1. /\ journal' = journal
        /\ \A i \in Jobs \ {j} : jobs'[i] = jobs[i]
        /\ \/ saving' = saving
           \/ Save(jobs', j)
    BY EngineRecords
  <1>2. \A i \in Jobs \ {j} : pc'[i] = pc[i]
    BY EngineSlot DEF TypeOK
  <1>3. jobs' \in Texts
    BY DEF TypeOK
  <1>4. \A i \in Jobs : Level(jobs[i]) <= Level(jobs'[i])
    BY <1>1, EngineLevels, LevelType
  <1>5. Ordered'
    BY <1>1, <1>3, <1>4, SaveKeepsLevels, MemoryKeepsLevels DEF LevelInv
  <1>6. Settling'
    BY <1>1, EngineLevels, LevelUsed DEF LevelInv, Settling, RunInv, Stages
  <1>7. Waiting'
    BY <1>1, <1>2, EngineLevels DEF LevelInv, Waiting
  <1> QED BY <1>5, <1>6, <1>7 DEF LevelInv

\* A client makes a preview of nothing, and sets a flag.
LEMMA ClientKeepsLevels ==
    ASSUME TypeOK, TypeOK', RunInv, LevelInv, NEW j \in Jobs, Client(j) PROVE LevelInv'
  <1> USE DEF work, past
  <1>0. jobs \in Texts /\ jobs[j] \in JobRecord /\ pc \in [Jobs -> Locations] /\ jobs' \in Texts
    BY DEF TypeOK, Texts
  <1>1. ASSUME UNCHANGED <<jobs, saving, journal>>,
               \A i \in Jobs : pc'[i] \in {"queueing", "scheduled"} => pc'[i] = pc[i]
        PROVE  LevelInv'
    BY <1>1 DEF LevelInv, Ordered, Settling, Waiting
  <1>2. CASE \/ \E k \in Kinds, v \in Values : BeginPreview(j, k, v)
             \/ \E old \in Jobs : BeginRollbackPreview(j, old)
             \/ RefusePreview(j) \/ Expire(j) \/ Approve(j)
    BY <1>0, <1>1, <1>2 DEF BeginPreview, BeginRollbackPreview, RefusePreview, Expire, Approve
  <1>3. ASSUME NEW new, Save(new, NoJob), journal' = journal,
               \A i \in Jobs \ {j} : jobs'[i] = jobs[i],
               \/ jobs[j].status = "absent" /\ jobs'[j].status = "preview"
               \/ jobs'[j].status = jobs[j].status,
               \A i \in Jobs : pc'[i] \in {"queueing", "scheduled"} =>
                  pc'[i] = pc[i] /\ jobs'[i].status = jobs[i].status
        PROVE  LevelInv'
    <2>1. \A i \in Jobs : \/ jobs'[i] = jobs[i]
                          \/ jobs'[i].status = jobs[i].status
                          \/ jobs[i].status = "absent" /\ jobs'[i].status = "preview"
      BY <1>3
    <2>2. \A i \in Jobs : /\ Level(jobs[i]) <= Level(jobs'[i])
                          /\ Level(jobs'[i]) = 3 => Level(jobs[i]) = 3
      BY <2>1 DEF Level
    <2>3. jobs' = new
      BY <1>3 DEF Save
    <2>4. Ordered'
      BY <1>0, <1>3, <2>2, <2>3, SaveKeepsLevels DEF LevelInv
    <2>5. Settling'
      BY <1>3, <2>2 DEF LevelInv, Settling
    <2>6. Waiting'
      BY <1>3 DEF LevelInv, Waiting
    <2> QED BY <2>4, <2>5, <2>6 DEF LevelInv
  <1>4. CASE EndPreview(j)
    <2>1. jobs[j].status = "absent"
      BY <1>4 DEF EndPreview, RunInv, Stages
    <2>2. jobs' = Set(j, "preview") /\ Save(jobs', NoJob)
      BY <1>4 DEF EndPreview, Save
    <2>3. /\ jobs'[j].status = "preview"
          /\ \A i \in Jobs \ {j} : jobs'[i] = jobs[i]
      BY <1>0, <2>2 DEF Set, With, Texts, JobRecord
    <2>4. pc'[j] = "idle" /\ \A i \in Jobs \ {j} : pc'[i] = pc[i]
      BY <1>0, <1>4 DEF EndPreview
    <2> QED BY <1>3, <1>4, <2>1, <2>2, <2>3, <2>4 DEF EndPreview
  <1>5. CASE Cancel(j)
    <2> DEFINE r == [jobs[j] EXCEPT !.cancelRequested = TRUE]
    <2>1. r.status = jobs[j].status
      BY <1>0 DEF JobRecord
    <2>2. jobs' = With(j, r) /\ Save(jobs', NoJob)
      BY <1>5 DEF Cancel, Save
    <2> HIDE DEF r
    <2>3. /\ jobs'[j].status = jobs[j].status
          /\ \A i \in Jobs \ {j} : jobs'[i] = jobs[i]
      BY <1>0, <2>1, <2>2 DEF With, Texts
    <2> QED BY <1>3, <1>5, <2>2, <2>3 DEF Cancel
  <1> QED BY <1>2, <1>4, <1>5 DEF Client

\* The next text of the journal is never behind the one it replaces.
LEMMA WriteLevels ==
    ASSUME TypeOK, LevelInv, WriteJournal \/ FailJournal
    PROVE  LevelInv' /\ \A j \in Jobs : Level(journal[j]) <= Level(journal'[j])
  <1>1. /\ saving # <<>> /\ saving' = Tail(saving) /\ jobs' = jobs /\ pc' = pc
        /\ journal' = journal \/ journal' = Head(saving).text
    BY DEF WriteJournal, FailJournal
  <1>2. Ordered' /\ \A j \in Jobs : Level(journal[j]) <= Level(journal'[j])
    BY <1>1, WriteKeepsLevels DEF LevelInv
  <1>3. Settling' /\ Waiting'
    BY <1>1, <1>2, LevelType DEF LevelInv, Settling, Waiting
  <1> QED BY <1>2, <1>3 DEF LevelInv

LEMMA RestartKeepsLevels ==
    ASSUME TypeOK, Restart PROVE LevelInv'
  <1>1. jobs' = Recovered /\ journal' = Recovered /\ saving' = <<>>
        /\ pc' = [j \in Jobs |-> "idle"]
    BY DEF Restart
  <1>2. Ordered'
    BY <1>1, LevelType DEF Ordered
  <1> QED BY <1>1, <1>2, LevelType DEF LevelInv, Settling, Waiting

LEMMA LevelInvariance == Spec => []LevelInv
  <1>1. Init => LevelInv
    BY LevelType DEF Init, LevelInv, Ordered, Settling, Waiting, Level, Absent
  <1>2. TypeOK /\ TypeOK' /\ RunInv /\ LevelInv /\ [Next]_vars => LevelInv'
    <2> SUFFICES ASSUME TypeOK, TypeOK', RunInv, LevelInv, [Next]_vars PROVE LevelInv'
      OBVIOUS
    <2>1. CASE UNCHANGED vars \/ \E p \in 1..NParts, v \in Values : Edit(p, v)
      BY <2>1 DEF vars, Edit, work, LevelInv, Ordered, Settling, Waiting
    <2> QED BY <2>1, EngineKeepsLevels, ClientKeepsLevels, WriteLevels,
               RestartKeepsLevels DEF Next
  <1> QED BY <1>1, <1>2, Typing, RunInvariance, PTL DEF Spec

-----------------------------------------------------------------------------
(* The refinement *)

\* What the journal says of a job, in the words of the ledger.
LEMMA LedgeredIs ==
    \A j \in Jobs :
        /\ Ledgered[j] = "none" <=> Level(journal[j]) = 0
        /\ Ledgered[j] = "preview" <=> Level(journal[j]) = 1
        /\ Ledgered[j] = "approved" <=> Level(journal[j]) = 2
        /\ Ledgered[j] = "settled" <=> Level(journal[j]) = 3
  BY DEF Ledgered, Level

\* The ledger stays when the journal does.
LEMMA LedgerStays == journal' = journal => Ledgered' = Ledgered
  BY DEF Ledgered

LEMMA RunsNone ==
    ASSUME \A j \in Jobs : pc[j] \notin Executing PROVE Runs = NoJob
  BY DEF Runs

LEMMA RunsOne ==
    ASSUME OneMutation, NEW j \in Jobs, pc[j] \in Executing PROVE Runs = j
  <1>1. \A i \in Jobs : pc[i] \in Executing <=> i = j
    BY DEF OneMutation, Holding
  <1>2. (CHOOSE i \in Jobs : pc[i] \in Executing) \in Jobs
        /\ pc[CHOOSE i \in Jobs : pc[i] \in Executing] \in Executing
    OBVIOUS
  <1> QED BY <1>1, <1>2 DEF Runs

\* The job that runs is the same when the same jobs execute.
LEMMA RunsStays ==
    ASSUME OneMutation, OneMutation',
           \A j \in Jobs : pc'[j] \in Executing <=> pc[j] \in Executing
    PROVE  Runs' = Runs
  <1>1. CASE \A j \in Jobs : pc[j] \notin Executing
    <2>1. Runs = NoJob
      BY <1>1, RunsNone
    <2>2. Runs' = NoJob
      BY <1>1 DEF Runs
    <2> QED BY <2>1, <2>2
  <1>2. ASSUME NEW j \in Jobs, pc[j] \in Executing PROVE Runs' = Runs
    <2>1. Runs = j
      BY <1>2, RunsOne
    <2>2. \A i \in Jobs : pc'[i] \in Executing <=> i = j
      BY <1>2 DEF OneMutation, Holding
    <2>3. (CHOOSE i \in Jobs : pc'[i] \in Executing) \in Jobs
          /\ pc'[CHOOSE i \in Jobs : pc'[i] \in Executing] \in Executing
      BY <2>2
    <2>4. Runs' = j
      BY <2>2, <2>3 DEF Runs
    <2> QED BY <2>1, <2>4
  <1> QED BY <1>1, <1>2

\* Everything the refinement relies on.
RefInv == TypeOK /\ OneMutation /\ RunInv /\ LevelInv

\* A step of approve() or execute() begins the job, ends it or is none of the
\* ledger's business.
LEMMA EngineImplements ==
    ASSUME RefInv, RefInv', NEW j \in Jobs, Engine(j)
    PROVE  [Ledger!Next]_Ledger!vars
  <1> USE DEF RefInv
  <1>1. Ledgered' = Ledgered
    BY EngineRecords, LedgerStays
  <1>2. \A i \in Jobs \ {j} : pc'[i] = pc[i] /\ pc[i] \notin Executing /\ starts'[i] = starts[i]
    <2>1. pc[j] \in Holding /\ \A i \in Jobs \ {j} : pc'[i] = pc[i]
      BY EngineSlot DEF TypeOK
    <2>2. \A i \in Jobs \ {j} : starts'[i] = starts[i]
      BY EngineRecords
    <2>3. \A i \in Jobs \ {j} : pc[i] \notin Holding
      BY <2>1 DEF OneMutation
    <2> QED BY <2>1, <2>2, <2>3 DEF Holding
  <1>3. starts \in [Jobs -> Nat] /\ starts' \in [Jobs -> Nat]
    BY DEF TypeOK
  <1>4. ASSUME starts'[j] = starts[j], pc'[j] \in Executing <=> pc[j] \in Executing
        PROVE  UNCHANGED Ledger!vars
    <2>1. Runs' = Runs
      BY <1>2, <1>4, RunsStays
    <2>2. Started' = Started
      BY <1>2, <1>4 DEF Started
    <2> QED BY <1>1, <2>1, <2>2 DEF Ledger!vars
  <1>5. CASE pc[j] = "scheduled" /\ pc'[j] = "opening" /\ starts'[j] = starts[j] + 1
    <2>1. Runs = NoJob
      BY <1>2, <1>5, RunsNone DEF Executing
    <2>2. Runs' = j
      <3>1. \A i \in Jobs : pc'[i] \in Executing <=> i = j
        BY <1>2, <1>5 DEF Executing
      <3>2. (CHOOSE i \in Jobs : pc'[i] \in Executing) \in Jobs
            /\ pc'[CHOOSE i \in Jobs : pc'[i] \in Executing] \in Executing
        BY <3>1
      <3> QED BY <3>1, <3>2 DEF Runs
    <2>3. starts[j] = 0
      BY <1>3, <1>5 DEF RunInv, Once
    <2>4. j \notin Started /\ Started' = Started \cup {j}
      BY <1>2, <1>3, <1>5, <2>3 DEF Started
    <2>5. Ledgered[j] = "approved"
      <3>1. Level(journal[j]) >= 2
        BY <1>5, LevelUsed DEF RunInv, Stages
      <3>2. Level(jobs[j]) = 2
        BY <1>5 DEF LevelInv, Waiting, Level
      <3>3. Level(journal[j]) = 2
        BY <3>1, <3>2, LevelType DEF LevelInv, Ordered
      <3> QED BY <3>3, LedgeredIs
    <2>6. Ledger!Begin(j)
      BY <1>1, <2>1, <2>2, <2>4, <2>5 DEF Ledger!Begin
    <2> QED BY <2>6 DEF Ledger!Next
  <1>6. CASE pc'[j] = "idle" /\ starts' = starts
    <2>1. CASE pc[j] \in Executing
      <3>1. Runs = j
        BY <2>1, RunsOne
      <3>2. Runs' = NoJob
        BY <1>2, <1>6 DEF Runs, Executing
      <3>3. Started' = Started
        BY <1>6 DEF Started
      <3>4. Ledger!End
        BY <1>1, <3>1, <3>2, <3>3, JobsAssumption DEF Ledger!End
      <3> QED BY <3>4 DEF Ledger!Next
    <2>2. CASE pc[j] \notin Executing
      BY <1>4, <1>6, <2>2 DEF Executing
    <2> QED BY <2>1, <2>2
  <1>7. CASE pc[j] \in {"approving", "queueing"} /\ pc'[j] \in {"queueing", "scheduled"}
             /\ starts' = starts
    BY <1>4, <1>7 DEF Executing
  <1>8. CASE pc[j] \in Executing /\ pc'[j] \in Executing /\ starts' = starts
    BY <1>4, <1>8
  <1> QED BY <1>5, <1>6, <1>7, <1>8, EngineRecords

\* A write of the journal advances the ledger; with it several jobs may advance.
LEMMA WriteImplements ==
    ASSUME RefInv, RefInv', WriteJournal \/ FailJournal PROVE Ledger!Advance
  <1> USE DEF RefInv
  <1>1. pc' = pc /\ starts' = starts
    BY DEF WriteJournal, FailJournal, past
  <1>2. Runs' = Runs /\ Started' = Started
    BY <1>1, RunsStays DEF Started
  <1>3. Ledgered' \in [Jobs -> Ledger!Entries]
    BY DEF Ledgered, Ledger!Entries
  <1>4. ASSUME NEW j \in Jobs PROVE Ledger!Follows(Ledgered[j], Ledgered'[j])
    <2>1. Level(journal[j]) <= Level(journal'[j])
      BY WriteLevels
    <2>2. Level(journal'[j]) = 3 => Level(journal[j]) >= 2
      <3>1. jobs' = jobs
        BY DEF WriteJournal, FailJournal
      <3> QED BY <3>1, LevelType DEF LevelInv, Ordered, Settling
    <2>3. /\ Ledgered'[j] = "none" <=> Level(journal'[j]) = 0
          /\ Ledgered'[j] = "preview" <=> Level(journal'[j]) = 1
          /\ Ledgered'[j] = "approved" <=> Level(journal'[j]) = 2
          /\ Ledgered'[j] = "settled" <=> Level(journal'[j]) = 3
      BY DEF Ledgered, Level
    <2> QED BY <2>1, <2>2, <2>3, LedgeredIs, LevelType DEF Ledger!Follows
  <1> QED BY <1>2, <1>3, <1>4 DEF Ledger!Advance

\* A restart settles what was approved and ends what ran.
LEMMA RestartImplements ==
    ASSUME RefInv, Restart PROVE Ledger!Recover
  <1>1. journal' = Recovered /\ starts' = starts /\ pc' = [j \in Jobs |-> "idle"]
    BY DEF Restart, past
  <1>2. Runs' = NoJob
    BY <1>1 DEF Runs, Executing
  <1>3. Started' = Started
    BY <1>1 DEF Started
  <1>4. Ledgered' = [j \in Jobs |->
            IF Ledgered[j] = "approved" THEN "settled" ELSE Ledgered[j]]
    BY <1>1 DEF Ledgered, Recovered, RefInv, TypeOK, Texts, JobRecord
  <1> QED BY <1>2, <1>3, <1>4 DEF Ledger!Recover

\* Clients and the administrator do not touch the ledger.
LEMMA OthersImplement ==
    ASSUME RefInv, RefInv',
           \/ \E j \in Jobs : Client(j)
           \/ \E p \in 1..NParts, v \in Values : Edit(p, v)
           \/ UNCHANGED vars
    PROVE  UNCHANGED Ledger!vars
  <1> USE DEF RefInv, work, past
  <1>1. journal' = journal /\ starts' = starts
    BY DEF Client, BeginPreview, BeginRollbackPreview, EndPreview, RefusePreview,
       Expire, Approve, Cancel, Edit, vars
  <1>2. \A i \in Jobs : pc'[i] \in Executing <=> pc[i] \in Executing
    <2>1. ASSUME NEW j \in Jobs, Client(j)
          PROVE  \A i \in Jobs : pc'[i] \in Executing <=> pc[i] \in Executing
      <3>1. \/ pc' = pc
            \/ /\ pc[j] \notin Holding
               /\ \E at \in {"idle", "planning", "approving"} : pc' = [pc EXCEPT ![j] = at]
        BY <2>1, ClientSlot DEF OneMutation
      <3>2. pc \in [Jobs -> Locations]
        BY DEF TypeOK
      <3> QED BY <3>1, <3>2 DEF Holding, Executing
    <2>2. CASE \/ \E p \in 1..NParts, v \in Values : Edit(p, v)
               \/ UNCHANGED vars
      BY <2>2 DEF Edit, vars
    <2> QED BY <2>1, <2>2
  <1>3. Ledgered' = Ledgered /\ Runs' = Runs /\ Started' = Started
    BY <1>1, <1>2, LedgerStays, RunsStays DEF Started
  <1> QED BY <1>3 DEF Ledger!vars

\* The engine implements the ledger: whatever fails or stops, jobs.json only
\* moves forward, and a job is executed once at most, approved, and alone.
THEOREM Implementation == Spec => ImplementsLedger
  <1>1. Init => Ledger!Init
    BY DEF Init, Ledger!Init, Ledgered, Runs, Started, Absent, Executing
  <1>2. RefInv /\ RefInv' /\ [Next]_vars => [Ledger!Next]_Ledger!vars
    <2> SUFFICES ASSUME RefInv, RefInv', [Next]_vars PROVE [Ledger!Next]_Ledger!vars
      OBVIOUS
    <2> QED BY EngineImplements, WriteImplements, RestartImplements, OthersImplement
            DEF Next, Ledger!Next
  <1>3. Spec => []RefInv
    BY Typing, MutualExclusion, RunInvariance, LevelInvariance, PTL DEF RefInv
  <1> QED BY <1>1, <1>2, <1>3, PTL DEF Spec, Ledger!Spec, ImplementsLedger

-----------------------------------------------------------------------------
(* What a commit of the engine leaves on the host and in the journal *)

\* The awaits of a journal write.
Awaiting == {"queueing", "opening", "cancelling", "committing", "creating", "applied",
             "finishing", "failing"}

-----------------------------------------------------------------------------
(* The steps of approve() and execute(), by what they do to their own job *)

\* The record of the job: its cancellation is never withdrawn.
Becomes(j, status, started, rollback, created) ==
    /\ jobs'[j].status = status /\ jobs'[j].cancelRequested = jobs[j].cancelRequested
    /\ jobs'[j].commitStarted = started /\ jobs'[j].rollback = rollback
    /\ jobs'[j].created = created

Restated(j, status) ==
    Becomes(j, status, jobs[j].commitStarted, jobs[j].rollback, jobs[j].created)

\* A step that saves and waits, and one that waits for no write.
Saves(j, at) == Save(jobs', j) /\ pc'[j] = at /\ io'[j] = "pending"
Goes(j, at) == saving' = saving /\ pc'[j] = at /\ io'[j] = "none"

HostKept == host' = host /\ wrote' = wrote
Kept == HostKept /\ overtaken' = overtaken

Approving(j) ==
    /\ Kept /\ written' = written
    /\ \/ pc[j] = "approving" /\ Saves(j, "queueing") /\ Restated(j, "queued")
       \/ pc[j] \in {"approving", "queueing"} /\ Goes(j, "idle") /\ jobs' = jobs
       \/ pc[j] = "queueing" /\ Goes(j, "scheduled") /\ jobs' = jobs

Opening(j) ==
    /\ Kept /\ written' = written
    /\ \/ pc[j] = "scheduled" /\ Saves(j, "opening") /\ Restated(j, "running")
       \/ /\ pc[j] = "opening" /\ jobs' = jobs
          /\ Goes(j, "validating") \/ Goes(j, "rechecking")
       \/ pc[j] = "validating" /\ Goes(j, "rechecking") /\ jobs' = jobs

Stopping(j) ==
    /\ pc[j] \in {"validating", "rechecking"}
    /\ HostKept /\ overtaken' \in {overtaken, overtaken \ {j}} /\ written' = written
    /\ Saves(j, "cancelling") /\ Restated(j, "cancelled")

\* The commit record.
Commits(j) ==
    /\ Saves(j, "committing")
    /\ Becomes(j, jobs[j].status, TRUE,
               IF plan[j].kind \in Revertible THEN "available" ELSE jobs[j].rollback,
               jobs[j].created)

Rechecking(j) ==
    /\ pc[j] = "rechecking" /\ ~jobs[j].cancelRequested
    /\ host = plan[j].before
    /\ HostKept /\ overtaken' = overtaken \ {j} /\ written' = written
    /\ \/ plan[j].before = plan[j].after /\ Goes(j, "comparing") /\ jobs' = jobs
       \/ Commits(j)

Comparing(j) ==
    /\ pc[j] = "comparing" /\ Kept /\ written' = written
    /\ \/ Saves(j, "finishing") /\ Restated(j, "succeeded")
       \/ Commits(j)

Beginning(j) ==
    /\ pc[j] = "committing" /\ io[j] = "ok"
    /\ Kept /\ written'[j] = 0
    /\ Goes(j, "applying") /\ jobs' = jobs

\* A part of the host becomes that of a target.
Writes(j, p, target) ==
    /\ written[j] < NParts /\ p \in 1..NParts
    /\ host' = [host EXCEPT ![p] = target[p]]
    /\ written'[j] = written[j] + 1
    /\ wrote' = IF host[p] = target[p] THEN wrote ELSE wrote \cup {j}
    /\ overtaken' = overtaken

Applying(j) ==
    /\ pc[j] = "applying"
    /\ Writes(j, written[j] + 1, plan[j].after)
    /\ \/ /\ plan[j].kind = "resource" /\ written'[j] < NParts
          /\ Saves(j, "creating")
          /\ Becomes(j, jobs[j].status, jobs[j].commitStarted, jobs[j].rollback,
                     jobs[j].created + 1)
       \/ /\ ~(plan[j].kind = "resource" /\ written'[j] < NParts)
          /\ jobs' = jobs /\ saving' = saving /\ pc' = pc /\ io' = io

Created(j) ==
    /\ pc[j] = "creating" /\ io[j] = "ok"
    /\ Kept /\ written' = written
    /\ Goes(j, "applying") /\ jobs' = jobs

Confirming(j) ==
    /\ Kept /\ written' = written
    /\ \/ /\ pc[j] = "applying" /\ written[j] = NParts
          /\ \/ Saves(j, "finishing") /\ Restated(j, "succeeded")
             \/ Goes(j, "recording") /\ Restated(j, "succeeded")
             \/ Saves(j, "applied") /\ Restated(j, jobs[j].status)
       \/ pc[j] = "applied" /\ Goes(j, "confirming") /\ jobs' = jobs
       \/ pc[j] = "confirming" /\ Saves(j, "finishing") /\ Restated(j, "succeeded")
       \/ pc[j] = "recording" /\ Saves(j, "finishing") /\ Restated(j, jobs[j].status)

Ending(j) ==
    /\ Kept /\ written' = written
    /\ \/ /\ pc[j] \in {"finishing", "cancelling", "failing"}
          /\ Goes(j, "idle") /\ jobs' = jobs
       \/ pc[j] = "noting" /\ Saves(j, "failing") /\ Restated(j, jobs[j].status)

Catching(j) ==
    /\ Kept
    /\ pc[j] \in Executing \ {"undoing", "noting", "failing"}
    /\ \/ /\ plan[j].kind \in Revertible /\ jobs[j].commitStarted
          /\ Goes(j, "undoing") /\ written'[j] = 0
          /\ Restated(j, "failed")
       \/ /\ ~(plan[j].kind \in Revertible /\ jobs[j].commitStarted)
          /\ written' = written
          /\ Goes(j, "noting") \/ Saves(j, "failing")
          /\ \/ Restated(j, "failed")
             \/ plan[j].kind \notin Revertible
                /\ Becomes(j, "failed", jobs[j].commitStarted, "inspect", jobs[j].created)

\* The part of the plan a rollback undoes next.
Undoes(j) == IF plan[j].kind = "resource" THEN NParts - written[j] ELSE written[j] + 1

Undoing(j) ==
    /\ pc[j] = "undoing"
    /\ Writes(j, Undoes(j), plan[j].before)
    /\ jobs' = jobs /\ saving' = saving /\ pc' = pc /\ io' = io

EndingUndo(j) ==
    /\ pc[j] = "undoing" /\ Kept /\ written' = written
    /\ Saves(j, "failing")
    /\ \E r \in {"restored", "error"} :
          /\ r = "restored" => written[j] = NParts
          /\ Becomes(j, jobs[j].status, jobs[j].commitStarted, r, jobs[j].created)

StepOf(j) ==
    \/ Approving(j) \/ Opening(j) \/ Stopping(j) \/ Rechecking(j) \/ Comparing(j)
    \/ Beginning(j) \/ Applying(j) \/ Created(j) \/ Confirming(j) \/ Ending(j)
    \/ Catching(j) \/ Undoing(j) \/ EndingUndo(j)

\* The tools of the table: what a save, a change of status and a move do.
LEMMA Moves ==
    ASSUME TypeOK, NEW j \in Jobs
    PROVE  /\ \A at, new : SaveAndWait(j, new, at) => Saves(j, at) /\ jobs' = new
           /\ \A at : Goto(j, at) /\ saving' = saving => Goes(j, at)
           /\ \A r : With(j, r)[j] = r
  BY DEF TypeOK, Texts, SaveAndWait, Save, Goto, Saves, Goes, With

LEMMA Restates ==
    ASSUME TypeOK, NEW j \in Jobs, NEW s, jobs' = Set(j, s) PROVE Restated(j, s)
  <1>1. jobs[j] \in JobRecord
    BY DEF TypeOK, Texts
  <1>2. jobs'[j] = [jobs[j] EXCEPT !.status = s]
    BY DEF TypeOK, Texts, Set, With
  <1> QED BY <1>1, <1>2 DEF Restated, Becomes, JobRecord

LEMMA RestatesSame ==
    ASSUME TypeOK, NEW j \in Jobs, jobs' = jobs PROVE Restated(j, jobs[j].status)
  <1>1. jobs[j] \in JobRecord
    BY DEF TypeOK, Texts
  <1> QED BY <1>1 DEF Restated, Becomes, JobRecord

\* Every step of approve() and execute() is one of the table, and touches no
\* other job.
LEMMA EngineTable ==
    ASSUME TypeOK, NEW j \in Jobs, Engine(j)
    PROVE  StepOf(j) /\ plan' = plan /\ \A i \in Jobs \ {j} : written'[i] = written[i]
  <1> USE DEF past, work
  <1>0. /\ jobs[j] \in JobRecord /\ pc \in [Jobs -> Locations]
        /\ io \in [Jobs -> Outcomes] /\ written \in [Jobs -> 0..NParts] /\ NParts \in Nat
    BY BoundsAssumption DEF TypeOK, Texts
  <1>1. plan' = plan /\ \A i \in Jobs \ {j} : written'[i] = written[i]
    BY <1>0 DEF Engine, ApproveRecheck, ApproveFails, ApproveEnds, Start, Opened, Validate, Recheck,
       Compare, Committed, Apply, CreatedSaved, Applied, AppliedSaved, Confirm, Record,
       Finish, Catch, Note, Undo, Undone, WritePart
  <1> SUFFICES StepOf(j)
    BY <1>1
  <1>2. CASE ApproveRecheck(j)
    <2>1. pc[j] = "approving" /\ Kept /\ written' = written
          /\ SaveAndWait(j, Set(j, "queued"), "queueing")
      BY <1>2 DEF ApproveRecheck, Kept, HostKept
    <2> QED BY <2>1, Moves, Restates DEF Approving, StepOf
  <1>3. CASE ApproveFails(j) \/ ApproveEnds(j)
    <2>1. Approving(j)
      BY <1>0, <1>3 DEF ApproveFails, ApproveEnds, Kept, HostKept, Approving, Goes
    <2> QED BY <2>1 DEF StepOf
  <1>4. CASE Start(j)
    <2>1. pc[j] = "scheduled" /\ Kept /\ written' = written
          /\ SaveAndWait(j, Set(j, "running"), "opening")
      BY <1>4 DEF Start, Kept, HostKept
    <2> QED BY <2>1, Moves, Restates DEF Opening, StepOf
  <1>5. CASE Opened(j)
    <2>1. /\ pc[j] = "opening" /\ Kept /\ written' = written /\ jobs' = jobs
          /\ Goes(j, "validating") \/ Goes(j, "rechecking")
      BY <1>5, Moves DEF Opened, Kept, HostKept
    <2> QED BY <2>1 DEF Opening, StepOf
  <1>6. StopCancelled(j) => Saves(j, "cancelling") /\ Restated(j, "cancelled")
    BY Moves, Restates DEF StopCancelled
  <1>7. CASE Validate(j)
    <2>1. /\ pc[j] = "validating" /\ HostKept /\ overtaken' = overtaken /\ written' = written
          /\ \/ StopCancelled(j)
             \/ Goes(j, "rechecking") /\ jobs' = jobs
      BY <1>7, Moves DEF Validate, HostKept
    <2> QED BY <1>6, <2>1 DEF Opening, Stopping, StepOf, Kept
  <1>8. EnterCommit(j) => Commits(j)
    <2> SUFFICES ASSUME EnterCommit(j) PROVE Commits(j)
      OBVIOUS
    <2> DEFINE k == IF plan[j].kind \in Revertible THEN "available" ELSE jobs[j].rollback
               r == [jobs[j] EXCEPT !.commitStarted = TRUE, !.rollback = k]
    <2> HIDE DEF k
    <2>1. /\ r.status = jobs[j].status /\ r.cancelRequested = jobs[j].cancelRequested
          /\ r.commitStarted = TRUE /\ r.rollback = k /\ r.created = jobs[j].created
      BY <1>0 DEF JobRecord
    <2>2. SaveAndWait(j, With(j, r), "committing")
      BY DEF EnterCommit, k
    <2> HIDE DEF r
    <2>3. Saves(j, "committing") /\ jobs'[j] = r
      BY <2>2, Moves
    <2> QED BY <2>1, <2>3 DEF Commits, Becomes, k
  <1>9. CASE Recheck(j)
    <2>1. /\ pc[j] = "rechecking" /\ host = plan[j].before
          /\ HostKept /\ overtaken' = overtaken \ {j} /\ written' = written
      BY <1>9 DEF Recheck, Unchanged, HostKept
    <2>2. \/ StopCancelled(j)
          \/ /\ ~jobs[j].cancelRequested
             /\ \/ plan[j].before = plan[j].after /\ Goes(j, "comparing") /\ jobs' = jobs
                \/ EnterCommit(j)
      BY <1>9, Moves DEF Recheck
    <2> QED BY <1>6, <1>8, <2>1, <2>2 DEF Stopping, Rechecking, StepOf
  <1>10. CASE Compare(j)
    <2>1. /\ pc[j] = "comparing" /\ Kept /\ written' = written
          /\ SaveAndWait(j, Set(j, "succeeded"), "finishing") \/ EnterCommit(j)
      BY <1>10 DEF Compare, Kept, HostKept
    <2> QED BY <1>8, <2>1, Moves, Restates DEF Comparing, StepOf
  <1>11. CASE Committed(j)
    <2>1. Beginning(j)
      BY <1>0, <1>11, Moves DEF Committed, Saved, Kept, HostKept, Beginning
    <2> QED BY <2>1 DEF StepOf
  <1>12. CASE Apply(j)
    <2>1. pc[j] = "applying" /\ Writes(j, written[j] + 1, plan[j].after)
      BY <1>0, <1>12 DEF Apply, WritePart, Writes
    <2> DEFINE r == [jobs[j] EXCEPT !.created = @ + 1]
    <2>2. r = [status |-> jobs[j].status, cancelRequested |-> jobs[j].cancelRequested,
               commitStarted |-> jobs[j].commitStarted, rollback |-> jobs[j].rollback,
               created |-> jobs[j].created + 1]
      BY <1>0 DEF JobRecord
    <2>3. \/ /\ plan[j].kind = "resource" /\ written'[j] < NParts
             /\ SaveAndWait(j, With(j, r), "creating")
          \/ /\ ~(plan[j].kind = "resource" /\ written'[j] < NParts)
             /\ jobs' = jobs /\ saving' = saving /\ pc' = pc /\ io' = io
      BY <1>12 DEF Apply
    <2> HIDE DEF r
    <2>4. SaveAndWait(j, With(j, r), "creating") => Saves(j, "creating") /\ jobs'[j] = r
      BY Moves
    <2> QED BY <2>1, <2>2, <2>3, <2>4 DEF Applying, Becomes, StepOf
  <1>13. CASE CreatedSaved(j)
    <2>1. Created(j)
      BY <1>13, Moves DEF CreatedSaved, Saved, Kept, HostKept, Created
    <2> QED BY <2>1 DEF StepOf
  <1>14. CASE Applied(j)
    <2>1. pc[j] = "applying" /\ written[j] = NParts /\ Kept /\ written' = written
      BY <1>14 DEF Applied, Kept, HostKept
    <2>2. \/ SaveAndWait(j, Set(j, "succeeded"), "finishing")
          \/ Goto(j, "recording") /\ jobs' = Set(j, "succeeded") /\ saving' = saving
          \/ SaveAndWait(j, jobs, "applied")
      BY <1>14 DEF Applied
    <2>3. \/ Saves(j, "finishing") /\ Restated(j, "succeeded")
          \/ Goes(j, "recording") /\ Restated(j, "succeeded")
          \/ Saves(j, "applied") /\ Restated(j, jobs[j].status)
      BY <2>2, Moves, Restates, RestatesSame
    <2> QED BY <2>1, <2>3 DEF Confirming, StepOf
  <1>15. CASE AppliedSaved(j)
    <2>1. pc[j] = "applied" /\ Goes(j, "confirming") /\ jobs' = jobs /\ Kept /\ written' = written
      BY <1>15, Moves DEF AppliedSaved, Kept, HostKept
    <2> QED BY <2>1 DEF Confirming, StepOf
  <1>16. CASE Confirm(j) \/ Record(j)
    <2>1. /\ Kept /\ written' = written
          /\ \/ pc[j] = "confirming" /\ SaveAndWait(j, Set(j, "succeeded"), "finishing")
             \/ pc[j] = "recording" /\ SaveAndWait(j, jobs, "finishing")
      BY <1>16 DEF Confirm, Record, Kept, HostKept
    <2> QED BY <2>1, Moves, Restates, RestatesSame DEF Confirming, StepOf
  <1>17. CASE Finish(j)
    <2>1. /\ Kept /\ written' = written /\ pc[j] \in {"finishing", "cancelling", "failing"}
          /\ Goes(j, "idle") /\ jobs' = jobs
      BY <1>17, Moves DEF Finish, Kept, HostKept
    <2> QED BY <2>1 DEF Ending, StepOf
  <1>18. CASE Note(j)
    <2>1. /\ Kept /\ written' = written /\ pc[j] = "noting"
          /\ SaveAndWait(j, jobs, "failing")
      BY <1>18 DEF Note, Kept, HostKept
    <2> QED BY <2>1, Moves, RestatesSame DEF Ending, StepOf
  <1>19. CASE Catch(j)
    <2> DEFINE j0 == [jobs[j] EXCEPT !.status = "failed"]
               undo == plan[j].kind \in Revertible /\ jobs[j].commitStarted
               failed == IF plan[j].kind \in Revertible \/ ~jobs[j].commitStarted
                         THEN j0 ELSE [j0 EXCEPT !.rollback = "inspect"]
    <2>1. Kept /\ pc[j] \in Executing \ {"undoing", "noting", "failing"}
      BY <1>19 DEF Catch, Throws, Kept, HostKept, Executing
    <2>2. \/ undo /\ Goto(j, "undoing") /\ jobs' = With(j, failed)
             /\ written' = [written EXCEPT ![j] = 0] /\ saving' = saving
          \/ ~undo /\ Goto(j, "noting") /\ jobs' = With(j, failed) /\ saving' = saving
             /\ written' = written
          \/ ~undo /\ SaveAndWait(j, With(j, failed), "failing") /\ written' = written
      BY <1>19 DEF Catch, Revertible
    <2>3. /\ j0 \in JobRecord
          /\ j0 = [status |-> "failed", cancelRequested |-> jobs[j].cancelRequested,
                   commitStarted |-> jobs[j].commitStarted, rollback |-> jobs[j].rollback,
                   created |-> jobs[j].created]
      BY <1>0 DEF JobRecord, Statuses, Terminal
    <2> HIDE DEF j0
    <2>4. [j0 EXCEPT !.rollback = "inspect"] =
             [status |-> "failed", cancelRequested |-> jobs[j].cancelRequested,
              commitStarted |-> jobs[j].commitStarted, rollback |-> "inspect",
              created |-> jobs[j].created]
      BY <2>3 DEF JobRecord
    <2>5. /\ undo => failed = j0
          /\ failed # j0 => plan[j].kind \notin Revertible
          /\ failed \in {j0, [j0 EXCEPT !.rollback = "inspect"]}
      OBVIOUS
    <2> HIDE DEF failed
    <2>6. /\ jobs'[j] = failed
          /\ \/ undo /\ Goes(j, "undoing") /\ written'[j] = 0
             \/ ~undo /\ (Goes(j, "noting") \/ Saves(j, "failing")) /\ written' = written
      BY <1>0, <2>2, Moves
    <2>7. jobs'[j] = j0 => Restated(j, "failed")
      BY <2>3 DEF Restated, Becomes
    <2>8. jobs'[j] = [j0 EXCEPT !.rollback = "inspect"] =>
             Becomes(j, "failed", jobs[j].commitStarted, "inspect", jobs[j].created)
      BY <2>4 DEF Becomes
    <2>9. Catching(j)
      BY <2>1, <2>5, <2>6, <2>7, <2>8 DEF Catching
    <2> QED BY <2>9 DEF StepOf
  <1>20. CASE Undo(j)
    <2>1. Undoing(j)
      BY <1>0, <1>20 DEF Undo, WritePart, Writes, Undoes, Undoing
    <2> QED BY <2>1 DEF StepOf
  <1>21. CASE Undone(j)
    <2>1. pc[j] = "undoing" /\ Kept /\ written' = written
      BY <1>21 DEF Undone, Kept, HostKept
    <2>2. PICK k \in {"restored", "error"} :
             /\ k = "restored" => written[j] = NParts
             /\ SaveAndWait(j, With(j, [jobs[j] EXCEPT !.rollback = k]), "failing")
      BY <1>21 DEF Undone
    <2> DEFINE r == [jobs[j] EXCEPT !.rollback = k]
    <2>3. r = [status |-> jobs[j].status, cancelRequested |-> jobs[j].cancelRequested,
               commitStarted |-> jobs[j].commitStarted, rollback |-> k,
               created |-> jobs[j].created]
      BY <1>0 DEF JobRecord
    <2>4. SaveAndWait(j, With(j, r), "failing")
      BY <2>2
    <2> HIDE DEF r
    <2>5. Saves(j, "failing") /\ jobs'[j] = r
      BY <2>4, Moves
    <2> QED BY <2>1, <2>2, <2>3, <2>5 DEF EndingUndo, Becomes, StepOf
  <1> QED BY <1>2, <1>3, <1>4, <1>5, <1>7, <1>9, <1>10, <1>11, <1>12, <1>13, <1>14,
             <1>15, <1>16, <1>17, <1>18, <1>19, <1>20, <1>21 DEF Engine

\* How the call of a job goes on: it saves and waits, waits for no write, or
\* stays where it is.
Flow(j) ==
    \/ \E at \in Awaiting : Saves(j, at)
    \/ \E at : Goes(j, at)
    \/ pc' = pc /\ io' = io /\ saving' = saving

LEMMA StepFlows ==
    ASSUME NEW j, StepOf(j) PROVE Flow(j)
  BY DEF StepOf, Approving, Opening, Stopping, Commits, Rechecking, Comparing, Beginning,
     Applying, Created, Confirming, Ending, Catching, Undoing, EndingUndo, Flow, Awaiting

\* What a step of one job leaves of another: it waits for no slot, and keeps
\* its record.
LEMMA EngineFrame ==
    ASSUME TypeOK, OneMutation, RunInv, NEW j \in Jobs, Engine(j)
    PROVE  /\ journal' = journal /\ plan' = plan /\ pc[j] \in Holding
           /\ \A i \in Jobs \ {j} :
                 /\ pc[i] \notin Holding /\ pc'[i] = pc[i]
                 /\ jobs'[i] = jobs[i] /\ io'[i] = io[i]
           /\ saving' = saving \/ Save(jobs', j)
  <1>1. pc \in [Jobs -> Locations]
    BY DEF TypeOK
  <1>2. pc[j] \in Holding /\ \A i \in Jobs \ {j} : pc'[i] = pc[i]
    BY <1>1, EngineSlot
  <1>3. \A i \in Jobs \ {j} : pc[i] \notin Holding
    BY <1>2 DEF OneMutation
  <1> QED BY <1>2, <1>3, EngineRecords, EngineTable

-----------------------------------------------------------------------------
(* Who waits for which write *)

\* A call of a job waits for its last save only.
IoInv ==
    /\ \A j \in Jobs : pc[j] \notin Awaiting => io[j] = "none"
    /\ \A k \in 1..Len(saving) : saving[k].for \in Jobs =>
          /\ io[saving[k].for] = "pending"
          /\ \A l \in 1..Len(saving) : saving[l].for = saving[k].for => l = k

\* A call that goes on waits for no write any more.
LEMMA EngineAwaits ==
    ASSUME IoInv, NEW j \in Jobs, Engine(j) PROVE io[j] # "pending"
  <1>1. io[j] = "none" \/ pc[j] \in Awaiting
    BY DEF IoInv
  <1>2. pc[j] \in Awaiting => Saved(j) \/ NotSaved(j)
    BY DEF Engine, ApproveRecheck, ApproveFails, ApproveEnds, Start, Opened, Validate, Recheck,
       Compare, Committed, Apply, CreatedSaved, Applied, AppliedSaved, Confirm, Record,
       Finish, Catch, Throws, Note, Undo, Undone, Awaiting
  <1> QED BY <1>1, <1>2 DEF Saved, NotSaved

\* The entry that a save appends.
LEMMA SaveAppends ==
    ASSUME TypeOK, NEW new, NEW c, Save(new, c)
    PROVE  /\ jobs' = new /\ Len(saving) \in Nat /\ Len(saving') = Len(saving) + 1
           /\ saving'[Len(saving) + 1].text = new /\ saving'[Len(saving) + 1].for = c
           /\ \A k \in 1..Len(saving) : saving'[k] = saving[k]
  <1> DEFINE e == [text |-> new, for |-> c]
  <1>1. saving \in Seq(Entries) /\ jobs' = new /\ saving' = Append(saving, e)
    BY DEF Save, TypeOK
  <1>2. e.text = new /\ e.for = c
    OBVIOUS
  <1> HIDE DEF e
  <1>3. /\ Len(saving') = Len(saving) + 1 /\ Len(saving) \in Nat
        /\ saving'[Len(saving) + 1] = e
        /\ \A k \in 1..Len(saving) : saving'[k] = saving[k]
    BY <1>1, LenProperties
  <1> QED BY <1>1, <1>2, <1>3

\* The first entry is written, or fails.
LEMMA WriteShifts ==
    ASSUME TypeOK, WriteJournal \/ FailJournal
    PROVE  /\ Len(saving) \in Nat /\ Len(saving) > 0 /\ Len(saving') = Len(saving) - 1
           /\ \A k \in 1..Len(saving') : saving'[k] = saving[k + 1]
           /\ jobs' = jobs /\ pc' = pc /\ plan' = plan /\ written' = written /\ host' = host
           /\ wrote' = wrote /\ overtaken' = overtaken
           /\ \/ journal' = saving[1].text /\ Answer(saving[1], "ok")
              \/ journal' \in {journal, saving[1].text} /\ Answer(saving[1], "error")
  <1>1. /\ saving # <<>> /\ saving' = Tail(saving)
        /\ jobs' = jobs /\ pc' = pc /\ plan' = plan /\ written' = written /\ host' = host
        /\ wrote' = wrote /\ overtaken' = overtaken
        /\ \/ journal' = Head(saving).text /\ Answer(Head(saving), "ok")
           \/ journal' \in {journal, Head(saving).text} /\ Answer(Head(saving), "error")
    BY DEF WriteJournal, FailJournal, past
  <1>2. saving \in Seq(Entries) /\ Len(saving) \in Nat /\ Len(saving) > 0
    BY <1>1, LenProperties, EmptySeq DEF TypeOK
  <1>3. /\ Head(saving) = saving[1] /\ Len(saving') = Len(saving) - 1
        /\ \A k \in 1..Len(saving') : saving'[k] = saving[k + 1]
    BY <1>1, <1>2, HeadTailProperties
  <1> QED BY <1>1, <1>2, <1>3

\* What a request of a client does.
Previewing(j) ==
    /\ pc[j] \in {"idle", "planning"} /\ pc'[j] \in {"idle", "planning"}
    /\ jobs[j].status # "absent" => plan' = plan
    /\ \/ jobs' = jobs /\ saving' = saving
       \/ Save(jobs', NoJob) /\ Restated(j, "preview") /\ jobs[j].status = "absent"

Asking(j) ==
    /\ plan' = plan /\ jobs' = jobs /\ saving' = saving
    /\ \/ pc' = pc
       \/ jobs[j].status = "preview" /\ pc'[j] = "approving"

Cancelling(j) ==
    /\ plan' = plan /\ pc' = pc /\ ~jobs[j].commitStarted
    /\ Save(jobs', NoJob)
    /\ jobs'[j].status = jobs[j].status /\ jobs[j].status \in {"queued", "running"}
    /\ jobs'[j].cancelRequested = TRUE /\ jobs'[j].commitStarted = jobs[j].commitStarted
    /\ jobs'[j].rollback = jobs[j].rollback /\ jobs'[j].created = jobs[j].created

LEMMA ClientTable ==
    ASSUME TypeOK, RunInv, NEW j \in Jobs, Client(j)
    PROVE  /\ Previewing(j) \/ Asking(j) \/ Cancelling(j)
           /\ journal' = journal /\ io' = io /\ written' = written
           /\ host' = host /\ wrote' = wrote /\ overtaken' = overtaken
           /\ \A i \in Jobs \ {j} : jobs'[i] = jobs[i] /\ pc'[i] = pc[i] /\ plan'[i] = plan[i]
  <1> USE DEF past, work
  <1>0. /\ jobs \in Texts /\ jobs[j] \in JobRecord /\ pc \in [Jobs -> Locations]
        /\ plan \in [Jobs -> Plans]
    BY DEF TypeOK, Texts
  <1>1. CASE \/ \E k \in Kinds, v \in Values : BeginPreview(j, k, v)
             \/ \E old \in Jobs : BeginRollbackPreview(j, old)
             \/ RefusePreview(j)
    BY <1>0, <1>1 DEF BeginPreview, BeginRollbackPreview, RefusePreview, Previewing
  <1>2. CASE EndPreview(j)
    <2>1. /\ pc[j] = "planning" /\ pc'[j] = "idle" /\ plan' = plan
          /\ jobs' = Set(j, "preview") /\ Save(jobs', NoJob)
          /\ \A i \in Jobs \ {j} : pc'[i] = pc[i]
      BY <1>0, <1>2 DEF EndPreview, Save
    <2>2. Restated(j, "preview") /\ \A i \in Jobs \ {j} : jobs'[i] = jobs[i]
      BY <1>0, <2>1, Restates DEF Set, With, Texts
    <2>3. jobs[j].status = "absent"
      BY <2>1 DEF RunInv, Stages
    <2> QED BY <1>2, <2>1, <2>2, <2>3 DEF EndPreview, Previewing
  <1>3. CASE Expire(j) \/ Approve(j)
    BY <1>0, <1>3 DEF Expire, Approve, Asking
  <1>4. CASE Cancel(j)
    <2> DEFINE r == [jobs[j] EXCEPT !.cancelRequested = TRUE]
    <2>1. /\ r.status = jobs[j].status /\ r.cancelRequested = TRUE
          /\ r.commitStarted = jobs[j].commitStarted /\ r.rollback = jobs[j].rollback
          /\ r.created = jobs[j].created
      BY <1>0 DEF JobRecord
    <2>2. jobs' = With(j, r) /\ Save(jobs', NoJob)
      BY <1>4 DEF Cancel, Save
    <2> HIDE DEF r
    <2>3. jobs'[j] = r /\ \A i \in Jobs \ {j} : jobs'[i] = jobs[i]
      BY <1>0, <2>2 DEF With, Texts
    <2> QED BY <1>4, <2>1, <2>2, <2>3 DEF Cancel, Cancelling
  <1> QED BY <1>1, <1>2, <1>3, <1>4 DEF Client

-----------------------------------------------------------------------------
(* The order of the texts, and what they may say *)

\* Nothing that record r says of a commit is taken back in record s.
Below(r, s) ==
    /\ r.commitStarted => s.commitStarted
    /\ r.cancelRequested => s.cancelRequested
    /\ r.rollback # "none" => s.rollback # "none"
    /\ r.created <= s.created

\* No commit was begun.
Clear(r) == ~r.commitStarted /\ r.rollback = "none" /\ r.created = 0
Fresh(r) == r.status \in {"absent", "preview"} => Clear(r)

ChainInv ==
    \A j \in Jobs :
        /\ Fresh(journal[j]) /\ Fresh(jobs[j]) /\ Below(journal[j], jobs[j])
        /\ \A k \in 1..Len(saving) :
              /\ Fresh(saving[k].text[j])
              /\ Below(journal[j], saving[k].text[j])
              /\ Below(saving[k].text[j], jobs[j])
              /\ \A l \in k..Len(saving) : Below(saving[k].text[j], saving[l].text[j])

LEMMA BelowSelf == \A r \in JobRecord : Below(r, r)
  BY DEF Below, JobRecord

LEMMA BelowTransitive ==
    \A r, s, t \in JobRecord : Below(r, s) /\ Below(s, t) => Below(r, t)
  BY DEF Below, JobRecord

LEMMA TextTypes ==
    ASSUME TypeOK
    PROVE  /\ \A i \in Jobs : jobs[i] \in JobRecord /\ journal[i] \in JobRecord
           /\ \A k \in 1..Len(saving) : \A i \in Jobs : saving[k].text[i] \in JobRecord
  <1>1. saving \in Seq(Entries) /\ Len(saving) \in Nat
    BY LenProperties DEF TypeOK
  <1>2. \A k \in 1..Len(saving) : saving[k] \in Entries
    BY <1>1, ElementOfSeq
  <1> QED BY <1>2 DEF TypeOK, Entries, Texts

\* A step that takes nothing back, whether it saves or not, keeps the order.
LEMMA KeepsChain ==
    ASSUME TypeOK, TypeOK', ChainInv, journal' = journal,
           saving' = saving \/ \E c : Save(jobs', c),
           \A i \in Jobs : Below(jobs[i], jobs'[i]) /\ Fresh(jobs'[i])
    PROVE  ChainInv'
  <1>1. /\ \A i \in Jobs : /\ jobs[i] \in JobRecord /\ journal[i] \in JobRecord
                           /\ jobs'[i] \in JobRecord
        /\ \A k \in 1..Len(saving) : \A i \in Jobs : saving[k].text[i] \in JobRecord
    BY TextTypes DEF TypeOK, Texts
  <1>2. \A i \in Jobs :
          /\ Fresh(journal[i]) /\ Fresh(jobs'[i]) /\ Below(journal[i], jobs'[i])
          /\ Below(jobs'[i], jobs'[i])
          /\ \A k \in 1..Len(saving) : Below(saving[k].text[i], jobs'[i])
    BY <1>1, BelowSelf, BelowTransitive DEF ChainInv
  <1>3. CASE saving' = saving
    BY <1>2, <1>3 DEF ChainInv
  <1>4. CASE \E c : Save(jobs', c)
    <2>1. /\ Len(saving) \in Nat /\ Len(saving') = Len(saving) + 1
          /\ saving'[Len(saving) + 1].text = jobs'
          /\ \A k \in 1..Len(saving) : saving'[k] = saving[k]
      BY <1>4, SaveAppends
    <2> QED BY <1>2, <2>1 DEF ChainInv
  <1> QED BY <1>3, <1>4

\* So does the end of a write, and the journal takes nothing back.
LEMMA WriteKeepsChain ==
    ASSUME TypeOK, ChainInv, WriteJournal \/ FailJournal
    PROVE  ChainInv' /\ \A j \in Jobs : Below(journal[j], journal'[j])
  <1>1. \A j \in Jobs : Below(journal[j], journal[j])
    BY TextTypes, BelowSelf
  <1>2. /\ Len(saving) \in Nat /\ Len(saving) > 0 /\ Len(saving') = Len(saving) - 1
        /\ \A k \in 1..Len(saving') : saving'[k] = saving[k + 1]
        /\ jobs' = jobs /\ journal' \in {journal, saving[1].text}
    BY WriteShifts
  <1>3. \A j \in Jobs : Below(journal[j], journal'[j])
    BY <1>1, <1>2 DEF ChainInv
  <1>4. \A k \in 1..Len(saving') : k + 1 \in 1..Len(saving) /\ saving'[k] = saving[k + 1]
    BY <1>2
  <1>5. \A k \in 1..Len(saving') : \A l \in k..Len(saving') :
           /\ l \in 1..Len(saving') /\ l + 1 \in (k + 1)..Len(saving)
    BY <1>2
  <1>6. \A j \in Jobs : \A k \in 1..Len(saving) :
           Below(saving[1].text[j], saving[k].text[j])
    BY <1>2 DEF ChainInv
  <1>7. \A j \in Jobs : /\ Fresh(journal'[j]) /\ Below(journal'[j], jobs'[j])
                        /\ \A k \in 1..Len(saving) : Below(journal'[j], saving[k].text[j])
    BY <1>2, <1>6 DEF ChainInv
  <1>8. ChainInv'
    BY <1>2, <1>4, <1>5, <1>7 DEF ChainInv
  <1> QED BY <1>3, <1>8

\* A restart reads one text and changes its statuses only.
LEMMA RecoveredRecords ==
    ASSUME TypeOK, NEW j \in Jobs
    PROVE  /\ Recovered[j].commitStarted = journal[j].commitStarted
           /\ Recovered[j].cancelRequested = journal[j].cancelRequested
           /\ Recovered[j].rollback = journal[j].rollback
           /\ Recovered[j].created = journal[j].created
           /\ Recovered[j].status \in {journal[j].status, "interrupted"}
           /\ Used(Recovered[j]) <=> Used(journal[j])
  BY DEF Recovered, TypeOK, Texts, JobRecord, Used

LEMMA EngineKeepsChain ==
    ASSUME TypeOK, TypeOK', OneMutation, RunInv, ChainInv, NEW j \in Jobs, Engine(j)
    PROVE  ChainInv'
  <1>1. /\ journal' = journal /\ \A i \in Jobs \ {j} : jobs'[i] = jobs[i]
        /\ saving' = saving \/ Save(jobs', j)
    BY EngineFrame
  <1>2. jobs[j] \in JobRecord /\ jobs'[j] \in JobRecord
    BY DEF TypeOK, Texts
  <1>3. jobs' = jobs \/ Used(jobs'[j])
    BY EngineRecords
  <1>4. /\ jobs'[j].cancelRequested = jobs[j].cancelRequested
        /\ jobs[j].commitStarted => jobs'[j].commitStarted
        /\ jobs'[j].rollback = jobs[j].rollback \/ jobs'[j].rollback # "none"
        /\ jobs'[j].created \in {jobs[j].created, jobs[j].created + 1}
    BY EngineTable DEF StepOf, Approving, Opening, Stopping, Commits, Rechecking, Comparing,
       Beginning, Applying, Created, Confirming, Ending, Catching, Undoing, EndingUndo,
       Restated, Becomes
  <1>5. Below(jobs[j], jobs'[j])
    <2>1. jobs[j].created \in Nat
      BY <1>2 DEF JobRecord
    <2>2. jobs[j].created <= jobs'[j].created
      BY <1>4, <2>1
    <2> QED BY <1>4, <2>2 DEF Below
  <1>6. Fresh(jobs'[j])
    BY <1>3 DEF Fresh, Used, ChainInv
  <1>7. \A i \in Jobs : Below(jobs[i], jobs'[i]) /\ Fresh(jobs'[i])
    BY <1>1, <1>5, <1>6, TextTypes, BelowSelf DEF ChainInv
  <1> QED BY <1>1, <1>7, KeepsChain

LEMMA ClientKeepsChain ==
    ASSUME TypeOK, TypeOK', RunInv, ChainInv, NEW j \in Jobs, Client(j) PROVE ChainInv'
  <1>1. /\ journal' = journal /\ \A i \in Jobs \ {j} : jobs'[i] = jobs[i]
        /\ Previewing(j) \/ Asking(j) \/ Cancelling(j)
    BY ClientTable
  <1>2. jobs[j] \in JobRecord /\ jobs'[j] \in JobRecord /\ Fresh(jobs[j])
    BY DEF TypeOK, Texts, ChainInv
  <1>3. saving' = saving \/ Save(jobs', NoJob)
    BY <1>1 DEF Previewing, Asking, Cancelling
  <1>4. CASE jobs' = jobs
    BY <1>1, <1>3, <1>4, TextTypes, BelowSelf, KeepsChain DEF ChainInv
  <1>5. CASE Restated(j, "preview") /\ jobs[j].status = "absent"
    <2>1. Below(jobs[j], jobs'[j]) /\ Fresh(jobs'[j])
      BY <1>2, <1>5 DEF Restated, Becomes, Below, Fresh, Clear, JobRecord
    <2> QED BY <1>1, <1>3, <2>1, TextTypes, BelowSelf, KeepsChain DEF ChainInv
  <1>6. CASE Cancelling(j)
    <2>1. Below(jobs[j], jobs'[j]) /\ Fresh(jobs'[j])
      BY <1>2, <1>6 DEF Cancelling, Below, Fresh, Clear, JobRecord
    <2> QED BY <1>1, <1>3, <2>1, TextTypes, BelowSelf, KeepsChain DEF ChainInv
  <1> QED BY <1>1, <1>4, <1>5, <1>6 DEF Previewing, Asking

LEMMA RestartKeepsChain ==
    ASSUME TypeOK, ChainInv, Restart PROVE ChainInv'
  <1>1. jobs' = Recovered /\ journal' = Recovered /\ saving' = <<>>
    BY DEF Restart
  <1>2. \A j \in Jobs : Fresh(Recovered[j])
    BY RecoveredRecords DEF ChainInv, Fresh, Clear, Used
  <1>3. \A j \in Jobs : Below(Recovered[j], Recovered[j])
    BY RecoveredRecords, TextTypes, BelowSelf DEF Below, JobRecord
  <1> QED BY <1>1, <1>2, <1>3 DEF ChainInv

LEMMA ChainInvariance == Spec => []ChainInv
  <1>1. Init => ChainInv
    BY DEF Init, ChainInv, Fresh, Clear, Below, Absent
  <1>2. /\ TypeOK /\ TypeOK' /\ OneMutation /\ RunInv
        /\ ChainInv /\ [Next]_vars
        => ChainInv'
    <2> SUFFICES ASSUME TypeOK, TypeOK', OneMutation, RunInv, ChainInv, [Next]_vars
                 PROVE  ChainInv'
      OBVIOUS
    <2>1. CASE UNCHANGED vars \/ \E p \in 1..NParts, v \in Values : Edit(p, v)
      BY <2>1 DEF vars, Edit, ChainInv
    <2> QED BY <2>1, EngineKeepsChain, ClientKeepsChain, WriteKeepsChain,
               RestartKeepsChain DEF Next
  <1> QED BY <1>1, <1>2, Typing, MutualExclusion, RunInvariance, PTL DEF Spec

-----------------------------------------------------------------------------
(* Waiting for writes *)

LEMMA EngineKeepsIo ==
    ASSUME TypeOK, OneMutation, RunInv, IoInv, NEW j \in Jobs, Engine(j) PROVE IoInv'
  <1>1. \A i \in Jobs \ {j} : pc'[i] = pc[i] /\ io'[i] = io[i]
    BY EngineFrame
  <1>2. io[j] # "pending" /\ Flow(j)
    BY EngineAwaits, EngineTable, StepFlows
  <1>3. \A k \in 1..Len(saving) : saving[k].for # j
    BY <1>2 DEF IoInv
  <1>4. CASE \E at \in Awaiting : Saves(j, at)
    <2>1. /\ Len(saving) \in Nat /\ Len(saving') = Len(saving) + 1
          /\ saving'[Len(saving) + 1].for = j
          /\ \A k \in 1..Len(saving) : saving'[k] = saving[k]
      BY <1>4, SaveAppends DEF Saves
    <2>2. pc'[j] \in Awaiting /\ io'[j] = "pending"
      BY <1>4 DEF Saves
    <2> QED BY <1>1, <1>3, <2>1, <2>2 DEF IoInv
  <1>5. CASE saving' = saving
    BY <1>1, <1>2, <1>3, <1>5 DEF IoInv, Flow, Goes, Saves
  <1> QED BY <1>2, <1>4, <1>5 DEF Flow, Goes

LEMMA ClientKeepsIo ==
    ASSUME TypeOK, RunInv, IoInv, NEW j \in Jobs, Client(j) PROVE IoInv'
  <1>1. /\ io' = io /\ \A i \in Jobs \ {j} : pc'[i] = pc[i]
        /\ Previewing(j) \/ Asking(j) \/ Cancelling(j)
    BY ClientTable
  <1>2. pc'[j] = pc[j] \/ io[j] = "none"
    <2>1. pc[j] = "approving" \/ pc[j] \in {"idle", "planning"} => io[j] = "none"
      BY DEF IoInv, Awaiting
    <2>2. ASSUME jobs[j].status = "preview", pc'[j] = "approving" PROVE io[j] = "none"
      <3>1. pc[j] \notin {"queueing", "scheduled"} \cup Executing
        BY <2>2 DEF RunInv, Stages, Monotone, Used
      <3> QED BY <3>1 DEF IoInv, Awaiting, Executing
    <2> QED BY <1>1, <2>1, <2>2 DEF Previewing, Asking, Cancelling
  <1>3. \A i \in Jobs : pc'[i] \notin Awaiting => io'[i] = "none"
    BY <1>1, <1>2 DEF IoInv
  <1>4. CASE saving' = saving
    BY <1>1, <1>3, <1>4 DEF IoInv
  <1>5. CASE Save(jobs', NoJob)
    <2>1. /\ Len(saving) \in Nat /\ Len(saving') = Len(saving) + 1
          /\ saving'[Len(saving) + 1].for = NoJob
          /\ \A k \in 1..Len(saving) : saving'[k] = saving[k]
      BY <1>5, SaveAppends
    <2> QED BY <1>1, <1>3, <2>1, JobsAssumption DEF IoInv
  <1> QED BY <1>1, <1>4, <1>5 DEF Previewing, Asking, Cancelling

LEMMA WriteKeepsIo ==
    ASSUME TypeOK, IoInv, WriteJournal \/ FailJournal
    PROVE  /\ IoInv'
           /\ \A j \in Jobs : \/ io'[j] = io[j]
                              \/ saving[1].for = j /\ io'[j] = "ok" /\ journal' = saving[1].text
                              \/ saving[1].for = j /\ io'[j] = "error"
  <1>1. /\ Len(saving) \in Nat /\ Len(saving) > 0 /\ Len(saving') = Len(saving) - 1
        /\ \A k \in 1..Len(saving') : saving'[k] = saving[k + 1]
        /\ pc' = pc
        /\ \/ journal' = saving[1].text /\ Answer(saving[1], "ok")
           \/ journal' \in {journal, saving[1].text} /\ Answer(saving[1], "error")
    BY WriteShifts
  <1>2. io \in [Jobs -> Outcomes]
    BY DEF TypeOK
  <1>3. \A j \in Jobs : \/ io'[j] = io[j]
                        \/ saving[1].for = j /\ io'[j] = "ok" /\ journal' = saving[1].text
                        \/ saving[1].for = j /\ io'[j] = "error"
    BY <1>1, <1>2 DEF Answer
  <1>4. \A k \in 1..Len(saving') : k + 1 \in 1..Len(saving) /\ k + 1 # 1
    BY <1>1
  <1>5. 1 \in 1..Len(saving)
    BY <1>1
  <1>6. \A j \in Jobs : pc'[j] \notin Awaiting => io'[j] = "none"
    BY <1>1, <1>3, <1>5 DEF IoInv
  <1>7. ASSUME NEW k \in 1..Len(saving'), saving'[k].for \in Jobs
        PROVE  /\ io'[saving'[k].for] = "pending"
               /\ \A l \in 1..Len(saving') : saving'[l].for = saving'[k].for => l = k
    <2>1. saving[k + 1].for \in Jobs /\ saving[k + 1].for # saving[1].for
      BY <1>1, <1>4, <1>5, <1>7 DEF IoInv
    <2>2. io'[saving'[k].for] = "pending"
      BY <1>1, <1>3, <1>4, <2>1 DEF IoInv
    <2>3. \A l \in 1..Len(saving') : saving[l + 1].for = saving[k + 1].for => l + 1 = k + 1
      BY <1>4, <2>1 DEF IoInv
    <2>4. \A l \in 1..Len(saving') : saving'[l].for = saving'[k].for => l = k
      <3> SUFFICES ASSUME NEW l \in 1..Len(saving'), saving'[l].for = saving'[k].for
                   PROVE  l = k
        OBVIOUS
      <3>1. l + 1 = k + 1
        BY <1>1, <2>3
      <3> QED BY <1>1, <3>1
    <2> QED BY <2>2, <2>4
  <1>8. IoInv'
    BY <1>6, <1>7 DEF IoInv
  <1> QED BY <1>3, <1>8

LEMMA IoInvariance == Spec => []IoInv
  <1>1. Init => IoInv
    BY DEF Init, IoInv
  <1>2. TypeOK /\ OneMutation /\ RunInv /\ IoInv /\ [Next]_vars => IoInv'
    <2> SUFFICES ASSUME TypeOK, OneMutation, RunInv, IoInv, [Next]_vars PROVE IoInv'
      OBVIOUS
    <2>1. CASE UNCHANGED vars \/ \E p \in 1..NParts, v \in Values : Edit(p, v)
      BY <2>1 DEF vars, work, Edit, IoInv
    <2>2. CASE Restart
      BY <2>2 DEF Restart, IoInv
    <2> QED BY <2>1, <2>2, EngineKeepsIo, ClientKeepsIo, WriteKeepsIo DEF Next
  <1> QED BY <1>1, <1>2, Typing, MutualExclusion, RunInvariance, PTL DEF Spec

-----------------------------------------------------------------------------
(* What a job's call has done when it waits at pc[j] *)

\* Before the commit, in it, and from the end of apply() on.
Early == {"approving", "queueing", "scheduled", "opening", "validating", "rechecking",
          "comparing", "cancelling"}
Writing == {"committing", "applying", "creating"}
Later == {"applied", "confirming", "recording"}

\* The record says that the commit was begun, and how to undo it.
Marked(j, r) == r.commitStarted /\ (plan[j].kind \in Revertible => r.rollback # "none")

NoChange(j) == plan[j].before = plan[j].after

\* In memory.
StageOf(j) ==
    /\ pc[j] \in Early => Clear(jobs[j])
    /\ pc[j] \in Writing \cup Later => Marked(j, jobs[j])
    /\ pc[j] \in Holding \ {"failing"} => jobs[j].rollback # "restored"
    /\ pc[j] = "comparing" => NoChange(j)
    /\ pc[j] \in Writing /\ jobs[j].cancelRequested => NoChange(j)
    /\ pc[j] = "committing" => jobs[j].created = 0
    /\ plan[j].kind = "resource" =>
          /\ pc[j] = "creating" => jobs[j].created = written[j]
          /\ pc[j] = "applying" /\ written[j] < NParts => jobs[j].created = written[j]

\* In the journal, and in the text that will be there.
JournalOf(j) ==
    /\ pc[j] \in {"committing", "creating"} =>
          /\ io[j] = "ok" => Below(jobs[j], journal[j])
          /\ \A k \in 1..Len(saving) : saving[k].for = j => Below(jobs[j], saving[k].text[j])
    /\ pc[j] = "applying" => Below(jobs[j], journal[j])

\* The job is cancelled in memory, in the journal or in a text to be written.
CancelledIn(j) ==
    \/ jobs[j].status = "cancelled" \/ journal[j].status = "cancelled"
    \/ \E k \in 1..Len(saving) : saving[k].text[j].status = "cancelled"

\* Of a job that has changed the host.
WroteOf(j) ==
    /\ pc[j] \in Early \cup {"committing"} => j \notin wrote
    /\ j \in wrote => Used(journal[j])
    /\ CancelledIn(j) =>
          j \notin wrote /\ pc[j] \in {"idle", "planning", "cancelling", "noting", "failing"}
    /\ j \in wrote \ overtaken => Marked(j, journal[j]) /\ ~jobs[j].cancelRequested

\* The rollback has restored part p.
IsUndone(j, p) == IF plan[j].kind = "resource" THEN p > NParts - written[j] ELSE p <= written[j]

\* What the host holds, unless its administrator edited it.
HostOf(j) ==
    j \notin overtaken =>
        /\ /\ pc[j] \in Writing \cup Later \cup {"comparing", "finishing", "undoing"}
           /\ j \notin wrote
           => host = plan[j].before
        /\ pc[j] \in {"applying", "creating"} =>
              \A p \in 1..NParts :
                 host[p] = IF p <= written[j] THEN plan[j].after[p] ELSE plan[j].before[p]
        /\ pc[j] \in Later \cup {"finishing"} => host = plan[j].after
        /\ pc[j] = "undoing" =>
              \A p \in 1..NParts : IsUndone(j, p) => host[p] = plan[j].before[p]
        /\ pc[j] = "failing" /\ jobs[j].rollback = "restored" => host = plan[j].before

WorkInv == \A j \in Jobs : StageOf(j) /\ JournalOf(j) /\ WroteOf(j) /\ HostOf(j)

\* The types of what belongs to one job.
LEMMA TypesOf ==
    ASSUME TypeOK, NEW j \in Jobs
    PROVE  /\ jobs[j] \in JobRecord /\ journal[j] \in JobRecord
           /\ jobs[j].created \in Nat
           /\ pc[j] \in Locations /\ io[j] \in Outcomes
           /\ written[j] \in 0..NParts /\ NParts \in Nat \ {0}
           /\ plan[j].before \in HostStates /\ plan[j].after \in HostStates
           /\ host \in HostStates
  BY BoundsAssumption DEF TypeOK, Texts, JobRecord, Plans

\* In memory a step of the job leads to what its next await tells.
LEMMA EngineStage ==
    ASSUME TypeOK, NEW j \in Jobs, StepOf(j), plan' = plan, StageOf(j)
    PROVE  StageOf(j)'
  <1> USE DEF StageOf, Early, Writing, Later, Holding, Executing
  <1>0. written[j] \in 0..NParts /\ NParts \in Nat \ {0} /\ jobs[j].created \in Nat
    BY TypesOf
  <1>1. CASE Approving(j)
    BY <1>1 DEF Approving, Goes, Saves, Restated, Becomes, Clear
  <1>2. CASE Opening(j)
    BY <1>2 DEF Opening, Goes, Saves, Restated, Becomes, Clear
  <1>3. CASE Stopping(j)
    BY <1>3 DEF Stopping, Saves, Restated, Becomes, Clear
  <1>4. Commits(j) /\ pc[j] \in Early /\ (jobs[j].cancelRequested => NoChange(j)) => StageOf(j)'
    BY DEF Commits, Saves, Becomes, Clear, Marked, NoChange
  <1>5. CASE Rechecking(j)
    BY <1>4, <1>5 DEF Rechecking, Goes, Clear, NoChange
  <1>6. CASE Comparing(j)
    BY <1>4, <1>6 DEF Comparing, Saves, Restated, Becomes, Clear, NoChange
  <1>7. CASE Beginning(j) \/ Created(j)
    BY <1>0, <1>7 DEF Beginning, Created, Goes, Marked, NoChange
  <1>8. CASE Applying(j)
    BY <1>0, <1>8 DEF Applying, Writes, Saves, Becomes, Marked, NoChange
  <1>9. CASE Confirming(j)
    BY <1>9 DEF Confirming, Goes, Saves, Restated, Becomes, Marked
  <1>10. CASE Ending(j)
    BY <1>10 DEF Ending, Goes, Saves, Restated, Becomes
  <1>11. CASE Catching(j)
    BY <1>11 DEF Catching, Goes, Saves, Restated, Becomes
  <1>12. CASE Undoing(j)
    BY <1>12 DEF Undoing
  <1>13. CASE EndingUndo(j)
    BY <1>13 DEF EndingUndo, Saves
  <1> QED BY <1>1, <1>2, <1>3, <1>5, <1>6, <1>7, <1>8, <1>9, <1>10, <1>11, <1>12, <1>13
          DEF StepOf

\* A job applies its plan once the journal holds what memory does.
LEMMA EngineJournal ==
    ASSUME TypeOK, TypeOK', IoInv, NEW j \in Jobs, Engine(j), StepOf(j), journal' = journal,
           JournalOf(j)
    PROVE  JournalOf(j)'
  <1>0. jobs'[j] \in JobRecord /\ Below(jobs'[j], jobs'[j])
    BY BelowSelf DEF TypeOK, Texts
  <1>1. ASSUME NEW at, Saves(j, at) PROVE JournalOf(j)' \/ at = "applying"
    <2>1. /\ Len(saving) \in Nat /\ Len(saving') = Len(saving) + 1
          /\ saving'[Len(saving) + 1].text = jobs'
          /\ \A k \in 1..Len(saving) : saving'[k] = saving[k]
      BY <1>1, SaveAppends DEF Saves
    <2>2. \A k \in 1..Len(saving) : saving[k].for # j
      BY EngineAwaits DEF IoInv
    <2>3. pc'[j] = at /\ io'[j] = "pending"
      BY <1>1 DEF Saves
    <2> QED BY <1>0, <2>1, <2>2, <2>3 DEF JournalOf
  <1>2. ASSUME pc'[j] \notin {"committing", "creating", "applying"} PROVE JournalOf(j)'
    BY <1>2 DEF JournalOf
  <1>3. CASE Beginning(j) \/ Created(j)
    BY <1>3 DEF Beginning, Created, Goes, JournalOf
  <1>4. CASE Applying(j)
    BY <1>1, <1>4 DEF Applying, JournalOf
  <1>5. CASE Rechecking(j) \/ Comparing(j)
    BY <1>1, <1>2, <1>5 DEF Rechecking, Comparing, Commits, Goes
  <1>6. CASE \/ Approving(j) \/ Opening(j) \/ Stopping(j) \/ Confirming(j) \/ Ending(j)
             \/ Catching(j) \/ Undoing(j) \/ EndingUndo(j)
    BY <1>2, <1>6 DEF Approving, Opening, Stopping, Confirming, Ending, Catching, Undoing,
       EndingUndo, Goes, Saves
  <1> QED BY <1>3, <1>4, <1>5, <1>6 DEF StepOf

\* The host is one state when its parts are.
LEMMA SameHost ==
    ASSUME NEW h \in HostStates, NEW t \in HostStates, \A p \in 1..NParts : h[p] = t[p]
    PROVE  h = t
  <1>1. h = [p \in 1..NParts |-> h[p]] /\ t = [p \in 1..NParts |-> t[p]]
    BY DEF HostStates
  <1>2. [p \in 1..NParts |-> h[p]] = [p \in 1..NParts |-> t[p]]
    OBVIOUS
  <1> QED BY <1>1, <1>2

\* On the host a step of the job leads to what its next await tells.
LEMMA EngineHost ==
    ASSUME TypeOK, TypeOK', NEW j \in Jobs, StepOf(j), plan' = plan,
           StageOf(j), WroteOf(j), HostOf(j)
    PROVE  HostOf(j)'
  <1> USE DEF Writing, Later
  <1>0. /\ written[j] \in 0..NParts /\ NParts \in Nat \ {0}
        /\ plan[j].before \in HostStates /\ plan[j].after \in HostStates
        /\ host \in HostStates /\ host' \in HostStates
    BY TypesOf DEF TypeOK
  <1>1. ASSUME pc'[j] \notin Writing \cup Later \cup {"comparing", "finishing", "undoing"},
               pc'[j] = "failing" => jobs'[j].rollback # "restored"
        PROVE  HostOf(j)'
    BY <1>1 DEF HostOf
  <1>2. ASSUME host' = plan[j].before, pc'[j] \in {"comparing", "committing"}
        PROVE  HostOf(j)'
    BY <1>2 DEF HostOf
  <1>3. CASE Approving(j) \/ Opening(j) \/ Stopping(j)
    BY <1>1, <1>3 DEF Approving, Opening, Stopping, Goes, Saves
  <1>4. CASE Rechecking(j)
    BY <1>2, <1>4 DEF Rechecking, HostKept, Commits, Goes, Saves
  <1>5. CASE Comparing(j)
    <2>1. j \notin overtaken => host = plan[j].before /\ plan[j].before = plan[j].after
      BY <1>5 DEF Comparing, HostOf, WroteOf, Early, StageOf, NoChange
    <2> QED BY <1>5, <2>1 DEF Comparing, Commits, Saves, Kept, HostKept, HostOf
  <1>6. CASE Beginning(j)
    <2>1. j \notin overtaken => host = plan[j].before
      BY <1>6 DEF Beginning, HostOf, WroteOf
    <2>2. \A p \in 1..NParts : ~(p <= written'[j])
      BY <1>0, <1>6 DEF Beginning
    <2> QED BY <1>6, <2>1, <2>2 DEF Beginning, Goes, Kept, HostKept, HostOf
  <1>7. CASE Applying(j)
    <2> DEFINE q == written[j] + 1
    <2>1. /\ q \in 1..NParts /\ host' = [host EXCEPT ![q] = plan[j].after[q]]
          /\ written'[j] = written[j] + 1 /\ overtaken' = overtaken
          /\ wrote' = IF host[q] = plan[j].after[q] THEN wrote ELSE wrote \cup {j}
          /\ pc[j] = "applying" /\ pc'[j] \in {"applying", "creating"}
      BY <1>7 DEF Applying, Writes, Saves
    <2>2. \A p \in 1..NParts : host'[p] = IF p = q THEN plan[j].after[q] ELSE host[p]
      BY <1>0, <2>1 DEF HostStates
    <2>3. ASSUME j \notin overtaken
          PROVE  \A p \in 1..NParts :
                    host'[p] = IF p <= written'[j] THEN plan[j].after[p] ELSE plan[j].before[p]
      <3>1. \A p \in 1..NParts :
               host[p] = IF p <= written[j] THEN plan[j].after[p] ELSE plan[j].before[p]
        BY <2>1, <2>3 DEF HostOf
      <3>2. \A p \in 1..NParts : p <= written'[j] <=> p = q \/ p <= written[j]
        BY <1>0, <2>1
      <3> QED BY <2>2, <3>1, <3>2
    <2>4. ASSUME j \notin overtaken, j \notin wrote' PROVE host' = plan[j].before
      <3>1. host = plan[j].before /\ host[q] = plan[j].after[q]
        BY <2>1, <2>4 DEF HostOf
      <3>2. host' = host
        BY <1>0, <2>2, <3>1, SameHost
      <3> QED BY <3>1, <3>2
    <2> QED BY <2>1, <2>3, <2>4 DEF HostOf
  <1>8. CASE Created(j)
    BY <1>8 DEF Created, Goes, Kept, HostKept, HostOf
  <1>9. CASE Confirming(j)
    <2>1. ASSUME j \notin overtaken PROVE host = plan[j].after
      <3>1. CASE pc[j] = "applying"
        <4>1. written[j] = NParts
          BY <1>9, <3>1 DEF Confirming
        <4>2. \A p \in 1..NParts : host[p] = plan[j].after[p]
          BY <2>1, <3>1, <4>1 DEF HostOf
        <4> QED BY <1>0, <4>2, SameHost
      <3>2. CASE pc[j] # "applying"
        BY <1>9, <2>1, <3>2 DEF Confirming, HostOf
      <3> QED BY <3>1, <3>2
    <2>2. /\ Kept /\ pc'[j] \in Later \cup {"finishing"}
          /\ pc[j] \in {"applying"} \cup Later
      BY <1>9 DEF Confirming, Goes, Saves
    <2> QED BY <2>1, <2>2 DEF HostOf, Kept, HostKept
  <1>10. CASE Ending(j)
    <2>1. pc'[j] = "failing" => jobs'[j].rollback # "restored"
      BY <1>10 DEF Ending, Goes, Saves, Restated, Becomes, StageOf, Holding, Executing
    <2> QED BY <1>1, <1>10, <2>1 DEF Ending, Goes, Saves
  <1>11. CASE Catching(j)
    <2>1. CASE pc'[j] = "undoing"
      <3>1. Kept /\ written'[j] = 0 /\ jobs[j].commitStarted
        BY <1>11, <2>1 DEF Catching, Goes, Saves
      <3>2. pc[j] \in Writing \cup Later \cup {"finishing"}
        BY <1>11, <3>1 DEF Catching, Executing, StageOf, Early, Clear
      <3>3. \A p \in 1..NParts : ~(p > NParts - written'[j]) /\ ~(p <= written'[j])
        BY <1>0, <3>1
      <3> QED BY <2>1, <3>1, <3>2, <3>3 DEF HostOf, Kept, HostKept, IsUndone
    <2>2. CASE pc'[j] # "undoing"
      <3>1. pc'[j] \in {"noting", "failing"} /\ jobs'[j].rollback # "restored"
        BY <1>11, <2>2 DEF Catching, Goes, Saves, Restated, Becomes, StageOf, Holding
      <3> QED BY <1>1, <3>1
    <2> QED BY <2>1, <2>2
  <1>12. CASE Undoing(j)
    <2> DEFINE q == Undoes(j)
    <2>1. /\ written[j] < NParts /\ q \in 1..NParts
          /\ host' = [host EXCEPT ![q] = plan[j].before[q]]
          /\ written'[j] = written[j] + 1 /\ overtaken' = overtaken
          /\ wrote' = IF host[q] = plan[j].before[q] THEN wrote ELSE wrote \cup {j}
          /\ pc[j] = "undoing" /\ pc'[j] = "undoing"
      BY <1>12 DEF Undoing, Writes
    <2>2. \A p \in 1..NParts : host'[p] = IF p = q THEN plan[j].before[q] ELSE host[p]
      BY <1>0, <2>1 DEF HostStates
    <2>3. \A p \in 1..NParts : IsUndone(j, p)' => p = q \/ IsUndone(j, p)
      BY <1>0, <2>1 DEF IsUndone, Undoes
    <2>4. ASSUME j \notin overtaken
          PROVE  \A p \in 1..NParts : IsUndone(j, p)' => host'[p] = plan[j].before[p]
      BY <2>1, <2>2, <2>3, <2>4 DEF HostOf
    <2>5. ASSUME j \notin overtaken, j \notin wrote' PROVE host' = plan[j].before
      <3>1. host = plan[j].before
        BY <2>1, <2>5 DEF HostOf
      <3>2. host' = host
        BY <1>0, <2>2, <3>1, SameHost
      <3> QED BY <3>1, <3>2
    <2> QED BY <2>1, <2>4, <2>5 DEF HostOf
  <1>13. CASE EndingUndo(j)
    <2>1. Kept /\ pc[j] = "undoing" /\ pc'[j] = "failing"
      BY <1>13 DEF EndingUndo, Saves
    <2>2. ASSUME j \notin overtaken, jobs'[j].rollback = "restored"
          PROVE  host = plan[j].before
      <3>1. written[j] = NParts
        BY <1>13, <2>2 DEF EndingUndo, Becomes
      <3>2. \A p \in 1..NParts : IsUndone(j, p)
        BY <1>0, <3>1 DEF IsUndone
      <3>3. \A p \in 1..NParts : host[p] = plan[j].before[p]
        BY <2>1, <2>2, <3>2 DEF HostOf
      <3> QED BY <1>0, <3>3, SameHost
    <2> QED BY <2>1, <2>2 DEF HostOf, Kept, HostKept
  <1> QED BY <1>3, <1>4, <1>5, <1>6, <1>7, <1>8, <1>9, <1>10, <1>11, <1>12, <1>13
          DEF StepOf

\* Where a cancelled record of a job comes from.
LEMMA CancelledSource ==
    ASSUME TypeOK, journal' = journal, saving' = saving \/ \E c : Save(jobs', c),
           NEW i \in Jobs, CancelledIn(i)'
    PROVE  CancelledIn(i) \/ jobs'[i].status = "cancelled"
  <1>1. CASE saving' = saving
    BY <1>1 DEF CancelledIn
  <1>2. CASE \E c : Save(jobs', c)
    <2>1. /\ Len(saving) \in Nat /\ Len(saving') = Len(saving) + 1
          /\ saving'[Len(saving) + 1].text = jobs'
          /\ \A k \in 1..Len(saving) : saving'[k] = saving[k]
      BY <1>2, SaveAppends
    <2>2. \A k \in 1..Len(saving') : k \in 1..Len(saving) \/ k = Len(saving) + 1
      BY <2>1
    <2> QED BY <2>1, <2>2 DEF CancelledIn
  <1> QED BY <1>1, <1>2

\* A job changes the host while it applies its plan, from the state that was
\* previewed and once the journal says that its commit was begun.
LEMMA EngineWrote ==
    ASSUME TypeOK, OneMutation, RunInv, ChainInv, NEW j \in Jobs, Engine(j), StepOf(j),
           StageOf(j), JournalOf(j), WroteOf(j), HostOf(j)
    PROVE  WroteOf(j)'
  <1>1. /\ journal' = journal /\ plan' = plan
        /\ saving' = saving \/ Save(jobs', j)
    BY EngineFrame
  <1>2. jobs'[j].cancelRequested = jobs[j].cancelRequested
    BY EngineTable DEF StepOf, Approving, Opening, Stopping, Commits, Rechecking, Comparing,
       Beginning, Applying, Created, Confirming, Ending, Catching, Undoing, EndingUndo,
       Restated, Becomes
  <1>3. ASSUME wrote' = wrote, overtaken' = overtaken \/ j \notin wrote,
               pc'[j] \in Early \cup {"committing"} => pc[j] \in Early,
               jobs'[j].status = "cancelled" => CancelledIn(j),
               CancelledIn(j) => pc'[j] \in {"idle", "noting", "failing"}
        PROVE  WroteOf(j)'
    <2>1. CancelledIn(j)' => CancelledIn(j)
      BY <1>1, <1>3, CancelledSource
    <2> QED BY <1>1, <1>2, <1>3, <2>1 DEF WroteOf, Marked
  <1>4. jobs[j].status = "cancelled" => CancelledIn(j)
    BY DEF CancelledIn
  <1>5. CancelledIn(j) => pc[j] \in {"idle", "planning", "cancelling", "noting", "failing"}
    BY DEF WroteOf
  <1>6. CASE \/ Approving(j) \/ Opening(j) \/ Comparing(j) \/ Confirming(j) \/ Ending(j)
             \/ Catching(j) \/ EndingUndo(j)
    <2>1. wrote' = wrote /\ overtaken' = overtaken
      BY <1>6 DEF Approving, Opening, Comparing, Confirming, Ending, Catching, EndingUndo,
         Kept, HostKept
    <2>2. pc'[j] \in Early \cup {"committing"} => pc[j] \in Early
      BY <1>6 DEF Approving, Opening, Comparing, Commits, Confirming, Ending, Catching,
         EndingUndo, Goes, Saves, Early
    <2>3. jobs'[j].status = "cancelled" => jobs[j].status = "cancelled"
      BY <1>6 DEF Approving, Opening, Comparing, Commits, Confirming, Ending, Catching,
         EndingUndo, Restated, Becomes
    <2>4. ASSUME CancelledIn(j) PROVE pc'[j] \in {"idle", "noting", "failing"}
      <3>1. pc[j] \in {"idle", "planning", "cancelling", "noting", "failing"}
        BY <1>5, <2>4
      <3>2. pc[j] = "cancelling" => ~jobs[j].commitStarted
        BY DEF StageOf, Early, Clear
      <3> QED BY <1>6, <3>1, <3>2 DEF Approving, Opening, Comparing, Confirming, Ending,
                 Catching, EndingUndo, Goes, Saves, Executing
    <2> QED BY <1>3, <1>4, <2>1, <2>2, <2>3, <2>4
  <1>7. CASE Stopping(j)
    <2>1. /\ wrote' = wrote /\ pc[j] \in Early /\ pc'[j] = "cancelling"
      BY <1>7 DEF Stopping, HostKept, Saves, Early
    <2> QED BY <1>1, <2>1 DEF WroteOf, Early
  <1>8. CASE Rechecking(j)
    <2>1. /\ wrote' = wrote /\ pc[j] = "rechecking" /\ pc'[j] \in {"comparing", "committing"}
          /\ jobs'[j].status = jobs[j].status
      BY <1>8 DEF Rechecking, HostKept, Goes, Commits, Saves, Becomes
    <2> QED BY <1>3, <1>4, <1>5, <2>1 DEF WroteOf, Early
  <1>9. CASE Beginning(j) \/ Created(j)
    <2>1. /\ wrote' = wrote /\ overtaken' = overtaken /\ jobs' = jobs
          /\ pc[j] \in {"committing", "creating"} /\ pc'[j] = "applying"
      BY <1>9 DEF Beginning, Created, Kept, HostKept, Goes
    <2> QED BY <1>3, <1>4, <1>5, <2>1 DEF Early
  <1>10. ASSUME pc[j] \in {"applying", "undoing"},
                pc'[j] \in {"applying", "creating", "undoing"}, overtaken' = overtaken,
                jobs'[j].status = jobs[j].status,
                \/ wrote' = wrote
                \/ /\ wrote' = wrote \cup {j}
                   /\ j \in overtaken \/ j \in wrote
                      \/ (Marked(j, journal[j]) /\ ~jobs[j].cancelRequested)
         PROVE  WroteOf(j)'
    <2>1. ~CancelledIn(j) /\ Used(journal[j])
      BY <1>5, <1>10 DEF RunInv, Stages, Executing
    <2>2. ~CancelledIn(j)'
      BY <1>1, <1>4, <1>10, <2>1, CancelledSource
    <2> QED BY <1>1, <1>2, <1>10, <2>1, <2>2 DEF WroteOf, Marked, Early
  <1>11. CASE Applying(j)
    <2>1. /\ pc[j] = "applying" /\ pc'[j] \in {"applying", "creating"}
          /\ overtaken' = overtaken /\ jobs'[j].status = jobs[j].status
          /\ \/ wrote' = wrote
             \/ wrote' = wrote \cup {j} /\ host[written[j] + 1] # plan[j].after[written[j] + 1]
      BY <1>11 DEF Applying, Writes, Saves, Becomes
    <2>2. Marked(j, journal[j])
      BY <2>1 DEF StageOf, Writing, JournalOf, Marked, Below
    <2>3. j \in wrote \/ j \in overtaken \/ host = plan[j].before
      BY <2>1 DEF HostOf, Writing
    <2>4. jobs[j].cancelRequested => plan[j].before = plan[j].after
      BY <2>1 DEF StageOf, Writing, NoChange
    <2> QED BY <1>10, <2>1, <2>2, <2>3, <2>4
  <1>12. CASE Undoing(j)
    <2>1. /\ pc[j] = "undoing" /\ pc'[j] = "undoing" /\ overtaken' = overtaken
          /\ jobs'[j].status = jobs[j].status
          /\ \/ wrote' = wrote
             \/ wrote' = wrote \cup {j} /\ host[Undoes(j)] # plan[j].before[Undoes(j)]
      BY <1>12 DEF Undoing, Writes
    <2>2. j \in wrote \/ j \in overtaken \/ host = plan[j].before
      BY <2>1 DEF HostOf
    <2> QED BY <1>10, <2>1, <2>2
  <1> QED BY <1>6, <1>7, <1>8, <1>9, <1>11, <1>12 DEF StepOf

\* A step of one job leaves the others as they are: none of them holds the slot.
LEMMA EngineOthers ==
    ASSUME TypeOK, OneMutation, RunInv, IoInv, WorkInv, NEW j \in Jobs, Engine(j),
           NEW i \in Jobs \ {j}
    PROVE  StageOf(i)' /\ JournalOf(i)' /\ WroteOf(i)' /\ HostOf(i)'
  <1>1. /\ journal' = journal /\ plan' = plan
        /\ pc[i] \notin Holding /\ pc'[i] = pc[i] /\ jobs'[i] = jobs[i]
        /\ saving' = saving \/ Save(jobs', j)
    BY EngineFrame
  <1>2. StageOf(i)' /\ JournalOf(i)' /\ HostOf(i)'
    BY <1>1 DEF StageOf, JournalOf, HostOf, Holding, Executing, Early, Writing, Later
  <1>3. wrote' \subseteq wrote \cup {j} /\ overtaken \subseteq overtaken' \cup {j}
    BY EngineTable DEF StepOf, Approving, Opening, Stopping, Rechecking, Comparing,
       Beginning, Applying, Created, Confirming, Ending, Catching, Undoing, EndingUndo,
       Kept, HostKept, Writes
  <1>4. CancelledIn(i)' => CancelledIn(i)
    <2>1. CancelledIn(i)' => CancelledIn(i) \/ jobs'[i].status = "cancelled"
      BY <1>1, CancelledSource
    <2> QED BY <1>1, <2>1 DEF CancelledIn
  <1>5. WroteOf(i) /\ (i \in wrote' => i \in wrote) /\ (i \in overtaken => i \in overtaken')
    BY <1>3 DEF WorkInv
  <1>6. WroteOf(i)'
    BY <1>1, <1>4, <1>5 DEF WroteOf, Marked
  <1> QED BY <1>2, <1>6

LEMMA EngineKeepsWork ==
    ASSUME TypeOK, TypeOK', OneMutation, RunInv, ChainInv, IoInv, WorkInv,
           NEW j \in Jobs, Engine(j)
    PROVE  WorkInv'
  <1>1. StepOf(j) /\ plan' = plan /\ journal' = journal
    BY EngineTable, EngineFrame
  <1>2. StageOf(j) /\ JournalOf(j) /\ WroteOf(j) /\ HostOf(j)
    BY DEF WorkInv
  <1>3. StageOf(j)' /\ JournalOf(j)' /\ WroteOf(j)' /\ HostOf(j)'
    BY <1>1, <1>2, EngineStage, EngineJournal, EngineWrote, EngineHost
  <1> QED BY <1>3, EngineOthers DEF WorkInv

\* A cancelled job has no approval left.
LEMMA CancelledLevel ==
    ASSUME LevelInv, NEW i \in Jobs, CancelledIn(i)
    PROVE  jobs[i].status \notin {"absent", "preview"}
  <1>1. Level(jobs[i]) >= 3
    BY LevelType DEF CancelledIn, LevelInv, Ordered, Level
  <1> QED BY <1>1 DEF Level

\* Clients make previews, and cancel what has not begun its commit.
LEMMA ClientKeepsWork ==
    ASSUME TypeOK, RunInv, LevelInv, ChainInv, WorkInv, NEW j \in Jobs, Client(j)
    PROVE  WorkInv'
  <1>1. /\ Previewing(j) \/ Asking(j) \/ Cancelling(j)
        /\ journal' = journal /\ io' = io /\ written' = written
        /\ host' = host /\ wrote' = wrote /\ overtaken' = overtaken
        /\ \A i \in Jobs \ {j} : jobs'[i] = jobs[i] /\ pc'[i] = pc[i] /\ plan'[i] = plan[i]
    BY ClientTable
  <1>2. saving' = saving \/ Save(jobs', NoJob)
    BY <1>1 DEF Previewing, Asking, Cancelling
  <1>3. \A i \in Jobs : \A k \in 1..Len(saving') :
           saving'[k].for = i => k \in 1..Len(saving) /\ saving'[k] = saving[k]
    <2>1. CASE saving' = saving
      BY <2>1
    <2>2. CASE Save(jobs', NoJob)
      <3>1. /\ Len(saving) \in Nat /\ Len(saving') = Len(saving) + 1
            /\ saving'[Len(saving) + 1].for = NoJob
            /\ \A k \in 1..Len(saving) : saving'[k] = saving[k]
        BY <2>2, SaveAppends
      <3> QED BY <3>1, JobsAssumption
    <2> QED BY <1>2, <2>1, <2>2
  <1>4. \A i \in Jobs : CancelledIn(i)' => CancelledIn(i) \/ jobs'[i].status = "cancelled"
    BY <1>1, <1>2, CancelledSource
  <1>5. ASSUME NEW i \in Jobs, pc'[i] = pc[i], jobs'[i] = jobs[i], plan'[i] = plan[i]
        PROVE  StageOf(i)' /\ JournalOf(i)' /\ WroteOf(i)' /\ HostOf(i)'
    <2>1. StageOf(i)'
      BY <1>1, <1>5 DEF WorkInv, StageOf, Clear, Marked, NoChange
    <2>2. JournalOf(i)'
      BY <1>1, <1>3, <1>5 DEF WorkInv, JournalOf
    <2>3. CancelledIn(i)' => CancelledIn(i)
      BY <1>4, <1>5 DEF CancelledIn
    <2>4. WroteOf(i)'
      BY <1>1, <1>5, <2>3 DEF WorkInv, WroteOf, Marked
    <2>5. HostOf(i)'
      BY <1>1, <1>5 DEF WorkInv, HostOf, IsUndone
    <2> QED BY <2>1, <2>2, <2>4, <2>5
  <1>6. CASE Previewing(j)
    <2>1. /\ pc[j] \in {"idle", "planning"} /\ pc'[j] \in {"idle", "planning"}
          /\ jobs[j].status # "absent" => plan' = plan
          /\ \/ jobs' = jobs
             \/ Restated(j, "preview")
      BY <1>6 DEF Previewing
    <2>2. StageOf(j)' /\ JournalOf(j)' /\ HostOf(j)'
      BY <2>1 DEF StageOf, JournalOf, HostOf, Early, Writing, Later, Holding, Executing
    <2>3. j \in wrote => plan' = plan
      BY <2>1 DEF WorkInv, WroteOf, RunInv, Monotone, Used
    <2>4. CancelledIn(j)' => CancelledIn(j)
      BY <1>4, <2>1 DEF CancelledIn, Restated, Becomes
    <2>5. jobs'[j].cancelRequested = jobs[j].cancelRequested
      BY <2>1 DEF Restated, Becomes
    <2>6. WroteOf(j)'
      BY <1>1, <2>1, <2>3, <2>4, <2>5 DEF WorkInv, WroteOf, Early, Marked
    <2> QED BY <1>1, <1>5, <2>2, <2>6 DEF WorkInv
  <1>7. CASE Asking(j)
    <2>1. CASE pc' = pc
      BY <1>1, <1>5, <1>7, <2>1 DEF Asking, WorkInv
    <2>2. CASE jobs[j].status = "preview" /\ pc'[j] = "approving"
      <3>1. Clear(jobs[j]) /\ jobs' = jobs /\ plan' = plan
        BY <1>7, <2>2 DEF Asking, ChainInv, Fresh
      <3>2. StageOf(j)' /\ JournalOf(j)' /\ HostOf(j)'
        BY <2>2, <3>1 DEF StageOf, JournalOf, HostOf, Clear, Writing, Later
      <3>3. j \notin wrote
        BY <2>2 DEF WorkInv, WroteOf, RunInv, Monotone, Used
      <3>4. ~CancelledIn(j)'
        BY <1>4, <2>2, <3>1, CancelledLevel DEF CancelledIn
      <3>5. WroteOf(j)'
        BY <1>1, <3>3, <3>4 DEF WroteOf
      <3> QED BY <1>1, <1>5, <1>7, <3>2, <3>5 DEF WorkInv, Asking
    <2> QED BY <1>7, <2>1, <2>2 DEF Asking
  <1>8. CASE Cancelling(j)
    <2>1. /\ plan' = plan /\ pc' = pc /\ ~jobs[j].commitStarted
          /\ jobs'[j].status = jobs[j].status
          /\ jobs'[j].commitStarted = jobs[j].commitStarted
          /\ jobs'[j].rollback = jobs[j].rollback /\ jobs'[j].created = jobs[j].created
      BY <1>8 DEF Cancelling
    <2>2. pc[j] \notin Writing \cup Later
      BY <2>1 DEF WorkInv, StageOf, Marked
    <2>3. StageOf(j)' /\ JournalOf(j)'
      BY <2>1, <2>2 DEF WorkInv, StageOf, JournalOf, Clear, Writing, NoChange
    <2>4. ~journal[j].commitStarted
      BY <2>1 DEF ChainInv, Below
    <2>5. j \notin wrote \ overtaken
      BY <2>4 DEF WorkInv, WroteOf, Marked
    <2>6. CancelledIn(j)' => CancelledIn(j)
      BY <1>4, <2>1 DEF CancelledIn
    <2>7. WroteOf(j)'
      BY <1>1, <2>1, <2>5, <2>6 DEF WorkInv, WroteOf
    <2>8. HostOf(j)'
      BY <1>1, <2>1 DEF WorkInv, HostOf, IsUndone
    <2> QED BY <1>1, <1>5, <2>3, <2>7, <2>8 DEF WorkInv
  <1> QED BY <1>1, <1>6, <1>7, <1>8

\* The journal moves on to a text that takes nothing back.
LEMMA WriteKeepsWork ==
    ASSUME TypeOK, TypeOK', RunInv, ChainInv, IoInv, WorkInv, WriteJournal \/ FailJournal
    PROVE  WorkInv'
  <1>1. /\ Len(saving) \in Nat /\ Len(saving) > 0 /\ Len(saving') = Len(saving) - 1
        /\ \A k \in 1..Len(saving') : saving'[k] = saving[k + 1]
        /\ jobs' = jobs /\ pc' = pc /\ plan' = plan /\ written' = written /\ host' = host
        /\ wrote' = wrote /\ overtaken' = overtaken
        /\ journal' \in {journal, saving[1].text}
    BY WriteShifts
  <1>2. \A k \in 1..Len(saving') : k + 1 \in 1..Len(saving) /\ saving'[k] = saving[k + 1]
    BY <1>1
  <1>3. 1 \in 1..Len(saving)
    BY <1>1
  <1> SUFFICES ASSUME NEW i \in Jobs
               PROVE  StageOf(i)' /\ JournalOf(i)' /\ WroteOf(i)' /\ HostOf(i)'
    BY DEF WorkInv
  <1>4. StageOf(i)' /\ HostOf(i)'
    BY <1>1 DEF WorkInv, StageOf, HostOf, Clear, Marked, NoChange, IsUndone
  <1>5. /\ jobs[i] \in JobRecord /\ journal[i] \in JobRecord /\ journal'[i] \in JobRecord
        /\ Below(journal[i], journal'[i])
    BY WriteKeepsChain DEF TypeOK, Texts
  <1>6. Below(jobs[i], journal[i]) => Below(jobs[i], journal'[i])
    BY <1>5, BelowTransitive
  <1>7. \/ io'[i] = io[i]
        \/ saving[1].for = i /\ io'[i] = "ok" /\ journal' = saving[1].text
        \/ io'[i] = "error"
    BY WriteKeepsIo
  <1>8. JournalOf(i)'
    BY <1>1, <1>2, <1>3, <1>6, <1>7 DEF WorkInv, JournalOf
  <1>9. CancelledIn(i)' => CancelledIn(i)
    BY <1>1, <1>2, <1>3 DEF CancelledIn
  <1>10. Used(journal[i]) => Used(journal'[i])
    BY <1>1, <1>3 DEF RunInv, Monotone
  <1>11. Marked(i, journal[i]) => Marked(i, journal'[i])
    BY <1>5 DEF Marked, Below
  <1>12. WroteOf(i)'
    BY <1>1, <1>9, <1>10, <1>11 DEF WorkInv, WroteOf, Marked
  <1> QED BY <1>4, <1>8, <1>12

\* A restart keeps of a job that wrote what the journal says of it.
LEMMA RestartKeepsWork ==
    ASSUME TypeOK, ChainInv, WorkInv, Restart PROVE WorkInv'
  <1>1. /\ jobs' = Recovered /\ journal' = Recovered /\ saving' = <<>> /\ plan' = plan
        /\ \A i \in Jobs : pc'[i] = "idle"
        /\ wrote' = wrote /\ overtaken' = overtaken
    BY DEF Restart, past
  <1> SUFFICES ASSUME NEW i \in Jobs
               PROVE  StageOf(i)' /\ JournalOf(i)' /\ WroteOf(i)' /\ HostOf(i)'
    BY DEF WorkInv
  <1>2. StageOf(i)' /\ JournalOf(i)' /\ HostOf(i)'
    BY <1>1 DEF StageOf, JournalOf, HostOf, Early, Writing, Later, Holding, Executing
  <1>3. CancelledIn(i)' => CancelledIn(i)
    BY <1>1, RecoveredRecords DEF CancelledIn
  <1>4. journal[i].cancelRequested => jobs[i].cancelRequested
    BY DEF ChainInv, Below
  <1>5. Marked(i, journal[i]) => Marked(i, Recovered[i])
    BY RecoveredRecords DEF Marked
  <1>6. WroteOf(i)'
    BY <1>1, <1>3, <1>4, <1>5, RecoveredRecords DEF WorkInv, WroteOf, Marked, Early
  <1> QED BY <1>2, <1>6

\* An edit of the administrator overtakes every job.
LEMMA EditKeepsWork ==
    ASSUME TypeOK, WorkInv, NEW p \in 1..NParts, NEW v \in Values, Edit(p, v) PROVE WorkInv'
  <1>1. /\ jobs' = jobs /\ journal' = journal /\ saving' = saving /\ plan' = plan
        /\ pc' = pc /\ io' = io /\ written' = written /\ wrote' = wrote /\ overtaken' = Jobs
    BY DEF Edit, work
  <1> QED BY <1>1 DEF WorkInv, StageOf, JournalOf, WroteOf, HostOf, CancelledIn, Clear,
             Marked, NoChange

LEMMA WorkInvariance == Spec => []WorkInv
  <1>1. Init => WorkInv
    BY DEF Init, WorkInv, StageOf, JournalOf, WroteOf, HostOf, CancelledIn, Absent, Clear,
       Early, Writing, Later, Holding, Executing
  <1>2. /\ TypeOK /\ TypeOK' /\ OneMutation /\ RunInv /\ LevelInv /\ ChainInv /\ IoInv
        /\ WorkInv /\ [Next]_vars
        => WorkInv'
    <2> SUFFICES ASSUME TypeOK, TypeOK', OneMutation, RunInv, LevelInv, ChainInv, IoInv,
                        WorkInv, [Next]_vars
                 PROVE  WorkInv'
      OBVIOUS
    <2>1. CASE UNCHANGED vars
      BY <2>1 DEF vars, work, past, WorkInv, StageOf, JournalOf, WroteOf, HostOf, CancelledIn,
         Clear, Marked, NoChange, IsUndone
    <2> QED BY <2>1, EngineKeepsWork, ClientKeepsWork, WriteKeepsWork, RestartKeepsWork,
               EditKeepsWork DEF Next
  <1> QED BY <1>1, <1>2, Typing, MutualExclusion, RunInvariance, LevelInvariance,
             ChainInvariance, IoInvariance, PTL DEF Spec

-----------------------------------------------------------------------------
(* The promises *)

\* The rollback data of a job that can be undone is in jobs.json before the job
\* changes anything, so a restart finds it there.
THEOREM RollbackBeforeChange == Spec => []RollbackJournaled
  <1>1. TypeOK /\ WorkInv => RollbackJournaled
    BY DEF TypeOK, WorkInv, WroteOf, Marked, RollbackJournaled
  <1> QED BY <1>1, Typing, WorkInvariance, PTL

\* Before a part of a resource is touched, the directories made before it are
\* in jobs.json: what an interrupted job leaves behind is known.
THEOREM DirectoriesBeforeNext == Spec => []DirectoriesJournaled
  <1>1. TypeOK /\ ChainInv /\ WorkInv => DirectoriesJournaled
    <2> SUFFICES ASSUME TypeOK, ChainInv, WorkInv, NEW j \in Jobs,
                        plan[j].kind = "resource", pc[j] = "applying", written[j] < NParts
                 PROVE  journal[j].created = written[j]
      BY DEF DirectoriesJournaled
    <2>1. jobs[j].created = written[j]
      BY DEF WorkInv, StageOf
    <2>2. Below(jobs[j], journal[j]) /\ Below(journal[j], jobs[j])
      BY DEF WorkInv, JournalOf, ChainInv
    <2>3. jobs[j].created \in Nat /\ journal[j].created \in Nat
      BY DEF TypeOK, Texts, JobRecord
    <2> QED BY <2>1, <2>2, <2>3 DEF Below
  <1> QED BY <1>1, Typing, ChainInvariance, WorkInvariance, PTL

\* The final status is true of the host: what was reported done is done, what
\* was reported restored is as before, and what was cancelled never began.
THEOREM HonestOutcome == Spec => []OutcomeIsReal
  <1>1. WorkInv => OutcomeIsReal
    BY DEF WorkInv, HostOf, WroteOf, CancelledIn, OutcomeIsReal
  <1> QED BY <1>1, WorkInvariance, PTL

\* A job whose cancellation was accepted does not change the host, although it
\* may enter its commit.
THEOREM CancelledStaysOut == Spec => []CancelPreventsChange
  <1>1. TypeOK /\ WorkInv => CancelPreventsChange
    BY DEF TypeOK, WorkInv, WroteOf, CancelPreventsChange
  <1> QED BY <1>1, Typing, WorkInvariance, PTL
=============================================================================
