---------------------------- MODULE Library_proofs ----------------------------
EXTENDS MCLibrary, FiniteSetTheorems, SequenceTheorems, TLAPS

-----------------------------------------------------------------------------
(* The parts *)

LEMMA PartStays == [Next]_vars => part' = part
  BY DEF Next, vars, OfChunked, OfBatch, OfMedia, OfConversions, OfContent, OfPage, OfDialogs

\* In its part a module takes its own steps or none.
LEMMA BatchRuns ==
    ASSUME [Next]_vars, part' = "batch"
    PROVE  Batch!Next \/ UNCHANGED batchVars
  BY DEF Next, vars, OfChunked, OfBatch, OfMedia, OfConversions, OfContent, OfPage, OfDialogs

LEMMA BatchBegins == ASSUME Init, part = "batch" PROVE Batch!Init
  BY DEF Init

-----------------------------------------------------------------------------
(* A batch of uploads *)

Answers == {"ok", "conflict", "transient", "permanent"}
Busy(w) == worker[w].at \notin {"ready", "done"}

BatchTypes ==
    /\ stored \subseteq Batch!Files \X Nat /\ IsFiniteSet(stored)
    /\ unheard \in [Batch!Files -> Nat]
    /\ nextIndex \in Nat \ {0}
    /\ worker \in [Workers -> [at : Answers \cup {"ready", "done", "sending"}, file : Batch!Files,
                               attempt : Nat, name : Nat]]
    /\ outcome \in [Batch!Files -> {"none", "uploaded", "failed"}]

\* A file is with one worker at most, before it is accounted for.
Sharing ==
    /\ \A w \in Workers, f \in Batch!Files : (Busy(w) /\ worker[w].file = f) =>
          f < nextIndex /\ outcome[f] = "none"
    /\ \A v, w \in Workers : (Busy(v) /\ Busy(w) /\ worker[v].file = worker[w].file) => v = w
    /\ \A f \in Batch!Files : f >= nextIndex => outcome[f] = "none"

Count(f) == Cardinality(Batch!Copies(f))

\* The copies of a file: one for each answer lost, and one if it was not.
Counted(f) ==
    /\ Count(f) <= 1 + unheard[f]
    /\ outcome[f] = "uploaded" => Count(f) > 0
    /\ outcome[f] = "failed" => Count(f) <= unheard[f]
    /\ f >= nextIndex => Count(f) <= unheard[f]
    /\ \A w \in Workers : (Busy(w) /\ worker[w].file = f) =>
         IF worker[w].at = "ok" THEN Count(f) > 0 ELSE Count(f) <= unheard[f]

Counting == \A f \in Batch!Files : Counted(f)

BatchInv == BatchTypes /\ Sharing /\ Counting

LEMMA BatchCardinality == ASSUME NEW S PROVE Batch!Cardinality(S) = Cardinality(S)
  BY Zenon DEF Batch!Cardinality, Cardinality

LEMMA CopiesCounted ==
    ASSUME IsFiniteSet(stored), NEW f
    PROVE  /\ IsFiniteSet(Batch!Copies(f))
           /\ Count(f) \in Nat
           /\ Count(f) = 0 <=> Batch!Copies(f) = {}
  <1>1. Batch!Copies(f) \subseteq stored
    BY DEF Batch!Copies
  <1>2. IsFiniteSet(Batch!Copies(f))
    BY <1>1, FS_Subset
  <1> QED BY <1>2, FS_CardinalityType, FS_EmptySet DEF Count

LEMMA BatchInit == ASSUME Batch!UploadBatchAssumption, Batch!Init PROVE BatchInv
  <1> USE DEF Batch!Init
  <1>1. 1 \in Batch!Files
    BY DEF Batch!UploadBatchAssumption, Batch!Files
  <1>2. \A f \in Batch!Files : Count(f) = 0
    <2>1. \A f : Batch!Copies(f) = {}
      BY DEF Batch!Copies
    <2> QED BY <2>1, FS_EmptySet DEF Count
  <1>3. BatchTypes
    BY <1>1, FS_EmptySet DEF BatchTypes, Batch!Ready, Batch!Own
  <1>4. Sharing /\ \A w \in Workers : ~Busy(w)
    BY DEF Sharing, Busy, Batch!Ready
  <1>5. Counting
    BY <1>2, <1>4 DEF Counting, Counted, Batch!Files
  <1> QED BY <1>3, <1>4, <1>5 DEF BatchInv

LEMMA BatchStutters == ASSUME BatchInv, UNCHANGED batchVars PROVE BatchInv'
  BY DEF batchVars, BatchInv, BatchTypes, Sharing, Counting, Counted, Count, Busy, Batch!Copies

\* Steps that neither store a file nor account for one, nor give one to a worker.
LEMMA BatchRests ==
    ASSUME BatchInv, UNCHANGED <<stored, unheard, nextIndex, worker, outcome>>
    PROVE  BatchInv'
  BY DEF BatchInv, BatchTypes, Sharing, Counting, Counted, Count, Busy, Batch!Copies

LEMMA TakeKeeps == ASSUME BatchInv, NEW w \in Workers, Batch!Take(w) PROVE BatchInv'
  <1>1. /\ worker[w].at = "ready" /\ nextIndex' = nextIndex + 1
        /\ UNCHANGED <<stored, unheard, outcome>>
        /\ worker' = [worker EXCEPT ![w] = worker'[w]]
        /\ worker'[w] \in [at : Answers \cup {"ready", "done", "sending"}, file : Batch!Files,
                           attempt : Nat, name : Nat]
        /\ \/ worker'[w].at = "done"
           \/ worker'[w].at = "sending" /\ worker'[w].file = nextIndex /\ nextIndex \in Batch!Files
    BY DEF BatchInv, BatchTypes, Batch!Take, Batch!Ready, Batch!Own
  <1>2. /\ \A f : Count(f)' = Count(f)
        /\ \A v \in Workers \ {w} : worker'[v] = worker[v] /\ (Busy(v)' <=> Busy(v))
    BY <1>1 DEF Count, Batch!Copies, Busy, BatchInv, BatchTypes
  <1>3. BatchTypes'
    BY <1>1 DEF BatchInv, BatchTypes
  <1>4. Batch!Files \subseteq Nat /\ nextIndex \in Nat
    BY DEF BatchInv, BatchTypes, Batch!Files
  <1>50. ~Busy(w) /\ \A v \in Workers : worker'[v].file \in Batch!Files
    BY <1>1, <1>3 DEF Busy, BatchTypes
  <1>5. Sharing'
    <2>1. ASSUME NEW v \in Workers, NEW f \in Batch!Files, Busy(v)', worker'[v].file = f
          PROVE  f < nextIndex' /\ outcome'[f] = "none" /\ (v # w => f < nextIndex)
                 /\ (v = w => f = nextIndex)
      BY <2>1, <1>1, <1>2, <1>4 DEF BatchInv, Sharing, Busy
    <2>2. ASSUME NEW u \in Workers, NEW v \in Workers, Busy(u)', Busy(v)',
                 worker'[u].file = worker'[v].file
          PROVE  u = v
      <3>1. PICK f \in Batch!Files : worker'[u].file = f
        BY <1>50
      <3>2. \A v2 \in Workers : Busy(v2)' /\ worker'[v2].file = f =>
                (v2 # w => f < nextIndex) /\ (v2 = w => f = nextIndex)
        BY <2>1
      <3>3. nextIndex \in Nat /\ f \in Nat
        BY <1>4
      <3>4. (u = w) <=> (v = w)
        BY <3>1, <3>2, <3>3, <2>2
      <3>5. CASE u # w /\ v # w
        <4>1. worker'[u] = worker[u] /\ worker'[v] = worker[v] /\ Busy(u) /\ Busy(v)
          BY <1>2, <2>2, <3>5
        <4> QED BY <4>1, <2>2 DEF BatchInv, Sharing
      <3> QED BY <3>4, <3>5
    <2>3. \A f \in Batch!Files : f >= nextIndex' => outcome'[f] = "none"
      BY <1>1, <1>4 DEF BatchInv, Sharing
    <2> QED BY <2>1, <2>2, <2>3 DEF Sharing
  <1>6. Counting'
    <2> SUFFICES ASSUME NEW g \in Batch!Files PROVE Counted(g)'
      BY DEF Counting
    <2>1. Counted(g) /\ (g >= nextIndex' => g >= nextIndex)
      BY <1>1, <1>4 DEF BatchInv, Counting
    <2>2. /\ ~Busy(w) /\ (Busy(w)' /\ worker'[w].file = g => g >= nextIndex)
          /\ worker'[w].at # "ok"
      BY <1>1, <1>4 DEF Busy
    <2> QED BY <1>1, <1>2, <2>1, <2>2 DEF Counted
  <1> QED BY <1>3, <1>5, <1>6 DEF BatchInv

LEMMA PutKeeps == ASSUME BatchInv, NEW w \in Workers, Batch!Put(w) PROVE BatchInv'
  <1>2. PICK f \in Batch!Files, name \in Nat : f = worker[w].file /\ name = worker[w].name
    BY DEF BatchInv, BatchTypes
  <1> DEFINE copy == <<f, name>>
             stores == stored' = stored \cup {copy} /\ copy \notin stored
  <1>1. /\ worker[w].at = "sending" /\ UNCHANGED <<nextIndex, outcome>>
        /\ \E a \in Answers : worker' = [worker EXCEPT ![w].at = a]
        /\ \/ stores /\ worker'[w].at = "ok" /\ UNCHANGED unheard
           \/ /\ stores /\ worker'[w].at # "ok"
              /\ unheard' = [unheard EXCEPT ![f] = @ + 1]
           \/ UNCHANGED <<stored, unheard>> /\ worker'[w].at # "ok"
    BY <1>2 DEF Batch!Put, Answers, Batch!Occupied, BatchInv, BatchTypes
  <1>20. Batch!Files \subseteq Nat
    BY DEF Batch!Files
  <1>3. /\ worker'[w].file = f /\ worker'[w].at \in Answers /\ Busy(w) /\ Busy(w)'
        /\ \A v \in Workers \ {w} : worker'[v] = worker[v] /\ (Busy(v)' <=> Busy(v))
    BY <1>1, <1>2 DEF BatchInv, BatchTypes, Busy, Answers
  <1>4. BatchTypes'
    <2>1. IsFiniteSet(stored') /\ stored' \subseteq Batch!Files \X Nat
      BY <1>1, <1>2, FS_AddElement DEF BatchInv, BatchTypes
    <2>2. unheard' \in [Batch!Files -> Nat]
      BY <1>1, <1>2 DEF BatchInv, BatchTypes
    <2>3. worker' \in [Workers -> [at : Answers \cup {"ready", "done", "sending"},
                                   file : Batch!Files, attempt : Nat, name : Nat]]
      BY <1>1 DEF BatchInv, BatchTypes
    <2> QED BY <1>1, <2>1, <2>2, <2>3 DEF BatchInv, BatchTypes
  <1>5. Sharing'
    BY <1>1, <1>2, <1>3 DEF BatchInv, Sharing
  <1>6. ASSUME NEW g, g # f PROVE Count(g)' = Count(g)
    <2>1. Batch!Copies(g)' = Batch!Copies(g)
      <3>1. CASE stored' = stored
        BY <3>1 DEF Batch!Copies
      <3>2. CASE stored' = stored \cup {copy}
        BY <3>2, <1>6 DEF Batch!Copies
      <3> QED BY <1>1, <3>1, <3>2
    <2> QED BY <2>1 DEF Count
  <1>7. Count(f) \in Nat /\ Count(f)' = IF stored' = stored THEN Count(f) ELSE Count(f) + 1
    <2>1. CASE stored' = stored
      BY <2>1, CopiesCounted DEF Count, Batch!Copies, BatchInv, BatchTypes
    <2>2. CASE stored' # stored
      <3>1. stores
        BY <1>1, <2>2
      <3>2. Batch!Copies(f)' = Batch!Copies(f) \cup {copy} /\ copy \notin Batch!Copies(f)
        BY <3>1 DEF Batch!Copies
      <3> QED BY <2>2, <3>2, CopiesCounted, FS_AddElement DEF Count, BatchInv, BatchTypes
    <2> QED BY <2>1, <2>2
  <1>8. Counting'
    <2>1. /\ unheard[f] \in Nat /\ outcome[f] = "none" /\ f < nextIndex /\ nextIndex \in Nat
          /\ f \in Nat /\ Count(f) <= unheard[f]
          /\ \A v \in Workers \ {w} : Busy(v) => worker[v].file # f
      BY <1>1, <1>2, <1>20, <1>3 DEF BatchInv, BatchTypes, Sharing, Counting, Counted
    <2>2. \/ Count(f)' <= unheard'[f] /\ worker'[w].at # "ok"
          \/ Count(f)' = Count(f) + 1 /\ unheard'[f] = unheard[f] /\ worker'[w].at = "ok"
      BY <1>1, <1>2, <1>7, <2>1 DEF BatchInv, BatchTypes
    <2>3. \A g \in Batch!Files : g # f => unheard'[g] = unheard[g]
      BY <1>1, <1>2 DEF BatchInv, BatchTypes
    <2>4. ASSUME NEW g \in Batch!Files, g # f
          PROVE  Counted(g)'
      <3>1. /\ Counted(g) /\ Count(g)' = Count(g) /\ unheard'[g] = unheard[g]
            /\ worker'[w].file # g
        BY <1>3, <1>6, <2>3, <2>4 DEF BatchInv, Counting
      <3> QED BY <1>1, <1>3, <3>1 DEF Counted
    <2>5. Counted(f)'
      <3>1. /\ Count(f)' <= 1 + unheard'[f] /\ outcome'[f] = "none" /\ f < nextIndex'
            /\ worker'[w].at = "ok" => Count(f)' > 0
            /\ worker'[w].at # "ok" => Count(f)' <= unheard'[f]
        <4>1. unheard'[f] \in Nat /\ Count(f)' \in Nat
          BY <1>2, <1>4, <1>7 DEF BatchTypes
        <4>2. outcome'[f] = "none" /\ f < nextIndex'
          BY <1>1, <2>1
        <4> QED BY <1>7, <2>1, <2>2, <4>1, <4>2
      <3>2. \A v \in Workers : (Busy(v)' /\ worker'[v].file = f) => v = w
        BY <1>3, <2>1
      <3> QED BY <2>1, <1>1, <3>1, <3>2 DEF Counted
    <2> QED BY <2>4, <2>5 DEF Counting
  <1> QED BY <1>4, <1>5, <1>8 DEF BatchInv

LEMMA JudgeKeeps ==
    ASSUME Batch!UploadBatchAssumption, BatchInv, NEW w \in Workers, Batch!Judge(w)
    PROVE  BatchInv'
  <1>3. PICK f \in Batch!Files : f = worker[w].file
    BY DEF BatchInv, BatchTypes
  <1> DEFINE states == [at : Answers \cup {"ready", "done", "sending"}, file : Batch!Files,
                        attempt : Nat, name : Nat]
             verdict == IF worker[w].at = "ok" THEN "uploaded" ELSE "failed"
  <1>8. 1 \in Batch!Files /\ worker[w] \in states
    BY DEF Batch!UploadBatchAssumption, Batch!Files, BatchInv, BatchTypes
  <1>9. /\ worker[w].at \in Answers /\ UNCHANGED <<stored, unheard, nextIndex>>
        /\ \/ /\ worker[w].at # "ok" /\ UNCHANGED outcome
              /\ \E attempt, name \in Nat : Batch!Resent(w, attempt, name)
           \/ Batch!Settled(w, verdict)
    <2>1. worker[w].attempt + 1 \in Nat /\ worker[w].name \in Nat
      BY <1>8
    <2>2. CASE worker[w].at = "ok"
      BY <2>2 DEF Batch!Judge, Answers
    <2>3. CASE worker[w].at = "conflict"
      BY <2>1, <2>3 DEF Batch!Judge, Answers
    <2>4. CASE worker[w].at = "transient"
      BY <2>1, <2>4 DEF Batch!Judge, Answers
    <2>5. CASE worker[w].at = "permanent"
      BY <2>5 DEF Batch!Judge, Answers
    <2> QED BY <2>2, <2>3, <2>4, <2>5 DEF Batch!Judge
  <1>1. /\ worker[w].at \in Answers /\ UNCHANGED <<stored, unheard, nextIndex>>
        /\ \/ /\ worker[w].at # "ok" /\ worker'[w].at = "sending" /\ worker'[w].file = f
              /\ UNCHANGED outcome
           \/ worker'[w].at = "ready" /\ outcome' = [outcome EXCEPT ![f] = verdict]
    <2>1. CASE Batch!Settled(w, verdict)
      BY <2>1, <1>3, <1>9 DEF Batch!Settled, Batch!Ready, BatchInv, BatchTypes
    <2>2. ASSUME NEW attempt \in Nat, NEW name \in Nat, Batch!Resent(w, attempt, name)
          PROVE  worker'[w].at = "sending" /\ worker'[w].file = f
      BY <2>2, <1>3, <1>8 DEF Batch!Resent, BatchInv, BatchTypes
    <2> QED BY <2>1, <2>2, <1>9
  <1>2. worker' = [worker EXCEPT ![w] = worker'[w]] /\ worker'[w] \in states
    <2>1. Batch!Ready \in states
      BY <1>8 DEF Batch!Ready, Batch!Own
    <2>2. CASE Batch!Settled(w, verdict)
      BY <2>1, <2>2 DEF Batch!Settled, BatchInv, BatchTypes
    <2>3. ASSUME NEW attempt \in Nat, NEW name \in Nat, Batch!Resent(w, attempt, name)
          PROVE  worker' = [worker EXCEPT ![w] = worker'[w]] /\ worker'[w] \in states
      BY <2>3, <1>8 DEF Batch!Resent, BatchInv, BatchTypes
    <2> QED BY <2>2, <2>3, <1>9
  <1>20. Busy(w)
    BY <1>1 DEF Busy, Answers
  <1>4. /\ \A g : Count(g)' = Count(g)
        /\ \A v \in Workers \ {w} : worker'[v] = worker[v] /\ (Busy(v)' <=> Busy(v))
    BY <1>1, <1>2 DEF Count, Batch!Copies, Busy, BatchInv, BatchTypes
  <1>5. BatchTypes'
    BY <1>1, <1>2, <1>3 DEF BatchInv, BatchTypes
  <1>6. Sharing'
    <2>1. /\ f < nextIndex /\ nextIndex \in Nat /\ f \in Nat
          /\ \A v \in Workers \ {w} : Busy(v) => worker[v].file # f
      BY <1>3, <1>20 DEF BatchInv, BatchTypes, Sharing, Batch!Files
    <2>2. \A g \in Batch!Files \ {f} : outcome'[g] = outcome[g]
      BY <1>1, <1>3 DEF BatchInv, BatchTypes
    <2>3. \A v \in Workers : worker[v].file \in Batch!Files
      BY DEF BatchInv, BatchTypes
    <2> QED BY <1>1, <1>3, <1>20, <1>4, <2>1, <2>2, <2>3 DEF BatchInv, Sharing, Busy
  <1>7. Counting'
    <2> SUFFICES ASSUME NEW g \in Batch!Files PROVE Counted(g)'
      BY DEF Counting
    <2>1. Counted(g) /\ Busy(w)
      BY <1>3, <1>20 DEF BatchInv, Counting
    <2>2. CASE g # f
      BY <1>1, <1>3, <1>20, <1>4, <2>1, <2>2 DEF Counted, Busy, BatchInv, BatchTypes
    <2>3. CASE g = f
      BY <1>1, <1>3, <1>20, <1>4, <2>1, <2>3 DEF Counted, Busy, BatchInv, BatchTypes, Sharing
    <2> QED BY <2>2, <2>3
  <1> QED BY <1>5, <1>6, <1>7 DEF BatchInv

LEMMA BatchStep ==
    ASSUME Batch!UploadBatchAssumption, BatchInv, Batch!Next \/ UNCHANGED batchVars
    PROVE  BatchInv'
  <1>1. CASE UNCHANGED batchVars
    BY <1>1, BatchStutters
  <1>2. CASE Batch!EnsureUploadDirectories \/ Batch!Report
    BY <1>2, BatchRests DEF Batch!EnsureUploadDirectories, Batch!Report
  <1>3. ASSUME NEW w \in Workers, Batch!Take(w) \/ Batch!Put(w) \/ Batch!Judge(w)
        PROVE  BatchInv'
    BY <1>3, TakeKeeps, PutKeeps, JudgeKeeps
  <1> QED BY <1>1, <1>2, <1>3 DEF Batch!Next

LEMMA BatchTells == ASSUME BatchInv PROVE Batch!ReportIsTrue
  <1> SUFFICES ASSUME NEW f \in Batch!Files
               PROVE  /\ outcome[f] = "uploaded" => Batch!Copies(f) # {}
                      /\ (outcome[f] = "failed" /\ unheard[f] = 0) => Batch!Copies(f) = {}
                      /\ Cardinality(Batch!Copies(f)) <= 1 + unheard[f]
    BY BatchCardinality DEF Batch!ReportIsTrue
  <1>1. Count(f) \in Nat /\ (Count(f) = 0 <=> Batch!Copies(f) = {})
    BY CopiesCounted DEF BatchInv, BatchTypes
  <1>2. Counted(f) /\ unheard[f] \in Nat
    BY DEF BatchInv, BatchTypes, Counting
  <1> QED BY <1>1, <1>2 DEF Counted, Count

-----------------------------------------------------------------------------
(* The dialogs about a guest *)

Statuses == {"none", "running", "success", "error", "canceled"}

\* What is known of a deed and its task.
Told(d) ==
    /\ deeds[d].truth \in {"sent", "done", "refused", "none"}
    /\ deeds[d].window \in {"waiting", "publishing", "over", "lost"}
    /\ deeds[d].window = "publishing" => deeds[d].truth \in {"done", "none"}
    /\ items[d] = "success" => deeds[d].truth \in {"done", "none"}
    /\ items[d] = "error" => (deeds[d].truth = "refused" \/ deeds[d].window = "lost")
    /\ items[d] = "running" => deeds[d].window \in {"waiting", "publishing"}

IsDeed(r) == \E what, sent, truth, window :
    r = [what |-> what, sent |-> sent, truth |-> truth, window |-> window]

DialogTypes ==
    /\ Len(deeds) \in Nat /\ DOMAIN deeds = 1..Len(deeds)
    /\ deeds = [d \in 1..Len(deeds) |-> deeds[d]]
    /\ \A d \in 1..Len(deeds) : IsDeed(deeds[d])
    /\ items \in [1..Len(deeds) -> Statuses]
    /\ saved = items

DialogInv == DialogTypes /\ \A d \in 1..Len(deeds) : Told(d)

\* A finite list with one more element.
LEMMA OneMore ==
    ASSUME NEW s, NEW n \in Nat, s = [i \in 1..n |-> s[i]], NEW e
    PROVE  /\ Len(s) = n /\ Len(Append(s, e)) = n + 1
           /\ Append(s, e) = [i \in 1..(n + 1) |-> IF i = n + 1 THEN e ELSE s[i]]
  <1> DEFINE S == {s[i] : i \in 1..n} \cup {e}
  <1>1. s \in [1..n -> S]
    OBVIOUS
  <1>2. s \in Seq(S) /\ Len(s) = n
    BY <1>1, SeqDef, LenProperties
  <1>3. e \in S
    OBVIOUS
  <1>4. /\ Append(s, e) \in Seq(S) /\ Len(Append(s, e)) = n + 1
        /\ \A i \in 1..n : Append(s, e)[i] = s[i]
        /\ Append(s, e)[n + 1] = e
    BY <1>2, <1>3, AppendProperties
  <1>5. Append(s, e) = [i \in 1..(n + 1) |-> Append(s, e)[i]]
    BY <1>4, LenProperties
  <1> HIDE DEF S
  <1>6. \A i \in 1..(n + 1) : i = n + 1 \/ i \in 1..n
    OBVIOUS
  <1> QED BY <1>2, <1>4, <1>5, <1>6

\* A deed's record with one of its fields changed.
LEMMA DeedSent ==
    ASSUME NEW r, IsDeed(r), NEW z, NEW new, new = [r EXCEPT !.sent = z]
    PROVE  IsDeed(new) /\ new.truth = r.truth /\ new.window = r.window
  <1>1. PICK what, sent, truth, window :
           r = [what |-> what, sent |-> sent, truth |-> truth, window |-> window]
    BY DEF IsDeed
  <1>2. new = [what |-> what, sent |-> z, truth |-> truth, window |-> window]
    BY <1>1
  <1> QED BY <1>1, <1>2 DEF IsDeed

LEMMA DeedTruth ==
    ASSUME NEW r, IsDeed(r), NEW z, NEW new, new = [r EXCEPT !.truth = z]
    PROVE  IsDeed(new) /\ new.truth = z /\ new.window = r.window
  <1>1. PICK what, sent, truth, window :
           r = [what |-> what, sent |-> sent, truth |-> truth, window |-> window]
    BY DEF IsDeed
  <1>2. new = [what |-> what, sent |-> sent, truth |-> z, window |-> window]
    BY <1>1
  <1> QED BY <1>1, <1>2 DEF IsDeed

LEMMA DeedHasty ==
    ASSUME NEW r, IsDeed(r), NEW new, new = [r EXCEPT !.sent.hasty = TRUE]
    PROVE  IsDeed(new) /\ new.truth = r.truth /\ new.window = r.window
  <1>1. new = [r EXCEPT !.sent = [r.sent EXCEPT !.hasty = TRUE]]
    OBVIOUS
  <1> QED BY <1>1, DeedSent

LEMMA DialogsBegin == ASSUME Dialogs!Init PROVE DialogInv
  BY DEF Dialogs!Init, DialogInv, DialogTypes

\* Steps that change neither a deed nor a task.
LEMMA DialogsRest == ASSUME DialogInv, UNCHANGED <<deeds, items, saved>> PROVE DialogInv'
  BY DEF DialogInv, DialogTypes, Told

\* The deeds stay in number, and each a deed.
LEMMA DeedsStay ==
    ASSUME DialogTypes, deeds' = [e \in 1..Len(deeds) |-> deeds'[e]],
           \A e \in 1..Len(deeds) : IsDeed(deeds'[e]),
           items' \in [1..Len(deeds) -> Statuses], saved' = items',
           \A e \in 1..Len(deeds) : Told(e)'
    PROVE  DialogInv'
  <1>1. deeds' \in Seq({deeds'[e] : e \in 1..Len(deeds)})
    BY SeqDef DEF DialogTypes
  <1>2. Len(deeds') = Len(deeds) /\ Len(deeds) \in Nat
    BY <1>1, LenProperties DEF DialogTypes
  <1>3. DialogTypes'
    BY <1>2 DEF DialogTypes
  <1> QED BY <1>2, <1>3 DEF DialogInv

\* A deed decided: its task stays.
LEMMA DecisionKeeps ==
    ASSUME DialogInv, NEW d \in DOMAIN deeds, Dialogs!CarriedOut(d) \/ Dialogs!TurnedDown(d)
    PROVE  DialogInv'
  <1>1. /\ deeds[d].truth = "sent" /\ UNCHANGED <<items, saved>>
        /\ \E truth \in {"done", "refused"} : Dialogs!Decide(d, truth)
    BY DEF Dialogs!CarriedOut, Dialogs!TurnedDown
  <1>2. PICK truth \in {"done", "refused"} : Dialogs!Decide(d, truth)
    BY <1>1
  <1>3. DialogTypes /\ d \in 1..Len(deeds) /\ \A e \in 1..Len(deeds) : Told(e)
    BY DEF DialogInv, DialogTypes
  <1>4. /\ deeds' = [e \in 1..Len(deeds) |-> deeds'[e]]
        /\ \A e \in 1..Len(deeds) : e # d => deeds'[e] = deeds[e]
        /\ IsDeed(deeds'[d]) /\ deeds'[d].truth = truth /\ deeds'[d].window = deeds[d].window
    <2> DEFINE one == [deeds EXCEPT ![d].truth = truth]
    <2>1. /\ one = [e \in 1..Len(deeds) |-> one[e]] /\ one[d] = [deeds[d] EXCEPT !.truth = truth]
          /\ \A e \in 1..Len(deeds) : e # d => one[e] = deeds[e]
      BY <1>3 DEF DialogTypes
    <2>2. deeds' = [one EXCEPT ![d].sent = NoForm]
      BY <1>2 DEF Dialogs!Decide
    <2> HIDE DEF one
    <2>3. /\ deeds' = [e \in 1..Len(deeds) |-> deeds'[e]]
          /\ \A e \in 1..Len(deeds) : e # d => deeds'[e] = deeds[e]
      BY <1>3, <2>1, <2>2
    <2>4. deeds'[d] = [one[d] EXCEPT !.sent = NoForm]
      BY <1>3, <2>1, <2>2
    <2>5. IsDeed(one[d]) /\ one[d].truth = truth /\ one[d].window = deeds[d].window
      <3>1. IsDeed(deeds[d])
        BY <1>3 DEF DialogTypes
      <3>2. one[d] = [deeds[d] EXCEPT !.truth = truth]
        BY <2>1
      <3>3. ASSUME NEW new, new = [deeds[d] EXCEPT !.truth = truth]
            PROVE  IsDeed(new) /\ new.truth = truth /\ new.window = deeds[d].window
        BY <3>1, <3>3, DeedTruth
      <3> QED BY <3>2, <3>3
    <2>6. IsDeed(deeds'[d]) /\ deeds'[d].truth = one[d].truth /\ deeds'[d].window = one[d].window
      BY <2>4, <2>5, DeedSent
    <2> QED BY <2>3, <2>5, <2>6
  <1>6. \A e \in 1..Len(deeds) : IsDeed(deeds'[e])
    BY <1>3, <1>4 DEF DialogTypes
  <1>7. \A e \in 1..Len(deeds) : Told(e)'
    BY <1>1, <1>3, <1>4 DEF Told
  <1> QED BY <1>1, <1>3, <1>4, <1>6, <1>7, DeedsStay DEF DialogTypes

\* The window of a deed changes, and with it its task: what Told says of the two.
LEMMA WindowKeeps ==
    ASSUME DialogInv, NEW d \in DOMAIN deeds,
           NEW window \in {"waiting", "publishing", "over", "lost"}, NEW status \in Statuses,
           deeds' = [deeds EXCEPT ![d].window = window],
           items' = [items EXCEPT ![d] = status], saved' = items',
           window = "publishing" => deeds[d].truth \in {"done", "none"},
           status = "success" => deeds[d].truth \in {"done", "none"},
           status = "error" => (deeds[d].truth = "refused" \/ window = "lost"),
           status = "running" => window \in {"waiting", "publishing"}
    PROVE  DialogInv'
  <1>3. DialogTypes /\ d \in 1..Len(deeds) /\ \A e \in 1..Len(deeds) : Told(e)
    BY DEF DialogInv, DialogTypes
  <1>4. /\ deeds' = [e \in 1..Len(deeds) |-> deeds'[e]]
        /\ \A e \in 1..Len(deeds) : e # d => (deeds'[e] = deeds[e] /\ items'[e] = items[e])
        /\ deeds'[d] = [deeds[d] EXCEPT !.window = window] /\ items'[d] = status
        /\ items' \in [1..Len(deeds) -> Statuses]
    BY <1>3 DEF DialogTypes
  <1>8. IsDeed(deeds[d])
    BY <1>3 DEF DialogTypes
  <1>5. IsDeed(deeds'[d]) /\ deeds'[d].truth = deeds[d].truth /\ deeds'[d].window = window
    BY <1>4, <1>8 DEF IsDeed
  <1>6. \A e \in 1..Len(deeds) : IsDeed(deeds'[e])
    BY <1>3, <1>4, <1>5 DEF DialogTypes
  <1>7. \A e \in 1..Len(deeds) : Told(e)'
    BY <1>3, <1>4, <1>5 DEF Told
  <1> QED BY <1>3, <1>4, <1>6, <1>7, DeedsStay

\* An answer reaches the window of a deed.
LEMMA AnswerKeeps ==
    ASSUME DialogInv, NEW d \in DOMAIN deeds,
           Dialogs!Succeeds(d) \/ (\E lost \in BOOLEAN : Dialogs!Fails(d, lost)) \/ Dialogs!Published(d)
    PROVE  DialogInv'
  <1>1. /\ items \in [1..Len(deeds) -> Statuses] /\ saved = items /\ Told(d)
        /\ d \in 1..Len(deeds)
    BY DEF DialogInv, DialogTypes
  <1> DEFINE status(s) == IF items[d] = "running" THEN s ELSE items[d]
  <1>2. \A s \in Statuses : Dialogs!Ends(d, s) =>
           (items' = [items EXCEPT ![d] = status(s)] /\ saved' = items' /\ status(s) \in Statuses)
    BY <1>1 DEF Dialogs!Ends, Dialogs!Keep, Statuses
  <1>3. items = [items EXCEPT ![d] = items[d]] /\ items[d] \in Statuses
    BY <1>1
  <1>4. CASE Dialogs!Succeeds(d)
    <2>1. deeds[d].truth = "done" /\ deeds[d].window = "waiting"
      BY <1>4 DEF Dialogs!Succeeds
    <2>2. CASE deeds' = [deeds EXCEPT ![d].window = "publishing"] /\ UNCHANGED <<items, saved>>
      BY <2>1, <2>2, <1>1, <1>3, WindowKeeps DEF Told
    <2>3. CASE deeds' = [deeds EXCEPT ![d].window = "over"] /\ Dialogs!Ends(d, "success")
      BY <2>1, <2>3, <1>1, <1>2, WindowKeeps DEF Told, Statuses
    <2> QED BY <1>4, <2>2, <2>3 DEF Dialogs!Succeeds
  <1>5. ASSUME NEW lost \in BOOLEAN, Dialogs!Fails(d, lost)
        PROVE  DialogInv'
    <2> DEFINE window == IF lost THEN "lost" ELSE "over"
    <2>1. /\ deeds[d].window = "waiting" /\ (deeds[d].truth = "refused" \/ lost)
          /\ deeds' = [deeds EXCEPT ![d].window = window] /\ Dialogs!Ends(d, "error")
      BY <1>5 DEF Dialogs!Fails
    <2>2. window \in {"waiting", "publishing", "over", "lost"} /\ window # "publishing"
      OBVIOUS
    <2>3. status("error") = "error" => (deeds[d].truth = "refused" \/ window = "lost")
      BY <2>1, <1>1 DEF Told
    <2>4. status("error") # "running" /\ (status("error") = "success" => deeds[d].truth \in {"done", "none"})
      BY <1>1 DEF Told
    <2>5. /\ items' = [items EXCEPT ![d] = status("error")] /\ saved' = items'
          /\ status("error") \in Statuses
      BY <2>1, <1>2 DEF Statuses
    <2> HIDE DEF window, status
    <2> QED BY <2>1, <2>2, <2>3, <2>4, <2>5, WindowKeeps
  <1>6. CASE Dialogs!Published(d)
    <2>1. deeds[d].window = "publishing" /\ deeds[d].truth \in {"done", "none"}
      BY <1>6, <1>1 DEF Dialogs!Published, Told
    <2>2. deeds' = [deeds EXCEPT ![d].window = "over"] /\ Dialogs!Ends(d, "success")
      BY <1>6 DEF Dialogs!Published
    <2> QED BY <2>1, <2>2, <1>1, <1>2, WindowKeeps DEF Told, Statuses
  <1> QED BY <1>4, <1>5, <1>6

\* The dock: a task canceled or cleared.
LEMMA DockKeeps ==
    ASSUME DialogInv, NEW d \in DOMAIN deeds, Dialogs!Cancel(d) \/ Dialogs!Clear(d)
    PROVE  DialogInv'
  <1>1. DialogTypes /\ d \in 1..Len(deeds) /\ \A e \in 1..Len(deeds) : Told(e)
    BY DEF DialogInv, DialogTypes
  <1>2. /\ UNCHANGED deeds /\ saved' = items'
        /\ \E s \in {"none", "canceled"} : items' = [items EXCEPT ![d] = s]
    BY <1>1 DEF Dialogs!Cancel, Dialogs!Clear, Dialogs!Ends, Dialogs!Keep
  <1>3. PICK s \in {"none", "canceled"} : items' = [items EXCEPT ![d] = s]
    BY <1>2
  <1>4. DialogTypes'
    BY <1>1, <1>2, <1>3 DEF DialogTypes, Statuses
  <1>5. \A e \in 1..Len(deeds) : Told(e)'
    BY <1>1, <1>2, <1>3 DEF Told, DialogTypes
  <1> QED BY <1>2, <1>4, <1>5 DEF DialogInv

\* A reload: no window waits, and no task runs.
LEMMA ReloadKeeps == ASSUME DialogInv, Dialogs!Reload PROVE DialogInv'
  <1>1. DialogTypes /\ \A e \in 1..Len(deeds) : Told(e)
    BY DEF DialogInv
  <1>2. /\ deeds' = [d \in 1..Len(deeds) |-> deeds'[d]]
        /\ \A d \in 1..Len(deeds) : deeds'[d] =
              [deeds[d] EXCEPT !.window = IF deeds[d].window = "lost" THEN "lost" ELSE "over"]
        /\ items' = [d \in 1..Len(deeds) |-> IF items[d] = "running" THEN "canceled" ELSE items[d]]
        /\ saved' = items'
    BY <1>1 DEF Dialogs!Reload, Dialogs!Keep, Dialogs!Restored, DialogTypes
  <1>3. ASSUME NEW d \in 1..Len(deeds)
        PROVE  IsDeed(deeds'[d]) /\ Told(d)'
    <2>1. IsDeed(deeds[d]) /\ Told(d)
      BY <1>1 DEF DialogTypes
    <2>2. /\ IsDeed(deeds'[d]) /\ deeds'[d].truth = deeds[d].truth
          /\ deeds'[d].window = IF deeds[d].window = "lost" THEN "lost" ELSE "over"
      BY <1>2, <2>1 DEF IsDeed
    <2>3. items'[d] = IF items[d] = "running" THEN "canceled" ELSE items[d]
      BY <1>2
    <2> QED BY <2>1, <2>2, <2>3 DEF Told
  <1>4. items' \in [1..Len(deeds) -> Statuses]
    BY <1>1, <1>2 DEF DialogTypes, Statuses
  <1> QED BY <1>1, <1>2, <1>3, <1>4, DeedsStay

\* A form submitted: one more deed, and its task.
LEMMA SubmitKeeps == ASSUME DialogInv, Dialogs!Submit PROVE DialogInv'
  <1> DEFINE n == Len(deeds)
  <1>1. DialogTypes /\ (\A e \in 1..n : Told(e)) /\ n \in Nat
    BY DEF DialogInv, DialogTypes
  <1>2. PICK others, new, status :
           /\ others = [d \in 1..n |-> others[d]]
           /\ \A d \in 1..n : /\ IsDeed(others[d]) /\ others[d].truth = deeds[d].truth
                              /\ others[d].window = deeds[d].window
           /\ IsDeed(new) /\ status \in {"none", "running"}
           /\ \/ new.truth = "sent" /\ new.window = "waiting"
              \/ new.truth = "none" /\ new.window = "publishing"
           /\ deeds' = Append(others, new) /\ items' = Append(items, status) /\ saved' = items'
    <2> DEFINE others == [d \in DOMAIN deeds |->
                  IF deeds[d].truth = "sent" THEN [deeds[d] EXCEPT !.sent.hasty = TRUE] ELSE deeds[d]]
               sends == Dialogs!SettingsChanged
               sent == IF sends THEN [form EXCEPT !.hasty = @ \/ Dialogs!AtWork] ELSE NoForm
               new == [what |-> form.what, sent |-> sent,
                       truth |-> IF sends THEN "sent" ELSE "none",
                       window |-> IF sends THEN "waiting" ELSE "publishing"]
    <2>1. deeds' = Append(others, new)
      BY DEF Dialogs!Submit
    <2>2. items' = Append(items, Dialogs!NewTask) /\ saved' = items'
      BY DEF Dialogs!Submit, Dialogs!Keep
    <2>3. Dialogs!NewTask \in {"none", "running"}
      BY DEF Dialogs!NewTask
    <2>4. others = [d \in 1..n |-> others[d]]
      BY <1>1 DEF DialogTypes
    <2>5. ASSUME NEW d \in 1..n
          PROVE  /\ IsDeed(others[d]) /\ others[d].truth = deeds[d].truth
                 /\ others[d].window = deeds[d].window
      <3>1. others[d] = IF deeds[d].truth = "sent" THEN [deeds[d] EXCEPT !.sent.hasty = TRUE] ELSE deeds[d]
        BY <1>1 DEF DialogTypes
      <3>2. IsDeed(deeds[d])
        BY <1>1 DEF DialogTypes
      <3> HIDE DEF others
      <3> QED BY <3>1, <3>2, DeedHasty
    <2>6. /\ IsDeed(new)
          /\ \/ new.truth = "sent" /\ new.window = "waiting"
             \/ new.truth = "none" /\ new.window = "publishing"
      <3> HIDE DEF sends, sent
      <3>1. IsDeed(new)
        BY Zenon DEF IsDeed
      <3> QED BY <3>1
    <2> HIDE DEF others, new
    <2> QED BY <2>1, <2>2, <2>3, <2>4, <2>5, <2>6
  <1>3. /\ Len(deeds') = n + 1
        /\ deeds' = [d \in 1..(n + 1) |-> IF d = n + 1 THEN new ELSE others[d]]
    BY <1>1, <1>2, OneMore
  <1>4. items' = [d \in 1..(n + 1) |-> IF d = n + 1 THEN status ELSE items[d]]
    <2>1. items = [d \in 1..n |-> items[d]]
      BY <1>1 DEF DialogTypes
    <2> QED BY <2>1, <1>1, <1>2, OneMore
  <1>5. \A d \in 1..(n + 1) : d = n + 1 \/ d \in 1..n
    BY <1>1
  <1>6. DialogTypes'
    BY <1>1, <1>2, <1>3, <1>4, <1>5 DEF DialogTypes, Statuses
  <1>7. ASSUME NEW d \in 1..(n + 1) PROVE Told(d)'
    BY <1>1, <1>2, <1>3, <1>4, <1>5 DEF Told
  <1> QED BY <1>3, <1>6, <1>7 DEF DialogInv

LEMMA DialogStep ==
    ASSUME DialogInv, Dialogs!Next \/ UNCHANGED dialogVars
    PROVE  DialogInv'
  <1>1. CASE UNCHANGED dialogVars
    BY <1>1, DialogsRest DEF dialogVars
  <1>2. CASE Dialogs!LoadPage \/ Dialogs!Edit \/ Dialogs!Create \/ Dialogs!Delete \/ Dialogs!Close
    BY <1>2, DialogsRest DEF Dialogs!LoadPage, Dialogs!Edit, Dialogs!Create, Dialogs!Delete, Dialogs!Close
  <1>3. ASSUME NEW f, Dialogs!Enter(f) PROVE DialogInv'
    BY <1>3, DialogsRest DEF Dialogs!Enter
  <1>4. ASSUME NEW i, \/ Dialogs!Looked(i) \/ Dialogs!Loaded(i) \/ Dialogs!EditAnswered(i)
                      \/ Dialogs!CreateAnswered(i) \/ Dialogs!ReadFails(i)
        PROVE  DialogInv'
    BY <1>4, DialogsRest DEF Dialogs!Looked, Dialogs!Loaded, Dialogs!EditAnswered,
                             Dialogs!CreateAnswered, Dialogs!ReadFails
  <1>5. CASE Dialogs!Submit \/ Dialogs!Reload
    BY <1>5, SubmitKeeps, ReloadKeeps
  <1>6. ASSUME NEW d \in DOMAIN deeds,
               \/ Dialogs!CarriedOut(d) \/ Dialogs!TurnedDown(d) \/ Dialogs!Succeeds(d)
               \/ (\E lost \in BOOLEAN : Dialogs!Fails(d, lost)) \/ Dialogs!Published(d)
               \/ Dialogs!Cancel(d) \/ Dialogs!Clear(d)
        PROVE  DialogInv'
    BY <1>6, DecisionKeeps, AnswerKeeps, DockKeeps
  <1> QED BY <1>1, <1>2, <1>3, <1>4, <1>5, <1>6 DEF Dialogs!Next

LEMMA DialogsTell == ASSUME DialogInv PROVE Dialogs!TasksTell
  BY DEF DialogInv, DialogTypes, Told, Dialogs!TasksTell

-----------------------------------------------------------------------------
LEMMA DialogsRun ==
    ASSUME [Next]_vars, part' = "dialogs"
    PROVE  Dialogs!Next \/ UNCHANGED dialogVars
  BY DEF Next, vars, OfChunked, OfBatch, OfMedia, OfConversions, OfContent, OfPage, OfDialogs

\* What the user is told of a batch of uploads, by the numbers reported when it is over,
\* or of a guest by the tasks in the dock, is true (app.js, uploadFilesWithProgress;
\* dialog-controls.js, the task dock).
THEOREM ReportsAreTrue == Spec => []ReportIsTrue
  <1> DEFINE Inv == (part = "batch" => BatchInv) /\ (part = "dialogs" => DialogInv)
  <1>1. Init => Inv
    BY LibraryAssumption, BatchBegins, BatchInit, DialogsBegin DEF Init
  <1>2. Inv /\ [Next]_vars => Inv'
    <2> SUFFICES ASSUME Inv, [Next]_vars PROVE Inv'
      OBVIOUS
    <2>1. part' = "batch" => BatchInv'
      BY PartStays, BatchRuns, BatchStep, LibraryAssumption
    <2>2. part' = "dialogs" => DialogInv'
      BY PartStays, DialogsRun, DialogStep
    <2> QED BY <2>1, <2>2
  <1>3. Inv => ReportIsTrue
    BY BatchTells, DialogsTell DEF ReportIsTrue
  <1> QED BY <1>1, <1>2, <1>3, PTL DEF Spec

-----------------------------------------------------------------------------
(* Chunked uploads, and uploads in one request *)

LEMMA ChunkedRuns ==
    ASSUME [Next]_vars, part' = "uploads"
    PROVE  Chunked!Next \/ UNCHANGED chunkedVars
  BY DEF Next, vars, OfChunked, OfBatch, OfMedia, OfConversions, OfContent, OfPage, OfDialogs

LEMMA ChunkedBegins == ASSUME Init, part = "uploads" PROVE Chunked!Init
  BY DEF Init

IsHandler(h) == \E u \in Uploads, c \in Chunked!Chunks : \E at, try, used, r :
    h = [upload |-> u, chunk |-> c, at |-> at, try |-> try, used |-> used, reserved |-> r]

ClientPlaces == {"sending", "waiting", "done", "refused", "gave up"}

UploadTypes ==
    /\ target \in [Chunked!Actors -> Paths]
    /\ disk \in [Paths -> {None} \cup [by : Chunked!Actors, chunks : SUBSET Chunked!Chunks]]
    /\ sessions \in [Uploads -> {None} \cup [expected : 0..NChunks, listed : BOOLEAN]]
    /\ \A h \in handlers : IsHandler(h)
    /\ clients \in [Uploads -> [at : ClientPlaces, chunk : Chunked!Chunks, tries : Nat]]
    /\ puts = [p \in Puts |-> puts[p]]
    /\ \A p \in Puts : DOMAIN puts[p] = {"at", "used"}
    /\ restarts \in Nat

\* The file of a transfer is its own, with these chunks.
Mine(a, chunks) ==
    disk[target[a]] # None /\ disk[target[a]] = [by |-> a, chunks |-> chunks]

\* A request that is served is for the chunk its client waits for.  It writes to the
\* session that expects the chunk, or begins the session.
Serves(u, h) ==
    /\ h.chunk = clients[u].chunk /\ clients[u].at = "waiting"
    /\ h.at \in {"writing", "written"} =>
         sessions[u] # None /\ sessions[u].listed /\ sessions[u].expected = clients[u].chunk
    /\ h.at = "written" => Mine(u, 0..clients[u].chunk)
    /\ h.at \in {"measuring", "testing", "opening"} =>
         clients[u].chunk = 0 /\ (sessions[u] = None \/ ~sessions[u].listed)
    /\ h.at = "created" => clients[u].chunk = 0 /\ sessions[u] = None /\ Mine(u, {})

\* A session is at its client's chunk, or past it when the response was lost; the file
\* has the chunks before the one expected.
SessionAgrees(u) ==
    sessions[u] # None =>
      /\ sessions[u].expected \in {clients[u].chunk, clients[u].chunk + 1}
      /\ sessions[u].listed = (sessions[u].expected < NChunks)
      /\ (\A h \in handlers : h.upload = u => h.at # "written") =>
           Mine(u, 0..(sessions[u].expected - 1))

ClientAgrees(u) ==
    /\ clients[u].at = "done" => Mine(u, Chunked!Chunks)
    /\ (restarts = 0 /\ clients[u].chunk > 0) => sessions[u] # None
    /\ (restarts = 0 /\ clients[u].chunk \in 1..(NChunks - 2)) => clients[u].at # "refused"

Agrees(u) ==
    /\ \A h \in handlers : h.upload = u => Serves(u, h)
    /\ SessionAgrees(u) /\ ClientAgrees(u)

PutAgrees(p) ==
    /\ puts[p].at = "receiving" => (disk[target[p]] # None /\ disk[target[p]].by = p)
    /\ puts[p].at = "done" => Mine(p, Chunked!Chunks)

UploadInv ==
    /\ UploadTypes
    /\ \A g, h \in handlers : g.upload = h.upload => g = h
    /\ \A u \in Uploads : Agrees(u)
    /\ \A p \in Puts : PutAgrees(p)

\* A step does not touch the file of a transfer.
Kept(a) ==
    (disk[target[a]] # None /\ disk[target[a]].by = a) => disk'[target[a]] = disk[target[a]]

LEMMA ChunkedCardinality == ASSUME NEW S PROVE Chunked!Cardinality(S) = Cardinality(S)
  BY Zenon DEF Chunked!Cardinality, Cardinality

LEMMA UploadsBegin == ASSUME Chunked!UploadsAssumption, Chunked!Init PROVE UploadInv
  <1> USE DEF Chunked!Init
  <1>1. 0 \in Chunked!Chunks
    BY DEF Chunked!UploadsAssumption, Chunked!Chunks
  <1>2. UploadTypes
    BY <1>1 DEF UploadTypes, ClientPlaces
  <1>3. \A u \in Uploads : Agrees(u)
    BY DEF Agrees, SessionAgrees, ClientAgrees
  <1>4. \A p \in Puts : PutAgrees(p)
    BY DEF PutAgrees
  <1> QED BY <1>2, <1>3, <1>4 DEF UploadInv

\* An upload of which a step changes nothing.
LEMMA OtherAgrees ==
    ASSUME NEW u \in Uploads, Agrees(u), Kept(u), UNCHANGED target, restarts' = restarts,
           clients'[u] = clients[u], sessions'[u] = sessions[u],
           \A h : h.upload = u => (h \in handlers' <=> h \in handlers)
    PROVE  Agrees(u)'
  <1>1. \A chunks : Mine(u, chunks) => Mine(u, chunks)'
    BY DEF Mine, Kept
  <1>2. \A h \in handlers' : h.upload = u => Serves(u, h)'
    BY <1>1 DEF Agrees, Serves
  <1>3. SessionAgrees(u)' /\ ClientAgrees(u)'
    BY <1>1 DEF Agrees, SessionAgrees, ClientAgrees
  <1> QED BY <1>2, <1>3 DEF Agrees

LEMMA OtherPutAgrees ==
    ASSUME NEW p \in Puts, PutAgrees(p), Kept(p), UNCHANGED target, puts'[p] = puts[p]
    PROVE  PutAgrees(p)'
  BY DEF PutAgrees, Kept, Mine

LEMMA UploadsStutter == ASSUME UploadInv, UNCHANGED chunkedVars PROVE UploadInv'
  <1>1. UNCHANGED <<target, disk, sessions, handlers, clients, puts, restarts>>
    BY DEF chunkedVars
  <1>2. \A u \in Uploads : Agrees(u)'
    BY <1>1, OtherAgrees DEF UploadInv, Kept
  <1>3. \A p \in Puts : PutAgrees(p)'
    BY <1>1, OtherPutAgrees DEF UploadInv, Kept
  <1>4. UploadTypes'
    BY <1>1 DEF UploadInv, UploadTypes
  <1> QED BY <1>1, <1>2, <1>3, <1>4 DEF UploadInv


\* The records of handlers with a field changed.
LEMMA HandlerAt ==
    ASSUME NEW h, IsHandler(h), NEW x, NEW g, g = [h EXCEPT !.at = x]
    PROVE  IsHandler(g) /\ g.upload = h.upload /\ g.chunk = h.chunk /\ g.at = x
  <1>1. PICK u \in Uploads, c \in Chunked!Chunks :
           \E at, try, used, r : h = [upload |-> u, chunk |-> c, at |-> at, try |-> try,
                                       used |-> used, reserved |-> r]
    BY DEF IsHandler
  <1>2. PICK at, try, used, r :
           h = [upload |-> u, chunk |-> c, at |-> at, try |-> try, used |-> used, reserved |-> r]
    BY <1>1
  <1>3. g = [upload |-> u, chunk |-> c, at |-> x, try |-> try, used |-> used, reserved |-> r]
    BY <1>2
  <1> QED BY <1>2, <1>3 DEF IsHandler

LEMMA HandlerUsed ==
    ASSUME NEW h, IsHandler(h), NEW x, NEW g, g = [h EXCEPT !.used = x]
    PROVE  IsHandler(g) /\ g.upload = h.upload /\ g.chunk = h.chunk /\ g.at = h.at
  <1>1. PICK u \in Uploads, c \in Chunked!Chunks :
           \E at, try, used, r : h = [upload |-> u, chunk |-> c, at |-> at, try |-> try,
                                       used |-> used, reserved |-> r]
    BY DEF IsHandler
  <1>2. PICK at, try, used, r :
           h = [upload |-> u, chunk |-> c, at |-> at, try |-> try, used |-> used, reserved |-> r]
    BY <1>1
  <1>3. g = [upload |-> u, chunk |-> c, at |-> at, try |-> try, used |-> x, reserved |-> r]
    BY <1>2
  <1> QED BY <1>2, <1>3 DEF IsHandler

LEMMA HandlerReserved ==
    ASSUME NEW h, IsHandler(h), NEW x, NEW g, g = [h EXCEPT !.reserved = x]
    PROVE  IsHandler(g) /\ g.upload = h.upload /\ g.chunk = h.chunk /\ g.at = h.at
  <1>1. PICK u \in Uploads, c \in Chunked!Chunks :
           \E at, try, used, r : h = [upload |-> u, chunk |-> c, at |-> at, try |-> try,
                                       used |-> used, reserved |-> r]
    BY DEF IsHandler
  <1>2. PICK at, try, used, r :
           h = [upload |-> u, chunk |-> c, at |-> at, try |-> try, used |-> used, reserved |-> r]
    BY <1>1
  <1>3. g = [upload |-> u, chunk |-> c, at |-> at, try |-> try, used |-> used, reserved |-> x]
    BY <1>2
  <1> QED BY <1>2, <1>3 DEF IsHandler

\* A step in which the server, or its client, deals with one upload.
LEMMA OneUpload ==
    ASSUME UploadInv, NEW u \in Uploads, UNCHANGED <<target, puts, restarts>>,
           \A v \in Uploads : v # u => (clients'[v] = clients[v] /\ sessions'[v] = sessions[v]),
           \A a \in Chunked!Actors : a # u => Kept(a), Uploads \cap Puts = {},
           \A g : g.upload # u => (g \in handlers' <=> g \in handlers),
           \A g, h \in handlers' : (g.upload = u /\ h.upload = u) => g = h,
           UploadTypes', Agrees(u)'
    PROVE  UploadInv'
  <1>1. \A v \in Uploads : Agrees(v)'
    BY OtherAgrees DEF UploadInv, Chunked!Actors
  <1>2. \A p \in Puts : PutAgrees(p)'
    BY OtherPutAgrees DEF UploadInv, Chunked!Actors
  <1>3. \A g, h \in handlers' : g.upload = h.upload => g = h
    BY DEF UploadInv
  <1> QED BY <1>1, <1>2, <1>3 DEF UploadInv

LEMMA SendKeeps ==
    ASSUME Chunked!UploadsAssumption, UploadInv, NEW u \in Uploads,
           Chunked!SendChunk(u) \/ Chunked!RetryChunk(u)
    PROVE  UploadInv'
  <1>1. /\ UNCHANGED <<target, disk, sessions, puts, restarts>>
        /\ \A v \in Uploads : v # u => clients'[v] = clients[v]
        /\ clients'[u].chunk = clients[u].chunk
        /\ clients' \in [Uploads -> [at : ClientPlaces, chunk : Chunked!Chunks, tries : Nat]]
        /\ \/ /\ clients'[u].at = "waiting"
              /\ \/ handlers' = handlers
                 \/ \E try : handlers' = handlers \cup
                       {[upload |-> u, chunk |-> clients[u].chunk, at |-> "begun", try |-> try,
                         used |-> 0, reserved |-> 0]}
           \/ clients'[u].at = "gave up" /\ handlers' = handlers
    <2>1. /\ clients \in [Uploads -> [at : ClientPlaces, chunk : Chunked!Chunks, tries : Nat]]
          /\ clients[u] \in [at : ClientPlaces, chunk : Chunked!Chunks, tries : Nat]
      BY DEF UploadInv, UploadTypes
    <2>2. CASE Chunked!Send(u, clients[u].chunk)
      <3>1. /\ clients'[u].chunk = clients[u].chunk /\ clients'[u].at = "waiting"
            /\ \A v \in Uploads : v # u => clients'[v] = clients[v]
            /\ clients' \in [Uploads -> [at : ClientPlaces, chunk : Chunked!Chunks, tries : Nat]]
        <4> DEFINE sent == [at |-> "waiting", chunk |-> clients[u].chunk,
                            tries |-> clients[u].tries + 1]
        <4>1. clients' = [clients EXCEPT ![u] = sent]
          BY <2>2 DEF Chunked!Send
        <4>2. /\ sent \in [at : ClientPlaces, chunk : Chunked!Chunks, tries : Nat]
              /\ sent.chunk = clients[u].chunk /\ sent.at = "waiting"
          <5>1. clients[u].chunk \in Chunked!Chunks /\ clients[u].tries + 1 \in Nat
            BY <2>1
          <5> QED BY <5>1 DEF ClientPlaces
        <4> HIDE DEF sent
        <4> QED BY <2>1, <4>1, <4>2
      <3>2. \/ handlers' = handlers
            \/ \E try : handlers' = handlers \cup
                  {[upload |-> u, chunk |-> clients[u].chunk, at |-> "begun", try |-> try,
                    used |-> 0, reserved |-> 0]}
        <4> DEFINE sent(try) == handlers' = handlers \cup
                  {[upload |-> u, chunk |-> clients[u].chunk, at |-> "begun", try |-> try,
                    used |-> 0, reserved |-> 0]}
        <4>1. handlers' = handlers \/ sent(clients[u].tries + 1)
          BY <2>2 DEF Chunked!Send
        <4> QED BY <4>1
      <3> QED BY <3>1, <3>2 DEF Chunked!SendChunk, Chunked!RetryChunk
    <2>3. CASE clients' = [clients EXCEPT ![u].at = "gave up"] /\ handlers' = handlers
      BY <2>1, <2>3 DEF Chunked!SendChunk, Chunked!RetryChunk, ClientPlaces
    <2> QED BY <2>2, <2>3 DEF Chunked!SendChunk, Chunked!RetryChunk
  <1>2. \A h \in handlers : h.upload # u
    BY DEF Chunked!SendChunk, Chunked!RetryChunk, Chunked!Served, UploadInv, Agrees, Serves
  <1>3. \A h \in handlers' : /\ IsHandler(h)
                             /\ h.upload = u => h.chunk = clients[u].chunk /\ h.at = "begun"
    <2>1. clients[u].chunk \in Chunked!Chunks /\ \A h \in handlers : IsHandler(h)
      BY DEF UploadInv, UploadTypes
    <2>2. ASSUME NEW try, NEW h, h = [upload |-> u, chunk |-> clients[u].chunk, at |-> "begun",
                                      try |-> try, used |-> 0, reserved |-> 0]
          PROVE  IsHandler(h) /\ h.upload = u /\ h.chunk = clients[u].chunk /\ h.at = "begun"
      BY <2>1, <2>2 DEF IsHandler
    <2>3. ASSUME NEW h \in handlers', h \notin handlers
          PROVE  IsHandler(h) /\ h.upload = u /\ h.chunk = clients[u].chunk /\ h.at = "begun"
      <3>1. \E try : handlers' = handlers \cup
               {[upload |-> u, chunk |-> clients[u].chunk, at |-> "begun", try |-> try,
                 used |-> 0, reserved |-> 0]}
        BY <1>1, <2>3
      <3>2. \E try : h = [upload |-> u, chunk |-> clients[u].chunk, at |-> "begun", try |-> try,
                           used |-> 0, reserved |-> 0]
        BY <2>3, <3>1
      <3> QED BY <2>2, <3>2
    <2> QED BY <1>2, <2>1, <2>3
  <1>4. /\ \A g : g.upload # u => (g \in handlers' <=> g \in handlers)
        /\ \A g, h \in handlers' : (g.upload = u /\ h.upload = u) => g = h
        /\ (\E h \in handlers' : h.upload = u) => clients'[u].at = "waiting"
    <2>1. CASE handlers' = handlers
      BY <1>2, <2>1
    <2>2. ASSUME NEW h, h.upload = u, handlers' = handlers \cup {h}, clients'[u].at = "waiting"
          PROVE  /\ \A g : g.upload # u => (g \in handlers' <=> g \in handlers)
                 /\ \A f, g \in handlers' : (f.upload = u /\ g.upload = u) => f = g
      BY <1>2, <2>2
    <2> QED BY <1>1, <2>1, <2>2
  <1>5. UploadTypes'
    BY <1>1, <1>3 DEF UploadInv, UploadTypes
  <1>6. Agrees(u)'
    BY <1>1, <1>2, <1>3, <1>4 DEF UploadInv, Agrees, SessionAgrees, ClientAgrees, Serves, Mine
  <1>7. \A a \in Chunked!Actors : Kept(a)
    BY <1>1 DEF Kept
  <1> QED BY <1>1, <1>4, <1>5, <1>6, <1>7, OneUpload DEF Chunked!UploadsAssumption

\* The request ends with a response, which its client hears or not.
LEMMA Responds ==
    ASSUME Chunked!UploadsAssumption, UploadInv,
           NEW h \in handlers, NEW u \in Uploads, h.upload = u, NEW answer,
           Chunked!Respond(h, answer)
    PROVE  /\ handlers' \subseteq handlers /\ \A g \in handlers' : g.upload # u
           /\ \A g : g.upload # u => (g \in handlers' <=> g \in handlers)
           /\ \A v \in Uploads : v # u => clients'[v] = clients[v]
           /\ clients' \in [Uploads -> [at : ClientPlaces, chunk : Chunked!Chunks, tries : Nat]]
           /\ clients'[u] = clients[u] \/ clients'[u] = Chunked!After(clients[u], answer)
  <1>1. handlers' = handlers \ {h} /\ \A g \in handlers : g.upload = u => g = h
    BY DEF Chunked!Respond, UploadInv
  <1>2. /\ clients \in [Uploads -> [at : ClientPlaces, chunk : Chunked!Chunks, tries : Nat]]
        /\ clients[u] \in [at : ClientPlaces, chunk : Chunked!Chunks, tries : Nat]
    BY DEF UploadInv, UploadTypes
  <1>3. Chunked!After(clients[u], answer) \in [at : ClientPlaces, chunk : Chunked!Chunks, tries : Nat]
    <2>1. /\ clients[u].chunk \in Nat /\ NChunks \in Nat
          /\ clients[u].chunk + 1 < NChunks => clients[u].chunk + 1 \in Chunked!Chunks
      BY <1>2 DEF Chunked!Chunks, Chunked!UploadsAssumption
    <2> QED BY <1>2, <2>1 DEF Chunked!After, ClientPlaces
  <1>4. clients' = clients \/ clients' = [clients EXCEPT ![u] = Chunked!After(clients[u], answer)]
    BY DEF Chunked!Respond
  <1> QED BY <1>1, <1>2, <1>3, <1>4

\* A request refused: the session, the file and the client's chunk stay.
LEMMA RefusalKeeps ==
    ASSUME Chunked!UploadsAssumption, UploadInv, NEW h \in handlers, NEW u \in Uploads, h.upload = u,
           NEW answer \in {"restart", "offset", "quota", "exists"},
           Chunked!Respond(h, answer), h.at # "written",
           UNCHANGED <<target, disk, sessions, puts, restarts>>,
           ~(restarts = 0 /\ clients[u].chunk \in 1..(NChunks - 2))
    PROVE  UploadInv'
  <1>1. /\ handlers' \subseteq handlers /\ \A g \in handlers' : g.upload # u
        /\ \A g : g.upload # u => (g \in handlers' <=> g \in handlers)
        /\ \A v \in Uploads : v # u => clients'[v] = clients[v]
        /\ clients' \in [Uploads -> [at : ClientPlaces, chunk : Chunked!Chunks, tries : Nat]]
        /\ clients'[u] = clients[u] \/ clients'[u] = [clients[u] EXCEPT !.at = "refused"]
    BY Responds DEF Chunked!After
  <1>2. clients'[u].chunk = clients[u].chunk /\ clients'[u].at # "done" /\ clients[u].at = "waiting"
    BY <1>1 DEF UploadInv, UploadTypes, Agrees, Serves
  <1>3. UploadTypes'
    BY <1>1 DEF UploadInv, UploadTypes
  <1>4. \A g \in handlers : g.upload = u => g.at # "written"
    BY DEF UploadInv
  <1>5. Agrees(u)'
    BY <1>1, <1>2, <1>4 DEF UploadInv, Agrees, SessionAgrees, ClientAgrees, Mine
  <1>6. \A a \in Chunked!Actors : Kept(a)
    BY DEF Kept
  <1> QED BY <1>1, <1>3, <1>5, <1>6, OneUpload DEF Chunked!UploadsAssumption

\* The chunk is acknowledged: the session has gone past it, and the file has it.
LEMMA AcceptanceKeeps ==
    ASSUME Chunked!UploadsAssumption, UploadInv, NEW h \in handlers, NEW u \in Uploads, h.upload = u,
           Chunked!Respond(h, "ok"), UNCHANGED <<target, disk, puts, restarts>>,
           sessions' \in [Uploads -> {None} \cup [expected : 0..NChunks, listed : BOOLEAN]],
           \A v \in Uploads : v # u => sessions'[v] = sessions[v],
           sessions'[u] # None, sessions'[u].expected = clients[u].chunk + 1,
           sessions'[u].listed = (sessions'[u].expected < NChunks),
           Mine(u, 0..clients[u].chunk)
    PROVE  UploadInv'
  <1>0. PICK c : c = clients[u].chunk
    OBVIOUS
  <1>1. /\ handlers' \subseteq handlers /\ \A g \in handlers' : g.upload # u
        /\ \A g : g.upload # u => (g \in handlers' <=> g \in handlers)
        /\ \A v \in Uploads : v # u => clients'[v] = clients[v]
        /\ clients' \in [Uploads -> [at : ClientPlaces, chunk : Chunked!Chunks, tries : Nat]]
        /\ clients'[u] = clients[u] \/ clients'[u] = Chunked!After(clients[u], "ok")
    BY Responds
  <1>2. /\ clients[u].at = "waiting" /\ c \in Nat /\ c < NChunks /\ NChunks \in Nat
        /\ clients[u] \in [at : ClientPlaces, chunk : Chunked!Chunks, tries : Nat]
    BY <1>0 DEF UploadInv, UploadTypes, Agrees, Serves, Chunked!Chunks, Chunked!UploadsAssumption
  <1>3. \/ clients'[u] = clients[u]
        \/ c + 1 < NChunks /\ clients'[u] = [at |-> "sending", chunk |-> c + 1, tries |-> 0]
        \/ c + 1 = NChunks /\ clients'[u] = [clients[u] EXCEPT !.at = "done"]
    BY <1>0, <1>1, <1>2 DEF Chunked!After
  <1>4. UploadTypes'
    BY <1>1 DEF UploadInv, UploadTypes
  <1>5. Mine(u, 0..c)' /\ (c + 1 = NChunks => 0..c = Chunked!Chunks)
    BY <1>0, <1>2 DEF Mine, Chunked!Chunks
  <1>6. SessionAgrees(u)'
    <2>1. clients'[u].chunk \in {c, c + 1}
      BY <1>0, <1>2, <1>3
    <2>2. 0..(sessions'[u].expected - 1) = 0..c
      BY <1>0, <1>2
    <2>3. sessions'[u].expected \in {clients'[u].chunk, clients'[u].chunk + 1}
      BY <1>0, <1>2, <1>3
    <2> QED BY <1>2, <1>5, <2>2, <2>3 DEF SessionAgrees
  <1>7. ClientAgrees(u)'
    <2>1. /\ clients'[u].at \in {"waiting", "sending", "done"}
          /\ clients'[u].at = "done" => c + 1 = NChunks
      BY <1>2, <1>3
    <2> QED BY <1>5, <2>1 DEF ClientAgrees
  <1>8. Agrees(u)'
    BY <1>1, <1>6, <1>7 DEF Agrees
  <1>9. \A a \in Chunked!Actors : Kept(a)
    BY DEF Kept
  <1> QED BY <1>1, <1>4, <1>8, <1>9, OneUpload DEF Chunked!UploadsAssumption

\* The request goes on; g is its handler then.
LEMMA GoesOn ==
    ASSUME Chunked!UploadsAssumption, UploadInv, NEW h \in handlers, NEW u \in Uploads, h.upload = u,
           NEW g, IsHandler(g), g.upload = u, handlers' = (handlers \ {h}) \cup {g},
           UNCHANGED <<target, clients, puts, restarts>>,
           disk' \in [Paths -> {None} \cup [by : Chunked!Actors, chunks : SUBSET Chunked!Chunks]],
           sessions' \in [Uploads -> {None} \cup [expected : 0..NChunks, listed : BOOLEAN]],
           \A v \in Uploads : v # u => sessions'[v] = sessions[v],
           \A a \in Chunked!Actors : a # u => Kept(a),
           Serves(u, g)', SessionAgrees(u)', ClientAgrees(u)'
    PROVE  UploadInv'
  <1>1. \A k \in handlers : k.upload = u => k = h
    BY DEF UploadInv
  <1>2. /\ \A k : k.upload # u => (k \in handlers' <=> k \in handlers)
        /\ \A k \in handlers' : k.upload = u => k = g
    BY <1>1
  <1>3. UploadTypes'
    BY DEF UploadInv, UploadTypes
  <1>4. Agrees(u)'
    BY <1>2 DEF Agrees
  <1> QED BY <1>2, <1>3, <1>4, OneUpload DEF Chunked!UploadsAssumption

\* What the handlers of an upload know of it.
LEMMA Known ==
    ASSUME Chunked!UploadsAssumption, UploadInv, NEW h \in handlers
    PROVE  \E u \in Uploads, c \in Chunked!Chunks :
             /\ h.upload = u /\ clients[u].chunk = c /\ h.chunk = c /\ IsHandler(h)
             /\ Serves(u, h) /\ SessionAgrees(u) /\ ClientAgrees(u)
             /\ \A g \in handlers : g.upload = u => g = h
             /\ sessions[u] # None => /\ sessions[u] \in [expected : 0..NChunks, listed : BOOLEAN]
                                      /\ sessions[u].expected \in 0..NChunks
             /\ c \in Nat /\ c < NChunks /\ NChunks \in Nat \ {0}
  <1>1. IsHandler(h)
    BY DEF UploadInv, UploadTypes
  <1>2. PICK u \in Uploads : h.upload = u
    BY <1>1 DEF IsHandler
  <1>3. PICK c \in Chunked!Chunks : c = clients[u].chunk
    BY DEF UploadInv, UploadTypes
  <1>4. Serves(u, h) /\ SessionAgrees(u) /\ ClientAgrees(u) /\ h.chunk = c
    BY <1>2, <1>3 DEF UploadInv, Agrees, Serves
  <1>5. sessions[u] # None => /\ sessions[u] \in [expected : 0..NChunks, listed : BOOLEAN]
                              /\ sessions[u].expected \in 0..NChunks
    BY DEF UploadInv, UploadTypes
  <1>6. c \in Nat /\ c < NChunks /\ NChunks \in Nat \ {0}
    BY DEF Chunked!Chunks, Chunked!UploadsAssumption
  <1>7. \A g \in handlers : g.upload = u => g = h
    BY <1>2 DEF UploadInv
  <1> QED BY <1>1, <1>2, <1>3, <1>4, <1>5, <1>6, <1>7

LEMMA FindKeeps ==
    ASSUME Chunked!UploadsAssumption, UploadInv, NEW h \in handlers, Chunked!FindSession(h)
    PROVE  UploadInv'
  <1>1. PICK u \in Uploads, c \in Chunked!Chunks :
           /\ h.upload = u /\ clients[u].chunk = c /\ h.chunk = c /\ IsHandler(h)
           /\ Serves(u, h) /\ SessionAgrees(u) /\ ClientAgrees(u)
           /\ \A g \in handlers : g.upload = u => g = h
           /\ sessions[u] # None => /\ sessions[u] \in [expected : 0..NChunks, listed : BOOLEAN]
                                    /\ sessions[u].expected \in 0..NChunks
           /\ c \in Nat /\ c < NChunks /\ NChunks \in Nat \ {0}
    BY Known
  <1>2. h.at = "begun" /\ UNCHANGED <<target, disk, sessions, puts, restarts>>
    BY DEF Chunked!FindSession
  <1>3. \A a \in Chunked!Actors : Kept(a)
    BY <1>2 DEF Kept
  <1>4. /\ disk' \in [Paths -> {None} \cup [by : Chunked!Actors, chunks : SUBSET Chunked!Chunks]]
        /\ sessions' \in [Uploads -> {None} \cup [expected : 0..NChunks, listed : BOOLEAN]]
    BY <1>2 DEF UploadInv, UploadTypes
  <1>5. sessions[u] # None => Mine(u, 0..(sessions[u].expected - 1))
    BY <1>1, <1>2 DEF SessionAgrees
  <1>6. ASSUME NEW where \in {"writing", "measuring"}, Chunked!Goto(h, where),
               where = "writing" => (sessions[u] # None /\ sessions[u].listed /\ sessions[u].expected = c),
               where = "measuring" => (c = 0 /\ (sessions[u] = None \/ ~sessions[u].listed))
        PROVE  UploadInv'
    <2>1. PICK g : g = [h EXCEPT !.at = where]
      OBVIOUS
    <2>2. /\ handlers' = (handlers \ {h}) \cup {g} /\ UNCHANGED clients
          /\ IsHandler(g) /\ g.upload = u /\ g.chunk = c /\ g.at = where
      BY <1>1, <1>6, <2>1, HandlerAt DEF Chunked!Goto
    <2>3. Serves(u, g)'
      BY <1>1, <1>2, <1>6, <2>2 DEF Serves
    <2>4. SessionAgrees(u)' /\ ClientAgrees(u)'
      BY <1>1, <1>2, <1>5, <2>2 DEF SessionAgrees, ClientAgrees, Mine
    <2> QED BY <1>1, <1>2, <1>3, <1>4, <2>2, <2>3, <2>4, GoesOn
  <1>7. CASE sessions[u] # None /\ sessions[u].listed
    <2>1. /\ sessions[u].expected \in {c, c + 1} /\ sessions[u].expected < NChunks
          /\ Chunked!Placed(h, sessions[u])
      BY <1>1, <1>7 DEF SessionAgrees, Chunked!FindSession
    <2>2. CASE sessions[u].expected = c
      <3>1. Chunked!Goto(h, "writing")
        BY <1>1, <2>1, <2>2 DEF Chunked!Placed
      <3> QED BY <1>6, <1>7, <2>2, <3>1
    <2>3. CASE sessions[u].expected = c + 1
      <3>1. Chunked!Respond(h, "ok")
        BY <1>1, <2>1, <2>3 DEF Chunked!Placed
      <3>2. Mine(u, 0..c) /\ sessions'[u].expected = c + 1 /\ sessions'[u] # None
            /\ sessions'[u].listed = (sessions'[u].expected < NChunks)
        <4>1. 0..(sessions[u].expected - 1) = 0..c
          BY <1>1, <2>3
        <4> QED BY <1>1, <1>2, <1>5, <1>7, <2>3, <4>1 DEF SessionAgrees
      <3> QED BY <1>1, <1>2, <1>4, <3>1, <3>2, AcceptanceKeeps
    <2> QED BY <2>1, <2>2, <2>3
  <1>8. CASE ~(sessions[u] # None /\ sessions[u].listed)
    <2>1. CASE c = 0
      <3>1. Chunked!Goto(h, "measuring")
        BY <1>1, <1>8, <2>1 DEF Chunked!FindSession
      <3> QED BY <1>6, <1>8, <2>1, <3>1
    <2>2. CASE c # 0
      <3>1. Chunked!Respond(h, "restart")
        BY <1>1, <1>8, <2>2 DEF Chunked!FindSession
      <3>2. ~(restarts = 0 /\ c \in 1..(NChunks - 2))
        BY <1>1, <1>8, <2>2 DEF SessionAgrees, ClientAgrees
      <3> QED BY <1>1, <1>2, <3>1, <3>2, RefusalKeeps
    <2> QED BY <2>1, <2>2
  <1> QED BY <1>7, <1>8

\* The quota is looked at, before anything is made.
LEMMA QuotaKeeps ==
    ASSUME Chunked!UploadsAssumption, UploadInv, NEW h \in handlers,
           Chunked!Measure(h) \/ Chunked!TestQuota(h)
    PROVE  UploadInv'
  <1>1. PICK u \in Uploads, c \in Chunked!Chunks :
           /\ h.upload = u /\ clients[u].chunk = c /\ h.chunk = c /\ IsHandler(h)
           /\ Serves(u, h) /\ SessionAgrees(u) /\ ClientAgrees(u)
           /\ \A g \in handlers : g.upload = u => g = h
           /\ sessions[u] # None => /\ sessions[u] \in [expected : 0..NChunks, listed : BOOLEAN]
                                    /\ sessions[u].expected \in 0..NChunks
           /\ c \in Nat /\ c < NChunks /\ NChunks \in Nat \ {0}
    BY Known
  <1>2. h.at \in {"measuring", "testing"} /\ UNCHANGED <<target, disk, sessions, puts, restarts>>
    BY DEF Chunked!Measure, Chunked!TestQuota
  <1>3. c = 0 /\ (sessions[u] = None \/ ~sessions[u].listed)
    BY <1>1, <1>2 DEF Serves
  <1>4. CASE Chunked!Respond(h, "quota")
    BY <1>1, <1>2, <1>3, <1>4, RefusalKeeps
  <1>5. ASSUME NEW g, IsHandler(g), g.upload = u, g.chunk = c, g.at \in {"testing", "opening"},
               handlers' = (handlers \ {h}) \cup {g}, UNCHANGED clients
        PROVE  UploadInv'
    <2>1. \A a \in Chunked!Actors : Kept(a)
      BY <1>2 DEF Kept
    <2>2. /\ disk' \in [Paths -> {None} \cup [by : Chunked!Actors, chunks : SUBSET Chunked!Chunks]]
          /\ sessions' \in [Uploads -> {None} \cup [expected : 0..NChunks, listed : BOOLEAN]]
      BY <1>2 DEF UploadInv, UploadTypes
    <2>3. Serves(u, g)'
      BY <1>1, <1>2, <1>3, <1>5 DEF Serves
    <2>4. SessionAgrees(u)' /\ ClientAgrees(u)'
      BY <1>1, <1>2, <1>5 DEF SessionAgrees, ClientAgrees, Mine
    <2> QED BY <1>1, <1>2, <1>5, <2>1, <2>2, <2>3, <2>4, GoesOn
  <1>6. CASE Chunked!Measure(h)
    <2>1. PICK f, g : f = [h EXCEPT !.at = "testing"] /\ g = [f EXCEPT !.used = Chunked!fileUsage]
      OBVIOUS
    <2>2. handlers' = (handlers \ {h}) \cup {g} /\ UNCHANGED clients
      BY <1>6, <2>1 DEF Chunked!Measure
    <2>3. IsHandler(f) /\ f.upload = u /\ f.chunk = c /\ f.at = "testing"
      BY <1>1, <2>1, HandlerAt
    <2>4. ASSUME NEW x, g = [f EXCEPT !.used = x]
          PROVE  IsHandler(g) /\ g.upload = u /\ g.chunk = c /\ g.at = "testing"
      BY <2>3, <2>4, HandlerUsed
    <2>5. IsHandler(g) /\ g.upload = u /\ g.chunk = c /\ g.at = "testing"
      BY <2>1, <2>4
    <2> QED BY <1>5, <2>2, <2>5
  <1>7. CASE Chunked!TestQuota(h) /\ ~Chunked!Respond(h, "quota")
    <2>1. PICK f, g : f = [h EXCEPT !.at = "opening"] /\ g = [f EXCEPT !.reserved = reserved]
      OBVIOUS
    <2>2. handlers' = (handlers \ {h}) \cup {g} /\ UNCHANGED clients
      BY <1>7, <2>1 DEF Chunked!TestQuota
    <2>3. IsHandler(f) /\ f.upload = u /\ f.chunk = c /\ f.at = "opening"
      BY <1>1, <2>1, HandlerAt
    <2>4. ASSUME NEW x, g = [f EXCEPT !.reserved = x]
          PROVE  IsHandler(g) /\ g.upload = u /\ g.chunk = c /\ g.at = "opening"
      BY <2>3, <2>4, HandlerReserved
    <2>5. IsHandler(g) /\ g.upload = u /\ g.chunk = c /\ g.at = "opening"
      BY <2>1, <2>4
    <2> QED BY <1>5, <2>2, <2>5
  <1> QED BY <1>4, <1>6, <1>7

\* The file is created, exclusively: nothing was there, so no session was.
LEMMA OpenKeeps ==
    ASSUME Chunked!UploadsAssumption, UploadInv, NEW h \in handlers, Chunked!Open(h)
    PROVE  UploadInv'
  <1>1. PICK u \in Uploads, c \in Chunked!Chunks :
           /\ h.upload = u /\ clients[u].chunk = c /\ h.chunk = c /\ IsHandler(h)
           /\ Serves(u, h) /\ SessionAgrees(u) /\ ClientAgrees(u)
           /\ \A g \in handlers : g.upload = u => g = h
           /\ sessions[u] # None => /\ sessions[u] \in [expected : 0..NChunks, listed : BOOLEAN]
                                    /\ sessions[u].expected \in 0..NChunks
           /\ c \in Nat /\ c < NChunks /\ NChunks \in Nat \ {0}
    BY Known
  <1>2. h.at = "opening" /\ UNCHANGED <<target, sessions, puts, restarts>>
    BY DEF Chunked!Open
  <1>3. c = 0 /\ (sessions[u] = None \/ ~sessions[u].listed)
    BY <1>1, <1>2 DEF Serves
  <1>4. CASE Chunked!Respond(h, "exists") /\ UNCHANGED disk
    BY <1>1, <1>2, <1>3, <1>4, RefusalKeeps
  <1>5. CASE disk[target[u]] = None
    <2>1. PICK g : g = [h EXCEPT !.at = "created"]
      OBVIOUS
    <2>2. /\ handlers' = (handlers \ {h}) \cup {g} /\ UNCHANGED clients
          /\ IsHandler(g) /\ g.upload = u /\ g.chunk = c /\ g.at = "created"
      BY <1>1, <1>5, <2>1, HandlerAt DEF Chunked!Open, Chunked!Goto, Chunked!Creatable
    <2>3. disk' = [disk EXCEPT ![target[u]] = [by |-> u, chunks |-> {}]]
      BY <1>1, <1>5 DEF Chunked!Open, Chunked!Create, Chunked!Creatable
    <2>4. /\ target[u] \in Paths /\ target \in [Chunked!Actors -> Paths] /\ u \in Chunked!Actors
          /\ disk \in [Paths -> {None} \cup [by : Chunked!Actors, chunks : SUBSET Chunked!Chunks]]
      BY DEF UploadInv, UploadTypes, Chunked!Actors
    <2>5. [by |-> u, chunks |-> {}] \in [by : Chunked!Actors, chunks : SUBSET Chunked!Chunks]
      BY <2>4
    <2>6. [by |-> u, chunks |-> {}] # None
      BY <2>5 DEF Chunked!UploadsAssumption, Chunked!Actors, Chunked!Chunks
    <2>7. sessions[u] = None
      <3>1. sessions[u] # None => Mine(u, 0..(sessions[u].expected - 1))
        BY <1>1, <1>2 DEF SessionAgrees
      <3> QED BY <1>5, <3>1 DEF Mine
    <2>8. Mine(u, {})'
      BY <1>2, <2>3, <2>4, <2>6 DEF Mine
    <2>9. Serves(u, g)'
      BY <1>1, <1>2, <1>3, <2>2, <2>7, <2>8 DEF Serves
    <2>10. SessionAgrees(u)' /\ ClientAgrees(u)'
      BY <1>1, <1>2, <2>2, <2>7 DEF SessionAgrees, ClientAgrees, Serves
    <2>11. \A a \in Chunked!Actors : Kept(a)
      BY <1>5, <2>3, <2>4 DEF Kept
    <2>12. /\ disk' \in [Paths -> {None} \cup [by : Chunked!Actors, chunks : SUBSET Chunked!Chunks]]
           /\ sessions' \in [Uploads -> {None} \cup [expected : 0..NChunks, listed : BOOLEAN]]
      BY <1>2, <2>3, <2>4, <2>5 DEF UploadInv, UploadTypes
    <2> QED BY <1>1, <1>2, <2>2, <2>9, <2>10, <2>11, <2>12, GoesOn
  <1> QED BY <1>1, <1>4, <1>5 DEF Chunked!Open, Chunked!Creatable

LEMMA BeginKeeps ==
    ASSUME Chunked!UploadsAssumption, UploadInv, NEW h \in handlers, Chunked!BeginSession(h)
    PROVE  UploadInv'
  <1>1. PICK u \in Uploads, c \in Chunked!Chunks :
           /\ h.upload = u /\ clients[u].chunk = c /\ h.chunk = c /\ IsHandler(h)
           /\ Serves(u, h) /\ SessionAgrees(u) /\ ClientAgrees(u)
           /\ \A g \in handlers : g.upload = u => g = h
           /\ sessions[u] # None => /\ sessions[u] \in [expected : 0..NChunks, listed : BOOLEAN]
                                    /\ sessions[u].expected \in 0..NChunks
           /\ c \in Nat /\ c < NChunks /\ NChunks \in Nat \ {0}
    BY Known
  <1>2. h.at = "created" /\ UNCHANGED <<target, disk, puts, restarts>>
    BY DEF Chunked!BeginSession
  <1>3. c = 0 /\ sessions[u] = None /\ Mine(u, {}) /\ clients[u].at = "waiting"
    BY <1>1, <1>2 DEF Serves
  <1>4. PICK g : g = [h EXCEPT !.at = "writing"]
    OBVIOUS
  <1>5. /\ handlers' = (handlers \ {h}) \cup {g} /\ UNCHANGED clients
        /\ IsHandler(g) /\ g.upload = u /\ g.chunk = c /\ g.at = "writing"
    BY <1>1, <1>4, HandlerAt DEF Chunked!BeginSession, Chunked!Goto
  <1> DEFINE new == [expected |-> 0, listed |-> TRUE]
  <1>6. sessions' = [sessions EXCEPT ![u] = new]
    BY <1>1 DEF Chunked!BeginSession
  <1>7. new \in [expected : 0..NChunks, listed : BOOLEAN] /\ new.expected = 0 /\ new.listed = TRUE
    BY <1>1
  <1>8. new # None
    BY <1>7 DEF Chunked!UploadsAssumption
  <1> HIDE DEF new
  <1>9. /\ disk' \in [Paths -> {None} \cup [by : Chunked!Actors, chunks : SUBSET Chunked!Chunks]]
        /\ sessions' \in [Uploads -> {None} \cup [expected : 0..NChunks, listed : BOOLEAN]]
        /\ \A v \in Uploads : v # u => sessions'[v] = sessions[v]
        /\ sessions'[u] = new
    BY <1>2, <1>6, <1>7 DEF UploadInv, UploadTypes
  <1>10. Serves(u, g)'
    BY <1>1, <1>3, <1>5, <1>7, <1>8, <1>9 DEF Serves
  <1>11. SessionAgrees(u)'
    <2>1. 0..(sessions'[u].expected - 1) = {} /\ Mine(u, {})'
      BY <1>2, <1>3, <1>7, <1>9 DEF Mine
    <2>2. clients'[u].chunk = 0
      BY <1>1, <1>3, <1>5
    <2> QED BY <1>1, <1>7, <1>9, <2>1, <2>2 DEF SessionAgrees
  <1>12. ClientAgrees(u)'
    BY <1>1, <1>3, <1>5 DEF ClientAgrees
  <1>13. \A a \in Chunked!Actors : Kept(a)
    BY <1>2 DEF Kept
  <1> QED BY <1>1, <1>2, <1>5, <1>9, <1>10, <1>11, <1>12, <1>13, GoesOn

LEMMA WriteKeeps ==
    ASSUME Chunked!UploadsAssumption, UploadInv, NEW h \in handlers, Chunked!WriteChunk(h)
    PROVE  UploadInv'
  <1>1. PICK u \in Uploads, c \in Chunked!Chunks :
           /\ h.upload = u /\ clients[u].chunk = c /\ h.chunk = c /\ IsHandler(h)
           /\ Serves(u, h) /\ SessionAgrees(u) /\ ClientAgrees(u)
           /\ \A g \in handlers : g.upload = u => g = h
           /\ sessions[u] # None => /\ sessions[u] \in [expected : 0..NChunks, listed : BOOLEAN]
                                    /\ sessions[u].expected \in 0..NChunks
           /\ c \in Nat /\ c < NChunks /\ NChunks \in Nat \ {0}
    BY Known
  <1>2. h.at = "writing" /\ UNCHANGED <<target, sessions, puts, restarts>>
    BY DEF Chunked!WriteChunk
  <1>3. /\ sessions[u] # None /\ sessions[u].listed /\ sessions[u].expected = c
        /\ clients[u].at = "waiting"
    BY <1>1, <1>2 DEF Serves
  <1>4. Mine(u, 0..(c - 1))
    <2>1. Mine(u, 0..(sessions[u].expected - 1))
      BY <1>1, <1>2, <1>3 DEF SessionAgrees
    <2> QED BY <1>3, <2>1
  <1>5. PICK g : g = [h EXCEPT !.at = "written"]
    OBVIOUS
  <1>6. /\ handlers' = (handlers \ {h}) \cup {g} /\ UNCHANGED clients
        /\ IsHandler(g) /\ g.upload = u /\ g.chunk = c /\ g.at = "written"
    BY <1>1, <1>5, HandlerAt DEF Chunked!WriteChunk, Chunked!Goto
  <1>7. /\ target[u] \in Paths /\ target \in [Chunked!Actors -> Paths] /\ u \in Chunked!Actors
        /\ disk \in [Paths -> {None} \cup [by : Chunked!Actors, chunks : SUBSET Chunked!Chunks]]
    BY DEF UploadInv, UploadTypes, Chunked!Actors
  <1>8. disk' = [disk EXCEPT ![target[u]] = [by |-> u, chunks |-> 0..c]]
    <2>1. disk' = [disk EXCEPT ![target[u]].chunks = @ \cup {c}]
      BY <1>1 DEF Chunked!WriteChunk
    <2>2. disk[target[u]] = [by |-> u, chunks |-> 0..(c - 1)]
      BY <1>4 DEF Mine
    <2>3. 0..c = (0..(c - 1)) \cup {c}
      BY <1>1
    <2>4. ASSUME NEW f, f = [by |-> u, chunks |-> 0..(c - 1)]
          PROVE  [f EXCEPT !.chunks = @ \cup {c}] = [by |-> u, chunks |-> 0..c]
      <3>1. f.chunks \cup {c} = 0..c
        BY <2>3, <2>4
      <3>2. \A chunks : [f EXCEPT !.chunks = chunks] = [by |-> u, chunks |-> chunks]
        BY <2>4
      <3> QED BY <3>1, <3>2
    <2>5. disk' = [disk EXCEPT ![target[u]] = [disk[target[u]] EXCEPT !.chunks = @ \cup {c}]]
      BY <2>1
    <2> QED BY <2>2, <2>4, <2>5
  <1>9. [by |-> u, chunks |-> 0..c] \in [by : Chunked!Actors, chunks : SUBSET Chunked!Chunks]
    BY <1>1, <1>7 DEF Chunked!Chunks
  <1>10. [by |-> u, chunks |-> 0..c] # None
    BY <1>9 DEF Chunked!UploadsAssumption, Chunked!Actors, Chunked!Chunks
  <1>11. Mine(u, 0..c)'
    BY <1>2, <1>7, <1>8, <1>10 DEF Mine
  <1>12. Serves(u, g)'
    <2>1. clients'[u].chunk = c
      BY <1>1, <1>6
    <2> QED BY <1>2, <1>3, <1>6, <1>11, <2>1 DEF Serves
  <1>13. SessionAgrees(u)' /\ ClientAgrees(u)'
    BY <1>1, <1>2, <1>3, <1>6 DEF SessionAgrees, ClientAgrees
  <1>14. ASSUME NEW a \in Chunked!Actors, a # u PROVE Kept(a)
    <2>1. (disk[target[a]] # None /\ disk[target[a]].by = a) => target[a] # target[u]
      BY <1>4, <1>14 DEF Mine
    <2> QED BY <1>7, <1>8, <2>1 DEF Kept
  <1>15. /\ disk' \in [Paths -> {None} \cup [by : Chunked!Actors, chunks : SUBSET Chunked!Chunks]]
         /\ sessions' \in [Uploads -> {None} \cup [expected : 0..NChunks, listed : BOOLEAN]]
    BY <1>2, <1>7, <1>8, <1>9 DEF UploadInv, UploadTypes
  <1> QED BY <1>1, <1>2, <1>6, <1>12, <1>13, <1>14, <1>15, GoesOn

\* The chunk could not be written, and the client hears nothing it could use.
LEMMA FailKeeps ==
    ASSUME Chunked!UploadsAssumption, UploadInv, NEW h \in handlers, Chunked!FailChunk(h)
    PROVE  UploadInv'
  <1>1. PICK u \in Uploads, c \in Chunked!Chunks :
           /\ h.upload = u /\ clients[u].chunk = c /\ h.chunk = c /\ IsHandler(h)
           /\ Serves(u, h) /\ SessionAgrees(u) /\ ClientAgrees(u)
           /\ \A g \in handlers : g.upload = u => g = h
           /\ sessions[u] # None => /\ sessions[u] \in [expected : 0..NChunks, listed : BOOLEAN]
                                    /\ sessions[u].expected \in 0..NChunks
           /\ c \in Nat /\ c < NChunks /\ NChunks \in Nat \ {0}
    BY Known
  <1>2. /\ h.at = "writing" /\ UNCHANGED <<target, disk, sessions, clients, puts, restarts>>
        /\ handlers' = handlers \ {h}
    BY DEF Chunked!FailChunk
  <1>3. /\ \A g : g.upload # u => (g \in handlers' <=> g \in handlers)
        /\ \A g \in handlers' : g.upload # u
    BY <1>1, <1>2
  <1>4. UploadTypes'
    BY <1>2 DEF UploadInv, UploadTypes
  <1>5. SessionAgrees(u)' /\ ClientAgrees(u)'
    BY <1>1, <1>2 DEF SessionAgrees, ClientAgrees, Mine
  <1>6. Agrees(u)'
    BY <1>3, <1>5 DEF Agrees
  <1>7. \A a \in Chunked!Actors : Kept(a)
    BY <1>2 DEF Kept
  <1> QED BY <1>2, <1>3, <1>4, <1>6, <1>7, OneUpload DEF Chunked!UploadsAssumption

LEMMA EndKeeps ==
    ASSUME Chunked!UploadsAssumption, UploadInv, NEW h \in handlers, Chunked!EndChunk(h)
    PROVE  UploadInv'
  <1>1. PICK u \in Uploads, c \in Chunked!Chunks :
           /\ h.upload = u /\ clients[u].chunk = c /\ h.chunk = c /\ IsHandler(h)
           /\ Serves(u, h) /\ SessionAgrees(u) /\ ClientAgrees(u)
           /\ \A g \in handlers : g.upload = u => g = h
           /\ sessions[u] # None => /\ sessions[u] \in [expected : 0..NChunks, listed : BOOLEAN]
                                    /\ sessions[u].expected \in 0..NChunks
           /\ c \in Nat /\ c < NChunks /\ NChunks \in Nat \ {0}
    BY Known
  <1>2. h.at = "written" /\ UNCHANGED <<target, disk, puts, restarts>> /\ Chunked!Respond(h, "ok")
    BY DEF Chunked!EndChunk
  <1>3. sessions[u] # None /\ sessions[u].listed = TRUE /\ sessions[u].expected = c /\ Mine(u, 0..c)
    BY <1>1, <1>2 DEF Serves
  <1> DEFINE new == [expected |-> c + 1, listed |-> c + 1 < NChunks]
  <1>4. sessions' = [sessions EXCEPT ![u] = new]
    <2>1. sessions' = [sessions EXCEPT ![u] =
             [expected |-> c + 1, listed |-> sessions[u].listed /\ ~(c + 1 >= NChunks)]]
      BY <1>1, <1>3 DEF Chunked!EndChunk, Chunked!Complete
    <2>2. (sessions[u].listed /\ ~(c + 1 >= NChunks)) = (c + 1 < NChunks)
      BY <1>1, <1>3
    <2> QED BY <2>1, <2>2
  <1>5. /\ new \in [expected : 0..NChunks, listed : BOOLEAN]
        /\ new.expected = c + 1 /\ new.listed = (c + 1 < NChunks)
    BY <1>1
  <1>6. new # None
    BY <1>5 DEF Chunked!UploadsAssumption
  <1> HIDE DEF new
  <1>7. /\ sessions' \in [Uploads -> {None} \cup [expected : 0..NChunks, listed : BOOLEAN]]
        /\ \A v \in Uploads : v # u => sessions'[v] = sessions[v]
        /\ sessions'[u] = new
    BY <1>4, <1>5 DEF UploadInv, UploadTypes
  <1> QED BY <1>1, <1>2, <1>3, <1>5, <1>6, <1>7, AcceptanceKeeps

\* An upload in one request.
LEMMA OnePut ==
    ASSUME UploadInv, NEW p \in Puts, Uploads \cap Puts = {},
           UNCHANGED <<target, sessions, handlers, clients, restarts>>,
           disk' \in [Paths -> {None} \cup [by : Chunked!Actors, chunks : SUBSET Chunked!Chunks]],
           \A a \in Chunked!Actors : a # p => Kept(a),
           puts' = [q \in Puts |-> puts'[q]], \A q \in Puts : q # p => puts'[q] = puts[q],
           DOMAIN puts'[p] = {"at", "used"}, PutAgrees(p)'
    PROVE  UploadInv'
  <1>1. \A u \in Uploads : Agrees(u)'
    BY OtherAgrees DEF UploadInv, Chunked!Actors
  <1>2. \A q \in Puts : PutAgrees(q)'
    BY OtherPutAgrees DEF UploadInv, Chunked!Actors
  <1>3. UploadTypes'
    BY DEF UploadInv, UploadTypes
  <1> QED BY <1>1, <1>2, <1>3 DEF UploadInv

\* Its steps that leave the files alone.
LEMMA PutWaits ==
    ASSUME Chunked!UploadsAssumption, UploadInv, NEW p \in Puts,
           Chunked!MeasurePut(p) \/ Chunked!ReservePut(p)
    PROVE  UploadInv'
  <1>1. /\ puts = [q \in Puts |-> puts[q]] /\ DOMAIN puts[p] = {"at", "used"}
        /\ disk \in [Paths -> {None} \cup [by : Chunked!Actors, chunks : SUBSET Chunked!Chunks]]
    BY DEF UploadInv, UploadTypes
  <1>2. /\ UNCHANGED <<target, disk, sessions, handlers, clients, restarts>>
        /\ puts' = [q \in Puts |-> puts'[q]] /\ \A q \in Puts : q # p => puts'[q] = puts[q]
        /\ DOMAIN puts'[p] = {"at", "used"} /\ puts'[p].at \in {"testing", "refused", "opening"}
    <2>1. CASE Chunked!MeasurePut(p)
      BY <1>1, <2>1 DEF Chunked!MeasurePut
    <2>2. CASE Chunked!ReservePut(p)
      BY <1>1, <2>2 DEF Chunked!ReservePut, Chunked!Put
    <2> QED BY <2>1, <2>2
  <1>3. PutAgrees(p)' /\ \A a \in Chunked!Actors : Kept(a)
    BY <1>2 DEF PutAgrees, Kept
  <1> QED BY <1>1, <1>2, <1>3, OnePut DEF Chunked!UploadsAssumption

LEMMA PutWrites ==
    ASSUME Chunked!UploadsAssumption, UploadInv, NEW p \in Puts,
           Chunked!OpenPut(p) \/ Chunked!Receive(p) \/ Chunked!EndPut(p)
    PROVE  UploadInv'
  <1> DEFINE Recs == [by : Chunked!Actors, chunks : SUBSET Chunked!Chunks]
  <1>1. /\ puts = [q \in Puts |-> puts[q]] /\ DOMAIN puts[p] = {"at", "used"}
        /\ disk \in [Paths -> {None} \cup Recs]
        /\ target[p] \in Paths /\ p \in Chunked!Actors
        /\ UNCHANGED <<target, sessions, handlers, clients, restarts>>
    BY DEF UploadInv, UploadTypes, Chunked!Actors, Chunked!OpenPut, Chunked!Receive, Chunked!EndPut
  <1>2. None \notin Recs
    BY DEF Chunked!UploadsAssumption, Chunked!Actors, Chunked!Chunks
  <1>3. \A at : Chunked!Put(p, at) =>
           /\ puts' = [q \in Puts |-> puts'[q]] /\ \A q \in Puts : q # p => puts'[q] = puts[q]
           /\ DOMAIN puts'[p] = {"at", "used"} /\ puts'[p].at = at
    BY <1>1 DEF Chunked!Put
  <1>4. \A f \in Recs \cup {None} : disk' = [disk EXCEPT ![target[p]] = f] =>
           (disk' \in [Paths -> {None} \cup Recs] /\ disk'[target[p]] = f)
    BY <1>1
  <1>5. ASSUME NEW f, disk' = [disk EXCEPT ![target[p]] = f],
               disk[target[p]] = None \/ disk[target[p]].by = p
        PROVE  \A a \in Chunked!Actors : a # p => Kept(a)
    BY <1>1, <1>5 DEF Kept, UploadInv, UploadTypes
  <1>6. CASE Chunked!OpenPut(p)
    <2> DEFINE f == [by |-> p, chunks |-> {}]
    <2>1. f \in Recs /\ f.by = p /\ f # None
      BY <1>1, <1>2
    <2>2. CASE disk[target[p]] = None
      <3>1. disk' = [disk EXCEPT ![target[p]] = f] /\ Chunked!Put(p, "receiving")
        BY <1>6, <2>2 DEF Chunked!OpenPut, Chunked!Creatable, Chunked!Create
      <3>2. puts'[p].at = "receiving" /\ disk'[target'[p]] = f
        BY <1>1, <1>3, <1>4, <2>1, <3>1
      <3>3. PutAgrees(p)'
        BY <2>1, <3>2 DEF PutAgrees
      <3> QED BY <1>1, <1>3, <1>4, <1>5, <2>1, <2>2, <3>1, <3>3, OnePut DEF Chunked!UploadsAssumption
    <2>3. CASE disk[target[p]] # None
      <3>1. UNCHANGED disk /\ Chunked!Put(p, "refused")
        BY <1>6, <2>3 DEF Chunked!OpenPut, Chunked!Creatable
      <3>2. PutAgrees(p)' /\ \A a \in Chunked!Actors : Kept(a)
        BY <1>3, <3>1 DEF PutAgrees, Kept
      <3> QED BY <1>1, <1>3, <3>1, <3>2, OnePut DEF Chunked!UploadsAssumption
    <2> QED BY <2>2, <2>3
  <1>7. ASSUME puts[p].at = "receiving"
        PROVE  disk[target[p]] # None /\ disk[target[p]] \in Recs /\ disk[target[p]].by = p
    BY <1>1, <1>7 DEF UploadInv, PutAgrees
  <1>8. CASE Chunked!Receive(p)
    <2>1. PICK f \in Recs : f = disk[target[p]] /\ f.by = p
      BY <1>7, <1>8 DEF Chunked!Receive
    <2>2. PICK g : disk' = [disk EXCEPT ![target[p]] = g] /\ g \in Recs /\ g.by = p
      <3>1. PICK c : disk' = [disk EXCEPT ![target[p]].chunks = @ \cup {c}] /\ c \in Chunked!Chunks
        <4>1. PICK c : /\ c = Chunked!Cardinality(disk[target[p]].chunks) /\ c < NChunks
                       /\ disk' = [disk EXCEPT ![target[p]].chunks = @ \cup {c}]
          BY <1>8 DEF Chunked!Receive
        <4>2. c = Cardinality(f.chunks)
          BY <2>1, <4>1, ChunkedCardinality
        <4>3. IsFiniteSet(f.chunks) /\ NChunks \in Nat
          <5>1. NChunks - 1 \in Int /\ 0 \in Int /\ NChunks \in Nat
            BY DEF Chunked!UploadsAssumption
          <5>2. IsFiniteSet(Chunked!Chunks) /\ f.chunks \subseteq Chunked!Chunks
            BY <2>1, <5>1, FS_Interval DEF Chunked!Chunks
          <5> QED BY <5>1, <5>2, FS_Subset
        <4>4. c \in Nat
          BY <4>2, <4>3, FS_CardinalityType
        <4>5. c \in Chunked!Chunks
          BY <4>1, <4>3, <4>4 DEF Chunked!Chunks
        <4> QED BY <4>1, <4>5
      <3>2. [f EXCEPT !.chunks = @ \cup {c}] \in Recs /\ [f EXCEPT !.chunks = @ \cup {c}].by = p
        BY <2>1, <3>1
      <3> QED BY <1>1, <2>1, <3>1, <3>2
    <2>3. UNCHANGED puts /\ puts[p].at = "receiving"
      BY <1>8 DEF Chunked!Receive
    <2>4. PutAgrees(p)'
      BY <1>1, <1>2, <1>4, <2>2, <2>3 DEF PutAgrees
    <2> QED BY <1>1, <1>4, <1>5, <2>1, <2>2, <2>3, <2>4, OnePut DEF Chunked!UploadsAssumption
  <1>9. CASE Chunked!EndPut(p)
    <2>1. PICK f \in Recs : f = disk[target[p]] /\ f.by = p /\ f # None
      BY <1>7, <1>9 DEF Chunked!EndPut
    <2>2. CASE f.chunks = Chunked!Chunks /\ Chunked!Put(p, "done") /\ UNCHANGED disk
      <3>1. f = [by |-> p, chunks |-> Chunked!Chunks]
        BY <2>1, <2>2
      <3>2. PutAgrees(p)'
        BY <1>1, <1>3, <2>1, <2>2, <3>1 DEF PutAgrees, Mine
      <3>3. \A a \in Chunked!Actors : Kept(a)
        BY <2>2 DEF Kept
      <3> QED BY <1>1, <1>3, <2>2, <3>2, <3>3, OnePut DEF Chunked!UploadsAssumption
    <2>3. CASE disk' = [disk EXCEPT ![target[p]] = None] /\ Chunked!Put(p, "aborted")
      <3>1. PutAgrees(p)'
        BY <1>3, <2>3 DEF PutAgrees
      <3> QED BY <1>1, <1>3, <1>4, <1>5, <2>1, <2>3, <3>1, OnePut DEF Chunked!UploadsAssumption
    <2> QED BY <1>9, <2>1, <2>2, <2>3 DEF Chunked!EndPut
  <1> QED BY <1>6, <1>8, <1>9

LEMMA RestartKeeps == ASSUME UploadInv, Chunked!Restart PROVE UploadInv'
  <1>1. /\ UNCHANGED <<target, disk, clients>> /\ handlers' = {} /\ restarts' = restarts + 1
        /\ \A u \in Uploads : sessions'[u] = None
        /\ restarts \in Nat
    BY DEF Chunked!Restart, UploadInv, UploadTypes
  <1>2. \A p \in Puts :
           /\ DOMAIN puts'[p] = {"at", "used"}
           /\ puts'[p].at = "receiving" => FALSE
           /\ puts'[p].at = "done" => puts[p].at = "done"
    <2> SUFFICES ASSUME NEW p \in Puts
                 PROVE  /\ DOMAIN puts'[p] = {"at", "used"}
                        /\ puts'[p].at = "receiving" => FALSE
                        /\ puts'[p].at = "done" => puts[p].at = "done"
      OBVIOUS
    <2>1. DOMAIN puts[p] = {"at", "used"}
      BY DEF UploadInv, UploadTypes
    <2>2. puts'[p] = IF puts[p].at \in {"testing", "opening", "receiving"}
                     THEN [puts[p] EXCEPT !.at = "aborted"] ELSE puts[p]
      BY DEF Chunked!Restart
    <2> QED BY <2>1, <2>2
  <1>3. UploadTypes'
    BY <1>1, <1>2 DEF UploadInv, UploadTypes, Chunked!Restart
  <1>4. ASSUME NEW u \in Uploads PROVE Agrees(u)'
    <2>1. restarts' # 0 /\ clients'[u] = clients[u] /\ sessions'[u] = None
      BY <1>1
    <2>2. clients[u].at = "done" => Mine(u, Chunked!Chunks)'
      BY <1>1 DEF UploadInv, Agrees, ClientAgrees, Mine
    <2> QED BY <1>1, <2>1, <2>2 DEF Agrees, SessionAgrees, ClientAgrees
  <1>5. \A p \in Puts : PutAgrees(p)'
    BY <1>1, <1>2 DEF UploadInv, PutAgrees, Mine
  <1> QED BY <1>1, <1>3, <1>4, <1>5 DEF UploadInv

LEMMA UploadStep ==
    ASSUME Chunked!UploadsAssumption, UploadInv, Chunked!Next \/ UNCHANGED chunkedVars
    PROVE  UploadInv'
  <1>1. CASE UNCHANGED chunkedVars
    BY <1>1, UploadsStutter
  <1>2. ASSUME NEW u \in Uploads, Chunked!SendChunk(u) \/ Chunked!RetryChunk(u) PROVE UploadInv'
    BY <1>2, SendKeeps
  <1>3. ASSUME NEW h \in handlers, Chunked!Handle(h) PROVE UploadInv'
    BY <1>3, FindKeeps, QuotaKeeps, OpenKeeps, BeginKeeps, WriteKeeps, FailKeeps, EndKeeps
       DEF Chunked!Handle
  <1>4. ASSUME NEW p \in Puts,
               \/ Chunked!MeasurePut(p) \/ Chunked!ReservePut(p) \/ Chunked!OpenPut(p)
               \/ Chunked!Receive(p) \/ Chunked!EndPut(p)
        PROVE  UploadInv'
    BY <1>4, PutWaits, PutWrites
  <1> QED BY <1>1, <1>2, <1>3, <1>4, RestartKeeps DEF Chunked!Next

\* An upload its client was told is complete is whole, whatever requests were lost or sent
\* again and whoever else writes, and while the server runs a chunk is never refused to a
\* retry (files.mjs, uploadFileChunk and uploadFile; app.js, uploadChunked).
THEOREM UploadsDoArrive == Spec => []UploadsArrive
  <1> DEFINE Inv == part = "uploads" => UploadInv
  <1>1. Init => Inv
    BY LibraryAssumption, ChunkedBegins, UploadsBegin
  <1>2. Inv /\ [Next]_vars => Inv'
    BY LibraryAssumption, PartStays, ChunkedRuns, UploadStep
  <1>3. Inv => UploadsArrive
    <2> SUFFICES ASSUME UploadInv PROVE Chunked!DoneIsWhole /\ Chunked!RetryResumes
      BY DEF UploadsArrive
    <2>1. Chunked!DoneIsWhole
      BY DEF UploadInv, Agrees, ClientAgrees, PutAgrees, Mine, Chunked!DoneIsWhole, Chunked!Whole
    <2>2. Chunked!RetryResumes
      BY DEF UploadInv, Agrees, ClientAgrees, Chunked!RetryResumes
    <2> QED BY <2>1, <2>2
  <1> QED BY <1>1, <1>2, <1>3, PTL DEF Spec

-----------------------------------------------------------------------------
(* The content of a storage pool *)

LEMMA ContentRuns ==
    ASSUME [Next]_vars, part' = "content"
    PROVE  Content!Next \/ UNCHANGED contentVars
  BY DEF Next, vars, OfChunked, OfBatch, OfMedia, OfConversions, OfContent, OfPage, OfDialogs

LEMMA ContentBegins == ASSUME Init, part = "content" PROVE Content!Init
  BY DEF Init

Positions == 0..NChunks - 1
Steps == {"resolve", "position", "open", "write", "measure", "place", "answer"}
Words == {"", "ok", "refused", "full", "full though it fits", "mismatch", "error", "lost"}
Requests == [upload : Images, chunk : Positions, attempt : Nat, at : Steps,
             fd : {"none", "part"}, says : Words]
Browsers == [at : {"ready", "waiting", "again", "done", "failed", "canceled"},
             chunk : Positions, attempt : Nat, why : Words]

ContentTypes ==
    /\ named \in [Content!Transfers -> Names]
    /\ hidden = [t \in Content!Transfers |-> hidden[t]]
    /\ place = [n \in Names |-> place[n]]
    /\ served \subseteq Requests
    /\ client \in [Images -> Browsers]

\* The first chunks, in their order.
First(n) == [i \in 1..n |-> i - 1]

\* A hidden file has the chunks in their order, but for those a restart cut.
Ordered(u) ==
    hidden[u] = None \/ /\ hidden[u] \in Seq(Int)
                           /\ \A i \in 1..Len(hidden[u]) : hidden[u][i] \in {i - 1, Content!Torn}

\* A request is the one its browser waits for.  It has found the file to end before its
\* chunk, or has written the chunk; the last one is put in place before it is answered.
Asks(u, h) ==
    /\ h.chunk = client[u].chunk /\ h.attempt = client[u].attempt /\ client[u].at = "waiting"
    /\ (h.at = "open" /\ h.chunk > 0) => (hidden[u] # None /\ hidden[u] = First(h.chunk))
    /\ h.at = "write" => (h.fd = "part" /\ hidden[u] = First(h.chunk))
    /\ h.at = "measure" => hidden[u] = First(h.chunk + 1)
    /\ h.at = "place" => (h.chunk = NChunks - 1 /\ hidden[u] = First(NChunks))
    /\ (h.at = "answer" /\ h.says = "ok" /\ h.chunk = NChunks - 1) => u \in placed
    /\ (u \in placed /\ u \notin unanswered) =>
         (h.at = "answer" /\ h.says = "ok" /\ h.chunk = NChunks - 1)

Upload(u) ==
    /\ \A h \in served : h.upload = u => Asks(u, h)
    /\ Ordered(u)
    /\ client[u].at = "done" => u \in placed
    /\ (u \in placed /\ u \notin unanswered) =>
         \/ client[u].at = "done"
         \/ client[u].at = "waiting" /\ \E h \in served : h.upload = u

Listed(n) ==
    place[n] # None =>
      IF place[n].by \in Images THEN place[n].chunks = First(NChunks)
      ELSE place[n].chunks = <<0>> \/ place[n].by \notin Checked

ContentInv ==
    /\ ContentTypes
    /\ \A g, h \in served : g.upload = h.upload => g = h
    /\ \A u \in Images : Upload(u)
    /\ \A n \in Names : Listed(n)

LEMMA ContentInit ==
    ASSUME Content!StorageContentAssumption, Content!Init
    PROVE  ContentInv
  <1>1. NChunks \in Nat /\ NChunks # 0
    BY DEF Content!StorageContentAssumption
  <1>2. 0 \in Positions
    BY <1>1 DEF Positions
  <1>3. client \in [Images -> Browsers]
    <2>1. [at |-> "ready", chunk |-> 0, attempt |-> 1, why |-> ""] \in Browsers
      BY <1>2 DEF Browsers, Words
    <2> QED BY <2>1 DEF Content!Init
  <1>4. ContentTypes
    BY <1>3 DEF ContentTypes, Content!Init
  <1>5. \A u \in Images : Upload(u)
    BY DEF Upload, Ordered, Content!Transfers, Content!Init
  <1>6. \A n \in Names : Listed(n)
    BY DEF Listed, Content!Init
  <1> QED BY <1>4, <1>5, <1>6 DEF ContentInv, Content!Init

\* A step that deals with one upload.
LEMMA OneImage ==
    ASSUME ContentInv, NEW u \in Images, ContentTypes',
           \A v \in Images : v # u =>
              /\ client'[v] = client[v] /\ hidden'[v] = hidden[v]
              /\ v \in placed' <=> v \in placed
              /\ v \in unanswered' <=> v \in unanswered,
           \A h : h.upload # u => (h \in served' <=> h \in served),
           \A g, h \in served' : (g.upload = u /\ h.upload = u) => g = h,
           Upload(u)', \A n \in Names : Listed(n)'
    PROVE  ContentInv'
  <1>1. ASSUME NEW v \in Images, v # u PROVE Upload(v)'
    <2>1. /\ Upload(v) /\ client'[v] = client[v] /\ hidden'[v] = hidden[v]
          /\ v \in placed' <=> v \in placed
          /\ v \in unanswered' <=> v \in unanswered
      BY <1>1 DEF ContentInv
    <2>2. \A h : h.upload = v => (h \in served' <=> h \in served)
      BY <1>1
    <2>3. \A h \in served' : h.upload = v => Asks(v, h)'
      BY <2>1, <2>2 DEF Upload, Asks
    <2> QED BY <2>1, <2>2, <2>3 DEF Upload, Ordered
  <1>2. \A g, h \in served' : g.upload = h.upload => g = h
    BY DEF ContentInv
  <1> QED BY <1>1, <1>2 DEF ContentInv

\* No handler has another file open than the hidden one of its own upload.
LEMMA NothingFollows ==
    ASSUME ContentInv, NEW h \in served
    PROVE  /\ \A from, to : from = "part" => Content!Follow(served \ {h}, h.upload, from, to) = served \ {h}
           /\ \A n : Content!Displace(served \ {h}, n) = served \ {h}
  <1>1. /\ \A g \in served : g.fd # "place"
        /\ \A g \in served \ {h} : g.upload # h.upload
    BY DEF ContentInv, ContentTypes, Requests
  <1> QED BY <1>1 DEF Content!Follow, Content!Displace

LEMMA NothingDisplaced == ASSUME ContentInv PROVE \A n : Content!Displace(served, n) = served
  <1>1. \A g \in served : g.fd # "place"
    BY DEF ContentInv, ContentTypes, Requests
  <1> QED BY <1>1 DEF Content!Displace

\* A request that goes on, or is answered.
LEMMA Handled ==
    ASSUME ContentInv, NEW h \in served, NEW g \in Requests, NEW f,
           g.upload = h.upload, g.chunk = h.chunk, g.attempt = h.attempt,
           UNCHANGED <<named, client, unanswered>>,
           served' = (served \ {h}) \cup {g}, hidden' = [hidden EXCEPT ![h.upload] = f],
           \A v \in Images : v # h.upload => (v \in placed' <=> v \in placed),
           place' = [n \in Names |-> place'[n]], \A n \in Names : Listed(n)',
           f = None \/ (f \in Seq(Int) /\ \A i \in 1..Len(f) : f[i] \in {i - 1, Content!Torn}),
           Asks(h.upload, g)'
    PROVE  ContentInv'
  <1> DEFINE u == h.upload
  <1>1. u \in Images /\ h \in Requests /\ Upload(u) /\ Asks(u, h)
    BY DEF ContentInv, ContentTypes, Requests, Upload
  <1>2. hidden'[u] = f /\ \A v \in Images : v # u => hidden'[v] = hidden[v]
    BY <1>1 DEF ContentInv, ContentTypes, Content!Transfers
  <1>3. ContentTypes'
    BY DEF ContentInv, ContentTypes
  <1>4. \A k \in served' : k.upload = u => k = g
    BY DEF ContentInv
  <1>5. client'[u].at = "waiting"
    BY <1>1 DEF Asks
  <1>6. Upload(u)'
    BY <1>2, <1>4, <1>5 DEF Upload, Ordered
  <1> QED BY <1>1, <1>2, <1>3, <1>4, <1>6, OneImage

\* A request that moves on, and one that is answered.
LEMMA MovesOn ==
    ASSUME NEW h \in Requests, NEW step \in Steps
    PROVE  \E g \in Requests :
              /\ g = Content!With(h, step) /\ g.at = step /\ g.fd = h.fd /\ g.says = h.says
              /\ g.upload = h.upload /\ g.chunk = h.chunk /\ g.attempt = h.attempt
  <1>1. PICK g \in Requests : g = [h EXCEPT !.at = step]
    BY DEF Requests
  <1>2. g = Content!With(h, step)
    BY <1>1 DEF Content!With
  <1>3. /\ g.at = step /\ g.fd = h.fd /\ g.says = h.says
        /\ g.upload = h.upload /\ g.chunk = h.chunk /\ g.attempt = h.attempt
    BY <1>1 DEF Requests
  <1> QED BY <1>2, <1>3

LEMMA IsAnswered ==
    ASSUME NEW h \in Requests, NEW what \in Words
    PROVE  \E g \in Requests :
              /\ g = Content!Says(h, what) /\ g.at = "answer" /\ g.says = what
              /\ g.upload = h.upload /\ g.chunk = h.chunk /\ g.attempt = h.attempt
  <1>1. PICK f \in Requests : f = [h EXCEPT !.at = "answer"]
    BY DEF Requests, Steps
  <1>2. PICK g \in Requests : g = [f EXCEPT !.says = what]
    BY DEF Requests
  <1>3. g = Content!Says(h, what)
    BY <1>1, <1>2 DEF Content!Says, Requests
  <1> QED BY <1>1, <1>2, <1>3 DEF Requests

\* The first chunks are a sequence of chunks in their order.
LEMMA FirstIsOrdered ==
    ASSUME NEW n \in Nat
    PROVE  /\ First(n) \in Seq(Int) /\ Len(First(n)) = n
           /\ \A i \in 1..n : First(n)[i] = i - 1
           /\ First(0) = <<>>
           /\ Append(First(n), n) = First(n + 1)
           /\ Append(First(n), Content!Torn) \in Seq(Int)
           /\ \A i \in 1..n + 1 : Append(First(n), Content!Torn)[i] \in {i - 1, Content!Torn}
           /\ Len(Append(First(n), Content!Torn)) = n + 1
  <1>1. First(n) \in Seq(Int) /\ Len(First(n)) = n /\ \A i \in 1..n : First(n)[i] = i - 1
    <2>1. First(n) \in [1..n -> Int] BY DEF First
    <2> QED BY <2>1, SeqDef, LenProperties DEF First
  <1>2. First(0) = <<>>
    BY DEF First
  <1>3. /\ Len(Append(First(n), n)) = n + 1
        /\ Append(First(n), n) \in Seq(Int)
        /\ \A i \in 1..n + 1 : Append(First(n), n)[i] = IF i = n + 1 THEN n ELSE i - 1
    BY <1>1, AppendProperties
  <1>4. Append(First(n), n) = First(n + 1)
    BY <1>3 DEF First
  <1>5. Content!Torn \in Int
    BY DEF Content!Torn
  <1>6. /\ Append(First(n), Content!Torn) \in Seq(Int) /\ Len(Append(First(n), Content!Torn)) = n + 1
        /\ \A i \in 1..n + 1 : Append(First(n), Content!Torn)[i] =
                                  IF i = n + 1 THEN Content!Torn ELSE i - 1
    BY <1>1, <1>5, AppendProperties
  <1> QED BY <1>1, <1>2, <1>4, <1>6

\* What is known of a request.
LEMMA Asked ==
    ASSUME ContentInv, NEW h \in served
    PROVE  /\ h \in Requests /\ h.upload \in Images /\ Upload(h.upload) /\ Asks(h.upload, h)
           /\ h.upload \in Content!Transfers /\ h.chunk \in Nat /\ NChunks \in Int
           /\ place = [n \in Names |-> place[n]] /\ \A n \in Names : Listed(n)
           /\ Content!Follow(served \ {h}, h.upload, "part", "gone") = served \ {h}
           /\ hidden = [hidden EXCEPT ![h.upload] = hidden[h.upload]]
  <1>1. h \in Requests /\ h.upload \in Images /\ h.upload \in Content!Transfers
    BY DEF ContentInv, ContentTypes, Requests, Content!Transfers
  <1>2. NChunks \in Int /\ h.chunk \in Nat
    BY <1>1, LibraryAssumption DEF Content!StorageContentAssumption, Requests, Positions
  <1>3. hidden = [hidden EXCEPT ![h.upload] = hidden[h.upload]]
    BY <1>1 DEF ContentInv, ContentTypes
  <1> QED BY <1>1, <1>2, <1>3, NothingFollows DEF ContentInv, ContentTypes, Upload

LEMMA AskedChunk ==
    ASSUME ContentInv, NEW h \in served
    PROVE  h.chunk \in Nat /\ NChunks \in Nat /\ h.chunk < NChunks
  <1>1. h.chunk \in 0..NChunks - 1 /\ NChunks \in Nat
    BY LibraryAssumption
       DEF ContentInv, ContentTypes, Requests, Positions, Content!StorageContentAssumption
  <1> QED BY <1>1

LEMMA AbandonKeeps ==
    ASSUME ContentInv, NEW h \in served, h.at # "answer", Content!Abandon(h),
           UNCHANGED <<named, place, client, placed, unanswered>>
    PROVE  ContentInv'
  <1>1. PICK g \in Requests : /\ g = Content!Says(h, "error") /\ g.at = "answer" /\ g.says = "error"
                              /\ g.upload = h.upload /\ g.chunk = h.chunk /\ g.attempt = h.attempt
    BY Asked, IsAnswered DEF Words
  <1>2. served' = (served \ {h}) \cup {g} /\ hidden' = [hidden EXCEPT ![h.upload] = None]
    BY <1>1, Asked DEF Content!Abandon
  <1>3. Asks(h.upload, g)'
    BY <1>1, Asked DEF Asks
  <1>4. place' = [n \in Names |-> place'[n]] /\ \A n \in Names : Listed(n)'
    BY Asked DEF Listed
  <1> QED BY <1>1, <1>2, <1>3, <1>4, Handled

LEMMA ResolveKeeps ==
    ASSUME ContentInv, NEW h \in served, Content!Resolve(h)
    PROVE  ContentInv'
  <1>1. PICK g \in Requests :
           /\ served' = (served \ {h}) \cup {g}
           /\ g.upload = h.upload /\ g.chunk = h.chunk /\ g.attempt = h.attempt
           /\ (g.at = "position") \/ (g.at = "answer" /\ g.says # "ok")
    <2>1. CASE \E what \in {"refused", "full", "full though it fits"} : Content!Move(h, Content!Says(h, what))
      <3>1. PICK what \in {"refused", "full", "full though it fits"} : Content!Move(h, Content!Says(h, what))
        BY <2>1
      <3>2. what \in Words
        BY DEF Words
      <3>3. PICK g \in Requests :
               /\ g = Content!Says(h, what) /\ g.at = "answer" /\ g.says = what
               /\ g.upload = h.upload /\ g.chunk = h.chunk /\ g.attempt = h.attempt
        BY <3>2, Asked, IsAnswered
      <3> QED BY <3>1, <3>3 DEF Content!Move
    <2>2. CASE Content!Move(h, Content!With(h, "position"))
      <3>1. "position" \in Steps
        BY DEF Steps
      <3>2. PICK g \in Requests :
               /\ g = Content!With(h, "position") /\ g.at = "position"
               /\ g.upload = h.upload /\ g.chunk = h.chunk /\ g.attempt = h.attempt
        BY <3>1, Asked, MovesOn
      <3> QED BY <2>2, <3>2 DEF Content!Move
    <2> QED BY <2>1, <2>2 DEF Content!Resolve
  <1>2. UNCHANGED <<named, hidden, place, client, placed, unanswered>> /\ h.at = "resolve"
    BY DEF Content!Resolve
  <1>3. Asks(h.upload, g)'
    BY <1>1, <1>2, Asked DEF Asks
  <1>4. place' = [n \in Names |-> place'[n]] /\ \A n \in Names : Listed(n)'
    BY <1>2, Asked DEF Listed
  <1> QED BY <1>1, <1>2, <1>3, <1>4, Asked, Handled DEF Upload, Ordered

LEMMA PositionKeeps ==
    ASSUME ContentInv, NEW h \in served, Content!Position(h)
    PROVE  ContentInv'
  <1> DEFINE u == h.upload
  <1>1. UNCHANGED <<named, place, client, placed, unanswered>> /\ h.at = "position"
    BY DEF Content!Position
  <1>2. place' = [n \in Names |-> place'[n]] /\ \A n \in Names : Listed(n)'
    BY <1>1, Asked DEF Listed
  <1>3. PICK o \in Requests : /\ o = Content!With(h, "open") /\ o.at = "open"
                              /\ o.upload = h.upload /\ o.chunk = h.chunk /\ o.attempt = h.attempt
    <2>1. "open" \in Steps
      BY DEF Steps
    <2> QED BY <2>1, Asked, MovesOn
  <1>4. PICK m \in Requests : /\ m = Content!Says(h, "mismatch") /\ m.at = "answer" /\ m.says = "mismatch"
                              /\ m.upload = h.upload /\ m.chunk = h.chunk /\ m.attempt = h.attempt
    BY Asked, IsAnswered DEF Words
  <1>5. CASE h.chunk = 0
    <2>1. served' = (served \ {h}) \cup {o} /\ hidden' = [hidden EXCEPT ![u] = None]
      BY <1>3, <1>5, Asked DEF Content!Position
    <2>2. Asks(u, h) /\ h.chunk = 0
      BY <1>5, Asked
    <2>3. Asks(u, o)'
      BY <1>1, <1>3, <2>2 DEF Asks
    <2> QED BY <1>1, <1>2, <1>3, <2>1, <2>3, Handled
  <1>6. CASE h.chunk # 0
    <2>1. UNCHANGED hidden
          /\ served' = (served \ {h}) \cup {IF Content!EndsAt(hidden[u], h.chunk) THEN o ELSE m}
      BY <1>3, <1>4, <1>6 DEF Content!Position, Content!Move
    <2>2. CASE Content!EndsAt(hidden[u], h.chunk)
      <3>1. hidden[u] # None /\ Len(hidden[u]) = h.chunk /\ \A i \in DOMAIN hidden[u] : hidden[u][i] # Content!Torn
        BY <2>2 DEF Content!EndsAt, Content!Size
      <3>2. PICK f : f = hidden[u]
        OBVIOUS
      <3>3. f \in Seq(Int) /\ Len(f) = h.chunk /\ \A i \in 1..h.chunk : f[i] \in {i - 1, Content!Torn}
        BY <3>1, <3>2, Asked DEF Upload, Ordered
      <3>4. f = [i \in 1..h.chunk |-> f[i]] /\ \A i \in 1..h.chunk : f[i] = i - 1
        BY <3>1, <3>2, <3>3, LenProperties, SeqDef
      <3>5. hidden[u] = First(h.chunk)
        BY <3>2, <3>4 DEF First
      <3>6. Asks(u, o)'
        BY <1>1, <1>3, <2>1, <3>1, <3>5, Asked DEF Asks
      <3> QED BY <1>1, <1>2, <1>3, <2>1, <2>2, <3>6, Asked, Handled DEF Upload, Ordered
    <2>3. CASE ~Content!EndsAt(hidden[u], h.chunk)
      <3>1. Asks(u, m)'
        BY <1>1, <1>4, <2>1, Asked DEF Asks
      <3> QED BY <1>1, <1>2, <1>4, <2>1, <2>3, <3>1, Asked, Handled DEF Upload, Ordered
    <2> QED BY <2>2, <2>3
  <1> QED BY <1>5, <1>6

LEMMA OpenedKeeps ==
    ASSUME ContentInv, NEW h \in served, Content!Open(h)
    PROVE  ContentInv'
  <1> DEFINE u == h.upload
  <1>1. UNCHANGED <<named, place, client, placed, unanswered>> /\ h.at = "open"
    BY DEF Content!Open
  <1>2. place' = [n \in Names |-> place'[n]] /\ \A n \in Names : Listed(n)'
    BY <1>1, Asked DEF Listed
  <1>3. CASE Content!Abandon(h)
    BY <1>1, <1>3, AbandonKeeps
  <1>4. CASE ~(h.chunk = 0 /\ hidden[u] # None)
    <2>1. PICK f \in Requests : f = [h EXCEPT !.at = "write"]
      BY Asked DEF Requests, Steps
    <2>2. PICK g \in Requests : g = [f EXCEPT !.fd = "part"]
      BY DEF Requests
    <2>3. g = [h EXCEPT !.at = "write", !.fd = "part"]
      BY <2>1, <2>2, Asked DEF Requests
    <2>4. /\ g.at = "write" /\ g.fd = "part"
          /\ g.upload = h.upload /\ g.chunk = h.chunk /\ g.attempt = h.attempt
      BY <2>1, <2>2, Asked DEF Requests
    <2>5. served' = (served \ {h}) \cup {g}
      BY <1>4, <2>3 DEF Content!Open, Content!Move
    <2>6. hidden' = [hidden EXCEPT ![u] = First(h.chunk)]
      <3>1. hidden' = [hidden EXCEPT ![u] = IF hidden[u] = None THEN <<>> ELSE hidden[u]]
        BY <1>4 DEF Content!Open
      <3>2. IF hidden[u] = None THEN h.chunk = 0 ELSE hidden[u] = First(h.chunk)
        <4>1. Asks(u, h) /\ h.at = "open"
          BY <1>1, Asked
        <4>2. h.chunk = 0 \/ h.chunk > 0
          BY AskedChunk
        <4> QED BY <1>4, <4>1, <4>2 DEF Asks
      <3>3. First(0) = <<>>
        BY FirstIsOrdered
      <3> QED BY <3>1, <3>2, <3>3
    <2>7. hidden'[u] = First(h.chunk)
      BY <2>6, Asked DEF ContentInv, ContentTypes
    <2>8. Asks(u, g)'
      BY <1>1, <2>4, <2>7, Asked DEF Asks
    <2> QED BY <1>1, <1>2, <2>4, <2>5, <2>6, <2>8, Asked, FirstIsOrdered, Handled
  <1> QED BY <1>3, <1>4 DEF Content!Open

LEMMA WrittenKeeps ==
    ASSUME ContentInv, NEW h \in served, Content!Write(h)
    PROVE  ContentInv'
  <1> DEFINE u == h.upload
  <1>1. UNCHANGED <<named, client, placed, unanswered>> /\ h.at = "write"
    BY DEF Content!Write
  <1>2. h.fd = "part" /\ hidden[u] = First(h.chunk)
    BY <1>1, Asked DEF Asks
  <1>3. CASE Content!Abandon(h) /\ UNCHANGED place
    BY <1>1, <1>3, AbandonKeeps
  <1>4. CASE ~(Content!Abandon(h) /\ UNCHANGED place)
    <2>1. PICK g \in Requests : /\ g = Content!With(h, "measure") /\ g.at = "measure"
                                /\ g.upload = h.upload /\ g.chunk = h.chunk /\ g.attempt = h.attempt
      <3>1. "measure" \in Steps
        BY DEF Steps
      <3> QED BY <3>1, Asked, MovesOn
    <2>2. /\ UNCHANGED place /\ served' = (served \ {h}) \cup {g}
          /\ hidden' = [hidden EXCEPT ![u] = Append(hidden[u], h.chunk)]
      BY <1>2, <1>4, <2>1 DEF Content!Write, Content!Move
    <2>3. Append(First(h.chunk), h.chunk) = First(h.chunk + 1)
      BY Asked, FirstIsOrdered
    <2>4. hidden' = [hidden EXCEPT ![u] = First(h.chunk + 1)]
      BY <1>2, <2>2, <2>3
    <2>5. hidden'[u] = First(h.chunk + 1)
      BY <2>4, Asked DEF ContentInv, ContentTypes
    <2>6. Asks(u, g)'
      BY <1>1, <2>1, <2>5, Asked DEF Asks
    <2>7. place' = [n \in Names |-> place'[n]] /\ \A n \in Names : Listed(n)'
      BY <2>2, Asked DEF Listed
    <2>8. h.chunk + 1 \in Nat
      BY AskedChunk
    <2>9. PICK f : f = First(h.chunk + 1)
      OBVIOUS
    <2>10. f \in Seq(Int) /\ \A i \in 1..Len(f) : f[i] \in {i - 1, Content!Torn}
      BY <2>8, <2>9, FirstIsOrdered
    <2>11. hidden' = [hidden EXCEPT ![h.upload] = f]
      BY <2>4, <2>9
    <2>12. \A v \in Images : v # h.upload => (v \in placed' <=> v \in placed)
      BY <1>1
    <2>13. f = None \/ (f \in Seq(Int) /\ \A i \in 1..Len(f) : f[i] \in {i - 1, Content!Torn})
      BY <2>10
    <2>14. UNCHANGED <<named, client, unanswered>> /\ served' = (served \ {h}) \cup {g}
      BY <1>1, <2>2
    <2> QED BY <2>1, <2>6, <2>7, <2>11, <2>12, <2>13, <2>14, Handled
  <1> QED BY <1>3, <1>4 DEF Content!Write

LEMMA MeasuredKeeps ==
    ASSUME ContentInv, NEW h \in served, Content!Measure(h)
    PROVE  ContentInv'
  <1> DEFINE u == h.upload
  <1>1. UNCHANGED <<named, place, client, placed, unanswered>> /\ h.at = "measure"
    BY DEF Content!Measure
  <1>2. hidden[u] = First(h.chunk + 1)
    BY <1>1, Asked DEF Asks
  <1>3. CASE Content!Abandon(h)
    BY <1>1, <1>3, AbandonKeeps
  <1>4. CASE ~Content!Abandon(h)
    <2>1. PICK o \in Requests : /\ o = Content!Says(h, "ok") /\ o.at = "answer" /\ o.says = "ok"
                                /\ o.upload = h.upload /\ o.chunk = h.chunk /\ o.attempt = h.attempt
      BY Asked, IsAnswered DEF Words
    <2>2. PICK p \in Requests : /\ p = Content!With(h, "place") /\ p.at = "place"
                                /\ p.upload = h.upload /\ p.chunk = h.chunk /\ p.attempt = h.attempt
      <3>1. "place" \in Steps
        BY DEF Steps
      <3> QED BY <3>1, Asked, MovesOn
    <2>3. UNCHANGED hidden /\ served' = (served \ {h}) \cup {IF h.chunk + 1 < NChunks THEN o ELSE p}
      BY <1>4, <2>1, <2>2 DEF Content!Measure, Content!Move
    <2>4. place' = [n \in Names |-> place'[n]] /\ \A n \in Names : Listed(n)'
      BY <1>1, Asked DEF Listed
    <2>5. CASE h.chunk + 1 < NChunks
      <3>1. h.chunk # NChunks - 1
        BY <2>5, AskedChunk
      <3>2. Asks(u, o)'
        BY <1>1, <2>1, <2>3, <3>1, Asked DEF Asks
      <3> QED BY <1>1, <2>1, <2>3, <2>4, <2>5, <3>2, Asked, Handled DEF Upload, Ordered
    <2>6. CASE ~(h.chunk + 1 < NChunks)
      <3>1. h.chunk + 1 = NChunks
        BY <2>6, AskedChunk
      <3>2. h.chunk = NChunks - 1 /\ hidden[u] = First(NChunks)
        BY <1>2, <3>1, AskedChunk
      <3>3. Asks(u, p)'
        BY <1>1, <2>2, <2>3, <3>2, Asked DEF Asks
      <3> QED BY <1>1, <2>2, <2>3, <2>4, <2>6, <3>3, Asked, Handled DEF Upload, Ordered
    <2> QED BY <2>5, <2>6
  <1> QED BY <1>3, <1>4 DEF Content!Measure

LEMMA PlacedKeeps ==
    ASSUME ContentInv, NEW h \in served, Content!Place(h)
    PROVE  ContentInv'
  <1> DEFINE u == h.upload
  <1>1. UNCHANGED <<named, client, unanswered>> /\ h.at = "place"
    BY DEF Content!Place
  <1>2. h.chunk = NChunks - 1 /\ hidden[u] = First(NChunks)
    BY <1>1, Asked DEF Asks
  <1>3. CASE Content!Abandon(h) /\ UNCHANGED <<place, placed>>
    BY <1>1, <1>3, AbandonKeeps
  <1>4. CASE hidden[u] # None
    <2>1. PICK g \in Requests : /\ g = Content!Says(h, "ok") /\ g.at = "answer" /\ g.says = "ok"
                                /\ g.upload = h.upload /\ g.chunk = h.chunk /\ g.attempt = h.attempt
      BY Asked, IsAnswered DEF Words
    <2>2. /\ place' = [place EXCEPT ![named[u]] = [by |-> u, chunks |-> First(NChunks)]]
          /\ placed' = placed \cup {u} /\ hidden' = [hidden EXCEPT ![u] = None]
      BY <1>2, <1>4 DEF Content!Place
    <2>3. served' = (served \ {h}) \cup {g}
      <3>1. Content!Follow(Content!Displace(served \ {h}, named[u]), u, "part", "place") = served \ {h}
        BY NothingFollows
      <3>2. served' = {Content!Says(h, "ok")}
                         \cup Content!Follow(Content!Displace(served \ {h}, named[u]), u, "part", "place")
        BY <1>4 DEF Content!Place
      <3> QED BY <2>1, <3>1, <3>2
    <2>4. hidden'[u] = None
      BY <2>2, Asked DEF ContentInv, ContentTypes
    <2>5. Asks(u, g)'
      BY <1>1, <1>2, <2>1, <2>2, Asked DEF Asks
    <2>6. place' = [n \in Names |-> place'[n]]
      BY <2>2, Asked
    <2>7. \A n \in Names : Listed(n)'
      BY <2>2, Asked DEF Listed
    <2> QED BY <1>1, <2>1, <2>2, <2>3, <2>5, <2>6, <2>7, Handled
  <1> QED BY <1>3, <1>4 DEF Content!Place

LEMMA AnsweredKeeps ==
    ASSUME ContentInv, NEW h \in served, Content!Answer(h)
    PROVE  ContentInv'
  <1> DEFINE u == h.upload
  <1>1. UNCHANGED <<named, hidden, place, placed>> /\ h.at = "answer" /\ served' = served \ {h}
    BY DEF Content!Answer
  <1>2. Asks(u, h) /\ u \in Images /\ h \in Requests /\ client[u] \in Browsers
    BY Asked DEF ContentInv, ContentTypes
  <1>3. PICK b \in Browsers : b = client[u]
    BY <1>2
  <1>4. /\ b.at = "waiting" /\ b.chunk = h.chunk
        /\ h.chunk \in Nat /\ NChunks \in Nat /\ h.chunk < NChunks
    BY <1>2, <1>3, AskedChunk DEF Asks
  <1>5. Content!Awaits(h)
    BY <1>2 DEF Asks, Content!Awaits
  <1>6. \A why \in Words : /\ Content!Failed(u, why) \in Browsers
                           /\ Content!Failed(u, why).at \in {"again", "failed"}
    <2> SUFFICES ASSUME NEW why \in Words
                 PROVE  /\ Content!Failed(u, why) \in Browsers
                        /\ Content!Failed(u, why).at \in {"again", "failed"}
      OBVIOUS
    <2>1. PICK f \in Browsers : f = [b EXCEPT !.at = "again"]
      BY DEF Browsers
    <2>2. PICK g \in Browsers : g = [f EXCEPT !.attempt = b.attempt + 1]
      <3>1. b.attempt + 1 \in Nat
        BY DEF Browsers
      <3>2. PICK a \in Nat : a = b.attempt + 1
        BY <3>1
      <3>3. [f EXCEPT !.attempt = a] \in Browsers
        BY DEF Browsers
      <3> QED BY <3>2, <3>3
    <2>3. PICK k \in Browsers : k = [g EXCEPT !.why = why]
      BY DEF Browsers
    <2>4. k = [b EXCEPT !.at = "again", !.attempt = b.attempt + 1, !.why = why] /\ k.at = "again"
      BY <2>1, <2>2, <2>3 DEF Browsers
    <2>5. PICK m \in Browsers : m = [b EXCEPT !.at = "failed"]
      BY DEF Browsers
    <2>6. PICK n \in Browsers : n = [m EXCEPT !.why = why]
      BY DEF Browsers
    <2>7. n = [b EXCEPT !.at = "failed", !.why = why] /\ n.at = "failed"
      BY <2>5, <2>6 DEF Browsers
    <2>8. Content!Failed(u, why) = k \/ Content!Failed(u, why) = n
      BY <1>3, <2>4, <2>7 DEF Content!Failed
    <2> QED BY <2>4, <2>7, <2>8
  <1>7. /\ Content!Accepted(u) \in Browsers
        /\ Content!Accepted(u).at = "done" => h.chunk = NChunks - 1
        /\ Content!Accepted(u).at \in {"done", "ready"}
        /\ Content!Accepted(u).at = "ready" => h.chunk # NChunks - 1
    <2>1. CASE h.chunk = NChunks - 1
      <3>1. PICK f \in Browsers : f = [b EXCEPT !.at = "done"]
        BY DEF Browsers
      <3>2. Content!Accepted(u) = f /\ f.at = "done"
        BY <1>3, <1>4, <2>1, <3>1 DEF Content!Accepted, Browsers
      <3> QED BY <2>1, <3>2
    <2>2. CASE h.chunk # NChunks - 1
      <3>1. b.chunk + 1 \in Positions
        BY <1>4, <2>2 DEF Positions
      <3>2. PICK f \in Browsers : f = [b EXCEPT !.at = "ready"]
        BY DEF Browsers
      <3>3. PICK g \in Browsers : g = [f EXCEPT !.chunk = b.chunk + 1]
        BY <3>1 DEF Browsers
      <3>4. PICK k \in Browsers : k = [g EXCEPT !.attempt = 1]
        BY DEF Browsers
      <3>5. k = [b EXCEPT !.at = "ready", !.chunk = b.chunk + 1, !.attempt = 1] /\ k.at = "ready"
        BY <3>2, <3>3, <3>4 DEF Browsers
      <3>6. Content!Accepted(u) = k
        BY <1>3, <1>4, <2>2, <3>5 DEF Content!Accepted
      <3> QED BY <2>2, <3>5, <3>6
    <2> QED BY <2>1, <2>2
  <1>8. PICK c \in Browsers :
           /\ client' = [client EXCEPT ![u] = c] /\ c.at # "waiting"
           /\ c.at = "done" => u \in placed
           /\ (u \in placed /\ u \notin unanswered') => c.at = "done"
           /\ \A v \in Images : v # u => (v \in unanswered' <=> v \in unanswered)
    <2>1. CASE /\ h.says = "ok" /\ client' = [client EXCEPT ![u] = Content!Accepted(u)]
               /\ UNCHANGED unanswered
      BY <1>1, <1>2, <1>4, <1>7, <2>1 DEF Asks
    <2>2. CASE /\ h.says # "ok" /\ client' = [client EXCEPT ![u] = Content!Failed(u, h.says)]
               /\ UNCHANGED unanswered
      <3>1. h.says \in Words
        BY <1>2 DEF Requests
      <3> QED BY <1>1, <1>2, <1>6, <2>2, <3>1 DEF Asks
    <2>3. CASE /\ client' = [client EXCEPT ![u] = Content!Failed(u, "lost")]
               /\ unanswered' = unanswered \cup {u}
      <3>1. "lost" \in Words
        BY DEF Words
      <3> QED BY <1>6, <2>3, <3>1
    <2> QED BY <1>5, <2>1, <2>2, <2>3 DEF Content!Answer
  <1>9. client'[u] = c /\ \A v \in Images : v # u => client'[v] = client[v]
    BY <1>2, <1>8 DEF ContentInv, ContentTypes
  <1>10. ContentTypes'
    BY <1>1, <1>8 DEF ContentInv, ContentTypes
  <1>11. \A g \in served' : g.upload # u
    BY <1>1 DEF ContentInv
  <1>12. Upload(u)'
    BY <1>1, <1>8, <1>9, <1>11, Asked DEF Upload, Ordered
  <1>13. \A n \in Names : Listed(n)'
    BY <1>1, Asked DEF Listed
  <1> QED BY <1>1, <1>2, <1>8, <1>9, <1>10, <1>11, <1>12, <1>13, OneImage

LEMMA SentKeeps ==
    ASSUME ContentInv, NEW u \in Images, Content!Send(u) \/ Content!Resend(u)
    PROVE  ContentInv'
  <1>1. /\ UNCHANGED <<named, hidden, place, placed, unanswered>>
        /\ client[u].at \in {"ready", "again"} /\ Upload(u) /\ client[u] \in Browsers
    BY DEF Content!Send, Content!Resend, ContentInv, ContentTypes
  <1>2. \A h \in served : h.upload # u
    BY <1>1 DEF Upload, Asks
  <1>3. PICK b \in Browsers : b = client[u]
    BY <1>1
  <1>4. PICK c \in Browsers, new \in SUBSET Requests :
           /\ client' = [client EXCEPT ![u] = c] /\ served' = served \cup new
           /\ c.at \in {"waiting", "ready", "canceled"}
           /\ \A g \in new : /\ c.at = "waiting" /\ g.upload = u /\ g.chunk = c.chunk
                             /\ g.attempt = c.attempt /\ g.at = "resolve"
           /\ \A g, h \in new : g = h
    <2>1. CASE Content!Send(u) /\ client' = [client EXCEPT ![u].at = "waiting"]
                 /\ served' = served \cup {Content!Handler(u)}
      <3>1. PICK c \in Browsers : c = [b EXCEPT !.at = "waiting"]
        BY DEF Browsers
      <3>2. c.at = "waiting" /\ c.chunk = b.chunk /\ c.attempt = b.attempt
        BY <3>1 DEF Browsers
      <3>3. PICK g : g = Content!Handler(u)
        OBVIOUS
      <3>4. /\ g \in Requests /\ g.upload = u /\ g.chunk = b.chunk /\ g.attempt = b.attempt
            /\ g.at = "resolve"
        BY <1>3, <3>3 DEF Content!Handler, Requests, Browsers, Steps, Words
      <3>5. client' = [client EXCEPT ![u] = c]
        BY <1>3, <2>1, <3>1
      <3> {g} \in SUBSET Requests
        BY <3>4
      <3>6. WITNESS c \in Browsers, {g} \in SUBSET Requests
      <3> QED BY <2>1, <3>2, <3>3, <3>4, <3>5
    <2>2. CASE UNCHANGED served /\ \E at \in {"ready", "canceled"} : client' = [client EXCEPT ![u].at = at]
      <3>1. PICK at \in {"ready", "canceled"} : client' = [client EXCEPT ![u].at = at]
        BY <2>2
      <3>2. PICK c \in Browsers : c = [b EXCEPT !.at = at]
        BY DEF Browsers
      <3>3. c.at = at
        BY <3>2 DEF Browsers
      <3>4. client' = [client EXCEPT ![u] = c]
        BY <1>3, <3>1, <3>2
      <3>5. WITNESS c \in Browsers, {} \in SUBSET Requests
      <3> QED BY <2>2, <3>3, <3>4
    <2> QED BY <2>1, <2>2 DEF Content!Send, Content!Resend
  <1>5. client'[u] = c /\ \A v \in Images : v # u => client'[v] = client[v]
    BY <1>4 DEF ContentInv, ContentTypes
  <1>6. ContentTypes'
    BY <1>1, <1>4 DEF ContentInv, ContentTypes
  <1>7. ~(u \in placed /\ u \notin unanswered)
    BY <1>1, <1>2 DEF Upload
  <1>8. Upload(u)'
    BY <1>1, <1>2, <1>4, <1>5, <1>7 DEF Upload, Ordered, Asks
  <1>9. \A n \in Names : Listed(n)'
    BY <1>1 DEF ContentInv, Listed
  <1>10. \A g, h \in served' : (g.upload = u /\ h.upload = u) => g = h
    BY <1>2, <1>4
  <1>11. \A h : h.upload # u => (h \in served' <=> h \in served)
    BY <1>4
  <1> QED BY <1>1, <1>5, <1>6, <1>8, <1>9, <1>10, <1>11, OneImage

LEMMA ContentStutters ==
    ASSUME ContentInv, UNCHANGED <<named, served, client, placed, unanswered>>,
           hidden' = [t \in Content!Transfers |-> hidden'[t]],
           place' = [n \in Names |-> place'[n]],
           \A u \in Images : hidden'[u] = hidden[u], \A n \in Names : Listed(n)'
    PROVE  ContentInv'
  <1>1. ContentTypes'
    BY DEF ContentInv, ContentTypes
  <1>2. ASSUME NEW u \in Images PROVE Upload(u)'
    BY DEF ContentInv, Upload, Asks, Ordered
  <1>3. \A g, h \in served' : g.upload = h.upload => g = h
    BY DEF ContentInv
  <1> QED BY <1>1, <1>2, <1>3 DEF ContentInv

LEMMA StreamKeeps ==
    ASSUME ContentInv, NEW s \in Streams,
           \/ Content!FindDrivers(s) \/ Content!BeginStream(s)
           \/ Content!ReceiveStream(s) \/ Content!PlaceStream(s)
    PROVE  ContentInv'
  <1>1. s \in Content!Transfers /\ s \notin Images
    BY LibraryAssumption DEF Content!StorageContentAssumption, Content!Transfers
  <1>2. UNCHANGED <<named, client, unanswered>>
    BY DEF Content!FindDrivers, Content!BeginStream, Content!ReceiveStream, Content!PlaceStream
  <1>3. /\ hidden = [t \in Content!Transfers |-> hidden[t]] /\ place = [n \in Names |-> place[n]]
        /\ \A n \in Names : Listed(n)
    BY DEF ContentInv, ContentTypes
  <1>4. CASE UNCHANGED <<hidden, place, served, placed>>
    BY <1>2, <1>3, <1>4, ContentStutters DEF Listed
  <1>5. CASE /\ UNCHANGED <<place, served, placed>>
             /\ \E f : hidden' = [hidden EXCEPT ![s] = f]
    <2>1. /\ hidden' = [t \in Content!Transfers |-> hidden'[t]]
          /\ \A u \in Images : hidden'[u] = hidden[u]
      BY <1>1, <1>3, <1>5
    <2>2. \A n \in Names : Listed(n)'
      BY <1>3, <1>5 DEF Listed
    <2> QED BY <1>2, <1>3, <1>5, <2>1, <2>2, ContentStutters
  <1>6. CASE Content!PlaceStream(s) /\ Content!IsRight(s)
    <2>1. PICK f : f = hidden[s]
      OBVIOUS
    <2>2. /\ hidden' = [hidden EXCEPT ![s] = None] /\ placed' = placed \cup {s}
          /\ place' = [place EXCEPT ![named[s]] = [by |-> s, chunks |-> f]]
          /\ s \in Checked => f = <<0>>
      BY <1>6, <2>1 DEF Content!PlaceStream, Content!IsRight
    <2>3. served' = served
      BY <1>6, NothingDisplaced DEF Content!PlaceStream
    <2>4. \A n \in Names : Listed(n)'
      BY <1>1, <1>3, <2>2 DEF Listed
    <2>5. ContentTypes'
      BY <1>2, <1>3, <2>2, <2>3 DEF ContentInv, ContentTypes
    <2>6. ASSUME NEW u \in Images PROVE Upload(u)'
      <3>1. hidden'[u] = hidden[u] /\ (u \in placed' <=> u \in placed)
        BY <1>1, <1>3, <2>2
      <3>2. Upload(u) /\ UNCHANGED <<client, unanswered, served>>
        BY <1>2, <2>3 DEF ContentInv
      <3>3. ASSUME NEW h \in served, h.upload = u PROVE Asks(u, h)'
        <4>1. Asks(u, h)
          BY <3>2, <3>3 DEF Upload
        <4> QED BY <3>1, <3>2, <4>1 DEF Asks
      <3> QED BY <3>1, <3>2, <3>3 DEF Upload, Ordered
    <2> QED BY <2>3, <2>4, <2>5, <2>6 DEF ContentInv
  <1> QED BY <1>4, <1>5, <1>6
          DEF Content!FindDrivers, Content!BeginStream, Content!ReceiveStream, Content!PlaceStream

LEMMA DeleteKeeps ==
    ASSUME ContentInv, NEW n \in Names, Content!Delete(n)
    PROVE  ContentInv'
  <1>1. served' = served
    BY NothingDisplaced DEF Content!Delete
  <1>2. /\ UNCHANGED <<named, hidden, client, placed, unanswered>>
        /\ place' = [place EXCEPT ![n] = None]
    BY DEF Content!Delete
  <1>3. place' = [k \in Names |-> place'[k]] /\ \A k \in Names : Listed(k)'
    BY <1>2 DEF ContentInv, ContentTypes, Listed
  <1> QED BY <1>1, <1>2, <1>3, ContentStutters DEF ContentInv, ContentTypes

LEMMA ServerRestartKeeps ==
    ASSUME ContentInv, Content!Restart
    PROVE  ContentInv'
  <1>1. UNCHANGED <<named, place, placed>> /\ served' = {}
        /\ unanswered' = unanswered \cup {h.upload : h \in served}
    BY DEF Content!Restart
  <1>2. ASSUME NEW u \in Images
        PROVE  \E b, c \in Browsers :
                  /\ b = client[u] /\ c = client'[u]
                  /\ b.at # "waiting" => c = b
                  /\ b.at = "waiting" => c.at \in {"again", "failed"}
    <2>1. PICK b \in Browsers : b = client[u]
      BY DEF ContentInv, ContentTypes
    <2>2. \E c \in Browsers : c = Content!Failed(u, "lost") /\ c.at \in {"again", "failed"}
      <3>1. PICK f \in Browsers : f = [b EXCEPT !.at = "again"]
        BY DEF Browsers
      <3>2. PICK a \in Nat : a = b.attempt + 1
        <4>1. b.attempt + 1 \in Nat
          BY DEF Browsers
        <4> QED BY <4>1
      <3>3. PICK g \in Browsers : g = [f EXCEPT !.attempt = a]
        BY DEF Browsers
      <3>4. PICK k \in Browsers : k = [g EXCEPT !.why = "lost"]
        BY DEF Browsers, Words
      <3>5. k = [b EXCEPT !.at = "again", !.attempt = a, !.why = "lost"] /\ k.at = "again"
        BY <3>1, <3>3, <3>4 DEF Browsers
      <3>6. PICK m \in Browsers : m = [b EXCEPT !.at = "failed"]
        BY DEF Browsers
      <3>7. PICK n \in Browsers : n = [m EXCEPT !.why = "lost"]
        BY DEF Browsers, Words
      <3>8. n = [b EXCEPT !.at = "failed", !.why = "lost"] /\ n.at = "failed"
        BY <3>6, <3>7 DEF Browsers
      <3>9. Content!Failed(u, "lost") = k \/ Content!Failed(u, "lost") = n
        BY <2>1, <3>2, <3>5, <3>8 DEF Content!Failed
      <3> QED BY <3>5, <3>8, <3>9
    <2>3. PICK d \in Browsers : d = Content!Failed(u, "lost") /\ d.at \in {"again", "failed"}
      BY <2>2
    <2>4. client'[u] = IF b.at = "waiting" THEN d ELSE b
      BY <2>1, <2>3 DEF Content!Restart
    <2> QED BY <2>1, <2>3, <2>4
  <1>3. ContentTypes'
    <2>1. client' \in [Images -> Browsers]
      <3>1. client' = [u \in Images |-> client'[u]]
        BY DEF Content!Restart
      <3>2. \A u \in Images : client'[u] \in Browsers
        BY <1>2
      <3> QED BY <3>1, <3>2
    <2>2. hidden' = [t \in Content!Transfers |-> hidden'[t]]
      BY DEF Content!Restart
    <2> QED BY <1>1, <2>1, <2>2 DEF ContentInv, ContentTypes
  <1>4. ASSUME NEW u \in Images PROVE Upload(u)'
    <2>1. PICK b \in Browsers, c \in Browsers :
             /\ b = client[u] /\ c = client'[u]
             /\ b.at # "waiting" => c = b
             /\ b.at = "waiting" => c.at \in {"again", "failed"}
      BY <1>2
    <2>2. Upload(u)
      BY DEF ContentInv
    <2>3. Ordered(u)'
      <3>1. CASE \E h \in served : h.upload = u /\ h.at = "write" /\ h.fd = "part"
        <4>1. PICK h \in served : h.upload = u /\ h.at = "write" /\ h.fd = "part"
          BY <3>1
        <4>2. hidden[u] = First(h.chunk) /\ h.chunk \in Nat
          BY <4>1, Asked DEF Asks
        <4>3. PICK f : f = Append(First(h.chunk), Content!Torn)
          OBVIOUS
        <4>4. f \in Seq(Int) /\ \A i \in 1..Len(f) : f[i] \in {i - 1, Content!Torn}
          BY <4>2, <4>3, FirstIsOrdered
        <4>5. hidden'[u] = f
          BY <3>1, <4>2, <4>3 DEF Content!Restart, Content!Transfers
        <4> QED BY <4>4, <4>5 DEF Ordered
      <3>2. CASE ~\E h \in served : h.upload = u /\ h.at = "write" /\ h.fd = "part"
        <4>1. hidden'[u] = hidden[u]
          BY <3>2 DEF Content!Restart, Content!Transfers
        <4> QED BY <2>2, <4>1 DEF Upload, Ordered
      <3> QED BY <3>1, <3>2
    <2>4. c.at = "done" => u \in placed
      BY <2>1, <2>2 DEF Upload
    <2>5. (u \in placed /\ u \notin unanswered') => c.at = "done"
      BY <1>1, <2>1, <2>2 DEF Upload
    <2> QED BY <1>1, <2>1, <2>3, <2>4, <2>5 DEF Upload
  <1>5. \A n \in Names : Listed(n)'
    BY <1>1 DEF ContentInv, Listed
  <1> QED BY <1>1, <1>3, <1>4, <1>5 DEF ContentInv

LEMMA ContentStep ==
    ASSUME ContentInv, Content!Next \/ UNCHANGED contentVars
    PROVE  ContentInv'
  <1>1. CASE UNCHANGED contentVars
    BY <1>1, ContentStutters DEF contentVars, ContentInv, ContentTypes, Listed
  <1>2. ASSUME NEW u \in Images, Content!Send(u) \/ Content!Resend(u) PROVE ContentInv'
    BY <1>2, SentKeeps
  <1>3. ASSUME NEW h \in served,
               \/ Content!Resolve(h) \/ Content!Position(h) \/ Content!Open(h)
               \/ Content!Write(h) \/ Content!Measure(h) \/ Content!Place(h)
               \/ Content!Answer(h) \/ Content!GiveUp(h)
        PROVE  ContentInv'
    BY <1>3, ResolveKeeps, PositionKeeps, OpenedKeeps, WrittenKeeps, MeasuredKeeps, PlacedKeeps,
       AnsweredKeeps DEF Content!GiveUp
  <1>4. ASSUME NEW s \in Streams,
               \/ Content!FindDrivers(s) \/ Content!BeginStream(s)
               \/ Content!ReceiveStream(s) \/ Content!PlaceStream(s)
        PROVE  ContentInv'
    BY <1>4, StreamKeeps
  <1>5. ASSUME NEW n \in Names, Content!Delete(n) PROVE ContentInv'
    BY <1>5, DeleteKeeps
  <1> QED BY <1>1, <1>2, <1>3, <1>4, <1>5, ServerRestartKeeps DEF Content!Next

-----------------------------------------------------------------------------
(* Thumbnails and previews *)

LEMMA MediaRuns ==
    ASSUME [Next]_vars, part' = "media"
    PROVE  Media!Next \/ UNCHANGED mediaVars
  BY DEF Next, vars, OfChunked, OfBatch, OfMedia, OfConversions, OfContent, OfPage, OfDialogs

Called == {"looking", "missing", "waiting", "made"}
Sorts == {"thumbnail", "preview", "video", "file"}
Calls == [at : Called \cup {"idle", "over", "asked", "sending"}, file : Media!Files \cup {None},
          kind : Sorts \cup {None}, version : Nat, since : Nat]

MediaTypes ==
    /\ version \in [Media!Files -> 1..MaxVersions] /\ present \subseteq Media!Files
    /\ cached \in [Media!Keys -> [of : Nat, whole : BOOLEAN]]
    /\ jobs \in [Media!Keys -> [at : {"none", "begun", "writing"}, tool : {"ffmpeg", "convert"},
                                of : Nat]]
    /\ caller \in [Media!Callers -> Calls]
    /\ queue \in [Media!Queues -> Seq(Media!Files)]
    /\ owed \in [Media!Queues -> SUBSET Media!Files] /\ fresh \subseteq Media!Files

\* What is kept under a key, or being made for it, is of the version the key names, or newer.
MediaKept(k) ==
    /\ cached[k].of # 0 => cached[k].of >= k[2]
    /\ (k[3] = "video" /\ cached[k].of # 0) => cached[k].whole
    /\ jobs[k] # Media!NoJob => k[2] <= version[k[1]]
    /\ jobs[k].at = "writing" => jobs[k].of >= k[2]

\* A caller is about the version it found, which is none before the one it asked for.
Caller(s) ==
    /\ s.at \in Called \cup {"asked", "sending"} =>
          s.file \in Media!Files /\ s.kind \in Sorts /\ s.since <= version[s.file]
    /\ s.at \in Called \cup {"sending"} => s.since <= s.version /\ s.version \in 1..version[s.file]
    /\ s.at \in Called => s.kind # "file"
    /\ (s.at = "made" \/ (s.at = "sending" /\ s.kind # "file")) =>
          cached[<<s.file, s.version, s.kind>>].of # 0

MediaInv ==
    /\ MediaTypes
    /\ \A k \in Media!Keys : MediaKept(k)
    /\ \A c \in Media!Callers : Caller(caller[c])
    /\ Media!UploadsArePrepared

LEMMA MediaBegins == ASSUME Media!MediaCacheAssumption, Media!Init PROVE MediaInv
  <1> USE DEF Media!Init
  <1>1. MediaTypes
    <2>1. version \in [Media!Files -> 1..MaxVersions] /\ present \subseteq Media!Files
      BY DEF Media!MediaCacheAssumption
    <2>2. cached \in [Media!Keys -> [of : Nat, whole : BOOLEAN]]
      <3>1. Media!Nothing \in [of : Nat, whole : BOOLEAN]
        BY DEF Media!Nothing
      <3>2. [of |-> 1, whole |-> TRUE] \in [of : Nat, whole : BOOLEAN]
        OBVIOUS
      <3> QED BY <3>1, <3>2
    <2>3. jobs \in [Media!Keys -> [at : {"none", "begun", "writing"}, tool : {"ffmpeg", "convert"},
                                   of : Nat]]
      BY DEF Media!NoJob
    <2>4. caller \in [Media!Callers -> Calls]
      BY DEF Media!Idle, Calls
    <2> QED BY <2>1, <2>2, <2>3, <2>4 DEF MediaTypes
  <1>2. \A k \in Media!Keys : MediaKept(k)
    BY DEF MediaKept, Media!Keys, Media!NoJob, Media!Nothing
  <1>3. \A c \in Media!Callers : Caller(caller[c])
    BY DEF Caller, Media!Idle, Called
  <1>4. Media!UploadsArePrepared
    BY DEF Media!UploadsArePrepared
  <1> QED BY <1>1, <1>2, <1>3, <1>4 DEF MediaInv

LEMMA KeyParts ==
    ASSUME MediaTypes, NEW k \in Media!Keys
    PROVE  /\ k[1] \in Media!Files /\ k[2] \in 1..MaxVersions
           /\ k[2] \in Nat /\ k[2] >= 1 /\ version[k[1]] \in 1..MaxVersions /\ version[k[1]] \in Nat
  <1>1. k[1] \in Media!Files /\ k[2] \in 1..MaxVersions
    BY DEF Media!Keys
  <1>2. version[k[1]] \in 1..MaxVersions
    BY <1>1 DEF MediaTypes
  <1> QED BY <1>1, <1>2, LibraryAssumption DEF Media!MediaCacheAssumption

LEMMA IsKey ==
    ASSUME MediaTypes, NEW s, s.file \in Media!Files, s.version \in 1..version[s.file],
           s.kind \in Sorts \ {"file"}
    PROVE  <<s.file, s.version, s.kind>> \in Media!Keys
  <1>1. version[s.file] \in 1..MaxVersions
    BY DEF MediaTypes
  <1>2. s.version \in 1..MaxVersions
    BY <1>1, LibraryAssumption DEF Media!MediaCacheAssumption
  <1>3. s.kind \in {"thumbnail", "preview", "video"}
    BY DEF Sorts
  <1> QED BY <1>2, <1>3 DEF Media!Keys

LEMMA KeyIsKey ==
    ASSUME MediaInv, NEW c \in Media!Callers, caller[c].at \in Called
    PROVE  Media!Key(c) \in Media!Keys
  <1>1. Caller(caller[c]) /\ MediaTypes
    BY DEF MediaInv
  <1> QED BY <1>1, IsKey DEF Media!Key, Caller

\* A caller stays right when files only get newer and nothing kept is lost.
LEMMA CallerStays ==
    ASSUME NEW s, s.since \in Nat, s.version \in Nat, Caller(s), MediaTypes, MediaTypes',
           \A f \in Media!Files : version[f] <= version'[f],
           \A k \in Media!Keys : cached[k].of # 0 => cached'[k].of # 0
    PROVE  Caller(s)'
  <1>1. \A f \in Media!Files : version[f] \in Nat /\ version'[f] \in Nat
    BY DEF MediaTypes
  <1>2. CASE s.at \in Called \cup {"asked", "sending"}
    <2>1. /\ s.file \in Media!Files /\ s.kind \in Sorts /\ s.since <= version[s.file]
          /\ version[s.file] <= version'[s.file]
      BY <1>2 DEF Caller
    <2>2. version[s.file] \in Nat /\ version'[s.file] \in Nat
      BY <1>1, <2>1
    <2>3. s.at \in Called \cup {"sending"} =>
             s.since <= s.version /\ s.version \in 1..version'[s.file]
      BY <2>1, <2>2 DEF Caller
    <2>4. s.since <= version'[s.file]
      BY <2>1, <2>2
    <2>5. ASSUME s.at = "made" \/ (s.at = "sending" /\ s.kind # "file")
          PROVE  cached'[<<s.file, s.version, s.kind>>].of # 0
      BY <2>5, IsKey DEF Caller, Called
    <2> QED BY <1>2, <2>1, <2>3, <2>4, <2>5 DEF Caller
  <1>3. CASE s.at \notin Called \cup {"asked", "sending"}
    BY <1>3 DEF Caller, Called
  <1> QED BY <1>2, <1>3

\* The files that are owed are looked after, when a caller that was not asking changes.
LEMMA OwedStays ==
    ASSUME Media!UploadsArePrepared, UNCHANGED <<queue, owed>>,
           \A c \in Media!Slots : caller[c].at = "asked" => caller'[c] = caller[c]
    PROVE  Media!UploadsArePrepared'
  BY DEF Media!UploadsArePrepared, Media!Queued, Media!Places, Media!Slots

LEMMA MediaStutters == ASSUME MediaInv, UNCHANGED mediaVars PROVE MediaInv'
  BY DEF mediaVars, MediaInv, MediaTypes, MediaKept, Caller, Media!UploadsArePrepared, Media!Queued

\* A step that touches one caller, which was not asking in a queue, and nothing kept.
LEMMA OneCaller ==
    ASSUME MediaInv, NEW c \in Media!Callers, NEW s,
           c \in Media!Slots => caller[c].at # "asked",
           s \in Calls,
           Caller(s), caller' = [caller EXCEPT ![c] = s],
           UNCHANGED <<version, present, cached, jobs, queue, fresh, owed>>
    PROVE  MediaInv'
  <1>1. MediaTypes'
    BY DEF MediaInv, MediaTypes
  <1>2. \A k \in Media!Keys : MediaKept(k)'
    BY DEF MediaInv, MediaKept
  <1>3. \A d \in Media!Callers : Caller(caller[d])'
    <2> TAKE d \in Media!Callers
    <2>1. Caller(caller'[d])
      BY DEF MediaInv, MediaTypes
    <2> QED BY <2>1 DEF Caller
  <1>4. Media!UploadsArePrepared'
    <2>1. \A d \in Media!Slots : caller[d].at = "asked" => caller'[d] = caller[d]
      BY DEF MediaInv, MediaTypes, Media!Callers
    <2> QED BY <2>1, OwedStays DEF MediaInv
  <1> QED BY <1>1, <1>2, <1>3, <1>4 DEF MediaInv

LEMMA IdleIsRight ==
    \A s \in {Media!Idle, Media!Over} :
        /\ s \in Calls
        /\ Caller(s)
  BY DEF Media!Idle, Media!Over, Caller, Called, Calls

LEMMA AskedIsRight ==
    ASSUME MediaTypes, NEW f \in Media!Files, NEW sort \in Sorts
    PROVE  /\ Media!Asked(f, sort) \in
                 Calls
           /\ Caller(Media!Asked(f, sort))
  <1>1. version[f] \in Nat
    BY DEF MediaTypes
  <1> QED BY <1>1 DEF Media!Asked, Caller, Called, Calls


LEMMA MediaAskKeeps ==
    ASSUME MediaInv, NEW c \in Viewers, NEW f \in Media!Files,
           Media!AskPicture(c, f) \/ Media!AskVideo(c, f) \/ Media!AskFile(c, f)
    PROVE  MediaInv'
  <1>1. PICK sort \in Sorts : Media!Ask(c, f, sort)
    BY DEF Media!AskPicture, Media!AskVideo, Media!AskFile, Sorts
  <1>2. Media!Asked(f, sort) \in Calls /\ Caller(Media!Asked(f, sort))
    BY AskedIsRight DEF MediaInv
  <1>3. c \in Media!Callers /\ c \notin Media!Slots
    BY LibraryAssumption DEF Media!MediaCacheAssumption, Media!Callers, Media!Slots
  <1> QED BY <1>1, <1>2, <1>3, OneCaller DEF Media!Ask, Media!files

\* What a caller becomes when it is served, or fails.
LEMMA ServedIsRight ==
    ASSUME MediaInv, NEW c \in Media!Callers, caller[c].at \in {"looking", "made"},
           cached[Media!Key(c)].of # 0
    PROVE  Media!Served(c) \in Calls /\ Caller(Media!Served(c))
  <1>1. caller[c] \in Calls /\ Caller(caller[c])
    BY DEF MediaInv, MediaTypes
  <1>2. caller[c].file \in Media!Files
    BY <1>1 DEF Caller, Called
  <1>3. CASE c \in Viewers
    <2>1. Media!Served(c) = [caller[c] EXCEPT !.at = "sending"]
      BY <1>3 DEF Media!Served
    <2> QED BY <1>1, <2>1 DEF Calls, Caller, Called, Media!Key
  <1>4. CASE c \notin Viewers
    <2>1. Media!Served(c) \in {Media!Asked(caller[c].file, "preview"), Media!Over}
      BY <1>4 DEF Media!Served
    <2> QED BY <1>2, <2>1, AskedIsRight, IdleIsRight DEF MediaInv, Sorts
  <1> QED BY <1>3, <1>4

LEMMA MediaFindKeeps == ASSUME MediaInv, NEW c \in Media!Callers, Media!Find(c) PROVE MediaInv'
  <1> DEFINE f == caller[c].file
  <1> USE DEF Media!Find, Media!downloadFile
  <1>1. caller[c] \in Calls /\ Caller(caller[c])
    BY DEF MediaInv, MediaTypes
  <1>2. f \in Media!Files /\ caller[c].since <= version[f] /\ version[f] \in 1..MaxVersions
    BY <1>1 DEF Caller, MediaInv, MediaTypes
  <1>3. PICK s \in Calls : Caller(s) /\ caller' = [caller EXCEPT ![c] = s]
    <2>1. CASE f \notin present
      BY <2>1, IdleIsRight DEF Media!Failed
    <2>2. CASE f \in present
      <3> DEFINE s == [caller[c] EXCEPT !.at = IF caller[c].kind = "file" THEN "sending" ELSE "looking",
                                        !.version = version[f]]
      <3>1. version[f] \in Nat /\ 1 <= version[f]
        BY <1>2, LibraryAssumption DEF Media!MediaCacheAssumption
      <3>2. s \in Calls
        BY <1>1, <3>1 DEF Calls, Called
      <3>3. Caller(s)
        BY <1>1, <1>2, <3>1 DEF Caller, Calls, Called
      <3>4. caller' = [caller EXCEPT ![c] = s]
        BY <2>2, <1>1 DEF MediaInv, MediaTypes, Calls
      <3> QED BY <3>2, <3>3, <3>4
    <2> QED BY <2>1, <2>2
  <1>4. MediaTypes'
    BY <1>3 DEF MediaInv, MediaTypes, Media!files, Media!others
  <1>5. \A k \in Media!Keys : MediaKept(k)'
    BY DEF MediaInv, MediaKept, Media!files
  <1>6. \A d \in Media!Callers : Caller(caller[d])'
    <2> TAKE d \in Media!Callers
    <2>1. Caller(caller'[d])
      BY <1>3 DEF MediaInv, MediaTypes
    <2> QED BY <2>1 DEF Caller, Media!files
  <1>7. Media!UploadsArePrepared'
    <2> SUFFICES ASSUME NEW q \in Media!Queues, NEW g \in owed'[q]
                 PROVE  \/ Media!Queued(q, g)'
                        \/ \E d \in Media!Places(q) :
                              /\ caller'[d].at = "asked" /\ caller'[d].file = g
                              /\ caller'[d].kind = Media!First(q)
      BY DEF Media!UploadsArePrepared
    <2>1. g \in owed[q] /\ ~(c \in Media!Places(q) /\ caller[c].kind = Media!First(q) /\ g = caller[c].file)
      OBVIOUS
    <2>2. CASE Media!Queued(q, g)
      BY <2>2 DEF Media!Queued
    <2>3. ASSUME NEW d \in Media!Places(q), caller[d].at = "asked", caller[d].file = g,
                 caller[d].kind = Media!First(q)
          PROVE  caller'[d] = caller[d]
      <3>1. d # c
        BY <2>1, <2>3
      <3>2. d \in Media!Callers
        BY DEF Media!Places, Media!Callers, Media!Slots
      <3> QED BY <1>3, <3>1, <3>2 DEF MediaInv, MediaTypes
    <2> QED BY <2>1, <2>2, <2>3 DEF MediaInv, Media!UploadsArePrepared
  <1> QED BY <1>4, <1>5, <1>6, <1>7 DEF MediaInv

LEMMA LookKeeps ==
    ASSUME MediaInv, NEW c \in Media!Callers, Media!Look(c) \/ Media!Made(c) \/ Media!Sent(c)
    PROVE  MediaInv'
  <1>1. caller[c] \in Calls /\ Caller(caller[c]) /\ caller[c].at # "asked"
    BY DEF MediaInv, MediaTypes, Media!Look, Media!Made, Media!Sent
  <1>2. PICK s \in Calls : Caller(s) /\ caller' = [caller EXCEPT ![c] = s]
    <2>1. CASE caller' = [caller EXCEPT ![c].at = "missing"] /\ caller[c].at = "looking"
      <3>1. [caller[c] EXCEPT !.at = "missing"] \in Calls /\ Caller([caller[c] EXCEPT !.at = "missing"])
        BY <1>1, <2>1 DEF Calls, Caller, Called
      <3> QED BY <2>1, <3>1 DEF MediaInv, MediaTypes
    <2>2. CASE caller' = [caller EXCEPT ![c] = Media!Served(c)] /\ caller[c].at = "looking"
               /\ cached[Media!Key(c)].of # 0
      BY <2>2, ServedIsRight
    <2>3. CASE Media!Made(c)
      BY <1>1, <2>3, ServedIsRight DEF Media!Made, Caller, Media!Key
    <2>4. CASE Media!Sent(c)
      BY <2>4, IdleIsRight DEF Media!Sent
    <2> QED BY <2>1, <2>2, <2>3, <2>4 DEF Media!Look
  <1>3. UNCHANGED <<version, present, cached, jobs, queue, fresh, owed>>
    BY DEF Media!Look, Media!Made, Media!Sent, Media!files, Media!others
  <1> QED BY <1>1, <1>2, <1>3, OneCaller


LEMMA JoinKeeps == ASSUME MediaInv, NEW c \in Media!Callers, Media!Join(c) PROVE MediaInv'
  <1> DEFINE j == Media!Key(c)
  <1> USE DEF Media!Join
  <1>1. caller[c] \in Calls /\ Caller(caller[c]) /\ j \in Media!Keys
    BY KeyIsKey DEF MediaInv, MediaTypes, Called
  <1>2. j[1] = caller[c].file /\ j[2] = caller[c].version
    BY DEF Media!Key
  <1>3. j[2] <= version[j[1]]
    BY <1>1, <1>2 DEF Caller, Called
  <1>4. MediaTypes'
    <2>1. [caller[c] EXCEPT !.at = "waiting"] \in Calls
      BY <1>1 DEF Calls, Called
    <2>2. caller' \in [Media!Callers -> Calls]
      BY <2>1 DEF MediaInv, MediaTypes
    <2>3. jobs' \in [Media!Keys -> [at : {"none", "begun", "writing"}, tool : {"ffmpeg", "convert"},
                                    of : Nat]]
      BY <1>1 DEF MediaInv, MediaTypes
    <2> QED BY <2>2, <2>3 DEF MediaInv, MediaTypes, Media!files, Media!others
  <1>5. \A k \in Media!Keys : MediaKept(k)'
    <2> TAKE k \in Media!Keys
    <2>1. MediaKept(k) /\ jobs[k] \in [at : {"none", "begun", "writing"}, tool : {"ffmpeg", "convert"}, of : Nat]
      BY DEF MediaInv, MediaTypes
    <2>2. jobs'[k] = jobs[k] \/ (k = j /\ jobs'[k].at = "begun")
      BY <1>1 DEF MediaInv, MediaTypes
    <2>3. UNCHANGED <<cached, version>>
      BY DEF Media!files
    <2>4. CASE jobs'[k] = jobs[k]
      BY <2>1, <2>3, <2>4 DEF MediaKept
    <2>5. CASE k = j /\ jobs'[k].at = "begun"
      BY <1>3, <2>1, <2>3, <2>5 DEF MediaKept
    <2> QED BY <2>2, <2>4, <2>5
  <1>6. \A d \in Media!Callers : Caller(caller[d])'
    <2> TAKE d \in Media!Callers
    <2>1. Caller(caller'[d])
      BY <1>1 DEF MediaInv, MediaTypes, Caller, Called
    <2> QED BY <2>1 DEF Caller, Media!files
  <1>7. Media!UploadsArePrepared'
    <2>1. \A d \in Media!Slots : caller[d].at = "asked" => caller'[d] = caller[d]
      BY DEF MediaInv, MediaTypes, Media!Callers
    <2> QED BY <2>1, OwedStays DEF MediaInv
  <1> QED BY <1>4, <1>5, <1>6, <1>7 DEF MediaInv

LEMMA OpensKeeps == ASSUME MediaInv, NEW j \in Media!Keys, Media!Opens(j) PROVE MediaInv'
  <1>0. /\ jobs[j].at = "begun" /\ j[1] \in present
        /\ jobs' = [jobs EXCEPT ![j].at = "writing", ![j].of = version[j[1]]]
        /\ cached' = IF j[3] = "video" THEN cached
                     ELSE [cached EXCEPT ![j] = [of |-> version[j[1]], whole |-> FALSE]]
        /\ UNCHANGED <<Media!files, caller, queue, owed, Media!others>>
    BY DEF Media!Opens, Media!WritesPicture, Media!WritesVideo
  <1> USE <1>0
  <1>1. j[1] \in Media!Files /\ j[2] \in Nat /\ version[j[1]] \in Nat /\ j[2] >= 1 
    BY KeyParts DEF MediaInv
  <1>2. j[2] <= version[j[1]] /\ version[j[1]] # 0
    BY <1>1 DEF MediaInv, MediaKept, Media!NoJob
  <1>3. MediaTypes'
    <2>1. cached' \in [Media!Keys -> [of : Nat, whole : BOOLEAN]]
      BY <1>1 DEF MediaInv, MediaTypes
    <2>2. jobs' \in [Media!Keys -> [at : {"none", "begun", "writing"}, tool : {"ffmpeg", "convert"},
                                    of : Nat]]
      BY <1>1 DEF MediaInv, MediaTypes
    <2> QED BY <2>1, <2>2 DEF MediaInv, MediaTypes, Media!files, Media!others
  <1>4. \A k \in Media!Keys : MediaKept(k)'
    <2> TAKE k \in Media!Keys
    <2>1. MediaKept(k)
      BY DEF MediaInv
    <2>2. CASE k # j
      BY <2>1, <2>2 DEF MediaInv, MediaTypes, MediaKept, Media!files
    <2>3. CASE k = j
      <3>1. jobs'[j] = [jobs[j] EXCEPT !.at = "writing", !.of = version[j[1]]]
        BY DEF MediaInv, MediaTypes
      <3>2. cached'[j] = cached[j] \/ (j[3] # "video" /\ cached'[j] = [of |-> version[j[1]], whole |-> FALSE])
        BY DEF MediaInv, MediaTypes
      <3>3. jobs'[j].of = version[j[1]]
        BY <3>1 DEF MediaInv, MediaTypes
      <3>4. cached'[j].of # 0 => cached'[j].of >= j[2]
        BY <1>2, <2>1, <2>3, <3>2 DEF MediaKept
      <3>5. (j[3] = "video" /\ cached'[j].of # 0) => cached'[j].whole
        BY <2>1, <2>3, <3>2 DEF MediaKept
      <3>6. jobs'[j].of >= j[2] /\ j[2] <= version'[j[1]]
        BY <1>1, <1>2, <3>3 DEF Media!files
      <3> QED BY <2>3, <3>4, <3>5, <3>6 DEF MediaKept
    <2> QED BY <2>2, <2>3
  <1>5. \A k \in Media!Keys : cached[k].of # 0 => cached'[k].of # 0
    BY <1>2 DEF MediaInv, MediaTypes
  <1>6. \A d \in Media!Callers : Caller(caller[d])'
    <2> TAKE d \in Media!Callers
    <2>1. Caller(caller[d]) /\ caller[d].since \in Nat /\ caller[d].version \in Nat
      BY DEF MediaInv, MediaTypes, Calls
    <2>2. caller' = caller /\ version' = version /\ \A f \in Media!Files : version[f] <= version'[f]
      BY DEF Media!files, MediaInv, MediaTypes
    <2>3. Caller(caller[d])'
      BY <1>3, <1>5, <2>1, <2>2, CallerStays DEF MediaInv
    <2> QED BY <2>3
  <1>7. Media!UploadsArePrepared'
    BY OwedStays DEF MediaInv
  <1> QED BY <1>3, <1>4, <1>6, <1>7 DEF MediaInv


LEMMA FinishesKeeps == ASSUME MediaInv, NEW j \in Media!Keys, Media!Finishes(j) PROVE MediaInv'
  <1> USE DEF Media!Finishes
  <1>1. jobs[j].of \in Nat /\ jobs[j].of >= j[2] /\ j[2] \in Nat /\ j[2] >= 1
    BY KeyParts DEF MediaInv, MediaTypes, MediaKept
  <1>2. MediaTypes'
    <2>1. cached' \in [Media!Keys -> [of : Nat, whole : BOOLEAN]]
      BY <1>1 DEF MediaInv, MediaTypes
    <2>2. jobs' \in [Media!Keys -> [at : {"none", "begun", "writing"}, tool : {"ffmpeg", "convert"},
                                    of : Nat]]
      BY DEF MediaInv, MediaTypes, Media!NoJob
    <2>3. caller' \in [Media!Callers -> Calls]
      <3> SUFFICES ASSUME NEW d \in Media!Callers
                   PROVE  caller[d] \in Calls /\ [caller[d] EXCEPT !.at = "made"] \in Calls
        OBVIOUS
      <3> QED BY DEF MediaInv, MediaTypes, Calls, Called
    <2> QED BY <2>1, <2>2, <2>3 DEF MediaInv, MediaTypes, Media!files, Media!others
  <1>3. \A k \in Media!Keys : MediaKept(k)'
    <2> TAKE k \in Media!Keys
    <2>1. MediaKept(k) /\ UNCHANGED version
      BY DEF MediaInv, Media!files
    <2>2. CASE k # j
      <3>1. cached'[k] = cached[k] /\ jobs'[k] = jobs[k]
        BY <2>2 DEF MediaInv, MediaTypes
      <3> QED BY <2>1, <3>1 DEF MediaKept
    <2>3. CASE k = j
      <3>1. cached'[k] = [of |-> jobs[j].of, whole |-> TRUE] /\ jobs'[k] = Media!NoJob
        BY <2>3 DEF MediaInv, MediaTypes
      <3> QED BY <1>1, <2>3, <3>1 DEF MediaKept, Media!NoJob
    <2> QED BY <2>2, <2>3
  <1>4. \A k \in Media!Keys : cached[k].of # 0 => cached'[k].of # 0
    BY <1>1 DEF MediaInv, MediaTypes
  <1>5. cached'[j].of # 0
    BY <1>1 DEF MediaInv, MediaTypes
  <1>6. \A d \in Media!Callers : Caller(caller[d])'
    <2> TAKE d \in Media!Callers
    <2>1. Caller(caller[d]) /\ caller[d] \in Calls /\ UNCHANGED version
      BY DEF MediaInv, MediaTypes, Media!files
    <2>2. Caller(caller[d])' \/ Media!Waiting(d, j)
      <3>1. \A f \in Media!Files : version[f] <= version'[f]
        BY <2>1 DEF MediaInv, MediaTypes
      <3>2. ASSUME ~Media!Waiting(d, j) PROVE caller'[d] = caller[d]
        BY <3>2
      <3> DEFINE s == caller[d]
      <3>3. /\ s.at \in Called \cup {"sending"} => s.since <= s.version /\ s.version \in 1..version'[s.file]
            /\ (s.at = "made" \/ (s.at = "sending" /\ s.kind # "file")) =>
                  cached'[<<s.file, s.version, s.kind>>].of # 0
        BY <1>4, <2>1, IsKey DEF Caller, Called, MediaInv
      <3> QED BY <2>1, <3>2, <3>3 DEF Caller
    <2>3. CASE Media!Waiting(d, j)
      <3>1. caller'[d] = [caller[d] EXCEPT !.at = "made"]
        BY <2>3
      <3>2. j = <<caller[d].file, caller[d].version, caller[d].kind>> /\ caller[d].at \in Called
        BY <2>3 DEF Media!Waiting, Media!Key, Called
      <3>3. /\ caller'[d].file = caller[d].file /\ caller'[d].version = caller[d].version
            /\ caller'[d].kind = caller[d].kind /\ caller'[d].since = caller[d].since
            /\ caller'[d].at = "made"
        BY <2>1, <3>1 DEF Calls
      <3> QED BY <1>5, <2>1, <3>2, <3>3 DEF Caller, Called
    <2> QED BY <2>2, <2>3
  <1>7. Media!UploadsArePrepared'
    <2>1. \A d \in Media!Slots : caller[d].at = "asked" => caller'[d] = caller[d]
      BY DEF Media!Callers, Media!Waiting
    <2> QED BY <2>1, OwedStays DEF MediaInv
  <1> QED BY <1>2, <1>3, <1>6, <1>7 DEF MediaInv

LEMMA BreaksKeeps == ASSUME MediaInv, NEW j \in Media!Keys, Media!Breaks(j) PROVE MediaInv'
  <1> USE DEF Media!Breaks
  <1>1. jobs' = [jobs EXCEPT ![j] = [at |-> "begun", tool |-> "convert", of |-> 0]]
        \/ jobs' = [jobs EXCEPT ![j] = Media!NoJob]
    OBVIOUS
  <1>2. \A d \in Media!Callers :
           caller'[d] = caller[d]
           \/ (caller[d].at = "waiting" /\ caller'[d] \in {Media!Idle, Media!Over})
    BY DEF Media!Failed, Media!Waiting
  <1>3. UNCHANGED <<version, present, cached, queue, owed, fresh>>
    BY DEF Media!files, Media!others
  <1>4. MediaTypes'
    <2>1. jobs' \in [Media!Keys -> [at : {"none", "begun", "writing"}, tool : {"ffmpeg", "convert"},
                                    of : Nat]]
      <3> DEFINE J == [at : {"none", "begun", "writing"}, tool : {"ffmpeg", "convert"}, of : Nat]
      <3>1. [at |-> "begun", tool |-> "convert", of |-> 0] \in J /\ Media!NoJob \in J
        BY DEF Media!NoJob
      <3> QED BY <1>1, <3>1 DEF MediaInv, MediaTypes
    <2>2. \A d \in Media!Callers : caller'[d] \in Calls
      BY <1>2, IdleIsRight DEF MediaInv, MediaTypes
    <2>3. caller' \in [Media!Callers -> Calls]
      <3>1. caller' = caller \/ caller' = [d \in Media!Callers |-> IF Media!Waiting(d, j) THEN Media!Failed(d) ELSE caller[d]]
        OBVIOUS
      <3> QED BY <2>2, <3>1 DEF MediaInv, MediaTypes
    <2> QED BY <1>3, <2>1, <2>3 DEF MediaInv, MediaTypes
  <1>5. \A k \in Media!Keys : MediaKept(k)'
    <2> TAKE k \in Media!Keys
    <2>1. CASE k # j
      <3>1. jobs'[k] = jobs[k]
        BY <1>1, <2>1 DEF MediaInv, MediaTypes
      <3> QED BY <1>3, <3>1 DEF MediaInv, MediaKept
    <2>2. CASE k = j
      <3>1. jobs'[k].at # "writing" /\ k[2] <= version[k[1]]
        BY <1>1, <2>2 DEF MediaInv, MediaTypes, MediaKept, Media!NoJob
      <3> QED BY <1>3, <3>1 DEF MediaInv, MediaKept
    <2> QED BY <2>1, <2>2
  <1>6. \A d \in Media!Callers : Caller(caller[d])'
    <2> TAKE d \in Media!Callers
    <2>1. Caller(caller'[d])
      BY <1>2, IdleIsRight DEF MediaInv
    <2> QED BY <1>3, <2>1 DEF Caller
  <1>7. Media!UploadsArePrepared'
    <2>1. \A d \in Media!Slots : caller[d].at = "asked" => caller'[d] = caller[d]
      BY <1>2 DEF Media!Callers
    <2> QED BY <1>3, <2>1, OwedStays DEF MediaInv
  <1> QED BY <1>4, <1>5, <1>6, <1>7 DEF MediaInv


LEMMA QueueEnd ==
    ASSUME NEW S, NEW s \in Seq(S), s # <<>>
    PROVE  /\ Head(s) \in S /\ Tail(s) \in Seq(S)
           /\ \A f \in Media!ToSet(s) : f = Head(s) \/ f \in Media!ToSet(Tail(s))
  <1>1. Len(s) \in Nat /\ Len(s) >= 1 /\ DOMAIN s = 1..Len(s)
    BY EmptySeq, LenProperties
  <1>2. Head(s) = s[1] /\ Head(s) \in S /\ Tail(s) \in Seq(S) /\ Len(Tail(s)) = Len(s) - 1
        /\ \A i \in 1..Len(Tail(s)) : Tail(s)[i] = s[i + 1]
    BY HeadTailProperties
  <1>3. ASSUME NEW f \in Media!ToSet(s), f # Head(s) PROVE f \in Media!ToSet(Tail(s))
    <2>1. PICK i \in DOMAIN s : f = s[i]
      BY <1>3 DEF Media!ToSet
    <2>2. i - 1 \in 1..Len(Tail(s)) /\ (i - 1) + 1 = i
      BY <1>1, <1>2, <1>3, <2>1
    <2>3. Tail(s)[i - 1] = f
      BY <1>2, <2>1, <2>2
    <2>4. i - 1 \in DOMAIN Tail(s)
      BY <1>2, <2>2, LenProperties
    <2> QED BY <2>3, <2>4 DEF Media!ToSet
  <1> QED BY <1>2, <1>3

LEMMA TakesKeeps ==
    ASSUME MediaInv, NEW q \in Media!Queues, NEW c \in Media!Slots, Media!TakesNext(q, c)
    PROVE  MediaInv'
  <1> USE DEF Media!TakesNext
  <1>1. c \in Media!Callers /\ caller[c].at # "asked"
    BY DEF Media!Callers
  <1>2. CASE queue[q] = <<>> /\ caller' = [caller EXCEPT ![c] = Media!Idle] /\ UNCHANGED queue
    BY <1>1, <1>2, IdleIsRight, OneCaller DEF Media!files, Media!others
  <1>3. CASE /\ queue[q] # <<>>
             /\ caller' = [caller EXCEPT ![c] = Media!Asked(Head(queue[q]), Media!First(q))]
             /\ queue' = [queue EXCEPT ![q] = Tail(@)]
    <2> DEFINE s == Media!Asked(Head(queue[q]), Media!First(q))
    <2>1. queue[q] \in Seq(Media!Files)
      BY DEF MediaInv, MediaTypes
    <2>2. Head(queue[q]) \in Media!Files /\ Tail(queue[q]) \in Seq(Media!Files)
      BY <1>3, <2>1, QueueEnd
    <2>3. Media!First(q) \in Sorts
      BY DEF Media!First, Sorts
    <2>4. s \in Calls /\ Caller(s)
      BY <2>2, <2>3, AskedIsRight DEF MediaInv
    <2>5. UNCHANGED <<version, present, cached, jobs, owed, fresh>>
      BY DEF Media!files, Media!others
    <2>6. caller'[c] = s /\ \A d \in Media!Callers \ {c} : caller'[d] = caller[d]
      BY <1>1, <1>3 DEF MediaInv, MediaTypes
    <2>7. MediaTypes'
      BY <1>3, <2>2, <2>4, <2>5 DEF MediaInv, MediaTypes
    <2>8. \A k \in Media!Keys : MediaKept(k)'
      BY <2>5 DEF MediaInv, MediaKept
    <2>9. \A d \in Media!Callers : Caller(caller[d])'
      <3> TAKE d \in Media!Callers
      <3>1. Caller(caller'[d])
        BY <2>4, <2>6 DEF MediaInv
      <3> QED BY <2>5, <3>1 DEF Caller
    <2>10. Media!UploadsArePrepared'
      <3> SUFFICES ASSUME NEW r \in Media!Queues, NEW g \in owed[r]
                   PROVE  \/ Media!Queued(r, g)'
                          \/ \E d \in Media!Places(r) :
                                /\ caller'[d].at = "asked" /\ caller'[d].file = g
                                /\ caller'[d].kind = Media!First(r)
        BY <2>5 DEF Media!UploadsArePrepared
      <3>1. CASE \E d \in Media!Places(r) : /\ caller[d].at = "asked" /\ caller[d].file = g
                                            /\ caller[d].kind = Media!First(r)
        BY <1>1, <2>6, <3>1 DEF Media!Places, Media!Callers, Media!Slots
      <3>2. CASE Media!Queued(r, g) /\ r # q
        <4>1. queue'[r] = queue[r]
          BY <1>3, <3>2 DEF MediaInv, MediaTypes
        <4> QED BY <3>2, <4>1 DEF Media!Queued
      <3>3. CASE Media!Queued(r, g) /\ r = q
        <4>1. g = Head(queue[q]) \/ g \in Media!ToSet(Tail(queue[q]))
          BY <1>3, <2>1, <3>3, QueueEnd DEF Media!Queued
        <4>2. queue'[q] = Tail(queue[q])
          BY <1>3 DEF MediaInv, MediaTypes
        <4>3. s.at = "asked" /\ s.file = Head(queue[q]) /\ s.kind = Media!First(q)
          BY DEF Media!Asked
        <4> QED BY <2>6, <3>3, <4>1, <4>2, <4>3 DEF Media!Queued
      <3> QED BY <3>1, <3>2, <3>3 DEF MediaInv, Media!UploadsArePrepared
    <2> QED BY <2>7, <2>8, <2>9, <2>10 DEF MediaInv
  <1> QED BY <1>2, <1>3

\* Every file of a line that is enqueued is in the queue, or with the place that took it.
LEMMA EnqueueKeeps ==
    ASSUME MediaInv, NEW f \in Media!Files, Media!Enqueue(f),
           owed' \in [Media!Queues -> SUBSET Media!Files], fresh' \subseteq Media!Files,
           \A q \in Media!Queues : \A g \in owed'[q] :
               g \in owed[q] \/ (g = f /\ (q = "videos" => f \in Clips))
    PROVE  MediaInv'
  <1> USE DEF Media!Enqueue
  <1>1. UNCHANGED <<version, present, cached, jobs>>
    BY DEF Media!files
  <1>2. \A q \in Media!Queues :
           /\ Media!Line(q, f) \in Seq(Media!Files)
           /\ Media!ToSet(queue[q]) \subseteq Media!ToSet(Media!Line(q, f))
           /\ (q = "videos" => f \in Clips) => f \in Media!ToSet(Media!Line(q, f))
    <2> TAKE q \in Media!Queues
    <2>1. queue[q] \in Seq(Media!Files)
      BY DEF MediaInv, MediaTypes
    <2>2. Append(queue[q], f) \in Seq(Media!Files) /\ Len(Append(queue[q], f)) = Len(queue[q]) + 1
          /\ Append(queue[q], f)[Len(queue[q]) + 1] = f
          /\ \A i \in 1..Len(queue[q]) : Append(queue[q], f)[i] = queue[q][i]
      BY <2>1, AppendProperties
    <2>3. DOMAIN queue[q] = 1..Len(queue[q]) /\ DOMAIN Append(queue[q], f) = 1..(Len(queue[q]) + 1)
          /\ Len(queue[q]) \in Nat
      BY <2>1, <2>2, LenProperties
    <2>4. Media!ToSet(queue[q]) \cup {f} \subseteq Media!ToSet(Append(queue[q], f))
      BY <2>2, <2>3 DEF Media!ToSet
    <2> QED BY <2>1, <2>2, <2>4 DEF Media!Line, Media!Queued
  <1>3. \A q \in Media!Queues : Media!Free(q) # {} =>
           Media!Taker(q) \in Media!Places(q) /\ caller[Media!Taker(q)] = Media!Idle
    BY DEF Media!Free, Media!Taker
  <1>4. \A q, r \in Media!Queues : q # r => Media!Places(q) \cap Media!Places(r) = {}
    BY LibraryAssumption DEF Media!Queues, Media!Places, Media!MediaCacheAssumption
  <1>5. \A q \in Media!Queues : Media!Places(q) \subseteq Media!Callers
    BY DEF Media!Places, Media!Callers, Media!Slots
  <1>6. ASSUME NEW q \in Media!Queues, Media!Takes(q, f)
        PROVE  caller'[Media!Taker(q)] = Media!Asked(Head(Media!Line(q, f)), Media!First(q))
    <2>1. Media!Taker(q) \in Media!Places(q) /\ Media!Taker(q) \in Media!Callers
      BY <1>3, <1>5, <1>6 DEF Media!Takes
    <2>2. \A r \in Media!Queues : Media!Taker(q) \in Media!Places(r) => r = q
      BY <1>4, <2>1
    <2>3. (CHOOSE r \in Media!Queues : Media!Taker(q) \in Media!Places(r)) = q
      BY <2>1, <2>2
    <2> QED BY <1>6, <2>1, <2>3
  <1>7. ASSUME NEW d \in Media!Callers
        PROVE  \/ caller'[d] = caller[d]
               \/ /\ caller[d] = Media!Idle
                  /\ \E q \in Media!Queues : Media!Takes(q, f) /\ d = Media!Taker(q)
    BY <1>3 DEF Media!Takes
  <1>8. ASSUME NEW q \in Media!Queues, Media!Takes(q, f)
        PROVE  /\ Media!Asked(Head(Media!Line(q, f)), Media!First(q)) \in Calls
               /\ Caller(Media!Asked(Head(Media!Line(q, f)), Media!First(q)))
    <2>1. Head(Media!Line(q, f)) \in Media!Files
      BY <1>2, <1>8, QueueEnd DEF Media!Takes
    <2>2. Media!First(q) \in Sorts
      BY DEF Media!First, Sorts
    <2> QED BY <2>1, <2>2, AskedIsRight DEF MediaInv
  <1>9. /\ queue' = [q \in Media!Queues |-> IF Media!Takes(q, f) THEN Tail(Media!Line(q, f))
                                           ELSE Media!Line(q, f)]
        /\ DOMAIN caller' = Media!Callers /\ caller' = [d \in Media!Callers |-> caller'[d]]
    OBVIOUS
  <1> HIDE DEF Media!Enqueue
  <1>14. \A d \in Media!Callers : caller'[d] \in Calls /\ Caller(caller'[d])
    <2> TAKE d \in Media!Callers
    <2>1. CASE caller'[d] = caller[d]
      BY <2>1 DEF MediaInv, MediaTypes
    <2>2. ASSUME NEW q \in Media!Queues, Media!Takes(q, f), d = Media!Taker(q)
          PROVE  caller'[d] \in Calls /\ Caller(caller'[d])
      BY <1>6, <1>8, <2>2
    <2> QED BY <1>7, <2>1, <2>2
  <1>10. MediaTypes'
    <2>1. queue' \in [Media!Queues -> Seq(Media!Files)]
      <3> SUFFICES ASSUME NEW q \in Media!Queues
                   PROVE  (IF Media!Takes(q, f) THEN Tail(Media!Line(q, f)) ELSE Media!Line(q, f))
                             \in Seq(Media!Files)
        BY <1>9
      <3> QED BY <1>2, QueueEnd DEF Media!Takes
    <2>2. caller' \in [Media!Callers -> Calls]
      BY <1>9, <1>14
    <2> QED BY <1>1, <2>1, <2>2 DEF MediaInv, MediaTypes
  <1>11. \A k \in Media!Keys : MediaKept(k)'
    BY <1>1 DEF MediaInv, MediaKept
  <1>12. \A d \in Media!Callers : Caller(caller[d])'
    BY <1>1, <1>14 DEF Caller
  <1>13. Media!UploadsArePrepared'
    <2> SUFFICES ASSUME NEW q \in Media!Queues, NEW g \in owed'[q]
                 PROVE  \/ Media!Queued(q, g)'
                        \/ \E d \in Media!Places(q) :
                              /\ caller'[d].at = "asked" /\ caller'[d].file = g
                              /\ caller'[d].kind = Media!First(q)
      BY DEF Media!UploadsArePrepared
    <2>1. CASE \E d \in Media!Places(q) : /\ caller[d].at = "asked" /\ caller[d].file = g
                                          /\ caller[d].kind = Media!First(q)
      <3>1. PICK d \in Media!Places(q) : /\ caller[d].at = "asked" /\ caller[d].file = g
                                         /\ caller[d].kind = Media!First(q)
        BY <2>1
      <3>2. d \in Media!Callers /\ caller[d] # Media!Idle
        BY <1>5, <3>1 DEF Media!Idle
      <3> QED BY <1>7, <3>1, <3>2
    <2>2. CASE g \in Media!ToSet(Media!Line(q, f))
      <3>1. CASE Media!Takes(q, f)
        <4>1. g = Head(Media!Line(q, f)) \/ g \in Media!ToSet(Tail(Media!Line(q, f)))
          BY <1>2, <2>2, <3>1, QueueEnd DEF Media!Takes
        <4>2. queue'[q] = Tail(Media!Line(q, f))
          BY <1>9, <3>1
        <4>3. /\ caller'[Media!Taker(q)].at = "asked" /\ Media!Taker(q) \in Media!Places(q)
              /\ caller'[Media!Taker(q)].file = Head(Media!Line(q, f))
              /\ caller'[Media!Taker(q)].kind = Media!First(q)
          <5>1. Media!Taker(q) \in Media!Places(q)
            BY <1>3, <3>1 DEF Media!Takes
          <5>2. caller'[Media!Taker(q)] = Media!Asked(Head(Media!Line(q, f)), Media!First(q))
            BY <1>6, <3>1
          <5>3. \A h, sort : /\ Media!Asked(h, sort).at = "asked" /\ Media!Asked(h, sort).file = h
                             /\ Media!Asked(h, sort).kind = sort
            BY DEF Media!Asked
          <5> QED BY <5>1, <5>2, <5>3
        <4> QED BY <4>1, <4>2, <4>3 DEF Media!Queued
      <3>2. CASE ~Media!Takes(q, f)
        BY <1>9, <2>2, <3>2 DEF Media!Queued
      <3> QED BY <3>1, <3>2
    <2>3. CASE g \in owed[q]
      <3>1. g \in Media!ToSet(queue[q])
               \/ \E d \in Media!Places(q) : /\ caller[d].at = "asked" /\ caller[d].file = g
                                             /\ caller[d].kind = Media!First(q)
        BY <2>3 DEF MediaInv, Media!UploadsArePrepared, Media!Queued
      <3> QED BY <1>2, <2>1, <2>2, <3>1
    <2>4. CASE g = f /\ (q = "videos" => f \in Clips)
      BY <1>2, <2>2, <2>4
    <2> QED BY <2>3, <2>4
  <1> QED BY <1>10, <1>11, <1>12, <1>13 DEF MediaInv


LEMMA OutsideKeeps ==
    ASSUME MediaInv, NEW f \in Media!Files,
           \/ Media!Prewarm(f) \/ Media!Warm(f) \/ Media!SaveFails(f)
           \/ Media!Upload(f) \/ Media!Write(f) \/ Media!Delete(f)
    PROVE  MediaInv'
  <1> USE DEF Media!files
  <1>1. owed \in [Media!Queues -> SUBSET Media!Files] /\ fresh \subseteq Media!Files
    BY DEF MediaInv, MediaTypes
  <1>2. CASE Media!Prewarm(f)
    BY <1>1, <1>2, EnqueueKeeps DEF Media!Prewarm
  <1>3. CASE Media!Warm(f)
    <2>1. fresh' \subseteq Media!Files
      BY <1>1, <1>3 DEF Media!Warm
    <2>2. owed' = [q \in Media!Queues |->
              IF q = "videos" /\ f \notin Clips THEN owed[q] ELSE owed[q] \cup {f}]
      BY <1>3 DEF Media!Warm
    <2>3. owed' \in [Media!Queues -> SUBSET Media!Files]
      BY <1>1, <2>2
    <2>4. \A q \in Media!Queues : \A g \in owed'[q] :
              g \in owed[q] \/ (g = f /\ (q = "videos" => f \in Clips))
      BY <2>2
    <2>5. Media!Enqueue(f)
      BY <1>3 DEF Media!Warm
    <2> QED BY <2>1, <2>3, <2>4, <2>5, EnqueueKeeps
  <1>4. CASE Media!SaveFails(f)
    BY <1>1, <1>4 DEF Media!SaveFails, MediaInv, MediaTypes, MediaKept, Caller,
                      Media!UploadsArePrepared, Media!Queued
  <1>5. CASE Media!Delete(f)
    BY <1>1, <1>5 DEF Media!Delete, MediaInv, MediaTypes, MediaKept, Caller,
                      Media!UploadsArePrepared, Media!Queued
  <1>6. CASE Media!Upload(f) \/ Media!Write(f)
    <2>1. /\ version[f] \in 1..MaxVersions /\ version[f] < MaxVersions
          /\ version' = [version EXCEPT ![f] = @ + 1]
          /\ UNCHANGED <<cached, jobs, caller, queue, owed>>
      BY <1>6 DEF Media!Upload, Media!Write, MediaInv, MediaTypes
    <2>2. version' \in [Media!Files -> 1..MaxVersions]
      <3>1. version[f] + 1 \in 1..MaxVersions
        BY <2>1, LibraryAssumption DEF Media!MediaCacheAssumption
      <3> QED BY <2>1, <3>1 DEF MediaInv, MediaTypes
    <2>3. \A g \in Media!Files : version[g] <= version'[g]
      BY <2>1 DEF MediaInv, MediaTypes
    <2>4. MediaTypes'
      BY <1>1, <1>6, <2>1, <2>2 DEF Media!Upload, Media!Write, MediaInv, MediaTypes
    <2>5. \A k \in Media!Keys : MediaKept(k)'
      <3> TAKE k \in Media!Keys
      <3>1. /\ k[1] \in Media!Files /\ k[2] \in Nat /\ version[k[1]] \in Nat
        BY KeyParts DEF MediaInv
      <3>2. version'[k[1]] \in Nat /\ version[k[1]] <= version'[k[1]]
        BY <2>2, <2>3, <3>1
      <3> QED BY <2>1, <3>1, <3>2 DEF MediaInv, MediaKept
    <2>6. \A d \in Media!Callers : Caller(caller[d])'
      <3> TAKE d \in Media!Callers
      <3>1. Caller(caller[d]) /\ caller[d].since \in Nat /\ caller[d].version \in Nat
        BY DEF MediaInv, MediaTypes, Calls
      <3>2. caller' = caller /\ \A k \in Media!Keys : cached[k].of # 0 => cached'[k].of # 0
        BY <2>1
      <3> QED BY <2>3, <2>4, <3>1, <3>2, CallerStays DEF MediaInv
    <2>7. Media!UploadsArePrepared'
      BY <2>1, OwedStays DEF MediaInv
    <2> QED BY <2>4, <2>5, <2>6, <2>7 DEF MediaInv
  <1> QED BY <1>2, <1>3, <1>4, <1>5, <1>6

LEMMA RestartsKeep == ASSUME MediaInv, Media!Restart PROVE MediaInv'
  <1> USE DEF Media!Restart, Media!files
  <1>1. MediaTypes'
    <2>1. caller' \in [Media!Callers -> Calls]
      BY IdleIsRight
    <2>2. jobs' \in [Media!Keys -> [at : {"none", "begun", "writing"}, tool : {"ffmpeg", "convert"},
                                    of : Nat]]
      BY DEF Media!NoJob
    <2> QED BY <2>1, <2>2 DEF MediaInv, MediaTypes
  <1>2. \A k \in Media!Keys : MediaKept(k)'
    BY DEF MediaInv, MediaKept, Media!NoJob
  <1>3. \A d \in Media!Callers : Caller(caller[d])'
    BY DEF Media!Idle, Caller, Called
  <1>4. Media!UploadsArePrepared'
    BY DEF Media!UploadsArePrepared
  <1> QED BY <1>1, <1>2, <1>3, <1>4 DEF MediaInv

LEMMA MediaStep ==
    ASSUME MediaInv, Media!Next \/ UNCHANGED mediaVars
    PROVE  MediaInv'
  <1>1. ASSUME NEW c \in Media!Callers,
               \/ Media!Find(c) \/ Media!Look(c) \/ Media!Join(c) \/ Media!Made(c) \/ Media!Sent(c)
        PROVE  MediaInv'
    BY <1>1, MediaFindKeeps, LookKeeps, JoinKeeps
  <1>2. ASSUME NEW k \in Media!Keys, Media!Opens(k) \/ Media!Finishes(k) \/ Media!Breaks(k)
        PROVE  MediaInv'
    BY <1>2, OpensKeeps, FinishesKeeps, BreaksKeeps
  <1>3. ASSUME NEW q \in Media!Queues, NEW c \in Media!Slots, Media!TakesNext(q, c) PROVE MediaInv'
    BY <1>3, TakesKeeps
  <1>4. ASSUME NEW f \in Media!Files, Media!Warm(f) \/ Media!SaveFails(f) PROVE MediaInv'
    BY <1>4, OutsideKeeps
  <1>5. ASSUME Media!Progress PROVE MediaInv'
    BY <1>1, <1>2, <1>3, <1>4, <1>5 DEF Media!Progress
  <1>6. ASSUME NEW c \in Viewers, NEW f \in Media!Files,
               Media!AskPicture(c, f) \/ Media!AskVideo(c, f) \/ Media!AskFile(c, f)
        PROVE  MediaInv'
    BY <1>6, MediaAskKeeps
  <1>7. ASSUME NEW f \in Media!Files,
               \/ Media!Prewarm(f) \/ Media!Upload(f) \/ Media!Write(f) \/ Media!Delete(f)
        PROVE  MediaInv'
    BY <1>7, OutsideKeeps
  <1>8. ASSUME Media!queueMobileMediaPrewarm PROVE MediaInv'
    BY <1>7, <1>8 DEF Media!queueMobileMediaPrewarm
  <1> QED BY <1>5, <1>6, <1>7, <1>8, MediaStutters, RestartsKeep DEF Media!Next

\* The ranges are cut to the file for any positions and any size.
LEMMA SpanIsWanted ==
    ASSUME NEW size \in Nat, NEW first \in Nat \cup {Media!Absent}, NEW last \in Nat \cup {Media!Absent}
    PROVE  Media!Span(first, last, size) = Media!Wanted(first, last, size)
  <1> USE DEF Media!Absent
  <1>1. Media!Least(last, size) \in Int /\ Media!Least(last, size) <= size /\ Media!Least(last, size) <= last
        /\ (Media!Least(last, size) = size \/ Media!Least(last, size) = last)
    BY DEF Media!Least
  <1>2. CASE first # -1 /\ last # -1
    BY <1>2 DEF Media!Span, Media!Wanted, Media!Least
  <1>3. CASE first # -1 /\ last = -1
    BY <1>3 DEF Media!Span, Media!Wanted, Media!Least
  <1>4. CASE first = -1 /\ last = -1
    BY <1>4 DEF Media!Span, Media!Wanted, Media!Least
  <1>5. CASE first = -1 /\ last # -1
    BY <1>5 DEF Media!Span, Media!Wanted, Media!Least
  <1> QED BY <1>2, <1>3, <1>4, <1>5

LEMMA MediaIsRight ==
    ASSUME MediaInv
    PROVE  Media!PreviewsAreCurrent /\ Media!UploadsArePrepared /\ Media!RangesAreRight
  <1>1. ASSUME NEW c \in Viewers, caller[c].at = "sending", caller[c].kind # "file"
        PROVE  /\ cached[Media!Key(c)].of >= caller[c].since
               /\ caller[c].kind = "video" => cached[Media!Key(c)].whole
    <2> DEFINE s == caller[c]
               k == Media!Key(c)
    <2>1. s \in Calls /\ Caller(s)
      BY DEF MediaInv, MediaTypes, Media!Callers
    <2>2. /\ s.file \in Media!Files /\ s.kind \in Sorts \ {"file"} /\ s.since <= s.version
          /\ s.version \in 1..version[s.file] /\ k = <<s.file, s.version, s.kind>>
          /\ cached[k].of # 0
      BY <1>1, <2>1 DEF Caller, Called, Media!Key
    <2>3. k \in Media!Keys
      BY <2>2, IsKey DEF MediaInv
    <2>4. MediaKept(k) /\ cached[k].of \in Nat
      BY <2>3 DEF MediaInv, MediaTypes
    <2> QED BY <2>1, <2>2, <2>4 DEF MediaKept, Calls
  <1>2. Media!RangesAreRight
    <2> SUFFICES ASSUME NEW size \in 0..MaxSize,
                        NEW first \in {Media!Absent} \cup (0..(MaxSize + 1)),
                        NEW last \in {Media!Absent} \cup (0..(MaxSize + 1))
                 PROVE  Media!Span(first, last, size) = Media!Wanted(first, last, size)
      BY DEF Media!RangesAreRight
    <2>1. MaxSize \in Nat
      BY LibraryAssumption DEF Media!MediaCacheAssumption
    <2>2. size \in Nat /\ first \in Nat \cup {Media!Absent} /\ last \in Nat \cup {Media!Absent}
      BY <2>1
    <2> QED BY <2>2, SpanIsWanted
  <1> QED BY <1>1, <1>2 DEF MediaInv, Media!PreviewsAreCurrent

-----------------------------------------------------------------------------
(* Conversions *)

LEMMA ConversionsRun ==
    ASSUME [Next]_vars, part' = "conversions"
    PROVE  Conversions!Next \/ UNCHANGED conversionVars
  BY DEF Next, vars, OfChunked, OfBatch, OfMedia, OfConversions, OfContent, OfPage, OfDialogs

Stages == {"idle", "naming", "looked", "running", "writing", "failing", "unlinked", "made", "told"}

AtWork == {"running", "writing", "failing", "unlinked"}

ConversionTypes ==
    /\ output \in [Outputs -> [by : Converters \cup {None, Others}, whole : BOOLEAN]]
    /\ conversion \in [Converters -> [at : Stages, name : Outputs \cup {None}]]
    /\ converting \in BOOLEAN
    /\ disturbed \subseteq Converters /\ robbed \subseteq Converters /\ owned \subseteq Outputs

\* What is under the name of a conversion that is under way, given what it has seen.
Foreseen(r, c, o, seen, gone) ==
    /\ c.at # "idle" => c.name \in Outputs
    /\ c.at \in {"looked", "running"} /\ r \notin seen => o.by = None
    /\ c.at \in {"writing", "failing"} /\ r \notin seen => o.by \in {None, r}
    /\ c.at = "writing" /\ r \notin gone => o.by = r
    /\ c.at \in {"made", "told"} /\ r \notin gone => o = [by |-> r, whole |-> TRUE]

ConversionInv ==
    /\ ConversionTypes
    /\ \A r \in Converters : Foreseen(r, conversion[r], output[conversion[r].name], disturbed, robbed)
    /\ \A n \in owned : output[n] = [by |-> Others, whole |-> TRUE]
    /\ Conversions!NeverStuck

LEMMA ConversionInit == ASSUME Conversions!Init PROVE ConversionInv
  BY DEF Conversions!Init, Conversions!Idle, Conversions!Absent, ConversionInv, ConversionTypes,
         Stages, Foreseen, Conversions!NeverStuck

LEMMA ConversionStutters == ASSUME ConversionInv, UNCHANGED conversionVars PROVE ConversionInv'
  BY DEF conversionVars, ConversionInv, ConversionTypes, Foreseen, Conversions!NeverStuck

LEMMA NamesDiffer ==
    /\ None \notin Converters /\ Others \notin Converters /\ None # Others
  BY LibraryAssumption DEF Conversions!MediaConversionAssumption

\* A request moves on and nothing of the files changes.
LEMMA MovesKeep ==
    ASSUME ConversionInv, NEW r \in Converters, NEW c, c \in [at : Stages, name : Outputs \cup {None}],
           conversion' = [conversion EXCEPT ![r] = c],
           UNCHANGED <<output, owned>>,
           disturbed' \subseteq disturbed, disturbed \subseteq disturbed' \cup {r},
           robbed' \subseteq robbed, robbed \subseteq robbed' \cup {r},
           Foreseen(r, c, output'[c.name], disturbed', robbed'),
           \/ converting' = FALSE
           \/ converting' = TRUE /\ c.at \in AtWork
           \/ converting' = converting /\ (conversion[r].at \in AtWork => c.at \in AtWork)
    PROVE  ConversionInv'
  <1>1. ConversionTypes'
    BY DEF ConversionInv, ConversionTypes
  <1>2. \A q \in Converters : Foreseen(q, conversion'[q], output'[conversion'[q].name], disturbed', robbed')
    <2> TAKE q \in Converters
    <2>1. CASE q = r
      <3>1. conversion'[q] = c
        BY <2>1 DEF ConversionInv, ConversionTypes
      <3> QED BY <2>1, <3>1
    <2>2. CASE q # r
      <3>1. conversion'[q] = conversion[q] /\ output' = output
        BY <2>2 DEF ConversionInv, ConversionTypes
      <3>2. (q \in disturbed' <=> q \in disturbed) /\ (q \in robbed' <=> q \in robbed)
        BY <2>2
      <3> QED BY <3>1, <3>2 DEF ConversionInv, Foreseen
    <2> QED BY <2>1, <2>2
  <1>3. \A n \in owned' : output'[n] = [by |-> Others, whole |-> TRUE]
    BY DEF ConversionInv
  <1>4. Conversions!NeverStuck'
    <2>1. conversion'[r] = c /\ \A q \in Converters \ {r} : conversion'[q] = conversion[q]
      BY DEF ConversionInv, ConversionTypes
    <2> QED BY <2>1 DEF ConversionInv, Conversions!NeverStuck, AtWork
  <1> QED BY <1>1, <1>2, <1>3, <1>4 DEF ConversionInv

LEMMA RequestMoves ==
    ASSUME ConversionInv, NEW r \in Converters,
           \/ \E n \in Outputs : Conversions!Convert(r, n)
           \/ Conversions!Looks(r) \/ Conversions!Begins(r) \/ Conversions!Fails(r)
           \/ Conversions!Ends(r) \/ Conversions!Answers(r) \/ Conversions!Closes(r)
    PROVE  ConversionInv'
  <1> USE DEF Conversions!Stands, Conversions!Goes
  <1>1. /\ conversion[r] \in [at : Stages, name : Outputs \cup {None}]
        /\ Foreseen(r, conversion[r], output[conversion[r].name], disturbed, robbed)
        /\ disturbed \subseteq Converters /\ robbed \subseteq Converters /\ converting \in BOOLEAN
    BY DEF ConversionInv, ConversionTypes
  <1> DEFINE To(at) == [conversion[r] EXCEPT !.at = at]
  <1>2. \A at \in Stages : /\ To(at) \in [at : Stages, name : Outputs \cup {None}]
                           /\ To(at).at = at /\ To(at).name = conversion[r].name
    BY <1>1
  <1>3. /\ Conversions!Idle \in [at : Stages, name : Outputs \cup {None}]
        /\ Conversions!Idle.at = "idle"
        /\ Foreseen(r, Conversions!Idle, output'[Conversions!Idle.name], disturbed', robbed')
    BY DEF Conversions!Idle, Stages, Foreseen
  <1>4. ASSUME NEW n \in Outputs, Conversions!Convert(r, n) PROVE ConversionInv'
    <2> DEFINE c == [at |-> "naming", name |-> n]
    <2>1. c \in [at : Stages, name : Outputs \cup {None}] /\ Foreseen(r, c, output'[c.name], disturbed', robbed')
      BY DEF Stages, Foreseen
    <2> QED BY <1>1, <1>4, <2>1, MovesKeep DEF Conversions!Convert, Conversions!Stands, AtWork
  <1>5. CASE Conversions!Looks(r)
    <2>0. /\ conversion[r].at = "naming" /\ conversion[r].name \in Outputs
          /\ UNCHANGED <<output, converting, disturbed, robbed, owned>>
      BY <1>1, <1>5 DEF Conversions!Looks, Foreseen
    <2>1. CASE output[conversion[r].name] = Conversions!Absent /\ conversion' = [conversion EXCEPT ![r] = To("looked")]
      <3>1. Foreseen(r, To("looked"), output'[To("looked").name], disturbed', robbed')
        BY <1>1, <1>2, <2>0, <2>1 DEF Conversions!Absent, Foreseen, Stages
      <3> HIDE DEF To
      <3> QED BY <1>1, <1>2, <2>0, <2>1, <3>1, MovesKeep DEF Stages, AtWork
    <2>2. CASE conversion' = [conversion EXCEPT ![r] = Conversions!Idle]
      BY <1>1, <1>3, <2>0, <2>2, MovesKeep DEF AtWork
    <2> QED BY <1>5, <2>1, <2>2 DEF Conversions!Looks
  <1>6. CASE Conversions!Begins(r)
    <2>0. /\ conversion[r].at = "looked" /\ conversion' = [conversion EXCEPT ![r] = To("running")]
          /\ converting' = TRUE /\ UNCHANGED <<output, disturbed, robbed, owned>>
      BY <1>6 DEF Conversions!Begins
    <2>1. Foreseen(r, To("running"), output'[To("running").name], disturbed', robbed')
      BY <1>1, <1>2, <2>0 DEF Foreseen, Stages
    <2> HIDE DEF To
    <2> QED BY <1>1, <1>2, <2>0, <2>1, MovesKeep DEF Stages, AtWork
  <1>7. CASE Conversions!Fails(r)
    <2>0. /\ conversion[r].at \in {"running", "writing"}
          /\ conversion' = [conversion EXCEPT ![r] = To("failing")]
          /\ UNCHANGED <<output, converting, disturbed, robbed, owned>>
      BY <1>7 DEF Conversions!Fails
    <2>1. Foreseen(r, To("failing"), output'[To("failing").name], disturbed', robbed')
      BY <1>1, <1>2, <2>0 DEF Foreseen, Stages
    <2> HIDE DEF To
    <2> QED BY <1>1, <1>2, <2>0, <2>1, MovesKeep DEF Stages, AtWork
  <1>8. CASE Conversions!Ends(r) \/ Conversions!Closes(r)
    <2>1. /\ conversion' = [conversion EXCEPT ![r] = Conversions!Idle]
          /\ UNCHANGED <<output, disturbed, robbed, owned>>
          /\ converting' = FALSE \/ (converting' = converting /\ conversion[r].at = "told")
      BY <1>8 DEF Conversions!Ends, Conversions!Closes
    <2> QED BY <1>1, <1>3, <2>1, MovesKeep DEF AtWork
  <1>9. CASE Conversions!Answers(r)
    <2>0. conversion[r].at = "made" /\ UNCHANGED <<output, converting, disturbed, robbed, owned>>
      BY <1>9 DEF Conversions!Answers
    <2>1. Foreseen(r, To("told"), output'[To("told").name], disturbed', robbed')
      BY <1>1, <1>2, <2>0 DEF Foreseen, Stages
    <2>2. CASE conversion' = [conversion EXCEPT ![r] = To("told")]
      <3> HIDE DEF To
      <3> QED BY <1>1, <1>2, <2>0, <2>1, <2>2, MovesKeep DEF Stages, AtWork
    <2>3. CASE conversion' = [conversion EXCEPT ![r] = Conversions!Idle]
      BY <1>1, <1>3, <2>0, <2>3, MovesKeep DEF AtWork
    <2> QED BY <1>9, <2>2, <2>3 DEF Conversions!Answers
  <1> QED BY <1>4, <1>5, <1>6, <1>7, <1>8, <1>9

\* The file under one name changes: what each request sees of it, and the files of others.
LEMMA FilesChange ==
    ASSUME ConversionInv, NEW n \in Outputs,
           NEW o, o \in [by : Converters \cup {None, Others}, whole : BOOLEAN],
           output' = [output EXCEPT ![n] = o],
           conversion' \in [Converters -> [at : Stages, name : Outputs \cup {None}]],
           disturbed' \subseteq Converters, robbed' \subseteq Converters, owned' \subseteq Outputs,
           converting' \in BOOLEAN,
           \A q \in Converters :
               \/ Foreseen(q, conversion'[q], output'[conversion'[q].name], disturbed', robbed')
               \/ /\ conversion'[q] = conversion[q] /\ conversion[q].name # n
                  /\ disturbed \subseteq disturbed' /\ robbed \subseteq robbed',
           \A m \in owned' : IF m = n THEN o = [by |-> Others, whole |-> TRUE] ELSE m \in owned,
           Conversions!NeverStuck'
    PROVE  ConversionInv'
  <1>1. ConversionTypes'
    BY DEF ConversionInv, ConversionTypes
  <1>2. \A m \in Outputs : output'[m] = IF m = n THEN o ELSE output[m]
    BY DEF ConversionInv, ConversionTypes
  <1>3. \A q \in Converters : Foreseen(q, conversion'[q], output'[conversion'[q].name], disturbed', robbed')
    <2> SUFFICES ASSUME NEW q \in Converters, conversion'[q] = conversion[q], conversion[q].name # n,
                        disturbed \subseteq disturbed', robbed \subseteq robbed'
                 PROVE  Foreseen(q, conversion'[q], output'[conversion'[q].name], disturbed', robbed')
      OBVIOUS
    <2>1. Foreseen(q, conversion[q], output[conversion[q].name], disturbed, robbed)
      BY DEF ConversionInv
    <2>2. CASE conversion[q].at = "idle"
      BY <2>2 DEF Foreseen
    <2>3. CASE conversion[q].name \in Outputs
      <3>1. output'[conversion[q].name] = output[conversion[q].name]
        BY <1>2, <2>3
      <3> QED BY <2>1, <3>1 DEF Foreseen
    <2> QED BY <2>1, <2>2, <2>3 DEF Foreseen
  <1>4. \A m \in owned' : output'[m] = [by |-> Others, whole |-> TRUE]
    BY <1>2 DEF ConversionInv
  <1> QED BY <1>1, <1>3, <1>4 DEF ConversionInv

LEMMA FilesAsSeen ==
    ASSUME ConversionInv, NEW q \in Converters
    PROVE  /\ Foreseen(q, conversion[q], output[conversion[q].name], disturbed, robbed)
           /\ conversion[q].at \in Stages /\ conversion[q].name \in Outputs \cup {None}
  BY DEF ConversionInv, ConversionTypes

LEMMA ConverterOpens == ASSUME ConversionInv, NEW r \in Converters, Conversions!Opens(r) PROVE ConversionInv'
  <1> DEFINE n == conversion[r].name
             o == [by |-> r, whole |-> FALSE]
  <1>1. /\ conversion[r].at = "running" /\ output[n] = Conversions!Absent
        /\ conversion' = [conversion EXCEPT ![r].at = "writing"]
        /\ output' = [output EXCEPT ![n] = o]
        /\ disturbed' = disturbed \cup (Conversions!Past(n) \ {r})
        /\ UNCHANGED <<converting, robbed, owned>>
    BY DEF Conversions!Opens, Conversions!Stands, Conversions!Goes
  <1>2. n \in Outputs
    BY <1>1, FilesAsSeen DEF Foreseen
  <1>3. \A q \in Converters \ {r} : conversion'[q] = conversion[q]
    BY <1>1 DEF ConversionInv, ConversionTypes
  <1>4. /\ conversion' \in [Converters -> [at : Stages, name : Outputs \cup {None}]]
        /\ conversion'[r].at = "writing" /\ conversion'[r].name = n
    BY <1>1 DEF ConversionInv, ConversionTypes, Stages
  <1>5. output'[n] = o /\ output[n].by = None
    BY <1>1, <1>2 DEF ConversionInv, ConversionTypes, Conversions!Absent
  <1>6. ASSUME NEW q \in Converters
        PROVE  \/ Foreseen(q, conversion'[q], output'[conversion'[q].name], disturbed', robbed')
               \/ /\ conversion'[q] = conversion[q] /\ conversion[q].name # n
                  /\ disturbed \subseteq disturbed' /\ robbed \subseteq robbed'
    <2>1. CASE q = r
      BY <1>2, <1>4, <1>5, <2>1 DEF Foreseen
    <2>2. CASE q # r /\ conversion[q].name # n
      BY <1>1, <1>3, <2>2
    <2>3. CASE q # r /\ conversion[q].name = n
      <3>1. q \in disturbed' \/ conversion[q].at \in {"idle", "naming"}
        BY <1>1, <2>3 DEF Conversions!Past
      <3>2. q # None /\ [by |-> q, whole |-> TRUE].by = q
        BY NamesDiffer
      <3>3. conversion[q].at \in {"writing", "made", "told"} => q \in robbed
        BY <1>5, <2>3, <3>2, FilesAsSeen DEF Foreseen
      <3> QED BY <1>1, <1>2, <1>3, <2>3, <3>1, <3>3 DEF Foreseen
    <2> QED BY <2>1, <2>2, <2>3
  <1>7. Conversions!NeverStuck'
    BY <1>1, <1>4 DEF Conversions!NeverStuck
  <1>8. \A m \in owned' : IF m = n THEN o = [by |-> Others, whole |-> TRUE] ELSE m \in owned
    <2>1. [by |-> Others, whole |-> TRUE].by = Others
      OBVIOUS
    <2>2. n \notin owned
      BY <1>5, <2>1, NamesDiffer DEF ConversionInv
    <2> QED BY <1>1, <2>2
  <1>9. /\ o \in [by : Converters \cup {None, Others}, whole : BOOLEAN]
        /\ disturbed' \subseteq Converters /\ robbed' \subseteq Converters /\ owned' \subseteq Outputs
        /\ converting' \in BOOLEAN
    BY <1>1 DEF ConversionInv, ConversionTypes, Conversions!Past
  <1>10. output' = [output EXCEPT ![n] = o]
    BY <1>1
  <1> HIDE DEF n, o
  <1> QED BY <1>2, <1>4, <1>6, <1>7, <1>8, <1>9, <1>10, FilesChange

LEMMA ConverterFinishes == ASSUME ConversionInv, NEW r \in Converters, Conversions!Finishes(r) PROVE ConversionInv'
  <1> DEFINE n == conversion[r].name
             o == IF output[n].by = r THEN [output[n] EXCEPT !.whole = TRUE] ELSE output[n]
  <1>1. /\ conversion[r].at = "writing"
        /\ conversion' = [conversion EXCEPT ![r].at = "made"]
        /\ converting' = FALSE
        /\ UNCHANGED <<disturbed, robbed, owned>>
    BY DEF Conversions!Finishes, Conversions!Stands, Conversions!Goes
  <1>2. n \in Outputs
    BY <1>1, FilesAsSeen DEF Foreseen
  <1>3. output' = [output EXCEPT ![n] = o] /\ output'[n] = o
        /\ output[n] \in [by : Converters \cup {None, Others}, whole : BOOLEAN]
    BY <1>2 DEF Conversions!Finishes, ConversionInv, ConversionTypes
  <1>4. \A q \in Converters \ {r} : conversion'[q] = conversion[q]
    BY <1>1 DEF ConversionInv, ConversionTypes
  <1>5. /\ conversion' \in [Converters -> [at : Stages, name : Outputs \cup {None}]]
        /\ conversion'[r].at = "made" /\ conversion'[r].name = n
    BY <1>1 DEF ConversionInv, ConversionTypes, Stages
  <1>6. o \in [by : Converters \cup {None, Others}, whole : BOOLEAN] /\ o.by = output[n].by
        /\ (output[n].by = r => o = [by |-> r, whole |-> TRUE]) /\ (output[n].by # r => o = output[n])
    BY <1>3
  <1>7. ASSUME NEW q \in Converters
        PROVE  Foreseen(q, conversion'[q], output'[conversion'[q].name], disturbed', robbed')
    <2>1. CASE q = r
      BY <1>1, <1>2, <1>3, <1>5, <1>6, <2>1, FilesAsSeen DEF Foreseen
    <2>2. CASE q # r /\ conversion[q].at = "idle"
      BY <1>4, <2>2 DEF Foreseen
    <2>3. CASE q # r /\ conversion[q].name \in Outputs /\ conversion[q].name # n
      <3>1. output'[conversion[q].name] = output[conversion[q].name]
        BY <1>3, <2>3 DEF ConversionInv, ConversionTypes
      <3> QED BY <1>1, <1>4, <2>3, <3>1, FilesAsSeen
    <2>4. CASE q # r /\ conversion[q].name = n
      <3>1. output'[n].by = output[n].by /\ (output[n].by = q => output'[n] = output[n])
        BY <1>3, <1>6, <2>4
      <3> QED BY <1>1, <1>2, <1>4, <2>4, <3>1, FilesAsSeen DEF Foreseen
    <2> QED BY <2>2, <2>1, <2>3, <2>4, FilesAsSeen DEF Foreseen
  <1>8. \A m \in owned' : IF m = n THEN o = [by |-> Others, whole |-> TRUE] ELSE m \in owned
    <2>1. [by |-> Others, whole |-> TRUE].by = Others /\ Others # r
      BY NamesDiffer
    <2>2. n \in owned => output[n] = [by |-> Others, whole |-> TRUE]
      BY DEF ConversionInv
    <2>3. n \in owned => o = [by |-> Others, whole |-> TRUE]
      BY <1>6, <2>1, <2>2
    <2> QED BY <1>1, <2>3
  <1>9. /\ Conversions!NeverStuck' /\ converting' \in BOOLEAN
        /\ disturbed' \subseteq Converters /\ robbed' \subseteq Converters /\ owned' \subseteq Outputs
    BY <1>1 DEF Conversions!NeverStuck, ConversionInv, ConversionTypes
  <1> HIDE DEF n, o
  <1> QED BY <1>2, <1>3, <1>5, <1>6, <1>7, <1>8, <1>9, FilesChange

LEMMA ConverterUnlinks == ASSUME ConversionInv, NEW r \in Converters, Conversions!Unlinks(r) PROVE ConversionInv'
  <1> DEFINE n == conversion[r].name
             o == Conversions!Absent
  <1>1. /\ conversion[r].at = "failing"
        /\ conversion' = [conversion EXCEPT ![r].at = "unlinked"]
        /\ output' = [output EXCEPT ![n] = o]
        /\ UNCHANGED <<converting, disturbed>>
        /\ IF r \in disturbed THEN owned' = owned \ {n} /\ robbed' = robbed \cup Conversions!Past(n)
           ELSE UNCHANGED <<owned, robbed>>
    BY DEF Conversions!Unlinks, Conversions!Stands, Conversions!Goes
  <1>2. n \in Outputs
    BY <1>1, FilesAsSeen DEF Foreseen
  <1>3. \A q \in Converters \ {r} : conversion'[q] = conversion[q]
    BY <1>1 DEF ConversionInv, ConversionTypes
  <1>4. /\ conversion' \in [Converters -> [at : Stages, name : Outputs \cup {None}]]
        /\ conversion'[r].at = "unlinked" /\ conversion'[r].name = n
    BY <1>1 DEF ConversionInv, ConversionTypes, Stages
  <1>5. output'[n] = o /\ o.by = None
    BY <1>1, <1>2 DEF ConversionInv, ConversionTypes, Conversions!Absent
  <1>6. r \notin disturbed => output[n].by \in {None, r}
    BY <1>1, FilesAsSeen DEF Foreseen
  <1>7. ASSUME NEW q \in Converters
        PROVE  \/ Foreseen(q, conversion'[q], output'[conversion'[q].name], disturbed', robbed')
               \/ /\ conversion'[q] = conversion[q] /\ conversion[q].name # n
                  /\ disturbed \subseteq disturbed' /\ robbed \subseteq robbed'
    <2>1. CASE q = r
      BY <1>2, <1>4, <2>1 DEF Foreseen
    <2>2. CASE q # r /\ conversion[q].name # n
      BY <1>1, <1>3, <2>2
    <2>3. CASE q # r /\ conversion[q].name = n
      <3>1. q # None /\ [by |-> q, whole |-> TRUE].by = q
        BY NamesDiffer
      <3>2. conversion[q].at \in {"writing", "made", "told"} => q \in robbed'
        <4>1. CASE r \in disturbed
          BY <1>1, <2>3, <4>1 DEF Conversions!Past
        <4>2. CASE r \notin disturbed
          BY <1>1, <1>6, <2>3, <3>1, <4>2, FilesAsSeen DEF Foreseen
        <4> QED BY <4>1, <4>2
      <3> QED BY <1>1, <1>2, <1>3, <1>5, <2>3, <3>2 DEF Foreseen
    <2> QED BY <2>1, <2>2, <2>3
  <1>8. \A m \in owned' : IF m = n THEN o = [by |-> Others, whole |-> TRUE] ELSE m \in owned
    <2>1. [by |-> Others, whole |-> TRUE].by = Others /\ Others # r
      BY NamesDiffer
    <2>2. r \notin disturbed => n \notin owned
      BY <1>6, <2>1, NamesDiffer DEF ConversionInv
    <2> QED BY <1>1, <2>2
  <1>9. Conversions!NeverStuck'
    BY <1>1, <1>4, <1>3 DEF Conversions!NeverStuck, ConversionInv
  <1>10. /\ o \in [by : Converters \cup {None, Others}, whole : BOOLEAN]
         /\ disturbed' \subseteq Converters /\ robbed' \subseteq Converters /\ owned' \subseteq Outputs
         /\ converting' \in BOOLEAN
    BY <1>1 DEF ConversionInv, ConversionTypes, Conversions!Past, Conversions!Absent
  <1> HIDE DEF n, o
  <1> QED BY <1>1, <1>2, <1>4, <1>7, <1>8, <1>9, <1>10, FilesChange

\* What others do to the files, and a restart.
LEMMA OthersKeep ==
    ASSUME ConversionInv, NEW n \in Outputs, Conversions!Upload(n) \/ Conversions!Delete(n)
    PROVE  ConversionInv'
  <1>1. PICK o : /\ output' = [output EXCEPT ![n] = o]
                 /\ \/ /\ o = [by |-> Others, whole |-> TRUE] /\ output[n].by = None
                       /\ disturbed' = disturbed \cup Conversions!Past(n) /\ robbed' = robbed
                       /\ owned' = owned \cup {n}
                    \/ /\ o = Conversions!Absent /\ disturbed' = disturbed
                       /\ robbed' = robbed \cup Conversions!Past(n)
                       /\ owned' = owned \ {n}
    <2>1. Conversions!Absent.by = None
      BY DEF Conversions!Absent
    <2>2. CASE Conversions!Upload(n)
      BY <2>1, <2>2 DEF Conversions!Upload
    <2>3. CASE Conversions!Delete(n)
      BY <2>3 DEF Conversions!Delete
    <2> QED BY <2>2, <2>3
  <1>2. UNCHANGED <<conversion, converting>>
    BY DEF Conversions!Upload, Conversions!Delete
  <1>3. o \in [by : Converters \cup {None, Others}, whole : BOOLEAN] /\ output'[n] = o
    <2>1. /\ [by |-> Others, whole |-> TRUE] \in [by : Converters \cup {None, Others}, whole : BOOLEAN]
          /\ Conversions!Absent \in [by : Converters \cup {None, Others}, whole : BOOLEAN]
      BY DEF Conversions!Absent
    <2>2. output'[n] = o
      BY <1>1 DEF ConversionInv, ConversionTypes
    <2> QED BY <1>1, <2>1, <2>2
  <1>4. ASSUME NEW q \in Converters
        PROVE  \/ Foreseen(q, conversion'[q], output'[conversion'[q].name], disturbed', robbed')
               \/ /\ conversion'[q] = conversion[q] /\ conversion[q].name # n
                  /\ disturbed \subseteq disturbed' /\ robbed \subseteq robbed'
    <2>1. CASE conversion[q].name # n
      BY <1>1, <1>2, <2>1
    <2>2. CASE conversion[q].name = n /\ conversion[q].at \in {"idle", "naming"}
      BY <1>2, <2>2 DEF Foreseen
    <2>3. CASE conversion[q].name = n /\ q \in Conversions!Past(n)
      <3>1. q # None /\ [by |-> q, whole |-> TRUE].by = q
        BY NamesDiffer
      <3>2. CASE o = [by |-> Others, whole |-> TRUE]  /\ output[n].by = None
                 /\ disturbed' = disturbed \cup Conversions!Past(n) /\ robbed' = robbed
        <4>1. conversion[q].at \in {"writing", "made", "told"} => q \in robbed
          BY <2>3, <3>1, <3>2, FilesAsSeen DEF Foreseen
        <4> QED BY <1>2, <2>3, <3>2, <4>1 DEF Foreseen
      <3>3. CASE o = Conversions!Absent /\ disturbed' = disturbed /\ robbed' = robbed \cup Conversions!Past(n)
        BY <1>2, <1>3, <2>3, <3>3 DEF Foreseen, Conversions!Absent
      <3> QED BY <1>1, <3>2, <3>3
    <2> QED BY <2>1, <2>2, <2>3 DEF Conversions!Past
  <1>5. \A m \in owned' : IF m = n THEN o = [by |-> Others, whole |-> TRUE] ELSE m \in owned
    BY <1>1
  <1>6. Conversions!NeverStuck'
    BY <1>2 DEF Conversions!NeverStuck, ConversionInv
  <1>7. /\ disturbed' \subseteq Converters /\ robbed' \subseteq Converters /\ owned' \subseteq Outputs
        /\ conversion' \in [Converters -> [at : Stages, name : Outputs \cup {None}]]
        /\ converting' \in BOOLEAN
    BY <1>1, <1>2 DEF ConversionInv, ConversionTypes, Conversions!Past
  <1> QED BY <1>1, <1>3, <1>4, <1>5, <1>6, <1>7, FilesChange

LEMMA ConversionStep ==
    ASSUME ConversionInv, Conversions!Next \/ UNCHANGED conversionVars
    PROVE  ConversionInv'
  <1>1. ASSUME NEW r \in Converters,
               \/ \E n \in Outputs : Conversions!Convert(r, n)
               \/ Conversions!Looks(r) \/ Conversions!Begins(r) \/ Conversions!Opens(r)
               \/ Conversions!Fails(r) \/ Conversions!Finishes(r) \/ Conversions!Unlinks(r)
               \/ Conversions!Ends(r) \/ Conversions!Answers(r) \/ Conversions!Closes(r)
        PROVE  ConversionInv'
    BY <1>1, RequestMoves, ConverterOpens, ConverterFinishes, ConverterUnlinks
  <1>2. ASSUME Conversions!Restart PROVE ConversionInv'
    BY <1>2 DEF Conversions!Restart, Conversions!Idle, ConversionInv, ConversionTypes, Stages,
                Foreseen, Conversions!NeverStuck
  <1> QED BY <1>1, <1>2, OthersKeep, ConversionStutters DEF Conversions!Next

LEMMA ConversionsAreRight ==
    ConversionInv => Conversions!OutputsStay /\ Conversions!NeverStuck
  BY DEF ConversionInv, Foreseen, Conversions!OutputsStay, Conversions!Stands

-----------------------------------------------------------------------------
\* What a storage pool lists is whole, and an upload that succeeded was put in place while
\* one that failed was not, unless an answer was lost: for any uploads, streams, names and
\* restarts (storage-pools.mjs, uploadStorageContent; storage-manager.js, its chunks).  And
\* a preview is of the file as it was when it was asked for, or newer, a file uploaded while
\* its queue works on it is looked at again, and a range is cut to the file (thumbnails.mjs;
\* server.mjs, cachedVideoPreview, enqueueMediaWarm and streamRangedMedia).  And a conversion
\* that was answered has its file, and leaves the files of others, unless one disturbed
\* after it looked removes them (media.mjs, convertMedia).
THEOREM ContentDoesArrive == Spec => []ContentArrives
  <1> DEFINE Inv == /\ part = "content" => ContentInv
                    /\ part = "media" => MediaInv
                    /\ part = "conversions" => ConversionInv
  <1>1. Init => Inv
    BY LibraryAssumption, ContentBegins, ContentInit, MediaBegins, ConversionInit DEF Init
  <1>2. Inv /\ [Next]_vars => Inv'
    <2> SUFFICES ASSUME Inv, [Next]_vars PROVE Inv'
      OBVIOUS
    <2>1. part' = "content" => ContentInv'
      BY PartStays, ContentRuns, ContentStep
    <2>2. part' = "media" => MediaInv'
      BY PartStays, MediaRuns, MediaStep
    <2>3. part' = "conversions" => ConversionInv'
      BY PartStays, ConversionsRun, ConversionStep
    <2> QED BY <2>1, <2>2, <2>3
  <1>3. Inv => ContentArrives
    <2> SUFFICES ASSUME Inv
                 PROVE  /\ part = "content" => Content!ListedIsWhole /\ Content!AnswersAreTrue
                        /\ part = "media" => Media!PreviewsAreCurrent /\ Media!UploadsArePrepared
                                             /\ Media!RangesAreRight
                        /\ part = "conversions" => Conversions!OutputsStay /\ Conversions!NeverStuck
      BY DEF ContentArrives
    <2>1. ContentInv => Content!ListedIsWhole
      BY DEF ContentInv, Listed, First, Content!ListedIsWhole
    <2>2. ContentInv => Content!AnswersAreTrue
      BY DEF ContentInv, Upload, Content!AnswersAreTrue
    <2> QED BY <2>1, <2>2, MediaIsRight, ConversionsAreRight
  <1> QED BY <1>1, <1>2, <1>3, PTL DEF Spec

-----------------------------------------------------------------------------
(* The storage page: what it shows after an operation *)

Holdings == [disks : Nat, pools : Nat, policy : Nat]
Queries == [kind : {"slot", "poll"}, of : Nat, mine : BOOLEAN, got : Holdings \cup {None}]
Operations == [at : {"idle", "sent", "done", "reading", "shown"}, field : {"pools", "policy"},
               version : Nat]

PageTypes ==
    storage \in Holdings /\ paint \in Nat /\ reads \in Seq(Queries) /\ deed \in Operations

\* From the n-th on, reads that have been answered show operation d.
NewFrom(d, n, rs) == \A i \in DOMAIN rs : i >= n /\ rs[i].got # None => rs[i].got[d.field] >= d.version

\* One read at most is the operation's, which waits for it.
Own(d, rs) ==
    /\ \A i, j \in DOMAIN rs : rs[i].mine /\ rs[j].mine => i = j
    /\ \A i \in DOMAIN rs : rs[i].mine => d.at = "reading" /\ rs[i].kind = "slot"

\* The operation is on the server; what is read after it was sent to show it is as new, and
\* so is all that comes once its own read is there, as replies come in order.
Carried(d) == d.at \in {"done", "reading", "shown"} => storage[d.field] >= d.version
Newer(d, rs) ==
    /\ d.at = "reading" => \A i \in DOMAIN rs : rs[i].mine => NewFrom(d, i, rs)
    /\ d.at = "shown" => NewFrom(d, 1, rs)

PageInv ==
    /\ PageTypes /\ Own(deed, reads) /\ Carried(deed) /\ Newer(deed, reads)
    /\ Page!DeedShown

LEMMA PageBegins == ASSUME Page!Init PROVE PageInv
  <1>1. reads = <<>> /\ deed = Page!NoDeed /\ paint = 0 /\ storage \in Holdings
    BY DEF Page!Init, Holdings
  <1>2. deed \in Operations /\ deed.at = "idle"
    BY <1>1 DEF Page!NoDeed, Operations
  <1>3. reads \in Seq(Queries) /\ DOMAIN reads = {}
    BY <1>1
  <1> QED
    BY <1>1, <1>2, <1>3 DEF PageInv, PageTypes, Own, Carried, Newer, Page!DeedShown

LEMMA PageRests == ASSUME PageInv, UNCHANGED <<storage, paint, reads, deed, data>> PROVE PageInv'
  BY DEF PageInv, PageTypes, Own, Carried, Newer, NewFrom, Page!DeedShown

\* A read asked for.
LEMMA OneAsked ==
    ASSUME reads \in Seq(Queries), NEW q \in Queries, NEW rs, rs = Append(reads, q)
    PROVE  /\ rs \in Seq(Queries)
           /\ \A i \in DOMAIN rs : (i \in DOMAIN reads /\ rs[i] = reads[i])
                                   \/ (i = Len(reads) + 1 /\ rs[i] = q)
           /\ \A i \in DOMAIN reads : i < Len(reads) + 1
  <1>1. DOMAIN reads = 1..Len(reads) /\ Len(reads) \in Nat
    BY LenProperties
  <1>2. /\ rs \in Seq(Queries) /\ Len(rs) = Len(reads) + 1
        /\ \A i \in 1..Len(reads) : rs[i] = reads[i]
        /\ rs[Len(reads) + 1] = q
    BY AppendProperties
  <1>3. DOMAIN rs = 1..(Len(reads) + 1)
    BY <1>2, LenProperties
  <1>4. \A i \in 1..(Len(reads) + 1) : i = Len(reads) + 1 \/ i \in 1..Len(reads)
    BY <1>1
  <1> QED
    BY <1>1, <1>2, <1>3, <1>4

LEMMA PageAsks ==
    ASSUME PageInv, NEW q \in Queries, ~q.mine, q.got = None, reads' = Append(reads, q),
           paint' \in Nat, UNCHANGED <<storage, deed, data>>
    PROVE  PageInv'
  <1>1. PageTypes /\ Own(deed, reads) /\ Carried(deed) /\ Newer(deed, reads) /\ Page!DeedShown
    BY DEF PageInv
  <1>2. /\ reads' \in Seq(Queries)
        /\ \A i \in DOMAIN reads' : (i \in DOMAIN reads /\ reads'[i] = reads[i])
                                    \/ (i = Len(reads) + 1 /\ reads'[i] = q)
    BY <1>1, OneAsked DEF PageTypes
  <1>3. Own(deed, reads')
    BY <1>1, <1>2 DEF Own
  <1>4. ASSUME NEW n, NewFrom(deed, n, reads) PROVE NewFrom(deed, n, reads')
    BY <1>2, <1>4 DEF NewFrom
  <1>5. Newer(deed, reads')
    BY <1>1, <1>2, <1>4 DEF Newer
  <1>6. PageTypes'
    BY <1>1, <1>2 DEF PageTypes
  <1> QED
    BY <1>1, <1>3, <1>5, <1>6 DEF PageInv, Carried, Page!DeedShown

\* The operation's own read.
LEMMA RefreshKeeps == ASSUME PageInv, Page!Refresh PROVE PageInv'
  <1> DEFINE q == Page!Read("slot", paint, TRUE)
  <1>1. PageTypes /\ Own(deed, reads) /\ Carried(deed)
    BY DEF PageInv
  <1>2. /\ deed.at = "done" /\ deed' = [deed EXCEPT !.at = "reading"]
        /\ reads' = Append(reads, q) /\ UNCHANGED <<storage, paint, data>>
    BY DEF Page!Refresh, Page!ReadAgain, Page!server
  <1>3. q \in Queries /\ q.mine /\ q.got = None /\ q.kind = "slot"
    BY <1>1 DEF Page!Read, Queries, PageTypes
  <1> HIDE DEF q
  <1>4. deed' \in Operations /\ deed'.at = "reading" /\ deed'.field = deed.field /\ deed'.version = deed.version
    BY <1>1, <1>2 DEF PageTypes, Operations
  <1>5. /\ reads' \in Seq(Queries)
        /\ \A i \in DOMAIN reads' : (i \in DOMAIN reads /\ reads'[i] = reads[i])
                                    \/ (i = Len(reads) + 1 /\ reads'[i] = q)
        /\ \A i \in DOMAIN reads : i < Len(reads) + 1 /\ ~reads[i].mine
    BY <1>1, <1>2, <1>3, OneAsked DEF PageTypes, Own
  <1>6. Own(deed', reads')
    BY <1>3, <1>4, <1>5 DEF Own
  <1>7. ASSUME NEW i \in DOMAIN reads', reads'[i].mine PROVE NewFrom(deed', i, reads')
    <2>1. i = Len(reads) + 1
      BY <1>5, <1>7
    <2>2. ASSUME NEW j \in DOMAIN reads', j >= i, reads'[j].got # None PROVE FALSE
      <3>1. j \in DOMAIN reads /\ j < Len(reads) + 1
        BY <1>3, <1>5, <2>2
      <3>2. DOMAIN reads = 1..Len(reads) /\ Len(reads) \in Nat
        BY <1>1, LenProperties DEF PageTypes
      <3> QED
        BY <2>1, <2>2, <3>1, <3>2
    <2> QED
      BY <2>2 DEF NewFrom
  <1>8. PageTypes'
    BY <1>1, <1>2, <1>4, <1>5 DEF PageTypes
  <1> QED
    BY <1>1, <1>2, <1>4, <1>6, <1>7, <1>8 DEF PageInv, Carried, Newer, Page!DeedShown

\* A read is answered with what there is.
LEMMA ServedKeeps == ASSUME PageInv, NEW i \in DOMAIN reads, Page!Serve(i) PROVE PageInv'
  <1>1. PageTypes /\ Own(deed, reads) /\ Carried(deed) /\ Newer(deed, reads) /\ Page!DeedShown
    BY DEF PageInv
  <1>2. /\ reads' = [reads EXCEPT ![i].got = storage]
        /\ UNCHANGED <<storage, paint, deed, data>>
    BY DEF Page!Serve, Page!server
  <1>3. \A j \in DOMAIN reads : reads[j] \in Queries
    BY <1>1, ElementOfSeq, LenProperties DEF PageTypes
  <1>4. DOMAIN reads' = DOMAIN reads /\ \A j \in DOMAIN reads :
            reads'[j] = IF j = i THEN [reads[i] EXCEPT !.got = storage] ELSE reads[j]
    BY <1>2
  <1>5. [reads[i] EXCEPT !.got = storage] \in Queries
    BY <1>1, <1>3 DEF PageTypes, Queries
  <1>6. reads' \in Seq(Queries)
    <2>1. reads \in Seq(Queries)
      BY <1>1 DEF PageTypes
    <2> QED
      BY <1>2, <1>5, <2>1
  <1>7. \A j \in DOMAIN reads : /\ reads'[j].mine = reads[j].mine /\ reads'[j].kind = reads[j].kind
                                /\ reads'[j].got \in {reads[j].got, storage}
    BY <1>3, <1>4 DEF Queries
  <1>8. Own(deed, reads')
    BY <1>1, <1>4, <1>7 DEF Own
  <1>9. ASSUME NEW n, NewFrom(deed, n, reads), storage[deed.field] >= deed.version
        PROVE  NewFrom(deed, n, reads')
    <2>1. ASSUME NEW j \in DOMAIN reads, j >= n, reads'[j].got # None
          PROVE  reads'[j].got[deed.field] >= deed.version
      BY <1>7, <1>9, <2>1 DEF NewFrom
    <2> QED
      BY <1>4, <2>1 DEF NewFrom
  <1>10. Newer(deed, reads')
    BY <1>1, <1>4, <1>7, <1>9 DEF Newer, Carried
  <1>11. PageTypes'
    BY <1>1, <1>2, <1>6 DEF PageTypes
  <1> QED
    BY <1>1, <1>2, <1>8, <1>10, <1>11 DEF PageInv, Carried, Page!DeedShown

\* The first of the reads is over.
LEMMA FirstRead ==
    ASSUME reads \in Seq(Queries), NEW i \in DOMAIN reads, Page!InOrder(i),
           NEW rs, rs = Page!RemoveAt(reads, i)
    PROVE  /\ i = 1 /\ rs \in Seq(Queries) /\ reads[1] \in Queries
           /\ \A j \in DOMAIN rs : /\ j \in Nat /\ j >= 1 /\ j + 1 \in DOMAIN reads
                                   /\ rs[j] = reads[j + 1]
  <1>1. i = 1
    BY DEF Page!InOrder
  <1>2. DOMAIN reads = 1..Len(reads) /\ Len(reads) \in Nat
    BY LenProperties
  <1> DEFINE a == SubSeq(reads, 1, 0)  b == SubSeq(reads, 2, Len(reads))
  <1>3. rs = a \o b
    BY <1>1 DEF Page!RemoveAt
  <1>4. a \in Seq(Queries) /\ Len(a) = 0
    BY <1>2
  <1>5. b \in Seq(Queries) /\ Len(b) = Len(reads) - 1
        /\ \A j \in 1..(Len(reads) - 1) : b[j] = reads[1 + j]
    BY <1>1, <1>2
  <1> HIDE DEF a, b
  <1>6. /\ rs \in Seq(Queries) /\ Len(rs) = Len(a) + Len(b)
        /\ \A j \in 1..Len(a) + Len(b) : rs[j] = IF j <= Len(a) THEN a[j] ELSE b[j - Len(a)]
    BY <1>3, <1>4, <1>5, ConcatProperties
  <1>7. DOMAIN rs = 1..Len(b)
    BY <1>4, <1>5, <1>6, LenProperties
  <1>8. ASSUME NEW j \in DOMAIN rs
        PROVE  j \in Nat /\ j >= 1 /\ j + 1 \in DOMAIN reads /\ rs[j] = reads[j + 1]
    <2>1. j \in 1..(Len(reads) - 1)
      BY <1>5, <1>7
    <2>2. rs[j] = b[j]
      BY <1>4, <1>6, <1>7
    <2> QED
      BY <1>2, <1>5, <2>1, <2>2
  <1>9. reads[1] \in Queries
    BY <1>1, ElementOfSeq, <1>2
  <1> QED
    BY <1>1, <1>6, <1>8, <1>9

\* A read that is over, shown or not: what is left is as new, and what is shown is too.
LEMMA FirstOver ==
    ASSUME PageInv, NEW i \in DOMAIN reads, Page!InOrder(i), reads' = Page!RemoveAt(reads, i),
           ~reads[i].mine,
           data' = data \/ (reads[i].got # None /\ data' = reads[i].got),
           UNCHANGED <<storage, paint, deed>>
    PROVE  PageInv'
  <1>1. PageTypes /\ Own(deed, reads) /\ Carried(deed) /\ Newer(deed, reads) /\ Page!DeedShown
    BY DEF PageInv
  <1>2. /\ i = 1 /\ reads' \in Seq(Queries)
        /\ \A j \in DOMAIN reads' : /\ j \in Nat /\ j >= 1 /\ j + 1 \in DOMAIN reads
                                    /\ reads'[j] = reads[j + 1]
    BY <1>1, FirstRead DEF PageTypes
  <1>3. Own(deed, reads')
    <2>1. ASSUME NEW j \in DOMAIN reads', NEW k \in DOMAIN reads', reads'[j].mine, reads'[k].mine
          PROVE  j = k
      <3>1. j + 1 = k + 1
        BY <1>1, <1>2, <2>1 DEF Own
      <3> QED
        BY <1>2, <3>1
    <2> QED
      BY <1>1, <1>2, <2>1 DEF Own
  <1>4. ASSUME NEW n \in Nat, NewFrom(deed, n + 1, reads) PROVE NewFrom(deed, n, reads')
    <2>1. ASSUME NEW j \in DOMAIN reads', j >= n, reads'[j].got # None
          PROVE  reads'[j].got[deed.field] >= deed.version
      <3>1. j + 1 >= n + 1
        BY <1>2, <2>1
      <3> QED
        BY <1>2, <1>4, <2>1, <3>1 DEF NewFrom
    <2> QED
      BY <2>1 DEF NewFrom
  <1>5. ASSUME deed.at = "reading", NEW j \in DOMAIN reads', reads'[j].mine
        PROVE  NewFrom(deed, j, reads')
    BY <1>1, <1>2, <1>4, <1>5 DEF Newer
  <1>6. ASSUME deed.at = "shown" PROVE NewFrom(deed, 1, reads')
    <2>1. NewFrom(deed, 1, reads)
      BY <1>1, <1>6 DEF Newer
    <2>2. NewFrom(deed, 1 + 1, reads)
      <3>1. \A j \in DOMAIN reads : j >= 1 + 1 => j >= 1
        BY <1>1, LenProperties DEF PageTypes
      <3> QED
        BY <2>1, <3>1 DEF NewFrom
    <2> QED
      BY <1>4, <2>2
  <1>7. Page!DeedShown'
    <2>1. ASSUME deed.at = "shown", reads[1].got # None
          PROVE  reads[1].got[deed.field] >= deed.version
      BY <1>1, <1>2, <2>1 DEF Newer, NewFrom
    <2> QED
      BY <1>1, <1>2, <2>1 DEF Page!DeedShown
  <1>8. PageTypes'
    BY <1>1, <1>2 DEF PageTypes
  <1> QED
    BY <1>1, <1>3, <1>5, <1>6, <1>7, <1>8 DEF PageInv, Carried, Newer

\* The operation's own read is over, shown or failed.
LEMMA MineOver ==
    ASSUME PageInv, NEW i \in DOMAIN reads, Page!InOrder(i), reads' = Page!RemoveAt(reads, i),
           reads[i].mine,
           \/ reads[i].got # None /\ data' = reads[i].got /\ deed' = Page!Finished
           \/ deed' = Page!NoDeed,
           UNCHANGED <<storage, paint>>
    PROVE  PageInv'
  <1>1. PageTypes /\ Own(deed, reads) /\ Carried(deed) /\ Newer(deed, reads)
    BY DEF PageInv
  <1>2. /\ i = 1 /\ reads' \in Seq(Queries)
        /\ \A j \in DOMAIN reads' : /\ j \in Nat /\ j >= 1 /\ j + 1 \in DOMAIN reads
                                    /\ reads'[j] = reads[j + 1]
    BY <1>1, FirstRead DEF PageTypes
  <1>3. \A j \in DOMAIN reads' : ~reads'[j].mine
    <2>1. ASSUME NEW j \in DOMAIN reads', reads'[j].mine PROVE FALSE
      <3>1. j + 1 = 1
        BY <1>1, <1>2, <2>1 DEF Own
      <3> QED
        BY <1>2, <3>1
    <2> QED
      BY <2>1
  <1>4. deed.at = "reading" /\ NewFrom(deed, 1, reads)
    BY <1>1, <1>2 DEF Own, Newer
  <1>5. CASE reads[i].got # None /\ data' = reads[i].got /\ deed' = Page!Finished
    <2>1. /\ deed' \in Operations /\ deed'.at = "shown" /\ deed'.field = deed.field
          /\ deed'.version = deed.version
      BY <1>1, <1>5 DEF Page!Finished, PageTypes, Operations
    <2>2. Page!DeedShown'
      BY <1>2, <1>4, <1>5, <2>1 DEF Page!DeedShown, NewFrom
    <2>3. NewFrom(deed', 1, reads')
      <3>1. ASSUME NEW j \in DOMAIN reads', reads'[j].got # None
            PROVE  reads'[j].got[deed.field] >= deed.version
        <4>1. j + 1 >= 1 /\ j + 1 \in DOMAIN reads /\ reads'[j] = reads[j + 1]
          BY <1>2
        <4> QED
          BY <1>4, <3>1, <4>1 DEF NewFrom
      <3> QED
        BY <2>1, <3>1 DEF NewFrom
    <2>4. PageTypes'
      BY <1>1, <1>2, <2>1 DEF PageTypes
    <2> QED
      BY <1>1, <1>3, <1>4, <2>1, <2>2, <2>3, <2>4 DEF PageInv, Carried, Newer, Own
  <1>6. CASE deed' = Page!NoDeed
    <2>1. deed' \in Operations /\ deed'.at = "idle"
      BY <1>6 DEF Page!NoDeed, Operations
    <2>2. PageTypes'
      BY <1>1, <1>2, <2>1 DEF PageTypes
    <2> QED
      BY <1>3, <2>1, <2>2 DEF PageInv, Carried, Newer, Own, Page!DeedShown
  <1> QED
    BY <1>5, <1>6

LEMMA RepliesKeep ==
    ASSUME PageInv, NEW i \in DOMAIN reads,
           Page!ReplySlot(i) \/ Page!ReplyPoll(i) \/ Page!FailRead(i)
    PROVE  PageInv'
  <1>1. Page!InOrder(i) /\ reads' = Page!RemoveAt(reads, i) /\ UNCHANGED <<storage, paint>>
    BY DEF Page!ReplySlot, Page!ReplyPoll, Page!FailRead, Page!server
  <1>2. CASE Page!ReplySlot(i)
    <2>1. /\ reads[i].got # None /\ data' = reads[i].got
          /\ deed' = IF reads[i].mine THEN Page!Finished ELSE deed
      BY <1>2 DEF Page!ReplySlot, Page!Shows
    <2> QED
      BY <1>1, <2>1, FirstOver, MineOver
  <1>3. CASE Page!ReplyPoll(i)
    <2>1. ~reads[i].mine
      BY <1>3 DEF PageInv, Own, Page!ReplyPoll
    <2>2. /\ data' = data \/ (reads[i].got # None /\ data' = reads[i].got)
          /\ deed' = deed
      BY <1>3 DEF Page!ReplyPoll, Page!Shows
    <2> QED
      BY <1>1, <2>1, <2>2, FirstOver
  <1>4. CASE Page!FailRead(i)
    <2>1. deed' = (IF reads[i].mine THEN Page!NoDeed ELSE deed) /\ data' = data
      BY <1>4 DEF Page!FailRead
    <2> QED
      BY <1>1, <2>1, FirstOver, MineOver
  <1> QED
    BY <1>2, <1>3, <1>4

\* An operation sent, carried out or refused, while no read is its own.
LEMMA OperationKeeps ==
    ASSUME PageInv, Page!Submit \/ Page!Commit \/ Page!Reject
    PROVE  PageInv'
  <1>1. PageTypes /\ Own(deed, reads)
    BY DEF PageInv
  <1>2. deed.at # "reading" /\ UNCHANGED <<paint, reads, data>>
    BY DEF Page!Submit, Page!Commit, Page!Reject, Page!manager
  <1>3. \A i \in DOMAIN reads : ~reads[i].mine
    BY <1>1, <1>2 DEF Own
  <1>4. ASSUME deed' \in Operations, storage' \in Holdings, deed'.at \in {"idle", "sent", "done"},
               deed'.at = "done" => storage'[deed'.field] >= deed'.version
        PROVE  PageInv'
    BY <1>1, <1>2, <1>3, <1>4 DEF PageInv, PageTypes, Own, Carried, Newer, Page!DeedShown
  <1>5. CASE Page!Submit \/ Page!Reject
    <2>1. storage' = storage /\ deed' \in Operations /\ deed'.at \in {"idle", "sent"}
      <3>1. storage' = storage
        BY <1>5 DEF Page!Submit, Page!Reject, Page!server
      <3>2. CASE Page!Submit
        <4>1. PICK f \in {"pools", "policy"} : deed' = [Page!NoDeed EXCEPT !.at = "sent", !.field = f]
          BY <3>2 DEF Page!Submit
        <4>2. deed' = [at |-> "sent", field |-> f, version |-> 0]
          BY <4>1 DEF Page!NoDeed
        <4> QED
          BY <3>1, <4>2 DEF Operations
      <3>3. CASE Page!Reject
        BY <3>1, <3>3 DEF Page!Reject, Page!NoDeed, Operations
      <3> QED
        BY <1>5, <3>2, <3>3
    <2> QED
      BY <1>1, <1>4, <2>1 DEF PageTypes
  <1>6. CASE Page!Commit
    <2>1. /\ storage' = [storage EXCEPT ![deed.field] = @ + 1]
          /\ deed' = [deed EXCEPT !.at = "done", !.version = storage'[deed.field]]
      BY <1>6 DEF Page!Commit
    <2>2. storage \in Holdings /\ deed \in Operations
      BY <1>1 DEF PageTypes
    <2>3. deed.field \in {"pools", "policy"}
      BY <2>2 DEF Operations
    <2>4. storage' \in Holdings /\ storage'[deed.field] \in Nat
      BY <2>1, <2>2, <2>3 DEF Holdings
    <2>5. /\ deed' \in Operations /\ deed'.at = "done" /\ deed'.field = deed.field
          /\ deed'.version = storage'[deed.field]
      BY <2>1, <2>2, <2>4 DEF Operations
    <2>6. storage'[deed'.field] >= deed'.version
      BY <2>4, <2>5
    <2> QED
      BY <1>4, <2>4, <2>5, <2>6
  <1> QED
    BY <1>5, <1>6

LEMMA AttachKeeps == ASSUME PageInv, Page!Attach PROVE PageInv'
  <1>1. /\ storage' = [storage EXCEPT !.disks = @ + 1]
        /\ UNCHANGED <<paint, reads, deed, data>>
    BY DEF Page!Attach, Page!manager
  <1>2. storage \in Holdings /\ deed \in Operations
    BY DEF PageInv, PageTypes
  <1>3. storage' \in Holdings /\ storage'.pools = storage.pools /\ storage'.policy = storage.policy
    BY <1>1, <1>2 DEF Holdings
  <1>4. storage'[deed.field] = storage[deed.field]
    BY <1>1, <1>2 DEF Holdings, Operations
  <1>5. PageTypes /\ Own(deed, reads) /\ Carried(deed) /\ Newer(deed, reads) /\ Page!DeedShown
    BY DEF PageInv
  <1>6. PageTypes' /\ Carried(deed)' /\ Page!DeedShown' /\ Own(deed, reads)'
    BY <1>1, <1>3, <1>4, <1>5 DEF PageTypes, Carried, Page!DeedShown, Own
  <1>7. Newer(deed, reads)'
    BY <1>1, <1>5 DEF Newer, NewFrom
  <1> QED
    BY <1>6, <1>7 DEF PageInv

LEMMA PageStep ==
    ASSUME PageInv, Page!Next \/ UNCHANGED pageVars
    PROVE  PageInv'
  <1>1. PageTypes
    BY DEF PageInv
  <1>2. CASE UNCHANGED pageVars
    BY <1>2, PageRests DEF pageVars
  <1>3. CASE \/ Page!Look \/ Page!Store \/ Page!RefreshFails \/ Page!Leave
             \/ Page!ScanBegins \/ Page!Scanned \/ Page!Overview \/ Page!ScanFails
    BY <1>3, PageRests
    DEF Page!Look, Page!Store, Page!RefreshFails, Page!Leave, Page!ScanBegins, Page!Scanned,
        Page!Overview, Page!ScanFails, Page!server, Page!manager
  <1>4. ASSUME NEW kind_ \in {"slot", "poll"}, NEW of \in Nat, paint' \in Nat,
               reads' = Append(reads, Page!Read(kind_, of, FALSE)),
               UNCHANGED <<storage, deed, data>>
        PROVE  PageInv'
    <2> DEFINE q == Page!Read(kind_, of, FALSE)
    <2>1. q \in Queries /\ ~q.mine /\ q.got = None
      BY DEF Page!Read, Queries
    <2> HIDE DEF q
    <2> QED
      BY <1>4, <2>1, PageAsks DEF q
  <1>5. ASSUME Page!Painted, UNCHANGED <<storage, deed, data>> PROVE PageInv'
    <2>1. paint + 1 \in Nat
      BY <1>1 DEF PageTypes
    <2> QED
      BY <1>4, <1>5, <2>1 DEF Page!Painted
  <1>6. CASE Page!Visit
    BY <1>5, <1>6 DEF Page!Visit, Page!server
  <1>7. CASE Page!Poll
    BY <1>1, <1>4, <1>7 DEF Page!Poll, Page!server, PageTypes
  <1>8. CASE Page!Fetched
    <2>1. CASE page = "storage"
      BY <1>5, <1>8, <2>1 DEF Page!Fetched, Page!server
    <2>2. CASE page # "storage"
      BY <1>8, <2>2, PageRests DEF Page!Fetched, Page!server
    <2> QED
      BY <2>1, <2>2
  <1> QED
    BY <1>2, <1>3, <1>6, <1>7, <1>8, AttachKeeps, ServedKeeps, RepliesKeep, OperationKeeps,
       RefreshKeeps
    DEF Page!Next, Page!Replies

-----------------------------------------------------------------------------
(* The dialogs: what is saved of what was entered *)

\* RemoveAt of the modules, each of which has its own.
Without(s, i) == SubSeq(s, 1, i - 1) \o SubSeq(s, i + 1, Len(s))

\* What it leaves: the elements before the place, and those after it moved.
LEMMA Removed ==
    ASSUME NEW S, NEW s \in Seq(S), NEW i \in DOMAIN s
    PROVE  LET r == Without(s, i) IN
           /\ r \in Seq(S)
           /\ DOMAIN s = 1..Len(s) /\ DOMAIN r = 1..Len(r)
           /\ Len(s) \in Nat /\ Len(r) = Len(s) - 1
           /\ \A j \in DOMAIN r : r[j] = IF j < i THEN s[j] ELSE s[j + 1]
  <1> DEFINE r == Without(s, i)
  <1>1. DOMAIN s = 1..Len(s) /\ Len(s) \in Nat
    BY LenProperties
  <1> DEFINE a == SubSeq(s, 1, i - 1)  b == SubSeq(s, i + 1, Len(s))
  <1>2. a \in Seq(S) /\ Len(a) = i - 1 /\ \A j \in 1..(i - 1) : a[j] = s[j]
    BY <1>1
  <1>3. b \in Seq(S) /\ Len(b) = Len(s) - i /\ \A j \in 1..(Len(s) - i) : b[j] = s[i + j]
    BY <1>1
  <1> HIDE DEF a, b, r
  <1>4. r = a \o b
    BY DEF a, b, r, Without
  <1>5. /\ r \in Seq(S) /\ Len(r) = Len(a) + Len(b)
        /\ \A j \in 1..Len(a) + Len(b) : r[j] = IF j <= Len(a) THEN a[j] ELSE b[j - Len(a)]
    <2>1. a \in Seq(S) /\ b \in Seq(S)
      BY <1>2, <1>3
    <2> QED
      BY <2>1, <1>4, ConcatProperties
  <1>6. DOMAIN r = 1..Len(r) /\ Len(r) = Len(s) - 1
    <2>1. DOMAIN r = 1..Len(r)
      BY <1>5, LenProperties
    <2> QED
      BY <1>1, <1>2, <1>3, <1>5, <2>1
  <1>7. ASSUME NEW j \in DOMAIN r PROVE r[j] = IF j < i THEN s[j] ELSE s[j + 1]
    <2>1. /\ Len(a) = i - 1 /\ Len(b) = Len(s) - i /\ i \in 1..Len(s)
          /\ Len(s) \in Nat /\ j \in 1..(Len(s) - 1)
      BY <1>1, <1>2, <1>3, <1>6
    <2>2. j \in 1..Len(a) + Len(b)
      BY <2>1
    <2>3. r[j] = IF j <= Len(a) THEN a[j] ELSE b[j - Len(a)]
      BY <1>5, <2>2
    <2>4. CASE j < i
      <3>1. j <= Len(a) /\ j \in 1..(i - 1)
        BY <2>1, <2>4
      <3> QED
        BY <1>2, <2>3, <2>4, <3>1
    <2>5. CASE ~(j < i)
      <3> DEFINE n == Len(s)  m == Len(a)
      <3>1. ~(j <= m) /\ j - m \in 1..(n - i) /\ i + (j - m) = j + 1
        <4>1. n \in Nat /\ i \in 1..n /\ j \in 1..(n - 1) /\ m = i - 1
          BY <2>1
        <4> HIDE DEF n, m
        <4>2. n \in Int /\ i \in Int /\ j \in Int /\ m \in Int
          BY <4>1
        <4>3. i <= j /\ j <= n - 1
          BY <2>5, <4>1, <4>2
        <4>4. ~(j <= m)
          BY <4>1, <4>2, <4>3
        <4>5. j - m \in 1..(n - i)
          BY <4>1, <4>2, <4>3
        <4>6. i + (j - m) = j + 1
          BY <4>1, <4>2
        <4> QED
          BY <4>4, <4>5, <4>6
      <3>2. b[j - Len(a)] = s[i + (j - Len(a))]
        BY <1>3, <3>1
      <3> QED
        BY <2>3, <2>5, <3>1, <3>2
    <2> QED
      BY <2>4, <2>5
  <1> QED
    BY <1>1, <1>5, <1>6, <1>7 DEF r

Guests == Dialogs!Settings \cup {Gone}
Caches == {None} \cup [full : BOOLEAN, got : Guests]
Loads == [use : {"page", "edit", "create"}, got : Guests \cup {None}, hasty : BOOLEAN]
Forms == [what : {"edit", "create", "delete", "noStorage"}, was : Dialogs!Settings,
          now : Dialogs!Settings, at : {"open", "saving"}, deed : Nat, hasty : BOOLEAN]

Working(d) == deeds[d].truth = "sent"
Waits(q) == q.use # "page"

FormTyped(f) ==
    f # NoForm =>
        /\ f \in Forms
        /\ f.at = "open" => f.deed = 0
        /\ f.at = "saving" => f.deed \in DOMAIN deeds

EntryTypes ==
    /\ guest \in Guests /\ cache \in Caches /\ asked \in Seq(Loads) /\ FormTyped(form)
    /\ \A d \in DOMAIN deeds :
          Working(d) => deeds[d].sent \in Forms /\ deeds[d].what \in {"create", "edit", "delete"}

\* One inventory is awaited by a dialog to come, and none while a dialog is open.
OneWaits(rs) == \A i, j \in DOMAIN rs : Waits(rs[i]) /\ Waits(rs[j]) => i = j
Alone(rs, f) == (\E i \in DOMAIN rs : Waits(rs[i])) => f = NoForm

\* What was asked for while the host was at rest finds it so, and as it is.
ReadFits(q) ==
    q.use = "edit" /\ ~q.hasty => ~Dialogs!AtWork /\ (q.got # None => q.got = guest)

\* The manager that was opened so shows the guest as it is, until its own save is done.
FormFits(f) ==
    f # NoForm /\ kind = "container" /\ f.what = "edit" /\ ~f.hasty =>
        /\ f.at = "open" => ~Dialogs!AtWork /\ f.was = guest
        /\ f.at = "saving" =>
              /\ \A e \in DOMAIN deeds : Working(e) => e = f.deed
              /\ deeds[f.deed].truth # "done" => f.was = guest

\* A save that was sent so is alone at work, on the guest it was opened with.
SentFits ==
    \A d \in DOMAIN deeds :
        /\ kind = "container" /\ deeds[d].what = "edit" /\ Working(d) /\ ~deeds[d].sent.hasty
        => /\ guest = deeds[d].sent.was
           /\ \A e \in DOMAIN deeds : Working(e) => e = d

EntryInv ==
    /\ EntryTypes /\ OneWaits(asked) /\ Alone(asked, form)
    /\ \A i \in DOMAIN asked : ReadFits(asked[i])
    /\ FormFits(form) /\ SentFits

LEMMA NewTyped == Dialogs!New \in Dialogs!Settings
  BY DEF Dialogs!New, Dialogs!Settings

LEMMA EntryBegins == ASSUME Dialogs!Init PROVE EntryInv
  <1>1. deeds = <<>> /\ asked = <<>> /\ form = NoForm /\ cache = None /\ guest \in Guests
    BY NewTyped DEF Dialogs!Init, Guests
  <1>2. DOMAIN deeds = {} /\ DOMAIN asked = {} /\ asked \in Seq(Loads)
    BY <1>1
  <1> QED
    BY <1>1, <1>2
    DEF EntryInv, EntryTypes, Caches, FormTyped, OneWaits, Alone, FormFits, SentFits

\* Steps that leave the deeds as they are, but for their windows.
SameDeeds ==
    /\ DOMAIN deeds' = DOMAIN deeds
    /\ \A e \in DOMAIN deeds : /\ deeds'[e].what = deeds[e].what
                               /\ deeds'[e].sent = deeds[e].sent
                               /\ deeds'[e].truth = deeds[e].truth

LEMMA EntryKept ==
    ASSUME EntryInv, SameDeeds, guest' = guest, kind' = kind, cache' \in Caches,
           asked' \in Seq(Loads), OneWaits(asked'), Alone(asked', form'),
           \A i \in DOMAIN asked' : ReadFits(asked'[i]),
           FormTyped(form'), FormFits(form')
    PROVE  EntryInv'
  <1>1. Dialogs!AtWork' = Dialogs!AtWork
    BY DEF SameDeeds, Dialogs!AtWork
  <1>2. \A e \in DOMAIN deeds : Working(e)' = Working(e)
    BY DEF SameDeeds, Working
  <1>3. EntryTypes'
    BY <1>2 DEF EntryInv, EntryTypes, SameDeeds, FormTyped
  <1>4. OneWaits(asked)' /\ Alone(asked, form)'
    BY DEF OneWaits, Alone
  <1>5. \A i \in DOMAIN asked' : ReadFits(asked[i])'
    BY <1>1 DEF ReadFits
  <1>6. FormFits(form)'
    <2>1. FormTyped(form')
      OBVIOUS
    <2> QED
      BY <1>1, <1>2, <2>1 DEF FormFits, FormTyped, SameDeeds
  <1>7. SentFits'
    <2>1. SentFits
      BY DEF EntryInv
    <2>2. ASSUME NEW d \in DOMAIN deeds', kind' = "container", deeds'[d].what = "edit",
                 Working(d)', ~deeds'[d].sent.hasty
          PROVE  guest' = deeds'[d].sent.was /\ \A e \in DOMAIN deeds' : Working(e)' => e = d
      <3>1. /\ d \in DOMAIN deeds /\ kind = "container" /\ deeds[d].what = "edit"
            /\ Working(d) /\ ~deeds[d].sent.hasty /\ deeds'[d].sent = deeds[d].sent
        BY <1>2, <2>2 DEF SameDeeds
      <3>2. guest = deeds[d].sent.was /\ \A e \in DOMAIN deeds : Working(e) => e = d
        BY <2>1, <3>1 DEF SentFits
      <3> QED
        BY <1>2, <3>1, <3>2 DEF SameDeeds
    <2> QED
      BY <2>2 DEF SentFits
  <1> QED
    BY <1>3, <1>4, <1>5, <1>6, <1>7 DEF EntryInv

LEMMA SameKept == ASSUME UNCHANGED deeds PROVE SameDeeds
  BY DEF SameDeeds

\* A step that opens no dialog and asks for nothing.
LEMMA FormStep ==
    ASSUME EntryInv, SameDeeds, UNCHANGED <<guest, kind, asked>>, cache' \in Caches,
           Alone(asked, form'), FormTyped(form'), FormFits(form')
    PROVE  EntryInv'
  <1>1. /\ asked' \in Seq(Loads) /\ OneWaits(asked') /\ Alone(asked', form')
        /\ \A i \in DOMAIN asked' : ReadFits(asked'[i])
    BY DEF EntryInv, EntryTypes
  <1> QED
    BY <1>1, EntryKept

-----------------------------------------------------------------------------
(* Their steps *)

\* An inventory asked for, by the page or by a dialog to come.
LEMMA AskKeeps ==
    ASSUME EntryInv, NEW use \in {"page", "edit", "create"}, Dialogs!Ask(use),
           use # "page" => ~Dialogs!Awaited /\ form = NoForm,
           UNCHANGED <<guest, kind, cache, form, deeds>>
    PROVE  EntryInv'
  <1> DEFINE q == [use |-> use, got |-> None, hasty |-> use = "edit" /\ Dialogs!AtWork]
  <1>1. asked' = Append(asked, q)
    BY DEF Dialogs!Ask
  <1>2. Dialogs!AtWork \in BOOLEAN
    BY DEF Dialogs!AtWork
  <1>3. q \in Loads /\ q.use = use /\ ReadFits(q)
    BY <1>2 DEF Loads, ReadFits
  <1> HIDE DEF q
  <1>4. /\ asked \in Seq(Loads) /\ OneWaits(asked) /\ Alone(asked, form)
        /\ \A i \in DOMAIN asked : ReadFits(asked[i])
        /\ cache \in Caches /\ FormTyped(form) /\ FormFits(form)
    BY DEF EntryInv, EntryTypes
  <1>5. /\ asked' \in Seq(Loads)
        /\ \A i \in DOMAIN asked' : (i \in DOMAIN asked /\ asked'[i] = asked[i])
                                    \/ (i = Len(asked) + 1 /\ asked'[i] = q)
    <2>1. DOMAIN asked = 1..Len(asked) /\ Len(asked) \in Nat
      BY <1>4, LenProperties
    <2>2. /\ asked' \in Seq(Loads) /\ Len(asked') = Len(asked) + 1
          /\ \A i \in 1..Len(asked) : asked'[i] = asked[i]
          /\ asked'[Len(asked) + 1] = q
      BY <1>1, <1>3, <1>4, AppendProperties
    <2>3. DOMAIN asked' = 1..(Len(asked) + 1)
      BY <2>2, LenProperties
    <2>4. \A i \in 1..(Len(asked) + 1) : i = Len(asked) + 1 \/ i \in 1..Len(asked)
      BY <2>1
    <2> QED
      BY <2>1, <2>2, <2>3, <2>4
  <1>6. use # "page" => \A i \in DOMAIN asked : ~Waits(asked[i])
    BY DEF Dialogs!Awaited, Waits
  <1>7. OneWaits(asked') /\ Alone(asked', form')
    <2>1. use = "page" => ~Waits(q)
      BY <1>3 DEF Waits
    <2> QED
      BY <1>4, <1>5, <1>6, <2>1 DEF OneWaits, Alone
  <1>8. \A i \in DOMAIN asked' : ReadFits(asked'[i])
    BY <1>3, <1>4, <1>5
  <1> QED
    BY <1>4, <1>5, <1>7, <1>8, SameKept, EntryKept

LEMMA LookedKeeps == ASSUME EntryInv, NEW i \in DOMAIN asked, Dialogs!Looked(i) PROVE EntryInv'
  <1>1. asked' = [asked EXCEPT ![i].got = guest] /\ UNCHANGED <<kind, guest, cache, form, deeds>>
    BY DEF Dialogs!Looked
  <1>2. /\ asked \in Seq(Loads) /\ OneWaits(asked) /\ Alone(asked, form)
        /\ \A j \in DOMAIN asked : ReadFits(asked[j])
        /\ guest \in Guests /\ cache \in Caches /\ FormTyped(form) /\ FormFits(form)
    BY DEF EntryInv, EntryTypes
  <1>3. \A j \in DOMAIN asked : asked[j] \in Loads
    BY <1>2, ElementOfSeq, LenProperties
  <1> DEFINE q == [asked[i] EXCEPT !.got = guest]
  <1>4. q \in Loads /\ q.use = asked[i].use /\ q.hasty = asked[i].hasty /\ q.got = guest
    BY <1>2, <1>3 DEF Loads
  <1>5. asked' = [asked EXCEPT ![i] = q]
    BY <1>1
  <1> HIDE DEF q
  <1>6. asked' \in Seq(Loads) /\ DOMAIN asked' = DOMAIN asked
        /\ \A j \in DOMAIN asked : asked'[j] = IF j = i THEN q ELSE asked[j]
    BY <1>2, <1>4, <1>5
  <1>7. \A j \in DOMAIN asked : Waits(asked'[j]) = Waits(asked[j])
    BY <1>4, <1>6 DEF Waits
  <1>8. OneWaits(asked') /\ Alone(asked', form')
    BY <1>1, <1>2, <1>6, <1>7 DEF OneWaits, Alone
  <1>9. ReadFits(q)
    BY <1>2, <1>4 DEF ReadFits
  <1>10. \A j \in DOMAIN asked' : ReadFits(asked'[j])
    BY <1>2, <1>6, <1>9
  <1> QED
    BY <1>1, <1>2, <1>6, <1>8, <1>10, SameKept, EntryKept

\* An inventory has come, or does not.
LEMMA InventoryOver ==
    ASSUME EntryInv, NEW i \in DOMAIN asked, NEW rs, rs = Dialogs!RemoveAt(asked, i)
    PROVE  /\ rs \in Seq(Loads) /\ OneWaits(rs) /\ Alone(rs, form)
           /\ \A j \in DOMAIN rs : ReadFits(rs[j])
           /\ Waits(asked[i]) => \A f : Alone(rs, f)
  <1>1. /\ asked \in Seq(Loads) /\ OneWaits(asked) /\ Alone(asked, form)
        /\ \A j \in DOMAIN asked : ReadFits(asked[j])
    BY DEF EntryInv, EntryTypes
  <1>2. rs = Without(asked, i)
    BY DEF Dialogs!RemoveAt, Without
  <1> DEFINE at(j) == IF j < i THEN j ELSE j + 1
  <1>3. /\ rs \in Seq(Loads) /\ DOMAIN asked = 1..Len(asked) /\ DOMAIN rs = 1..Len(rs)
        /\ Len(asked) \in Nat /\ Len(rs) = Len(asked) - 1
        /\ \A j \in DOMAIN rs : rs[j] = IF j < i THEN asked[j] ELSE asked[j + 1]
    BY <1>1, <1>2, Removed
  <1>4. ASSUME NEW j \in DOMAIN rs
        PROVE  at(j) \in DOMAIN asked /\ at(j) # i /\ rs[j] = asked[at(j)]
    <2>1. j \in 1..(Len(asked) - 1) /\ i \in 1..Len(asked) /\ Len(asked) \in Nat
      BY <1>3
    <2>2. at(j) \in 1..Len(asked) /\ at(j) # i
      BY <2>1
    <2> QED
      BY <1>3, <2>2
  <1>5. ASSUME NEW j \in DOMAIN rs, NEW k \in DOMAIN rs, at(j) = at(k) PROVE j = k
    <2>1. j \in Int /\ k \in Int /\ i \in Int
      BY <1>3
    <2> QED
      BY <1>5, <2>1
  <1> HIDE DEF at
  <1>6. OneWaits(rs)
    BY <1>1, <1>4, <1>5 DEF OneWaits
  <1>7. Alone(rs, form)
    BY <1>1, <1>4 DEF Alone
  <1>8. Waits(asked[i]) => \A f : Alone(rs, f)
    BY <1>1, <1>4 DEF OneWaits, Alone
  <1> QED
    BY <1>1, <1>3, <1>4, <1>6, <1>7, <1>8

LEMMA FormIsTyped ==
    ASSUME NEW what \in {"edit", "create", "delete", "noStorage"}, NEW was \in Dialogs!Settings,
           NEW hasty \in BOOLEAN, NEW f, f = Dialogs!Form(what, was, hasty)
    PROVE  FormTyped(f) /\ f.what = what /\ f.at = "open" /\ f.was = was /\ f.hasty = hasty
  BY DEF Dialogs!Form, FormTyped, Forms

LEMMA NewForm ==
    ASSUME NEW what \in {"edit", "create", "delete", "noStorage"},
           NEW f, f = Dialogs!Form(what, Dialogs!New, FALSE)
    PROVE  FormTyped(f) /\ f.what = what
  BY NewTyped DEF Dialogs!Form, FormTyped, Forms

LEMMA NothingOpen == FormTyped(NoForm) /\ FormFits(NoForm) /\ \A rs : Alone(rs, NoForm)
  BY DEF FormTyped, FormFits, Alone

LEMMA OtherForms ==
    ASSUME NEW f, f.what # "edit" \/ kind # "container" \/ f.hasty PROVE FormFits(f)
  BY DEF FormFits

LEMMA ReadsKeep ==
    ASSUME EntryInv, NEW i \in DOMAIN asked,
           \/ Dialogs!Loaded(i) \/ Dialogs!EditAnswered(i) \/ Dialogs!CreateAnswered(i)
           \/ Dialogs!ReadFails(i)
    PROVE  EntryInv'
  <1> DEFINE q == asked[i]
  <1>1. /\ asked' = Dialogs!RemoveAt(asked, i) /\ UNCHANGED <<guest, kind, deeds>>
    BY DEF Dialogs!Loaded, Dialogs!EditAnswered, Dialogs!CreateAnswered, Dialogs!ReadFails
  <1>2. /\ asked' \in Seq(Loads) /\ OneWaits(asked') /\ Alone(asked', form)
        /\ \A j \in DOMAIN asked' : ReadFits(asked'[j])
        /\ Waits(q) => \A f : Alone(asked', f)
    BY <1>1, InventoryOver
  <1>3. q \in Loads /\ ReadFits(q) /\ cache \in Caches /\ FormTyped(form) /\ FormFits(form)
    BY ElementOfSeq, LenProperties DEF EntryInv, EntryTypes
  <1> HIDE DEF q
  <1>4. ASSUME q.got # None, NEW full \in BOOLEAN PROVE Dialogs!Inventory(full, q.got) \in Caches
    BY <1>3, <1>4 DEF Dialogs!Inventory, Caches, Loads
  <1>5. SameDeeds
    BY <1>1, SameKept
  <1>6. CASE Dialogs!ReadFails(i)
    BY <1>1, <1>2, <1>3, <1>5, <1>6, EntryKept DEF Dialogs!ReadFails
  <1>7. CASE Dialogs!Loaded(i)
    <2>1. cache' \in Caches /\ form' = form
      BY <1>4, <1>7 DEF Dialogs!Loaded, q
    <2> QED
      BY <1>1, <1>2, <1>3, <1>5, <2>1, EntryKept
  <1>8. CASE Dialogs!EditAnswered(i)
    <2>1. /\ q.use = "edit" /\ q.got # None /\ cache' \in Caches
          /\ form' = CASE q.got # Gone -> Dialogs!Form("edit", q.got, q.hasty)
                       [] q.got = Gone /\ kind = "vm" -> Dialogs!Form("edit", Dialogs!New, FALSE)
                       [] OTHER -> NoForm
      BY <1>4, <1>8 DEF Dialogs!EditAnswered, q
    <2>2. FormTyped(form') /\ FormFits(form')
      <3>1. CASE q.got # Gone
        <4>1. form' = Dialogs!Form("edit", q.got, q.hasty)
          BY <2>1, <3>1
        <4>2. q.got \in Dialogs!Settings /\ q.hasty \in BOOLEAN
          BY <1>3, <2>1, <3>1 DEF Loads, Guests
        <4>3. /\ FormTyped(form') /\ form'.what = "edit" /\ form'.at = "open"
              /\ form'.was = q.got /\ form'.hasty = q.hasty
          BY <4>1, <4>2, FormIsTyped
        <4>4. FormFits(form')
          BY <1>3, <2>1, <4>3 DEF FormFits, ReadFits
        <4> QED
          BY <4>3, <4>4
      <3>2. CASE q.got = Gone /\ kind = "vm"
        <4>1. form' = Dialogs!Form("edit", Dialogs!New, FALSE)
          BY <2>1, <3>2
        <4>2. FormTyped(form') /\ kind # "container"
          BY <3>2, <4>1, NewForm
        <4> QED
          BY <4>2, OtherForms
      <3>3. CASE q.got = Gone /\ kind # "vm"
        BY <2>1, <3>3, NothingOpen
      <3> QED
        BY <3>1, <3>2, <3>3
    <2>3. Alone(asked', form')
      BY <1>2, <2>1 DEF Waits
    <2> QED
      BY <1>1, <1>2, <1>5, <2>1, <2>2, <2>3, EntryKept
  <1>9. CASE Dialogs!CreateAnswered(i)
    <2>1. /\ q.use = "create" /\ q.got # None /\ cache' \in Caches
          /\ form' = Dialogs!Form("create", Dialogs!New, FALSE)
      BY <1>3, <1>4, <1>9 DEF Dialogs!CreateAnswered, q
    <2>2. FormTyped(form') /\ form'.what = "create"
      BY <2>1, NewForm
    <2>3. Alone(asked', form') /\ FormFits(form')
      BY <1>2, <2>1, <2>2, OtherForms DEF Waits
    <2> QED
      BY <1>1, <1>2, <1>5, <2>1, <2>2, <2>3, EntryKept
  <1> QED
    BY <1>6, <1>7, <1>8, <1>9

\* A dialog opened with what the page knows, or asked for.
LEMMA DialogOpens ==
    ASSUME EntryInv, Dialogs!Edit \/ Dialogs!Create \/ Dialogs!Delete
    PROVE  EntryInv'
  <1>1. /\ form = NoForm /\ ~Dialogs!Awaited /\ UNCHANGED <<guest, kind, cache, deeds>>
    BY DEF Dialogs!Edit, Dialogs!Create, Dialogs!Delete, Dialogs!Idle
  <1>2. cache \in Caches /\ SameDeeds
    BY <1>1, SameKept DEF EntryInv, EntryTypes
  <1>3. \A f : Alone(asked, f)
    BY <1>1 DEF Alone, Dialogs!Awaited, Waits
  <1>4. ASSUME asked' = asked, FormTyped(form'), FormFits(form') PROVE EntryInv'
    BY <1>1, <1>2, <1>3, <1>4, FormStep
  <1>5. ASSUME NEW use \in {"edit", "create"}, Dialogs!Ask(use), form' = form PROVE EntryInv'
    BY <1>1, <1>5, AskKeeps
  <1>6. CASE Dialogs!Edit
    <2>1. CASE Dialogs!Known
      <3>1. /\ form' = Dialogs!Form("edit", cache.got, Dialogs!AtWork) /\ asked' = asked
            /\ kind # "container" /\ cache # None /\ cache.got # Gone
        BY <1>6, <2>1 DEF Dialogs!Edit, Dialogs!Known
      <3>2. cache.got \in Dialogs!Settings /\ Dialogs!AtWork \in BOOLEAN
        BY <1>2, <3>1 DEF Caches, Guests, Dialogs!AtWork
      <3>3. FormTyped(form')
        BY <3>1, <3>2, FormIsTyped
      <3> QED
        BY <1>4, <3>1, <3>3, OtherForms
    <2>2. CASE ~Dialogs!Known
      BY <1>5, <1>6, <2>2 DEF Dialogs!Edit
    <2> QED
      BY <2>1, <2>2
  <1>7. CASE Dialogs!Create
    <2> DEFINE has == kind = "container" /\ cache # None
    <2>1. /\ IF has THEN asked' = asked ELSE Dialogs!Ask("create")
          /\ form' = CASE has /\ ~cache.full -> Dialogs!Form("noStorage", Dialogs!New, FALSE)
                       [] has /\ cache.full -> Dialogs!Form("create", Dialogs!New, FALSE)
                       [] OTHER -> NoForm
      BY <1>7 DEF Dialogs!Create
    <2>2. CASE has
      <3>1. cache.full \in BOOLEAN
        BY <1>2, <2>2 DEF Caches
      <3>2. PICK what \in {"noStorage", "create"} : form' = Dialogs!Form(what, Dialogs!New, FALSE)
        BY <2>1, <2>2, <3>1
      <3>3. FormTyped(form') /\ form'.what = what
        BY <3>2, NewForm
      <3> QED
        BY <1>4, <2>1, <2>2, <3>3, OtherForms
    <2>3. CASE ~has
      BY <1>1, <1>5, <2>1, <2>3
    <2> QED
      BY <2>2, <2>3
  <1>8. CASE Dialogs!Delete
    <2>1. form' = Dialogs!Form("delete", Dialogs!New, FALSE) /\ asked' = asked
      BY <1>8 DEF Dialogs!Delete
    <2>2. FormTyped(form') /\ form'.what = "delete"
      BY <2>1, NewForm
    <2> QED
      BY <1>4, <2>1, <2>2, OtherForms
  <1> QED
    BY <1>6, <1>7, <1>8

LEMMA EnterKeeps == ASSUME EntryInv, NEW f \in Dialogs!Fields, Dialogs!Enter(f) PROVE EntryInv'
  <1>1. /\ form # NoForm /\ form.at = "open" /\ form' = [form EXCEPT !.now[f] = ~@]
        /\ UNCHANGED <<guest, kind, cache, asked, deeds>>
    BY DEF Dialogs!Enter
  <1>2. /\ form \in Forms /\ form.deed = 0 /\ FormFits(form) /\ cache \in Caches
        /\ Alone(asked, form)
    BY <1>1 DEF EntryInv, EntryTypes, FormTyped
  <1> DEFINE now == [form.now EXCEPT ![f] = ~@]
  <1>3. form' = [form EXCEPT !.now = now]
    BY <1>1
  <1>4. now \in Dialogs!Settings
    BY <1>2 DEF Forms, Dialogs!Settings
  <1> HIDE DEF now
  <1>5. /\ form' \in Forms /\ form'.what = form.what /\ form'.was = form.was /\ form'.at = form.at
        /\ form'.deed = form.deed /\ form'.hasty = form.hasty
    BY <1>2, <1>3, <1>4 DEF Forms
  <1>6. FormTyped(form')
    BY <1>1, <1>2, <1>5 DEF FormTyped
  <1>7. FormFits(form')
    BY <1>1, <1>2, <1>5 DEF FormFits
  <1>8. Alone(asked, form')
    BY <1>1, <1>2 DEF Alone
  <1> QED
    BY <1>1, <1>2, <1>6, <1>7, <1>8, SameKept, FormStep

\* A window of a deed changes; no deed's settings or fate do.
LEMMA WindowsOnly ==
    ASSUME DialogInv, NEW d \in DOMAIN deeds, NEW w, deeds' = [deeds EXCEPT ![d].window = w]
    PROVE  SameDeeds
  <1>1. IsDeed(deeds[d])
    BY DEF DialogInv, DialogTypes
  <1>2. PICK what, sent, truth, window :
           deeds[d] = [what |-> what, sent |-> sent, truth |-> truth, window |-> window]
    BY <1>1 DEF IsDeed
  <1>3. /\ DOMAIN deeds' = DOMAIN deeds
        /\ \A e \in DOMAIN deeds : e # d => deeds'[e] = deeds[e]
        /\ deeds'[d] = [deeds[d] EXCEPT !.window = w]
    BY DEF DialogInv, DialogTypes
  <1>4. deeds'[d] = [what |-> what, sent |-> sent, truth |-> truth, window |-> w]
    BY <1>2, <1>3
  <1> QED
    BY <1>2, <1>3, <1>4 DEF SameDeeds

LEMMA ReloadSame == ASSUME DialogInv, Dialogs!Reload PROVE SameDeeds
  <1>1. deeds' = [d \in DOMAIN deeds |->
            [deeds[d] EXCEPT !.window = IF deeds[d].window = "lost" THEN deeds[d].window ELSE "over"]]
    BY DEF Dialogs!Reload
  <1>2. ASSUME NEW d \in DOMAIN deeds
        PROVE  /\ deeds'[d].what = deeds[d].what /\ deeds'[d].sent = deeds[d].sent
               /\ deeds'[d].truth = deeds[d].truth
    <2>1. IsDeed(deeds[d])
      BY DEF DialogInv, DialogTypes
    <2>2. PICK w : deeds'[d] = [deeds[d] EXCEPT !.window = w]
      BY <1>1
    <2> QED
      BY <2>1, <2>2 DEF IsDeed
  <1> QED
    BY <1>1, <1>2 DEF SameDeeds

LEMMA EntryReload == ASSUME DialogInv, EntryInv, Dialogs!Reload PROVE EntryInv'
  <1>1. cache' = None /\ asked' = <<>> /\ form' = NoForm /\ UNCHANGED <<guest, kind>>
    BY DEF Dialogs!Reload
  <1>2. SameDeeds
    BY ReloadSame
  <1>3. asked' \in Seq(Loads) /\ OneWaits(asked') /\ \A i \in DOMAIN asked' : ReadFits(asked'[i])
    BY <1>1 DEF OneWaits
  <1>4. cache' \in Caches
    BY <1>1 DEF Caches
  <1> QED
    BY <1>1, <1>2, <1>3, <1>4, NothingOpen, EntryKept

\* The dialog of a deed that is done closes; that of one refused opens again, as it was.
LEMMA EntryAnswer ==
    ASSUME DialogInv, EntryInv, NEW d \in DOMAIN deeds,
           Dialogs!Succeeds(d) \/ (\E lost \in BOOLEAN : Dialogs!Fails(d, lost)) \/ Dialogs!Published(d)
    PROVE  EntryInv'
  <1>1. /\ cache \in Caches /\ Alone(asked, form) /\ FormTyped(form) /\ FormFits(form)
    BY DEF EntryInv, EntryTypes
  <1>2. None \in Caches
    BY DEF Caches
  <1>3. SameDeeds
    BY WindowsOnly DEF Dialogs!Succeeds, Dialogs!Fails, Dialogs!Published
  <1>4. UNCHANGED <<guest, kind, asked>> /\ cache' \in {cache, None}
    BY DEF Dialogs!Succeeds, Dialogs!Fails, Dialogs!Published
  <1>5. ASSUME form' \in {form, NoForm} PROVE EntryInv'
    BY <1>1, <1>2, <1>3, <1>4, <1>5, NothingOpen, FormStep
  <1>6. CASE Dialogs!Succeeds(d) \/ Dialogs!Published(d)
    BY <1>5, <1>6 DEF Dialogs!Succeeds, Dialogs!Published, Dialogs!Closes
  <1>7. ASSUME NEW lost \in BOOLEAN, Dialogs!Fails(d, lost) PROVE EntryInv'
    <2>1. CASE form # NoForm /\ form.deed = d
      <3>1. /\ form' = [form EXCEPT !.at = "open", !.deed = 0, !.hasty = @ \/ lost]
            /\ deeds[d].truth = "refused" \/ lost
        BY <1>7, <2>1 DEF Dialogs!Fails, Dialogs!Reopens
      <3>2. form \in Forms
        BY <1>1, <2>1 DEF FormTyped
      <3>3. /\ form' \in Forms /\ form'.at = "open" /\ form'.deed = 0 /\ form'.was = form.was
            /\ form'.what = form.what /\ form'.hasty = (form.hasty \/ lost)
        BY <3>1, <3>2 DEF Forms
      <3>4. FormTyped(form')
        BY <3>3 DEF FormTyped
      <3>5. form.at = "saving"
        <4>1. d # 0
          BY DEF DialogInv, DialogTypes
        <4> QED
          BY <1>1, <2>1, <3>2, <4>1 DEF FormTyped, Forms
      <3>6. FormFits(form')
        <4> SUFFICES ASSUME kind = "container", form.what = "edit", ~form.hasty, ~lost
                     PROVE  ~Dialogs!AtWork /\ form.was = guest
          BY <3>3 DEF FormFits
        <4>1. /\ \A e \in DOMAIN deeds : Working(e) => e = d
              /\ deeds[d].truth # "done" => form.was = guest
          BY <1>1, <2>1, <3>5 DEF FormFits
        <4>2. deeds[d].truth = "refused"
          BY <3>1
        <4> QED
          BY <4>1, <4>2 DEF Working, Dialogs!AtWork
      <3>7. Alone(asked, form')
        BY <1>1, <2>1 DEF Alone
      <3> QED
        BY <1>1, <1>2, <1>3, <1>4, <3>4, <3>6, <3>7, FormStep
    <2>2. CASE ~(form # NoForm /\ form.deed = d)
      BY <1>5, <1>7, <2>2 DEF Dialogs!Fails, Dialogs!Reopens
    <2> QED
      BY <2>1, <2>2
  <1> QED
    BY <1>6, <1>7

\* A deed of other settings, and one of another fate.
LEMMA OtherSent ==
    ASSUME NEW r, IsDeed(r), NEW z, NEW new, new = [r EXCEPT !.sent = z]
    PROVE  new.sent = z /\ new.what = r.what /\ new.truth = r.truth
  <1>1. PICK what, sent, truth, window :
           r = [what |-> what, sent |-> sent, truth |-> truth, window |-> window]
    BY DEF IsDeed
  <1>2. new = [what |-> what, sent |-> z, truth |-> truth, window |-> window]
    BY <1>1
  <1> QED
    BY <1>1, <1>2

LEMMA OtherTruth ==
    ASSUME NEW r, IsDeed(r), NEW z, NEW new, new = [r EXCEPT !.truth = z]
    PROVE  IsDeed(new) /\ new.what = r.what /\ new.truth = z
  <1>1. PICK what, sent, truth, window :
           r = [what |-> what, sent |-> sent, truth |-> truth, window |-> window]
    BY DEF IsDeed
  <1>2. new = [what |-> what, sent |-> sent, truth |-> z, window |-> window]
    BY <1>1
  <1> QED
    BY <1>1, <1>2 DEF IsDeed

\* What a deed becomes when the host has ended it.
LEMMA Decided ==
    ASSUME DialogInv, NEW d \in DOMAIN deeds, NEW truth, Dialogs!Decide(d, truth)
    PROVE  /\ DOMAIN deeds' = DOMAIN deeds
           /\ \A e \in DOMAIN deeds : e # d => deeds'[e] = deeds[e]
           /\ deeds'[d].what = deeds[d].what /\ deeds'[d].truth = truth
  <1>1. IsDeed(deeds[d])
    BY DEF DialogInv, DialogTypes
  <1> DEFINE one == [deeds EXCEPT ![d].truth = truth]
  <1>3. /\ one = [e \in DOMAIN deeds |-> one[e]] /\ one[d] = [deeds[d] EXCEPT !.truth = truth]
        /\ \A e \in DOMAIN deeds : e # d => one[e] = deeds[e]
    BY DEF DialogInv, DialogTypes
  <1>4. deeds' = [one EXCEPT ![d].sent = NoForm]
    BY DEF Dialogs!Decide
  <1> HIDE DEF one
  <1>5. /\ DOMAIN deeds' = DOMAIN deeds
        /\ \A e \in DOMAIN deeds : e # d => deeds'[e] = deeds[e]
    BY <1>3, <1>4
  <1>6. deeds'[d] = [one[d] EXCEPT !.sent = NoForm]
    BY <1>3, <1>4
  <1>7. IsDeed(one[d]) /\ one[d].what = deeds[d].what /\ one[d].truth = truth
    BY <1>1, <1>3, OtherTruth
  <1>8. deeds'[d].what = one[d].what /\ deeds'[d].truth = one[d].truth
    BY <1>6, <1>7, OtherSent
  <1> QED
    BY <1>5, <1>7, <1>8

\* The host ends what it was at work on, after which it may not be as it was.
LEMMA EntryDecision ==
    ASSUME DialogInv, EntryInv, NEW d \in DOMAIN deeds, Dialogs!CarriedOut(d) \/ Dialogs!TurnedDown(d)
    PROVE  EntryInv'
  <1>1. PICK truth \in {"done", "refused"} :
           /\ Dialogs!Decide(d, truth)
           /\ truth = "refused" => guest' = guest
    BY DEF Dialogs!CarriedOut, Dialogs!TurnedDown
  <1>2. Working(d) /\ UNCHANGED <<kind, cache, asked, form>>
    BY DEF Dialogs!CarriedOut, Dialogs!TurnedDown, Working
  <1>3. /\ DOMAIN deeds' = DOMAIN deeds
        /\ \A e \in DOMAIN deeds : e # d => deeds'[e] = deeds[e]
        /\ deeds'[d].what = deeds[d].what /\ deeds'[d].truth = truth
    BY <1>1, Decided
  <1>4. EntryTypes /\ FormFits(form) /\ SentFits /\ Dialogs!AtWork
    BY <1>2 DEF EntryInv, Working, Dialogs!AtWork
  <1>5. \A e \in DOMAIN deeds : Working(e)' => e # d /\ Working(e)
    BY <1>1, <1>3 DEF Working
  <1>6. guest' \in Guests
    <2>1. CASE Dialogs!TurnedDown(d)
      BY <1>4, <2>1 DEF Dialogs!TurnedDown, EntryTypes
    <2>2. CASE Dialogs!CarriedOut(d)
      <3>1. deeds[d].sent.now \in Dialogs!Settings
        BY <1>2, <1>4 DEF EntryTypes, Forms
      <3>2. deeds[d].what \in {"create", "edit", "delete"}
        BY <1>2, <1>4 DEF EntryTypes
      <3> QED
        BY <2>2, <3>1, <3>2, NewTyped DEF Dialogs!CarriedOut, Guests
    <2> QED
      BY <2>1, <2>2
  <1>7. EntryTypes'
    <2>1. FormTyped(form)'
      BY <1>2, <1>3, <1>4 DEF EntryTypes, FormTyped
    <2> QED
      BY <1>2, <1>3, <1>4, <1>5, <1>6, <2>1 DEF EntryTypes
  <1>8. \A i \in DOMAIN asked' : ReadFits(asked[i])'
    BY <1>2, <1>4 DEF EntryInv, ReadFits
  <1>9. FormFits(form)'
    <2> SUFFICES ASSUME form # NoForm, kind = "container", form.what = "edit", ~form.hasty
                 PROVE  /\ form.at # "open"
                        /\ form.at = "saving" =>
                              /\ \A e \in DOMAIN deeds' : Working(e)' => e = form.deed
                              /\ deeds'[form.deed].truth # "done" => form.was = guest'
      BY <1>2 DEF FormFits
    <2>1. form.at # "open"
      BY <1>4 DEF FormFits
    <2>2. ASSUME form.at = "saving"
          PROVE  /\ \A e \in DOMAIN deeds' : Working(e)' => e = form.deed
                 /\ deeds'[form.deed].truth # "done" => form.was = guest'
      <3>1. /\ \A e \in DOMAIN deeds : Working(e) => e = form.deed
            /\ deeds[form.deed].truth # "done" => form.was = guest
        BY <1>4, <2>2 DEF FormFits
      <3>2. d = form.deed /\ form.was = guest
        BY <1>2, <3>1 DEF Working
      <3> QED
        BY <1>1, <1>3, <1>5, <3>1, <3>2
    <2> QED
      BY <2>1, <2>2
  <1>10. SentFits'
    <2>1. ASSUME NEW e \in DOMAIN deeds, kind = "container", deeds'[e].what = "edit",
                 Working(e)', ~deeds'[e].sent.hasty
          PROVE  FALSE
      <3>1. e # d /\ Working(e) /\ deeds'[e] = deeds[e]
        BY <1>3, <1>5, <2>1
      <3> QED
        BY <1>2, <1>4, <2>1, <3>1 DEF SentFits
    <2> QED
      BY <1>2, <1>3, <2>1 DEF SentFits
  <1>11. OneWaits(asked)' /\ Alone(asked, form)'
    BY <1>2 DEF EntryInv, OneWaits, Alone
  <1> QED
    BY <1>7, <1>8, <1>9, <1>10, <1>11 DEF EntryInv

\* A form submitted: one more deed; those at work and the new one spoil each other.
LEMMA Submitted ==
    ASSUME DialogInv, Dialogs!Submit
    PROVE  \E new, n :
              /\ n = Len(deeds) + 1 /\ n \notin DOMAIN deeds /\ DOMAIN deeds' = DOMAIN deeds \cup {n}
              /\ deeds'[n] = new
              /\ \A d \in DOMAIN deeds :
                    deeds'[d] = IF Working(d) THEN [deeds[d] EXCEPT !.sent.hasty = TRUE] ELSE deeds[d]
              /\ new = [what |-> form.what,
                        sent |-> IF Dialogs!SettingsChanged
                                 THEN [form EXCEPT !.hasty = @ \/ Dialogs!AtWork] ELSE NoForm,
                        truth |-> IF Dialogs!SettingsChanged THEN "sent" ELSE "none",
                        window |-> IF Dialogs!SettingsChanged THEN "waiting" ELSE "publishing"]
  <1> DEFINE others == [d \in DOMAIN deeds |->
                IF deeds[d].truth = "sent" THEN [deeds[d] EXCEPT !.sent.hasty = TRUE] ELSE deeds[d]]
             new == [what |-> form.what,
                     sent |-> IF Dialogs!SettingsChanged
                              THEN [form EXCEPT !.hasty = @ \/ Dialogs!AtWork] ELSE NoForm,
                     truth |-> IF Dialogs!SettingsChanged THEN "sent" ELSE "none",
                     window |-> IF Dialogs!SettingsChanged THEN "waiting" ELSE "publishing"]
             n == Len(deeds)
  <1>1. n \in Nat /\ DOMAIN deeds = 1..n
    BY DEF DialogInv, DialogTypes
  <1>2. deeds' = Append(others, new)
    BY DEF Dialogs!Submit
  <1>3. others = [d \in 1..n |-> others[d]]
    BY <1>1
  <1>4. \A d \in DOMAIN deeds :
            others[d] = IF Working(d) THEN [deeds[d] EXCEPT !.sent.hasty = TRUE] ELSE deeds[d]
    BY DEF Working
  <1> HIDE DEF others, new, n
  <1>5. deeds' = [d \in 1..(n + 1) |-> IF d = n + 1 THEN new ELSE others[d]]
    BY <1>1, <1>2, <1>3, OneMore
  <1>6. n + 1 \notin 1..n /\ 1..(n + 1) = (1..n) \cup {n + 1}
    BY <1>1
  <1>7. DOMAIN deeds' = DOMAIN deeds \cup {n + 1} /\ deeds'[n + 1] = new
        /\ \A d \in DOMAIN deeds : deeds'[d] = others[d]
    BY <1>1, <1>5, <1>6
  <1>8. n + 1 \notin DOMAIN deeds /\ n + 1 = Len(deeds) + 1
    BY <1>1, <1>6 DEF n
  <1> QED
    BY <1>4, <1>7, <1>8 DEF new

LEMMA EntrySubmit == ASSUME DialogInv, EntryInv, Dialogs!Submit PROVE EntryInv'
  <1>1. /\ form # NoForm /\ form.at = "open" /\ form.what # "noStorage"
        /\ form' = (IF form.what = "create" THEN NoForm
                    ELSE [form EXCEPT !.at = "saving", !.deed = Dialogs!Sent + 1])
        /\ UNCHANGED <<guest, kind, cache, asked>>
    BY DEF Dialogs!Submit
  <1>2. PICK new, n :
           /\ n = Len(deeds) + 1 /\ n \notin DOMAIN deeds /\ DOMAIN deeds' = DOMAIN deeds \cup {n}
           /\ deeds'[n] = new
           /\ \A d \in DOMAIN deeds :
                 deeds'[d] = IF Working(d) THEN [deeds[d] EXCEPT !.sent.hasty = TRUE] ELSE deeds[d]
           /\ new = [what |-> form.what,
                     sent |-> IF Dialogs!SettingsChanged
                              THEN [form EXCEPT !.hasty = @ \/ Dialogs!AtWork] ELSE NoForm,
                     truth |-> IF Dialogs!SettingsChanged THEN "sent" ELSE "none",
                     window |-> IF Dialogs!SettingsChanged THEN "waiting" ELSE "publishing"]
    BY Submitted
  <1>3. EntryTypes /\ OneWaits(asked) /\ Alone(asked, form) /\ FormFits(form)
    BY DEF EntryInv
  <1>4. form \in Forms
    BY <1>1, <1>3 DEF EntryTypes, FormTyped
  \* The deeds there were: those at work are spoilt.
  <1>5. ASSUME NEW d \in DOMAIN deeds
        PROVE  /\ deeds'[d].truth = deeds[d].truth /\ deeds'[d].what = deeds[d].what
               /\ Working(d) => deeds'[d].sent \in Forms /\ deeds'[d].sent.hasty
    <2>1. IsDeed(deeds[d])
      BY <1>5 DEF DialogInv, DialogTypes
    <2>3. CASE Working(d)
      <3> DEFINE z == [deeds[d].sent EXCEPT !.hasty = TRUE]
      <3>1. deeds[d].sent \in Forms
        BY <1>3, <1>5, <2>3 DEF EntryTypes
      <3>2. z \in Forms /\ z.hasty
        BY <3>1 DEF Forms
      <3>3. deeds'[d] = [deeds[d] EXCEPT !.sent = z]
        BY <1>2, <2>3
      <3> HIDE DEF z
      <3>4. deeds'[d].sent = z /\ deeds'[d].what = deeds[d].what /\ deeds'[d].truth = deeds[d].truth
        BY <2>1, <3>3, OtherSent
      <3> QED
        BY <3>2, <3>4
    <2>4. CASE ~Working(d)
      BY <1>2, <2>4
    <2> QED
      BY <2>3, <2>4
  \* The new one.
  <1> DEFINE spoilt == [form EXCEPT !.hasty = @ \/ Dialogs!AtWork]
  <1>6. /\ spoilt \in Forms /\ spoilt.was = form.was
        /\ spoilt.hasty = (form.hasty \/ Dialogs!AtWork)
    <2>1. Dialogs!AtWork \in BOOLEAN
      BY DEF Dialogs!AtWork
    <2> QED
      BY <1>4, <2>1 DEF Forms
  <1>7. /\ deeds'[n].what = form.what
        /\ Working(n)' => deeds'[n].sent = spoilt
        /\ ~Working(n)' => deeds'[n].truth = "none"
    BY <1>2 DEF Working
  <1> HIDE DEF spoilt
  <1>8. ~Dialogs!AtWork => \A e \in DOMAIN deeds' : Working(e)' => e = n
    BY <1>2, <1>5 DEF Dialogs!AtWork, Working
  <1>9. form.what \in {"create", "edit", "delete"}
    BY <1>1, <1>4 DEF Forms
  <1>10. n \in Nat /\ Dialogs!Sent + 1 = n
    BY <1>2 DEF DialogInv, DialogTypes, Dialogs!Sent
  <1>11. EntryTypes'
    <2>1. FormTyped(form)'
      <3>1. CASE form.what = "create"
        BY <1>1, <3>1 DEF FormTyped
      <3>2. CASE form.what # "create"
        <4>1. form' = [form EXCEPT !.at = "saving", !.deed = n]
          BY <1>1, <1>10, <3>2
        <4>2. form' \in Forms /\ form'.at = "saving" /\ form'.deed = n
          BY <1>4, <1>10, <4>1 DEF Forms
        <4> QED
          BY <1>2, <4>2 DEF FormTyped
      <3> QED
        BY <3>1, <3>2
    <2>2. ASSUME NEW d \in DOMAIN deeds', Working(d)'
          PROVE  deeds'[d].sent \in Forms /\ deeds'[d].what \in {"create", "edit", "delete"}
      <3>1. CASE d = n
        BY <1>6, <1>7, <1>9, <2>2, <3>1
      <3>2. CASE d \in DOMAIN deeds
        <4>1. Working(d)
          BY <1>5, <2>2, <3>2 DEF Working
        <4> QED
          BY <1>3, <1>5, <3>2, <4>1 DEF EntryTypes
      <3> QED
        BY <1>2, <3>1, <3>2
    <2> QED
      BY <1>1, <1>3, <2>1, <2>2 DEF EntryTypes
  <1>12. \A i \in DOMAIN asked : ~Waits(asked[i])
    BY <1>1, <1>3 DEF Alone
  <1>13. /\ OneWaits(asked)' /\ Alone(asked, form)'
         /\ \A i \in DOMAIN asked' : ReadFits(asked[i])'
    BY <1>1, <1>12 DEF OneWaits, Alone, ReadFits, Waits
  <1>14. ASSUME kind = "container", form.what = "edit", ~form.hasty
         PROVE  form.was = guest /\ \A e \in DOMAIN deeds' : Working(e)' => e = n
    BY <1>1, <1>3, <1>8, <1>14 DEF FormFits
  <1>15. FormFits(form)'
    <2>1. CASE form.what = "create"
      BY <1>1, <2>1 DEF FormFits
    <2>2. CASE form.what # "create"
      <3>1. form' = [form EXCEPT !.at = "saving", !.deed = n]
        BY <1>1, <1>10, <2>2
      <3>2. /\ form'.at = "saving" /\ form'.deed = n /\ form'.what = form.what
            /\ form'.was = form.was /\ form'.hasty = form.hasty
        BY <1>4, <3>1 DEF Forms
      <3> QED
        BY <1>1, <1>14, <3>2 DEF FormFits
    <2> QED
      BY <2>1, <2>2
  <1>16. SentFits'
    <2>1. ASSUME NEW d \in DOMAIN deeds', kind = "container", deeds'[d].what = "edit",
                 Working(d)', ~deeds'[d].sent.hasty
          PROVE  guest = deeds'[d].sent.was /\ \A e \in DOMAIN deeds' : Working(e)' => e = d
      <3>1. d = n
        BY <1>2, <1>5, <2>1 DEF Working
      <3>2. form.what = "edit" /\ ~form.hasty /\ deeds'[d].sent.was = form.was
        BY <1>6, <1>7, <2>1, <3>1
      <3> QED
        BY <1>14, <2>1, <3>1, <3>2
    <2> QED
      BY <1>1, <2>1 DEF SentFits
  <1> QED
    BY <1>11, <1>13, <1>15, <1>16 DEF EntryInv

LEMMA EntryStep ==
    ASSUME DialogInv, EntryInv, Dialogs!Next \/ UNCHANGED dialogVars
    PROVE  EntryInv'
  <1>1. cache \in Caches /\ Alone(asked, form) /\ FormTyped(form) /\ FormFits(form)
    BY DEF EntryInv, EntryTypes
  <1>2. ASSUME UNCHANGED <<guest, kind, cache, asked, deeds>>, form' \in {form, NoForm}
        PROVE  EntryInv'
    BY <1>1, <1>2, NothingOpen, SameKept, FormStep
  <1>3. CASE UNCHANGED dialogVars
    BY <1>2, <1>3 DEF dialogVars
  <1>4. CASE Dialogs!LoadPage
    <2>1. Dialogs!Ask("page") /\ UNCHANGED <<guest, kind, cache, form, deeds>>
      BY <1>4 DEF Dialogs!LoadPage
    <2> QED
      BY <2>1, AskKeeps
  <1>5. CASE Dialogs!Close
    BY <1>2, <1>5 DEF Dialogs!Close
  <1>6. ASSUME NEW d \in DOMAIN deeds, Dialogs!Cancel(d) \/ Dialogs!Clear(d) PROVE EntryInv'
    BY <1>2, <1>6 DEF Dialogs!Cancel, Dialogs!Clear
  <1> QED
    BY <1>3, <1>4, <1>5, <1>6, DialogOpens, EntrySubmit, EntryReload, EnterKeeps, LookedKeeps,
       ReadsKeep, EntryDecision, EntryAnswer
    DEF Dialogs!Next

-----------------------------------------------------------------------------
(* What the steps of the dialogs show *)

LEMMA DialogsStay == ASSUME DialogInv, Dialogs!Next PROVE Dialogs!StaysShown
  <1> SUFFICES ASSUME NEW d \in DOMAIN items, items[d] \in {"success", "error", "canceled"}
               PROVE  items'[d] \in {items[d], "none"}
    BY DEF Dialogs!StaysShown
  <1>1. /\ items \in [1..Len(deeds) -> Statuses] /\ saved = items /\ Len(deeds) \in Nat
        /\ DOMAIN deeds = 1..Len(deeds)
    BY DEF DialogInv, DialogTypes
  <1>2. CASE items' = items
    BY <1>2
  <1>3. ASSUME NEW e \in DOMAIN deeds, NEW s, Dialogs!Ends(e, s) PROVE items'[d] = items[d]
    BY <1>1, <1>3 DEF Dialogs!Ends, Dialogs!Keep
  <1>4. CASE Dialogs!Submit
    <2>1. PICK s : items' = Append(items, s)
      BY <1>4 DEF Dialogs!Submit, Dialogs!Keep
    <2>2. items = [i \in 1..Len(deeds) |-> items[i]]
      BY <1>1
    <2>3. items' = [i \in 1..(Len(deeds) + 1) |-> IF i = Len(deeds) + 1 THEN s ELSE items[i]]
      BY <1>1, <2>1, <2>2, OneMore
    <2>4. d \in 1..(Len(deeds) + 1) /\ d # Len(deeds) + 1
      BY <1>1
    <2> QED
      BY <2>3, <2>4
  <1>5. CASE Dialogs!Reload
    BY <1>1, <1>5 DEF Dialogs!Reload, Dialogs!Keep, Dialogs!Restored
  <1>6. ASSUME NEW e \in DOMAIN deeds, Dialogs!Clear(e) PROVE items'[d] \in {items[d], "none"}
    BY <1>1, <1>6 DEF Dialogs!Clear, Dialogs!Keep
  <1>7. ASSUME NEW e \in DOMAIN deeds,
               \/ Dialogs!CarriedOut(e) \/ Dialogs!TurnedDown(e) \/ Dialogs!Succeeds(e)
               \/ (\E lost \in BOOLEAN : Dialogs!Fails(e, lost)) \/ Dialogs!Published(e)
               \/ Dialogs!Cancel(e)
        PROVE  items' = items \/ \E s : Dialogs!Ends(e, s)
    BY <1>7
    DEF Dialogs!CarriedOut, Dialogs!TurnedDown, Dialogs!Succeeds, Dialogs!Fails, Dialogs!Published,
        Dialogs!Cancel
  <1>8. CASE \/ Dialogs!LoadPage \/ Dialogs!Edit \/ Dialogs!Create \/ Dialogs!Delete \/ Dialogs!Close
             \/ \E f \in Dialogs!Fields : Dialogs!Enter(f)
             \/ \E i \in DOMAIN asked :
                   \/ Dialogs!Looked(i) \/ Dialogs!Loaded(i) \/ Dialogs!EditAnswered(i)
                   \/ Dialogs!CreateAnswered(i) \/ Dialogs!ReadFails(i)
    BY <1>2, <1>8
    DEF Dialogs!LoadPage, Dialogs!Edit, Dialogs!Create, Dialogs!Delete, Dialogs!Close,
        Dialogs!Enter, Dialogs!Looked, Dialogs!Loaded, Dialogs!EditAnswered,
        Dialogs!CreateAnswered, Dialogs!ReadFails
  <1> QED
    BY <1>2, <1>3, <1>4, <1>5, <1>6, <1>7, <1>8 DEF Dialogs!Next

\* A save that is carried out changes the settings entered, and no others.
LEMMA DialogsSave == ASSUME DialogInv, EntryInv, Dialogs!Next PROVE Dialogs!AsEntered
  <1> SUFFICES ASSUME NEW d \in DOMAIN deeds, kind = "container", deeds[d].what = "edit",
                      deeds[d].truth = "sent", deeds'[d].truth = "done", ~deeds[d].sent.hasty,
                      NEW f \in Dialogs!Fields \ Dialogs!Entered(deeds[d].sent)
               PROVE  guest'[f] = guest[f]
    BY DEF Dialogs!AsEntered
  <1>1. ~SameDeeds
    BY DEF SameDeeds
  <1>2. ~Dialogs!Submit
    <2> SUFFICES ASSUME Dialogs!Submit PROVE FALSE
      OBVIOUS
    <2>1. deeds'[d] = IF Working(d) THEN [deeds[d] EXCEPT !.sent.hasty = TRUE] ELSE deeds[d]
      BY Submitted
    <2>2. IsDeed(deeds[d])
      BY DEF DialogInv, DialogTypes
    <2>3. deeds'[d].truth = deeds[d].truth
      BY <2>1, <2>2, DeedHasty
    <2> QED
      BY <2>3
  <1>3. ~Dialogs!Reload
    BY <1>1, ReloadSame
  <1>4. deeds' # deeds
    OBVIOUS
  <1>5. PICK e \in DOMAIN deeds :
            \/ Dialogs!CarriedOut(e) \/ Dialogs!TurnedDown(e)
            \/ Dialogs!Succeeds(e) \/ (\E lost \in BOOLEAN : Dialogs!Fails(e, lost))
            \/ Dialogs!Published(e)
    BY <1>2, <1>3, <1>4
    DEF Dialogs!Next, Dialogs!LoadPage, Dialogs!Edit, Dialogs!Create, Dialogs!Delete, Dialogs!Close,
        Dialogs!Enter, Dialogs!Looked, Dialogs!Loaded, Dialogs!EditAnswered,
        Dialogs!CreateAnswered, Dialogs!ReadFails, Dialogs!Cancel, Dialogs!Clear
  <1>6. Dialogs!CarriedOut(e) \/ Dialogs!TurnedDown(e)
    <2>1. ~(Dialogs!Succeeds(e) \/ (\E lost \in BOOLEAN : Dialogs!Fails(e, lost)) \/ Dialogs!Published(e))
      BY <1>1, WindowsOnly DEF Dialogs!Succeeds, Dialogs!Fails, Dialogs!Published
    <2> QED
      BY <1>5, <2>1
  <1>7. PICK truth \in {"done", "refused"} :
            Dialogs!Decide(e, truth) /\ (truth = "done" => Dialogs!CarriedOut(e))
    BY <1>6 DEF Dialogs!CarriedOut, Dialogs!TurnedDown
  <1>8. d = e /\ truth = "done"
    BY <1>7, Decided
  <1>9. guest' = deeds[d].sent.now
    BY <1>7, <1>8 DEF Dialogs!CarriedOut
  <1>10. guest = deeds[d].sent.was
    BY DEF EntryInv, SentFits, Working
  <1>11. deeds[d].sent.now[f] = deeds[d].sent.was[f]
    BY DEF Dialogs!Entered
  <1> QED
    BY <1>9, <1>10, <1>11

-----------------------------------------------------------------------------
LEMMA PageRuns ==
    ASSUME [Next]_vars, part' = "page"
    PROVE  Page!Next \/ UNCHANGED pageVars
  BY DEF Next, vars, OfChunked, OfBatch, OfMedia, OfConversions, OfContent, OfPage, OfDialogs

\* Once an operation on the pools is done, the storage page shows it or what is newer, for
\* any reads, polls and scans under way (storage-manager.js); and what the container manager
\* saves changes what the operator entered and nothing else, unless the host was still at
\* work, while an outcome that a task shows stays until it is cleared (dialog-controls.js).
THEOREM DeedsStayShown == Spec => DeedsAreShown
  <1> DEFINE Inv == /\ part = "page" => PageInv
                    /\ part = "dialogs" => DialogInv /\ EntryInv
             Keeps == part = "dialogs" => Dialogs!AsEntered /\ Dialogs!StaysShown
  <1>1. Init => Inv
    BY PageBegins, DialogsBegin, EntryBegins DEF Init
  <1>2. Inv /\ [Next]_vars => Inv'
    <2> SUFFICES ASSUME Inv, [Next]_vars PROVE Inv'
      OBVIOUS
    <2>1. part' = "page" => PageInv'
      BY PartStays, PageRuns, PageStep
    <2>2. part' = "dialogs" => DialogInv' /\ EntryInv'
      BY PartStays, DialogsRun, DialogStep, EntryStep
    <2> QED
      BY <2>1, <2>2
  <1>3. Inv => (part = "page" => Page!DeedShown)
    BY DEF PageInv
  <1>4. Inv /\ [Next]_vars => [Keeps]_vars
    <2> SUFFICES ASSUME Inv, Next, part = "dialogs"
                 PROVE  Dialogs!AsEntered /\ Dialogs!StaysShown
      OBVIOUS
    <2>1. Dialogs!Next
      BY DEF Next, OfChunked, OfBatch, OfMedia, OfConversions, OfContent, OfPage, OfDialogs
    <2> QED
      BY <2>1, DialogsSave, DialogsStay
  <1> QED
    BY <1>1, <1>2, <1>3, <1>4, PTL DEF Spec, DeedsAreShown
=============================================================================
