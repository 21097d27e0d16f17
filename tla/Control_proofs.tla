--------------------------- MODULE Control_proofs ---------------------------
(***************************************************************************)
(* Theorems about the parts of the control plane that MCControl puts side  *)
(* by side, for all values of its constants: the activity log, the second  *)
(* factors, the accounts, the virtual machines, the applications of the    *)
(* catalogue and the publications of containers.  Each states a property   *)
(* of MCControl as the run checks it; the invariants are those of one part *)
(* each, and hold while that part is the one that runs.                    *)
(***************************************************************************)
EXTENDS MCControl, SequenceTheorems, FiniteSetTheorems, WellFoundedInduction, TLAPS

\* The part that runs stays.
LEMMA PartStays == ASSUME [Next]_vars PROVE part' = part
  BY DEF Next, vars

-----------------------------------------------------------------------------
(* The activity log.  Saves are written in the order of their calls, so    *)
(* each log on its way to the file has what the one before it had, or has  *)
(* pushed it out: the file keeps what was acknowledged.                    *)

Event == [id : Nat, previous : Nat \cup {None}]

\* A log as the server keeps it: no longer than the limit, the newest event
\* first, each linked to the one before it, none of a later event than the last.
Logs == {t \in Seq(Event) : Len(t) <= Limit}

Falling(t) == \A i, k \in 1..Len(t) : i < k => t[k].id < t[i].id

Upto(t, last) == \A i \in 1..Len(t) : t[i].id <= last

Sound(t, last) == t \in Logs /\ Falling(t) /\ Log!Chained(t) /\ Upto(t, last)

\* The log has the event, or newer events have pushed it out.
Keeps(t, e) == \/ \E i \in 1..Len(t) : t[i].id = e
               \/ Len(t) = Limit /\ e < t[Limit].id

\* What log s keeps or has pushed out is kept or pushed out by log t.
Covers(t, s) == \A e \in Nat : Keeps(s, e) => Keeps(t, e)

\* The newest event of log s is older than that of log t.
Older(s, t) == Len(s) > 0 => s[1].id < t[1].id

LEMMA CoversSelf == \A t : Covers(t, t)
  BY DEF Covers

\* What addActivity() does to a log, place by place.
LEMMA LinkedShifts ==
    ASSUME Log!ActivityLogAssumption, NEW t \in Logs, NEW id \in Nat
    PROVE  LET u == Log!Linked(t, id) IN
           /\ u \in Logs
           /\ Len(u) = IF Len(t) < Limit THEN Len(t) + 1 ELSE Limit
           /\ u[1].id = id
           /\ Len(t) > 0 => u[1].previous = t[1].id
           /\ \A i \in 2..Len(u) : u[i] = t[i - 1]
  <1> DEFINE e == [id |-> id, previous |-> IF t = <<>> THEN None ELSE t[1].id]
             s == <<e>> \o t
  <1>1. t \in Seq(Event) /\ Len(t) \in Nat /\ Len(t) <= Limit /\ Limit \in Nat \ {0}
    BY LenProperties DEF Logs, Log!ActivityLogAssumption
  <1>2. /\ e.id = id
        /\ Len(t) > 0 => e.previous = t[1].id
    BY <1>1, EmptySeq
  <1>3. e \in Event
    <2>1. CASE t = <<>>
      BY <2>1 DEF Event
    <2>2. CASE t # <<>>
      <3>1. t[1] \in Event
        BY <1>1, <2>2, EmptySeq, LenProperties
      <3> QED BY <2>2, <3>1 DEF Event
    <2> QED BY <2>1, <2>2
  <1>4. Log!Linked(t, id) = Log!Cut(s)
    BY DEF Log!Linked
  <1> HIDE DEF e
  <1>5. <<e>> \in Seq(Event) /\ Len(<<e>>) = 1 /\ <<e>>[1] = e
    BY <1>3
  <1>6. /\ s \in Seq(Event) /\ Len(s) = Len(t) + 1
        /\ \A i \in 1..Len(s) : s[i] = IF i <= 1 THEN e ELSE t[i - 1]
    BY <1>1, <1>5, ConcatProperties
  <1> HIDE DEF s
  <1>7. CASE Len(s) <= Limit
    <2>1. Log!Cut(s) = s
      BY <1>7 DEF Log!Cut
    <2> QED BY <1>1, <1>2, <1>4, <1>6, <1>7, <2>1 DEF Logs
  <1>8. CASE ~(Len(s) <= Limit)
    <2>1. Log!Cut(s) = SubSeq(s, 1, Limit)
      BY <1>8 DEF Log!Cut
    <2>2. \A i \in 1..Limit : s[i] \in Event
      BY <1>1, <1>6, <1>8, LenProperties
    <2>3. /\ SubSeq(s, 1, Limit) \in Seq(Event)
          /\ Len(SubSeq(s, 1, Limit)) = Limit
          /\ \A i \in 1..Limit : SubSeq(s, 1, Limit)[i] = s[i]
      BY <1>1, <2>2, SubSeqProperties
    <2> QED BY <1>1, <1>2, <1>4, <1>6, <1>8, <2>1, <2>3 DEF Logs
  <1> QED BY <1>7, <1>8

\* A log stays sound when an event is added, and covers what it was.
LEMMA LinkedIsSound ==
    ASSUME Log!ActivityLogAssumption, NEW last \in Nat, NEW t, Sound(t, last)
    PROVE  LET u == Log!Linked(t, last + 1) IN
           /\ Sound(u, last + 1) /\ Covers(u, t)
           /\ Len(u) > 0 /\ u[1].id = last + 1
  <1> DEFINE u == Log!Linked(t, last + 1)
  <1>0. t \in Logs /\ last + 1 \in Nat
    BY DEF Sound
  <1>1. /\ u \in Logs
        /\ Len(u) = IF Len(t) < Limit THEN Len(t) + 1 ELSE Limit
        /\ u[1].id = last + 1
        /\ Len(t) > 0 => u[1].previous = t[1].id
        /\ \A i \in 2..Len(u) : u[i] = t[i - 1]
    BY <1>0, LinkedShifts, Zenon
  <1>2. t \in Seq(Event) /\ Len(t) \in Nat /\ Len(t) <= Limit /\ Limit \in Nat \ {0}
    BY LenProperties DEF Sound, Logs, Log!ActivityLogAssumption
  <1>3. \A i \in 1..Len(t) : t[i].id \in Nat /\ t[i].id <= last
    <2>1. \A i \in 1..Len(t) : t[i] \in Event
      BY <1>2, LenProperties
    <2> QED BY <2>1 DEF Sound, Upto, Event
  <1> HIDE DEF u
  <1>4. Falling(u)
    <2> SUFFICES ASSUME NEW i \in 1..Len(u), NEW k \in 1..Len(u), i < k
                 PROVE  u[k].id < u[i].id
      BY DEF Falling
    <2>1. u[k] = t[k - 1] /\ k - 1 \in 1..Len(t)
      BY <1>1, <1>2
    <2>2. CASE i = 1
      BY <1>1, <1>3, <2>1, <2>2
    <2>3. CASE i # 1
      <3>1. i \in 2..Len(u)
        BY <1>1, <1>2, <2>3
      <3>2. u[i] = t[i - 1]
        BY <1>1, <3>1
      <3>3. i - 1 \in 1..Len(t) /\ i - 1 < k - 1
        BY <1>1, <1>2, <2>1, <3>1
      <3>4. t[k - 1].id < t[i - 1].id
        BY <2>1, <3>3 DEF Sound, Falling
      <3> QED BY <2>1, <3>2, <3>4
    <2> QED BY <2>2, <2>3
  <1>5. Log!Chained(u)
    <2> SUFFICES ASSUME NEW i \in 1..Len(u) - 1 PROVE u[i].previous = u[i + 1].id
      BY DEF Log!Chained
    <2>1. u[i + 1] = t[i] /\ Len(t) > 0 /\ i \in 1..Len(t) /\ i \in 1..Len(u)
      BY <1>1, <1>2
    <2>2. CASE i = 1
      BY <1>1, <2>1, <2>2
    <2>3. CASE i # 1
      <3>1. u[i] = t[i - 1] /\ i - 1 \in 1..Len(t) - 1
        BY <1>1, <1>2, <2>1, <2>3
      <3>2. t[i - 1].previous = t[(i - 1) + 1].id
        BY <3>1 DEF Sound, Log!Chained
      <3> QED BY <1>2, <2>1, <3>1, <3>2
    <2> QED BY <2>2, <2>3
  <1>6. Upto(u, last + 1)
    <2>1. \A i \in 2..Len(u) : u[i] = t[i - 1] /\ i - 1 \in 1..Len(t)
      BY <1>1, <1>2
    <2>2. \A i \in 2..Len(u) : u[i].id \in Nat /\ u[i].id <= last
      BY <1>3, <2>1
    <2>3. \A i \in 1..Len(u) : i = 1 \/ i \in 2..Len(u)
      BY <1>1, <1>2
    <2> QED BY <1>1, <2>2, <2>3 DEF Upto
  <1>7. Covers(u, t)
    <2> SUFFICES ASSUME NEW e \in Nat, Keeps(t, e) PROVE Keeps(u, e)
      BY DEF Covers
    <2>1. CASE \E i \in 1..Len(t) : t[i].id = e
      <3> PICK i \in 1..Len(t) : t[i].id = e
        BY <2>1
      <3>1. CASE i + 1 <= Len(u)
        <4>1. u[i + 1] = t[i] /\ i + 1 \in 1..Len(u)
          BY <1>1, <1>2, <3>1
        <4> QED BY <4>1 DEF Keeps
      <3>2. CASE ~(i + 1 <= Len(u))
        <4>1. Len(u) = Limit /\ Len(t) = Limit /\ i = Limit
          BY <1>1, <1>2, <3>2
        <4>2. CASE Limit = 1
          BY <1>1, <1>2, <1>3, <4>1, <4>2 DEF Keeps
        <4>3. CASE Limit # 1
          <5>1. u[Limit] = t[Limit - 1] /\ Limit - 1 \in 1..Len(t)
            BY <1>1, <1>2, <4>1, <4>3
          <5>2. t[Limit].id < t[Limit - 1].id
            BY <1>2, <4>1, <5>1 DEF Sound, Falling
          <5> QED BY <4>1, <5>1, <5>2 DEF Keeps
        <4> QED BY <4>2, <4>3
      <3> QED BY <3>1, <3>2
    <2>2. CASE Len(t) = Limit /\ e < t[Limit].id
      <3>1. Len(u) = Limit /\ Limit \in 1..Len(t)
        BY <1>1, <1>2, <2>2
      <3>2. CASE Limit = 1
        BY <1>1, <1>2, <1>3, <2>2, <3>1, <3>2 DEF Keeps
      <3>3. CASE Limit # 1
        <4>1. u[Limit] = t[Limit - 1] /\ Limit - 1 \in 1..Len(t)
          BY <1>1, <1>2, <3>1, <3>3
        <4>2. t[Limit].id < t[Limit - 1].id
          BY <1>2, <3>1, <4>1 DEF Sound, Falling
        <4> QED BY <1>3, <2>2, <3>1, <4>1, <4>2 DEF Keeps
      <3> QED BY <3>2, <3>3
    <2> QED BY <2>1, <2>2 DEF Keeps
  <1>8. Len(u) > 0
    BY <1>1, <1>2
  <1> QED BY <1>1, <1>4, <1>5, <1>6, <1>7, <1>8 DEF Sound, u

-----------------------------------------------------------------------------
(* File, queue and memory *)

Saves == [text : Logs, for : Savers]

\* The events of every log are among those added.
LogsSound ==
    /\ added \in Nat
    /\ Sound(state, added) /\ Sound(file, added)
    /\ queue \in Seq(Saves)
    /\ \A k \in 1..Len(queue) : Sound(queue[k].text, added) /\ Len(queue[k].text) > 0

\* A request waits for one save, whose newest event is its own.
Waited ==
    /\ handlers \in [Savers -> Nat \cup {None}]
    /\ \A k \in 1..Len(queue) : handlers[queue[k].for] = queue[k].text[1].id

\* From the file over the queue to memory, nothing is forgotten but the oldest
\* events, and the newest event is newer every time.
LogsOrdered ==
    /\ Covers(state, file)
    /\ \A k \in 1..Len(queue) :
          /\ Covers(queue[k].text, file) /\ Older(file, queue[k].text)
          /\ Covers(state, queue[k].text)
          /\ \A l \in 1..Len(queue) : k < l =>
                Covers(queue[l].text, queue[k].text) /\ Older(queue[k].text, queue[l].text)

Acknowledged == \A e \in acked : e \in Nat /\ Keeps(file, e)

LogInv == LogsSound /\ Waited /\ LogsOrdered /\ Acknowledged

\* What holds of every log of the queue holds when its head is gone.
LEMMA QueueShortens ==
    ASSUME queue \in Seq(Saves), queue # <<>>, queue' = Tail(queue)
    PROVE  /\ queue' \in Seq(Saves) /\ Len(queue) \in Nat \ {0}
           /\ Head(queue) = queue[1] /\ queue[1] \in Saves
           /\ Len(queue') = Len(queue) - 1
           /\ \A k \in 1..Len(queue') : queue'[k] = queue[k + 1] /\ k + 1 \in 2..Len(queue)
  <1>1. Len(queue) \in Nat \ {0}
    BY EmptySeq
  <1>2. queue[1] \in Saves
    BY <1>1, LenProperties
  <1>3. /\ queue' \in Seq(Saves) /\ Len(queue') = Len(queue) - 1
        /\ \A k \in 1..Len(queue') : queue'[k] = queue[k + 1]
    BY HeadTailProperties
  <1> QED BY <1>1, <1>2, <1>3

\* A handler adds its event and saves.
LEMMA RecordKeeps ==
    ASSUME Log!ActivityLogAssumption, LogInv, NEW h \in Savers, Log!Record(h)
    PROVE  LogInv'
  <1> DEFINE u == Log!Linked(state, added + 1)
             entry == [text |-> u, for |-> h]
  <1>1. /\ added' = added + 1 /\ state' = u /\ queue' = Append(queue, entry)
        /\ file' = file /\ acked' = acked
        /\ handlers[h] = None /\ handlers' = [handlers EXCEPT ![h] = added + 1]
    BY DEF Log!Record, Log!SaveCalled
  <1>2. /\ Sound(u, added + 1) /\ Covers(u, state)
        /\ Len(u) > 0 /\ u[1].id = added + 1
    BY LinkedIsSound DEF LogInv, LogsSound
  <1>3. entry.text = u /\ entry.for = h
    OBVIOUS
  <1>4. entry \in Saves
    BY <1>2 DEF Saves, Sound
  <1> HIDE DEF u, entry
  <1>5. /\ queue' \in Seq(Saves) /\ Len(queue) \in Nat /\ Len(queue') = Len(queue) + 1
        /\ queue'[Len(queue) + 1] = entry
        /\ \A k \in 1..Len(queue) : queue'[k] = queue[k]
    BY <1>1, <1>4, AppendProperties, LenProperties DEF LogInv, LogsSound
  <1>6. \A k \in 1..Len(queue') : k \in 1..Len(queue) \/ k = Len(queue) + 1
    BY <1>5
  <1>7. \A t : Sound(t, added) => Sound(t, added + 1) /\ Older(t, u)
    <2> SUFFICES ASSUME NEW t, Sound(t, added) PROVE Sound(t, added + 1) /\ Older(t, u)
      OBVIOUS
    <2>1. \A i \in 1..Len(t) : t[i].id \in Nat /\ t[i].id <= added
      <3>1. \A i \in 1..Len(t) : t[i] \in Event
        BY LenProperties DEF Sound, Logs
      <3> QED BY <3>1 DEF Sound, Upto, Event
    <2>2. Len(t) \in Nat /\ added \in Nat
      BY LenProperties DEF Sound, Logs, LogInv, LogsSound
    <2> QED BY <1>2, <2>1, <2>2 DEF Sound, Upto, Older
  <1>8. LogsSound'
    <2>1. added' \in Nat /\ Sound(state', added') /\ Sound(file', added')
      BY <1>1, <1>2, <1>7 DEF LogInv, LogsSound
    <2>2. \A k \in 1..Len(queue') : Sound(queue'[k].text, added') /\ Len(queue'[k].text) > 0
      BY <1>1, <1>2, <1>3, <1>5, <1>6, <1>7 DEF LogInv, LogsSound
    <2> QED BY <1>5, <2>1, <2>2 DEF LogsSound
  <1>9. Waited'
    <2>1. handlers \in [Savers -> Nat \cup {None}] /\ added \in Nat
      BY DEF LogInv, Waited, LogsSound
    <2>2. \A k \in 1..Len(queue) : queue[k].for \in Savers /\ queue[k].text[1].id \in Nat
      <3> SUFFICES ASSUME NEW k \in 1..Len(queue)
                   PROVE  queue[k].for \in Savers /\ queue[k].text[1].id \in Nat
        OBVIOUS
      <3>1. queue[k] \in Saves
        BY LenProperties DEF LogInv, LogsSound
      <3>2. queue[k].text[1] \in Event
        BY <3>1, LenProperties DEF LogInv, LogsSound, Saves, Logs
      <3> QED BY <3>1, <3>2 DEF Saves, Event
    <2>3. \A k \in 1..Len(queue) : queue[k].for # h
      BY <1>1, <2>2 DEF LogInv, Waited, Log!ActivityLogAssumption
    <2>4. handlers' \in [Savers -> Nat \cup {None}]
      BY <1>1, <2>1
    <2>5. \A k \in 1..Len(queue') : handlers'[queue'[k].for] = queue'[k].text[1].id
      BY <1>1, <1>2, <1>3, <1>5, <1>6, <2>1, <2>2, <2>3 DEF LogInv, Waited
    <2> QED BY <2>4, <2>5 DEF Waited
  <1>10. LogsOrdered'
    <2>1. \A t : Covers(state, t) => Covers(u, t)
      BY <1>2 DEF Covers
    <2>2. Covers(state', file') /\ \A k \in 1..Len(queue) : Covers(u, queue[k].text)
      BY <1>1, <2>1 DEF LogInv, LogsOrdered
    <2>3. Covers(u, u) /\ Older(file, u) /\ \A k \in 1..Len(queue) : Older(queue[k].text, u)
      BY <1>7, CoversSelf DEF LogInv, LogsSound
    <2>4. \A k \in 1..Len(queue') :
             /\ Covers(queue'[k].text, file) /\ Older(file, queue'[k].text)
             /\ Covers(u, queue'[k].text)
      BY <1>1, <1>3, <1>5, <1>6, <2>2, <2>3 DEF LogInv, LogsOrdered
    <2>5. ASSUME NEW k \in 1..Len(queue'), NEW l \in 1..Len(queue'), k < l
          PROVE  /\ Covers(queue'[l].text, queue'[k].text)
                 /\ Older(queue'[k].text, queue'[l].text)
      <3>1. k \in 1..Len(queue)
        BY <1>5, <2>5
      <3>2. CASE l \in 1..Len(queue)
        BY <1>5, <2>5, <3>1, <3>2 DEF LogInv, LogsOrdered
      <3>3. CASE l = Len(queue) + 1
        BY <1>3, <1>5, <2>2, <2>3, <3>1, <3>3
      <3> QED BY <1>6, <3>2, <3>3
    <2> QED BY <1>1, <2>2, <2>4, <2>5 DEF LogsOrdered
  <1>11. Acknowledged'
    BY <1>1 DEF LogInv, Acknowledged
  <1> QED BY <1>8, <1>9, <1>10, <1>11 DEF LogInv

\* The save at the head of the queue ends, written or not.
LEMMA HeadKeeps ==
    ASSUME Log!ActivityLogAssumption, LogInv, queue # <<>>, queue' = Tail(queue),
           state' = state, added' = added, Log!Answer,
           \/ file' = file /\ acked' = acked
           \/ file' = Head(queue).text /\ acked' = acked \cup {handlers[Head(queue).for]}
    PROVE  LogInv' /\ Log!MovesOn
  <1>1. /\ queue' \in Seq(Saves) /\ Len(queue) \in Nat \ {0}
        /\ Head(queue) = queue[1] /\ queue[1] \in Saves
        /\ Len(queue') = Len(queue) - 1
        /\ \A k \in 1..Len(queue') : queue'[k] = queue[k + 1] /\ k + 1 \in 2..Len(queue)
    BY QueueShortens DEF LogInv, LogsSound
  <1>2. \A k \in 2..Len(queue) : k \in 1..Len(queue) /\ 1 \in 1..Len(queue) /\ 1 < k
    BY <1>1
  <1>3. 1 \in 1..Len(queue)
    BY <1>1
  <1> DEFINE q == queue[1].text
  <1>4. /\ Sound(q, added) /\ Len(q) > 0 /\ q[1].id \in Nat
        /\ handlers[queue[1].for] = q[1].id
    <2>1. Sound(q, added) /\ Len(q) > 0 /\ handlers[queue[1].for] = q[1].id
      BY <1>3 DEF LogInv, LogsSound, Waited
    <2>2. q[1] \in Event
      BY <2>1, LenProperties DEF Sound, Logs
    <2> QED BY <2>1, <2>2 DEF Event
  <1>5. \/ file' = file /\ acked' = acked
        \/ file' = q /\ acked' = acked \cup {q[1].id}
    BY <1>1, <1>4
  <1>6. LogsSound'
    <2>1. Sound(file', added)
      BY <1>4, <1>5 DEF LogInv, LogsSound
    <2>2. \A k \in 1..Len(queue') : Sound(queue'[k].text, added) /\ Len(queue'[k].text) > 0
      BY <1>1, <1>2 DEF LogInv, LogsSound
    <2> QED BY <1>1, <2>1, <2>2 DEF LogInv, LogsSound
  <1>7. Waited'
    <2>1. handlers \in [Savers -> Nat \cup {None}] /\ queue[1].for \in Savers
      BY <1>1 DEF LogInv, Waited, Saves
    <2>2. handlers' = [handlers EXCEPT ![queue[1].for] = None]
      BY <1>1 DEF Log!Answer
    <2>3. \A k \in 2..Len(queue) :
             queue[k].for # queue[1].for /\ handlers[queue[k].for] = queue[k].text[1].id
      <3> SUFFICES ASSUME NEW k \in 2..Len(queue)
                   PROVE  queue[k].for # queue[1].for
                          /\ handlers[queue[k].for] = queue[k].text[1].id
        OBVIOUS
      <3>1. Older(q, queue[k].text) /\ handlers[queue[k].for] = queue[k].text[1].id
        BY <1>2 DEF LogInv, LogsOrdered, Waited
      <3>2. queue[k].text[1].id \in Nat
        <4>1. Sound(queue[k].text, added) /\ Len(queue[k].text) > 0
          BY <1>2 DEF LogInv, LogsSound
        <4>2. queue[k].text[1] \in Event
          BY <4>1, LenProperties DEF Sound, Logs
        <4> QED BY <4>2 DEF Event
      <3> QED BY <1>4, <3>1, <3>2 DEF Older
    <2>4. \A k \in 1..Len(queue) : queue[k].for \in Savers
      <3>1. \A k \in 1..Len(queue) : queue[k] \in Saves
        BY LenProperties DEF LogInv, LogsSound
      <3> QED BY <3>1 DEF Saves
    <2>5. \A k \in 1..Len(queue') : handlers'[queue'[k].for] = queue'[k].text[1].id
      BY <1>1, <1>2, <2>1, <2>2, <2>3, <2>4
    <2> QED BY <2>1, <2>2, <2>5 DEF Waited
  <1>8. LogsOrdered'
    <2>1. \A k \in 2..Len(queue) : Covers(queue[k].text, file') /\ Older(file', queue[k].text)
      BY <1>2, <1>5 DEF LogInv, LogsOrdered
    <2>2. Covers(state, file')
      BY <1>3, <1>5 DEF LogInv, LogsOrdered
    <2>3. \A k \in 2..Len(queue) :
             /\ Covers(state, queue[k].text)
             /\ \A l \in 2..Len(queue) : k < l =>
                   Covers(queue[l].text, queue[k].text) /\ Older(queue[k].text, queue[l].text)
      BY <1>2 DEF LogInv, LogsOrdered
    <2>4. \A k, l \in 1..Len(queue') : k < l => k + 1 < l + 1
      OBVIOUS
    <2>5. \A k \in 1..Len(queue') :
             /\ Covers(queue'[k].text, file') /\ Older(file', queue'[k].text)
             /\ Covers(state, queue'[k].text)
      BY <1>1, <2>1, <2>3
    <2>6. \A k, l \in 1..Len(queue') : k < l =>
             Covers(queue'[l].text, queue'[k].text) /\ Older(queue'[k].text, queue'[l].text)
      BY <1>1, <2>3, <2>4
    <2> QED BY <2>2, <2>5, <2>6 DEF LogsOrdered
  <1>9. Acknowledged'
    <2>1. \A e \in Nat : Keeps(file, e) => Keeps(q, e)
      BY <1>3 DEF LogInv, LogsOrdered, Covers
    <2>2. Keeps(q, q[1].id)
      <3>1. 1 \in 1..Len(q)
        BY <1>4, LenProperties DEF Sound, Logs
      <3> QED BY <3>1 DEF Keeps
    <2> QED BY <1>4, <1>5, <2>1, <2>2 DEF LogInv, Acknowledged
  <1>10. Log!MovesOn
    <2>1. Older(file, q)
      BY <1>3 DEF LogInv, LogsOrdered
    <2>2. file \in Seq(Event)
      BY DEF LogInv, LogsSound, Sound, Logs
    <2>3. file # <<>> => Len(file) > 0 /\ file[1].id \in Nat
      <3> SUFFICES ASSUME file # <<>> PROVE Len(file) > 0 /\ file[1].id \in Nat
        OBVIOUS
      <3>1. Len(file) \in Nat \ {0}
        BY <2>2, EmptySeq
      <3>2. file[1] \in Event
        BY <2>2, <3>1, LenProperties
      <3> QED BY <3>1, <3>2 DEF Event
    <2> QED BY <1>4, <1>5, <2>1, <2>3 DEF Log!MovesOn, Older
  <1> QED BY <1>6, <1>7, <1>8, <1>9, <1>10 DEF LogInv

\* The server restarts.
LEMMA RestartKeeps ==
    ASSUME LogInv, Log!Restart
    PROVE  LogInv'
  <1>1. /\ state' = file /\ queue' = <<>> /\ file' = file /\ added' = added
        /\ acked' = acked /\ handlers' = [h \in Savers |-> None]
    BY DEF Log!Restart, Log!Reload
  <1>2. queue' \in Seq(Saves) /\ Len(queue') = 0
    BY <1>1, EmptySeq
  <1>3. LogsSound'
    BY <1>1, <1>2 DEF LogInv, LogsSound
  <1>4. Waited' /\ LogsOrdered'
    BY <1>1, <1>2, CoversSelf DEF Waited, LogsOrdered
  <1> QED BY <1>1, <1>3, <1>4 DEF LogInv, Acknowledged

LEMMA InitLog ==
    ASSUME Log!ActivityLogAssumption, Log!Init PROVE LogInv
  <1>1. <<>> \in Seq(Event) /\ Len(<<>>) = 0 /\ <<>> \in Seq(Saves)
    BY EmptySeq
  <1>2. Sound(<<>>, 0)
    BY <1>1 DEF Sound, Logs, Falling, Log!Chained, Upto, Log!ActivityLogAssumption
  <1> QED BY <1>1, <1>2, CoversSelf
       DEF Log!Init, LogInv, LogsSound, Waited, LogsOrdered, Acknowledged

\* Every step keeps the order, and while the server runs the file moves on.
LEMMA NextLog ==
    ASSUME Log!ActivityLogAssumption, LogInv, Log!Next \/ UNCHANGED Log!vars
    PROVE  LogInv' /\ Log!MovesOn
  <1>1. CASE \E h \in Savers : Log!Record(h)
    <2> PICK h \in Savers : Log!Record(h)
      BY <1>1
    <2>1. Log!MovesOn
      BY DEF Log!Record, Log!MovesOn
    <2> QED BY <2>1, RecordKeeps
  <1>2. CASE Log!Written
    BY <1>2, HeadKeeps DEF Log!Written, Log!HeadWritten
  <1>3. CASE Log!Failed
    BY <1>3, HeadKeeps DEF Log!Failed, Log!HeadFails
  <1>4. CASE Log!Rejected
    BY <1>4, HeadKeeps DEF Log!Rejected, Log!HeadRejected
  <1>5. CASE Log!Restart
    <2>1. Log!MovesOn
      BY <1>5 DEF Log!Restart, Log!Reload, Log!MovesOn
    <2> QED BY <1>5, <2>1, RestartKeeps
  <1>6. CASE UNCHANGED Log!vars
    BY <1>6 DEF Log!vars, Log!store, Log!log, LogInv, LogsSound, Waited, LogsOrdered, Acknowledged, Log!MovesOn
  <1> QED BY <1>1, <1>2, <1>3, <1>4, <1>5, <1>6 DEF Log!Next

\* In a full log whose last event is newer than e, the events newer than e are
\* as many as are kept.
LEMMA AllNewer ==
    ASSUME Log!ActivityLogAssumption, NEW t \in Logs, Falling(t), Len(t) = Limit,
           NEW e \in Nat, e < t[Limit].id
    PROVE  Cardinality({f \in Log!Events(t) : f > e}) = Limit
  <1>1. /\ t \in Seq(Event) /\ Limit \in Nat \ {0} /\ DOMAIN t = 1..Limit
        /\ \A i \in 1..Limit : t[i].id \in Nat
    <2>1. t \in Seq(Event) /\ Limit \in Nat \ {0} /\ DOMAIN t = 1..Limit
      BY LenProperties DEF Logs, Log!ActivityLogAssumption
    <2>2. \A i \in 1..Limit : t[i] \in Event
      BY <2>1, LenProperties
    <2> QED BY <2>1, <2>2 DEF Event
  <1>2. \A i \in 1..Limit : t[i].id > e
    BY <1>1 DEF Falling
  <1>3. {f \in Log!Events(t) : f > e} = Log!Events(t)
    BY <1>1, <1>2 DEF Log!Events
  <1> DEFINE ids == [i \in 1..Limit |-> t[i].id]
  <1>4. ids \in Injection(1..Limit, Log!Events(t))
    <2>1. ids \in [1..Limit -> Log!Events(t)]
      BY <1>1 DEF Log!Events
    <2>2. \A i, k \in 1..Limit : ids[i] = ids[k] => i = k
      BY <1>1 DEF Falling
    <2> QED BY <2>1, <2>2 DEF Injection, IsInjective
  <1>5. ids \in Surjection(1..Limit, Log!Events(t))
    <2>1. ids \in [1..Limit -> Log!Events(t)] /\ \A f \in Log!Events(t) : \E i \in 1..Limit : ids[i] = f
      BY <1>1 DEF Log!Events
    <2> QED BY <2>1 DEF Surjection
  <1>6. IsFiniteSet(1..Limit) /\ Cardinality(1..Limit) = Limit
    BY <1>1, FS_Interval
  <1> HIDE DEF ids
  <1> QED BY <1>3, <1>4, <1>5, <1>6, FS_Surjection

LEMMA LogKeeps == ASSUME LogInv, Log!ActivityLogAssumption PROVE Log!ChainIntact /\ Log!AckedIsDurable
  <1>1. Log!ChainIntact
    BY DEF LogInv, LogsSound, Sound, Log!ChainIntact
  <1>2. ASSUME NEW e \in acked
        PROVE  \/ e \in Log!Events(file)
               \/ Log!Cardinality({f \in Log!Events(file) : f > e}) = Limit
    <2>1. e \in Nat /\ Keeps(file, e) /\ file \in Logs /\ Falling(file)
      BY DEF LogInv, Acknowledged, LogsSound, Sound
    <2>2. CASE \E i \in 1..Len(file) : file[i].id = e
      <3>1. DOMAIN file = 1..Len(file)
        BY <2>1, LenProperties DEF Logs
      <3> QED BY <2>2, <3>1 DEF Log!Events
    <2>3. CASE Len(file) = Limit /\ e < file[Limit].id
      <3>1. PICK newer : newer = {f \in Log!Events(file) : f > e}
        OBVIOUS
      <3>2. Cardinality(newer) = Limit
        BY <2>1, <2>3, <3>1, AllNewer
      <3>3. Log!Cardinality(newer) = Cardinality(newer)
        BY Zenon DEF Log!Cardinality, Cardinality
      <3> QED BY <3>1, <3>2, <3>3
    <2> QED BY <2>1, <2>2, <2>3 DEF Keeps
  <1> QED BY <1>1, <1>2 DEF Log!AckedIsDurable

InLog == part = "log"

LEMMA LogBegins == ASSUME Init, part = "log" PROVE LogInv
  <1>1. Log!Init
    BY DEF Init
  <1> QED BY <1>1, InitLog, ControlAssumption

LEMMA LogStep ==
    ASSUME LogInv, [Next]_vars, part = "log"
    PROVE  LogInv' /\ Log!MovesOn
  <1>1. Log!Next \/ UNCHANGED Log!vars
    BY DEF Next, vars, storeVars, logOwn, Log!vars, Log!log, Log!store
  <1> QED BY <1>1, NextLog, ControlAssumption

LEMMA LogHolds == Spec => [](InLog => LogInv)
  <1>1. Init => (InLog => LogInv)
    BY LogBegins DEF InLog
  <1>2. (InLog => LogInv) /\ [Next]_vars => (InLog => LogInv)'
    BY LogStep, PartStays DEF InLog
  <1> QED BY <1>1, <1>2, PTL DEF Spec

\* The log that is kept is a chain of hashes, in memory and in the file, and an event
\* whose save was acknowledged is in the file until newer ones push it out, across failed
\* writes and restarts: addActivity() and save(), load() of store.mjs.
THEOREM LogStaysKept == Spec => []LogIsKept
  <1>1. (InLog => LogInv) => LogIsKept
    BY LogKeeps, ControlAssumption DEF LogIsKept, InLog
  <1> QED BY <1>1, LogHolds, PTL

\* A write of the state file never brings back an older log: the chained saves of
\* store.mjs end in the order of their calls.
THEOREM LogMovesOn == Spec => FileMovesOn
  <1>1. ASSUME InLog => LogInv, [Next]_vars PROVE [part = "log" => Log!MovesOn]_vars
    BY <1>1, LogStep DEF InLog
  <1> QED BY <1>1, LogHolds, PTL DEF Spec, FileMovesOn

-----------------------------------------------------------------------------
(* Second factors *)

LEMMA FactorsRun ==
    ASSUME [Next]_vars, part' = "factors"
    PROVE  Factors!Next \/ UNCHANGED <<handlers, factorsOwn>>
  BY DEF Next, vars

LEMMA FactorsBegin == ASSUME Init, part = "factors" PROVE Factors!Init
  BY DEF Init

LEMMA NoneIsNoNumber == /\ None \notin Nat /\ None \notin Phones /\ None \notin Factors!Challenges
                        /\ MaxAttempts \in Nat /\ MaxAttempts > 0
  BY ControlAssumption DEF Factors!SecondFactorAssumption

Sending == [kind : Factors!Kinds, number : Nat, phone : Phones]
Items == [number : Nat, kind : Factors!Kinds \cup {"totp", "passkey", "assertion"}, phone : {None} \cup Phones]

FactorTypes ==
    /\ phone \in {None} \cup Phones
    /\ secret \in {None} \cup Nat /\ pendingSecret \in {None} \cup Nat
    /\ assertion \in {None} \cup Nat
    /\ enrollment \in {None} \cup Factors!Challenges /\ login \in {None} \cup Factors!Challenges
    /\ handlers \in [Handlers -> {Factors!Idle} \cup Sending]
    /\ issued \in Nat /\ held \subseteq Items /\ used \subseteq Nat
    /\ latest \in [Factors!Kinds -> {None} \cup Nat]

\* No number is above the last one given out.
GivenOut ==
    /\ \A i \in held : i.number <= issued
    /\ \A n \in used : n <= issued
    /\ \A h \in Handlers : handlers[h] # Factors!Idle => handlers[h].number <= issued
    /\ assertion # None => assertion <= issued
    /\ enrollment # None => (0 < enrollment.code /\ enrollment.code <= issued)
    /\ login # None => (0 < login.code /\ login.code <= issued)

\* A code to enable a phone is, where it is on its way or was received, one for that phone.
ForItsPhone ==
    enrollment # None =>
       /\ \A i \in held : i.number = enrollment.code => i.phone = enrollment.phone
       /\ \A h \in Handlers : (handlers[h] # Factors!Idle /\ handlers[h].number = enrollment.code) =>
                                 handlers[h].phone = enrollment.phone

\* The last code of a kind is the one that waits, and may be entered.
Latest(kind, challenge) ==
    (latest[kind] # None /\ latest[kind] \notin undone) =>
       (challenge # None /\ challenge.code = latest[kind] /\ challenge.attempts < MaxAttempts)

UsedOnce ==
    /\ \A n \in used : n # assertion /\ (login = None \/ login.code # n)
    /\ login # None => login.code # assertion

FactorsInv ==
    /\ FactorTypes /\ GivenOut /\ ForItsPhone /\ UsedOnce
    /\ Latest("enrollment", enrollment) /\ Latest("login", login)
    /\ phone # None => \E i \in held : i.phone = phone /\ i.number \in entered
    /\ secret # None => secret \in entered

LEMMA FactorsSetupSms ==
    ASSUME FactorsInv, NEW h \in Handlers, NEW to \in Phones, Factors!SetupSms(h, to)
    PROVE  FactorsInv'
  <1> USE DEF FactorsInv
  <1>1. FactorTypes'
    BY NoneIsNoNumber DEF Factors!SetupSms, Factors!Sends, Factors!IssueSmsChallenge, Factors!Issue, Factors!New, Factors!account, FactorTypes, Items, Factors!Challenges, Sending, Factors!Kinds
  <1>2. GivenOut'
    BY NoneIsNoNumber DEF Factors!SetupSms, Factors!Sends, Factors!IssueSmsChallenge, Factors!Issue, Factors!New, Factors!account, FactorTypes, GivenOut, Sending, Factors!Challenges, Items
  <1>3. ForItsPhone'
    BY NoneIsNoNumber DEF Factors!SetupSms, Factors!Sends, Factors!IssueSmsChallenge, Factors!Issue, Factors!New, Factors!account, FactorTypes, GivenOut, ForItsPhone, Sending, Factors!Challenges, Items
  <1>4. UsedOnce'
    BY NoneIsNoNumber DEF Factors!SetupSms, Factors!Sends, Factors!IssueSmsChallenge, Factors!Issue, Factors!New, Factors!account, FactorTypes, GivenOut, UsedOnce
  <1>5. Latest("enrollment", enrollment)' /\ Latest("login", login)'
    BY NoneIsNoNumber DEF Factors!SetupSms, Factors!Sends, Factors!IssueSmsChallenge, Factors!Issue, Factors!New, Factors!account, FactorTypes, Latest, Factors!Kinds, Factors!Challenges
  <1>6. (phone # None => \E i \in held : i.phone = phone /\ i.number \in entered)'
    BY NoneIsNoNumber DEF Factors!SetupSms, Factors!Sends, Factors!IssueSmsChallenge, Factors!Issue, Factors!New, Factors!account, FactorTypes, ForItsPhone, GivenOut
  <1>7. (secret # None => secret \in entered)'
    BY NoneIsNoNumber DEF Factors!SetupSms, Factors!Sends, Factors!IssueSmsChallenge, Factors!Issue, Factors!New, Factors!account, FactorTypes
  <1> QED BY <1>1, <1>2, <1>3, <1>4, <1>5, <1>6, <1>7

LEMMA FactorsSendLogin ==
    ASSUME FactorsInv, NEW h \in Handlers, Factors!SendLogin(h)
    PROVE  FactorsInv'
  <1> USE DEF FactorsInv
  <1>1. FactorTypes'
    BY NoneIsNoNumber DEF Factors!SendLogin, Factors!Sends, Factors!IssueSmsChallenge, Factors!Issue, Factors!New, Factors!account, FactorTypes, Items, Factors!Challenges, Sending, Factors!Kinds
  <1>2. GivenOut'
    BY NoneIsNoNumber DEF Factors!SendLogin, Factors!Sends, Factors!IssueSmsChallenge, Factors!Issue, Factors!New, Factors!account, FactorTypes, GivenOut, Sending, Factors!Challenges, Items
  <1>3. ForItsPhone'
    BY NoneIsNoNumber DEF Factors!SendLogin, Factors!Sends, Factors!IssueSmsChallenge, Factors!Issue, Factors!New, Factors!account, FactorTypes, GivenOut, ForItsPhone, Sending, Factors!Challenges, Items
  <1>4. UsedOnce'
    BY NoneIsNoNumber DEF Factors!SendLogin, Factors!Sends, Factors!IssueSmsChallenge, Factors!Issue, Factors!New, Factors!account, FactorTypes, GivenOut, UsedOnce
  <1>5. Latest("enrollment", enrollment)' /\ Latest("login", login)'
    BY NoneIsNoNumber DEF Factors!SendLogin, Factors!Sends, Factors!IssueSmsChallenge, Factors!Issue, Factors!New, Factors!account, FactorTypes, Latest, Factors!Kinds, Factors!Challenges
  <1>6. (phone # None => \E i \in held : i.phone = phone /\ i.number \in entered)'
    BY NoneIsNoNumber DEF Factors!SendLogin, Factors!Sends, Factors!IssueSmsChallenge, Factors!Issue, Factors!New, Factors!account, FactorTypes, ForItsPhone, GivenOut
  <1>7. (secret # None => secret \in entered)'
    BY NoneIsNoNumber DEF Factors!SendLogin, Factors!Sends, Factors!IssueSmsChallenge, Factors!Issue, Factors!New, Factors!account, FactorTypes
  <1> QED BY <1>1, <1>2, <1>3, <1>4, <1>5, <1>6, <1>7

LEMMA FactorsSent ==
    ASSUME FactorsInv, NEW h \in Handlers, Factors!Sent(h)
    PROVE  FactorsInv'
  <1> USE DEF FactorsInv
  <1>1. FactorTypes'
    BY NoneIsNoNumber DEF Factors!Sent, Factors!Show, Factors!account, Factors!history, FactorTypes, Items, Factors!Challenges, Sending, Factors!Kinds
  <1>2. GivenOut'
    BY NoneIsNoNumber DEF Factors!Sent, Factors!Show, Factors!account, Factors!history, FactorTypes, GivenOut, Sending, Factors!Challenges, Items
  <1>3. ForItsPhone'
    BY NoneIsNoNumber DEF Factors!Sent, Factors!Show, Factors!account, Factors!history, FactorTypes, GivenOut, ForItsPhone, Sending, Factors!Challenges, Items
  <1>4. UsedOnce'
    BY NoneIsNoNumber DEF Factors!Sent, Factors!Show, Factors!account, Factors!history, FactorTypes, GivenOut, UsedOnce
  <1>5. Latest("enrollment", enrollment)' /\ Latest("login", login)'
    BY NoneIsNoNumber DEF Factors!Sent, Factors!Show, Factors!account, Factors!history, FactorTypes, Latest, Factors!Kinds, Factors!Challenges
  <1>6. (phone # None => \E i \in held : i.phone = phone /\ i.number \in entered)'
    BY NoneIsNoNumber DEF Factors!Sent, Factors!Show, Factors!account, Factors!history, FactorTypes, ForItsPhone, GivenOut
  <1>7. (secret # None => secret \in entered)'
    BY NoneIsNoNumber DEF Factors!Sent, Factors!Show, Factors!account, Factors!history, FactorTypes
  <1> QED BY <1>1, <1>2, <1>3, <1>4, <1>5, <1>6, <1>7

LEMMA FactorsNotSent ==
    ASSUME FactorsInv, NEW h \in Handlers, Factors!NotSent(h)
    PROVE  FactorsInv'
  <1> USE DEF FactorsInv
  <1>1. FactorTypes'
    BY NoneIsNoNumber DEF Factors!NotSent, Factors!Show, Factors!Other, Factors!account, FactorTypes, Items, Factors!Challenges, Sending, Factors!Kinds
  <1>2. GivenOut'
    BY NoneIsNoNumber DEF Factors!NotSent, Factors!Show, Factors!Other, Factors!account, FactorTypes, GivenOut, Sending, Factors!Challenges, Items
  <1>3. ForItsPhone'
    BY NoneIsNoNumber DEF Factors!NotSent, Factors!Show, Factors!Other, Factors!account, FactorTypes, GivenOut, ForItsPhone, Sending, Factors!Challenges, Items
  <1>4. UsedOnce'
    BY NoneIsNoNumber DEF Factors!NotSent, Factors!Show, Factors!Other, Factors!account, FactorTypes, GivenOut, UsedOnce
  <1>5. Latest("enrollment", enrollment)' /\ Latest("login", login)'
    <2>1. PICK w \in Sending : w = handlers[h]
      BY DEF Factors!NotSent, FactorTypes
    <2>2. latest \in [Factors!Kinds -> {None} \cup Nat]
      BY DEF FactorTypes
    <2>3. CASE w.kind = "login"
      <3>1. /\ login' = None /\ undone' = undone \cup Factors!Other(login, h) /\ UNCHANGED enrollment
            /\ latest' = IF latest["login"] = w.number THEN [latest EXCEPT !["login"] = None] ELSE latest
        BY <2>1, <2>3 DEF Factors!NotSent
      <3>2. latest'["enrollment"] = latest["enrollment"] /\ undone \subseteq undone'
        BY <2>2, <3>1 DEF Factors!Kinds
      <3>3. Latest("enrollment", enrollment)'
        BY <3>1, <3>2 DEF Latest
      <3>4. latest'["login"] # None => latest'["login"] \in undone'
        BY <2>1, <2>2, <3>1 DEF Latest, Factors!Kinds, Factors!Other
      <3> QED BY <3>3, <3>4 DEF Latest
    <2>4. CASE w.kind = "enrollment"
      <3>1. /\ enrollment' = None /\ undone' = undone \cup Factors!Other(enrollment, h) /\ UNCHANGED login
            /\ latest' = IF latest["enrollment"] = w.number THEN [latest EXCEPT !["enrollment"] = None]
                         ELSE latest
        BY <2>1, <2>4 DEF Factors!NotSent
      <3>2. latest'["login"] = latest["login"] /\ undone \subseteq undone'
        BY <2>2, <3>1 DEF Factors!Kinds
      <3>3. Latest("login", login)'
        BY <3>1, <3>2 DEF Latest
      <3>4. latest'["enrollment"] # None => latest'["enrollment"] \in undone'
        BY <2>1, <2>2, <3>1 DEF Latest, Factors!Kinds, Factors!Other
      <3> QED BY <3>3, <3>4 DEF Latest
    <2> QED BY <2>1, <2>3, <2>4 DEF Sending, Factors!Kinds
  <1>6. (phone # None => \E i \in held : i.phone = phone /\ i.number \in entered)'
    BY NoneIsNoNumber DEF Factors!NotSent, Factors!Show, Factors!Other, Factors!account, FactorTypes, ForItsPhone, GivenOut
  <1>7. (secret # None => secret \in entered)'
    BY NoneIsNoNumber DEF Factors!NotSent, Factors!Show, Factors!Other, Factors!account, FactorTypes
  <1> QED BY <1>1, <1>2, <1>3, <1>4, <1>5, <1>6, <1>7

LEMMA FactorsVerifySms ==
    ASSUME FactorsInv, NEW code \in Factors!Numbers("enrollment") \cup {0}, Factors!VerifySms(code)
    PROVE  FactorsInv'
  <1> USE DEF FactorsInv
  <1>1. FactorTypes'
    BY NoneIsNoNumber DEF Factors!VerifySms, Factors!Left, Factors!Lapsed, Factors!Accepted, Factors!Numbers, FactorTypes, Items, Factors!Challenges, Sending, Factors!Kinds
  <1>2. GivenOut'
    BY NoneIsNoNumber DEF Factors!VerifySms, Factors!Left, Factors!Lapsed, Factors!Accepted, Factors!Numbers, FactorTypes, GivenOut, Sending, Factors!Challenges, Items
  <1>3. ForItsPhone'
    BY NoneIsNoNumber DEF Factors!VerifySms, Factors!Left, Factors!Lapsed, Factors!Accepted, Factors!Numbers, FactorTypes, GivenOut, ForItsPhone, Sending, Factors!Challenges, Items
  <1>4. UsedOnce'
    BY NoneIsNoNumber DEF Factors!VerifySms, Factors!Left, Factors!Lapsed, Factors!Accepted, Factors!Numbers, FactorTypes, GivenOut, UsedOnce
  <1>5. Latest("enrollment", enrollment)' /\ Latest("login", login)'
    BY NoneIsNoNumber DEF Factors!VerifySms, Factors!Left, Factors!Lapsed, Factors!Accepted, Factors!Numbers, FactorTypes, Latest, Factors!Kinds, Factors!Challenges
  <1>6. (phone # None => \E i \in held : i.phone = phone /\ i.number \in entered)'
    BY NoneIsNoNumber DEF Factors!VerifySms, Factors!Left, Factors!Lapsed, Factors!Accepted, Factors!Numbers, FactorTypes, ForItsPhone, GivenOut
  <1>7. (secret # None => secret \in entered)'
    BY NoneIsNoNumber DEF Factors!VerifySms, Factors!Left, Factors!Lapsed, Factors!Accepted, Factors!Numbers, FactorTypes
  <1> QED BY <1>1, <1>2, <1>3, <1>4, <1>5, <1>6, <1>7

LEMMA FactorsLoginSms ==
    ASSUME FactorsInv, NEW code \in Factors!Numbers("login") \cup {0}, Factors!LoginSms(code)
    PROVE  FactorsInv'
  <1> USE DEF FactorsInv
  <1>1. FactorTypes'
    BY NoneIsNoNumber DEF Factors!LoginSms, Factors!Left, Factors!Lapsed, Factors!Accepted, Factors!Numbers, Factors!account, FactorTypes, Items, Factors!Challenges, Sending, Factors!Kinds
  <1>2. GivenOut'
    BY NoneIsNoNumber DEF Factors!LoginSms, Factors!Left, Factors!Lapsed, Factors!Accepted, Factors!Numbers, Factors!account, FactorTypes, GivenOut, Sending, Factors!Challenges, Items
  <1>3. ForItsPhone'
    BY NoneIsNoNumber DEF Factors!LoginSms, Factors!Left, Factors!Lapsed, Factors!Accepted, Factors!Numbers, Factors!account, FactorTypes, GivenOut, ForItsPhone, Sending, Factors!Challenges, Items
  <1>4. UsedOnce'
    BY NoneIsNoNumber DEF Factors!LoginSms, Factors!Left, Factors!Lapsed, Factors!Accepted, Factors!Numbers, Factors!account, FactorTypes, GivenOut, UsedOnce
  <1>5. Latest("enrollment", enrollment)' /\ Latest("login", login)'
    BY NoneIsNoNumber DEF Factors!LoginSms, Factors!Left, Factors!Lapsed, Factors!Accepted, Factors!Numbers, Factors!account, FactorTypes, Latest, Factors!Kinds, Factors!Challenges
  <1>6. (phone # None => \E i \in held : i.phone = phone /\ i.number \in entered)'
    BY NoneIsNoNumber DEF Factors!LoginSms, Factors!Left, Factors!Lapsed, Factors!Accepted, Factors!Numbers, Factors!account, FactorTypes, ForItsPhone, GivenOut
  <1>7. (secret # None => secret \in entered)'
    BY NoneIsNoNumber DEF Factors!LoginSms, Factors!Left, Factors!Lapsed, Factors!Accepted, Factors!Numbers, Factors!account, FactorTypes
  <1> QED BY <1>1, <1>2, <1>3, <1>4, <1>5, <1>6, <1>7

LEMMA FactorsDisableSms ==
    ASSUME FactorsInv, Factors!DisableSms
    PROVE  FactorsInv'
  <1> USE DEF FactorsInv
  <1>1. FactorTypes'
    BY NoneIsNoNumber DEF Factors!DisableSms, FactorTypes, Items, Factors!Challenges, Sending, Factors!Kinds
  <1>2. GivenOut'
    BY NoneIsNoNumber DEF Factors!DisableSms, FactorTypes, GivenOut, Sending, Factors!Challenges, Items
  <1>3. ForItsPhone'
    BY NoneIsNoNumber DEF Factors!DisableSms, FactorTypes, GivenOut, ForItsPhone, Sending, Factors!Challenges, Items
  <1>4. UsedOnce'
    BY NoneIsNoNumber DEF Factors!DisableSms, FactorTypes, GivenOut, UsedOnce
  <1>5. Latest("enrollment", enrollment)' /\ Latest("login", login)'
    BY NoneIsNoNumber DEF Factors!DisableSms, FactorTypes, Latest, Factors!Kinds, Factors!Challenges
  <1>6. (phone # None => \E i \in held : i.phone = phone /\ i.number \in entered)'
    BY NoneIsNoNumber DEF Factors!DisableSms, FactorTypes, ForItsPhone, GivenOut
  <1>7. (secret # None => secret \in entered)'
    BY NoneIsNoNumber DEF Factors!DisableSms, FactorTypes
  <1> QED BY <1>1, <1>2, <1>3, <1>4, <1>5, <1>6, <1>7

LEMMA FactorsSetupTotp ==
    ASSUME FactorsInv, Factors!SetupTotp
    PROVE  FactorsInv'
  <1> USE DEF FactorsInv
  <1>1. FactorTypes'
    BY NoneIsNoNumber DEF Factors!SetupTotp, Factors!Show, Factors!Issue, Factors!New, Factors!pending, Factors!history, FactorTypes, Items, Factors!Challenges, Sending, Factors!Kinds
  <1>2. GivenOut'
    BY NoneIsNoNumber DEF Factors!SetupTotp, Factors!Show, Factors!Issue, Factors!New, Factors!pending, Factors!history, FactorTypes, GivenOut, Sending, Factors!Challenges, Items
  <1>3. ForItsPhone'
    BY NoneIsNoNumber DEF Factors!SetupTotp, Factors!Show, Factors!Issue, Factors!New, Factors!pending, Factors!history, FactorTypes, GivenOut, ForItsPhone, Sending, Factors!Challenges, Items
  <1>4. UsedOnce'
    BY NoneIsNoNumber DEF Factors!SetupTotp, Factors!Show, Factors!Issue, Factors!New, Factors!pending, Factors!history, FactorTypes, GivenOut, UsedOnce
  <1>5. Latest("enrollment", enrollment)' /\ Latest("login", login)'
    BY NoneIsNoNumber DEF Factors!SetupTotp, Factors!Show, Factors!Issue, Factors!New, Factors!pending, Factors!history, FactorTypes, Latest, Factors!Kinds, Factors!Challenges
  <1>6. (phone # None => \E i \in held : i.phone = phone /\ i.number \in entered)'
    BY NoneIsNoNumber DEF Factors!SetupTotp, Factors!Show, Factors!Issue, Factors!New, Factors!pending, Factors!history, FactorTypes, ForItsPhone, GivenOut
  <1>7. (secret # None => secret \in entered)'
    BY NoneIsNoNumber DEF Factors!SetupTotp, Factors!Show, Factors!Issue, Factors!New, Factors!pending, Factors!history, FactorTypes
  <1> QED BY <1>1, <1>2, <1>3, <1>4, <1>5, <1>6, <1>7

LEMMA FactorsVerifyTotp ==
    ASSUME FactorsInv, NEW code \in Factors!Numbers("totp"), Factors!VerifyTotp(code)
    PROVE  FactorsInv'
  <1> USE DEF FactorsInv
  <1>1. FactorTypes'
    BY NoneIsNoNumber DEF Factors!VerifyTotp, Factors!Numbers, Factors!pending, FactorTypes, Items, Factors!Challenges, Sending, Factors!Kinds
  <1>2. GivenOut'
    BY NoneIsNoNumber DEF Factors!VerifyTotp, Factors!Numbers, Factors!pending, FactorTypes, GivenOut, Sending, Factors!Challenges, Items
  <1>3. ForItsPhone'
    BY NoneIsNoNumber DEF Factors!VerifyTotp, Factors!Numbers, Factors!pending, FactorTypes, GivenOut, ForItsPhone, Sending, Factors!Challenges, Items
  <1>4. UsedOnce'
    BY NoneIsNoNumber DEF Factors!VerifyTotp, Factors!Numbers, Factors!pending, FactorTypes, GivenOut, UsedOnce
  <1>5. Latest("enrollment", enrollment)' /\ Latest("login", login)'
    BY NoneIsNoNumber DEF Factors!VerifyTotp, Factors!Numbers, Factors!pending, FactorTypes, Latest, Factors!Kinds, Factors!Challenges
  <1>6. (phone # None => \E i \in held : i.phone = phone /\ i.number \in entered)'
    BY NoneIsNoNumber DEF Factors!VerifyTotp, Factors!Numbers, Factors!pending, FactorTypes, ForItsPhone, GivenOut
  <1>7. (secret # None => secret \in entered)'
    BY NoneIsNoNumber DEF Factors!VerifyTotp, Factors!Numbers, Factors!pending, FactorTypes
  <1> QED BY <1>1, <1>2, <1>3, <1>4, <1>5, <1>6, <1>7

LEMMA FactorsDisableTotp ==
    ASSUME FactorsInv, NEW code \in Factors!Numbers("totp"), Factors!DisableTotp(code)
    PROVE  FactorsInv'
  <1> USE DEF FactorsInv
  <1>1. FactorTypes'
    BY NoneIsNoNumber DEF Factors!DisableTotp, Factors!pending, Factors!history, FactorTypes, Items, Factors!Challenges, Sending, Factors!Kinds
  <1>2. GivenOut'
    BY NoneIsNoNumber DEF Factors!DisableTotp, Factors!pending, Factors!history, FactorTypes, GivenOut, Sending, Factors!Challenges, Items
  <1>3. ForItsPhone'
    BY NoneIsNoNumber DEF Factors!DisableTotp, Factors!pending, Factors!history, FactorTypes, GivenOut, ForItsPhone, Sending, Factors!Challenges, Items
  <1>4. UsedOnce'
    BY NoneIsNoNumber DEF Factors!DisableTotp, Factors!pending, Factors!history, FactorTypes, GivenOut, UsedOnce
  <1>5. Latest("enrollment", enrollment)' /\ Latest("login", login)'
    BY NoneIsNoNumber DEF Factors!DisableTotp, Factors!pending, Factors!history, FactorTypes, Latest, Factors!Kinds, Factors!Challenges
  <1>6. (phone # None => \E i \in held : i.phone = phone /\ i.number \in entered)'
    BY NoneIsNoNumber DEF Factors!DisableTotp, Factors!pending, Factors!history, FactorTypes, ForItsPhone, GivenOut
  <1>7. (secret # None => secret \in entered)'
    BY NoneIsNoNumber DEF Factors!DisableTotp, Factors!pending, Factors!history, FactorTypes
  <1> QED BY <1>1, <1>2, <1>3, <1>4, <1>5, <1>6, <1>7

LEMMA FactorsRegisterOptions ==
    ASSUME FactorsInv, Factors!RegisterOptions
    PROVE  FactorsInv'
  <1> USE DEF FactorsInv
  <1>1. FactorTypes'
    BY NoneIsNoNumber DEF Factors!RegisterOptions, Factors!Show, Factors!Issue, Factors!New, Factors!account, Factors!history, FactorTypes, Items, Factors!Challenges, Sending, Factors!Kinds
  <1>2. GivenOut'
    BY NoneIsNoNumber DEF Factors!RegisterOptions, Factors!Show, Factors!Issue, Factors!New, Factors!account, Factors!history, FactorTypes, GivenOut, Sending, Factors!Challenges, Items
  <1>3. ForItsPhone'
    BY NoneIsNoNumber DEF Factors!RegisterOptions, Factors!Show, Factors!Issue, Factors!New, Factors!account, Factors!history, FactorTypes, GivenOut, ForItsPhone, Sending, Factors!Challenges, Items
  <1>4. UsedOnce'
    BY NoneIsNoNumber DEF Factors!RegisterOptions, Factors!Show, Factors!Issue, Factors!New, Factors!account, Factors!history, FactorTypes, GivenOut, UsedOnce
  <1>5. Latest("enrollment", enrollment)' /\ Latest("login", login)'
    BY NoneIsNoNumber DEF Factors!RegisterOptions, Factors!Show, Factors!Issue, Factors!New, Factors!account, Factors!history, FactorTypes, Latest, Factors!Kinds, Factors!Challenges
  <1>6. (phone # None => \E i \in held : i.phone = phone /\ i.number \in entered)'
    BY NoneIsNoNumber DEF Factors!RegisterOptions, Factors!Show, Factors!Issue, Factors!New, Factors!account, Factors!history, FactorTypes, ForItsPhone, GivenOut
  <1>7. (secret # None => secret \in entered)'
    BY NoneIsNoNumber DEF Factors!RegisterOptions, Factors!Show, Factors!Issue, Factors!New, Factors!account, Factors!history, FactorTypes
  <1> QED BY <1>1, <1>2, <1>3, <1>4, <1>5, <1>6, <1>7

LEMMA FactorsRegisterVerify ==
    ASSUME FactorsInv, NEW challenge \in Factors!Numbers("passkey"), Factors!RegisterVerify(challenge)
    PROVE  FactorsInv'
  <1> USE DEF FactorsInv
  <1>1. FactorTypes'
    BY NoneIsNoNumber DEF Factors!RegisterVerify, Factors!history, FactorTypes, Items, Factors!Challenges, Sending, Factors!Kinds
  <1>2. GivenOut'
    BY NoneIsNoNumber DEF Factors!RegisterVerify, Factors!history, FactorTypes, GivenOut, Sending, Factors!Challenges, Items
  <1>3. ForItsPhone'
    BY NoneIsNoNumber DEF Factors!RegisterVerify, Factors!history, FactorTypes, GivenOut, ForItsPhone, Sending, Factors!Challenges, Items
  <1>4. UsedOnce'
    BY NoneIsNoNumber DEF Factors!RegisterVerify, Factors!history, FactorTypes, GivenOut, UsedOnce
  <1>5. Latest("enrollment", enrollment)' /\ Latest("login", login)'
    BY NoneIsNoNumber DEF Factors!RegisterVerify, Factors!history, FactorTypes, Latest, Factors!Kinds, Factors!Challenges
  <1>6. (phone # None => \E i \in held : i.phone = phone /\ i.number \in entered)'
    BY NoneIsNoNumber DEF Factors!RegisterVerify, Factors!history, FactorTypes, ForItsPhone, GivenOut
  <1>7. (secret # None => secret \in entered)'
    BY NoneIsNoNumber DEF Factors!RegisterVerify, Factors!history, FactorTypes
  <1> QED BY <1>1, <1>2, <1>3, <1>4, <1>5, <1>6, <1>7

LEMMA FactorsRemovePasskey ==
    ASSUME FactorsInv, NEW key \in passkeys, Factors!RemovePasskey(key)
    PROVE  FactorsInv'
  <1> USE DEF FactorsInv
  <1>1. FactorTypes'
    BY NoneIsNoNumber DEF Factors!RemovePasskey, Factors!pending, Factors!history, FactorTypes, Items, Factors!Challenges, Sending, Factors!Kinds
  <1>2. GivenOut'
    BY NoneIsNoNumber DEF Factors!RemovePasskey, Factors!pending, Factors!history, FactorTypes, GivenOut, Sending, Factors!Challenges, Items
  <1>3. ForItsPhone'
    BY NoneIsNoNumber DEF Factors!RemovePasskey, Factors!pending, Factors!history, FactorTypes, GivenOut, ForItsPhone, Sending, Factors!Challenges, Items
  <1>4. UsedOnce'
    BY NoneIsNoNumber DEF Factors!RemovePasskey, Factors!pending, Factors!history, FactorTypes, GivenOut, UsedOnce
  <1>5. Latest("enrollment", enrollment)' /\ Latest("login", login)'
    BY NoneIsNoNumber DEF Factors!RemovePasskey, Factors!pending, Factors!history, FactorTypes, Latest, Factors!Kinds, Factors!Challenges
  <1>6. (phone # None => \E i \in held : i.phone = phone /\ i.number \in entered)'
    BY NoneIsNoNumber DEF Factors!RemovePasskey, Factors!pending, Factors!history, FactorTypes, ForItsPhone, GivenOut
  <1>7. (secret # None => secret \in entered)'
    BY NoneIsNoNumber DEF Factors!RemovePasskey, Factors!pending, Factors!history, FactorTypes
  <1> QED BY <1>1, <1>2, <1>3, <1>4, <1>5, <1>6, <1>7

LEMMA FactorsPasskeyOptions ==
    ASSUME FactorsInv, Factors!PasskeyOptions
    PROVE  FactorsInv'
  <1> USE DEF FactorsInv
  <1>1. FactorTypes'
    BY NoneIsNoNumber DEF Factors!PasskeyOptions, Factors!Show, Factors!Issue, Factors!New, Factors!account, Factors!history, FactorTypes, Items, Factors!Challenges, Sending, Factors!Kinds
  <1>2. GivenOut'
    BY NoneIsNoNumber DEF Factors!PasskeyOptions, Factors!Show, Factors!Issue, Factors!New, Factors!account, Factors!history, FactorTypes, GivenOut, Sending, Factors!Challenges, Items
  <1>3. ForItsPhone'
    BY NoneIsNoNumber DEF Factors!PasskeyOptions, Factors!Show, Factors!Issue, Factors!New, Factors!account, Factors!history, FactorTypes, GivenOut, ForItsPhone, Sending, Factors!Challenges, Items
  <1>4. UsedOnce'
    BY NoneIsNoNumber DEF Factors!PasskeyOptions, Factors!Show, Factors!Issue, Factors!New, Factors!account, Factors!history, FactorTypes, GivenOut, UsedOnce
  <1>5. Latest("enrollment", enrollment)' /\ Latest("login", login)'
    BY NoneIsNoNumber DEF Factors!PasskeyOptions, Factors!Show, Factors!Issue, Factors!New, Factors!account, Factors!history, FactorTypes, Latest, Factors!Kinds, Factors!Challenges
  <1>6. (phone # None => \E i \in held : i.phone = phone /\ i.number \in entered)'
    BY NoneIsNoNumber DEF Factors!PasskeyOptions, Factors!Show, Factors!Issue, Factors!New, Factors!account, Factors!history, FactorTypes, ForItsPhone, GivenOut
  <1>7. (secret # None => secret \in entered)'
    BY NoneIsNoNumber DEF Factors!PasskeyOptions, Factors!Show, Factors!Issue, Factors!New, Factors!account, Factors!history, FactorTypes
  <1> QED BY <1>1, <1>2, <1>3, <1>4, <1>5, <1>6, <1>7

LEMMA FactorsPasskeyLogin ==
    ASSUME FactorsInv, NEW challenge \in Factors!Numbers("assertion"), Factors!PasskeyLogin(challenge)
    PROVE  FactorsInv'
  <1> USE DEF FactorsInv
  <1>1. FactorTypes'
    BY NoneIsNoNumber DEF Factors!PasskeyLogin, Factors!AssertionUsed, Factors!Numbers, Factors!account, FactorTypes, Items, Factors!Challenges, Sending, Factors!Kinds
  <1>2. GivenOut'
    BY NoneIsNoNumber DEF Factors!PasskeyLogin, Factors!AssertionUsed, Factors!Numbers, Factors!account, FactorTypes, GivenOut, Sending, Factors!Challenges, Items
  <1>3. ForItsPhone'
    BY NoneIsNoNumber DEF Factors!PasskeyLogin, Factors!AssertionUsed, Factors!Numbers, Factors!account, FactorTypes, GivenOut, ForItsPhone, Sending, Factors!Challenges, Items
  <1>4. UsedOnce'
    BY NoneIsNoNumber DEF Factors!PasskeyLogin, Factors!AssertionUsed, Factors!Numbers, FactorTypes, UsedOnce, Factors!Challenges, Items
  <1>5. Latest("enrollment", enrollment)' /\ Latest("login", login)'
    BY NoneIsNoNumber DEF Factors!PasskeyLogin, Factors!AssertionUsed, Factors!Numbers, Factors!account, FactorTypes, Latest, Factors!Kinds, Factors!Challenges
  <1>6. (phone # None => \E i \in held : i.phone = phone /\ i.number \in entered)'
    BY NoneIsNoNumber DEF Factors!PasskeyLogin, Factors!AssertionUsed, Factors!Numbers, Factors!account, FactorTypes, ForItsPhone, GivenOut
  <1>7. (secret # None => secret \in entered)'
    BY NoneIsNoNumber DEF Factors!PasskeyLogin, Factors!AssertionUsed, Factors!Numbers, Factors!account, FactorTypes
  <1> QED BY <1>1, <1>2, <1>3, <1>4, <1>5, <1>6, <1>7

LEMMA FactorsExpire ==
    ASSUME FactorsInv, Factors!Expire
    PROVE  FactorsInv'
  <1> USE DEF FactorsInv
  <1>1. FactorTypes'
    BY NoneIsNoNumber DEF Factors!Expire, Factors!account, FactorTypes, Items, Factors!Challenges, Sending, Factors!Kinds
  <1>2. GivenOut'
    BY NoneIsNoNumber DEF Factors!Expire, Factors!account, FactorTypes, GivenOut, Sending, Factors!Challenges, Items
  <1>3. ForItsPhone'
    BY NoneIsNoNumber DEF Factors!Expire, Factors!account, FactorTypes, GivenOut, ForItsPhone, Sending, Factors!Challenges, Items
  <1>4. UsedOnce'
    BY NoneIsNoNumber DEF Factors!Expire, FactorTypes, UsedOnce, Factors!Challenges
  <1>5. Latest("enrollment", enrollment)' /\ Latest("login", login)'
    BY NoneIsNoNumber DEF Factors!Expire, Factors!account, FactorTypes, Latest, Factors!Kinds, Factors!Challenges
  <1>6. (phone # None => \E i \in held : i.phone = phone /\ i.number \in entered)'
    BY NoneIsNoNumber DEF Factors!Expire, Factors!account, FactorTypes, ForItsPhone, GivenOut
  <1>7. (secret # None => secret \in entered)'
    BY NoneIsNoNumber DEF Factors!Expire, Factors!account, FactorTypes
  <1> QED BY <1>1, <1>2, <1>3, <1>4, <1>5, <1>6, <1>7

LEMMA FactorsFirst == ASSUME Factors!Init PROVE FactorsInv
  <1>1. FactorTypes
    BY NoneIsNoNumber DEF Factors!Init, FactorTypes
  <1>2. GivenOut /\ ForItsPhone /\ UsedOnce
    BY DEF Factors!Init, GivenOut, ForItsPhone, UsedOnce
  <1>3. Latest("enrollment", enrollment) /\ Latest("login", login)
    BY DEF Factors!Init, Latest, Factors!Kinds
  <1> QED BY <1>1, <1>2, <1>3 DEF FactorsInv, Factors!Init

LEMMA FactorsSteps == ASSUME FactorsInv, Factors!Next PROVE FactorsInv'
  BY FactorsSetupSms, FactorsSendLogin, FactorsSent, FactorsNotSent, FactorsVerifySms,
     FactorsLoginSms, FactorsDisableSms, FactorsSetupTotp, FactorsVerifyTotp, FactorsDisableTotp,
     FactorsRegisterOptions, FactorsRegisterVerify, FactorsRemovePasskey, FactorsPasskeyOptions,
     FactorsPasskeyLogin, FactorsExpire DEF Factors!Next

LEMMA FactorsAreSound == ASSUME FactorsInv PROVE Factors!SentCodeWorks /\ Factors!FactorsAreHeld
  <1>1. Factors!FactorsAreHeld
    BY DEF FactorsInv, UsedOnce, Factors!FactorsAreHeld
  <1>2. ASSUME NEW kind, latest[kind] \in Factors!Numbers(kind) PROVE latest[kind] # None
    BY <1>2, NoneIsNoNumber DEF Factors!Numbers, FactorsInv, FactorTypes, Items
  <1>3. Factors!SentCodeWorks
    BY <1>2 DEF FactorsInv, Latest, Factors!SentCodeWorks, Factors!Accepted
  <1> QED BY <1>1, <1>3

InFactors == part = "factors"

LEMMA FactorsStep == ASSUME FactorsInv, [Next]_vars, part = "factors" PROVE FactorsInv'
  <1>1. CASE Factors!Next
    BY <1>1, FactorsSteps
  <1>2. CASE UNCHANGED <<handlers, factorsOwn>>
    BY <1>2 DEF factorsOwn, FactorsInv, FactorTypes, GivenOut, ForItsPhone, UsedOnce, Latest
  <1> QED BY <1>1, <1>2, FactorsRun, PartStays

\* A code that was sent is accepted when it is entered, until something ends it; a factor that
\* is enabled was received or shown, and what opened a session opens no other (server.mjs,
\* issueSmsChallenge, verifyPendingSms and the routes of second factors).
THEOREM FactorsDoWork == Spec => []FactorsWork
  <1>1. Init => (InFactors => FactorsInv)
    BY FactorsBegin, FactorsFirst DEF InFactors
  <1>2. (InFactors => FactorsInv) /\ [Next]_vars => (InFactors => FactorsInv)'
    BY FactorsStep, PartStays DEF InFactors
  <1>3. (InFactors => FactorsInv) => FactorsWork
    BY FactorsAreSound DEF FactorsWork, InFactors
  <1> QED BY <1>1, <1>2, <1>3, PTL DEF Spec

(***************************************************************************)
(* Accounts and their sessions.  A handler goes on, after an await, with   *)
(* the account it found before, which may have been deleted since, and the *)
(* name may stand for a newer one.  The argument: an account that is found *)
(* is the first of its name, an account created later never comes before   *)
(* it, so as long as it is there it is the one that is found again.  A     *)
(* session that was not late stands for such an account.                   *)
(***************************************************************************)
Account == [name : LoginNames \cup {Owner}, password : Nat, disabled : BOOLEAN]

SessionRecord ==
    [name : LoginNames \cup {Owner}, account : Nat, password : Nat, late : BOOLEAN]

UserTypes ==
    /\ \E n \in Nat : DOMAIN accounts = 0 .. n
    /\ accounts \in [DOMAIN accounts -> Account]
    /\ accounts[0].name = Owner
    /\ \A a \in DOMAIN accounts : a # 0 => accounts[a].name \in LoginNames
    /\ users \subseteq DOMAIN accounts \ {0}
    /\ groups \in [Groups -> {None} \cup SUBSET LoginNames]
    /\ passwords \in Nat
    /\ sessions \subseteq SessionRecord
    /\ handlers = [h \in Handlers |-> handlers[h]]

\* No user of the name comes before the account.
First(account, name) == \A b \in users : accounts[b].name = name => account <= b

Of(account, name) == account \in DOMAIN accounts /\ accounts[account].name = name

\* What a handler that waits still has of what it read before.
HandlerKnows(w) ==
    /\ w.step # None /\ w.step # "group" => w.name \in LoginNames \cup {Owner}
    /\ w.step \in {"new", "folders", "update", "hash"} => w.name \in LoginNames
    /\ w.step \in {"verify", "samba"} =>
           /\ Of(w.account, w.name) /\ w.password \in Nat
           /\ w.account \in users => First(w.account, w.name)
    /\ w.step \in {"update", "hash", "own", "own saved"} => Of(w.account, w.name)
    /\ w.step \in {"folders", "update", "hash"} => w.name \in Users!UserNames \cup orphaned
    /\ w.step \in {"update", "hash"} => w.body \in Updates
    /\ w.step = "group" => w.account \in Groups /\ w.body \in SUBSET LoginNames

HandlersKnow == \A h \in Handlers : HandlerKnows(handlers[h])

\* A session is one of the account's name; if it was not late, of the account that
\* is found for the name, and of its password unless a change is under way.
Current(s) ==
    \/ s.password = accounts[s.account].password
    \/ Users!Changing(s.account) \/ s.account \in halfway

Stands(s) ==
    /\ Of(s.account, s.name)
    /\ ~s.late => /\ s.account \in users \cup {0} /\ First(s.account, s.name)
                 /\ Current(s)

SessionsStand == \A s \in sessions : Stands(s)

UsersInv == UserTypes /\ HandlersKnow /\ SessionsStand /\ Users!DirectoryIsSound

LEMMA UsersAre ==
    /\ None \notin LoginNames /\ None # Owner /\ Owner \notin LoginNames
    /\ None \notin BOOLEAN /\ None \notin Users!Steps
    /\ Updates \subseteq [disabled : BOOLEAN \cup {None}, password : BOOLEAN, refused : BOOLEAN,
                          groups : {None} \cup SUBSET Groups]
  BY ControlAssumption DEF ControlAssumption, Users!AccountsAssumption

LEMMA UsersRun ==
    ASSUME [Next]_vars, part = "users"
    PROVE  Users!Next \/ UNCHANGED Users!vars
  BY DEF Next, vars, Users!vars, usersOwn

LEMMA UsersBegin == ASSUME Init, part = "users" PROVE Users!Init
  BY DEF Init

\* A set of numbers that is not empty has a first.
LEMMA HasFirst ==
    ASSUME NEW S \in SUBSET Nat, S # {}
    PROVE  /\ Users!Min(S) \in S
           /\ \A n \in S : Users!Min(S) <= n
  <1> DEFINE Smaller == {p \in Nat \X Nat : p[1] < p[2]}
  <1>1. IsWellFoundedOn(Smaller, Nat)
    BY NatLessThanWellFounded, Zenon DEF OpToRel
  <1>2. PICK m \in S : \A n \in S : <<n, m>> \notin Smaller
    <2> HIDE DEF Smaller
    <2> QED BY <1>1, WFMin
  <1>3. ASSUME NEW n \in S PROVE m <= n
    <2>1. <<n, m>> \notin Smaller /\ n \in Nat /\ m \in Nat
      BY <1>2
    <2>2. ~(n < m)
      BY <2>1
    <2> QED BY <2>1, <2>2
  <1> QED BY <1>3 DEF Users!Min

\* The account that is found is the first of its name, and the first is found.
LEMMA FoundIsFirst ==
    ASSUME UserTypes, NEW name \in LoginNames \cup {Owner}, NEW found, found = Users!Found(name),
           found # None
    PROVE  /\ Of(found, name) /\ First(found, name) /\ found \in users \cup {0}
           /\ name \in LoginNames => found \in users
  <1> DEFINE Theirs == {a \in users : accounts[a].name = name}
  <1>0. users \in SUBSET Nat /\ 0 \in DOMAIN accounts /\ users \subseteq DOMAIN accounts
    BY DEF UserTypes
  <1>1. CASE name = Owner
    BY <1>0, <1>1, UsersAre DEF Users!Found, Of, First, UserTypes
  <1>2. CASE name # Owner
    <2>1. Theirs # {} /\ found = Users!Min(Theirs)
      BY <1>2 DEF Users!Found
    <2>2. Theirs \in SUBSET Nat
      BY <1>0
    <2>3. found \in Theirs /\ \A n \in Theirs : found <= n
      BY <2>1, <2>2, HasFirst
    <2> QED BY <1>0, <2>3 DEF Of, First
  <1> QED BY <1>1, <1>2

LEMMA FirstIsFound ==
    ASSUME UserTypes, NEW account \in users \cup {0}, NEW name, Of(account, name),
           First(account, name)
    PROVE  Users!Found(name) = account
  <1> DEFINE Theirs == {a \in users : accounts[a].name = name}
  <1>0. users \in SUBSET Nat /\ accounts[0].name = Owner
        /\ \A a \in users : a # 0 /\ accounts[a].name \in LoginNames
    BY DEF UserTypes
  <1>1. CASE account = 0
    BY <1>0, <1>1 DEF Users!Found, Of
  <1>2. CASE account # 0
    <2>1. account \in Theirs /\ \A n \in Theirs : account <= n
      BY <1>2 DEF Of, First
    <2>2. Theirs \in SUBSET Nat /\ Theirs # {}
      BY <1>0, <2>1
    <2>3. Users!Min(Theirs) \in Theirs /\ \A n \in Theirs : Users!Min(Theirs) <= n
      BY <2>2, HasFirst
    <2>4. Users!Min(Theirs) = account
      BY <2>1, <2>2, <2>3
    <2>5. name # Owner
      BY <1>0, <2>1, UsersAre
    <2> QED BY <2>2, <2>4, <2>5 DEF Users!Found
  <1> QED BY <1>1, <1>2

\* The accounts keep their names.
SameNames ==
    /\ DOMAIN accounts' = DOMAIN accounts
    /\ \A a \in DOMAIN accounts : accounts'[a].name = accounts[a].name

LEMMA NamesStay ==
    ASSUME UserTypes, SameNames, UNCHANGED users
    PROVE  UNCHANGED Users!UserNames
  BY DEF UserTypes, SameNames, Users!UserNames

LEMMA KnowledgeStays ==
    ASSUME UserTypes, SameNames, UNCHANGED <<users, orphaned>>, NEW w, HandlerKnows(w)
    PROVE  HandlerKnows(w)'
  <1>1. \A a : Of(a, w.name) => Of(a, w.name)'
    BY DEF Of, SameNames
  <1>2. \A a : First(a, w.name) => First(a, w.name)'
    BY DEF First, SameNames, UserTypes
  <1> QED BY <1>1, <1>2, NamesStay DEF HandlerKnows

LEMMA HandlersStay ==
    ASSUME UserTypes, HandlersKnow, SameNames, UNCHANGED <<users, orphaned>>,
           NEW h \in Handlers, NEW w, handlers' = [handlers EXCEPT ![h] = w], HandlerKnows(w)
    PROVE  HandlersKnow'
  <1>1. ASSUME NEW i \in Handlers PROVE HandlerKnows(handlers[i])'
    <2>1. PICK r : r = handlers'[i]
      OBVIOUS
    <2>2. HandlerKnows(r)
      BY <2>1 DEF UserTypes, HandlersKnow
    <2> QED BY <2>1, <2>2, KnowledgeStays
  <1> QED BY <1>1 DEF HandlersKnow

LEMMA SessionsStay ==
    ASSUME UserTypes, SessionsStand, SameNames, UNCHANGED users,
           sessions' \subseteq sessions, \A s \in sessions' : Current(s) => Current(s)'
    PROVE  SessionsStand'
  <1>1. ASSUME NEW s \in sessions' PROVE Stands(s)'
    BY <1>1 DEF SessionsStand, Stands, SameNames, Of, First, UserTypes
  <1> QED BY <1>1 DEF SessionsStand

\* A change of password that is not answered stays so, but for one that ends.
LEMMA ChangesStay ==
    ASSUME UserTypes, NEW h \in Handlers, NEW w, handlers' = [handlers EXCEPT ![h] = w],
           NEW a, Users!Changing(a),
           handlers[h].step # "own saved" \/ handlers[h].account # a
    PROVE  Users!Changing(a)'
  BY DEF UserTypes, Users!Changing

LEMMA DirectoryStays ==
    ASSUME UserTypes, Users!DirectoryIsSound, SameNames, UNCHANGED <<users, twice, orphaned>>,
           \A g \in Groups : groups'[g] # None =>
               IF groups[g] = None THEN groups'[g] \subseteq Users!UserNames
               ELSE groups'[g] \subseteq groups[g] \cup Users!UserNames \cup orphaned
    PROVE  Users!DirectoryIsSound'
  <1>1. \A g \in Groups : groups'[g] # None => groups'[g] \subseteq Users!UserNames \cup orphaned
    BY DEF Users!DirectoryIsSound
  <1>2. \A a, b \in users : accounts'[a].name = accounts'[b].name =>
            a = b \/ accounts'[a].name \in twice
    BY DEF Users!DirectoryIsSound, SameNames, UserTypes
  <1> QED BY <1>1, <1>2, NamesStay DEF Users!DirectoryIsSound

LEMMA OwnerIsThere == ASSUME UserTypes PROVE 0 \in DOMAIN accounts
  <1>1. PICK n \in Nat : DOMAIN accounts = 0 .. n
    BY DEF UserTypes
  <1>2. 0 \in 0 .. n
    OBVIOUS
  <1> QED BY <1>1, <1>2

LEMMA UserTypesStay ==
    ASSUME UserTypes, UNCHANGED <<accounts, users>>,
           groups' \in [Groups -> {None} \cup SUBSET LoginNames], passwords' \in Nat,
           sessions' \subseteq SessionRecord,
           NEW h \in Handlers, NEW w, handlers' = [handlers EXCEPT ![h] = w]
    PROVE  UserTypes'
  <1>1. handlers' = [i \in Handlers |-> handlers'[i]]
    BY DEF UserTypes
  <1> QED BY <1>1 DEF UserTypes

LEMMA IdleKnows == HandlerKnows(Users!Idle)
  BY UsersAre DEF HandlerKnows, Users!Idle, Users!Steps

\* A step that only waits, with what it read.
LEMMA OnlyWaits ==
    ASSUME UsersInv, NEW h \in Handlers, NEW w, HandlerKnows(w),
           handlers' = [handlers EXCEPT ![h] = w], handlers[h].step # "own saved",
           UNCHANGED <<accounts, users, groups, sessions, passwords, halfway, twice, orphaned>>
    PROVE  UsersInv'
  <1> USE DEF UsersInv
  <1>1. SameNames
    BY DEF SameNames
  <1>2. UserTypes'
    BY UserTypesStay DEF UserTypes
  <1>3. HandlersKnow'
    BY <1>1, HandlersStay
  <1>4. \A s \in sessions : Current(s) => Current(s)'
    BY ChangesStay DEF Current
  <1>5. SessionsStand'
    BY <1>1, <1>4, SessionsStay
  <1>6. Users!DirectoryIsSound'
    BY <1>1, DirectoryStays
  <1> QED BY <1>2, <1>3, <1>5, <1>6

LEMMA IdleWaitsFor ==
    ASSUME NEW h \in Handlers, handlers[h] = Users!Idle
    PROVE  handlers[h].step # "own saved"
  <1>1. handlers[h].step = None
    BY DEF Users!Idle
  <1>2. None # "own saved"
    BY UsersAre DEF Users!Steps
  <1> QED BY <1>1, <1>2

LEMMA UsersSignIn ==
    ASSUME UsersInv, NEW h \in Handlers, NEW name \in LoginNames \cup {Owner},
           Users!SignIn(h, name)
    PROVE  UsersInv'
  <1>1. PICK found : found = Users!Found(name)
    OBVIOUS
  <1>2. PICK w : w = [step |-> "verify", name |-> name, account |-> found,
                      password |-> accounts[found].password, body |-> None]
    OBVIOUS
  <1>3. /\ found # None /\ handlers' = [handlers EXCEPT ![h] = w]
        /\ UNCHANGED <<accounts, users, groups, sessions, passwords, halfway, twice, orphaned>>
    BY <1>1, <1>2 DEF Users!SignIn, Users!Waits
  <1>4. Of(found, name) /\ First(found, name) /\ UserTypes
    BY <1>1, <1>3, FoundIsFirst DEF UsersInv
  <1>5. accounts[found].password \in Nat
    BY <1>4 DEF UserTypes, Of, Account
  <1>6. HandlerKnows(w)
    BY <1>2, <1>4, <1>5 DEF HandlerKnows
  <1> QED BY <1>3, <1>6, OnlyWaits, IdleWaitsFor DEF Users!SignIn

LEMMA UsersCreate ==
    ASSUME UsersInv, NEW h \in Handlers, NEW name \in LoginNames, NEW chosen,
           Users!Create(h, name, chosen)
    PROVE  UsersInv'
  <1>1. PICK w : w = [step |-> "new", name |-> name, account |-> None, password |-> None,
                      body |-> chosen]
    OBVIOUS
  <1>2. HandlerKnows(w)
    BY <1>1 DEF HandlerKnows
  <1> QED BY <1>1, <1>2, OnlyWaits, IdleWaitsFor DEF Users!Create, Users!Waits

LEMMA UsersUpdate ==
    ASSUME UsersInv, NEW h \in Handlers, NEW name \in LoginNames, NEW body \in Updates,
           Users!Update(h, name, body)
    PROVE  UsersInv'
  <1>1. PICK found : found = Users!Found(name)
    OBVIOUS
  <1>2. PICK w : w = [step |-> "update", name |-> name, account |-> found, password |-> None,
                      body |-> body]
    OBVIOUS
  <1>3. /\ found # None /\ handlers' = [handlers EXCEPT ![h] = w]
        /\ UNCHANGED <<accounts, users, groups, sessions, passwords, halfway, twice, orphaned>>
    BY <1>1, <1>2 DEF Users!Update, Users!Waits
  <1>4. Of(found, name) /\ found \in users
    BY <1>1, <1>3, FoundIsFirst DEF UsersInv
  <1>5. name \in Users!UserNames
    BY <1>4 DEF Of, Users!UserNames
  <1>6. HandlerKnows(w)
    BY <1>2, <1>4, <1>5 DEF HandlerKnows
  <1> QED BY <1>3, <1>6, OnlyWaits, IdleWaitsFor DEF Users!Update

LEMMA UsersUpdateGroup ==
    ASSUME UsersInv, NEW h \in Handlers, NEW g \in Groups, NEW members \in SUBSET LoginNames,
           Users!UpdateGroup(h, g, members)
    PROVE  UsersInv'
  <1>1. PICK w : w = [step |-> "group", name |-> None, account |-> g, password |-> None,
                      body |-> members]
    OBVIOUS
  <1>2. HandlerKnows(w)
    BY <1>1 DEF HandlerKnows
  <1> QED BY <1>1, <1>2, OnlyWaits, IdleWaitsFor DEF Users!UpdateGroup, Users!Waits

LEMMA UsersChangeOwn ==
    ASSUME UsersInv, NEW h \in Handlers, NEW s \in sessions, NEW route, Users!ChangeOwn(h, s, route)
    PROVE  UsersInv'
  <1>1. PICK found : found = Users!Found(s.name)
    OBVIOUS
  <1>2. PICK w : w = [step |-> "own", name |-> s.name, account |-> found, password |-> None,
                      body |-> route]
    OBVIOUS
  <1>3. /\ found # None /\ handlers' = [handlers EXCEPT ![h] = w]
        /\ UNCHANGED <<accounts, users, groups, sessions, passwords, halfway, twice, orphaned>>
    BY <1>1, <1>2 DEF Users!ChangeOwn, Users!Waits
  <1>4. s.name \in LoginNames \cup {Owner}
    BY DEF UsersInv, UserTypes, SessionRecord
  <1>5. Of(found, s.name)
    BY <1>1, <1>3, <1>4, FoundIsFirst DEF UsersInv
  <1>6. HandlerKnows(w)
    BY <1>2, <1>4, <1>5 DEF HandlerKnows
  <1> QED BY <1>3, <1>6, OnlyWaits, IdleWaitsFor DEF Users!ChangeOwn

\* A session is made.
LEMMA SessionIsMade ==
    ASSUME UsersInv, NEW h \in Handlers, NEW w, w = handlers[h], w.step \in {"verify", "samba"},
           sessions' = sessions \cup {Users!Session(w.name, w.account, w.password)},
           handlers' = [handlers EXCEPT ![h] = Users!Idle],
           UNCHANGED <<accounts, users, groups, passwords, halfway, twice, orphaned>>
    PROVE  UsersInv'
  <1> USE DEF UsersInv
  <1>0. HandlerKnows(w)
    BY DEF HandlersKnow
  <1>1. SameNames
    BY DEF SameNames
  <1>2. PICK made : made = Users!Session(w.name, w.account, w.password)
    OBVIOUS
  <1>3. /\ made.name = w.name /\ made.account = w.account /\ made.password = w.password
        /\ made.late = (w.account \notin users \cup {0} \/ accounts[w.account].password # w.password)
        /\ made = [name |-> made.name, account |-> made.account, password |-> made.password,
                   late |-> made.late]
    BY <1>2 DEF Users!Session
  <1>4. w.name \in LoginNames \cup {Owner} /\ Of(w.account, w.name) /\ w.password \in Nat
        /\ (w.account \in users => First(w.account, w.name))
    BY <1>0, UsersAre DEF HandlerKnows, Users!Steps
  <1>5. w.account \in Nat /\ First(0, w.name)
    BY <1>4 DEF Of, UserTypes, First
  <1>6. made \in SessionRecord
    BY <1>3, <1>4, <1>5 DEF SessionRecord
  <1>7. Stands(made)
    BY <1>3, <1>4, <1>5 DEF Stands, Current
  <1>8. UserTypes'
    BY <1>2, <1>6, UserTypesStay DEF UserTypes
  <1>9. HandlersKnow'
    BY <1>1, IdleKnows, HandlersStay
  <1>10. \A s \in sessions \cup {made} : Current(s) => Current(s)'
    BY ChangesStay DEF Current
  <1>11. \A s \in sessions \cup {made} : Stands(s) => Stands(s)'
    BY <1>10 DEF Stands, Of, First
  <1>12. SessionsStand'
    BY <1>2, <1>7, <1>11 DEF SessionsStand
  <1>13. Users!DirectoryIsSound'
    BY <1>1, DirectoryStays
  <1> QED BY <1>8, <1>9, <1>12, <1>13

LEMMA UsersVerified ==
    ASSUME UsersInv, NEW h \in Handlers, Users!Verified(h)
    PROVE  UsersInv'
  <1>1. PICK w : w = handlers[h]
    OBVIOUS
  <1>2. w.step = "verify" /\ UNCHANGED <<accounts, users, groups, passwords, halfway, twice, orphaned>>
    BY <1>1 DEF Users!Verified
  <1>3. CASE w.name = Owner
    <2>1. PICK v : v = [step |-> "samba", name |-> w.name, account |-> w.account,
                        password |-> w.password, body |-> None]
      OBVIOUS
    <2>2. handlers' = [handlers EXCEPT ![h] = v] /\ UNCHANGED sessions
      BY <1>1, <1>3, <2>1 DEF Users!Verified, Users!Waits
    <2>3. HandlerKnows(v)
      BY <1>1, <1>2, <1>3, <2>1 DEF UsersInv, HandlersKnow, HandlerKnows
    <2> QED BY <1>1, <1>2, <2>2, <2>3, OnlyWaits
  <1>4. CASE w.name # Owner
    <2>1. /\ sessions' = sessions \cup {Users!Session(w.name, w.account, w.password)}
          /\ handlers' = [handlers EXCEPT ![h] = Users!Idle]
      BY <1>1, <1>4 DEF Users!Verified, Users!Ends
    <2> QED BY <1>1, <1>2, <2>1, SessionIsMade
  <1> QED BY <1>3, <1>4

LEMMA UsersSynchronised ==
    ASSUME UsersInv, NEW h \in Handlers, Users!OwnerSynchronised(h)
    PROVE  UsersInv'
  <1>1. PICK w : w = handlers[h]
    OBVIOUS
  <1> QED BY <1>1, SessionIsMade DEF Users!OwnerSynchronised, Users!Ends

\* The groups of a user are set.
LEMMA GroupsAreSet ==
    ASSUME UserTypes, NEW name \in LoginNames, NEW chosen, groups' = Users!WithGroups(name, chosen)
    PROVE  /\ groups' \in [Groups -> {None} \cup SUBSET LoginNames]
           /\ \A g \in Groups : groups'[g] # None =>
                  groups[g] # None /\ groups'[g] \subseteq groups[g] \cup {name}
  <1>1. groups \in [Groups -> {None} \cup SUBSET LoginNames]
    BY DEF UserTypes
  <1>2. ASSUME NEW g \in Groups
        PROVE  \/ groups'[g] = groups[g]
               \/ groups[g] # None /\ groups'[g] = groups[g] \cup {name}
               \/ groups[g] # None /\ groups'[g] = groups[g] \ {name}
    BY <1>2 DEF Users!WithGroups
  <1>3. groups' = [g \in Groups |-> groups'[g]]
    BY DEF Users!WithGroups
  <1> QED BY <1>1, <1>2, <1>3

LEMMA UsersCompleted ==
    ASSUME UsersInv, NEW h \in Handlers, Users!Completed(h)
    PROVE  UsersInv'
  <1> USE DEF UsersInv
  <1>1. PICK w : w = handlers[h]
    OBVIOUS
  <1>2. /\ w.step = "folders" /\ groups' = Users!WithGroups(w.name, w.body)
        /\ handlers' = [handlers EXCEPT ![h] = Users!Idle]
        /\ UNCHANGED <<accounts, users, sessions, passwords, halfway, twice, orphaned>>
    BY <1>1 DEF Users!Completed, Users!Ends
  <1>3. w.name \in LoginNames /\ w.name \in Users!UserNames \cup orphaned
    BY <1>1, <1>2 DEF HandlersKnow, HandlerKnows
  <1>4. SameNames
    BY <1>2 DEF SameNames
  <1>5. /\ groups' \in [Groups -> {None} \cup SUBSET LoginNames]
        /\ \A g \in Groups : groups'[g] # None =>
               groups[g] # None /\ groups'[g] \subseteq groups[g] \cup {w.name}
    BY <1>2, <1>3, GroupsAreSet
  <1>6. UserTypes'
    BY <1>2, <1>5, UserTypesStay DEF UserTypes
  <1>7. HandlersKnow'
    BY <1>2, <1>4, IdleKnows, HandlersStay
  <1>8. \A s \in sessions : Current(s) => Current(s)'
    BY <1>1, <1>2, ChangesStay DEF Current
  <1>9. SessionsStand'
    BY <1>2, <1>4, <1>8, SessionsStay
  <1>10. Users!DirectoryIsSound'
    BY <1>2, <1>3, <1>4, <1>5, DirectoryStays
  <1> QED BY <1>6, <1>7, <1>9, <1>10

LEMMA UsersGroupUpdated ==
    ASSUME UsersInv, NEW h \in Handlers, Users!GroupUpdated(h)
    PROVE  UsersInv'
  <1> USE DEF UsersInv
  <1>1. PICK w : w = handlers[h]
    OBVIOUS
  <1>2. /\ w.step = "group" /\ sessions' \subseteq sessions
        /\ groups' = IF groups[w.account] = None THEN groups
                     ELSE [groups EXCEPT ![w.account] = w.body \cap Users!UserNames]
        /\ handlers' = [handlers EXCEPT ![h] = Users!Idle]
        /\ UNCHANGED <<accounts, users, passwords, halfway, twice, orphaned>>
    BY <1>1 DEF Users!GroupUpdated, Users!Ends
  <1>3. w.account \in Groups /\ w.body \in SUBSET LoginNames
    BY <1>1, <1>2 DEF HandlersKnow, HandlerKnows
  <1>4. SameNames
    BY <1>2 DEF SameNames
  <1>5. /\ groups' \in [Groups -> {None} \cup SUBSET LoginNames]
        /\ \A g \in Groups : groups'[g] = groups[g] \/ groups'[g] \subseteq Users!UserNames
    BY <1>2, <1>3 DEF UserTypes
  <1>6. UserTypes'
    BY <1>2, <1>5, UserTypesStay DEF UserTypes
  <1>7. HandlersKnow'
    BY <1>2, <1>4, IdleKnows, HandlersStay
  <1>8. \A s \in sessions : Current(s) => Current(s)'
    BY <1>1, <1>2, ChangesStay DEF Current
  <1>9. SessionsStand'
    BY <1>2, <1>4, <1>8, SessionsStay
  <1>10. Users!DirectoryIsSound'
    BY <1>2, <1>4, <1>5, DirectoryStays
  <1> QED BY <1>6, <1>7, <1>9, <1>10

\* A step that is no handler's, on groups and sessions.
LEMMA GroupsOnly ==
    ASSUME UsersInv, sessions' \subseteq sessions,
           groups' \in [Groups -> {None} \cup SUBSET LoginNames],
           \A g \in Groups : groups'[g] \in {groups[g], None} \/ groups'[g] \subseteq Users!UserNames,
           UNCHANGED <<accounts, users, passwords, handlers, halfway, twice, orphaned>>
    PROVE  UsersInv'
  <1> USE DEF UsersInv
  <1>1. SameNames
    BY DEF SameNames
  <1>2. UserTypes'
    BY DEF UserTypes
  <1>3. ASSUME NEW h \in Handlers PROVE HandlerKnows(handlers[h])'
    <2>1. PICK w : w = handlers[h]
      OBVIOUS
    <2>2. HandlerKnows(w)'
      BY <1>1, <2>1, KnowledgeStays DEF HandlersKnow
    <2> QED BY <2>1, <2>2
  <1>4. SessionsStand'
    BY <1>1, SessionsStay DEF Current, Users!Changing
  <1>5. Users!DirectoryIsSound'
    BY <1>1, DirectoryStays
  <1> QED BY <1>2, <1>3, <1>4, <1>5 DEF HandlersKnow

LEMMA UsersSignOut ==
    ASSUME UsersInv, NEW s \in sessions, Users!SignOut(s)
    PROVE  UsersInv'
  <1>1. /\ sessions' \subseteq sessions /\ groups' = groups
        /\ UNCHANGED <<accounts, users, passwords, handlers, halfway, twice, orphaned>>
    BY DEF Users!SignOut
  <1>2. groups' \in [Groups -> {None} \cup SUBSET LoginNames]
    BY <1>1 DEF UsersInv, UserTypes
  <1> QED BY <1>1, <1>2, GroupsOnly

LEMMA UsersCreateGroup ==
    ASSUME UsersInv, NEW g \in Groups, NEW members \in SUBSET LoginNames,
           Users!CreateGroup(g, members)
    PROVE  UsersInv'
  <1>1. /\ groups' = [groups EXCEPT ![g] = members \cap Users!UserNames]
        /\ sessions' \subseteq sessions
        /\ UNCHANGED <<accounts, users, passwords, handlers, halfway, twice, orphaned>>
    BY DEF Users!CreateGroup
  <1>2. /\ groups' \in [Groups -> {None} \cup SUBSET LoginNames]
        /\ \A i \in Groups : groups'[i] = groups[i] \/ groups'[i] \subseteq Users!UserNames
    BY <1>1 DEF UsersInv, UserTypes
  <1> QED BY <1>1, <1>2, GroupsOnly

LEMMA UsersDeleteGroup ==
    ASSUME UsersInv, NEW g \in Groups, Users!DeleteGroup(g)
    PROVE  UsersInv'
  <1>1. /\ groups' = [groups EXCEPT ![g] = None] /\ sessions' \subseteq sessions
        /\ UNCHANGED <<accounts, users, passwords, handlers, halfway, twice, orphaned>>
    BY DEF Users!DeleteGroup
  <1>2. /\ groups' \in [Groups -> {None} \cup SUBSET LoginNames]
        /\ \A i \in Groups : groups'[i] \in {groups[i], None}
    BY <1>1 DEF UsersInv, UserTypes
  <1> QED BY <1>1, <1>2, GroupsOnly

\* The end of a change of the owner's or user's own password: the sessions of the
\* account end, or the change is one that failed half way.
LEMMA OwnChangeEnds ==
    ASSUME UsersInv, NEW h \in Handlers, NEW w, w = handlers[h], w.step = "own saved",
           handlers' = [handlers EXCEPT ![h] = Users!Idle], sessions' \subseteq sessions,
           halfway \subseteq halfway',
           w.account \in halfway' \/ \A s \in sessions' : s.name # w.name,
           UNCHANGED <<accounts, users, groups, passwords, twice, orphaned>>
    PROVE  UsersInv'
  <1> USE DEF UsersInv
  <1>1. SameNames
    BY DEF SameNames
  <1>2. Of(w.account, w.name)
    BY DEF HandlersKnow, HandlerKnows
  <1>3. UserTypes'
    BY UserTypesStay DEF UserTypes
  <1>4. HandlersKnow'
    BY <1>1, IdleKnows, HandlersStay
  <1>5. ASSUME NEW s \in sessions', Current(s) PROVE Current(s)'
    <2>1. CASE s.account = w.account
      <3>1. s.name = w.name
        BY <1>2, <2>1 DEF SessionsStand, Stands, Of
      <3> QED BY <2>1, <3>1 DEF Current
    <2>2. CASE s.account # w.account
      BY <1>5, <2>2, ChangesStay DEF Current
    <2> QED BY <2>1, <2>2
  <1>6. SessionsStand'
    BY <1>1, <1>5, SessionsStay
  <1>7. Users!DirectoryIsSound'
    BY <1>1, DirectoryStays
  <1> QED BY <1>3, <1>4, <1>6, <1>7

LEMMA UsersOwnSaved ==
    ASSUME UsersInv, NEW h \in Handlers, Users!OwnSaved(h)
    PROVE  UsersInv'
  <1>1. PICK w : w = handlers[h]
    OBVIOUS
  <1>2. /\ w.step = "own saved" /\ handlers' = [handlers EXCEPT ![h] = Users!Idle]
        /\ sessions' \subseteq sessions /\ \A s \in sessions' : s.name # w.name
        /\ UNCHANGED <<accounts, users, groups, passwords, halfway, twice, orphaned>>
    BY <1>1 DEF Users!OwnSaved, Users!Ends, Users!Cleared
  <1> QED BY <1>1, <1>2, OwnChangeEnds

LEMMA UsersOwnRejected ==
    ASSUME UsersInv, NEW h \in Handlers, Users!OwnRejected(h)
    PROVE  UsersInv'
  <1>1. PICK w : w = handlers[h]
    OBVIOUS
  <1>2. /\ w.step = "own saved" /\ handlers' = [handlers EXCEPT ![h] = Users!Idle]
        /\ halfway' = halfway \cup {w.account}
        /\ UNCHANGED <<accounts, users, groups, sessions, passwords, twice, orphaned>>
    BY <1>1 DEF Users!OwnRejected, Users!Ends
  <1> QED BY <1>1, <1>2, OwnChangeEnds

\* An account changes, but not its name: its sessions end, or are excused.
LEMMA AccountChanges ==
    ASSUME UsersInv, NEW a \in DOMAIN accounts, NEW h \in Handlers, NEW w,
           handlers' = [handlers EXCEPT ![h] = w], HandlerKnows(w),
           handlers[h].step # "own saved", NEW new \in Account,
           new.name = accounts[a].name, accounts' = [accounts EXCEPT ![a] = new],
           groups' \in [Groups -> {None} \cup SUBSET LoginNames],
           \A g \in Groups : groups'[g] # None =>
               groups[g] # None /\ groups'[g] \subseteq groups[g] \cup Users!UserNames \cup orphaned,
           passwords' \in Nat, sessions' \subseteq sessions,
           \A s \in sessions' : s.account # a /\ s.account \in halfway => s.account \in halfway',
           \A s \in sessions' : s.account = a /\ Current(s) => Current(s)',
           UNCHANGED <<users, twice, orphaned>>
    PROVE  UsersInv'
  <1> USE DEF UsersInv
  <1>1. /\ DOMAIN accounts' = DOMAIN accounts
        /\ \A b \in DOMAIN accounts : b # a => accounts'[b] = accounts[b]
        /\ accounts'[a] = new
    BY DEF UserTypes
  <1>2. SameNames
    BY <1>1 DEF SameNames
  <1>3. handlers' = [i \in Handlers |-> handlers'[i]]
    BY DEF UserTypes
  <1>4. accounts' \in [DOMAIN accounts' -> Account]
    BY DEF UserTypes
  <1>5. UserTypes'
    <2>1. (\E n \in Nat : DOMAIN accounts = 0 .. n)'
      BY <1>1 DEF UserTypes
    <2>2. 0 \in DOMAIN accounts
      BY OwnerIsThere
    <2>3. /\ accounts'[0].name = Owner
          /\ \A b \in DOMAIN accounts' : b # 0 => accounts'[b].name \in LoginNames
      BY <1>2, <2>2 DEF UserTypes, SameNames
    <2>4. users' \subseteq DOMAIN accounts' \ {0} /\ sessions' \subseteq SessionRecord
      BY <1>1 DEF UserTypes
    <2> QED BY <1>3, <1>4, <2>1, <2>3, <2>4 DEF UserTypes
  <1>6. HandlersKnow'
    BY <1>2, HandlersStay
  <1>7. ASSUME NEW s \in sessions', Current(s) PROVE Current(s)'
    <2>1. s.account \in DOMAIN accounts
      BY DEF SessionsStand, Stands, Of
    <2>2. CASE s.account = a
      BY <1>7, <2>2
    <2>3. CASE s.account # a
      BY <1>1, <1>7, <2>1, <2>3, ChangesStay DEF Current
    <2> QED BY <2>2, <2>3
  <1>8. SessionsStand'
    BY <1>2, <1>7, SessionsStay
  <1>9. Users!DirectoryIsSound'
    BY <1>2, DirectoryStays
  <1> QED BY <1>5, <1>6, <1>8, <1>9

\* A session of an account is one of its name.
LEMMA SessionsOfAccount ==
    ASSUME UsersInv, NEW s \in sessions, NEW name, Of(s.account, name)
    PROVE  s.name = name
  BY DEF UsersInv, SessionsStand, Stands, Of

\* What a request that updates a user does last.
LEMMA Finished ==
    ASSUME UsersInv, NEW h \in Handlers, NEW name \in LoginNames, NEW body \in Updates,
           name \in Users!UserNames \cup orphaned, Users!Finish(h, name, body)
    PROVE  /\ handlers' = [handlers EXCEPT ![h] = Users!Idle]
           /\ groups' \in [Groups -> {None} \cup SUBSET LoginNames]
           /\ \A g \in Groups : groups'[g] # None =>
                  groups[g] # None /\ groups'[g] \subseteq groups[g] \cup Users!UserNames \cup orphaned
           /\ sessions' \subseteq sessions
           /\ ~body.refused => \A s \in sessions' : s.name # name
           /\ body.refused => UNCHANGED sessions
  <1> USE DEF UsersInv
  <1>1. CASE body.refused
    BY <1>1 DEF Users!Finish, Users!Ends, UserTypes
  <1>2. CASE ~body.refused
    <2>1. /\ groups' = Users!WithGroups(name, body.groups) /\ sessions' = Users!Cleared(name)
          /\ handlers' = [handlers EXCEPT ![h] = Users!Idle]
      BY <1>2 DEF Users!Finish, Users!Ends
    <2>2. /\ groups' \in [Groups -> {None} \cup SUBSET LoginNames]
          /\ \A g \in Groups : groups'[g] # None =>
                 groups[g] # None /\ groups'[g] \subseteq groups[g] \cup {name}
      BY <2>1, GroupsAreSet
    <2> QED BY <1>2, <2>1, <2>2 DEF Users!Cleared
  <1> QED BY <1>1, <1>2

LEMMA UsersUpdateVerified ==
    ASSUME UsersInv, NEW h \in Handlers, Users!UpdateVerified(h)
    PROVE  UsersInv'
  <1> USE DEF UsersInv
  <1>1. PICK w : w = handlers[h]
    OBVIOUS
  <1>2. /\ w.step = "update"
        /\ accounts' = IF w.body.disabled = None THEN accounts
                       ELSE [accounts EXCEPT ![w.account].disabled = w.body.disabled]
        /\ UNCHANGED <<users, passwords, halfway, twice, orphaned>>
    BY <1>1 DEF Users!UpdateVerified
  <1>3. /\ w.name \in LoginNames /\ Of(w.account, w.name) /\ w.body \in Updates
        /\ w.name \in Users!UserNames \cup orphaned
    BY <1>1, <1>2 DEF HandlersKnow, HandlerKnows
  <1>4. PICK a : a = w.account
    OBVIOUS
  <1>5. PICK old \in Account : old = accounts[a]
    BY <1>3, <1>4 DEF Of, UserTypes
  <1>6. PICK new : new = [name |-> old.name, password |-> old.password,
                          disabled |-> IF w.body.disabled = None THEN old.disabled ELSE w.body.disabled]
    OBVIOUS
  <1>7. w.body.disabled \in BOOLEAN \cup {None}
    BY <1>3, UsersAre
  <1>8. new \in Account /\ new.name = accounts[a].name /\ new.password = accounts[a].password
    BY <1>5, <1>6, <1>7 DEF Account
  <1>9. accounts' = [accounts EXCEPT ![a] = new]
    <2>1. accounts = [b \in DOMAIN accounts |-> accounts[b]] /\ a \in DOMAIN accounts
      BY <1>3, <1>4 DEF UserTypes, Of
    <2>2. CASE w.body.disabled = None
      <3>1. new = old
        BY <1>5, <1>6, <2>2 DEF Account
      <3> QED BY <1>2, <1>5, <2>1, <2>2, <3>1
    <2>3. CASE w.body.disabled # None
      <3>1. [old EXCEPT !.disabled = w.body.disabled] = new
        BY <1>5, <1>6, <2>3 DEF Account
      <3>2. accounts' = [accounts EXCEPT ![a] = [old EXCEPT !.disabled = w.body.disabled]]
        BY <1>2, <1>4, <1>5, <2>1, <2>3
      <3> QED BY <3>1, <3>2
    <2> QED BY <2>2, <2>3
  <1>10. \A s \in sessions : s.account = a /\ Current(s) => s.password = accounts'[a].password
                                \/ Users!Changing(a) \/ a \in halfway
    BY <1>3, <1>4, <1>8, <1>9 DEF Current, Of
  <1>11. CASE w.body.password
    <2>1. PICK v : v = [step |-> "hash", name |-> w.name, account |-> a, password |-> None,
                        body |-> w.body]
      OBVIOUS
    <2>2. handlers' = [handlers EXCEPT ![h] = v] /\ UNCHANGED <<groups, sessions>>
      BY <1>1, <1>4, <1>11, <2>1 DEF Users!UpdateVerified, Users!Waits
    <2>3. HandlerKnows(v)
      BY <1>3, <1>4, <2>1 DEF HandlerKnows
    <2>4. \A s \in sessions' : s.account = a /\ Current(s) => Current(s)'
      BY <1>1, <1>2, <1>10, <2>2, ChangesStay DEF Current
    <2>5. /\ groups' \in [Groups -> {None} \cup SUBSET LoginNames] /\ passwords' \in Nat
          /\ a \in DOMAIN accounts
      BY <1>2, <1>3, <1>4, <2>2 DEF UserTypes, Of
    <2> QED BY <1>1, <1>2, <1>8, <1>9, <2>2, <2>3, <2>4, <2>5, AccountChanges
  <1>12. CASE ~w.body.password
    <2>1. Users!Finish(h, w.name, w.body)
      BY <1>1, <1>12 DEF Users!UpdateVerified
    <2>2. /\ handlers' = [handlers EXCEPT ![h] = Users!Idle]
          /\ groups' \in [Groups -> {None} \cup SUBSET LoginNames]
          /\ \A g \in Groups : groups'[g] # None =>
                 groups[g] # None /\ groups'[g] \subseteq groups[g] \cup Users!UserNames \cup orphaned
          /\ sessions' \subseteq sessions
      BY <1>3, <2>1, Finished
    <2>3. \A s \in sessions' : s.account = a /\ Current(s) => Current(s)'
      BY <1>1, <1>2, <1>10, <2>2, ChangesStay DEF Current
    <2>4. passwords' \in Nat /\ a \in DOMAIN accounts
      BY <1>2, <1>3, <1>4 DEF UserTypes, Of
    <2> QED BY <1>1, <1>2, <1>8, <1>9, <2>2, <2>3, <2>4, IdleKnows, AccountChanges
  <1> QED BY <1>11, <1>12

\* A new password of an account.
LEMMA PasswordChanged ==
    ASSUME UsersInv, NEW a \in DOMAIN accounts, NEW n \in Nat,
           accounts' = [accounts EXCEPT ![a].password = n]
    PROVE  \E new \in Account : /\ new.name = accounts[a].name
                                /\ accounts' = [accounts EXCEPT ![a] = new]
  <1>1. PICK old \in Account : old = accounts[a]
    BY DEF UsersInv, UserTypes
  <1>2. PICK new : new = [name |-> old.name, password |-> n, disabled |-> old.disabled]
    OBVIOUS
  <1>3. new \in Account /\ new.name = accounts[a].name
    BY <1>1, <1>2 DEF Account
  <1>4. [old EXCEPT !.password = n] = new
    BY <1>1, <1>2 DEF Account
  <1>5. accounts' = [accounts EXCEPT ![a] = [old EXCEPT !.password = n]]
    BY <1>1
  <1> QED BY <1>3, <1>4, <1>5

LEMMA UsersUpdateHashed ==
    ASSUME UsersInv, NEW h \in Handlers, Users!UpdateHashed(h)
    PROVE  UsersInv'
  <1> USE DEF UsersInv
  <1>1. PICK w : w = handlers[h]
    OBVIOUS
  <1>2. PICK a, n : a = w.account /\ n = passwords + 1
    OBVIOUS
  <1>3. /\ w.step = "hash" /\ passwords' = n /\ accounts' = [accounts EXCEPT ![a].password = n]
        /\ halfway' = IF w.body.refused THEN halfway \cup {a} ELSE halfway \ {a}
        /\ Users!Finish(h, w.name, w.body) /\ UNCHANGED <<users, twice, orphaned>>
    BY <1>1, <1>2 DEF Users!UpdateHashed
  <1>4. /\ w.name \in LoginNames /\ Of(a, w.name) /\ w.body \in Updates
        /\ w.name \in Users!UserNames \cup orphaned
    BY <1>1, <1>2, <1>3 DEF HandlersKnow, HandlerKnows
  <1>5. n \in Nat /\ a \in DOMAIN accounts
    BY <1>2, <1>4 DEF UserTypes, Of
  <1>6. PICK new \in Account : /\ new.name = accounts[a].name
                               /\ accounts' = [accounts EXCEPT ![a] = new]
    BY <1>3, <1>5, PasswordChanged
  <1>7. /\ handlers' = [handlers EXCEPT ![h] = Users!Idle]
        /\ groups' \in [Groups -> {None} \cup SUBSET LoginNames]
        /\ \A g \in Groups : groups'[g] # None =>
               groups[g] # None /\ groups'[g] \subseteq groups[g] \cup Users!UserNames \cup orphaned
        /\ sessions' \subseteq sessions
        /\ ~w.body.refused => \A s \in sessions' : s.name # w.name
    BY <1>3, <1>4, Finished
  <1>8. \A s \in sessions' : s.account = a => s.name = w.name
    BY <1>4, <1>7, SessionsOfAccount
  <1>9. \A s \in sessions' : s.account = a => Current(s)'
    BY <1>3, <1>7, <1>8 DEF Current
  <1>10. \A s \in sessions' : s.account # a /\ s.account \in halfway => s.account \in halfway'
    BY <1>3
  <1>11. handlers[h].step # "own saved" /\ passwords' \in Nat
    BY <1>1, <1>3, <1>5
  <1> QED BY <1>3, <1>5, <1>6, <1>7, <1>9, <1>10, <1>11, IdleKnows, AccountChanges

LEMMA UsersOwnHashed ==
    ASSUME UsersInv, NEW h \in Handlers, Users!OwnHashed(h)
    PROVE  UsersInv'
  <1> USE DEF UsersInv
  <1>1. PICK w : w = handlers[h]
    OBVIOUS
  <1>2. PICK a, n : a = w.account /\ n = passwords + 1
    OBVIOUS
  <1>3. PICK v : v = [step |-> "own saved", name |-> w.name, account |-> a, password |-> None,
                      body |-> w.body]
    OBVIOUS
  <1>4. /\ w.step = "own" /\ passwords' = n /\ accounts' = [accounts EXCEPT ![a].password = n]
        /\ halfway' = halfway \ {a} /\ handlers' = [handlers EXCEPT ![h] = v]
        /\ UNCHANGED <<users, groups, sessions, twice, orphaned>>
    BY <1>1, <1>2, <1>3 DEF Users!OwnHashed, Users!Waits
  <1>5. Of(a, w.name) /\ w.name \in LoginNames \cup {Owner}
    BY <1>1, <1>2, <1>4, UsersAre DEF HandlersKnow, HandlerKnows, Users!Steps
  <1>6. n \in Nat /\ a \in DOMAIN accounts
    BY <1>2, <1>5 DEF UserTypes, Of
  <1>7. PICK new \in Account : /\ new.name = accounts[a].name
                               /\ accounts' = [accounts EXCEPT ![a] = new]
    BY <1>4, <1>6, PasswordChanged
  <1>8. HandlerKnows(v)
    BY <1>3, <1>5 DEF HandlerKnows
  <1>9. handlers'[h] = v
    BY <1>4 DEF UserTypes
  <1>10. \A s \in sessions' : s.account = a => Current(s)'
    <2>1. v.step = "own saved" /\ v.account = a
      BY <1>3
    <2>2. Users!Changing(a)'
      BY <1>9, <2>1 DEF Users!Changing
    <2> QED BY <2>2 DEF Current
  <1>11. \A s \in sessions' : s.account # a /\ s.account \in halfway => s.account \in halfway'
    BY <1>4
  <1>12. /\ handlers[h].step # "own saved" /\ passwords' \in Nat
         /\ groups' \in [Groups -> {None} \cup SUBSET LoginNames]
    BY <1>1, <1>4, <1>6 DEF UserTypes
  <1> QED BY <1>4, <1>6, <1>7, <1>8, <1>10, <1>11, <1>12, AccountChanges

\* The accounts are numbered in the order of their creation.
LEMMA NextAccount ==
    ASSUME UserTypes
    PROVE  /\ Users!Cardinality(DOMAIN accounts) \in Nat \ DOMAIN accounts
           /\ \A a \in DOMAIN accounts : a \in Nat /\ a < Users!Cardinality(DOMAIN accounts)
           /\ \E n \in Nat : DOMAIN accounts \cup {Users!Cardinality(DOMAIN accounts)} = 0 .. n
  <1>1. PICK n \in Nat : DOMAIN accounts = 0 .. n
    BY DEF UserTypes
  <1>2. Cardinality(0 .. n) = n + 1
    BY FS_Interval
  <1>3. Users!Cardinality(0 .. n) = Cardinality(0 .. n)
    BY Zenon DEF Users!Cardinality, Cardinality
  <1>4. Users!Cardinality(DOMAIN accounts) = n + 1
    BY <1>1, <1>2, <1>3
  <1>5. 0 .. n \cup {n + 1} = 0 .. (n + 1) /\ n + 1 \in Nat
    OBVIOUS
  <1> QED BY <1>1, <1>4, <1>5

LEMMA UsersCreated ==
    ASSUME UsersInv, NEW h \in Handlers, Users!Created(h)
    PROVE  UsersInv'
  <1> USE DEF UsersInv
  <1>1. PICK w : w = handlers[h]
    OBVIOUS
  <1>2. PICK a, n : a = Users!Cardinality(DOMAIN accounts) /\ n = passwords + 1
    OBVIOUS
  <1>3. PICK new : new = [name |-> w.name, password |-> n, disabled |-> FALSE]
    OBVIOUS
  <1>4. PICK v : v = [step |-> "folders", name |-> w.name, account |-> a, password |-> None,
                      body |-> w.body]
    OBVIOUS
  <1>5. /\ w.step = "new" /\ passwords' = n /\ users' = users \cup {a}
        /\ accounts' = [b \in DOMAIN accounts \cup {a} |-> IF b = a THEN new ELSE accounts[b]]
        /\ twice' = IF w.name \in Users!UserNames THEN twice \cup {w.name} ELSE twice
        /\ handlers' = [handlers EXCEPT ![h] = v]
        /\ UNCHANGED <<groups, sessions, halfway, orphaned>>
    BY <1>1, <1>2, <1>3, <1>4 DEF Users!Created, Users!Waits
  <1>6. w.name \in LoginNames
    BY <1>1, <1>5 DEF HandlersKnow, HandlerKnows
  <1>7. /\ a \in Nat \ DOMAIN accounts /\ \A b \in DOMAIN accounts : b \in Nat /\ b < a
        /\ \E m \in Nat : DOMAIN accounts \cup {a} = 0 .. m
    BY <1>2, NextAccount
  <1>8. n \in Nat /\ new \in Account /\ new.name = w.name
    BY <1>2, <1>3, <1>6 DEF Account, UserTypes
  <1>9. /\ DOMAIN accounts' = DOMAIN accounts \cup {a} /\ accounts'[a] = new
        /\ \A b \in DOMAIN accounts : accounts'[b] = accounts[b]
    BY <1>5, <1>7
  <1>10. UserTypes'
    <2>1. /\ accounts' \in [DOMAIN accounts' -> Account] /\ (\E m \in Nat : DOMAIN accounts = 0 .. m)'
      BY <1>5, <1>7, <1>8, <1>9 DEF UserTypes
    <2>2. 0 \in DOMAIN accounts /\ a # 0
      BY <1>7 DEF UserTypes
    <2>3. /\ accounts'[0].name = Owner
          /\ \A b \in DOMAIN accounts' : b # 0 => accounts'[b].name \in LoginNames
      BY <1>6, <1>8, <1>9, <2>2 DEF UserTypes
    <2>4. users' \subseteq DOMAIN accounts' \ {0}
      BY <1>5, <1>9, <2>2 DEF UserTypes
    <2>5. handlers' = [i \in Handlers |-> handlers'[i]]
      BY <1>5 DEF UserTypes
    <2> QED BY <1>5, <1>8, <2>1, <2>3, <2>4, <2>5 DEF UserTypes
  <1>11. \A b, name : Of(b, name) => Of(b, name)'
    BY <1>9 DEF Of
  <1>12. \A b, name : Of(b, name) /\ First(b, name) => First(b, name)'
    BY <1>5, <1>7, <1>9 DEF Of, First, UserTypes
  <1>13. Users!UserNames' = Users!UserNames \cup {w.name}
    <2>1. users \subseteq DOMAIN accounts
      BY DEF UserTypes
    <2>2. \A b \in users : accounts'[b].name = accounts[b].name
      BY <1>9, <2>1
    <2>3. accounts'[a].name = w.name
      BY <1>8, <1>9
    <2> QED BY <1>5, <2>2, <2>3 DEF Users!UserNames
  <1>14. ASSUME NEW r, HandlerKnows(r) PROVE HandlerKnows(r)'
    <2>1. r.step \in {"verify", "samba"} /\ r.account \in users' => r.account \in users
      BY <1>5, <1>7, <1>14 DEF HandlerKnows, Of
    <2> QED BY <1>5, <1>11, <1>12, <1>13, <1>14, <2>1 DEF HandlerKnows
  <1>15. HandlerKnows(v)'
    BY <1>4, <1>6, <1>13 DEF HandlerKnows
  <1>16. HandlersKnow'
    <2>1. ASSUME NEW i \in Handlers PROVE HandlerKnows(handlers[i])'
      <3>1. PICK r : r = handlers'[i]
        OBVIOUS
      <3>2. HandlerKnows(r)'
        BY <1>5, <1>14, <1>15, <3>1 DEF UserTypes, HandlersKnow
      <3> QED BY <3>1, <3>2
    <2> QED BY <2>1 DEF HandlersKnow
  <1>17. \A b : Users!Changing(b) => Users!Changing(b)'
    BY <1>1, <1>5, ChangesStay
  <1>18. SessionsStand'
    <2>1. ASSUME NEW s \in sessions PROVE Stands(s)'
      <3>1. Stands(s) /\ s.account \in DOMAIN accounts
        BY DEF SessionsStand, Stands, Of
      <3>2. Current(s) => Current(s)'
        BY <1>5, <1>9, <1>17, <3>1 DEF Current
      <3> QED BY <1>5, <1>11, <1>12, <3>1, <3>2 DEF Stands
    <2> QED BY <1>5, <2>1 DEF SessionsStand
  <1>19. Users!DirectoryIsSound'
    <2>1. ASSUME NEW b \in users', NEW c \in users', accounts'[b].name = accounts'[c].name, b # c
          PROVE  accounts'[b].name \in twice'
      <3>1. CASE b \in users /\ c \in users
        BY <1>5, <1>9, <2>1, <3>1 DEF UserTypes, Users!DirectoryIsSound
      <3>2. CASE b = a \/ c = a
        <4>1. w.name \in Users!UserNames /\ accounts'[b].name = w.name
          BY <1>5, <1>8, <1>9, <2>1, <3>2 DEF UserTypes, Users!UserNames
        <4> QED BY <1>5, <4>1
      <3> QED BY <1>5, <3>1, <3>2
    <2>2. \A g \in Groups : groups'[g] # None => groups'[g] \subseteq Users!UserNames' \cup orphaned'
      BY <1>5, <1>13 DEF Users!DirectoryIsSound
    <2> QED BY <2>1, <2>2 DEF Users!DirectoryIsSound
  <1> QED BY <1>10, <1>16, <1>18, <1>19

\* A user is deleted: the name keeps no session, and no place in a group.
LEMMA UsersDelete ==
    ASSUME UsersInv, NEW name \in LoginNames, Users!Delete(name)
    PROVE  UsersInv'
  <1> USE DEF UsersInv
  <1>1. PICK a : a = Users!Found(name)
    OBVIOUS
  <1>2. /\ a # None /\ users' = users \ {a}
        /\ groups' = [g \in Groups |-> IF groups[g] = None THEN None ELSE groups[g] \ {name}]
        /\ sessions' = {s \in sessions : s.name # name} /\ orphaned' = Users!Orphaned(name)
        /\ UNCHANGED <<accounts, passwords, handlers, halfway, twice>>
    BY <1>1 DEF Users!Delete, Users!Cleared
  <1>3. Of(a, name) /\ a \in users
    BY <1>1, <1>2, FoundIsFirst
  <1>4. orphaned \subseteq orphaned'
    BY <1>2 DEF Users!Orphaned
  <1>5. Users!UserNames \subseteq Users!UserNames' \cup {name}
    BY <1>2, <1>3 DEF Users!UserNames, Of
  <1>6. UserTypes'
    <2>1. groups' \in [Groups -> {None} \cup SUBSET LoginNames]
      BY <1>2 DEF UserTypes
    <2> QED BY <1>2, <2>1 DEF UserTypes
  <1>7. \A b, n : /\ Of(b, n) => Of(b, n)'
                  /\ First(b, n) => First(b, n)'
    BY <1>2 DEF Of, First
  <1>8. HandlersKnow'
    <2>1. ASSUME NEW h \in Handlers PROVE HandlerKnows(handlers[h])'
      <3>1. PICK w : w = handlers[h]
        OBVIOUS
      <3>2. HandlerKnows(w) /\ handlers'[h] = w
        BY <1>2, <3>1 DEF HandlersKnow
      <3>3. w.step \in {"folders", "update", "hash"} /\ w.name = name => name \in orphaned'
        BY <1>2, <3>1 DEF Users!Orphaned
      <3>4. w.account \in users' => w.account \in users
        BY <1>2
      <3>5. w.step \in {"folders", "update", "hash"} => w.name \in Users!UserNames' \cup orphaned'
        BY <1>4, <1>5, <3>2, <3>3 DEF HandlerKnows
      <3>6. HandlerKnows(w)'
        BY <1>2, <1>7, <3>2, <3>4, <3>5 DEF HandlerKnows
      <3> QED BY <3>1, <3>2, <3>6
    <2> QED BY <2>1 DEF HandlersKnow
  <1>9. SessionsStand'
    <2>1. ASSUME NEW s \in sessions' PROVE Stands(s)'
      <3>1. Stands(s) /\ s.name # name
        BY <1>2 DEF SessionsStand
      <3>2. s.account # a
        BY <1>3, <3>1 DEF Stands, Of
      <3>3. Current(s) => Current(s)'
        BY <1>2 DEF Current, Users!Changing
      <3> QED BY <1>2, <1>7, <3>1, <3>2, <3>3 DEF Stands
    <2> QED BY <2>1 DEF SessionsStand
  <1>10. Users!DirectoryIsSound'
    <2>1. \A b, c \in users' : accounts'[b].name = accounts'[c].name =>
              b = c \/ accounts'[b].name \in twice'
      BY <1>2 DEF Users!DirectoryIsSound
    <2>2. \A g \in Groups : groups'[g] # None => groups'[g] \subseteq Users!UserNames' \cup orphaned'
      BY <1>2, <1>4, <1>5 DEF Users!DirectoryIsSound
    <2> QED BY <2>1, <2>2 DEF Users!DirectoryIsSound
  <1> QED BY <1>6, <1>8, <1>9, <1>10

LEMMA UsersFirst == ASSUME Users!Init PROVE UsersInv
  <1>1. DOMAIN accounts = 0 .. 0 /\ accounts[0] = [name |-> Owner, password |-> 0, disabled |-> FALSE]
    <2>1. 0 .. 0 = {0}
      OBVIOUS
    <2> QED BY <2>1 DEF Users!Init
  <1>2. accounts = [a \in DOMAIN accounts |-> accounts[a]]
    BY DEF Users!Init
  <1>3. UserTypes
    BY <1>1, <1>2 DEF Users!Init, UserTypes, Account
  <1>4. HandlersKnow
    BY IdleKnows DEF Users!Init, HandlersKnow
  <1> QED BY <1>3, <1>4 DEF Users!Init, UsersInv, SessionsStand, Users!DirectoryIsSound

LEMMA UserSteps == ASSUME UsersInv, Users!Next PROVE UsersInv'
  <1>1. ASSUME NEW h \in Handlers, Users!Handle(h) PROVE UsersInv'
    BY <1>1, UsersSignIn, UsersCreate, UsersUpdate, UsersUpdateGroup, UsersChangeOwn,
       UsersVerified, UsersSynchronised, UsersCreated, UsersCompleted, UsersUpdateVerified,
       UsersUpdateHashed, UsersGroupUpdated, UsersOwnHashed, UsersOwnSaved, UsersOwnRejected
       DEF Users!Handle
  <1> QED BY <1>1, UsersDelete, UsersDeleteGroup, UsersCreateGroup, UsersSignOut DEF Users!Next

LEMMA OldOnesEnd == ASSUME UsersInv PROVE Users!OldSessionsEnd
  <1>1. ASSUME NEW s \in sessions, ~s.late
        PROVE  Users!Found(s.name) = s.account /\ Current(s)
    BY <1>1, FirstIsFound DEF UsersInv, SessionsStand, Stands
  <1> QED BY <1>1 DEF Users!OldSessionsEnd, Current

InUsers == part = "users"

LEMMA UsersStep == ASSUME UsersInv, [Next]_vars, part = "users" PROVE UsersInv'
  <1>1. CASE Users!Next
    BY <1>1, UserSteps
  <1>2. CASE UNCHANGED Users!vars
    <2>1. UNCHANGED <<accounts, users, groups, sessions, passwords, handlers, halfway, twice, orphaned>>
      BY <1>2 DEF Users!vars
    <2>2. groups' \in [Groups -> {None} \cup SUBSET LoginNames]
      BY <2>1 DEF UsersInv, UserTypes
    <2> QED BY <2>1, <2>2, GroupsOnly
  <1> QED BY <1>1, <1>2, UsersRun

\* When a user is deleted or a password changed, the sessions from before end,
\* whatever the requests that were under way (Sessions.clear, src/server.mjs).
THEOREM OldSessionsDoEnd == Spec => []OldSessionsEnd
  <1>1. Init => (InUsers => UsersInv)
    BY UsersBegin, UsersFirst DEF InUsers
  <1>2. (InUsers => UsersInv) /\ [Next]_vars => (InUsers => UsersInv)'
    BY UsersStep, PartStays DEF InUsers
  <1>3. (InUsers => UsersInv) => OldSessionsEnd
    BY OldOnesEnd DEF OldSessionsEnd, InUsers
  <1> QED BY <1>1, <1>2, <1>3, PTL DEF Spec

\* A name stands for one account, and the members of groups are users, but for
\* creations of one name that overlapped and deletions under a request that sets
\* groups (POST and DELETE /api/users, src/server.mjs).
THEOREM DirectoryStaysSound == Spec => []DirectoryIsSound
  <1>1. Init => (InUsers => UsersInv)
    BY UsersBegin, UsersFirst DEF InUsers
  <1>2. (InUsers => UsersInv) /\ [Next]_vars => (InUsers => UsersInv)'
    BY UsersStep, PartStays DEF InUsers
  <1>3. (InUsers => UsersInv) => DirectoryIsSound
    BY DEF DirectoryIsSound, InUsers, UsersInv
  <1> QED BY <1>1, <1>2, <1>3, PTL DEF Spec

-----------------------------------------------------------------------------
(* Virtual machines *)

LEMMA MachinesRun ==
    ASSUME [Next]_vars, part' = "machines"
    PROVE  Hypervisor!Next \/ UNCHANGED <<requestVars, machinesOwn, failures, changes>>
  BY DEF Next, vars

LEMMA MachinesBegin == ASSUME Init, part = "machines" PROVE Hypervisor!Init
  BY DEF Init

Asks == [step : {None} \cup Hypervisor!Steps, name : {None} \cup Machines, id : {None} \cup Nat,
         again : BOOLEAN, on : BOOLEAN, devices : SUBSET Devices]

MachineTypes ==
    /\ domains \in [Machines -> {None} \cup Hypervisor!Domains]
    /\ files \in [Machines -> {None} \cup Nat]
    /\ requests \in [Requests -> Asks]
    /\ created \in Nat

\* A request that has run virt-install and is not yet answered, or cleaned up.
Making(r) == requests[r].step \in {"installing", "undefine", "remove", "created"}

\* What a request has found, or made, is still there: requests about one name wait for
\* each other.
Request(r) ==
    /\ (requests[r].step = None) <=> (requests[r].name = None)
    /\ (operation = r) <=> (requests[r].step = "installing")
    /\ Making(r) => (requests[r].id \in 1..created /\ requests[r].id \notin answered)
    /\ requests[r].step \in {"ready", "installing"} =>
          (domains[requests[r].name] = None /\ files[requests[r].name] = None)
    /\ requests[r].step \in {"created", "define", "destroy", "start", "attach"} =>
          (/\ domains[requests[r].name] # None
           /\ domains[requests[r].name].id = requests[r].id)
    /\ requests[r].step \in {"created", "undefine", "remove"} =>
          files[requests[r].name] = requests[r].id
    /\ requests[r].step = "undefine" =>
          (domains[requests[r].name] # None => domains[requests[r].name].id = requests[r].id)
    /\ requests[r].step = "remove" => domains[requests[r].name] = None
    /\ requests[r].step = "define" => requests[r].devices = domains[requests[r].name].devices

\* A machine of which nothing was answered is that of a request under way; the directory
\* has its disk, and none when there is no machine.
Machine(n) ==
    /\ domains[n] # None =>
          (/\ domains[n].disk = n /\ domains[n].id \in 1..created
           /\ \/ domains[n].id \in answered
              \/ \E r \in Requests : /\ requests[r].name = n /\ requests[r].id = domains[n].id
                                     /\ requests[r].step \in {"created", "undefine"})
    /\ (\A r \in Requests : requests[r].name = n => requests[r].step \notin {"undefine", "remove"}) =>
          files[n] = (IF domains[n] = None THEN None ELSE domains[n].id)

MachineInv ==
    /\ MachineTypes
    /\ \A r \in Requests : Request(r)
    /\ \A r, q \in Requests :
          (requests[r].name = requests[q].name /\ requests[r].name # None) => r = q
    /\ \A r, q \in Requests :
          (Making(r) /\ Making(q) /\ requests[r].id = requests[q].id) => r = q
    /\ \A n \in Machines : Machine(n)
    /\ \A m, n \in Machines :
          (domains[m] # None /\ domains[n] # None /\ domains[m].id = domains[n].id) => m = n
    /\ answered \subseteq 1..created
    /\ \A id \in answered \ deleted : \E n \in Machines : domains[n] # None /\ domains[n].id = id
    /\ \A given \in attached :
          /\ given[1] \in answered
          /\ \A n \in Machines :
                (domains[n] # None /\ domains[n].id = given[1]) => given[2] \in domains[n].devices

LEMMA NoneIsNone == /\ None \notin Machines /\ None \notin Hypervisor!Steps /\ None \notin Nat
                    /\ None \notin Requests /\ None \notin Hypervisor!Domains
                    /\ "other" \notin Requests
  BY ControlAssumption DEF Hypervisor!VirtualMachinesAssumption

\* A step of one request, about one machine.
LEMMA OneMachine ==
    ASSUME MachineInv, NEW r \in Requests, NEW n \in Machines, MachineTypes',
           deleted' = deleted,
           \/ answered' = answered
           \/ answered' = answered \cup {requests[r].id} /\ requests[r].step = "created",
           \A given \in attached' :
              \/ given \in attached
              \/ /\ domains'[n] # None /\ given[1] = domains'[n].id
                 /\ given[1] \in answered /\ given[2] \in domains'[n].devices,
           \A q \in Requests : q # r => /\ requests'[q] = requests[q]
                                        /\ (operation' = q) <=> (operation = q),
           \A m \in Machines : m # n => (domains'[m] = domains[m] /\ files'[m] = files[m]),
           requests[r].name \in {None, n}, requests'[r].name \in {None, n},
           requests[r].name = None => \A q \in Requests : requests[q].name # n,
           created' = created \/ (created' = created + 1 /\ requests'[r].id = created + 1),
           Making(r)' => ((Making(r) /\ requests'[r].id = requests[r].id) \/ created' = created + 1),
           domains[n] # None => \/ requests[r].step = "undefine" /\ domains'[n] = None
                                \/ /\ domains'[n] # None /\ domains'[n].id = domains[n].id
                                   /\ domains[n].devices \subseteq domains'[n].devices,
           (domains[n] = None /\ domains'[n] # None) =>
              (requests[r].step = "installing" /\ domains'[n].id = requests[r].id),
           Request(r)', Machine(n)'
    PROVE  MachineInv'
  <1>1. created \in Nat /\ created' \in Nat /\ 1..created \subseteq 1..created'
    BY DEF MachineInv, MachineTypes
  <1>2. ASSUME NEW q \in Requests, q # r PROVE requests[q].name # n \/ requests[q].name = None
    BY <1>2 DEF MachineInv
  <1>16. answered \subseteq answered' /\ answered \subseteq 1..created /\ Request(r)
    BY DEF MachineInv
  <1>17. answered' # answered =>
           (answered' = answered \cup {requests[r].id} /\ requests[r].step = "created" /\ Making(r))
    BY DEF Making
  <1>18. ASSUME NEW q \in Requests, q # r, Making(q) PROVE requests[q].id \notin answered'
    <2>1. requests[q].id \notin answered
      BY <1>18 DEF MachineInv, Request
    <2>2. Making(r) => requests[q].id # requests[r].id
      BY <1>18 DEF MachineInv
    <2> QED BY <1>17, <2>1, <2>2
  <1>3. ASSUME NEW q \in Requests, q # r PROVE Request(q)'
    <2>1. /\ requests'[q] = requests[q]
          /\ (operation' = q) <=> (operation = q)
          /\ Request(q) /\ requests[q] \in Asks
      BY <1>3 DEF MachineInv, MachineTypes
    <2>2. CASE requests[q].name = None
      <3>1. requests[q].step = None /\ None \notin Hypervisor!Steps
        BY <2>1, <2>2, NoneIsNone DEF Request
      <3>2. /\ requests[q].step \notin {"ready", "installing", "created", "define", "destroy"}
            /\ requests[q].step \notin {"start", "attach", "undefine", "remove"}
        BY <3>1 DEF Hypervisor!Steps
      <3> QED BY <2>1, <3>2 DEF Request, Making
    <2>3. CASE requests[q].name # None
      <3>1. requests[q].name \in Machines /\ requests[q].name # n
        BY <1>2, <1>3, <2>1, <2>3 DEF Asks
      <3>2. /\ domains'[requests[q].name] = domains[requests[q].name]
            /\ files'[requests[q].name] = files[requests[q].name]
        BY <3>1
      <3> DEFINE d == domains[requests[q].name]
                 d1 == domains'[requests[q].name]
                 s == requests[q].step
      <3>3. Making(q)' <=> Making(q)
        BY <2>1 DEF Making
      <3>4. Making(q)' => (requests'[q].id \in 1..created' /\ requests'[q].id \notin answered')
        BY <1>1, <1>3, <1>18, <2>1, <3>3 DEF Request
      <3>5. /\ (requests'[q].step = None) <=> (requests'[q].name = None)
            /\ (operation' = q) <=> (requests'[q].step = "installing")
        BY <2>1 DEF Request
      <3>6. /\ s \in {"ready", "installing"} => (d = None /\ files[requests[q].name] = None)
            /\ s \in {"created", "define", "destroy", "start", "attach"} => (d # None /\ d.id = requests[q].id)
            /\ s \in {"created", "undefine", "remove"} => files[requests[q].name] = requests[q].id
            /\ s = "undefine" => (d # None => d.id = requests[q].id)
            /\ s = "remove" => d = None
            /\ s = "define" => requests[q].devices = d.devices
        BY <2>1 DEF Request
      <3> HIDE DEF d, s
      <3>7. requests'[q] = requests[q] /\ d1 = d /\ files'[requests[q].name] = files[requests[q].name]
        BY <2>1, <3>2 DEF d
      <3> QED BY <3>3, <3>4, <3>5, <3>6, <3>7 DEF Request, s
    <2> QED BY <2>2, <2>3
  <1>4. \A q \in Requests : Request(q)'
    BY <1>3
  <1>5. \A q, p \in Requests :
           (requests'[q].name = requests'[p].name /\ requests'[q].name # None) => q = p
    BY <1>2 DEF MachineInv
  <1>6. ASSUME NEW q \in Requests, NEW p \in Requests, Making(q)', Making(p)',
               requests'[q].id = requests'[p].id, q # p
        PROVE  FALSE
    <2>1. \A k \in Requests : k # r => (Making(k)' => (Making(k) /\ requests'[k].id = requests[k].id))
      BY DEF Making
    <2>2. \A k \in Requests : Making(k) => requests[k].id \in 1..created
      BY DEF MachineInv, Request
    <2>3. CASE Making(r)' /\ ~(Making(r) /\ requests'[r].id = requests[r].id)
      <3>1. requests'[r].id = created + 1 /\ created + 1 \notin 1..created
        BY <1>1, <2>3
      <3>2. \A k \in Requests : (k # r /\ Making(k)') => requests'[k].id # requests'[r].id
        BY <2>1, <2>2, <3>1
      <3>3. CASE q = r
        BY <1>6, <3>2, <3>3
      <3>4. CASE p = r
        BY <1>6, <3>2, <3>4
      <3>5. CASE q # r /\ p # r
        <4>1. /\ Making(q) /\ requests'[q].id = requests[q].id
              /\ Making(p) /\ requests'[p].id = requests[p].id
          BY <1>6, <2>1, <3>5
        <4> QED BY <1>6, <4>1 DEF MachineInv
      <3> QED BY <3>3, <3>4, <3>5
    <2>4. CASE Making(r)' => (Making(r) /\ requests'[r].id = requests[r].id)
      <3>1. /\ Making(q) /\ requests'[q].id = requests[q].id
            /\ Making(p) /\ requests'[p].id = requests[p].id
        BY <1>6, <2>1, <2>4
      <3> QED BY <1>6, <3>1 DEF MachineInv
    <2> QED BY <2>3, <2>4
  <1>7. ASSUME NEW m \in Machines, m # n PROVE Machine(m)'
    <2>1. /\ Machine(m) /\ domains'[m] = domains[m] /\ files'[m] = files[m]
      BY <1>7 DEF MachineInv
    <2>2. \A q \in Requests : requests[q].name = m => requests'[q] = requests[q]
      BY <1>7, NoneIsNone
    <2>3. \A q \in Requests : requests'[q].name = m => requests'[q] = requests[q]
      BY <1>7, NoneIsNone
    <2> QED BY <1>1, <1>16, <2>1, <2>2, <2>3 DEF Machine
  <1>8. \A m \in Machines : Machine(m)'
    BY <1>7
  <1>15. domains'[n] # None => \/ requests[r].step = "installing" /\ domains'[n].id = requests[r].id
                               \/ domains[n] # None /\ domains'[n].id = domains[n].id
    OBVIOUS
  <1>9. requests[r].step = "installing" =>
           \A m \in Machines : domains[m] # None => domains[m].id # requests[r].id
    BY DEF MachineInv, Machine, Request, Making
  <1>10. \A m, k \in Machines :
           (domains'[m] # None /\ domains'[k] # None /\ domains'[m].id = domains'[k].id) => m = k
    <2>1. \A m, k \in Machines :
           (domains[m] # None /\ domains[k] # None /\ domains[m].id = domains[k].id) => m = k
      BY DEF MachineInv
    <2>2. ASSUME NEW m \in Machines, m # n, domains[m] # None, domains'[n] # None
          PROVE  domains[m].id # domains'[n].id
      <3>1. CASE requests[r].step = "installing" /\ domains'[n].id = requests[r].id
        BY <1>9, <2>2, <3>1
      <3>2. CASE domains[n] # None /\ domains'[n].id = domains[n].id
        BY <2>1, <2>2, <3>2
      <3> QED BY <1>15, <2>2, <3>1, <3>2
    <2> QED BY <2>1, <2>2
  <1>11. answered' \subseteq 1..created'
    <2>1. answered' # answered => requests[r].id \in 1..created
      BY <1>16, <1>17 DEF Request
    <2> QED BY <1>1, <1>16, <1>17, <2>1
  <1>12. requests[r].step = "undefine" =>
           (domains[n] # None => domains[n].id \notin answered')
    <2> SUFFICES ASSUME requests[r].step = "undefine", domains[n] # None
                 PROVE  domains[n].id \notin answered'
      OBVIOUS
    <2>1. Request(r) /\ Making(r)
      BY DEF MachineInv, Making
    <2>2. requests[r].step # None
      BY NoneIsNone DEF Hypervisor!Steps
    <2>3. requests[r].name = n
      BY <2>1, <2>2 DEF Request
    <2>4. answered' = answered
      BY <1>17
    <2> QED BY <2>1, <2>3, <2>4 DEF Request
  <1>13. ASSUME NEW id \in answered' \ deleted' PROVE \E m \in Machines : domains'[m] # None /\ domains'[m].id = id
    <2>1. PICK m \in Machines : domains[m] # None /\ domains[m].id = id
      <3>1. CASE id \in answered
        BY <3>1 DEF MachineInv
      <3>2. CASE id \notin answered
        <4>1. requests[r].step = "created" /\ id = requests[r].id /\ requests[r].step # None
          BY <1>17, <3>2, NoneIsNone DEF Hypervisor!Steps
        <4>2. requests[r].name = n
          BY <1>16, <4>1 DEF Request
        <4> QED BY <1>16, <4>1, <4>2 DEF Request
      <3> QED BY <3>1, <3>2
    <2> QED BY <1>12, <2>1
  <1>14. ASSUME NEW given \in attached'
         PROVE  /\ given[1] \in answered'
                /\ \A m \in Machines :
                      (domains'[m] # None /\ domains'[m].id = given[1]) => given[2] \in domains'[m].devices
    <2>1. CASE given \in attached
      <3>1. /\ given[1] \in answered
            /\ \A m \in Machines :
                  (domains[m] # None /\ domains[m].id = given[1]) => given[2] \in domains[m].devices
        BY <2>1 DEF MachineInv
      <3>2. requests[r].step = "installing" => requests[r].id \notin answered
        BY DEF MachineInv, Request, Making
      <3>3. ASSUME NEW m \in Machines, domains'[m] # None, domains'[m].id = given[1]
            PROVE  given[2] \in domains'[m].devices
        <4>1. CASE m # n
          BY <3>1, <3>3, <4>1
        <4>2. CASE m = n
          BY <1>15, <3>1, <3>2, <3>3, <4>2
        <4> QED BY <4>1, <4>2
      <3> QED BY <1>16, <3>1, <3>3
    <2>2. CASE /\ domains'[n] # None /\ given[1] = domains'[n].id
               /\ given[1] \in answered /\ given[2] \in domains'[n].devices
      BY <1>10, <1>16, <2>2
    <2> QED BY <2>1, <2>2
  <1> QED BY <1>4, <1>5, <1>6, <1>8, <1>10, <1>11, <1>13, <1>14 DEF MachineInv

LEMMA NoneIsIdle == Hypervisor!Idle \in Asks
  BY DEF Hypervisor!Idle, Asks

LEMMA IsNow ==
    ASSUME MachineTypes, NEW r \in Requests, NEW a \in Asks,
           requests' = [requests EXCEPT ![r] = a]
    PROVE  /\ requests' \in [Requests -> Asks] /\ requests'[r] = a
           /\ \A q \in Requests : q # r => requests'[q] = requests[q]
  BY DEF MachineTypes

LEMMA Waiting ==
    ASSUME MachineTypes, NEW r \in Requests, NEW step \in Hypervisor!Steps, Hypervisor!Waits(r, step)
    PROVE  /\ requests' \in [Requests -> Asks]
           /\ \A q \in Requests : q # r => requests'[q] = requests[q]
           /\ requests'[r].step = step /\ requests'[r].name = requests[r].name
           /\ requests'[r].id = requests[r].id /\ requests'[r].devices = requests[r].devices
  <1>1. PICK b \in Asks : b = requests[r]
    BY DEF MachineTypes
  <1>2. PICK a \in Asks : a = [b EXCEPT !.step = step]
    BY DEF Asks
  <1>3. a.step = step /\ a.name = b.name /\ a.id = b.id /\ a.devices = b.devices
    BY <1>2 DEF Asks
  <1>4. requests' = [requests EXCEPT ![r] = a]
    BY <1>1, <1>2 DEF Hypervisor!Waits
  <1> QED BY <1>1, <1>3, <1>4, IsNow

LEMMA Ending ==
    ASSUME MachineTypes, NEW r \in Requests, Hypervisor!Ends(r)
    PROVE  /\ requests' \in [Requests -> Asks]
           /\ \A q \in Requests : q # r => requests'[q] = requests[q]
           /\ requests'[r].step = None /\ requests'[r].name = None
  <1>1. requests' = [requests EXCEPT ![r] = Hypervisor!Idle]
    BY DEF Hypervisor!Ends
  <1> QED BY <1>1, NoneIsIdle, IsNow DEF Hypervisor!Idle

\* A request that begins takes a name that no request has.
LEMMA FreeName ==
    ASSUME MachineInv, NEW r \in Requests, NEW n \in Machines, Hypervisor!Free(r, n)
    PROVE  /\ requests[r].step = None /\ requests[r].name = None
           /\ \A q \in Requests : requests[q].name # n
  BY DEF Hypervisor!Free, Hypervisor!Idle

Adding(step, n, id, given) ==
    [Hypervisor!Idle EXCEPT !.step = step, !.name = n, !.id = id, !.devices = given]

Changing(step, n, id, on, given) ==
    [Hypervisor!Idle EXCEPT !.step = step, !.name = n, !.id = id, !.on = on, !.devices = given]

LEMMA FromIdle ==
    ASSUME NEW step \in Hypervisor!Steps, NEW n \in Machines, NEW id \in {None} \cup Nat,
           NEW on \in BOOLEAN, NEW given \in SUBSET Devices
    PROVE  \E b, c \in Asks :
              /\ b = Adding(step, n, id, given) /\ c = Changing(step, n, id, on, given)
              /\ b.step = step /\ b.name = n /\ b.id = id /\ b.devices = given
              /\ c.step = step /\ c.name = n /\ c.id = id /\ c.devices = given
  <1>1. PICK h \in Asks : h = Hypervisor!Idle
    BY NoneIsIdle
  <1>2. PICK f \in Asks : f = [h EXCEPT !.step = step]
    BY DEF Asks
  <1>3. PICK a \in Asks : a = [f EXCEPT !.name = n]
    BY DEF Asks
  <1>4. PICK d \in Asks : d = [a EXCEPT !.id = id]
    BY DEF Asks
  <1>5. PICK b \in Asks : b = [d EXCEPT !.devices = given]
    BY DEF Asks
  <1>6. PICK e \in Asks : e = [d EXCEPT !.on = on]
    BY DEF Asks
  <1>7. PICK c \in Asks : c = [e EXCEPT !.devices = given]
    BY DEF Asks
  <1>9. b = [h EXCEPT !.step = step, !.name = n, !.id = id, !.devices = given]
    BY <1>2, <1>3, <1>4, <1>5 DEF Asks
  <1>10. c = [h EXCEPT !.step = step, !.name = n, !.id = id, !.on = on, !.devices = given]
    BY <1>2, <1>3, <1>4, <1>6, <1>7 DEF Asks
  <1>11. a.step = step /\ a.name = n
    BY <1>2, <1>3 DEF Asks
  <1>12. b.step = step /\ b.name = n /\ b.id = id /\ b.devices = given
    BY <1>4, <1>5, <1>11 DEF Asks
  <1>13. c.step = step /\ c.name = n /\ c.id = id /\ c.devices = given
    BY <1>4, <1>6, <1>7, <1>11 DEF Asks
  <1> QED BY <1>1, <1>9, <1>10, <1>12, <1>13 DEF Adding, Changing

LEMMA CreateKeeps ==
    ASSUME MachineInv, NEW r \in Requests, NEW n \in Machines, Hypervisor!Create(r, n)
    PROVE  MachineInv'
  <1>1. /\ requests[r].step = None /\ requests[r].name = None
        /\ \A q \in Requests : requests[q].name # n
    BY FreeName DEF Hypervisor!Create
  <1>2. PICK step \in Hypervisor!Steps : step = IF domains[n] = None THEN "ready" ELSE "taken"
    BY DEF Hypervisor!Steps
  <1>3. PICK a \in Asks : /\ a = [Hypervisor!Idle EXCEPT !.step = step, !.name = n]
                          /\ a.step = step /\ a.name = n
    <2>1. PICK h \in Asks : h = Hypervisor!Idle
      BY NoneIsIdle
    <2>2. PICK b \in Asks : b = [h EXCEPT !.step = step]
      BY DEF Asks
    <2>3. PICK a \in Asks : a = [b EXCEPT !.name = n]
      BY DEF Asks
    <2>4. a = [h EXCEPT !.step = step, !.name = n] /\ a.step = step /\ a.name = n
      BY <2>2, <2>3 DEF Asks
    <2> QED BY <2>1, <2>4
  <1>11. MachineTypes /\ requests' = [requests EXCEPT ![r] = a]
    BY <1>2, <1>3 DEF Hypervisor!Create, MachineInv
  <1>4. /\ requests' \in [Requests -> Asks] /\ MachineTypes
        /\ \A q \in Requests : q # r => requests'[q] = requests[q]
        /\ requests'[r].step = step /\ requests'[r].name = n
    BY <1>3, <1>11, IsNow
  <1>5. UNCHANGED <<domains, files, operation, created, answered, deleted, attached>>
    BY DEF Hypervisor!Create, Hypervisor!hosts, Hypervisor!history
  <1>6. MachineTypes' /\ Machine(n) /\ Request(r)
    BY <1>4, <1>5 DEF MachineTypes, MachineInv
  <1>7. ~Making(r)' /\ step # None /\ step # "installing" /\ requests[r].step # "installing"
    BY <1>1, <1>2, <1>4, NoneIsNone DEF Making, Hypervisor!Steps
  <1>8. Machine(n)'
    BY <1>1, <1>2, <1>4, <1>5, <1>6, NoneIsNone DEF Machine
  <1>9. domains[n] = None => files[n] = None
    BY <1>1, <1>6 DEF Machine
  <1>10. Request(r)'
    BY <1>1, <1>2, <1>4, <1>5, <1>6, <1>7, <1>9, NoneIsNone DEF Request
  <1> QED BY <1>1, <1>4, <1>5, <1>6, <1>7, <1>8, <1>10, NoneIsNone, OneMachine

LEMMA Named ==
    ASSUME MachineInv, NEW r \in Requests, requests[r].step \in Hypervisor!Steps
    PROVE  /\ requests[r].name \in Machines /\ MachineTypes /\ Request(r) /\ Machine(requests[r].name)
           /\ \A q \in Requests : q # r => requests[q].name # requests[r].name
  <1>1. MachineTypes /\ Request(r) /\ requests[r].step # None
    BY NoneIsNone DEF MachineInv
  <1>2. requests[r].name \in Machines
    BY <1>1 DEF Request, MachineTypes, Asks
  <1> QED BY <1>1, <1>2, NoneIsNone DEF MachineInv

LEMMA DomainNow ==
    ASSUME MachineTypes, NEW n \in Machines, NEW d \in {None} \cup Hypervisor!Domains,
           domains' = [domains EXCEPT ![n] = d]
    PROVE  /\ domains' \in [Machines -> {None} \cup Hypervisor!Domains] /\ domains'[n] = d
           /\ \A m \in Machines : m # n => domains'[m] = domains[m]
  BY DEF MachineTypes

LEMMA FilesNow ==
    ASSUME MachineTypes, NEW n \in Machines, NEW x \in {None} \cup Nat,
           files' = [files EXCEPT ![n] = x]
    PROVE  /\ files' \in [Machines -> {None} \cup Nat] /\ files'[n] = x
           /\ \A m \in Machines : m # n => files'[m] = files[m]
  BY DEF MachineTypes

\* A request that ends without having made anything.
LEMMA LeavesKeeps ==
    ASSUME MachineInv, NEW r \in Requests, Hypervisor!Ends(r),
           requests[r].step \in {"taken", "ready", "define", "start", "attach"},
           UNCHANGED <<domains, files, operation, created, answered, deleted, attached>>
    PROVE  MachineInv'
  <1>1. requests[r].step \in Hypervisor!Steps
    BY DEF Hypervisor!Steps
  <1>2. PICK n \in Machines : n = requests[r].name
    BY <1>1, Named
  <1>3. /\ MachineTypes /\ Request(r) /\ Machine(n)
        /\ \A q \in Requests : q # r => requests[q].name # n
    BY <1>1, <1>2, Named
  <1>4. /\ requests' \in [Requests -> Asks] /\ \A q \in Requests : q # r => requests'[q] = requests[q]
        /\ requests'[r].step = None /\ requests'[r].name = None
    BY <1>3, Ending
  <1>5. MachineTypes'
    BY <1>3, <1>4 DEF MachineTypes
  <1>6. Request(r)' /\ ~Making(r)' /\ ~Making(r)
    <2>1. operation # r
      BY <1>3 DEF Request
    <2> QED BY <1>4, <2>1, NoneIsNone DEF Request, Making, Hypervisor!Steps
  <1>7. Machine(n)'
    <2>1. \A q \in Requests : requests'[q].name # n
      BY <1>3, <1>4, NoneIsNone
    <2>2. \A q \in Requests : requests[q].name = n => requests[q].step \notin {"undefine", "remove", "created"}
      BY <1>3
    <2>3. \A q \in Requests : requests'[q].name = n => requests'[q].step \notin {"undefine", "remove"}
      BY <2>1
    <2> QED BY <1>3, <2>1, <2>2, <2>3 DEF Machine
  <1>8. \A q \in Requests : q # r => (requests'[q] = requests[q] /\ ((operation' = q) <=> (operation = q)))
    BY <1>4
  <1>9. /\ created' = created /\ answered' = answered /\ deleted' = deleted
        /\ domains' = domains /\ files' = files /\ \A given \in attached' : given \in attached
    OBVIOUS
  <1>10. /\ requests[r].name = n /\ requests[r].name # None /\ requests'[r].name = None
         /\ domains[n] # None => (/\ domains'[n] # None /\ domains'[n].id = domains[n].id
                                  /\ domains[n].devices \subseteq domains'[n].devices)
    BY <1>2, <1>4, NoneIsNone
  <1> QED BY <1>5, <1>6, <1>7, <1>8, <1>9, <1>10, OneMachine

LEMMA InstallKeeps ==
    ASSUME MachineInv, NEW r \in Requests, Hypervisor!Install(r)
    PROVE  MachineInv'
  <1>1. requests[r].step = "ready" /\ requests[r].step \in Hypervisor!Steps
    BY DEF Hypervisor!Install, Hypervisor!Steps
  <1>2. PICK n \in Machines : n = requests[r].name
    BY <1>1, Named
  <1>3. /\ MachineTypes /\ Request(r) /\ Machine(n)
        /\ \A q \in Requests : q # r => requests[q].name # n
    BY <1>1, <1>2, Named
  <1>4. /\ UNCHANGED <<domains, files, answered, deleted, attached>>
        /\ operation = None /\ operation' = r /\ created' = created + 1
        /\ created \in Nat /\ created' \in Nat
    BY <1>3 DEF Hypervisor!Install, Hypervisor!history, MachineTypes
  <1>5. PICK b \in Asks : b = requests[r]
    BY <1>3 DEF MachineTypes
  <1>6. PICK c \in Asks : c = [b EXCEPT !.step = "installing"]
    <2>1. "installing" \in Hypervisor!Steps
      BY DEF Hypervisor!Steps
    <2> QED BY <2>1 DEF Asks
  <1>7. PICK id \in Nat : id = created'
    BY <1>4
  <1>8. PICK a \in Asks : a = [c EXCEPT !.id = id]
    BY DEF Asks
  <1>9. a.step = "installing" /\ a.name = n /\ a.id = id
    BY <1>2, <1>5, <1>6, <1>8 DEF Asks
  <1>10. requests' = [requests EXCEPT ![r] = a]
    <2>1. requests' = [requests EXCEPT ![r].step = "installing", ![r].id = id]
      BY <1>7 DEF Hypervisor!Install
    <2> QED BY <1>3, <1>5, <1>6, <1>8, <2>1 DEF MachineTypes
  <1>11. /\ requests' \in [Requests -> Asks] /\ requests'[r] = a
         /\ \A q \in Requests : q # r => requests'[q] = requests[q]
    BY <1>3, <1>10, IsNow
  <1>12. MachineTypes'
    BY <1>3, <1>4, <1>11 DEF MachineTypes
  <1>13. domains[n] = None /\ files[n] = None /\ requests[r].name # None
    BY <1>1, <1>2, <1>3, NoneIsNone DEF Request
  <1>14. answered \subseteq 1..created
    BY DEF MachineInv
  <1>15. Request(r)'
    <2>1. id \in 1..created' /\ id \notin answered'
      BY <1>4, <1>7, <1>14
    <2> QED BY <1>4, <1>9, <1>11, <1>13, <2>1, NoneIsNone DEF Request, Hypervisor!Steps
  <1>16. Machine(n)'
    BY <1>4, <1>13, NoneIsNone DEF Machine
  <1>17. requests'[r].id = created + 1 /\ requests'[r].name = n
    BY <1>4, <1>7, <1>9, <1>11
  <1>18. \A q \in Requests : q # r => (requests'[q] = requests[q] /\ ((operation' = q) <=> (operation = q)))
    BY <1>4, <1>11, NoneIsNone
  <1>19. \A given \in attached' : given \in attached
    BY <1>4
  <1>20. \A m \in Machines : m # n => (domains'[m] = domains[m] /\ files'[m] = files[m])
    BY <1>4
  <1>21. domains'[n] = None /\ domains[n] = None /\ answered' = answered /\ deleted' = deleted
    BY <1>4, <1>13
  <1>22. requests[r].name = n /\ requests[r].name # None /\ created' = created + 1
    BY <1>2, <1>4, <1>13
  <1> QED BY <1>12, <1>15, <1>16, <1>17, <1>18, <1>19, <1>20, <1>21, <1>22, OneMachine

\* The machine that a request makes.
LEMMA MachineMade ==
    ASSUME MachineTypes, NEW r \in Requests, requests[r].id \in Nat, requests[r].name \in Machines
    PROVE  /\ Hypervisor!Domain(r) \in Hypervisor!Domains /\ Hypervisor!Domain(r).id = requests[r].id
           /\ Hypervisor!Domain(r).disk = requests[r].name
  BY DEF Hypervisor!Domain, Hypervisor!Domains

LEMMA InstalledKeeps ==
    ASSUME MachineInv, NEW r \in Requests, Hypervisor!Installed(r)
    PROVE  MachineInv'
  <1>1. requests[r].step = "installing" /\ requests[r].step \in Hypervisor!Steps
    BY DEF Hypervisor!Installed, Hypervisor!Steps
  <1>2. PICK n \in Machines : n = requests[r].name
    BY <1>1, Named
  <1>3. /\ MachineTypes /\ Request(r) /\ Machine(n)
        /\ \A q \in Requests : q # r => requests[q].name # n
    BY <1>1, <1>2, Named
  <1>4. /\ UNCHANGED <<created, answered, deleted, attached>> /\ operation' = None
        /\ domains' = [domains EXCEPT ![n] = Hypervisor!Domain(r)]
        /\ files' = [files EXCEPT ![n] = requests[r].id]
        /\ Hypervisor!Waits(r, "created")
    BY <1>2 DEF Hypervisor!Installed, Hypervisor!history
  <1>5. /\ operation = r /\ Making(r) /\ requests[r].id \in 1..created /\ requests[r].id \notin answered
        /\ domains[n] = None /\ files[n] = None
    BY <1>1, <1>2, <1>3 DEF Request, Making
  <1>6. created \in Nat /\ requests[r].id \in Nat
    BY <1>3, <1>5 DEF MachineTypes
  <1>7. PICK d \in Hypervisor!Domains : d = Hypervisor!Domain(r) /\ d.id = requests[r].id /\ d.disk = n
    BY <1>2, <1>3, <1>6, MachineMade
  <1>8. d # None
    BY <1>7, NoneIsNone
  <1>9. /\ domains' \in [Machines -> {None} \cup Hypervisor!Domains] /\ domains'[n] = d
        /\ \A m \in Machines : m # n => domains'[m] = domains[m]
    BY <1>3, <1>4, <1>7, DomainNow
  <1>10. /\ files' \in [Machines -> {None} \cup Nat] /\ files'[n] = requests[r].id
         /\ \A m \in Machines : m # n => files'[m] = files[m]
    BY <1>3, <1>4, <1>6, FilesNow
  <1>11. "created" \in Hypervisor!Steps
    BY DEF Hypervisor!Steps
  <1>12. /\ requests' \in [Requests -> Asks]
         /\ \A q \in Requests : q # r => requests'[q] = requests[q]
         /\ requests'[r].step = "created" /\ requests'[r].name = n /\ requests'[r].id = requests[r].id
    BY <1>2, <1>3, <1>4, <1>11, Waiting
  <1>13. MachineTypes'
    BY <1>4, <1>6, <1>9, <1>10, <1>12 DEF MachineTypes
  <1>14. Request(r)'
    BY <1>4, <1>5, <1>7, <1>8, <1>9, <1>10, <1>12, NoneIsNone DEF Request, Hypervisor!Steps
  <1>15. Machine(n)'
    BY <1>4, <1>5, <1>7, <1>8, <1>9, <1>10, <1>12 DEF Machine
  <1>16. \A q \in Requests : q # r => (requests'[q] = requests[q] /\ ((operation' = q) <=> (operation = q)))
    BY <1>4, <1>5, <1>12, NoneIsNone
  <1>17. requests[r].name # None /\ domains'[n] # None /\ domains'[n].id = requests[r].id
    BY <1>2, <1>7, <1>8, <1>9, NoneIsNone
  <1>18. /\ created' = created /\ answered' = answered /\ deleted' = deleted
         /\ \A given \in attached' : given \in attached
    BY <1>4
  <1> QED BY <1>1, <1>2, <1>5, <1>9, <1>10, <1>12, <1>13, <1>14, <1>15, <1>16, <1>17, <1>18, OneMachine

LEMMA NotInstalledKeeps ==
    ASSUME MachineInv, NEW r \in Requests, Hypervisor!NotInstalled(r)
    PROVE  MachineInv'
  <1>1. requests[r].step = "installing" /\ requests[r].step \in Hypervisor!Steps
    BY DEF Hypervisor!NotInstalled, Hypervisor!Steps
  <1>2. PICK n \in Machines : n = requests[r].name
    BY <1>1, Named
  <1>3. /\ MachineTypes /\ Request(r) /\ Machine(n)
        /\ \A q \in Requests : q # r => requests[q].name # n
    BY <1>1, <1>2, Named
  <1>4. /\ operation = r /\ Making(r) /\ requests[r].id \in 1..created /\ requests[r].id \notin answered
        /\ domains[n] = None /\ files[n] = None
    BY <1>1, <1>2, <1>3 DEF Request, Making
  <1>5. ~Hypervisor!InUse(n)
    <2>1. \A m \in Machines : domains[m] # None => domains[m].disk = m
      BY DEF MachineInv, Machine
    <2> QED BY <1>4, <2>1 DEF Hypervisor!InUse
  <1>6. /\ UNCHANGED <<created, answered, deleted, attached>> /\ operation' = None
        /\ (domains' = domains) \/ (domains' = [domains EXCEPT ![n] = Hypervisor!Domain(r)])
        /\ files' = [files EXCEPT ![n] = requests[r].id]
    BY <1>2, <1>4, <1>5 DEF Hypervisor!NotInstalled, Hypervisor!history
  <1>7. created \in Nat /\ requests[r].id \in Nat
    BY <1>3, <1>4 DEF MachineTypes
  <1>8. PICK d \in Hypervisor!Domains :
           d = Hypervisor!Domain(r) /\ d.id = requests[r].id /\ d.disk = n
    BY <1>2, <1>3, <1>7, MachineMade
  <1>9. /\ domains' \in [Machines -> {None} \cup Hypervisor!Domains] /\ domains'[n] \in {None, d}
        /\ \A m \in Machines : m # n => domains'[m] = domains[m]
    <2>1. CASE domains' = domains
      BY <1>3, <1>4, <2>1 DEF MachineTypes
    <2>2. CASE domains' = [domains EXCEPT ![n] = d]
      BY <1>3, <2>2, DomainNow
    <2> QED BY <1>6, <1>8, <2>1, <2>2
  <1>10. /\ files' \in [Machines -> {None} \cup Nat] /\ files'[n] = requests[r].id
         /\ \A m \in Machines : m # n => files'[m] = files[m]
    BY <1>3, <1>6, <1>7, FilesNow
  <1>11. PICK again \in BOOLEAN :
            requests' = [requests EXCEPT ![r].step = "undefine", ![r].again = again]
    BY DEF Hypervisor!NotInstalled
  <1>12. PICK b \in Asks : b = requests[r]
    BY <1>3 DEF MachineTypes
  <1>13. PICK c \in Asks : c = [b EXCEPT !.step = "undefine"]
    <2>1. "undefine" \in Hypervisor!Steps
      BY DEF Hypervisor!Steps
    <2> QED BY <2>1 DEF Asks
  <1>14. PICK a \in Asks : a = [c EXCEPT !.again = again]
    BY DEF Asks
  <1>15. a.step = "undefine" /\ a.name = n /\ a.id = requests[r].id
    BY <1>2, <1>12, <1>13, <1>14 DEF Asks
  <1>16. requests' = [requests EXCEPT ![r] = a]
    BY <1>3, <1>11, <1>12, <1>13, <1>14 DEF MachineTypes
  <1>17. /\ requests' \in [Requests -> Asks] /\ requests'[r] = a
         /\ \A q \in Requests : q # r => requests'[q] = requests[q]
    BY <1>3, <1>16, IsNow
  <1>18. MachineTypes'
    BY <1>6, <1>7, <1>9, <1>10, <1>17 DEF MachineTypes
  <1>19. Request(r)'
    BY <1>4, <1>6, <1>8, <1>9, <1>10, <1>15, <1>17, NoneIsNone DEF Request, Hypervisor!Steps
  <1>20. Machine(n)'
    BY <1>4, <1>6, <1>8, <1>9, <1>10, <1>15, <1>17 DEF Machine
  <1>21. \A q \in Requests : q # r => (requests'[q] = requests[q] /\ ((operation' = q) <=> (operation = q)))
    BY <1>4, <1>6, <1>17, NoneIsNone
  <1>22. /\ requests[r].name # None /\ requests'[r].id = requests[r].id /\ requests'[r].name = n
         /\ domains'[n] # None => domains'[n].id = requests[r].id
    BY <1>2, <1>8, <1>9, <1>15, <1>17, NoneIsNone
  <1>23. /\ created' = created /\ answered' = answered /\ deleted' = deleted
         /\ \A given \in attached' : given \in attached
    BY <1>6
  <1> QED BY <1>1, <1>2, <1>4, <1>9, <1>10, <1>18, <1>19, <1>20, <1>21, <1>22, <1>23, OneMachine

LEMMA UndefineKeeps ==
    ASSUME MachineInv, NEW r \in Requests, Hypervisor!Undefine(r)
    PROVE  MachineInv'
  <1>1. requests[r].step = "undefine" /\ requests[r].step \in Hypervisor!Steps
    BY DEF Hypervisor!Undefine, Hypervisor!Steps
  <1>2. PICK n \in Machines : n = requests[r].name
    BY <1>1, Named
  <1>3. /\ MachineTypes /\ Request(r) /\ Machine(n)
        /\ \A q \in Requests : q # r => requests[q].name # n
    BY <1>1, <1>2, Named
  <1>4. /\ UNCHANGED <<files, operation, created, answered, deleted, attached>>
        /\ domains' = [domains EXCEPT ![n] = None] /\ Hypervisor!Waits(r, "remove")
    BY <1>2 DEF Hypervisor!Undefine, Hypervisor!history
  <1>5. /\ operation # r /\ Making(r) /\ requests[r].id \in 1..created /\ requests[r].id \notin answered
        /\ files[n] = requests[r].id
    BY <1>1, <1>2, <1>3 DEF Request, Making
  <1>6. /\ domains' \in [Machines -> {None} \cup Hypervisor!Domains] /\ domains'[n] = None
        /\ \A m \in Machines : m # n => domains'[m] = domains[m]
    BY <1>3, <1>4, DomainNow
  <1>7. "remove" \in Hypervisor!Steps
    BY DEF Hypervisor!Steps
  <1>8. /\ requests' \in [Requests -> Asks]
        /\ \A q \in Requests : q # r => requests'[q] = requests[q]
        /\ requests'[r].step = "remove" /\ requests'[r].name = n /\ requests'[r].id = requests[r].id
    BY <1>2, <1>3, <1>4, <1>7, Waiting
  <1>9. MachineTypes'
    BY <1>3, <1>4, <1>6, <1>8 DEF MachineTypes
  <1>10. Request(r)'
    BY <1>4, <1>5, <1>6, <1>8, NoneIsNone DEF Request, Hypervisor!Steps
  <1>11. Machine(n)'
    BY <1>4, <1>6, <1>8 DEF Machine
  <1>12. \A q \in Requests : q # r => (requests'[q] = requests[q] /\ ((operation' = q) <=> (operation = q)))
    BY <1>4, <1>8
  <1>13. /\ created' = created /\ answered' = answered /\ deleted' = deleted /\ files' = files
         /\ \A given \in attached' : given \in attached
    BY <1>4
  <1>14. requests[r].name # None
    BY <1>2, NoneIsNone
  <1> QED BY <1>1, <1>2, <1>5, <1>6, <1>8, <1>9, <1>10, <1>11, <1>12, <1>13, <1>14, OneMachine

LEMMA RemoveKeeps ==
    ASSUME MachineInv, NEW r \in Requests, Hypervisor!Remove(r)
    PROVE  MachineInv'
  <1>1. requests[r].step = "remove" /\ requests[r].step \in Hypervisor!Steps
    BY DEF Hypervisor!Remove, Hypervisor!Steps
  <1>2. PICK n \in Machines : n = requests[r].name
    BY <1>1, Named
  <1>3. /\ MachineTypes /\ Request(r) /\ Machine(n)
        /\ \A q \in Requests : q # r => requests[q].name # n
    BY <1>1, <1>2, Named
  <1>4. /\ UNCHANGED <<domains, operation, created, answered, deleted, attached>>
        /\ files' = [files EXCEPT ![n] = None]
        /\ Hypervisor!Waits(r, "ready") \/ Hypervisor!Ends(r)
    BY <1>2 DEF Hypervisor!Remove, Hypervisor!history
  <1>5. operation # r /\ domains[n] = None
    BY <1>1, <1>2, <1>3 DEF Request
  <1>6. /\ files' \in [Machines -> {None} \cup Nat] /\ files'[n] = None
        /\ \A m \in Machines : m # n => files'[m] = files[m]
    BY <1>3, <1>4, FilesNow
  <1>7. "ready" \in Hypervisor!Steps
    BY DEF Hypervisor!Steps
  <1>8. /\ requests' \in [Requests -> Asks]
        /\ \A q \in Requests : q # r => requests'[q] = requests[q]
        /\ \/ requests'[r].step = "ready" /\ requests'[r].name = n
           \/ requests'[r].step = None /\ requests'[r].name = None
    <2>1. CASE Hypervisor!Waits(r, "ready")
      BY <1>2, <1>3, <1>7, <2>1, Waiting
    <2>2. CASE Hypervisor!Ends(r)
      BY <1>3, <2>2, Ending
    <2> QED BY <1>4, <2>1, <2>2
  <1>9. MachineTypes'
    BY <1>3, <1>4, <1>6, <1>8 DEF MachineTypes
  <1>10. Request(r)' /\ ~Making(r)'
    BY <1>4, <1>5, <1>6, <1>8, NoneIsNone DEF Request, Making, Hypervisor!Steps
  <1>11. Machine(n)'
    BY <1>4, <1>5, <1>6 DEF Machine
  <1>12. \A q \in Requests : q # r => (requests'[q] = requests[q] /\ ((operation' = q) <=> (operation = q)))
    BY <1>4, <1>8
  <1>13. /\ created' = created /\ answered' = answered /\ deleted' = deleted /\ domains' = domains
         /\ \A given \in attached' : given \in attached
    BY <1>4
  <1>14. requests[r].name # None /\ requests'[r].name \in {None, n}
    BY <1>2, <1>8, NoneIsNone
  <1> QED BY <1>2, <1>5, <1>6, <1>9, <1>10, <1>11, <1>12, <1>13, <1>14, OneMachine

\* A request that takes a machine that is there, to update it or to add a device.
LEMMA TakesMachine ==
    ASSUME MachineInv, NEW r \in Requests, NEW n \in Machines, NEW a \in Asks,
           Hypervisor!Free(r, n), domains[n] # None,
           requests' = [requests EXCEPT ![r] = a],
           a.step \in {"define", "attach"}, a.name = n, a.id = domains[n].id,
           a.step = "define" => a.devices = domains[n].devices,
           UNCHANGED <<domains, files, operation, created, answered, deleted, attached>>
    PROVE  MachineInv'
  <1>1. /\ requests[r].step = None /\ requests[r].name = None
        /\ \A q \in Requests : requests[q].name # n
    BY FreeName
  <1>2. /\ MachineTypes /\ Machine(n) /\ Request(r)
    BY DEF MachineInv
  <1>3. /\ requests' \in [Requests -> Asks] /\ requests'[r] = a
        /\ \A q \in Requests : q # r => requests'[q] = requests[q]
    BY <1>2, IsNow
  <1>4. MachineTypes'
    BY <1>2, <1>3 DEF MachineTypes
  <1>5. ~Making(r)' /\ operation # r /\ requests[r].step # "installing"
    BY <1>1, <1>2, <1>3, NoneIsNone DEF Making, Request, Hypervisor!Steps
  <1>6. Request(r)'
    BY <1>1, <1>3, <1>5, NoneIsNone DEF Request, Hypervisor!Steps
  <1>7. Machine(n)'
    BY <1>1, <1>2, <1>3, NoneIsNone DEF Machine
  <1>8. \A q \in Requests : q # r => (requests'[q] = requests[q] /\ ((operation' = q) <=> (operation = q)))
    BY <1>3
  <1>9. /\ created' = created /\ answered' = answered /\ deleted' = deleted
        /\ domains' = domains /\ files' = files /\ \A given \in attached' : given \in attached
    OBVIOUS
  <1>10. /\ requests'[r].name = n
         /\ domains'[n] # None /\ domains'[n].id = domains[n].id
         /\ domains[n].devices \subseteq domains'[n].devices
    BY <1>3
  <1> QED BY <1>1, <1>4, <1>5, <1>6, <1>7, <1>8, <1>9, <1>10, OneMachine

LEMMA UpdateKeeps ==
    ASSUME MachineInv, NEW r \in Requests, NEW n \in Machines, Hypervisor!Update(r, n)
    PROVE  MachineInv'
  <1>1. domains[n] # None /\ MachineTypes
    BY DEF Hypervisor!Update, MachineInv
  <1>2. PICK d \in Hypervisor!Domains : d = domains[n]
    BY <1>1 DEF MachineTypes
  <1>3. PICK id \in {None} \cup Nat, on \in BOOLEAN, given \in SUBSET Devices, step \in Hypervisor!Steps :
           id = d.id /\ on = d.on /\ given = d.devices /\ step = "define"
    BY DEF Hypervisor!Domains, Hypervisor!Steps
  <1>7. PICK b, c \in Asks :
              /\ b = Adding(step, n, id, given) /\ c = Changing(step, n, id, on, given)
              /\ b.step = step /\ b.name = n /\ b.id = id /\ b.devices = given
              /\ c.step = step /\ c.name = n /\ c.id = id /\ c.devices = given
    BY FromIdle
  <1>4. PICK a \in Asks :
           /\ a = [Hypervisor!Idle EXCEPT !.step = "define", !.name = n, !.id = d.id, !.on = d.on,
                                          !.devices = d.devices]
           /\ a.step = "define" /\ a.name = n /\ a.id = d.id /\ a.devices = d.devices
    BY <1>3, <1>7 DEF Changing
  <1>5. requests' = [requests EXCEPT ![r] = a]
    BY <1>2, <1>4 DEF Hypervisor!Update
  <1>6. Hypervisor!Free(r, n) /\ UNCHANGED <<domains, files, operation, created, answered, deleted, attached>>
    BY DEF Hypervisor!Update, Hypervisor!hosts, Hypervisor!history
  <1> QED BY <1>1, <1>2, <1>4, <1>5, <1>6, TakesMachine

LEMMA AttachKeeps ==
    ASSUME MachineInv, NEW r \in Requests, NEW n \in Machines, NEW device \in Devices,
           Hypervisor!Attach(r, n, device)
    PROVE  MachineInv'
  <1>1. domains[n] # None /\ MachineTypes
    BY DEF Hypervisor!Attach, MachineInv
  <1>2. PICK d \in Hypervisor!Domains : d = domains[n]
    BY <1>1 DEF MachineTypes
  <1>3. PICK id \in {None} \cup Nat, on \in BOOLEAN, given \in SUBSET Devices, step \in Hypervisor!Steps :
           id = d.id /\ on = TRUE /\ given = {device} /\ step = "attach"
    BY DEF Hypervisor!Domains, Hypervisor!Steps
  <1>8. PICK b, c \in Asks :
              /\ b = Adding(step, n, id, given) /\ c = Changing(step, n, id, on, given)
              /\ b.step = step /\ b.name = n /\ b.id = id /\ b.devices = given
              /\ c.step = step /\ c.name = n /\ c.id = id /\ c.devices = given
    BY FromIdle
  <1>4. PICK a \in Asks :
           /\ a = [Hypervisor!Idle EXCEPT !.step = "attach", !.name = n, !.id = d.id, !.devices = {device}]
           /\ a.step = "attach" /\ a.name = n /\ a.id = d.id
    BY <1>3, <1>8 DEF Adding
  <1>5. requests' = [requests EXCEPT ![r] = a]
    BY <1>2, <1>4 DEF Hypervisor!Attach
  <1>6. Hypervisor!Free(r, n) /\ UNCHANGED <<domains, files, operation, created, answered, deleted, attached>>
    BY DEF Hypervisor!Attach, Hypervisor!hosts, Hypervisor!history
  <1>7. a.step # "define"
    BY <1>4
  <1> QED BY <1>1, <1>2, <1>4, <1>5, <1>6, <1>7, TakesMachine

\* A request changes the power or the devices of its machine, and waits or ends.
LEMMA ChangesMachine ==
    ASSUME MachineInv, NEW r \in Requests, NEW n \in Machines, NEW d \in Hypervisor!Domains,
           n = requests[r].name, domains[n] # None,
           requests[r].step \in {"define", "destroy", "start", "attach"},
           domains' = [domains EXCEPT ![n] = d],
           d.id = domains[n].id, d.disk = n, domains[n].devices \subseteq d.devices,
           \/ Hypervisor!Waits(r, "destroy") \/ Hypervisor!Waits(r, "start") \/ Hypervisor!Ends(r),
           \A given \in attached' :
              given \in attached \/ (given[1] = d.id /\ given[2] \in d.devices),
           UNCHANGED <<files, operation, created, answered, deleted>>
    PROVE  MachineInv'
  <1>1. requests[r].step \in Hypervisor!Steps
    BY DEF Hypervisor!Steps
  <1>2. /\ MachineTypes /\ Request(r) /\ Machine(n)
        /\ \A q \in Requests : q # r => requests[q].name # n
    BY <1>1, Named
  <1>3. /\ domains' \in [Machines -> {None} \cup Hypervisor!Domains] /\ domains'[n] = d /\ d # None
        /\ \A m \in Machines : m # n => domains'[m] = domains[m]
    BY <1>2, DomainNow, NoneIsNone
  <1>4. /\ requests' \in [Requests -> Asks]
        /\ \A q \in Requests : q # r => requests'[q] = requests[q]
        /\ \/ requests'[r].step = None /\ requests'[r].name = None
           \/ /\ requests'[r].step \in {"destroy", "start"} /\ requests'[r].name = n
              /\ requests'[r].id = requests[r].id
    <2>1. "destroy" \in Hypervisor!Steps /\ "start" \in Hypervisor!Steps
      BY DEF Hypervisor!Steps
    <2>2. CASE Hypervisor!Waits(r, "destroy")
      BY <1>2, <2>1, <2>2, Waiting
    <2>3. CASE Hypervisor!Waits(r, "start")
      BY <1>2, <2>1, <2>3, Waiting
    <2>4. CASE Hypervisor!Ends(r)
      BY <1>2, <2>4, Ending
    <2> QED BY <2>2, <2>3, <2>4
  <1>5. MachineTypes'
    BY <1>2, <1>3, <1>4 DEF MachineTypes
  <1>6. ~Making(r)' /\ operation # r /\ requests[r].step # "installing" /\ requests[r].id = domains[n].id
    BY <1>2, <1>4, NoneIsNone DEF Making, Request, Hypervisor!Steps
  <1>7. Request(r)'
    <2>1. CASE requests'[r].step = None /\ requests'[r].name = None
      BY <1>6, <2>1, NoneIsNone DEF Request, Making, Hypervisor!Steps
    <2>2. CASE requests'[r].step \in {"destroy", "start"} /\ requests'[r].name = n /\ requests'[r].id = requests[r].id
      BY <1>3, <1>6, <2>2, NoneIsNone DEF Request, Hypervisor!Steps
    <2> QED BY <1>4, <2>1, <2>2
  <1>8. domains[n].id \in answered /\ domains[n].id \in 1..created
    BY <1>2 DEF Machine
  <1>9. files[n] = domains[n].id
    BY <1>2 DEF Machine
  <1>10. Machine(n)'
    BY <1>3, <1>8, <1>9 DEF Machine
  <1>11. \A q \in Requests : q # r => (requests'[q] = requests[q] /\ ((operation' = q) <=> (operation = q)))
    BY <1>4
  <1>12. /\ created' = created /\ answered' = answered /\ deleted' = deleted /\ files' = files
         /\ \A given \in attached' :
              \/ given \in attached
              \/ /\ domains'[n] # None /\ given[1] = domains'[n].id
                 /\ given[1] \in answered /\ given[2] \in domains'[n].devices
    BY <1>3, <1>8
  <1>13. /\ requests[r].name # None /\ requests'[r].name \in {None, n}
         /\ domains'[n] # None /\ domains'[n].id = domains[n].id
         /\ domains[n].devices \subseteq domains'[n].devices
    BY <1>3, <1>4, NoneIsNone
  <1> QED BY <1>3, <1>5, <1>6, <1>7, <1>10, <1>11, <1>12, <1>13, OneMachine

LEMMA PowerNow ==
    ASSUME NEW d \in Hypervisor!Domains, NEW on \in BOOLEAN
    PROVE  \E e \in Hypervisor!Domains :
              e = [d EXCEPT !.on = on] /\ e.id = d.id /\ e.disk = d.disk /\ e.devices = d.devices
  <1>1. PICK e \in Hypervisor!Domains : e = [d EXCEPT !.on = on]
    BY DEF Hypervisor!Domains
  <1>2. e.id = d.id /\ e.disk = d.disk /\ e.devices = d.devices
    BY <1>1 DEF Hypervisor!Domains
  <1> QED BY <1>1, <1>2

\* What a request knows of its machine.
LEMMA HasMachine ==
    ASSUME MachineInv, NEW r \in Requests,
           requests[r].step \in {"define", "destroy", "start", "attach"}
    PROVE  \E n \in Machines, d \in Hypervisor!Domains :
              /\ n = requests[r].name /\ d = domains[n] /\ d # None
              /\ d.id = requests[r].id /\ d.disk = n
              /\ requests[r].step = "define" => requests[r].devices = d.devices
  <1>1. requests[r].step \in Hypervisor!Steps
    BY DEF Hypervisor!Steps
  <1>2. PICK n \in Machines : n = requests[r].name
    BY <1>1, Named
  <1>3. MachineTypes /\ Request(r) /\ Machine(n)
    BY <1>1, <1>2, Named
  <1>4. domains[n] # None /\ domains[n].id = requests[r].id
    BY <1>2, <1>3 DEF Request
  <1>5. domains[n].disk = n
    BY <1>3, <1>4 DEF Machine
  <1>6. requests[r].step = "define" => requests[r].devices = domains[n].devices
    BY <1>2, <1>3 DEF Request
  <1>7. PICK d \in Hypervisor!Domains : d = domains[n]
    BY <1>3, <1>4 DEF MachineTypes
  <1> QED BY <1>2, <1>4, <1>5, <1>6, <1>7

LEMMA DefineKeeps ==
    ASSUME MachineInv, NEW r \in Requests, Hypervisor!Define(r)
    PROVE  MachineInv'
  <1>1. requests[r].step = "define" /\ UNCHANGED <<files, operation, created, answered, deleted, attached>>
    BY DEF Hypervisor!Define, Hypervisor!history
  <1>2. PICK n \in Machines, d \in Hypervisor!Domains :
              /\ n = requests[r].name /\ d = domains[n] /\ d # None
              /\ d.id = requests[r].id /\ d.disk = n
              /\ requests[r].step = "define" => requests[r].devices = d.devices
    BY <1>1, HasMachine
  <1>3. PICK e \in Hypervisor!Domains :
           /\ e = [id |-> requests[r].id, on |-> domains[n] # None /\ domains[n].on,
                   disk |-> d.disk, devices |-> requests[r].devices]
    <2>1. PICK on \in BOOLEAN : on = d.on
      BY DEF Hypervisor!Domains
    <2>2. PICK e \in Hypervisor!Domains :
             e = [id |-> d.id, on |-> on, disk |-> d.disk, devices |-> d.devices]
      BY DEF Hypervisor!Domains
    <2>3. (domains[n] # None /\ domains[n].on) = on
      BY <1>2, <2>1
    <2> QED BY <1>1, <1>2, <2>2, <2>3
  <1>4. e.id = d.id /\ e.disk = n /\ e.devices = d.devices
    BY <1>1, <1>2, <1>3
  <1>5. \/ /\ domains' = [domains EXCEPT ![n] = e]
           /\ Hypervisor!Waits(r, "destroy") \/ Hypervisor!Ends(r)
        \/ Hypervisor!Ends(r) /\ UNCHANGED domains
    BY <1>2, <1>3 DEF Hypervisor!Define
  <1>6. CASE Hypervisor!Ends(r) /\ UNCHANGED domains
    BY <1>1, <1>6, LeavesKeeps
  <1>7. CASE /\ domains' = [domains EXCEPT ![n] = e]
             /\ Hypervisor!Waits(r, "destroy") \/ Hypervisor!Ends(r)
    BY <1>1, <1>2, <1>4, <1>7, ChangesMachine
  <1> QED BY <1>5, <1>6, <1>7

LEMMA AgainKeeps ==
    ASSUME MachineInv, NEW r \in Requests, Hypervisor!Restart(r)
    PROVE  MachineInv'
  <1>1. /\ requests[r].step \in {"destroy", "start"}
        /\ UNCHANGED <<files, operation, created, answered, deleted, attached>>
    BY DEF Hypervisor!Restart, Hypervisor!history
  <1>2. PICK n \in Machines, d \in Hypervisor!Domains :
              /\ n = requests[r].name /\ d = domains[n] /\ d # None
              /\ d.id = requests[r].id /\ d.disk = n
              /\ requests[r].step = "define" => requests[r].devices = d.devices
    BY <1>1, HasMachine
  <1>3. PICK off \in Hypervisor!Domains :
           off = [d EXCEPT !.on = FALSE] /\ off.id = d.id /\ off.disk = d.disk /\ off.devices = d.devices
    <2>1. FALSE \in BOOLEAN
      OBVIOUS
    <2> QED BY <2>1, PowerNow
  <1>4. PICK on \in Hypervisor!Domains :
           on = [d EXCEPT !.on = TRUE] /\ on.id = d.id /\ on.disk = d.disk /\ on.devices = d.devices
    <2>1. TRUE \in BOOLEAN
      OBVIOUS
    <2> QED BY <2>1, PowerNow
  <1>5. MachineTypes
    BY DEF MachineInv
  <1>6. \/ Hypervisor!Waits(r, "start") /\ domains' = [domains EXCEPT ![n] = off]
        \/ Hypervisor!Ends(r) /\ domains' = [domains EXCEPT ![n] = on]
        \/ requests[r].step = "start" /\ Hypervisor!Ends(r) /\ UNCHANGED domains
    BY <1>2, <1>3, <1>4, <1>5 DEF Hypervisor!Restart, MachineTypes
  <1>7. CASE Hypervisor!Waits(r, "start") /\ domains' = [domains EXCEPT ![n] = off]
    BY <1>1, <1>2, <1>3, <1>7, ChangesMachine
  <1>8. CASE Hypervisor!Ends(r) /\ domains' = [domains EXCEPT ![n] = on]
    BY <1>1, <1>2, <1>4, <1>8, ChangesMachine
  <1>9. CASE requests[r].step = "start" /\ Hypervisor!Ends(r) /\ UNCHANGED domains
    BY <1>1, <1>9, LeavesKeeps
  <1> QED BY <1>6, <1>7, <1>8, <1>9

LEMMA AttachedKeeps ==
    ASSUME MachineInv, NEW r \in Requests, Hypervisor!Attached(r)
    PROVE  MachineInv'
  <1>1. /\ requests[r].step = "attach" /\ Hypervisor!Ends(r)
        /\ UNCHANGED <<files, operation, created, answered, deleted>>
    BY DEF Hypervisor!Attached
  <1>2. PICK n \in Machines, d \in Hypervisor!Domains :
              /\ n = requests[r].name /\ d = domains[n] /\ d # None
              /\ d.id = requests[r].id /\ d.disk = n
              /\ requests[r].step = "define" => requests[r].devices = d.devices
    BY <1>1, HasMachine
  <1>3. PICK given \in SUBSET Devices : given = requests[r].devices
    BY DEF MachineInv, MachineTypes, Asks
  <1>4. PICK e \in Hypervisor!Domains : e = [d EXCEPT !.devices = @ \cup given]
    BY DEF Hypervisor!Domains
  <1>5. e.id = d.id /\ e.disk = d.disk /\ e.devices = d.devices \cup given
    BY <1>4 DEF Hypervisor!Domains
  <1>6. \/ /\ domains' = [domains EXCEPT ![n] = e]
           /\ attached' = attached \cup ({d.id} \X given)
        \/ UNCHANGED <<domains, attached>>
    <2>1. MachineTypes
      BY DEF MachineInv
    <2> QED BY <1>2, <1>3, <1>4, <2>1 DEF Hypervisor!Attached, MachineTypes
  <1>7. CASE UNCHANGED <<domains, attached>>
    BY <1>1, <1>7, LeavesKeeps
  <1>8. CASE /\ domains' = [domains EXCEPT ![n] = e]
             /\ attached' = attached \cup ({d.id} \X given)
    <2>1. \A x \in attached' : x \in attached \/ (x[1] = e.id /\ x[2] \in e.devices)
      BY <1>5, <1>8
    <2> QED BY <1>1, <1>2, <1>5, <1>8, <2>1, ChangesMachine
  <1> QED BY <1>6, <1>7, <1>8

LEMMA CreateAnsweredKeeps ==
    ASSUME MachineInv, NEW r \in Requests, Hypervisor!CreateAnswered(r)
    PROVE  MachineInv'
  <1>1. requests[r].step = "created" /\ requests[r].step \in Hypervisor!Steps
    BY DEF Hypervisor!CreateAnswered, Hypervisor!Steps
  <1>2. PICK n \in Machines : n = requests[r].name
    BY <1>1, Named
  <1>3. /\ MachineTypes /\ Request(r) /\ Machine(n)
        /\ \A q \in Requests : q # r => requests[q].name # n
    BY <1>1, <1>2, Named
  <1>4. /\ UNCHANGED <<domains, files, operation, created, deleted, attached>>
        /\ answered' = answered \cup {requests[r].id} /\ Hypervisor!Ends(r)
    BY DEF Hypervisor!CreateAnswered, Hypervisor!hosts
  <1>5. /\ operation # r /\ domains[n] # None /\ domains[n].id = requests[r].id
        /\ files[n] = requests[r].id /\ requests[r].step # "undefine"
    BY <1>1, <1>2, <1>3 DEF Request
  <1>6. /\ requests' \in [Requests -> Asks]
        /\ \A q \in Requests : q # r => requests'[q] = requests[q]
        /\ requests'[r].step = None /\ requests'[r].name = None
    BY <1>3, <1>4, Ending
  <1>7. MachineTypes'
    BY <1>3, <1>4, <1>6 DEF MachineTypes
  <1>8. Request(r)' /\ ~Making(r)'
    BY <1>4, <1>5, <1>6, NoneIsNone DEF Request, Making, Hypervisor!Steps
  <1>9. Machine(n)'
    <2>1. domains[n].disk = n /\ domains[n].id \in 1..created
      BY <1>3, <1>5 DEF Machine
    <2> QED BY <1>4, <1>5, <2>1 DEF Machine
  <1>10. \A q \in Requests : q # r => (requests'[q] = requests[q] /\ ((operation' = q) <=> (operation = q)))
    BY <1>4, <1>6
  <1>11. /\ created' = created /\ deleted' = deleted /\ files' = files /\ domains' = domains
         /\ \A given \in attached' : given \in attached
    BY <1>4
  <1>12. requests[r].name # None
    BY <1>2, NoneIsNone
  <1>13. /\ domains'[n] # None /\ domains'[n].id = domains[n].id
         /\ domains[n].devices \subseteq domains'[n].devices
    BY <1>5, <1>11
  <1> QED BY <1>1, <1>2, <1>4, <1>6, <1>7, <1>8, <1>9, <1>10, <1>11, <1>12, <1>13, OneMachine

\* Machines that change nothing but their power.
LEMMA SameMachines ==
    ASSUME MachineInv, domains' \in [Machines -> {None} \cup Hypervisor!Domains],
           \A n \in Machines : /\ (domains'[n] = None) <=> (domains[n] = None)
                               /\ domains[n] # None => (/\ domains'[n].id = domains[n].id
                                                        /\ domains'[n].disk = domains[n].disk
                                                        /\ domains'[n].devices = domains[n].devices),
           \A q \in Requests : (operation' = q) <=> (operation = q),
           UNCHANGED <<files, requests, created, answered, deleted, attached>>
    PROVE  MachineInv'
  <1>1. MachineTypes /\ MachineTypes'
    BY DEF MachineInv, MachineTypes
  <1>2. ASSUME NEW q \in Requests PROVE Request(q)'
    <2>1. Request(q) /\ requests[q] \in Asks
      BY <1>1 DEF MachineInv, MachineTypes
    <2>2. CASE requests[q].name = None
      <3>1. /\ requests[q].step \notin {"ready", "installing", "created", "define", "destroy"}
            /\ requests[q].step \notin {"start", "attach", "undefine", "remove"}
        BY <2>1, <2>2, NoneIsNone DEF Request, Hypervisor!Steps
      <3> QED BY <2>1, <3>1 DEF Request, Making
    <2>3. CASE requests[q].name # None
      <3>1. PICK n \in Machines : n = requests[q].name
        BY <2>1, <2>3 DEF Asks
      <3>2. /\ (domains'[n] = None) <=> (domains[n] = None)
            /\ domains[n] # None => (domains'[n].id = domains[n].id /\ domains'[n].devices = domains[n].devices)
        OBVIOUS
      <3>3. (operation' = q) <=> (operation = q)
        OBVIOUS
      <3>4. Making(q)' <=> Making(q)
        BY DEF Making
      <3> QED BY <2>1, <3>1, <3>2, <3>3, <3>4 DEF Request
    <2> QED BY <2>2, <2>3
  <1>3. ASSUME NEW n \in Machines PROVE Machine(n)'
    <2>1. Machine(n)
      BY DEF MachineInv
    <2>2. /\ (domains'[n] = None) <=> (domains[n] = None)
          /\ domains[n] # None => (domains'[n].id = domains[n].id /\ domains'[n].disk = domains[n].disk)
      OBVIOUS
    <2> QED BY <2>1, <2>2 DEF Machine
  <1>4. \A r, q \in Requests :
           (Making(r)' /\ Making(q)' /\ requests'[r].id = requests'[q].id) => r = q
    BY DEF MachineInv, Making
  <1>5. \A r, q \in Requests :
          (requests'[r].name = requests'[q].name /\ requests'[r].name # None) => r = q
    BY DEF MachineInv
  <1>6. \A m, n \in Machines :
          (domains'[m] # None /\ domains'[n] # None /\ domains'[m].id = domains'[n].id) => m = n
    BY DEF MachineInv
  <1>7. answered' \subseteq 1..created'
    BY DEF MachineInv
  <1>8. \A id \in answered' \ deleted' : \E n \in Machines : domains'[n] # None /\ domains'[n].id = id
    BY DEF MachineInv
  <1>9. \A given \in attached' :
          /\ given[1] \in answered'
          /\ \A n \in Machines :
                (domains'[n] # None /\ domains'[n].id = given[1]) => given[2] \in domains'[n].devices
    BY DEF MachineInv
  <1> QED BY <1>1, <1>2, <1>3, <1>4, <1>5, <1>6, <1>7, <1>8, <1>9 DEF MachineInv

LEMMA PowerKeeps ==
    ASSUME MachineInv, NEW n \in Machines, Hypervisor!Power(n)
    PROVE  MachineInv'
  <1>1. /\ domains[n] # None /\ domains' = [domains EXCEPT ![n].on = ~@]
        /\ UNCHANGED <<files, operation, requests, created, answered, deleted, attached>>
    BY DEF Hypervisor!Power, Hypervisor!history
  <1>2. MachineTypes
    BY DEF MachineInv
  <1>3. PICK d \in Hypervisor!Domains : d = domains[n]
    BY <1>1, <1>2 DEF MachineTypes
  <1>4. PICK on \in BOOLEAN : on = ~d.on
    BY DEF Hypervisor!Domains
  <1>5. PICK e \in Hypervisor!Domains :
           e = [d EXCEPT !.on = on] /\ e.id = d.id /\ e.disk = d.disk /\ e.devices = d.devices
    BY PowerNow
  <1>6. domains' = [domains EXCEPT ![n] = e]
    BY <1>1, <1>2, <1>3, <1>4, <1>5 DEF MachineTypes
  <1>7. /\ domains' \in [Machines -> {None} \cup Hypervisor!Domains] /\ domains'[n] = e
        /\ \A m \in Machines : m # n => domains'[m] = domains[m]
    BY <1>2, <1>6, DomainNow
  <1>8. \A m \in Machines : /\ (domains'[m] = None) <=> (domains[m] = None)
                            /\ domains[m] # None => (/\ domains'[m].id = domains[m].id
                                                     /\ domains'[m].disk = domains[m].disk
                                                     /\ domains'[m].devices = domains[m].devices)
    BY <1>1, <1>3, <1>5, <1>7, NoneIsNone
  <1> QED BY <1>1, <1>7, <1>8, SameMachines

LEMMA OtherOperationKeeps ==
    ASSUME MachineInv, Hypervisor!OtherOperation
    PROVE  MachineInv'
  <1>1. /\ operation \in {None, "other"} /\ operation' \in {None, "other"}
        /\ UNCHANGED <<domains, files, requests, created, answered, deleted, attached>>
    BY DEF Hypervisor!OtherOperation, Hypervisor!history
  <1>2. \A q \in Requests : (operation' = q) <=> (operation = q)
    BY <1>1, NoneIsNone
  <1>3. domains' \in [Machines -> {None} \cup Hypervisor!Domains]
    BY <1>1 DEF MachineInv, MachineTypes
  <1> QED BY <1>1, <1>2, <1>3, SameMachines

LEMMA DeleteKeeps ==
    ASSUME MachineInv, NEW n \in Machines, Hypervisor!Delete(n)
    PROVE  MachineInv'
  <1>1. MachineTypes /\ Machine(n) /\ domains[n] # None /\ \A q \in Requests : requests[q].name # n
    BY DEF MachineInv, Hypervisor!Delete
  <1>2. domains[n].disk = n
    BY <1>1 DEF Machine
  <1>3. /\ domains' = [domains EXCEPT ![n] = None] /\ files' = [files EXCEPT ![n] = None]
        /\ deleted' = deleted \cup {domains[n].id}
        /\ UNCHANGED <<operation, requests, created, answered, attached>>
    BY <1>2 DEF Hypervisor!Delete
  <1>4. /\ domains' \in [Machines -> {None} \cup Hypervisor!Domains] /\ domains'[n] = None
        /\ \A m \in Machines : m # n => domains'[m] = domains[m]
    BY <1>1, <1>3, DomainNow
  <1>5. /\ files' \in [Machines -> {None} \cup Nat] /\ files'[n] = None
        /\ \A m \in Machines : m # n => files'[m] = files[m]
    BY <1>1, <1>3, FilesNow
  <1>6. MachineTypes'
    BY <1>1, <1>3, <1>4, <1>5 DEF MachineTypes
  <1>7. ASSUME NEW q \in Requests PROVE Request(q)'
    <2>1. Request(q) /\ requests[q] \in Asks /\ requests[q].name # n
      BY <1>1 DEF MachineInv, MachineTypes
    <2>2. CASE requests[q].name = None
      <3>1. /\ requests[q].step \notin {"ready", "installing", "created", "define", "destroy"}
            /\ requests[q].step \notin {"start", "attach", "undefine", "remove"}
        BY <2>1, <2>2, NoneIsNone DEF Request, Hypervisor!Steps
      <3> QED BY <1>3, <2>1, <3>1 DEF Request, Making
    <2>3. CASE requests[q].name # None
      <3>1. PICK m \in Machines : m = requests[q].name /\ m # n
        BY <2>1, <2>3 DEF Asks
      <3>2. domains'[m] = domains[m] /\ files'[m] = files[m]
        BY <1>4, <1>5, <3>1
      <3>3. Making(q)' <=> Making(q)
        BY <1>3 DEF Making
      <3> QED BY <1>3, <2>1, <3>1, <3>2, <3>3 DEF Request
    <2> QED BY <2>2, <2>3
  <1>8. ASSUME NEW m \in Machines PROVE Machine(m)'
    <2>1. CASE m = n
      BY <1>4, <1>5, <2>1 DEF Machine
    <2>2. CASE m # n
      <3>1. Machine(m) /\ domains'[m] = domains[m] /\ files'[m] = files[m]
        BY <1>4, <1>5, <2>2 DEF MachineInv
      <3> QED BY <1>3, <3>1 DEF Machine
    <2> QED BY <2>1, <2>2
  <1>9. \A r, q \in Requests :
           (Making(r)' /\ Making(q)' /\ requests'[r].id = requests'[q].id) => r = q
    BY <1>3 DEF MachineInv, Making
  <1>10. \A r, q \in Requests :
          (requests'[r].name = requests'[q].name /\ requests'[r].name # None) => r = q
    BY <1>3 DEF MachineInv
  <1>11. \A m, k \in Machines :
          (domains'[m] # None /\ domains'[k] # None /\ domains'[m].id = domains'[k].id) => m = k
    BY <1>4 DEF MachineInv
  <1>12. answered' \subseteq 1..created'
    BY <1>3 DEF MachineInv
  <1>13. ASSUME NEW id \in answered' \ deleted' PROVE \E m \in Machines : domains'[m] # None /\ domains'[m].id = id
    <2>1. id \in answered \ deleted /\ id # domains[n].id
      BY <1>3
    <2>2. PICK m \in Machines : domains[m] # None /\ domains[m].id = id
      BY <2>1 DEF MachineInv
    <2> QED BY <1>4, <2>1, <2>2
  <1>14. \A given \in attached' :
          /\ given[1] \in answered'
          /\ \A m \in Machines :
                (domains'[m] # None /\ domains'[m].id = given[1]) => given[2] \in domains'[m].devices
    BY <1>3, <1>4 DEF MachineInv
  <1> QED BY <1>6, <1>7, <1>8, <1>9, <1>10, <1>11, <1>12, <1>13, <1>14 DEF MachineInv

LEMMA MachineFirst == ASSUME Hypervisor!Init PROVE MachineInv
  <1>1. /\ domains = [n \in Machines |-> None] /\ files = [n \in Machines |-> None]
        /\ operation = None /\ requests = [r \in Requests |-> Hypervisor!Idle]
        /\ created = 0 /\ answered = {} /\ deleted = {} /\ attached = {}
    BY DEF Hypervisor!Init
  <1>2. MachineTypes
    BY <1>1, NoneIsIdle DEF MachineTypes
  <1>3. \A r \in Requests : requests[r].step = None /\ requests[r].name = None /\ ~Making(r)
    BY <1>1, NoneIsNone DEF Hypervisor!Idle, Making, Hypervisor!Steps
  <1>4. \A r \in Requests : Request(r)
    BY <1>1, <1>3, NoneIsNone DEF Request, Hypervisor!Steps
  <1>5. \A n \in Machines : Machine(n)
    BY <1>1 DEF Machine
  <1> QED BY <1>1, <1>2, <1>3, <1>4, <1>5 DEF MachineInv

LEMMA MachineSteps == ASSUME MachineInv, Hypervisor!Next PROVE MachineInv'
  <1>1. ASSUME NEW r \in Requests, NEW n \in Machines,
               Hypervisor!Create(r, n) \/ Hypervisor!Update(r, n)
                  \/ \E d \in Devices : Hypervisor!Attach(r, n, d)
        PROVE  MachineInv'
    BY <1>1, CreateKeeps, UpdateKeeps, AttachKeeps
  <1>2. ASSUME NEW r \in Requests, Hypervisor!Taken(r) \/ Hypervisor!Busy(r) PROVE MachineInv'
    <2>1. /\ requests[r].step \in {"taken", "ready", "define", "start", "attach"} /\ Hypervisor!Ends(r)
          /\ UNCHANGED <<domains, files, operation, created, answered, deleted, attached>>
      BY <1>2 DEF Hypervisor!Taken, Hypervisor!Busy, Hypervisor!hosts, Hypervisor!history
    <2> QED BY <2>1, LeavesKeeps
  <1>3. ASSUME NEW r \in Requests,
               \/ Hypervisor!Install(r) \/ Hypervisor!Installed(r) \/ Hypervisor!NotInstalled(r)
               \/ Hypervisor!Undefine(r) \/ Hypervisor!Remove(r) \/ Hypervisor!CreateAnswered(r)
        PROVE  MachineInv'
    BY <1>3, InstallKeeps, InstalledKeeps, NotInstalledKeeps, UndefineKeeps, RemoveKeeps,
       CreateAnsweredKeeps
  <1>4. ASSUME NEW r \in Requests,
               Hypervisor!Define(r) \/ Hypervisor!Restart(r) \/ Hypervisor!Attached(r)
        PROVE  MachineInv'
    BY <1>4, DefineKeeps, AgainKeeps, AttachedKeeps
  <1>5. ASSUME NEW n \in Machines,
               Hypervisor!Delete(n) \/ Hypervisor!Power(n)
                  \/ \E other \in Machines \ {n} : Hypervisor!Rename(n, other)
        PROVE  MachineInv'
    BY <1>5, DeleteKeeps, PowerKeeps DEF Hypervisor!Rename
  <1> QED BY <1>1, <1>2, <1>3, <1>4, <1>5, OtherOperationKeeps DEF Hypervisor!Next

LEMMA DisksAreKept == ASSUME MachineInv PROVE Hypervisor!MachinesKeepDisks
  <1> SUFFICES ASSUME NEW id \in answered \ deleted
               PROVE  \E n \in Machines :
                         domains[n] # None /\ domains[n].id = id /\ files[domains[n].disk] = id
    BY DEF Hypervisor!MachinesKeepDisks
  <1>1. PICK n \in Machines : domains[n] # None /\ domains[n].id = id
    BY DEF MachineInv
  <1>2. Machine(n)
    BY DEF MachineInv
  <1>3. ASSUME NEW r \in Requests, requests[r].name = n PROVE requests[r].step \notin {"undefine", "remove"}
    <2>1. Request(r)
      BY DEF MachineInv
    <2>2. requests[r].step # "remove"
      BY <1>1, <1>3, <2>1 DEF Request
    <2>3. requests[r].step # "undefine"
      BY <1>1, <1>3, <2>1 DEF Request, Making
    <2> QED BY <2>2, <2>3
  <1>4. domains[n].disk = n /\ files[n] = id
    BY <1>1, <1>2, <1>3 DEF Machine
  <1> QED BY <1>1, <1>4

LEMMA NothingIsLeft == ASSUME MachineInv PROVE Hypervisor!FailedLeavesNothing
  <1> DEFINE pending == {requests[r].id : r \in Requests}
  <1>1. \A r \in Requests : Request(r)
    BY DEF MachineInv
  <1>2. ASSUME NEW n \in Machines, domains[n] # None PROVE domains[n].id \in answered \cup pending
    BY <1>2 DEF MachineInv, Machine
  <1>3. ASSUME NEW n \in Machines, files[n] # None PROVE files[n] \in answered \cup pending
    <2>1. CASE \A r \in Requests : requests[r].name = n => requests[r].step \notin {"undefine", "remove"}
      <3>1. files[n] = (IF domains[n] = None THEN None ELSE domains[n].id)
        BY <2>1 DEF MachineInv, Machine
      <3> QED BY <1>2, <1>3, <3>1
    <2>2. ASSUME NEW r \in Requests, requests[r].name = n, requests[r].step \in {"undefine", "remove"}
          PROVE  files[n] \in pending
      BY <1>1, <2>2 DEF Request
    <2> QED BY <2>1, <2>2
  <1>4. \A r \in Requests : (operation = r) <=> (requests[r].step = "installing")
    BY <1>1 DEF Request
  <1> QED BY <1>2, <1>3, <1>4 DEF Hypervisor!FailedLeavesNothing

InMachines == part = "machines"

LEMMA MachinesStep == ASSUME MachineInv, [Next]_vars, part = "machines" PROVE MachineInv'
  <1>1. CASE Hypervisor!Next
    BY <1>1, MachineSteps
  <1>2. CASE UNCHANGED <<requestVars, machinesOwn, failures, changes>>
    BY <1>2 DEF requestVars, machinesOwn, MachineInv, MachineTypes, Request, Making, Machine
  <1> QED BY <1>1, <1>2, MachinesRun, PartStays

\* The invariant of the machines, while that part runs.
THEOREM MachinesInv == Spec => [](InMachines => MachineInv)
  <1>1. Init => (InMachines => MachineInv)
    BY MachinesBegin, MachineFirst DEF InMachines
  <1>2. (InMachines => MachineInv) /\ [Next]_vars => (InMachines => MachineInv)'
    BY MachinesStep, PartStays DEF InMachines
  <1> QED BY <1>1, <1>2, PTL DEF Spec

\* A machine whose creation was answered is there with the disk that was made for it, until
\* its deletion is asked for, and keeps the devices that were answered as added: the clean-up
\* of a creation that failed takes what that creation made (runtimes-next.mjs, createVm,
\* localUpdateVm, localAttachVmGuestDrivers).
THEOREM MachinesStay == Spec => []MachinesKeepDisks
  <1>1. (InMachines => MachineInv) => MachinesKeepDisks
    <2>1. MachineInv => Hypervisor!DevicesStay
      BY DEF MachineInv, Hypervisor!DevicesStay
    <2> QED BY <2>1, DisksAreKept DEF MachinesKeepDisks, InMachines
  <1> QED BY <1>1, MachinesInv, PTL

\* A creation that failed leaves neither a machine nor a disk, and exclusive() is held by a
\* request that installs (runtimes-next.mjs, createVm and exclusive).
THEOREM FailureLeavesNothing == Spec => []FailedLeavesNothing
  <1>1. (InMachines => MachineInv) => FailedLeavesNothing
    BY NothingIsLeft DEF FailedLeavesNothing, InMachines
  <1> QED BY <1>1, MachinesInv, PTL

-----------------------------------------------------------------------------
(* Applications of the catalogue *)

LEMMA AppsRun ==
    ASSUME [Next]_vars, part' = "apps"
    PROVE  Apps!Next \/ UNCHANGED <<requestVars, appsOwn, failures>>
  BY DEF Next, vars

LEMMA AppsBegin == ASSUME Init, part = "apps" PROVE Apps!Init
  BY DEF Init

AppAsks == [step : {None} \cup Apps!Steps, running : BOOLEAN, name : {None} \cup Instances,
            kind : {None, "install"} \cup Apps!Kinds, port : Nat]

Ports == {Apps!NoPort, Apps!Fixed} \cup Chosen

AppTypes ==
    /\ containers \in [Instances -> {None} \cup Apps!Published]
    /\ requests \in [Requests -> AppAsks]
    /\ listed \in [Instances -> {None} \cup Nat]
    /\ opened \subseteq Instances

Runs(i) == containers[i] # None /\ containers[i].on

\* The port that is a container's own, running or not.
PortOf(c) == IF c.asked # Apps!NoPort THEN c.asked ELSE c.port

\* A port that a removal of the instance may close: one it is listed with, one that a removal
\* under way was sent with, or one it runs on, which the list is going to show.
Claims(i, p) ==
    \/ listed[i] = p
    \/ \E r \in Requests : requests[r].name = i /\ requests[r].kind = "remove" /\ requests[r].port = p
    \/ Runs(i) /\ containers[i].port = p

AppRequest(r) ==
    /\ (requests[r].step = None) <=> (requests[r].name = None)
    /\ requests[r].step = "close" =>
          containers[requests[r].name] = None /\ requests[r].kind = "remove"
    /\ requests[r].step \in {"pull", "run"} =>
          requests[r].port \in Ports /\ (requests[r].port = Apps!Fixed => requests[r].name = Default)

\* What runs is on the port that was asked for, or on one of Docker's.
OnItsPort(c) == IF c.asked = Apps!NoPort THEN c.port \in Automatic ELSE c.port = c.asked

Instance(i) ==
    containers[i] # None =>
       /\ containers[i].asked = Apps!Fixed => i = Default
       /\ IF containers[i].on THEN OnItsPort(containers[i]) /\ ~Apps!Bound(containers[i].port, i)
                              ELSE containers[i].port = Apps!NoPort

\* The own port of an instance that was answered as open is open, and no removal of another
\* instance is going to close it.
StaysOpen(i) ==
    /\ containers[i] # None /\ (containers[i].asked = Apps!NoPort => containers[i].on)
    /\ PortOf(containers[i]) \in rules
    /\ \A j \in Instances \ {i} : ~Claims(j, PortOf(containers[i]))

AppsInv ==
    /\ AppTypes
    /\ \A r \in Requests : AppRequest(r)
    /\ \A r, q \in Requests :
          (requests[r].name = requests[q].name /\ requests[r].name # None) => r = q
    /\ \A i \in Instances : Instance(i)
    /\ \A i \in opened : StaysOpen(i)

LEMMA NoneIsNoApp == /\ None \notin Instances /\ None \notin Apps!Steps /\ None \notin Nat
                     /\ None \notin Apps!Published /\ Default \in Instances
                     /\ Apps!NoPort = 0 /\ Apps!Fixed = 1
                     /\ Automatic \cup Chosen \subseteq Nat \ {Apps!NoPort, Apps!Fixed}
  BY ControlAssumption DEF Apps!CatalogAppsAssumption, Apps!NoPort, Apps!Fixed

\* The own port of an instance is a port, and the catalogue's is the first instance's.
LEMMA PortIsOwn ==
    ASSUME AppTypes, NEW i \in Instances, Instance(i), StaysOpen(i)
    PROVE  LET p == PortOf(containers[i])
           IN  /\ p \in Nat /\ p # Apps!NoPort /\ (p = Apps!Fixed => i = Default)
               /\ containers[i].on => containers[i].port = p
  <1>1. PICK c \in Apps!Published : c = containers[i]
    BY DEF AppTypes, StaysOpen
  <1>2. c.asked \in Ports
    BY DEF Apps!Published, Ports
  <1>3. c # None
    BY <1>1 DEF StaysOpen
  <1>4. CASE c.asked = Apps!NoPort
    <2>1. c.port \in Automatic /\ PortOf(c) = c.port
      BY <1>1, <1>3, <1>4 DEF Instance, StaysOpen, OnItsPort, PortOf
    <2> QED BY <1>1, <2>1, NoneIsNoApp
  <1>5. CASE c.asked # Apps!NoPort
    <2>1. PortOf(c) = c.asked /\ (c.on => c.port = c.asked) /\ (c.asked = Apps!Fixed => i = Default)
      BY <1>1, <1>3, <1>5 DEF Instance, OnItsPort, PortOf
    <2> QED BY <1>1, <1>2, <1>5, <2>1, NoneIsNoApp DEF Ports
  <1> QED BY <1>4, <1>5

\* A step of one request about one instance leaves the claims of the others.
LEMMA OthersClaim ==
    ASSUME NEW r \in Requests, NEW i \in Instances, listed' = listed,
           \A q \in Requests : q # r => requests'[q] = requests[q],
           \A j \in Instances : j # i => containers'[j] = containers[j],
           requests'[r].name \in {None, i},
           NEW j \in Instances, j # i, NEW p, Claims(j, p)'
    PROVE  Claims(j, p)
  <1>1. \A q \in Requests : requests'[q].name = j => requests'[q] = requests[q]
    BY NoneIsNoApp
  <1> QED BY <1>1 DEF Claims, Runs

\* A step of one request, about one instance: it gets no claim to a port that is another's
\* own, and closes only ports it had a claim to.
LEMMA OneInstance ==
    ASSUME AppsInv, NEW r \in Requests, NEW i \in Instances, AppTypes', listed' = listed,
           \A q \in Requests : q # r => requests'[q] = requests[q],
           \A j \in Instances : j # i => containers'[j] = containers[j],
           requests[r].name \in {None, i}, requests'[r].name \in {None, i},
           requests[r].name = None => \A q \in Requests : requests[q].name # i,
           AppRequest(r)', Instance(i)',
           \A j \in opened' \ {i} :
              /\ j \in opened
              /\ Claims(i, PortOf(containers[j]))' => Claims(i, PortOf(containers[j])),
           \A p \in Nat : (p \in rules /\ p \notin rules') => Claims(i, p),
           i \in opened' => StaysOpen(i)'
    PROVE  AppsInv'
  <1>1. AppTypes
    BY DEF AppsInv
  <1>2. ASSUME NEW q \in Requests, q # r PROVE requests[q].name # i \/ requests[q].name = None
    BY <1>2 DEF AppsInv
  <1>3. ASSUME NEW q \in Requests, q # r PROVE AppRequest(q)'
    <2>1. requests'[q] = requests[q] /\ AppRequest(q) /\ requests[q] \in AppAsks
      BY <1>1, <1>3 DEF AppsInv, AppTypes
    <2>2. CASE requests[q].name = None
      <3>1. requests[q].step \notin {"close", "pull", "run"}
        BY <2>1, <2>2, NoneIsNoApp DEF AppRequest, Apps!Steps, Apps!Commands
      <3> QED BY <2>1, <3>1 DEF AppRequest
    <2>3. CASE requests[q].name # None
      <3>1. PICK j \in Instances : j = requests[q].name /\ j # i
        BY <1>2, <1>3, <2>1, <2>3 DEF AppAsks
      <3>2. containers'[j] = containers[j]
        BY <3>1
      <3> QED BY <2>1, <3>1, <3>2 DEF AppRequest
    <2> QED BY <2>2, <2>3
  <1>4. \A q \in Requests : AppRequest(q)'
    BY <1>3
  <1>5. \A q, p \in Requests :
           (requests'[q].name = requests'[p].name /\ requests'[q].name # None) => q = p
    BY <1>2 DEF AppsInv
  <1>6. ASSUME NEW j \in Instances PROVE Instance(j)'
    <2>1. CASE j # i
      <3>1. containers'[j] = containers[j] /\ Instance(j)
        BY <2>1 DEF AppsInv
      <3>2. ASSUME containers[j] # None, containers[j].on, Apps!Bound(containers[j].port, j)'
            PROVE  FALSE
        <4>1. PICK k \in Instances \ {j} : /\ containers'[k] # None /\ containers'[k].on
                                           /\ containers'[k].port = containers[j].port
          BY <3>1, <3>2 DEF Apps!Bound
        <4>2. CASE k = i
          <5>1. Apps!Bound(containers[k].port, i)'
            BY <2>1, <3>1, <3>2, <4>1, <4>2 DEF Apps!Bound
          <5> QED BY <4>1, <4>2, <5>1 DEF Instance
        <4>3. CASE k # i
          <5>1. containers'[k] = containers[k]
            BY <4>3
          <5> QED BY <3>1, <3>2, <4>1, <5>1 DEF Instance, Apps!Bound
        <4> QED BY <4>2, <4>3
      <3> QED BY <3>1, <3>2 DEF Instance
    <2> QED BY <2>1
  <1>7. ASSUME NEW j \in opened' PROVE StaysOpen(j)'
    <2>1. CASE j = i
      BY <1>7, <2>1
    <2>2. CASE j # i
      <3>1. j \in opened /\ j \in Instances
        BY <1>1, <1>7, <2>2 DEF AppTypes
      <3>2. StaysOpen(j) /\ Instance(j) /\ containers'[j] = containers[j]
        BY <2>2, <3>1 DEF AppsInv
      <3>3. PICK p : p = PortOf(containers[j])
        OBVIOUS
      <3>4. PortOf(containers[j])' = p
        BY <3>2, <3>3 DEF PortOf
      <3>5. p \in Nat /\ p \in rules /\ \A k \in Instances \ {j} : ~Claims(k, p)
        BY <1>1, <3>1, <3>2, <3>3, PortIsOwn DEF StaysOpen
      <3>6. ~Claims(i, p) /\ p \in rules'
        BY <2>2, <3>5
      <3>7. ~Claims(i, p)'
        BY <1>7, <2>2, <3>3, <3>4, <3>6 DEF Claims
      <3>8. ASSUME NEW k \in Instances \ {j} PROVE ~Claims(k, p)'
        <4>1. CASE k = i
          BY <3>7, <4>1
        <4>2. CASE k # i
          BY <3>5, <4>2, OthersClaim
        <4> QED BY <4>1, <4>2
      <3> QED BY <3>2, <3>4, <3>6, <3>8 DEF StaysOpen
    <2> QED BY <2>1, <2>2
  <1> QED BY <1>4, <1>5, <1>6, <1>7 DEF AppsInv

LEMMA AppNow ==
    ASSUME AppTypes, NEW r \in Requests, NEW a \in AppAsks, requests' = [requests EXCEPT ![r] = a]
    PROVE  /\ requests' \in [Requests -> AppAsks] /\ requests'[r] = a
           /\ \A q \in Requests : q # r => requests'[q] = requests[q]
  BY DEF AppTypes

\* What a request that ends or goes on is.
LEMMA AppEnds ==
    ASSUME NEW r \in Requests, Apps!Ends(r)
    PROVE  \E a \in AppAsks : /\ requests' = [requests EXCEPT ![r] = a]
                              /\ a.step = None /\ a.name = None
  <1>1. PICK a \in AppAsks : a = Apps!Idle
    BY NoneIsNoApp DEF Apps!Idle, AppAsks
  <1>2. a.step = None /\ a.name = None
    BY <1>1 DEF Apps!Idle
  <1> QED BY <1>1, <1>2 DEF Apps!Ends

LEMMA AppMoves ==
    ASSUME AppTypes, NEW r \in Requests, NEW next \in Apps!Steps, NEW on \in BOOLEAN,
           \/ requests' = [requests EXCEPT ![r].step = next, ![r].running = on]
           \/ next = requests[r].step /\ requests' = [requests EXCEPT ![r].running = on]
    PROVE  \E a \in AppAsks :
              /\ requests' = [requests EXCEPT ![r] = a]
              /\ a.step = next /\ a.name = requests[r].name /\ a.port = requests[r].port
              /\ a.kind = requests[r].kind
  <1>1. PICK h \in AppAsks : h = requests[r]
    BY DEF AppTypes
  <1>2. PICK b \in AppAsks : b = [h EXCEPT !.step = next]
    BY DEF AppAsks
  <1>3. PICK a \in AppAsks : a = [b EXCEPT !.running = on]
    BY DEF AppAsks
  <1>4. a.step = next /\ a.name = h.name /\ a.port = h.port /\ a.kind = h.kind
    BY <1>2, <1>3 DEF AppAsks
  <1>5. CASE requests' = [requests EXCEPT ![r].step = next, ![r].running = on]
    BY <1>1, <1>2, <1>3, <1>4, <1>5 DEF AppTypes
  <1>6. CASE next = requests[r].step /\ requests' = [requests EXCEPT ![r].running = on]
    <2>1. b = h
      BY <1>1, <1>2, <1>6 DEF AppAsks
    <2> QED BY <1>1, <1>3, <1>4, <1>6, <2>1 DEF AppTypes
  <1> QED BY <1>5, <1>6

LEMMA AppNamed ==
    ASSUME AppsInv, NEW r \in Requests, requests[r].step # None
    PROVE  /\ requests[r].name \in Instances /\ requests[r].name # None
           /\ \A q \in Requests : q # r => requests[q].name # requests[r].name
  <1>1. AppTypes /\ AppRequest(r)
    BY DEF AppsInv
  <1>2. requests[r].name \in Instances
    BY <1>1 DEF AppRequest, AppTypes, AppAsks
  <1> QED BY <1>2, NoneIsNoApp DEF AppsInv

\* A step that changes no container.
LEMMA RequestKeeps ==
    ASSUME AppsInv, NEW r \in Requests, NEW i \in Instances, NEW a \in AppAsks,
           requests' = [requests EXCEPT ![r] = a],
           UNCHANGED <<containers, listed, opened>>,
           requests[r].name \in {None, i}, a.name \in {None, i},
           requests[r].name = None => \A q \in Requests : requests[q].name # i,
           (a.step = None) <=> (a.name = None),
           a.step = "close" => containers[i] = None /\ a.kind = "remove",
           a.step \in {"pull", "run"} => a.port \in Ports /\ (a.port = Apps!Fixed => a.name = Default),
           a.name = i /\ a.kind = "remove" => Claims(i, a.port),
           \/ rules' = rules
           \/ containers[i] = None /\ \A p \in Nat : (p \in rules /\ p \notin rules') => Claims(i, p)
    PROVE  AppsInv'
  <1>1. AppTypes /\ Instance(i) /\ AppRequest(r)
    BY DEF AppsInv
  <1>2. /\ requests' \in [Requests -> AppAsks] /\ requests'[r] = a
        /\ \A q \in Requests : q # r => requests'[q] = requests[q]
    BY <1>1, AppNow
  <1>3. AppTypes'
    BY <1>1, <1>2 DEF AppTypes
  <1>4. AppRequest(r)'
    <2>1. a.step = "close" => (a.name = i /\ containers'[i] = None)
      BY NoneIsNoApp DEF Apps!Steps
    <2> QED BY <1>2, <2>1 DEF AppRequest
  <1>5. Instance(i)'
    BY <1>1 DEF Instance, Apps!Bound
  <1>6. ASSUME NEW p, Claims(i, p)'
        PROVE  Claims(i, p)
    <2>1. ASSUME NEW q \in Requests, requests'[q].name = i, requests'[q].kind = "remove",
                 requests'[q].port = p
          PROVE  Claims(i, p)
      <3>1. CASE q = r
        BY <1>2, <2>1, <3>1
      <3>2. CASE q # r
        BY <1>2, <2>1, <3>2 DEF Claims
      <3> QED BY <3>1, <3>2
    <2>2. CASE listed'[i] = p \/ (Runs(i)' /\ containers'[i].port = p)
      BY <2>2 DEF Claims, Runs
    <2> QED BY <1>6, <2>1, <2>2 DEF Claims
  <1>7. i \in opened' => StaysOpen(i)'
    <2> SUFFICES ASSUME i \in opened PROVE StaysOpen(i)'
      OBVIOUS
    <2>1. StaysOpen(i)
      BY DEF AppsInv
    <2>2. rules' = rules /\ containers' = containers
      BY <2>1 DEF StaysOpen
    <2>3. \A j \in Instances \ {i} : \A p : Claims(j, p)' => Claims(j, p)
      BY <1>2, OthersClaim
    <2>4. PortOf(containers[i])' = PortOf(containers[i])
      BY <2>2 DEF PortOf
    <2> QED BY <2>1, <2>2, <2>3, <2>4 DEF StaysOpen
  <1>8. /\ \A j \in Instances : j # i => containers'[j] = containers[j]
        /\ \A p \in Nat : (p \in rules /\ p \notin rules') => Claims(i, p)
        /\ listed' = listed /\ requests'[r].name \in {None, i}
    BY <1>2
  <1>9. \A j \in opened' \ {i} :
           /\ j \in opened
           /\ Claims(i, PortOf(containers[j]))' => Claims(i, PortOf(containers[j]))
    BY <1>6 DEF Claims, PortOf, Runs
  <1> QED BY <1>2, <1>3, <1>4, <1>5, <1>7, <1>8, <1>9, OneInstance

\* A request that ends, or closes its port.
LEMMA AppEndKeeps ==
    ASSUME AppsInv, NEW r \in Requests, requests[r].step # None, Apps!Ends(r),
           UNCHANGED <<containers, listed, opened>>,
           \/ rules' = rules
           \/ requests[r].step = "close" /\ rules' = rules \ {requests[r].port}
    PROVE  AppsInv'
  <1>1. PICK i \in Instances : i = requests[r].name
    BY AppNamed
  <1>2. PICK a \in AppAsks : /\ requests' = [requests EXCEPT ![r] = a]
                             /\ a.step = None /\ a.name = None
    BY AppEnds
  <1>3. AppRequest(r) /\ i # None
    BY <1>1, NoneIsNoApp DEF AppsInv
  <1>4. \/ rules' = rules
        \/ containers[i] = None /\ \A p \in Nat : (p \in rules /\ p \notin rules') => Claims(i, p)
    <2>1. CASE requests[r].step = "close" /\ rules' = rules \ {requests[r].port}
      BY <1>1, <1>3, <2>1 DEF AppRequest, Claims
    <2> QED BY <2>1
  <1>5. a.step \notin {"close", "pull", "run"} /\ a.name # i /\ requests[r].name # None
    BY <1>1, <1>2, <1>3, NoneIsNoApp DEF Apps!Steps, Apps!Commands
  <1> QED BY <1>1, <1>2, <1>4, <1>5, RequestKeeps

\* A request that goes on with another command.
LEMMA AppMoveKeeps ==
    ASSUME AppsInv, NEW r \in Requests, requests[r].step \in Apps!Commands,
           NEW next \in Apps!Commands, NEW on \in BOOLEAN,
           \/ requests' = [requests EXCEPT ![r].step = next, ![r].running = on]
           \/ next = requests[r].step /\ requests' = [requests EXCEPT ![r].running = on],
           next \in {"pull", "run"} => requests[r].step \in {"pull", "run"},
           UNCHANGED <<containers, rules, listed, opened>>
    PROVE  AppsInv'
  <1>1. /\ requests[r].step # None /\ next \in Apps!Steps /\ next # None /\ next # "close"
    BY NoneIsNoApp DEF Apps!Steps, Apps!Commands
  <1>2. PICK i \in Instances : i = requests[r].name /\ i # None
    BY <1>1, AppNamed
  <1>3. AppTypes /\ AppRequest(r)
    BY DEF AppsInv
  <1>4. PICK a \in AppAsks :
              /\ requests' = [requests EXCEPT ![r] = a]
              /\ a.step = next /\ a.name = requests[r].name /\ a.port = requests[r].port
              /\ a.kind = requests[r].kind
    BY <1>1, <1>3, AppMoves
  <1>5. a.step \in {"pull", "run"} => a.port \in Ports /\ (a.port = Apps!Fixed => a.name = Default)
    BY <1>3, <1>4 DEF AppRequest
  <1>6. a.kind = "remove" => Claims(i, a.port)
    BY <1>2, <1>4 DEF Claims
  <1> QED BY <1>1, <1>2, <1>4, <1>5, <1>6, RequestKeeps

LEMMA AppFree ==
    ASSUME NEW r \in Requests, NEW i \in Instances, Apps!Free(r, i)
    PROVE  /\ requests[r].step = None /\ requests[r].name = None
           /\ \A q \in Requests : requests[q].name # i
  BY DEF Apps!Free, Apps!Idle

LEMMA AppInstallKeeps ==
    ASSUME AppsInv, NEW r \in Requests, NEW i \in Instances, NEW port \in Ports, Apps!Install(r, i, port)
    PROVE  AppsInv'
  <1>1. /\ requests[r].step = None /\ requests[r].name = None
        /\ \A q \in Requests : requests[q].name # i
    BY AppFree DEF Apps!Install
  <1>2. port \in Nat /\ (port = Apps!Fixed => i = Default)
    BY NoneIsNoApp DEF Apps!Install, Ports
  <1>3. PICK a \in AppAsks :
           a = [step |-> "pull", running |-> FALSE, name |-> i, kind |-> "install", port |-> port]
    BY <1>2 DEF AppAsks, Apps!Steps, Apps!Commands
  <1>4. requests' = [requests EXCEPT ![r] = a]
    BY <1>3 DEF Apps!Install
  <1>5. UNCHANGED <<containers, rules, listed, opened>>
    BY DEF Apps!Install
  <1>6. a.step = "pull" /\ a.name = i /\ a.port = port /\ a.kind = "install"
    BY <1>3
  <1>7. "pull" # None /\ i # None
    BY NoneIsNoApp DEF Apps!Steps, Apps!Commands
  <1> QED BY <1>1, <1>2, <1>4, <1>5, <1>6, <1>7, RequestKeeps

LEMMA AppManageKeeps ==
    ASSUME AppsInv, NEW r \in Requests, NEW i \in Instances, NEW kind \in Apps!Kinds,
           Apps!Manage(r, i, kind)
    PROVE  AppsInv'
  <1>1. /\ requests[r].step = None /\ requests[r].name = None
        /\ \A q \in Requests : requests[q].name # i
    BY AppFree DEF Apps!Manage
  <1>2. PICK port \in Nat : port = listed[i]
    BY DEF Apps!Manage, AppsInv, AppTypes
  <1>3. PICK a \in AppAsks :
           a = [step |-> "inspect", running |-> FALSE, name |-> i, kind |-> kind, port |-> port]
    BY DEF AppAsks, Apps!Steps, Apps!Commands
  <1>4. requests' = [requests EXCEPT ![r] = a]
    BY <1>2, <1>3 DEF Apps!Manage
  <1>5. UNCHANGED <<containers, rules, listed, opened>>
    BY DEF Apps!Manage
  <1>6. a.step = "inspect" /\ a.name = i /\ a.port = port /\ Claims(i, port)
    BY <1>2, <1>3 DEF Claims
  <1>7. "inspect" # None /\ i # None
    BY NoneIsNoApp DEF Apps!Steps, Apps!Commands
  <1> QED BY <1>1, <1>2, <1>4, <1>5, <1>6, <1>7, RequestKeeps

\* What a request leaves under a name: a container on its port that no other has, ...
FitsPort(i, d) ==
    d # None =>
       /\ d.asked = Apps!Fixed => i = Default
       /\ IF d.on THEN OnItsPort(d) /\ ~Apps!Bound(d.port, i) ELSE d.port = Apps!NoPort

\* ... that is not the own port of one that was answered as open, ...
Apart(i, d) ==
    \A j \in opened' \ {i} :
       /\ j \in opened
       /\ d # None /\ d.on => d.port # PortOf(containers[j]) \/ Claims(i, d.port)

\* ... and open if it was answered so itself.
OwnIsOpen(i, d) ==
    i \in opened' =>
       /\ d # None /\ (d.asked = Apps!NoPort => d.on) /\ PortOf(d) \in rules'
       /\ \A j \in Instances \ {i} : ~Claims(j, PortOf(d))

\* What the request waits for then.
Follows(a, r, i, d) ==
    /\ a.name \in {None, i} /\ ((a.step = None) <=> (a.name = None))
    /\ a.step \notin {"pull", "run"}
    /\ a.step = "close" => d = None /\ a.kind = "remove"
    /\ a.name = i => a.port = requests[r].port /\ a.kind = requests[r].kind

\* A request changes its container, or removes it.
LEMMA ContainerKeeps ==
    ASSUME AppsInv, NEW r \in Requests, NEW i \in Instances, NEW a \in AppAsks,
           NEW d \in {None} \cup Apps!Published,
           requests[r].step # None, i = requests[r].name,
           requests' = [requests EXCEPT ![r] = a], containers' = [containers EXCEPT ![i] = d],
           rules \subseteq rules', listed' = listed, opened' \subseteq Instances,
           Follows(a, r, i, d), FitsPort(i, d), Apart(i, d), OwnIsOpen(i, d)
    PROVE  AppsInv'
  <1> USE DEF Follows
  <1>1. AppTypes /\ i # None /\ \A q \in Requests : q # r => requests[q].name # i
    BY AppNamed DEF AppsInv
  <1>2. /\ requests' \in [Requests -> AppAsks] /\ requests'[r] = a
        /\ \A q \in Requests : q # r => requests'[q] = requests[q]
    BY <1>1, AppNow
  <1>3. /\ containers' \in [Instances -> {None} \cup Apps!Published] /\ containers'[i] = d
        /\ \A j \in Instances : j # i => containers'[j] = containers[j]
    BY <1>1 DEF AppTypes
  <1>4. AppTypes'
    BY <1>1, <1>2, <1>3 DEF AppTypes
  <1>5. AppRequest(r)'
    <2>1. a.step = "close" => a.name = i
      BY NoneIsNoApp DEF Apps!Steps
    <2> QED BY <1>2, <1>3, <2>1 DEF AppRequest
  <1>6. Instance(i)'
    <2>1. ASSUME NEW p PROVE Apps!Bound(p, i)' = Apps!Bound(p, i)
      BY <1>3 DEF Apps!Bound
    <2>2. d # None => (Apps!Bound(containers[i].port, i)' <=> Apps!Bound(d.port, i))
      BY <1>3, <2>1 DEF Apps!Bound
    <2> QED BY <1>3, <2>2 DEF Instance, FitsPort
  <1>7. ASSUME NEW p, Claims(i, p)'
        PROVE  Claims(i, p) \/ (d # None /\ d.on /\ d.port = p)
    <2>1. CASE \E q \in Requests : requests'[q].name = i /\ requests'[q].kind = "remove" /\ requests'[q].port = p
      <3>1. PICK q \in Requests : requests'[q].name = i /\ requests'[q].kind = "remove" /\ requests'[q].port = p
        BY <2>1
      <3>2. q = r
        BY <1>1, <1>2, <3>1
      <3>3. requests[r].name = i /\ requests[r].kind = "remove" /\ requests[r].port = p
        BY <1>2, <3>1, <3>2
      <3> QED BY <3>3 DEF Claims
    <2>2. CASE Runs(i)' /\ containers'[i].port = p
      BY <1>3, <2>2 DEF Runs
    <2>3. CASE listed'[i] = p
      BY <2>3 DEF Claims
    <2> QED BY <1>7, <2>1, <2>2, <2>3 DEF Claims
  <1>8. i \in opened' => StaysOpen(i)'
    <2> SUFFICES ASSUME i \in opened' PROVE StaysOpen(i)'
      OBVIOUS
    <2>1. PICK p : p = PortOf(d)
      OBVIOUS
    <2>2. PortOf(containers[i])' = p
      BY <1>3, <2>1 DEF PortOf
    <2>3. \A j \in Instances \ {i} : ~Claims(j, p)'
      BY <1>2, <1>3, <2>1, OthersClaim DEF OwnIsOpen
    <2> QED BY <1>3, <2>1, <2>2, <2>3 DEF StaysOpen, OwnIsOpen
  <1>9. ASSUME NEW j \in opened' \ {i}
        PROVE  /\ j \in opened
               /\ Claims(i, PortOf(containers[j]))' => Claims(i, PortOf(containers[j]))
    <2>1. PICK p : p = PortOf(containers[j])
      OBVIOUS
    <2>2. PortOf(containers[j])' = p
      BY <1>3, <1>9, <2>1 DEF PortOf, Apart
    <2>3. Claims(i, p)' => Claims(i, p)
      BY <1>7, <1>9, <2>1 DEF Apart
    <2> QED BY <1>9, <2>1, <2>2, <2>3 DEF Claims, Apart
  <1>10. /\ \A p \in Nat : (p \in rules /\ p \notin rules') => Claims(i, p)
         /\ requests'[r].name \in {None, i} /\ requests[r].name # None
    BY <1>1, <1>2
  <1> QED BY <1>2, <1>3, <1>4, <1>5, <1>6, <1>8, <1>9, <1>10, OneInstance

\* A container that runs on the port that was asked for, or on one of Docker's.
LEMMA RunsNow ==
    ASSUME NEW i \in Instances, NEW asked \in Ports, Apps!Run(i, asked)
    PROVE  \E d \in Apps!Published :
              /\ containers' = [containers EXCEPT ![i] = d]
              /\ d # None /\ d.asked = asked /\ d.on /\ OnItsPort(d) /\ ~Apps!Bound(d.port, i)
  <1>1. PICK p \in Apps!Picked(i, asked) :
           containers' = [containers EXCEPT ![i] = [asked |-> asked, port |-> p, on |-> TRUE]]
    BY DEF Apps!Run
  <1>2. /\ p \in (IF asked = Apps!NoPort THEN Automatic ELSE {asked}) /\ ~Apps!Bound(p, i)
    BY DEF Apps!Picked
  <1>3. p \in Nat
    BY <1>2, NoneIsNoApp DEF Ports
  <1>4. PICK d \in Apps!Published : d = [asked |-> asked, port |-> p, on |-> TRUE]
    BY <1>3 DEF Apps!Published, Ports
  <1>5. d.asked = asked /\ d.on /\ d.port = p /\ d # None
    BY <1>4, NoneIsNoApp
  <1> QED BY <1>1, <1>2, <1>4, <1>5 DEF OnItsPort

\* What runs on a port no other container has: the instances that stay open have another
\* port of their own.
LEMMA StillOpenApart ==
    ASSUME AppsInv, NEW i \in Instances, NEW d, containers'[i] = d, d # None, d.on,
           ~Apps!Bound(d.port, i), NEW j \in Apps!StillOpen(i)
    PROVE  j \in opened /\ j # i /\ d.port # PortOf(containers[j])
  <1>1. j \in opened /\ j # i /\ containers[j].asked # d.port
    BY DEF Apps!StillOpen
  <1>2. j \in Instances /\ Instance(j) /\ StaysOpen(j) /\ AppTypes
    BY <1>1 DEF AppsInv, AppTypes
  <1>3. CASE containers[j].asked # Apps!NoPort
    BY <1>1, <1>3 DEF PortOf
  <1>4. CASE containers[j].asked = Apps!NoPort
    BY <1>1, <1>2, <1>4 DEF PortOf, StaysOpen, Apps!Bound
  <1> QED BY <1>1, <1>3, <1>4

LEMMA AppRanKeeps ==
    ASSUME AppsInv, NEW r \in Requests, Apps!Ran(r)
    PROVE  AppsInv'
  <1>1. requests[r].step = "run" /\ requests[r].step # None
    BY NoneIsNoApp DEF Apps!Ran, Apps!Done, Apps!Runs, Apps!Steps, Apps!Commands
  <1>2. PICK i \in Instances : i = requests[r].name
    BY <1>1, AppNamed
  <1>3. AppTypes /\ AppRequest(r)
    BY DEF AppsInv
  <1>4. PICK asked \in Ports :
           asked = requests[r].port /\ (asked = Apps!Fixed => i = Default)
    BY <1>1, <1>2, <1>3 DEF AppRequest
  <1>5. /\ requests' = [requests EXCEPT ![r].step = "open", ![r].running = FALSE]
        /\ containers[i] = None /\ Apps!Run(i, asked) /\ opened' = Apps!StillOpen(i)
        /\ UNCHANGED <<rules, listed>>
    BY <1>2, <1>4 DEF Apps!Ran, Apps!Done
  <1>6. PICK d \in Apps!Published :
              /\ containers' = [containers EXCEPT ![i] = d]
              /\ d # None /\ d.asked = asked /\ d.on /\ OnItsPort(d) /\ ~Apps!Bound(d.port, i)
    BY <1>5, RunsNow
  <1>7. "open" \in Apps!Steps /\ FALSE \in BOOLEAN
    BY DEF Apps!Steps
  <1>8. PICK a \in AppAsks :
              /\ requests' = [requests EXCEPT ![r] = a]
              /\ a.step = "open" /\ a.name = requests[r].name /\ a.port = requests[r].port
              /\ a.kind = requests[r].kind
    BY <1>3, <1>5, <1>7, AppMoves
  <1>9. /\ i \notin opened' /\ opened' \subseteq Instances
        /\ a.step # None /\ a.name # None
    BY <1>2, <1>3, <1>5, <1>7, <1>8, NoneIsNoApp DEF AppTypes, Apps!StillOpen
  <1>10. Apart(i, d)
    <2>1. containers'[i] = d
      BY <1>3, <1>6 DEF AppTypes
    <2> QED BY <1>5, <1>6, <2>1, StillOpenApart DEF Apart
  <1>11. Follows(a, r, i, d) /\ FitsPort(i, d) /\ OwnIsOpen(i, d)
    BY <1>2, <1>4, <1>6, <1>8, <1>9 DEF Follows, FitsPort, OwnIsOpen
  <1> QED BY <1>1, <1>2, <1>5, <1>6, <1>8, <1>9, <1>10, <1>11, ContainerKeeps

LEMMA AppRunFailedKeeps ==
    ASSUME AppsInv, NEW r \in Requests, Apps!RunFailed(r)
    PROVE  AppsInv'
  <1>1. requests[r].step = "run" /\ requests[r].step # None
    BY NoneIsNoApp DEF Apps!RunFailed, Apps!Runs, Apps!Steps, Apps!Commands
  <1>2. PICK i \in Instances : i = requests[r].name
    BY <1>1, AppNamed
  <1>3. AppTypes /\ AppRequest(r)
    BY DEF AppsInv
  <1>4. PICK asked \in Ports :
           asked = requests[r].port /\ (asked = Apps!Fixed => i = Default)
    BY <1>1, <1>2, <1>3 DEF AppRequest
  <1>5. PICK d \in Apps!Published : d = [asked |-> asked, port |-> Apps!NoPort, on |-> FALSE]
    BY NoneIsNoApp DEF Apps!Published, Ports
  <1>6. /\ Apps!Ends(r) /\ UNCHANGED <<rules, listed, opened>>
        /\ \/ containers' = containers
           \/ containers[i] = None /\ containers' = [containers EXCEPT ![i] = d]
    BY <1>2, <1>4, <1>5 DEF Apps!RunFailed
  <1>7. CASE containers' = containers
    BY <1>1, <1>6, <1>7, AppEndKeeps
  <1>8. CASE containers[i] = None /\ containers' = [containers EXCEPT ![i] = d]
    <2>1. PICK a \in AppAsks : /\ requests' = [requests EXCEPT ![r] = a]
                               /\ a.step = None /\ a.name = None
      BY <1>6, AppEnds
    <2>2. i \notin opened /\ opened \subseteq Instances
      BY <1>3, <1>8 DEF AppsInv, StaysOpen, AppTypes
    <2>3. a.step \notin {"close", "pull", "run"} /\ i # None
      BY <2>1, NoneIsNoApp DEF Apps!Steps, Apps!Commands
    <2>4. d.asked = asked /\ d.port = Apps!NoPort /\ ~d.on
      BY <1>5
    <2>5. Follows(a, r, i, d) /\ FitsPort(i, d) /\ OwnIsOpen(i, d) /\ Apart(i, d)
      BY <1>4, <1>6, <2>1, <2>2, <2>3, <2>4 DEF Follows, FitsPort, OwnIsOpen, Apart
    <2> QED BY <1>1, <1>2, <1>6, <1>8, <2>1, <2>2, <2>5, ContainerKeeps
  <1> QED BY <1>6, <1>7, <1>8

LEMMA AppOpenKeeps ==
    ASSUME AppsInv, NEW r \in Requests, Apps!Open(r)
    PROVE  AppsInv'
  <1>1. requests[r].step = "open" /\ requests[r].step # None /\ Apps!Ends(r)
    BY NoneIsNoApp DEF Apps!Open, Apps!Steps
  <1>2. PICK i \in Instances : i = requests[r].name
    BY <1>1, AppNamed
  <1>3. UNCHANGED <<containers, listed>>
    BY DEF Apps!Open
  <1>4. CASE UNCHANGED <<rules, opened>>
    BY <1>1, <1>3, <1>4, AppEndKeeps
  <1>5. CASE /\ containers[i] # None /\ containers[i].on
             /\ rules' = rules \cup {containers[i].port}
             /\ opened' = IF Apps!Stale(i, containers[i].port) THEN opened ELSE opened \cup {i}
    <2>1. PICK a \in AppAsks : /\ requests' = [requests EXCEPT ![r] = a]
                               /\ a.step = None /\ a.name = None
      BY <1>1, AppEnds
    <2>2. AppTypes /\ Instance(i)
      BY DEF AppsInv
    <2>3. PICK d \in Apps!Published : d = containers[i] /\ d # None
      BY <1>5, <2>2 DEF AppTypes
    <2>4. containers' = [containers EXCEPT ![i] = d]
      BY <1>3, <2>2, <2>3 DEF AppTypes
    <2>5. a.step \notin {"close", "pull", "run"} /\ i # None
      BY <2>1, NoneIsNoApp DEF Apps!Steps, Apps!Commands
    <2>6. /\ d.asked = Apps!Fixed => i = Default
          /\ d.on /\ OnItsPort(d) /\ ~Apps!Bound(d.port, i)
      BY <1>5, <2>2, <2>3 DEF Instance
    <2>7. PortOf(d) = d.port /\ d.port \in rules'
      BY <1>5, <2>3, <2>6 DEF OnItsPort, PortOf
    <2>8. i \in opened' => \A j \in Instances \ {i} : ~Claims(j, PortOf(d))
      <3>1. CASE i \in opened
        BY <2>3, <3>1 DEF AppsInv, StaysOpen
      <3>2. CASE ~Apps!Stale(i, d.port)
        BY <2>3, <2>6, <2>7, <3>2 DEF Claims, Runs, Apps!Stale, Apps!Bound
      <3> QED BY <1>5, <2>3, <3>1, <3>2
    <2>9. Apart(i, d)
      BY <1>5, <2>3, <2>6 DEF Claims, Runs, Apart
    <2>10. opened' \subseteq Instances /\ rules \subseteq rules'
      BY <1>5, <2>2 DEF AppTypes
    <2>11. Follows(a, r, i, d) /\ FitsPort(i, d) /\ OwnIsOpen(i, d)
      BY <2>1, <2>3, <2>5, <2>6, <2>7, <2>8 DEF Follows, FitsPort, OwnIsOpen
    <2> QED BY <1>1, <1>2, <1>3, <2>1, <2>3, <2>4, <2>9, <2>10, <2>11, ContainerKeeps
  <1> QED BY <1>2, <1>4, <1>5 DEF Apps!Open

LEMMA AppManagedKeeps ==
    ASSUME AppsInv, NEW r \in Requests, Apps!Managed(r)
    PROVE  AppsInv'
  <1>1. requests[r].step = "manage" /\ requests[r].step # None
    BY NoneIsNoApp DEF Apps!Managed, Apps!Runs, Apps!Steps, Apps!Commands
  <1>2. PICK i \in Instances : i = requests[r].name
    BY <1>1, AppNamed
  <1>3. AppTypes /\ Instance(i) /\ i # None
    BY NoneIsNoApp DEF AppsInv
  <1>4. PICK kind : kind = requests[r].kind
    OBVIOUS
  <1>5. /\ containers[i] # None /\ Apps!Effect(i, kind) /\ UNCHANGED <<rules, listed>>
        /\ IF kind = "remove" /\ requests[r].port # Apps!NoPort
           THEN requests' = [requests EXCEPT ![r].step = "close", ![r].running = FALSE]
           ELSE Apps!Ends(r)
        /\ opened' = Apps!StillOpen(i) \cup
              (IF i \in opened /\ kind # "remove"
                  /\ (containers[i].asked # Apps!NoPort \/ containers'[i] = containers[i])
               THEN {i} ELSE {})
    BY <1>2, <1>4 DEF Apps!Managed
  <1>6. PICK c \in Apps!Published : c = containers[i] /\ c # None
    BY <1>3, <1>5 DEF AppTypes
  <1>7. PICK a \in AppAsks :
              /\ requests' = [requests EXCEPT ![r] = a]
              /\ \/ a.step = None /\ a.name = None
                 \/ /\ a.step = "close" /\ kind = "remove" /\ a.name = i
                    /\ a.port = requests[r].port /\ a.kind = kind
    <2>1. CASE Apps!Ends(r)
      <3>1. PICK a \in AppAsks : requests' = [requests EXCEPT ![r] = a] /\ a.step = None /\ a.name = None
        BY <2>1, AppEnds
      <3> QED BY <3>1
    <2>2. CASE /\ kind = "remove"
               /\ requests' = [requests EXCEPT ![r].step = "close", ![r].running = FALSE]
      <3>1. "close" \in Apps!Steps /\ FALSE \in BOOLEAN
        BY DEF Apps!Steps
      <3>2. PICK a \in AppAsks :
              /\ requests' = [requests EXCEPT ![r] = a]
              /\ a.step = "close" /\ a.name = requests[r].name /\ a.port = requests[r].port
              /\ a.kind = requests[r].kind
        BY <1>3, <2>2, <3>1, AppMoves
      <3> QED BY <1>2, <1>4, <2>2, <3>2
    <2> QED BY <1>5, <2>1, <2>2
  <1>8. ASSUME NEW d, kind = "remove" => d = None PROVE Follows(a, r, i, d)
    BY <1>3, <1>4, <1>7, <1>8, NoneIsNoApp DEF Apps!Steps, Apps!Commands, Follows
  <1>9. /\ opened' \subseteq Instances /\ rules \subseteq rules'
        /\ \A j \in opened' \ {i} : j \in opened /\ j \in Apps!StillOpen(i)
        /\ i \in opened' =>
              /\ i \in opened /\ kind # "remove"
              /\ c.asked # Apps!NoPort \/ containers'[i] = c
    BY <1>2, <1>3, <1>5, <1>6 DEF AppTypes, Apps!StillOpen
  <1>10. c.asked \in Ports /\ FitsPort(i, c)
    BY <1>3, <1>6 DEF Instance, Apps!Published, Ports, FitsPort
  <1>11. i \in opened => /\ c.asked = Apps!NoPort => c.on
                         /\ PortOf(c) \in rules
                         /\ \A j \in Instances \ {i} : ~Claims(j, PortOf(c))
    BY <1>6 DEF AppsInv, StaysOpen
  <1>12. CASE kind = "remove"
    <2>1. containers' = [containers EXCEPT ![i] = None]
      BY <1>5, <1>12 DEF Apps!Effect, Apps!Started
    <2>2. i \notin opened'
      BY <1>9, <1>12
    <2>3. PICK d \in {None} \cup Apps!Published : d = None
      OBVIOUS
    <2>4. Follows(a, r, i, d) /\ FitsPort(i, d) /\ Apart(i, d) /\ OwnIsOpen(i, d)
      BY <1>8, <1>9, <2>2, <2>3 DEF FitsPort, Apart, OwnIsOpen
    <2> QED BY <1>1, <1>2, <1>5, <1>7, <1>9, <2>1, <2>3, <2>4, ContainerKeeps
  <1>13. CASE kind = "stop"
    <2>1. PICK b \in Apps!Published : b = [c EXCEPT !.on = FALSE]
      BY DEF Apps!Published
    <2>2. PICK d \in Apps!Published : d = [b EXCEPT !.port = Apps!NoPort]
      BY NoneIsNoApp DEF Apps!Published
    <2>3. d.asked = c.asked /\ ~d.on /\ d.port = Apps!NoPort /\ d # None
      BY <2>1, <2>2, NoneIsNoApp DEF Apps!Published
    <2>4. containers' = [containers EXCEPT ![i].on = FALSE, ![i].port = Apps!NoPort]
      BY <1>5, <1>13 DEF Apps!Effect, Apps!Started
    <2>5. containers' = [containers EXCEPT ![i] = d] /\ containers'[i] = d
      BY <1>3, <1>6, <2>1, <2>2, <2>4 DEF AppTypes
    <2>6. i \in opened' => i \in opened /\ d.asked # Apps!NoPort /\ PortOf(d) = PortOf(c)
      <3> SUFFICES ASSUME i \in opened' PROVE i \in opened /\ d.asked # Apps!NoPort /\ PortOf(d) = PortOf(c)
        OBVIOUS
      <3>1. i \in opened /\ (c.asked # Apps!NoPort \/ d = c)
        BY <1>9, <2>5
      <3>2. c.asked # Apps!NoPort
        BY <1>11, <2>3, <3>1
      <3> QED BY <2>3, <3>1, <3>2 DEF PortOf
    <2>7. Follows(a, r, i, d)
      BY <1>8, <1>13
    <2>8. OwnIsOpen(i, d)
      BY <1>5, <1>11, <2>3, <2>6 DEF OwnIsOpen
    <2>9. FitsPort(i, d) /\ Apart(i, d)
      BY <1>6, <1>9, <1>10, <2>3 DEF FitsPort, Apart
    <2> QED BY <1>1, <1>2, <1>5, <1>7, <1>9, <2>5, <2>7, <2>8, <2>9, ContainerKeeps
  <1>14. CASE kind = "restart" \/ (kind = "start" /\ ~c.on)
    <2>1. PICK asked \in Ports : asked = c.asked
      BY <1>10
    <2>2. Apps!Run(i, asked)
      BY <1>5, <1>6, <1>14, <2>1 DEF Apps!Effect, Apps!Started
    <2>3. PICK d \in Apps!Published :
              /\ containers' = [containers EXCEPT ![i] = d]
              /\ d # None /\ d.asked = asked /\ d.on /\ OnItsPort(d) /\ ~Apps!Bound(d.port, i)
      BY <2>2, RunsNow
    <2>4. containers'[i] = d
      BY <1>3, <2>3 DEF AppTypes
    <2>5. i \in opened' => i \in opened /\ PortOf(d) = PortOf(c)
      BY <1>9, <2>1, <2>3, <2>4 DEF PortOf
    <2>6. Follows(a, r, i, d)
      BY <1>8, <1>14
    <2>7. Apart(i, d)
      BY <1>9, <2>3, <2>4, StillOpenApart DEF Apart
    <2>8. OwnIsOpen(i, d)
      BY <1>5, <1>11, <2>3, <2>5 DEF OwnIsOpen
    <2>9. FitsPort(i, d)
      BY <1>6, <1>10, <2>1, <2>3 DEF FitsPort
    <2> QED BY <1>1, <1>2, <1>5, <1>7, <1>9, <2>3, <2>6, <2>7, <2>8, <2>9, ContainerKeeps
  <1>15. CASE kind \notin {"remove", "stop", "restart"} /\ ~(kind = "start" /\ ~c.on)
    <2>1. containers' = containers
      BY <1>5, <1>6, <1>15 DEF Apps!Effect, Apps!Started
    <2>2. containers' = [containers EXCEPT ![i] = c]
      BY <1>3, <1>6, <2>1 DEF AppTypes
    <2>3. Apart(i, c)
      BY <1>6, <1>9 DEF Claims, Runs, Apart
    <2>4. Follows(a, r, i, c)
      BY <1>8, <1>15
    <2>5. OwnIsOpen(i, c)
      BY <1>5, <1>6, <1>9, <1>11 DEF OwnIsOpen
    <2> QED BY <1>1, <1>2, <1>5, <1>6, <1>7, <1>9, <1>10, <2>2, <2>3, <2>4, <2>5, ContainerKeeps
  <1> QED BY <1>12, <1>13, <1>14, <1>15

\* The list shows a port the container has, or the first instance the one of the catalogue.
LEMMA ShownIsClaimed ==
    ASSUME AppsInv, NEW i \in Instances, NEW p \in Nat, p # Apps!NoPort, Apps!Shown(i) = p
    PROVE  Claims(i, p) \/ (p = Apps!Fixed /\ i = Default)
  <1>1. containers[i] # None
    BY NoneIsNoApp DEF Apps!Shown
  <1>2. Instance(i)
    BY DEF AppsInv
  <1>3. CASE containers[i].port = Apps!NoPort /\ i = Default
    BY <1>1, <1>3 DEF Apps!Shown
  <1>4. CASE ~(containers[i].port = Apps!NoPort /\ i = Default)
    <2>1. containers[i].port = p
      BY <1>1, <1>4 DEF Apps!Shown
    <2>2. containers[i].on
      BY <1>1, <1>2, <2>1 DEF Instance
    <2> QED BY <1>1, <2>1, <2>2 DEF Claims, Runs
  <1> QED BY <1>3, <1>4

LEMMA AppListedKeeps == ASSUME AppsInv, Apps!Listed PROVE AppsInv'
  <1>1. /\ UNCHANGED <<containers, rules, requests, opened>>
        /\ listed' = [i \in Instances |-> Apps!Shown(i)]
    BY DEF Apps!Listed
  <1>2. AppTypes
    BY DEF AppsInv
  <1>3. ASSUME NEW i \in Instances PROVE Apps!Shown(i) \in {None} \cup Nat
    <2>1. CASE containers[i] = None
      BY <2>1, NoneIsNoApp DEF Apps!Shown
    <2>2. CASE containers[i] # None
      BY <1>2, <2>2, NoneIsNoApp DEF Apps!Shown, AppTypes, Apps!Published
    <2> QED BY <2>1, <2>2
  <1>4. AppTypes'
    BY <1>1, <1>2, <1>3 DEF AppTypes
  <1>5. ASSUME NEW i \in opened PROVE StaysOpen(i)'
    <2>1. StaysOpen(i) /\ Instance(i) /\ i \in Instances
      BY <1>2 DEF AppsInv, AppTypes
    <2>2. PICK p : p = PortOf(containers[i])
      OBVIOUS
    <2>3. p \in Nat /\ p # Apps!NoPort /\ (p = Apps!Fixed => i = Default)
      BY <1>2, <2>1, <2>2, PortIsOwn
    <2>4. ASSUME NEW j \in Instances \ {i}, Claims(j, p)' PROVE FALSE
      <3>1. ~Claims(j, p)
        BY <2>1, <2>2 DEF StaysOpen
      <3>2. listed'[j] = p
        BY <1>1, <2>4, <3>1 DEF Claims, Runs
      <3>3. Apps!Shown(j) = p
        BY <1>1, <3>2
      <3> QED BY <2>3, <3>1, <3>3, ShownIsClaimed
    <2>5. PortOf(containers[i])' = p
      BY <1>1, <2>2 DEF PortOf
    <2> QED BY <1>1, <2>1, <2>2, <2>4, <2>5 DEF StaysOpen
  <1>6. /\ \A r \in Requests : AppRequest(r)'
        /\ \A r, q \in Requests :
              (requests'[r].name = requests'[q].name /\ requests'[r].name # None) => r = q
    BY <1>1 DEF AppsInv, AppRequest
  <1>7. \A i \in Instances : Instance(i)'
    BY <1>1 DEF AppsInv, Instance, Apps!Bound
  <1> QED BY <1>1, <1>4, <1>5, <1>6, <1>7 DEF AppsInv

LEMMA AppFirst == ASSUME Apps!Init PROVE AppsInv
  <1>1. /\ containers = [i \in Instances |-> None] /\ rules = {}
        /\ requests = [r \in Requests |-> Apps!Idle]
        /\ listed = [i \in Instances |-> None] /\ opened = {}
    BY DEF Apps!Init
  <1>2. Apps!Idle \in AppAsks /\ Apps!Idle.step = None /\ Apps!Idle.name = None
    BY NoneIsNoApp DEF Apps!Idle, AppAsks
  <1>3. AppTypes
    BY <1>1, <1>2 DEF AppTypes
  <1>5. \A r \in Requests : requests[r].step = None /\ requests[r].name = None
    BY <1>1, <1>2
  <1>6. \A r \in Requests : AppRequest(r)
    BY <1>5, NoneIsNoApp DEF AppRequest, Apps!Steps, Apps!Commands
  <1>7. \A i \in Instances : Instance(i)
    BY <1>1 DEF Instance
  <1> QED BY <1>1, <1>3, <1>5, <1>6, <1>7 DEF AppsInv

LEMMA AppSteps == ASSUME AppsInv, Apps!Next PROVE AppsInv'
  <1>1. ASSUME NEW r \in Requests, NEW i \in Instances,
               \/ \E port \in Ports : Apps!Install(r, i, port)
               \/ \E kind \in Apps!Kinds : Apps!Manage(r, i, kind)
        PROVE  AppsInv'
    BY <1>1, AppInstallKeeps, AppManageKeeps
  <1>2. ASSUME NEW r \in Requests, Apps!Begin(r) PROVE AppsInv'
    <2>1. /\ requests[r].step \in Apps!Commands
          /\ requests' = [requests EXCEPT ![r].running = TRUE]
          /\ UNCHANGED <<containers, rules, listed, opened>>
      BY <1>2 DEF Apps!Begin, Apps!Waits
    <2>2. PICK next \in Apps!Commands : next = requests[r].step
      BY <2>1
    <2>3. TRUE \in BOOLEAN
      OBVIOUS
    <2> QED BY <2>1, <2>2, <2>3, AppMoveKeeps
  <1>3. ASSUME NEW r \in Requests, Apps!Pulled(r) \/ Apps!Inspected(r) PROVE AppsInv'
    <2>1. PICK next \in {"run", "manage"} :
             /\ requests[r].step = (IF next = "run" THEN "pull" ELSE "inspect")
             /\ requests' = [requests EXCEPT ![r].step = next, ![r].running = FALSE]
             /\ UNCHANGED <<containers, rules, listed, opened>>
      BY <1>3 DEF Apps!Pulled, Apps!Inspected, Apps!Done, Apps!Runs
    <2>2. /\ next \in Apps!Commands /\ requests[r].step \in Apps!Commands /\ FALSE \in BOOLEAN
          /\ next \in {"pull", "run"} => requests[r].step \in {"pull", "run"}
      BY <2>1 DEF Apps!Commands
    <2> QED BY <2>1, <2>2, AppMoveKeeps
  <1>4. ASSUME NEW r \in Requests,
               \/ Apps!Busy(r) \/ Apps!PullFailed(r) \/ Apps!NotOpened(r) \/ Apps!InspectFailed(r)
               \/ Apps!ManageFailed(r) \/ Apps!Close(r)
        PROVE  AppsInv'
    <2>1. /\ requests[r].step \in Apps!Steps /\ Apps!Ends(r)
          /\ UNCHANGED <<containers, listed, opened>>
          /\ \/ rules' = rules
             \/ requests[r].step = "close" /\ rules' = rules \ {requests[r].port}
      BY <1>4 DEF Apps!Busy, Apps!PullFailed, Apps!NotOpened, Apps!InspectFailed, Apps!ManageFailed,
         Apps!Close, Apps!Failed, Apps!Runs, Apps!Waits, Apps!Steps, Apps!Commands
    <2>2. requests[r].step # None
      BY <2>1, NoneIsNoApp
    <2> QED BY <2>1, <2>2, AppEndKeeps
  <1>5. ASSUME NEW r \in Requests,
               Apps!Ran(r) \/ Apps!RunFailed(r) \/ Apps!Open(r) \/ Apps!Managed(r)
        PROVE  AppsInv'
    BY <1>5, AppRanKeeps, AppRunFailedKeeps, AppOpenKeeps, AppManagedKeeps
  <1> QED BY <1>1, <1>2, <1>3, <1>4, <1>5, AppListedKeeps DEF Apps!Next, Ports

LEMMA AppStaysOpen == ASSUME AppsInv PROVE Apps!InstalledStaysOpen
  <1> SUFFICES ASSUME NEW i \in opened, containers[i] # None, containers[i].on
               PROVE  containers[i].port \in rules
    BY DEF Apps!InstalledStaysOpen
  <1>1. StaysOpen(i) /\ AppTypes /\ i \in Instances /\ Instance(i)
    BY DEF AppsInv, AppTypes
  <1> QED BY <1>1, PortIsOwn DEF StaysOpen

InApps == part = "apps"

LEMMA AppsStep == ASSUME AppsInv, [Next]_vars, part = "apps" PROVE AppsInv'
  <1>1. CASE Apps!Next
    BY <1>1, AppSteps
  <1>2. CASE UNCHANGED <<requestVars, appsOwn, failures>>
    BY <1>2 DEF requestVars, appsOwn, AppsInv, AppTypes, AppRequest, Instance, Apps!Bound, StaysOpen,
       Claims, Runs
  <1> QED BY <1>1, <1>2, AppsRun, PartStays

\* An instance that was answered as installed with its port open, and that runs on it, is let
\* in by the firewall: no removal of another instance closes it, whatever ports Docker picks
\* again and the list shows, but for the stale removals and the port of a stopped instance
\* that CatalogApps names (runtimes-next.mjs, installCatalogApp and manageCatalogApp;
\* server.mjs, the routes that open and close ports).
THEOREM AppsStayOpen == Spec => []InstalledStaysOpen
  <1>1. Init => (InApps => AppsInv)
    BY AppsBegin, AppFirst DEF InApps
  <1>2. (InApps => AppsInv) /\ [Next]_vars => (InApps => AppsInv)'
    BY AppsStep, PartStays DEF InApps
  <1>3. (InApps => AppsInv) => InstalledStaysOpen
    BY AppStaysOpen DEF InstalledStaysOpen, InApps
  <1> QED BY <1>1, <1>2, <1>3, PTL DEF Spec

-----------------------------------------------------------------------------
(***************************************************************************)
(* Publications of containers.  Every request and the loop work on the     *)
(* same maps, so no worker alone keeps a record and its proxy together.    *)
(* The argument: a record names a port on which its own container has the  *)
(* proxy, however many workers are busy with it, so what remove() closes   *)
(* is the container's; and of a container that one worker at a time is     *)
(* busy with, there is no other proxy than that of the record.             *)
(***************************************************************************)
Records == [Containers -> {None} \cup Proxies!Publication]

Resting == {"new", "done", "idle", "next"}
Afterwards == {"published", "starting", "revoking", "done", "next"}
Phases == Resting \cup Afterwards \cup {"detecting", "listening", "closing", "saving", "removing"}

Worker ==
    [at : Phases, op : Ops \cup {"publish"}, id : {None} \cup Containers, port : Nat, last : Nat,
     old : Nat, target : Proxies!Addresses, closing : {0} \cup Proxies!Ports,
     then : Afterwards \cup {"listening"}]

StoreTypes ==
    /\ state \in Records /\ file \in Records
    /\ queue \in Seq([text : Records, for : Proxies!Workers])

MapTypes ==
    /\ listeners \in [Proxies!Ports -> {None} \cup Proxies!Proxy]
    /\ guests \in [Containers -> Proxies!Addresses]
    /\ todo \subseteq Containers /\ disturbed \subseteq Containers

WorkTypes ==
    /\ work \in [Proxies!Workers -> Worker]
    /\ \A w \in Proxies!Workers : work[w].at \notin Resting => work[w].id \in Containers
    /\ \A w \in Proxies!Workers : work[w].at = "closing" => work[w].closing \in Proxies!Ports

\* A worker waits for each save of the queue, for one at a time.
SavesAreAwaited ==
    /\ \A i \in 1 .. Len(queue) : work[queue[i].for].at = "saving"
    /\ \A i, j \in 1 .. Len(queue) : queue[i].for = queue[j].for => i = j
    /\ \A w \in Proxies!Workers : work[w].at = "saving" => work[w].then \in Afterwards

Listens(p, c) == listeners[p] # None /\ listeners[p].id = c

\* A record names the port of a proxy of its container.
RecordsHold ==
    \A c \in Containers : state[c] # None /\ state[c].port # 0 => Listens(state[c].port, c)

\* What a worker closes is the proxy of its container, or closed already.
ClosingOwn ==
    \A w \in Proxies!Workers : work[w].at = "closing" =>
        listeners[work[w].closing] = None \/ Listens(work[w].closing, work[w].id)

\* Of a container that is not disturbed: its proxies are those of the record,
ProxiesHold(c) ==
    \A p \in Proxies!Ports : Listens(p, c) =>
        state[c] # None /\ state[c].port = p /\ state[c].target = listeners[p].target

\* one worker at most is busy with it,
OneIsBusy(c) ==
    \A u, w \in Proxies!Workers : Proxies!BusyWith(u, c) /\ Proxies!BusyWith(w, c) => u = w

\* and where that one is, the container has a proxy, no record, or is not deleted.
Fits(v, c) ==
    /\ v.at = "closing" => listeners[v.closing] # None
    /\ v.at = "listening" => state[c] = None
    /\ guests[c] = None =>
           /\ state[c] = None \/ v.at = "closing"
           /\ v.at \in {"starting", "closing", "saving", "revoking"}
           /\ v.at \in {"closing", "saving"} => v.then \notin {"listening", "published"}

Undisturbed(c) ==
    /\ ProxiesHold(c) /\ OneIsBusy(c)
    /\ \A w \in Proxies!Workers : Proxies!BusyWith(w, c) => Fits(work[w], c)
    /\ guests[c] = None /\ (\A w \in Proxies!Workers : ~Proxies!BusyWith(w, c)) => state[c] = None

PublishersInv ==
    /\ StoreTypes /\ MapTypes /\ WorkTypes /\ SavesAreAwaited
    /\ disturbed = Containers \/ (RecordsHold /\ ClosingOwn)
    /\ \A c \in Containers \ disturbed : Undisturbed(c)

LEMMA ProxiesAre ==
    /\ Loop \notin Publishers /\ None \notin Containers /\ None \notin Private \cup Lan
    /\ None \notin Proxies!Publication /\ None \notin Proxies!Proxy
    /\ LastPort \in Nat \ {0} /\ Candidates \in Nat \ {0}
  BY ControlAssumption DEF ControlAssumption, Proxies!PublicationsAssumption

LEMMA ProxiesRun ==
    ASSUME [Next]_vars, part = "proxies"
    PROVE  Proxies!Next \/ UNCHANGED Proxies!vars
  BY DEF Next, vars, Proxies!vars, Proxies!store, Proxies!bounds, storeVars, proxiesOwn

LEMMA ProxiesBegin == ASSUME Init, part = "proxies" PROVE Proxies!Init
  BY DEF Init

\* A step of a worker that is at work on the container, before or after.
Moves(w, v, c) ==
    /\ v \in Worker /\ work' = [work EXCEPT ![w] = v]
    /\ work[w].at \in Resting \/ work[w].id = c
    /\ v.at \in Resting \/ (v.id = c /\ c \in Containers)
    /\ v.at = "closing" => v.closing \in Proxies!Ports

\* No other worker is busy with the container.
Alone(w, c) == \A u \in Proxies!Workers : u # w => ~Proxies!BusyWith(u, c)

LEMMA WorkersMove ==
    ASSUME WorkTypes, NEW w \in Proxies!Workers, NEW v, NEW c, Moves(w, v, c)
    PROVE  /\ WorkTypes' /\ work'[w] = v
           /\ \A u \in Proxies!Workers : u # w => work'[u] = work[u]
  BY DEF WorkTypes, Moves

\* The containers the step is not about.
LEMMA OthersStay ==
    ASSUME WorkTypes, ClosingOwn, NEW w \in Proxies!Workers, NEW v, NEW c, Moves(w, v, c),
           NEW d \in Containers, d # c, Undisturbed(d), state'[d] = state[d], guests'[d] = guests[d],
           \A p \in Proxies!Ports : Listens(p, d) => listeners'[p] = listeners[p],
           \A p \in Proxies!Ports : Listens(p, d)' => Listens(p, d)
    PROVE  Undisturbed(d)'
  <1>1. /\ \A u \in Proxies!Workers : u # w => work'[u] = work[u]
        /\ work'[w] = v
    BY WorkersMove
  <1>2. \A u \in Proxies!Workers : Proxies!BusyWith(u, d)' <=> Proxies!BusyWith(u, d)
    BY <1>1 DEF Moves, Proxies!BusyWith, Proxies!Resting, Resting
  <1>3. ~Proxies!BusyWith(w, d)
    BY DEF Moves, Proxies!BusyWith, Proxies!Resting, Resting
  <1>4. ProxiesHold(d)'
    BY DEF Undisturbed, ProxiesHold, Listens
  <1>5. OneIsBusy(d)'
    BY <1>2 DEF Undisturbed, OneIsBusy
  <1>6. ASSUME NEW u \in Proxies!Workers, Proxies!BusyWith(u, d) PROVE Fits(work[u], d)'
    <2>1. PICK r : r = work[u]
      OBVIOUS
    <2>2. work'[u] = r /\ Fits(r, d) /\ r.id = d
      BY <1>1, <1>3, <1>6, <2>1 DEF Undisturbed, Proxies!BusyWith
    <2>3. r.at = "closing" => /\ r.closing \in Proxies!Ports
                              /\ listeners[r.closing] # None => Listens(r.closing, d)
      BY <2>1, <2>2 DEF ClosingOwn, WorkTypes, Listens
    <2>4. r.at = "closing" => listeners'[r.closing] # None
      BY <2>2, <2>3 DEF Fits
    <2>5. Fits(r, d)'
      BY <2>2, <2>4 DEF Fits
    <2> QED BY <2>2, <2>5
  <1> QED BY <1>2, <1>4, <1>5, <1>6 DEF Undisturbed

\* The container the step is about.
LEMMA OwnStays ==
    ASSUME WorkTypes, NEW w \in Proxies!Workers, NEW v, NEW c, Moves(w, v, c), Alone(w, c),
           ProxiesHold(c)', v.at \notin Resting => Fits(v, c)',
           v.at \in Resting /\ guests'[c] = None => state'[c] = None
    PROVE  Undisturbed(c)'
  <1>1. /\ \A u \in Proxies!Workers : u # w => work'[u] = work[u]
        /\ work'[w] = v
    BY WorkersMove
  <1>2. \A u \in Proxies!Workers : u # w => ~Proxies!BusyWith(u, c)'
    BY <1>1 DEF Alone, Proxies!BusyWith
  <1>3. Proxies!BusyWith(w, c)' <=> v.at \notin Resting
    BY <1>1 DEF Moves, Proxies!BusyWith, Proxies!Resting, Resting
  <1>4. OneIsBusy(c)'
    BY <1>2 DEF OneIsBusy
  <1>5. \A u \in Proxies!Workers : Proxies!BusyWith(u, c)' => Fits(work[u], c)'
    <2>1. ASSUME NEW u \in Proxies!Workers, Proxies!BusyWith(u, c)' PROVE Fits(work[u], c)'
      <3>1. u = w /\ work'[u] = v
        BY <1>1, <1>2, <2>1
      <3>2. Fits(v, c)'
        BY <1>3, <2>1, <3>1
      <3> QED BY <3>1, <3>2 DEF Fits
    <2> QED BY <2>1
  <1> QED BY <1>2, <1>3, <1>4, <1>5 DEF Undisturbed

\* What a worker closes stays its container's, or is closed.
LEMMA ClosingStays ==
    ASSUME WorkTypes, ClosingOwn, NEW w \in Proxies!Workers, NEW v, NEW c, Moves(w, v, c),
           v.at = "closing" => listeners'[v.closing] = None \/ Listens(v.closing, c)',
           \A u \in Proxies!Workers : u # w /\ work[u].at = "closing" =>
               listeners'[work[u].closing] \in {None, listeners[work[u].closing]}
    PROVE  ClosingOwn'
  <1>1. /\ \A u \in Proxies!Workers : u # w => work'[u] = work[u]
        /\ work'[w] = v
    BY WorkersMove
  <1>2. ASSUME NEW u \in Proxies!Workers, work'[u].at = "closing"
        PROVE  listeners'[work'[u].closing] = None \/ Listens(work[u].closing, work[u].id)'
    <2>1. CASE u = w
      BY <1>1, <1>2, <2>1 DEF Moves, Resting, Listens
    <2>2. CASE u # w
      BY <1>1, <1>2, <2>2 DEF ClosingOwn, Listens
    <2> QED BY <2>1, <2>2
  <1> QED BY <1>2 DEF ClosingOwn

\* A step that leaves the proxies alone.
LEMMA ListenersStay ==
    ASSUME PublishersInv, NEW w \in Proxies!Workers, NEW v, NEW c, Moves(w, v, c),
           StoreTypes', MapTypes', SavesAreAwaited', UNCHANGED listeners, disturbed \subseteq disturbed',
           \A d \in Containers : d # c => state'[d] = state[d] /\ guests'[d] = guests[d],
           disturbed # Containers =>
               /\ v.at = "closing" => Listens(v.closing, c)
               /\ c \in Containers /\ state'[c] # None /\ state'[c].port # 0 => Listens(state'[c].port, c),
           c \in Containers \ disturbed' =>
               /\ Alone(w, c) /\ ProxiesHold(c)'
               /\ v.at \notin Resting => Fits(v, c)'
               /\ v.at \in Resting /\ guests'[c] = None => state'[c] = None
    PROVE  PublishersInv'
  <1> USE DEF PublishersInv
  <1>1. WorkTypes'
    BY WorkersMove
  <1>2. disturbed' # Containers => disturbed # Containers
    BY DEF MapTypes
  <1>3. disturbed # Containers => RecordsHold'
    BY DEF RecordsHold, Listens
  <1>4. disturbed # Containers => ClosingOwn'
    BY ClosingStays DEF Listens
  <1>5. ASSUME NEW d \in Containers \ disturbed' PROVE Undisturbed(d)'
    <2>1. disturbed # Containers
      BY <1>2
    <2>2. CASE d = c
      BY <2>2, OwnStays
    <2>3. CASE d # c
      BY <2>1, <2>3, OthersStay DEF Listens
    <2> QED BY <2>2, <2>3
  <1> QED BY <1>1, <1>2, <1>3, <1>4, <1>5

Entry == [text : Records, for : Proxies!Workers]

LEMMA Entries ==
    ASSUME StoreTypes
    PROVE  /\ queue \in Seq(Entry)
           /\ \A i \in 1 .. Len(queue) : queue[i].for \in Proxies!Workers /\ queue[i].text \in Records
  <1>1. queue \in Seq(Entry)
    BY DEF StoreTypes, Entry
  <1>2. \A e \in Entry : e.for \in Proxies!Workers /\ e.text \in Records
    BY DEF Entry
  <1>3. \A i \in 1 .. Len(queue) : queue[i] \in Entry
    BY <1>1
  <1> QED BY <1>1, <1>2, <1>3

LEMMA SavesStay ==
    ASSUME WorkTypes, StoreTypes, SavesAreAwaited, NEW w \in Proxies!Workers, NEW v, NEW c,
           Moves(w, v, c), UNCHANGED queue, work[w].at # "saving", v.at # "saving"
    PROVE  SavesAreAwaited'
  <1>1. /\ \A u \in Proxies!Workers : u # w => work'[u] = work[u]
        /\ work'[w] = v
    BY WorkersMove
  <1>2. \A i \in 1 .. Len(queue) : queue[i].for \in Proxies!Workers
    BY Entries
  <1> QED BY <1>1, <1>2 DEF SavesAreAwaited

LEMMA SaveIsCalled ==
    ASSUME WorkTypes, StoreTypes, SavesAreAwaited, NEW w \in Proxies!Workers, NEW v, NEW c,
           Moves(w, v, c), NEW text \in Records, Proxies!SaveCalled(text, w),
           work[w].at # "saving", v.at = "saving", v.then \in Afterwards
    PROVE  SavesAreAwaited' /\ queue' \in Seq(Entry)
  <1>1. /\ \A u \in Proxies!Workers : u # w => work'[u] = work[u]
        /\ work'[w] = v
    BY WorkersMove
  <1>2. PICK e \in Entry : e = [text |-> text, for |-> w]
    BY DEF Entry
  <1>3. queue \in Seq(Entry) /\ queue' = Append(queue, e)
    BY <1>2 DEF StoreTypes, Entry, Proxies!SaveCalled
  <1>4. e.for = w
    BY <1>2
  <1>5. /\ queue' \in Seq(Entry) /\ Len(queue') = Len(queue) + 1
        /\ queue'[Len(queue) + 1] = e /\ \A i \in 1 .. Len(queue) : queue'[i] = queue[i]
    BY <1>3
  <1>6. \A i \in 1 .. Len(queue) : queue[i].for # w /\ queue[i].for \in Proxies!Workers
    BY Entries DEF SavesAreAwaited
  <1>7. \A i \in 1 .. Len(queue') : work'[queue'[i].for].at = "saving"
    BY <1>1, <1>3, <1>4, <1>5, <1>6 DEF SavesAreAwaited
  <1>8. \A i, j \in 1 .. Len(queue') : queue'[i].for = queue'[j].for => i = j
    BY <1>3, <1>4, <1>5, <1>6 DEF SavesAreAwaited
  <1>9. \A u \in Proxies!Workers : work'[u].at = "saving" => work'[u].then \in Afterwards
    BY <1>1 DEF SavesAreAwaited
  <1> QED BY <1>5, <1>7, <1>8, <1>9 DEF SavesAreAwaited

LEMMA SaveIsOver ==
    ASSUME WorkTypes, StoreTypes, SavesAreAwaited, queue # <<>>, NEW w, w = Head(queue).for,
           NEW v, NEW c, Moves(w, v, c), queue' = Tail(queue), v.at # "saving"
    PROVE  SavesAreAwaited' /\ queue' \in Seq(Entry) /\ w \in Proxies!Workers
  <1>1. queue \in Seq(Entry) /\ w = queue[1].for
    BY DEF StoreTypes, Entry
  <1>2. w \in Proxies!Workers
    BY <1>1, Entries
  <1>3. /\ \A u \in Proxies!Workers : u # w => work'[u] = work[u]
        /\ work'[w] = v
    BY <1>2, WorkersMove
  <1>4. /\ queue' \in Seq(Entry) /\ Len(queue') = Len(queue) - 1 /\ Len(queue) >= 1
        /\ \A i \in 1 .. Len(queue') : queue'[i] = queue[i + 1]
    BY <1>1
  <1>5. \A i \in 1 .. Len(queue') : queue'[i].for # w /\ queue'[i].for \in Proxies!Workers
    BY <1>1, <1>4, Entries DEF SavesAreAwaited
  <1>6. \A i \in 1 .. Len(queue') : work'[queue'[i].for].at = "saving"
    BY <1>1, <1>3, <1>4, <1>5 DEF SavesAreAwaited
  <1>7. \A i, j \in 1 .. Len(queue') : queue'[i].for = queue'[j].for => i = j
    BY <1>1, <1>4 DEF SavesAreAwaited
  <1>8. \A u \in Proxies!Workers : work'[u].at = "saving" => work'[u].then \in Afterwards
    BY <1>3 DEF SavesAreAwaited
  <1> QED BY <1>2, <1>4, <1>6, <1>7, <1>8 DEF SavesAreAwaited

\* A step of a worker that only goes on: with the same container, or to its rest.
LEMMA OnlyMoves ==
    ASSUME PublishersInv, NEW w \in Proxies!Workers, NEW v, NEW c, Moves(w, v, c),
           StoreTypes', SavesAreAwaited', todo' \subseteq Containers,
           UNCHANGED <<state, listeners, guests, disturbed>>,
           c \in Containers => Proxies!BusyWith(w, c),
           work[w].at # "closing", v.at \notin {"closing", "listening"},
           c \in Containers \ disturbed /\ guests[c] = None /\ v.at \notin Resting =>
               v.at \in {"starting", "saving", "revoking"} /\ (v.at = "saving" => v.then # "published")
    PROVE  PublishersInv'
  <1> USE DEF PublishersInv
  <1>1. MapTypes'
    BY DEF MapTypes
  <1>2. v.at = "saving" => v.then \in Afterwards
    <2>1. work'[w] = v
      BY WorkersMove
    <2> QED BY <2>1 DEF SavesAreAwaited
  <1>3. disturbed # Containers =>
            (c \in Containers /\ state'[c] # None /\ state'[c].port # 0 => Listens(state'[c].port, c))
    BY DEF RecordsHold
  <1>4. ASSUME c \in Containers \ disturbed'
        PROVE  /\ Alone(w, c) /\ ProxiesHold(c)'
               /\ v.at \notin Resting => Fits(v, c)'
               /\ v.at \in Resting /\ guests'[c] = None => state'[c] = None
    <2>1. Undisturbed(c) /\ Proxies!BusyWith(w, c)
      BY <1>4
    <2>2. Alone(w, c)
      BY <2>1 DEF Undisturbed, OneIsBusy, Alone
    <2>3. ProxiesHold(c)'
      BY <2>1 DEF Undisturbed, ProxiesHold, Listens
    <2>4. guests[c] = None => state[c] = None
      BY <2>1 DEF Undisturbed, Fits
    <2>5. v.at \notin Resting => Fits(v, c)'
      BY <1>2, <1>4, <2>4 DEF Fits, Afterwards
    <2> QED BY <2>2, <2>3, <2>4, <2>5
  <1> QED BY <1>1, <1>3, <1>4, ListenersStay

LEMMA WorkerGoes ==
    ASSUME NEW r \in Worker, NEW a \in Phases, NEW v, v = [r EXCEPT !.at = a]
    PROVE  /\ v \in Worker /\ v.at = a /\ v.id = r.id /\ v.then = r.then
           /\ v.port = r.port /\ v.last = r.last /\ v.target = r.target /\ v.closing = r.closing
  BY DEF Worker

LEMMA EndedRests ==
    ASSUME NEW w \in Proxies!Workers
    PROVE  Proxies!Ended(w) \in {"done", "next"}
  BY DEF Proxies!Ended

\* The worker of a step, and its container.
LEMMA Busy ==
    ASSUME PublishersInv, NEW w \in Proxies!Workers, work[w].at \notin Resting
    PROVE  /\ work[w] \in Worker /\ work[w].id \in Containers
           /\ Proxies!BusyWith(w, work[w].id)
  BY DEF PublishersInv, WorkTypes, Proxies!BusyWith, Proxies!Resting, Resting

\* To a rest.
LEMMA Rests ==
    ASSUME PublishersInv, NEW w \in Proxies!Workers, NEW a \in {"next", "done"},
           Proxies!At(w, a), work[w].at \notin Resting \cup {"closing", "saving"}, todo' = todo,
           UNCHANGED <<state, queue, file, listeners, guests, disturbed>>
    PROVE  PublishersInv'
  <1> USE DEF PublishersInv
  <1>1. PICK r \in Worker : r = work[w] /\ r.id \in Containers /\ Proxies!BusyWith(w, r.id)
    BY Busy
  <1>2. PICK v : v = [r EXCEPT !.at = a]
    OBVIOUS
  <1>3. v \in Worker /\ v.at \in Resting
    BY <1>1, <1>2, WorkerGoes DEF Resting, Phases
  <1>4. Moves(w, v, r.id)
    BY <1>1, <1>2, <1>3 DEF Moves, Resting, Proxies!At, Proxies!Go
  <1>5. SavesAreAwaited'
    BY <1>3, <1>4, SavesStay DEF Resting
  <1>6. StoreTypes' /\ todo' \subseteq Containers
    BY DEF StoreTypes, MapTypes
  <1> QED BY <1>1, <1>3, <1>4, <1>5, <1>6, OnlyMoves DEF Resting

LEMMA ProxiesReady ==
    ASSUME PublishersInv, NEW w \in Proxies!Workers, Proxies!Ready(w)
    PROVE  PublishersInv'
  <1> USE DEF PublishersInv
  <1>0. /\ work[w].at = "starting"
        /\ UNCHANGED <<state, queue, file, listeners, guests, disturbed, todo>>
    BY DEF Proxies!Ready, Proxies!store, Proxies!world
  <1>1. PICK r \in Worker : r = work[w] /\ r.id \in Containers /\ Proxies!BusyWith(w, r.id)
    BY <1>0, Busy DEF Resting
  <1>2. CASE guests[r.id] = None
    <2>1. Proxies!At(w, Proxies!Ended(w))
      BY <1>1, <1>2 DEF Proxies!Ready, Proxies!At
    <2> QED BY <1>0, <2>1, EndedRests, Rests DEF Resting
  <1>3. CASE guests[r.id] # None
    <2>1. PICK a : a = guests[r.id]
      OBVIOUS
    <2>2. PICK v : v = [r EXCEPT !.at = "detecting", !.target = a]
      OBVIOUS
    <2>3. a \in Proxies!Addresses
      BY <1>1, <2>1 DEF MapTypes
    <2>4. v \in Worker /\ v.at = "detecting" /\ v.id = r.id
      BY <2>2, <2>3 DEF Worker, Phases
    <2>5. Moves(w, v, r.id)
      BY <1>1, <1>3, <2>1, <2>2, <2>4 DEF Moves, Proxies!Ready, Proxies!Go
    <2>6. SavesAreAwaited'
      BY <1>0, <2>4, <2>5, SavesStay
    <2>7. StoreTypes' /\ todo' \subseteq Containers
      BY <1>0 DEF StoreTypes, MapTypes
    <2> QED BY <1>0, <1>1, <1>3, <2>4, <2>5, <2>6, <2>7, OnlyMoves
  <1> QED BY <1>2, <1>3

LEMMA ProxiesUndetected ==
    ASSUME PublishersInv, NEW w \in Proxies!Workers, Proxies!Undetected(w)
    PROVE  PublishersInv'
  <1>1. /\ work[w].at = "detecting" /\ Proxies!At(w, Proxies!Ended(w))
        /\ UNCHANGED <<state, queue, file, listeners, guests, disturbed, todo>>
    BY DEF Proxies!Undetected, Proxies!store, Proxies!world
  <1> QED BY <1>1, EndedRests, Rests DEF Resting

\* A request saves and is done, the loop goes on.
LEMMA Finishes ==
    ASSUME PublishersInv, NEW w \in Proxies!Workers, Proxies!Finish(w),
           work[w].at \notin Resting \cup {"closing", "saving"},
           UNCHANGED <<listeners, guests, disturbed, todo>>
    PROVE  PublishersInv'
  <1> USE DEF PublishersInv
  <1>1. CASE w = Loop
    BY <1>1, Rests DEF Proxies!Finish, Proxies!store
  <1>2. CASE w # Loop
    <2>1. PICK r \in Worker : r = work[w] /\ r.id \in Containers /\ Proxies!BusyWith(w, r.id)
      BY Busy
    <2>2. PICK v : v = [r EXCEPT !.at = "saving", !.then = "done"]
      OBVIOUS
    <2>3. v \in Worker /\ v.at = "saving" /\ v.then = "done" /\ v.id = r.id
      BY <2>1, <2>2 DEF Worker, Phases, Afterwards
    <2>4. /\ Proxies!SaveCalled(state, w) /\ UNCHANGED <<state, file>>
          /\ work' = [work EXCEPT ![w] = v]
      BY <1>2, <2>1, <2>2 DEF Proxies!Finish, Proxies!Go
    <2>5. Moves(w, v, r.id)
      BY <2>1, <2>3, <2>4 DEF Moves
    <2>6. PICK text \in Records : text = state
      BY DEF StoreTypes
    <2>7. SavesAreAwaited' /\ queue' \in Seq(Entry)
      BY <2>3, <2>4, <2>5, <2>6, SaveIsCalled DEF Afterwards
    <2>8. StoreTypes' /\ todo' \subseteq Containers
      BY <2>4, <2>7 DEF StoreTypes, MapTypes, Entry
    <2> QED BY <2>1, <2>3, <2>4, <2>5, <2>7, <2>8, OnlyMoves
  <1> QED BY <1>1, <1>2

LEMMA ProxiesAllow ==
    ASSUME PublishersInv, NEW w \in Proxies!Workers, Proxies!Allow(w) \/ Proxies!PublishedDirectly(w)
    PROVE  PublishersInv'
  <1>1. /\ work[w].at = "published" /\ Proxies!Finish(w)
        /\ UNCHANGED <<listeners, guests, disturbed, todo>>
    BY DEF Proxies!Allow, Proxies!PublishedDirectly, Proxies!world
  <1> QED BY <1>1, Finishes DEF Resting

LEMMA ProxiesRevoke ==
    ASSUME PublishersInv, NEW w \in Publishers, Proxies!Revoke(w)
    PROVE  PublishersInv'
  <1>1. /\ work[w].at = "revoking" /\ w \in Proxies!Workers
        /\ UNCHANGED <<listeners, guests, disturbed, todo>>
    BY DEF Proxies!Revoke, Proxies!Workers
  <1>2. CASE Proxies!Finish(w)
    BY <1>1, <1>2, Finishes DEF Resting
  <1>3. CASE Proxies!At(w, "done") /\ UNCHANGED Proxies!store
    BY <1>1, <1>3, Rests DEF Resting, Proxies!store
  <1> QED BY <1>2, <1>3 DEF Proxies!Revoke

\* The loop at rest.
LEMMA LoopRests ==
    ASSUME PublishersInv, NEW a \in {"next", "idle"}, Proxies!At(Loop, a), work[Loop].at \in Resting,
           todo' \subseteq Containers,
           UNCHANGED <<state, queue, file, listeners, guests, disturbed>>
    PROVE  PublishersInv'
  <1> USE DEF PublishersInv
  <1>1. PICK r \in Worker : r = work[Loop]
    BY DEF WorkTypes, Proxies!Workers
  <1>2. PICK v : v = [r EXCEPT !.at = a]
    OBVIOUS
  <1>3. v \in Worker /\ v.at \in Resting /\ v.at = a
    BY <1>2, WorkerGoes DEF Phases, Resting
  <1>4. Moves(Loop, v, None) /\ Loop \in Proxies!Workers
    BY <1>1, <1>2, <1>3 DEF Moves, Resting, Proxies!At, Proxies!Go, Proxies!Workers
  <1>5. SavesAreAwaited'
    BY <1>3, <1>4, SavesStay DEF Resting
  <1>6. StoreTypes'
    BY DEF StoreTypes
  <1> QED BY <1>3, <1>4, <1>5, <1>6, OnlyMoves, ProxiesAre DEF Resting

LEMMA ProxiesScan ==
    ASSUME PublishersInv, Proxies!Scan \/ Proxies!ScanEnds
    PROVE  PublishersInv'
  <1>1. CASE Proxies!Scan
    BY <1>1, LoopRests DEF Proxies!Scan, Resting, Proxies!store, Proxies!world
  <1>2. CASE Proxies!ScanEnds
    BY <1>2, LoopRests DEF Proxies!ScanEnds, Resting, Proxies!store, Proxies!world,
                           PublishersInv, MapTypes
  <1> QED BY <1>1, <1>2

\* The head of the queue is written, or the await throws.
LEMMA SaveEnds ==
    ASSUME PublishersInv, queue # <<>>, queue' = Tail(queue), NEW w, w = Head(queue).for,
           NEW a \in Afterwards, Proxies!At(w, a), a = "published" => work[w].then = "published",
           file' \in Records, UNCHANGED <<state, listeners, guests, disturbed, todo>>
    PROVE  PublishersInv'
  <1> USE DEF PublishersInv
  <1>1. w \in Proxies!Workers /\ work[w].at = "saving"
    BY Entries DEF SavesAreAwaited
  <1>2. PICK r \in Worker : r = work[w] /\ r.id \in Containers /\ Proxies!BusyWith(w, r.id)
    BY <1>1, Busy DEF Resting
  <1>3. PICK v : v = [r EXCEPT !.at = a]
    OBVIOUS
  <1>4. v \in Worker /\ v.at = a /\ v.id = r.id
    BY <1>2, <1>3, WorkerGoes DEF Phases
  <1>5. Moves(w, v, r.id)
    BY <1>2, <1>3, <1>4 DEF Moves, Proxies!At, Proxies!Go, Afterwards
  <1>6. SavesAreAwaited' /\ queue' \in Seq(Entry)
    BY <1>4, <1>5, SaveIsOver DEF Afterwards
  <1>7. StoreTypes' /\ todo' \subseteq Containers
    BY <1>6 DEF StoreTypes, MapTypes, Entry
  <1>8. r.id \in Containers \ disturbed /\ guests[r.id] = None => a # "published"
    BY <1>1, <1>2 DEF Undisturbed, Fits
  <1> QED BY <1>1, <1>2, <1>4, <1>5, <1>6, <1>7, <1>8, OnlyMoves DEF Afterwards, Resting

LEMMA ProxiesWritten ==
    ASSUME PublishersInv, Proxies!Written
    PROVE  PublishersInv'
  <1> USE DEF PublishersInv
  <1>1. PICK w : w = Head(queue).for
    OBVIOUS
  <1>2. /\ queue # <<>> /\ queue' = Tail(queue) /\ file' = Head(queue).text
        /\ Proxies!At(w, work[w].then) /\ UNCHANGED <<state, listeners, guests, disturbed, todo>>
    BY <1>1 DEF Proxies!Written, Proxies!HeadWritten, Proxies!Caller, Proxies!world
  <1>3. /\ work[w].then \in Afterwards /\ file' \in Records
    BY <1>1, <1>2, Entries DEF SavesAreAwaited
  <1> QED BY <1>1, <1>2, <1>3, SaveEnds

LEMMA ProxiesNotWritten ==
    ASSUME PublishersInv, Proxies!NotWritten
    PROVE  PublishersInv'
  <1> USE DEF PublishersInv
  <1>1. PICK w : w = Head(queue).for
    OBVIOUS
  <1>2. PICK a : a = IF work[w].then = "starting" THEN "starting" ELSE Proxies!Ended(w)
    OBVIOUS
  <1>3. /\ queue # <<>> /\ queue' = Tail(queue) /\ file' = file /\ Proxies!At(w, a)
        /\ UNCHANGED <<state, listeners, guests, disturbed, todo>>
    BY <1>1, <1>2 DEF Proxies!NotWritten, Proxies!HeadFails, Proxies!HeadRejected, Proxies!Caller
  <1>4. a \in {"starting", "done", "next"} /\ file' \in Records
    BY <1>2, <1>3 DEF Proxies!Ended, StoreTypes
  <1> QED BY <1>1, <1>3, <1>4, SaveEnds DEF Afterwards

LEMMA NoneIsNoRecord ==
    ASSUME NEW q \in {0} \cup Proxies!Ports, NEW a \in Proxies!Addresses
    PROVE  /\ [port |-> q, target |-> a] \in Proxies!Publication
           /\ [port |-> q, target |-> a] # None
  BY ProxiesAre DEF Proxies!Publication

LEMMA NoneIsNoProxy ==
    ASSUME NEW c \in Containers, NEW a \in Proxies!Addresses
    PROVE  /\ [id |-> c, target |-> a] \in Proxies!Proxy
           /\ [id |-> c, target |-> a] # None
  BY ProxiesAre DEF Proxies!Proxy

\* remove() finds the proxy of the container, or an undisturbed one has none.
LEMMA ProxyIsFound ==
    ASSUME StoreTypes, NEW c \in Containers
    PROVE  /\ Proxies!Proxied(c) => state[c].port \in Proxies!Ports
           /\ Proxies!Proxied(c) /\ RecordsHold => Listens(state[c].port, c)
           /\ ~Proxies!Proxied(c) /\ ProxiesHold(c) => \A q \in Proxies!Ports : ~Listens(q, c)
  <1>1. state[c] \in {None} \cup Proxies!Publication
    BY DEF StoreTypes, Records
  <1>2. Proxies!Proxied(c) => state[c].port \in Proxies!Ports
    BY <1>1 DEF Proxies!Proxied, Proxies!Publication
  <1>3. \A q \in Proxies!Ports : q # 0
    BY DEF Proxies!Ports
  <1> QED BY <1>2, <1>3 DEF Proxies!Proxied, RecordsHold, ProxiesHold, Listens

\* remove() begins to close the proxy.  The worker is the only one that is busy with
\* the container, or the container is disturbed.
LEMMA Closes ==
    ASSUME PublishersInv, NEW w \in Proxies!Workers, NEW r \in Worker, NEW c \in Containers, r.id = c,
           work[w].at \in Resting \/ work[w].id = c, work[w].at # "saving",
           NEW t \in Afterwards \cup {"listening"}, Proxies!Close(w, r, t), Proxies!Proxied(c),
           c \notin disturbed' => Alone(w, c) /\ ProxiesHold(c),
           c \notin disturbed' /\ guests'[c] = None => t \notin {"listening", "published"},
           MapTypes', disturbed \subseteq disturbed',
           \A d \in Containers : d # c => guests'[d] = guests[d]
    PROVE  PublishersInv'
  <1> USE DEF PublishersInv
  <1>1. PICK q \in Proxies!Ports : q = state[c].port
    BY ProxyIsFound
  <1>2. PICK v : v = [r EXCEPT !.at = "closing", !.closing = q, !.then = t]
    OBVIOUS
  <1>3. v \in Worker /\ v.at = "closing" /\ v.closing = q /\ v.then = t /\ v.id = c
    BY <1>2 DEF Worker, Phases
  <1>4. /\ Moves(w, v, c) /\ UNCHANGED <<state, queue, file, listeners>>
    BY <1>1, <1>2, <1>3 DEF Moves, Proxies!Close, Proxies!Go, Proxies!store
  <1>5. SavesAreAwaited'
    BY <1>3, <1>4, SavesStay
  <1>6. StoreTypes'
    BY <1>4 DEF StoreTypes
  <1>7. disturbed # Containers => Listens(q, c)
    BY <1>1, ProxyIsFound
  <1>8. disturbed # Containers =>
            (state'[c] # None /\ state'[c].port # 0 => Listens(state'[c].port, c))
    BY <1>4 DEF RecordsHold
  <1>9. listeners'[q] # None
    BY <1>1, <1>4 DEF Proxies!Proxied
  <1>10. c \notin disturbed' => ProxiesHold(c)' /\ Fits(v, c)'
    BY <1>3, <1>4, <1>9 DEF ProxiesHold, Listens, Fits
  <1> QED BY <1>3, <1>4, <1>5, <1>6, <1>7, <1>8, <1>10, ListenersStay DEF Resting

\* The record goes, and the container has no proxy any more: the save is called, or
\* the worker ends.
LEMMA RecordGoes ==
    ASSUME PublishersInv, NEW w \in Proxies!Workers, NEW v, NEW c \in Containers, Moves(w, v, c),
           v.at \notin {"closing", "listening"}, state' = Proxies!Publish(c, None),
           UNCHANGED listeners, StoreTypes', MapTypes', SavesAreAwaited',
           disturbed \subseteq disturbed',
           c \notin disturbed' => Alone(w, c) /\ ProxiesHold(c) /\ ~Proxies!Proxied(c),
           c \notin disturbed' /\ guests'[c] = None =>
               v.at \in Resting \/ (v.at = "saving" /\ v.then \notin {"listening", "published"}),
           \A d \in Containers : d # c => guests'[d] = guests[d]
    PROVE  PublishersInv'
  <1> USE DEF PublishersInv
  <1>1. state'[c] = None /\ \A d \in Containers : d # c => state'[d] = state[d]
    BY DEF Proxies!Publish, StoreTypes, Records
  <1>2. c \notin disturbed' => ProxiesHold(c)'
    BY ProxyIsFound DEF ProxiesHold, Listens
  <1>3. c \notin disturbed' /\ v.at \notin Resting => Fits(v, c)'
    BY <1>1 DEF Fits
  <1> QED BY <1>1, <1>2, <1>3, ListenersStay

\* remove() with its save.
LEMMA Withdraws ==
    ASSUME PublishersInv, NEW w \in Proxies!Workers, NEW r \in Worker, NEW c \in Containers, r.id = c,
           work[w].at \in Resting \/ work[w].id = c, work[w].at # "saving",
           NEW t \in Afterwards, t # "published", Proxies!Withdraw(w, r, t),
           c \notin disturbed' => Alone(w, c) /\ ProxiesHold(c),
           MapTypes', disturbed \subseteq disturbed',
           \A d \in Containers : d # c => guests'[d] = guests[d]
    PROVE  PublishersInv'
  <1> USE DEF PublishersInv
  <1>1. CASE Proxies!Proxied(c)
    <2>1. Proxies!Close(w, r, t)
      BY <1>1 DEF Proxies!Withdraw
    <2> QED BY <1>1, <2>1, Closes DEF Afterwards
  <1>2. CASE ~Proxies!Proxied(c)
    <2>1. PICK v : v = [r EXCEPT !.at = "saving", !.then = t]
      OBVIOUS
    <2>2. v \in Worker /\ v.at = "saving" /\ v.id = c /\ v.then = t
      BY <2>1 DEF Worker, Phases
    <2>3. /\ state' = Proxies!Publish(c, None) /\ Proxies!SaveCalled(state', w)
          /\ work' = [work EXCEPT ![w] = v] /\ UNCHANGED <<file, listeners>>
      BY <1>2, <2>1 DEF Proxies!Withdraw, Proxies!Go
    <2>4. Moves(w, v, c)
      BY <2>2, <2>3 DEF Moves
    <2>5. state' \in Records
      BY <2>3 DEF Proxies!Publish, StoreTypes, Records
    <2>6. PICK text \in Records : text = state'
      BY <2>5
    <2>7. Proxies!SaveCalled(text, w)
      BY <2>3, <2>6
    <2>8. SavesAreAwaited' /\ queue' \in Seq(Entry)
      BY <2>2, <2>4, <2>7, SaveIsCalled
    <2>9. StoreTypes'
      BY <2>3, <2>5, <2>8 DEF StoreTypes, Entry
    <2> QED BY <1>2, <2>2, <2>3, <2>4, <2>8, <2>9, RecordGoes DEF Afterwards
  <1> QED BY <1>1, <1>2

LEMMA BusyAlone ==
    ASSUME PublishersInv, NEW w \in Proxies!Workers, NEW c \in Containers \ disturbed,
           Proxies!BusyWith(w, c)
    PROVE  Alone(w, c) /\ ProxiesHold(c) /\ Fits(work[w], c)
  BY DEF PublishersInv, Undisturbed, OneIsBusy, Alone

LEMMA ProxiesAllowFails ==
    ASSUME PublishersInv, NEW w \in Proxies!Workers, Proxies!AllowFails(w)
    PROVE  PublishersInv'
  <1> USE DEF PublishersInv
  <1>1. /\ work[w].at = "published" /\ Proxies!Withdraw(w, work[w], Proxies!Ended(w))
        /\ UNCHANGED <<guests, disturbed, todo>>
    BY DEF Proxies!AllowFails
  <1>2. PICK r \in Worker : r = work[w] /\ r.id \in Containers /\ Proxies!BusyWith(w, r.id)
    BY <1>1, Busy DEF Resting
  <1>3. PICK t \in {"done", "next"} : t = Proxies!Ended(w)
    BY EndedRests
  <1>4. listeners' \in [Proxies!Ports -> {None} \cup Proxies!Proxy]
    BY <1>1 DEF Proxies!Withdraw, Proxies!Close, MapTypes
  <1>5. MapTypes'
    BY <1>1, <1>4 DEF MapTypes
  <1>6. r.id \notin disturbed => Alone(w, r.id) /\ ProxiesHold(r.id)
    BY <1>2, BusyAlone
  <1>7. Proxies!Withdraw(w, r, t) /\ t \in Afterwards /\ t # "published"
    BY <1>1, <1>2, <1>3 DEF Afterwards
  <1> QED BY <1>1, <1>2, <1>5, <1>6, <1>7, Withdraws

LEMMA ProxiesUnpublish ==
    ASSUME PublishersInv, NEW w \in Publishers, Proxies!Unpublish(w)
    PROVE  PublishersInv'
  <1> USE DEF PublishersInv
  <1>0. w \in Proxies!Workers /\ work[w].at = "removing" /\ UNCHANGED <<disturbed, todo>>
    BY DEF Proxies!Unpublish, Proxies!Workers
  <1>1. PICK s \in Worker : s = work[w] /\ s.id \in Containers /\ Proxies!BusyWith(w, s.id)
    BY <1>0, Busy DEF Resting
  <1>2. PICK c \in Containers : c = s.id
    BY <1>1
  <1>3. PICK q : q = IF state[c] = None THEN 0 ELSE state[c].port
    OBVIOUS
  <1>4. q \in Nat
    <2>1. state[c] \in {None} \cup Proxies!Publication
      BY DEF StoreTypes, Records
    <2> QED BY <1>3, <2>1 DEF Proxies!Publication, Proxies!Ports
  <1>5. PICK r : r = [s EXCEPT !.old = q]
    OBVIOUS
  <1>6. r \in Worker /\ r.id = c
    BY <1>1, <1>2, <1>4, <1>5 DEF Worker
  <1>7. /\ Proxies!Withdraw(w, r, "revoking")
        /\ guests' = IF s.op = "delete" THEN [guests EXCEPT ![c] = None] ELSE guests
    BY <1>1, <1>2, <1>3, <1>5 DEF Proxies!Unpublish
  <1>8. /\ guests' \in [Containers -> Proxies!Addresses]
        /\ \A d \in Containers : d # c => guests'[d] = guests[d]
    BY <1>7 DEF MapTypes, Proxies!Addresses
  <1>9. listeners' \in [Proxies!Ports -> {None} \cup Proxies!Proxy]
    BY <1>7 DEF Proxies!Withdraw, Proxies!Close, MapTypes
  <1>10. MapTypes'
    BY <1>0, <1>8, <1>9 DEF MapTypes
  <1>11. c \notin disturbed' => Alone(w, c) /\ ProxiesHold(c)
    BY <1>0, <1>1, <1>2, BusyAlone
  <1>12. "revoking" \in Afterwards /\ disturbed \subseteq disturbed'
    BY <1>0 DEF Afterwards
  <1> QED BY <1>0, <1>1, <1>2, <1>6, <1>7, <1>8, <1>10, <1>11, <1>12, Withdraws

\* A worker takes up a container: it is disturbed, or nobody is busy with it.
LEMMA Met ==
    ASSUME MapTypes, NEW c \in Containers, Proxies!Meets(c)
    PROVE  /\ disturbed \subseteq disturbed' /\ disturbed' \subseteq Containers
           /\ c \notin disturbed' => \A u \in Proxies!Workers : ~Proxies!BusyWith(u, c)
  BY DEF Proxies!Meets, MapTypes

LEMMA ProxiesBeginRequest ==
    ASSUME PublishersInv, NEW w \in Publishers, Proxies!Begin(w)
    PROVE  PublishersInv'
  <1> USE DEF PublishersInv
  <1>1. PICK c \in Containers, op \in Ops :
            /\ guests[c] # None /\ Proxies!Meets(c)
            /\ Proxies!Go(w, [work[w] EXCEPT !.id = c, !.op = op,
                                  !.at = IF op = "publish" THEN "starting" ELSE "removing"])
    BY DEF Proxies!Begin
  <1>2. /\ work[w].at = "new" /\ w \in Proxies!Workers
        /\ UNCHANGED <<state, queue, file, listeners, guests, todo>>
    BY DEF Proxies!Begin, Proxies!Workers, Proxies!store
  <1>3. PICK s \in Worker : s = work[w]
    BY <1>2 DEF WorkTypes
  <1>4. PICK a \in {"starting", "removing"} : a = IF op = "publish" THEN "starting" ELSE "removing"
    OBVIOUS
  <1>5. PICK v : v = [s EXCEPT !.id = c, !.op = op, !.at = a]
    OBVIOUS
  <1>6. v \in Worker /\ v.at = a /\ v.id = c
    BY <1>3, <1>5 DEF Worker, Phases, Afterwards
  <1>7. Moves(w, v, c)
    BY <1>1, <1>2, <1>3, <1>4, <1>5, <1>6 DEF Moves, Resting, Proxies!Go
  <1>8. SavesAreAwaited' /\ StoreTypes'
    BY <1>2, <1>6, <1>7, SavesStay DEF StoreTypes
  <1>9. /\ disturbed \subseteq disturbed' /\ disturbed' \subseteq Containers
        /\ c \notin disturbed' => \A u \in Proxies!Workers : ~Proxies!BusyWith(u, c)
    BY <1>1, Met
  <1>10. MapTypes'
    BY <1>2, <1>9 DEF MapTypes
  <1>11. disturbed # Containers => (state'[c] # None /\ state'[c].port # 0 => Listens(state'[c].port, c))
    BY <1>2 DEF RecordsHold
  <1>12. c \notin disturbed' => Alone(w, c) /\ ProxiesHold(c)' /\ Fits(v, c)'
    BY <1>1, <1>2, <1>6, <1>9 DEF Alone, Undisturbed, ProxiesHold, Listens, Fits
  <1> QED BY <1>2, <1>6, <1>7, <1>8, <1>9, <1>10, <1>11, <1>12, ListenersStay DEF Resting

LEMMA ProxiesLookAt ==
    ASSUME PublishersInv, NEW c \in Containers, Proxies!LookAt(c)
    PROVE  PublishersInv'
  <1> USE DEF PublishersInv
  <1>1. /\ work[Loop].at = "next" /\ Loop \in Proxies!Workers /\ todo' \subseteq todo
        /\ UNCHANGED guests
    BY DEF Proxies!LookAt, Proxies!Workers
  <1>2. PICK s \in Worker : s = work[Loop]
    BY <1>1 DEF WorkTypes
  <1>3. PICK r : r = [s EXCEPT !.id = c]
    OBVIOUS
  <1>4. r \in Worker /\ r.id = c /\ r.at = "next"
    BY <1>1, <1>2, <1>3 DEF Worker
  <1>5. CASE UNCHANGED <<Proxies!store, listeners, work, disturbed>>
    <2>1. Proxies!At(Loop, "next")
      <3>1. [s EXCEPT !.at = "next"] = s
        BY <1>1, <1>2 DEF Worker
      <3> QED BY <1>1, <1>2, <1>5, <3>1 DEF WorkTypes, Proxies!At, Proxies!Go
    <2>2. UNCHANGED <<state, queue, file, listeners, guests, disturbed>> /\ todo' \subseteq Containers
      BY <1>1, <1>5 DEF Proxies!store, MapTypes
    <2> QED BY <1>1, <2>1, <2>2, LoopRests DEF Resting
  <1>6. CASE Proxies!Meets(c)
    <2>1. /\ disturbed \subseteq disturbed' /\ disturbed' \subseteq Containers
          /\ c \notin disturbed' => \A u \in Proxies!Workers : ~Proxies!BusyWith(u, c)
      BY <1>6, Met
    <2>2. c \notin disturbed' => Alone(Loop, c) /\ ProxiesHold(c)
      BY <2>1 DEF Alone, Undisturbed
    <2>3. CASE Proxies!Withdraw(Loop, r, "starting")
      <3>1. listeners' \in [Proxies!Ports -> {None} \cup Proxies!Proxy]
        BY <2>3 DEF Proxies!Withdraw, Proxies!Close, MapTypes
      <3>2. MapTypes'
        BY <1>1, <2>1, <3>1 DEF MapTypes
      <3>3. "starting" \in Afterwards
        BY DEF Afterwards
      <3> QED BY <1>1, <1>4, <2>1, <2>2, <2>3, <3>2, <3>3, Withdraws DEF Resting
    <2>4. CASE state[c] = None /\ Proxies!Go(Loop, [r EXCEPT !.at = "starting"])
               /\ UNCHANGED <<Proxies!store, listeners>>
      <3>1. PICK v : v = [r EXCEPT !.at = "starting"]
        OBVIOUS
      <3>2. v \in Worker /\ v.at = "starting" /\ v.id = c
        BY <1>4, <3>1, WorkerGoes DEF Phases, Afterwards
      <3>3. Moves(Loop, v, c)
        BY <1>1, <2>4, <3>1, <3>2 DEF Moves, Resting, Proxies!Go
      <3>4. UNCHANGED <<state, queue, file, listeners>>
        BY <2>4 DEF Proxies!store
      <3>5. SavesAreAwaited' /\ StoreTypes'
        BY <1>1, <3>2, <3>3, <3>4, SavesStay DEF StoreTypes
      <3>6. MapTypes'
        BY <1>1, <2>1, <3>4 DEF MapTypes
      <3>7. c \notin disturbed' => ProxiesHold(c)' /\ Fits(v, c)'
        BY <1>1, <2>2, <2>4, <3>2, <3>4 DEF ProxiesHold, Listens, Fits
      <3> QED BY <1>1, <2>1, <2>2, <2>4, <3>2, <3>3, <3>4, <3>5, <3>6, <3>7, ListenersStay DEF Resting
    <2>5. UNCHANGED <<Proxies!store, listeners, work, disturbed>> \/
          Proxies!Withdraw(Loop, r, "starting") \/
          (state[c] = None /\ Proxies!Go(Loop, [r EXCEPT !.at = "starting"])
             /\ UNCHANGED <<Proxies!store, listeners>>)
      BY <1>2, <1>3 DEF Proxies!LookAt
    <2> QED BY <1>5, <2>3, <2>4, <2>5
  <1> QED BY <1>5, <1>6 DEF Proxies!LookAt

\* An address changes, or the ports of others.
LEMMA WorldChanges ==
    ASSUME PublishersInv, guests' \in [Containers -> Proxies!Addresses],
           \A c \in Containers : guests'[c] = None => guests[c] = None,
           UNCHANGED <<state, queue, file, listeners, work, todo, disturbed>>
    PROVE  PublishersInv'
  <1> USE DEF PublishersInv
  <1>1. StoreTypes' /\ MapTypes' /\ WorkTypes' /\ SavesAreAwaited'
    BY DEF StoreTypes, MapTypes, WorkTypes, SavesAreAwaited
  <1>2. (RecordsHold => RecordsHold') /\ (ClosingOwn => ClosingOwn')
    BY DEF RecordsHold, ClosingOwn, Listens
  <1>3. ASSUME NEW c \in Containers \ disturbed PROVE Undisturbed(c)'
    <2>1. Undisturbed(c) /\ (guests'[c] = None => guests[c] = None)
      OBVIOUS
    <2>2. \A w \in Proxies!Workers : Proxies!BusyWith(w, c)' <=> Proxies!BusyWith(w, c)
      BY DEF Proxies!BusyWith
    <2>3. \A w \in Proxies!Workers : Proxies!BusyWith(w, c) => Fits(work[w], c)'
      <3>1. ASSUME NEW w \in Proxies!Workers, Proxies!BusyWith(w, c) PROVE Fits(work[w], c)'
        <4>1. PICK r : r = work[w]
          OBVIOUS
        <4>2. Fits(r, c)'
          BY <2>1, <3>1, <4>1 DEF Undisturbed, Fits
        <4> QED BY <4>1, <4>2
      <3> QED BY <3>1
    <2> QED BY <2>1, <2>2, <2>3 DEF Undisturbed, ProxiesHold, OneIsBusy, Listens
  <1> QED BY <1>1, <1>2, <1>3

LEMMA ProxiesMove ==
    ASSUME PublishersInv, NEW c \in Containers, Proxies!Move(c)
    PROVE  PublishersInv'
  <1>1. PICK a \in Private \cup Lan : guests' = [guests EXCEPT ![c] = a]
    BY DEF Proxies!Move
  <1>2. /\ guests' \in [Containers -> Proxies!Addresses]
        /\ \A d \in Containers : guests'[d] = None => guests[d] = None
    BY <1>1, ProxiesAre DEF PublishersInv, MapTypes, Proxies!Addresses
  <1> QED BY <1>2, WorldChanges DEF Proxies!Move, Proxies!store

LEMMA ProxiesForeign ==
    ASSUME PublishersInv, NEW q \in Proxies!Ports, Proxies!Foreign(q)
    PROVE  PublishersInv'
  <1>1. guests' \in [Containers -> Proxies!Addresses]
    BY DEF PublishersInv, MapTypes, Proxies!Foreign
  <1> QED BY <1>1, WorldChanges DEF Proxies!Foreign, Proxies!store

\* The proxy listens and its record is saved.
LEMMA Recorded ==
    ASSUME PublishersInv, NEW w \in Proxies!Workers, NEW r \in Worker, NEW c \in Containers, r.id = c,
           Proxies!BusyWith(w, c), work[w].at \in {"detecting", "listening"}, Proxies!Listen(w, r),
           r.port = 0 \/ Proxies!Free(r.port), \A u \in Proxies!Workers : ~Proxies!Due(u),
           c \notin disturbed => \A q \in Proxies!Ports : ~Listens(q, c),
           UNCHANGED <<guests, todo, disturbed>>
    PROVE  PublishersInv'
  <1> USE DEF PublishersInv
  <1>1. PICK q, a : q = r.port /\ a = r.target
    OBVIOUS
  <1>2. /\ q \in {0} \cup Proxies!Ports /\ a \in Proxies!Addresses
        /\ q # 0 => q \in Proxies!Ports /\ listeners[q] = None
    BY <1>1 DEF Worker, Proxies!Free
  <1>3. PICK v : v = [r EXCEPT !.at = "saving", !.then = "published"]
    OBVIOUS
  <1>4. v \in Worker /\ v.at = "saving" /\ v.then = "published" /\ v.id = c
    BY <1>3 DEF Worker, Phases, Afterwards
  <1>5. PICK rec : rec = [port |-> q, target |-> a]
    OBVIOUS
  <1>6. PICK proxy : proxy = [id |-> c, target |-> a]
    OBVIOUS
  <1>7. /\ rec \in Proxies!Publication /\ rec # None /\ rec.port = q /\ rec.target = a
        /\ proxy \in Proxies!Proxy /\ proxy # None /\ proxy.id = c /\ proxy.target = a
    BY <1>2, <1>5, <1>6, NoneIsNoRecord, NoneIsNoProxy
  <1>8. /\ listeners' = IF q = 0 THEN listeners ELSE [listeners EXCEPT ![q] = proxy]
        /\ state' = [state EXCEPT ![c] = rec] /\ Proxies!SaveCalled(state', w)
        /\ work' = [work EXCEPT ![w] = v] /\ UNCHANGED <<file, broken>>
    BY <1>1, <1>3, <1>5, <1>6
       DEF Proxies!Listen, Proxies!Record, Proxies!Publish, Proxies!Wanted, Proxies!Go
  <1>9. /\ state'[c] = rec /\ \A d \in Containers : d # c => state'[d] = state[d]
        /\ state' \in Records
    BY <1>7, <1>8 DEF StoreTypes, Records
  <1>10. /\ listeners' \in [Proxies!Ports -> {None} \cup Proxies!Proxy]
         /\ q # 0 => listeners'[q] = proxy
         /\ \A p \in Proxies!Ports : p # q => listeners'[p] = listeners[p]
    BY <1>2, <1>7, <1>8 DEF MapTypes
  <1>11. Moves(w, v, c) /\ work[w].at \notin {"closing", "saving"}
    BY <1>4, <1>8 DEF Moves, Proxies!BusyWith
  <1>12. PICK text \in Records : text = state'
    BY <1>9
  <1>13. SavesAreAwaited' /\ queue' \in Seq(Entry)
    <2>1. Proxies!SaveCalled(text, w) /\ "published" \in Afterwards
      BY <1>8, <1>12 DEF Afterwards
    <2> QED BY <1>4, <1>11, <2>1, SaveIsCalled
  <1>14. StoreTypes' /\ MapTypes'
    BY <1>8, <1>9, <1>10, <1>13 DEF StoreTypes, MapTypes, Entry
  <1>15. WorkTypes'
    BY <1>11, WorkersMove
  <1>16. \A p \in Proxies!Ports : p # 0
    BY DEF Proxies!Ports
  <1>17. ASSUME disturbed # Containers PROVE RecordsHold' /\ ClosingOwn'
    <2>1. ASSUME NEW d \in Containers, NEW p, p = state'[d].port, state'[d] # None, p # 0
          PROVE  Listens(p, d)'
      <3>1. CASE d = c
        BY <1>2, <1>7, <1>9, <1>10, <2>1, <3>1 DEF Listens
      <3>2. CASE d # c
        <4>1. state[d] \in {None} \cup Proxies!Publication /\ state'[d] = state[d]
          BY <1>9, <3>2 DEF StoreTypes, Records
        <4>2. p \in Proxies!Ports /\ Listens(p, d)
          BY <1>17, <2>1, <4>1 DEF RecordsHold, Proxies!Publication
        <4>3. p # q
          BY <1>2, <1>16, <4>2 DEF Listens
        <4> QED BY <1>10, <4>2, <4>3 DEF Listens
      <3> QED BY <3>1, <3>2
    <2>2. \A u \in Proxies!Workers : u # w /\ work[u].at = "closing" =>
              listeners'[work[u].closing] \in {None, listeners[work[u].closing]}
      BY <1>2, <1>10, <1>16 DEF WorkTypes, Proxies!Due
    <2>3. ClosingOwn'
      <3>1. ClosingOwn /\ WorkTypes /\ v.at # "closing" /\ Moves(w, v, c)
        BY <1>4, <1>11, <1>17
      <3> QED BY ONLY <2>2, <3>1, w \in Proxies!Workers, ClosingStays
    <2>4. RecordsHold'
      BY <2>1 DEF RecordsHold, Listens
    <2> QED BY <2>3, <2>4
  <1>18. ASSUME NEW d \in Containers \ disturbed' PROVE Undisturbed(d)'
    <2>1. disturbed # Containers
      BY <1>18
    <2>2. CASE d # c
      <3>1. \A p \in Proxies!Ports : Listens(p, d) => listeners'[p] = listeners[p]
        BY <1>2, <1>10, <1>16 DEF Listens
      <3>2. \A p \in Proxies!Ports : Listens(p, d)' => Listens(p, d)
        BY <1>2, <1>7, <1>10, <1>16, <2>2 DEF Listens
      <3> QED BY <1>9, <1>11, <1>18, <2>1, <2>2, <3>1, <3>2, OthersStay
    <2>3. CASE d = c
      <3>1. Alone(w, c) /\ Fits(work[w], c)
        BY <1>18, <2>3, BusyAlone
      <3>2. ProxiesHold(c)'
        BY <1>2, <1>7, <1>9, <1>10, <1>16, <1>18, <2>3 DEF ProxiesHold, Listens
      <3>3. Fits(v, c)'
        BY <1>4, <3>1 DEF Fits
      <3> QED BY <1>4, <1>11, <2>3, <3>1, <3>2, <3>3, OwnStays DEF Resting
    <2> QED BY <2>2, <2>3
  <1> QED BY <1>13, <1>14, <1>15, <1>17, <1>18

\* A set of numbers that is not empty has a first.
LEMMA HasLeast ==
    ASSUME NEW S \in SUBSET Nat, S # {}
    PROVE  /\ Proxies!Min(S) \in S
           /\ \A n \in S : Proxies!Min(S) <= n
  <1> DEFINE Smaller == {p \in Nat \X Nat : p[1] < p[2]}
  <1>1. IsWellFoundedOn(Smaller, Nat)
    BY NatLessThanWellFounded, Zenon DEF OpToRel
  <1>2. PICK m \in S : \A n \in S : <<n, m>> \notin Smaller
    <2> HIDE DEF Smaller
    <2> QED BY <1>1, WFMin
  <1>3. ASSUME NEW n \in S PROVE m <= n
    <2>1. <<n, m>> \notin Smaller /\ n \in Nat /\ m \in Nat
      BY <1>2
    <2>2. ~(n < m)
      BY <2>1
    <2> QED BY <2>1, <2>2
  <1> QED BY <1>3 DEF Proxies!Min

\* configure(), of a worker that found an application or goes on to the next port.
LEMMA Configures ==
    ASSUME PublishersInv, NEW w \in Proxies!Workers, NEW r \in Worker, NEW c \in Containers, r.id = c,
           Proxies!BusyWith(w, c), work[w].at \in {"detecting", "listening"},
           Proxies!Configure(w, r), \A u \in Proxies!Workers : ~Proxies!Due(u),
           UNCHANGED <<guests, todo, disturbed>>
    PROVE  PublishersInv'
  <1> USE DEF PublishersInv
  <1>1. /\ work[w].id = c /\ work[w].at \notin {"closing", "saving"}
        /\ c \notin disturbed => Alone(w, c) /\ ProxiesHold(c) /\ guests[c] # None
    BY BusyAlone DEF Proxies!BusyWith, Fits
  <1>2. CASE state[c] = Proxies!Wanted(r)
    <2>1. PICK v : v = [r EXCEPT !.at = "published"]
      OBVIOUS
    <2>2. v \in Worker /\ v.at = "published" /\ v.id = c
      BY <2>1, WorkerGoes DEF Phases, Afterwards
    <2>3. work' = [work EXCEPT ![w] = v] /\ UNCHANGED <<state, queue, file, listeners>>
      BY <1>2, <2>1 DEF Proxies!Configure, Proxies!Go, Proxies!store
    <2>4. Moves(w, v, c)
      BY <1>1, <2>2, <2>3 DEF Moves
    <2>5. SavesAreAwaited' /\ StoreTypes' /\ todo' \subseteq Containers
      BY <1>1, <2>2, <2>3, <2>4, SavesStay DEF StoreTypes, MapTypes
    <2> QED BY <1>1, <2>2, <2>3, <2>4, <2>5, OnlyMoves
  <1>3. CASE state[c] # Proxies!Wanted(r) /\ Proxies!Proxied(c)
    <2>1. Proxies!Close(w, r, "listening")
      BY <1>3 DEF Proxies!Configure
    <2>2. MapTypes'
      BY <2>1 DEF MapTypes, Proxies!Close
    <2> QED BY <1>1, <1>3, <2>1, <2>2, Closes
  <1>4. CASE state[c] # Proxies!Wanted(r) /\ ~Proxies!Proxied(c)
    <2>0. c \notin disturbed => \A q \in Proxies!Ports : ~Listens(q, c)
      BY <1>1, <1>4, ProxyIsFound
    <2>1. PICK free : free = {p \in r.port .. r.last : Proxies!Free(p)}
      OBVIOUS
    <2>2. Proxies!ListenFirst(w, r)
      BY <1>4 DEF Proxies!Configure
    <2>3. CASE r.port = 0
      BY <2>0, <2>2, <2>3, Recorded DEF Proxies!ListenFirst
    <2>4. CASE r.port # 0 /\ free # {}
      <3>1. PICK q : q = Proxies!Min(free)
        OBVIOUS
      <3>2. free \in SUBSET Nat
        BY <2>1 DEF Worker
      <3>3. q \in free
        BY <2>4, <3>1, <3>2, HasLeast
      <3>4. PICK s : s = [r EXCEPT !.port = q]
        OBVIOUS
      <3>5. s \in Worker /\ s.id = c /\ s.port = q
        BY <3>2, <3>3, <3>4 DEF Worker
      <3>6. Proxies!Listen(w, s) /\ Proxies!Free(q)
        BY <2>1, <2>2, <2>4, <3>1, <3>3, <3>4 DEF Proxies!ListenFirst
      <3> QED BY <2>0, <3>5, <3>6, Recorded
    <2>5. CASE r.port # 0 /\ free = {}
      <3>1. PICK a \in {"done", "next"} : a = Proxies!Ended(w)
        BY EndedRests
      <3>2. PICK v : v = [r EXCEPT !.at = a]
        OBVIOUS
      <3>3. v \in Worker /\ v.at = a /\ v.id = c
        BY <3>2, WorkerGoes DEF Phases, Resting
      <3>4. /\ state' = Proxies!Publish(c, None) /\ work' = [work EXCEPT ![w] = v]
            /\ UNCHANGED <<queue, file, listeners>>
        BY <2>1, <2>2, <2>5, <3>1, <3>2 DEF Proxies!ListenFirst, Proxies!Go
      <3>5. Moves(w, v, c)
        BY <1>1, <3>3, <3>4 DEF Moves
      <3>6. SavesAreAwaited'
        BY <1>1, <3>3, <3>4, <3>5, SavesStay
      <3>7. StoreTypes' /\ MapTypes'
        BY <3>4 DEF StoreTypes, MapTypes, Records, Proxies!Publish
      <3> QED BY <1>1, <1>4, <3>3, <3>4, <3>5, <3>6, <3>7, RecordGoes DEF Resting
    <2> QED BY <2>3, <2>4, <2>5
  <1> QED BY <1>2, <1>3, <1>4

LEMMA ProxiesDetected ==
    ASSUME PublishersInv, NEW w \in Proxies!Workers, Proxies!Detected(w) \/ Proxies!Manual(w),
           \A u \in Proxies!Workers : ~Proxies!Due(u)
    PROVE  PublishersInv'
  <1> USE DEF PublishersInv
  <1>1. work[w].at = "detecting" /\ UNCHANGED <<guests, todo, disturbed>>
    BY DEF Proxies!Detected, Proxies!Manual, Proxies!world
  <1>2. PICK s \in Worker : s = work[w] /\ s.id \in Containers /\ Proxies!BusyWith(w, s.id)
    BY <1>1, Busy DEF Resting
  <1>3. PICK c \in Containers : c = s.id
    BY <1>2
  <1>4. \A r \in Worker : r.id = c /\ Proxies!Configure(w, r) => PublishersInv'
    BY <1>1, <1>2, <1>3, Configures
  <1>5. state[c] \in {None} \cup Proxies!Publication
    BY DEF StoreTypes, Records
  <1>6. PICK old : old = IF state[c] = None THEN 0 ELSE state[c].port
    OBVIOUS
  <1>7. old \in Nat /\ Proxies!Preferred(c) \in Nat
    BY <1>5, <1>6 DEF Proxies!Publication, Proxies!Ports, Proxies!Preferred
  <1>8. ASSUME Proxies!Detected(w) PROVE \E r \in Worker : r.id = c /\ Proxies!Configure(w, r)
    <2>0. PICK q \in (IF w = Loop THEN {} ELSE Proxies!Ports) \cup {Proxies!Preferred(c)} :
              Proxies!Configure(w,
                 IF Proxies!UsesPrivateNat(s.target)
                 THEN [s EXCEPT !.port = q, !.last = q + Candidates - 1]
                 ELSE [s EXCEPT !.port = 0, !.last = 0,
                                !.old = IF state[c] = None THEN 0 ELSE state[c].port])
      BY <1>2, <1>3, <1>8 DEF Proxies!Detected
    <2>1. q \in Nat
      BY <1>7 DEF Proxies!Ports
    <2>2. PICK r : r = IF Proxies!UsesPrivateNat(s.target)
                       THEN [s EXCEPT !.port = q, !.last = q + Candidates - 1]
                       ELSE [s EXCEPT !.port = 0, !.last = 0, !.old = old]
      OBVIOUS
    <2>3. q + Candidates - 1 \in Nat
      BY <2>1, ProxiesAre
    <2>4. r \in Worker /\ r.id = c
      BY <1>3, <1>7, <2>1, <2>2, <2>3 DEF Worker
    <2>5. Proxies!Configure(w, r)
      BY <1>6, <2>0, <2>2
    <2> QED BY <2>4, <2>5
  <1>9. ASSUME Proxies!Manual(w) PROVE \E r \in Worker : r.id = c /\ Proxies!Configure(w, r)
    <2>1. PICK q \in Proxies!Ports : Proxies!Configure(w, [s EXCEPT !.port = q, !.last = q])
      BY <1>2, <1>9 DEF Proxies!Manual
    <2>2. PICK r : r = [s EXCEPT !.port = q, !.last = q]
      OBVIOUS
    <2>3. q \in Nat
      BY DEF Proxies!Ports
    <2>4. r \in Worker /\ r.id = c
      BY <1>3, <2>2, <2>3 DEF Worker
    <2> QED BY <2>1, <2>2, <2>4
  <1> QED BY <1>4, <1>8, <1>9

LEMMA ProxiesListening ==
    ASSUME PublishersInv, NEW w \in Proxies!Workers, Proxies!Listening(w)
    PROVE  PublishersInv'
  <1> USE DEF PublishersInv
  <1>1. /\ work[w].at = "listening" /\ UNCHANGED <<guests, todo, disturbed>>
        /\ \A u \in Proxies!Workers : ~Proxies!Due(u)
    BY DEF Proxies!Listening, Proxies!world
  <1>2. PICK r \in Worker : r = work[w] /\ r.id \in Containers /\ Proxies!BusyWith(w, r.id)
    BY <1>1, Busy DEF Resting
  <1>3. PICK c \in Containers : c = r.id
    BY <1>2
  <1>4. c \notin disturbed => \A q \in Proxies!Ports : ~Listens(q, c)
    <2>1. ASSUME c \notin disturbed PROVE ProxiesHold(c) /\ state[c] = None
      BY <1>1, <1>2, <1>3, <2>1, BusyAlone DEF Fits
    <2> QED BY <2>1 DEF ProxiesHold
  <1>5. CASE (r.port = 0 \/ Proxies!Free(r.port)) /\ Proxies!Listen(w, r)
    BY <1>1, <1>2, <1>3, <1>4, <1>5, Recorded
  <1>6. CASE Proxies!Configure(w, [r EXCEPT !.port = @ + 1])
    <2>1. PICK s : s = [r EXCEPT !.port = @ + 1]
      OBVIOUS
    <2>2. s \in Worker /\ s.id = c
      BY <1>3, <2>1 DEF Worker
    <2> QED BY <1>1, <1>2, <1>3, <1>6, <2>1, <2>2, Configures
  <1>7. CASE Proxies!At(w, Proxies!Ended(w)) /\ UNCHANGED <<Proxies!store, listeners>>
    BY <1>1, <1>7, EndedRests, Rests DEF Resting, Proxies!store
  <1> QED BY <1>2, <1>5, <1>6, <1>7 DEF Proxies!Listening

\* The proxy is closed and the record gone.
LEMMA ProxiesClosed ==
    ASSUME PublishersInv, NEW w \in Proxies!Workers, Proxies!Closed(w)
    PROVE  PublishersInv'
  <1> USE DEF PublishersInv
  <1>1. work[w].at = "closing" /\ UNCHANGED <<guests, todo, disturbed, file>>
    BY DEF Proxies!Closed, Proxies!world
  <1>2. PICK r \in Worker : r = work[w] /\ r.id \in Containers /\ Proxies!BusyWith(w, r.id)
    BY <1>1, Busy DEF Resting
  <1>3. PICK c \in Containers, q \in Proxies!Ports : c = r.id /\ q = r.closing
    BY <1>1, <1>2 DEF WorkTypes
  <1>4. /\ listeners' = [listeners EXCEPT ![q] = None] /\ state' = Proxies!Publish(c, None)
        /\ IF r.then = "listening"
           THEN Proxies!Go(w, [r EXCEPT !.at = "listening"]) /\ UNCHANGED queue
           ELSE Proxies!SaveCalled(state', w) /\ Proxies!Go(w, [r EXCEPT !.at = "saving"])
    BY <1>2, <1>3 DEF Proxies!Closed
  <1>5. PICK a \in {"listening", "saving"} : a = IF r.then = "listening" THEN "listening" ELSE "saving"
    OBVIOUS
  <1>6. PICK v : v = [r EXCEPT !.at = a]
    OBVIOUS
  <1>7. v \in Worker /\ v.at = a /\ v.id = c /\ v.then = r.then
    BY <1>3, <1>6, WorkerGoes DEF Phases
  <1>8. Moves(w, v, c) /\ work[w].at # "saving"
    BY <1>1, <1>2, <1>3, <1>4, <1>5, <1>6, <1>7 DEF Moves, Proxies!Go
  <1>9. /\ state'[c] = None /\ \A d \in Containers : d # c => state'[d] = state[d]
        /\ state' \in Records
    BY <1>4 DEF StoreTypes, Records, Proxies!Publish
  <1>10. /\ listeners' \in [Proxies!Ports -> {None} \cup Proxies!Proxy] /\ listeners'[q] = None
         /\ \A p \in Proxies!Ports : p # q => listeners'[p] = listeners[p]
    BY <1>4 DEF MapTypes
  <1>11. SavesAreAwaited' /\ queue' \in Seq(Entry)
    <2>1. CASE r.then = "listening"
      BY <1>4, <1>5, <1>7, <1>8, <2>1, Entries, SavesStay
    <2>2. CASE r.then # "listening"
      <3>1. PICK text \in Records : text = state'
        BY <1>9
      <3>2. Proxies!SaveCalled(text, w) /\ v.then \in Afterwards /\ v.at = "saving"
        BY <1>4, <1>5, <1>7, <2>2, <3>1 DEF Worker
      <3> QED BY <1>8, <3>2, SaveIsCalled
    <2> QED BY <2>1, <2>2
  <1>12. StoreTypes' /\ MapTypes' /\ WorkTypes'
    BY <1>1, <1>8, <1>9, <1>10, <1>11, WorkersMove DEF StoreTypes, MapTypes, Entry
  <1>13. disturbed # Containers => (listeners[q] = None \/ Listens(q, c))
    BY <1>1, <1>2, <1>3 DEF ClosingOwn
  <1>14. ASSUME disturbed # Containers PROVE RecordsHold' /\ ClosingOwn'
    <2>1. ASSUME NEW d \in Containers, NEW p, p = state'[d].port, state'[d] # None, p # 0
          PROVE  Listens(p, d)'
      <3>1. d # c /\ state'[d] = state[d] /\ state[d] \in {None} \cup Proxies!Publication
        BY <1>9, <2>1 DEF StoreTypes, Records
      <3>2. p \in Proxies!Ports /\ Listens(p, d)
        BY <1>14, <2>1, <3>1 DEF RecordsHold, Proxies!Publication
      <3>3. p # q
        BY <1>13, <1>14, <3>1, <3>2 DEF Listens
      <3> QED BY <1>10, <3>2, <3>3 DEF Listens
    <2>2. RecordsHold'
      BY <2>1 DEF RecordsHold, Listens
    <2>3. \A u \in Proxies!Workers : u # w /\ work[u].at = "closing" =>
              listeners'[work[u].closing] \in {None, listeners[work[u].closing]}
      BY <1>10 DEF WorkTypes
    <2>4. ClosingOwn'
      <3>1. ClosingOwn /\ WorkTypes /\ v.at # "closing" /\ Moves(w, v, c)
        BY <1>7, <1>8, <1>14
      <3> QED BY ONLY <2>3, <3>1, w \in Proxies!Workers, ClosingStays
    <2> QED BY <2>2, <2>4
  <1>15. ASSUME NEW d \in Containers \ disturbed' PROVE Undisturbed(d)'
    <2>1. disturbed # Containers
      BY <1>1, <1>15
    <2>2. CASE d # c
      <3>1. \A p \in Proxies!Ports : Listens(p, d) => listeners'[p] = listeners[p]
        BY <1>10, <1>13, <2>1, <2>2 DEF Listens
      <3>2. \A p \in Proxies!Ports : Listens(p, d)' => Listens(p, d)
        BY <1>10 DEF Listens
      <3> QED BY <1>1, <1>8, <1>9, <1>15, <2>1, <2>2, <3>1, <3>2, OthersStay
    <2>3. CASE d = c
      <3>1. Alone(w, c) /\ ProxiesHold(c) /\ Fits(r, c)
        BY <1>1, <1>2, <1>3, <1>15, <2>3, BusyAlone
      <3>2. Listens(q, c)
        BY <1>1, <1>2, <1>3, <1>13, <2>1, <3>1 DEF Fits
      <3>3. \A p \in Proxies!Ports : Listens(p, c) => p = q
        BY <3>1, <3>2 DEF ProxiesHold
      <3>4. ProxiesHold(c)'
        BY <1>10, <3>3 DEF ProxiesHold, Listens
      <3>5. Fits(v, c)'
        BY <1>1, <1>2, <1>5, <1>7, <1>9, <3>1 DEF Fits
      <3> QED BY <1>7, <1>8, <2>3, <3>1, <3>4, <3>5, OwnStays DEF Resting
    <2> QED BY <2>2, <2>3
  <1> QED BY <1>1, <1>11, <1>12, <1>14, <1>15

\* After a restart no worker is at work, and the proxies are those of the file, unless
\* one could not be restored.
LEMMA ProxiesRestart ==
    ASSUME PublishersInv, Proxies!Restart
    PROVE  PublishersInv'
  <1> USE DEF PublishersInv
  <1>1. /\ state' = file /\ file' = file /\ queue' = <<>> /\ guests' = guests /\ todo' = {}
        /\ disturbed' = IF \E c \in Containers : Proxies!Unrestored(c)' THEN Containers
              ELSE disturbed \cup
                  {c \in Containers :
                      file[c] # state[c] \/ \E w \in Proxies!Workers : Proxies!BusyWith(w, c)}
    BY DEF Proxies!Restart, Proxies!Reload
  <1>2. work' = [w \in Proxies!Workers |->
            IF w = Loop THEN [work[w] EXCEPT !.at = "idle"]
            ELSE IF work[w].at = "new" THEN work[w] ELSE [work[w] EXCEPT !.at = "done"]]
    BY DEF Proxies!Restart
  <1>3. PICK owner \in [Proxies!Ports -> Containers \cup {None}] :
            /\ \A p \in Proxies!Ports :
                  LET claims == {c \in Containers : file[c] # None /\ file[c].port = p}
                  IN  IF claims = {} \/ p \in taken' THEN owner[p] = None
                      ELSE owner[p] \in claims
            /\ listeners' = [p \in Proxies!Ports |->
                  IF owner[p] = None THEN None
                  ELSE [id |-> owner[p], target |-> file[owner[p]].target]]
    BY DEF Proxies!Restart, Proxies!Restored
  <1>4. ASSUME NEW p \in Proxies!Ports, owner[p] # None
        PROVE  /\ owner[p] \in Containers /\ file[owner[p]] # None /\ file[owner[p]].port = p
               /\ file[owner[p]].target \in Proxies!Addresses
    <2>1. PICK c \in Containers : c = owner[p] /\ file[c] # None /\ file[c].port = p
      BY <1>3, <1>4
    <2>2. file[c] \in {None} \cup Proxies!Publication
      BY DEF StoreTypes, Records
    <2> QED BY <2>1, <2>2 DEF Proxies!Publication
  <1>5. ASSUME NEW p \in Proxies!Ports
        PROVE  /\ listeners'[p] \in {None} \cup Proxies!Proxy
               /\ listeners'[p] # None =>
                      /\ listeners'[p].id = owner[p] /\ owner[p] # None
                      /\ listeners'[p].target = file[owner[p]].target
    BY <1>3, <1>4, NoneIsNoProxy
  <1>6. listeners' \in [Proxies!Ports -> {None} \cup Proxies!Proxy]
    BY <1>3, <1>5
  <1>7. ASSUME NEW w \in Proxies!Workers PROVE work'[w] \in Worker /\ work'[w].at \in Resting
    <2>1. PICK r \in Worker : r = work[w]
      BY DEF WorkTypes
    <2>2. /\ [r EXCEPT !.at = "idle"] \in Worker /\ [r EXCEPT !.at = "idle"].at = "idle"
          /\ [r EXCEPT !.at = "done"] \in Worker /\ [r EXCEPT !.at = "done"].at = "done"
      BY DEF Worker, Phases, Resting
    <2> QED BY <1>2, <2>1, <2>2 DEF Resting
  <1>8. StoreTypes' /\ MapTypes'
    BY <1>1, <1>6 DEF StoreTypes, MapTypes
  <1>9. work' \in [Proxies!Workers -> Worker]
    BY <1>2, <1>7
  <1>10. WorkTypes' /\ ClosingOwn'
    BY <1>7, <1>9 DEF WorkTypes, ClosingOwn, Resting
  <1>11. SavesAreAwaited'
    BY <1>1, <1>7 DEF SavesAreAwaited, Resting
  <1>12. disturbed' # Containers => RecordsHold'
    BY <1>1 DEF RecordsHold, Listens, Proxies!Unrestored
  <1>13. ASSUME NEW d \in Containers \ disturbed' PROVE Undisturbed(d)'
    <2>1. /\ d \notin disturbed /\ file[d] = state[d]
          /\ \A w \in Proxies!Workers : ~Proxies!BusyWith(w, d)
      BY <1>1, <1>13
    <2>2. guests[d] = None => state[d] = None
      BY <1>13, <2>1 DEF Undisturbed
    <2>3. \A w \in Proxies!Workers : ~Proxies!BusyWith(w, d)'
      BY <1>7 DEF Proxies!BusyWith, Proxies!Resting, Resting
    <2>4. ProxiesHold(d)'
      BY <1>1, <1>4, <1>5 DEF ProxiesHold, Listens
    <2> QED BY <1>1, <2>1, <2>2, <2>3, <2>4 DEF Undisturbed, OneIsBusy
  <1> QED BY <1>8, <1>10, <1>11, <1>12, <1>13

LEMMA ProxiesFirst ==
    ASSUME Proxies!Init
    PROVE  PublishersInv
  <1>1. /\ state = [c \in Containers |-> None] /\ file = state /\ queue = <<>>
        /\ listeners = [p \in Proxies!Ports |-> None] /\ todo = {} /\ disturbed = {}
        /\ guests \in [Containers -> Private \cup Lan]
    BY DEF Proxies!Init
  <1>2. ASSUME NEW w \in Proxies!Workers PROVE work[w] \in Worker /\ work[w].at \in Resting
    <2>1. PICK a \in {"idle", "new"} : a = IF w = Loop THEN "idle" ELSE "new"
      OBVIOUS
    <2>2. PICK r : r = [at |-> a, op |-> "publish", id |-> None,
                        port |-> 0, last |-> 0, old |-> 0, target |-> None, closing |-> 0,
                        then |-> "done"]
      OBVIOUS
    <2>3. work[w] = r
      BY <2>1, <2>2 DEF Proxies!Init
    <2>4. r \in Worker /\ r.at \in Resting
      BY <2>2 DEF Worker, Phases, Resting, Afterwards, Proxies!Addresses
    <2> QED BY <2>3, <2>4
  <1>3. work \in [Proxies!Workers -> Worker]
    BY <1>2 DEF Proxies!Init
  <1>4. StoreTypes /\ MapTypes
    BY <1>1 DEF StoreTypes, MapTypes, Records, Proxies!Addresses
  <1>5. WorkTypes /\ SavesAreAwaited /\ ClosingOwn
    BY <1>1, <1>2, <1>3 DEF WorkTypes, SavesAreAwaited, ClosingOwn, Resting
  <1>6. RecordsHold
    BY <1>1 DEF RecordsHold
  <1>7. ASSUME NEW c \in Containers PROVE Undisturbed(c)
    <2>1. \A w \in Proxies!Workers : ~Proxies!BusyWith(w, c)
      BY <1>2 DEF Proxies!BusyWith, Proxies!Resting, Resting
    <2>2. ProxiesHold(c) /\ state[c] = None
      BY <1>1 DEF ProxiesHold, Listens
    <2> QED BY <2>1, <2>2 DEF Undisturbed, OneIsBusy
  <1> QED BY <1>4, <1>5, <1>6, <1>7 DEF PublishersInv

LEMMA ProxySteps ==
    ASSUME PublishersInv, Proxies!Next
    PROVE  PublishersInv'
  <1>1. ASSUME NEW w \in Proxies!Workers, Proxies!Turn(w) PROVE PublishersInv'
    BY <1>1, ProxiesClosed, ProxiesListening DEF Proxies!Turn
  <1>2. ASSUME NEW w \in Proxies!Workers, Proxies!Calm, Proxies!Step(w) PROVE PublishersInv'
    <2>1. \A u \in Proxies!Workers : ~Proxies!Due(u)
      BY <1>2 DEF Proxies!Calm
    <2> QED BY <1>2, <2>1, ProxiesReady, ProxiesDetected, ProxiesUndetected, ProxiesAllow,
               ProxiesAllowFails DEF Proxies!Step
  <1>3. ASSUME NEW w \in Publishers, Proxies!Begin(w) \/ Proxies!Unpublish(w) \/ Proxies!Revoke(w)
        PROVE  PublishersInv'
    BY <1>3, ProxiesBeginRequest, ProxiesUnpublish, ProxiesRevoke
  <1>4. ASSUME NEW c \in Containers, Proxies!LookAt(c) \/ Proxies!Move(c) PROVE PublishersInv'
    BY <1>4, ProxiesLookAt, ProxiesMove
  <1> QED BY <1>1, <1>2, <1>3, <1>4, ProxiesScan, ProxiesForeign, ProxiesWritten, ProxiesNotWritten,
             ProxiesRestart DEF Proxies!Next

LEMMA ProxiesStep ==
    ASSUME PublishersInv, [Next]_vars, part = "proxies"
    PROVE  PublishersInv'
  <1>1. CASE Proxies!Next
    BY <1>1, ProxySteps
  <1>2. CASE UNCHANGED Proxies!vars
    <2>1. UNCHANGED <<state, queue, file, listeners, guests, work, todo, disturbed>>
      BY <1>2 DEF Proxies!vars, Proxies!store
    <2>2. guests' \in [Containers -> Proxies!Addresses]
      BY <2>1 DEF PublishersInv, MapTypes
    <2> QED BY <2>1, <2>2, WorldChanges
  <1> QED BY <1>1, <1>2, ProxiesRun

\* Nobody is busy with a container that is settled, and it was left undisturbed.
LEMMA SettledIsUndisturbed ==
    ASSUME PublishersInv, NEW c \in Containers, Proxies!Settled(c)
    PROVE  /\ disturbed # Containers /\ Undisturbed(c) /\ RecordsHold
           /\ \A w \in Proxies!Workers : ~Proxies!BusyWith(w, c)
  BY DEF PublishersInv, Proxies!Settled

LEMMA ProxiesAreTheRecords ==
    ASSUME PublishersInv
    PROVE  Proxies!ProxiesMatchRecords /\ Proxies!RecordsHaveProxies
  <1> USE DEF PublishersInv
  <1>1. ASSUME NEW p \in Proxies!Ports, listeners[p] # None, Proxies!Settled(listeners[p].id)
        PROVE  state[listeners[p].id] = [port |-> p, target |-> listeners[p].target]
    <2>1. PICK c \in Containers : c = listeners[p].id
      <3>1. listeners[p] \in Proxies!Proxy
        BY <1>1 DEF MapTypes
      <3> QED BY <3>1 DEF Proxies!Proxy
    <2>2. Proxies!Settled(c)
      BY <1>1, <2>1 DEF Proxies!Settled, Proxies!BusyWith
    <2>3. state[c] # None /\ state[c].port = p /\ state[c].target = listeners[p].target
      BY <1>1, <2>1, <2>2, SettledIsUndisturbed DEF Undisturbed, ProxiesHold, Listens
    <2>4. state[c] \in Proxies!Publication
      BY <2>3 DEF StoreTypes, Records
    <2> QED BY <2>1, <2>3, <2>4 DEF Proxies!Publication
  <1>2. Proxies!RecordsHaveProxies
    BY SettledIsUndisturbed DEF Proxies!RecordsHaveProxies, RecordsHold, Listens, Proxies!isListening
  <1> QED BY <1>1, <1>2 DEF Proxies!ProxiesMatchRecords

LEMMA ClosedIsOwn ==
    ASSUME PublishersInv
    PROVE  Proxies!ClosesItsOwn /\ Proxies!DeletedIsUnpublished
  <1> USE DEF PublishersInv
  <1>1. ASSUME NEW w \in Proxies!Workers, work[w].at = "closing", ~Proxies!Due(w),
               work[w].id \notin disturbed
        PROVE  listeners[work[w].closing].id = work[w].id
    <2>1. work[w].id \in Containers
      BY <1>1 DEF WorkTypes, Resting
    <2>2. disturbed # Containers
      BY <1>1, <2>1
    <2> QED BY <1>1, <2>2 DEF ClosingOwn, Listens, Proxies!Due
  <1>2. Proxies!DeletedIsUnpublished
    BY SettledIsUndisturbed DEF Proxies!DeletedIsUnpublished, Undisturbed
  <1> QED BY <1>1, <1>2 DEF Proxies!ClosesItsOwn

InProxies == part = "proxies"

\* A container that no worker is busy with, and whose work was not disturbed, is
\* reached where its record says: the proxies of ContainerPublisher are those of the
\* records, and no record lacks the proxy that it names.
THEOREM ProxiesStayRecords == Spec => []ProxiesAreRecords
  <1>1. Init => (InProxies => PublishersInv)
    BY ProxiesBegin, ProxiesFirst DEF InProxies
  <1>2. (InProxies => PublishersInv) /\ [Next]_vars => (InProxies => PublishersInv)'
    BY ProxiesStep, PartStays DEF InProxies
  <1>3. (InProxies => PublishersInv) => ProxiesAreRecords
    BY ProxiesAreTheRecords DEF ProxiesAreRecords, InProxies
  <1> QED BY <1>1, <1>2, <1>3, PTL DEF Spec

\* remove() of ContainerPublisher, which closes what listens on the port of the
\* record, closes no other container's proxy, and what it removes of a container
\* that is deleted stays removed, though the loop may have had it in its list.
THEOREM RemovalIsOwn == Spec => []RemovesItsOwn
  <1>1. Init => (InProxies => PublishersInv)
    BY ProxiesBegin, ProxiesFirst DEF InProxies
  <1>2. (InProxies => PublishersInv) /\ [Next]_vars => (InProxies => PublishersInv)'
    BY ProxiesStep, PartStays DEF InProxies
  <1>3. (InProxies => PublishersInv) => RemovesItsOwn
    BY ClosedIsOwn DEF RemovesItsOwn, InProxies
  <1> QED BY <1>1, <1>2, <1>3, PTL DEF Spec
=============================================================================
