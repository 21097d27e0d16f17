---------------------------- MODULE Browser_proofs ----------------------------
(***************************************************************************)
(* Theorems about the modules of the browser that MCBrowser puts side by   *)
(* side, for any folders, files, pictures, edits and bounds: the listing   *)
(* on the files page is of its section; the viewer shows one file and      *)
(* copies are as the operator saw them; once an operation is done, the     *)
(* listing and the parts that scripts add show it; and the editor's        *)
(* history is a stack to undo and one to redo.                             *)
(***************************************************************************)
EXTENDS MCBrowser, SequenceTheorems, TLAPS

-----------------------------------------------------------------------------
(* Sequences *)

\* A sequence of which every element is in T is a sequence over T.
LEMMA SeqOver ==
    ASSUME NEW S, NEW T, NEW s \in Seq(S), \A i \in DOMAIN s : s[i] \in T
    PROVE  s \in Seq(T)
  BY SeqDef

\* A change of the elements of a sequence.
LEMMA SeqChanged ==
    ASSUME NEW S, NEW T, NEW s \in Seq(S), NEW g,
           g = [i \in DOMAIN s |-> g[i]], \A i \in DOMAIN s : g[i] \in T
    PROVE  g \in Seq(T) /\ Len(g) = Len(s) /\ DOMAIN g = DOMAIN s
  <1>1. DOMAIN s = 1..Len(s) /\ Len(s) \in Nat
    BY LenProperties
  <1>2. g \in [1..Len(s) -> T]
    BY <1>1
  <1>3. g \in Seq(T)
    BY <1>1, <1>2, SeqDef
  <1>4. DOMAIN g = 1..Len(g) /\ Len(g) \in Nat
    BY <1>3, LenProperties
  <1>5. DOMAIN g = 1..Len(s)
    BY <1>2
  <1>6. Len(g) = Len(s)
    BY <1>1, <1>4, <1>5
  <1> QED
    BY <1>1, <1>3, <1>5, <1>6

\* RemoveAt of the modules, each of which has its own.
Without(s, i) == SubSeq(s, 1, i - 1) \o SubSeq(s, i + 1, Len(s))

\* What it leaves: the elements before the place, and those after it moved.
LEMMA Removed ==
    ASSUME NEW S, NEW s \in Seq(S), NEW i \in DOMAIN s
    PROVE  LET r == Without(s, i) IN
           /\ r \in Seq(S)
           /\ DOMAIN s = 1..Len(s) /\ DOMAIN r = 1..Len(r)
           /\ Len(s) \in Nat /\ Len(r) = Len(s) - 1
           /\ \A j \in DOMAIN r : r[j] = IF j < i THEN s[j] ELSE s[j + 1]
  <1> DEFINE r == Without(s, i)
  <1>1. DOMAIN s = 1..Len(s) /\ Len(s) \in Nat
    BY LenProperties
  <1> DEFINE a == SubSeq(s, 1, i - 1)  b == SubSeq(s, i + 1, Len(s))
  <1>2. a \in Seq(S) /\ Len(a) = i - 1 /\ \A j \in 1..(i - 1) : a[j] = s[j]
    BY <1>1
  <1>3. b \in Seq(S) /\ Len(b) = Len(s) - i /\ \A j \in 1..(Len(s) - i) : b[j] = s[i + j]
    BY <1>1
  <1> HIDE DEF a, b, r
  <1>4. r = a \o b
    BY DEF a, b, r, Without
  <1>5. /\ r \in Seq(S) /\ Len(r) = Len(a) + Len(b)
        /\ \A j \in 1..Len(a) + Len(b) : r[j] = IF j <= Len(a) THEN a[j] ELSE b[j - Len(a)]
    <2>1. a \in Seq(S) /\ b \in Seq(S)
      BY <1>2, <1>3
    <2> QED
      BY <2>1, <1>4, ConcatProperties
  <1>6. DOMAIN r = 1..Len(r) /\ Len(r) = Len(s) - 1
    <2>1. DOMAIN r = 1..Len(r)
      BY <1>5, LenProperties
    <2> QED
      BY <1>1, <1>2, <1>3, <1>5, <2>1
  <1>7. ASSUME NEW j \in DOMAIN r PROVE r[j] = IF j < i THEN s[j] ELSE s[j + 1]
    <2>1. /\ Len(a) = i - 1 /\ Len(b) = Len(s) - i /\ i \in 1..Len(s)
          /\ Len(s) \in Nat /\ j \in 1..(Len(s) - 1)
      BY <1>1, <1>2, <1>3, <1>6
    <2>2. j \in 1..Len(a) + Len(b)
      BY <2>1
    <2>3. r[j] = IF j <= Len(a) THEN a[j] ELSE b[j - Len(a)]
      BY <1>5, <2>2
    <2>4. CASE j < i
      <3>1. j <= Len(a) /\ j \in 1..(i - 1)
        BY <2>1, <2>4
      <3> QED
        BY <1>2, <2>3, <2>4, <3>1
    <2>5. CASE ~(j < i)
      <3> DEFINE n == Len(s)  m == Len(a)
      <3>1. ~(j <= m) /\ j - m \in 1..(n - i) /\ i + (j - m) = j + 1
        <4>1. n \in Nat /\ i \in 1..n /\ j \in 1..(n - 1) /\ m = i - 1
          BY <2>1
        <4> HIDE DEF n, m
        <4>2. n \in Int /\ i \in Int /\ j \in Int /\ m \in Int
          BY <4>1
        <4>3. i <= j /\ j <= n - 1
          BY <2>5, <4>1, <4>2
        <4>4. ~(j <= m)
          BY <4>1, <4>2, <4>3
        <4>5. j - m \in 1..(n - i)
          BY <4>1, <4>2, <4>3
        <4>6. i + (j - m) = j + 1
          BY <4>1, <4>2
        <4> QED
          BY <4>4, <4>5, <4>6
      <3>2. b[j - Len(a)] = s[i + (j - Len(a))]
        BY <1>3, <3>1
      <3> QED
        BY <2>3, <2>5, <3>1, <3>2
    <2> QED
      BY <2>4, <2>5
  <1> QED
    BY <1>1, <1>5, <1>6, <1>7 DEF r

-----------------------------------------------------------------------------
(* The files page *)

\* What ListingBelongs says, of the listing that is held while another page is on the
\* screen too: it is shown when the user comes back.
FilesHolds == files # NotLoaded => files.of = section

\* What is remembered of a section is of that section.
LEMMA RestoredBelongs ==
    ASSUME NEW s, NEW other, other # NotLoaded => other.of = s
    PROVE  Files!Restored(s, other) # NotLoaded => Files!Restored(s, other).of = s
  BY DEF Files!Restored, Files!Listing

\* A load begins with what is shown or remembered of its section.
LEMMA BeginsBelongs ==
    ASSUME NEW s, NEW force, NEW mine, NEW listed, listed # NotLoaded => listed.of = s,
           Files!Begins(s, force, mine, listed)
    PROVE  files' # NotLoaded => files'.of = s
  <1>1. Files!Restored(s, listed) # NotLoaded => Files!Restored(s, listed).of = s
    BY RestoredBelongs
  <1> QED
    BY <1>1 DEF Files!Begins

LEMMA ShowsBelongs ==
    ASSUME NEW s, NEW listed, NEW stale, listed # NotLoaded => listed.of = s,
           Files!Shows(s, listed, stale)
    PROVE  files' # NotLoaded => files'.of = s
  BY BeginsBelongs DEF Files!Shows

LEMMA FilesStep ==
    ASSUME FilesHolds, Files!Next
    PROVE  FilesHolds'
  <1>1. ASSUME NEW s \in Files!Sections, Files!Open(s) PROVE FilesHolds'
    <2>1. section' = s /\ Files!Shows(s, NotLoaded, FALSE)
      BY <1>1 DEF Files!Open
    <2> QED
      BY <2>1, ShowsBelongs DEF FilesHolds
  <1>2. ASSUME NEW s \in Files!Sections, Files!Sidebar(s) PROVE FilesHolds'
    <2> DEFINE listed == Files!Restored(s, NotLoaded)
    <2>1. listed # NotLoaded => listed.of = s
      BY RestoredBelongs
    <2> HIDE DEF listed
    <2>2. section' = s
          /\ (Files!Begins(s, FALSE, FALSE, listed) \/ \E stale \in BOOLEAN : Files!Shows(s, listed, stale))
      BY <1>2 DEF Files!Sidebar, listed
    <2>3. files' # NotLoaded => files'.of = s
      BY <2>1, <2>2, BeginsBelongs, ShowsBelongs
    <2> QED
      BY <2>2, <2>3 DEF FilesHolds
  <1>3. ASSUME NEW s \in Files!Sections, Files!Retry(s) PROVE FilesHolds'
    <2>1. CASE view = "files" /\ Files!IsCurrent(s) /\ s \notin loadingKeys
      <3>1. s = section /\ section' = section /\ Files!Begins(s, FALSE, FALSE, files)
        BY <1>3, <2>1 DEF Files!Retry, Files!IsCurrent
      <3> QED
        BY <3>1, BeginsBelongs DEF FilesHolds
    <2>2. CASE ~(view = "files" /\ Files!IsCurrent(s) /\ s \notin loadingKeys)
      BY <1>3, <2>2 DEF Files!Retry, FilesHolds
    <2> QED
      BY <2>1, <2>2
  <1>4. CASE Files!Leave
    BY <1>4 DEF Files!Leave, FilesHolds
  <1>5. CASE Files!Return
    <2>1. section' = section /\ \E stale \in BOOLEAN : Files!Shows(section, files, stale)
      BY <1>5 DEF Files!Return
    <2> QED
      BY <2>1, ShowsBelongs DEF FilesHolds
  <1>6. CASE Files!Refresh
    <2>1. section' = section /\ Files!Begins(section, TRUE, FALSE, files)
      BY <1>6 DEF Files!Refresh
    <2> QED
      BY <2>1, BeginsBelongs DEF FilesHolds
  <1>7. CASE Files!Submit \/ Files!Done
    BY <1>7 DEF Files!Submit, Files!Done, Files!page, FilesHolds
  <1>8. CASE Files!Reload
    <2>1. CASE Files!LoadsNothing
      BY <1>8, <2>1 DEF Files!LoadsNothing, Files!page, FilesHolds
    <2>2. ASSUME NEW force \in BOOLEAN, Files!LoadsAgain(force) PROVE FilesHolds'
      <3>1. section' = section /\ Files!Begins(section, force, TRUE, files)
        BY <2>2 DEF Files!LoadsAgain
      <3> QED
        BY <3>1, BeginsBelongs DEF FilesHolds
    <2>3. \/ Files!LoadsNothing
          \/ \E force \in BOOLEAN : Files!LoadsAgain(force)
      BY <1>8 DEF Files!Reload
    <2> QED
      BY <2>1, <2>2, <2>3
  <1>9. ASSUME NEW k \in DOMAIN loads, Files!Serve(k) \/ Files!Walk(k) \/ Files!Walked(k)
        PROVE  FilesHolds'
    BY <1>9 DEF Files!Serve, Files!Walk, Files!Walked, FilesHolds
  <1>10. ASSUME NEW k \in DOMAIN loads, Files!Reply(k) PROVE FilesHolds'
    BY <1>10 DEF Files!Reply, Files!IsCurrent, Files!Listing, FilesHolds
  <1>11. ASSUME NEW k \in DOMAIN loads, Files!Fail(k) PROVE FilesHolds'
    BY <1>11 DEF Files!Fail, Files!Again, Files!Restored, Files!IsCurrent, Files!Listing, FilesHolds
  <1> QED
    BY <1>1, <1>2, <1>3, <1>4, <1>5, <1>6, <1>7, <1>8, <1>9, <1>10, <1>11 DEF Files!Next

-----------------------------------------------------------------------------
(* The file viewer: its stage *)

Known == {Folder[i] : i \in DOMAIN Folder}
Documents == Known \ Photos
SizeNames == {"tile", "document", "preview", "original"}
Pictures == [file : Known, size : SizeNames]
Fetches == [file : Documents, current : BOOLEAN]
Warmings == [file : Known, size : SizeNames, connected : BOOLEAN]

\* The fields of the viewer.
IsViewer(v) ==
    /\ v = [open |-> v.open, source |-> v.source, current |-> v.current, bound |-> v.bound,
            stage |-> v.stage, background |-> v.background, strip |-> v.strip]
    /\ v.open \in BOOLEAN
    /\ v.stage \in Seq(Pictures)

ViewerTyped ==
    /\ stored \subseteq Known /\ listing \subseteq Known
    /\ IsViewer(viewer)
    /\ fetches \in Seq(Fetches)
    /\ warming \subseteq Warmings
    /\ late \in BOOLEAN

\* Behind the stage is the photo of the title, and so are the photos on it.
Behind(v) == v.source # Off => v.background \in {Off, v.source}
PhotosBelong(v) ==
    \A j \in DOMAIN v.stage : v.stage[j].file \in Photos => v.stage[j].file = v.source

\* A document that is awaited is the one of the title, and the stage waits for it.
Awaited(v, fs) ==
    \A i \in DOMAIN fs : fs[i].current =>
        /\ v.stage = <<>> /\ v.source = fs[i].file
        /\ \A k \in DOMAIN fs : fs[k].current => k = i

\* When none is, the file of the title is on the stage and under the buttons.
Alone(v) ==
    /\ Len(v.stage) = 1 /\ v.stage[1].file = v.source
    /\ v.bound = v.source /\ v.current = v.source
NoneAwaited(fs) == \A i \in DOMAIN fs : ~fs[i].current

StageHolds ==
    /\ Behind(viewer)
    /\ PhotosBelong(viewer)
    /\ ~late => Awaited(viewer, fetches)
    /\ viewer.open /\ ~late /\ NoneAwaited(fetches) => Alone(viewer)

StageInv == ViewerTyped /\ StageHolds

LEMMA FolderFiles == Viewer!Range(Folder) = Known
  BY DEF Viewer!Range, Known

LEMMA SizesAreNames == Photos \subseteq Known /\ Sizes \subseteq SizeNames
  BY BrowserAssumption, FolderFiles DEF Viewer!FileViewerAssumption, SizeNames

LEMMA OutdatedFetches ==
    ASSUME ViewerTyped
    PROVE  /\ Viewer!Outdated \in Seq(Fetches) /\ NoneAwaited(Viewer!Outdated)
           /\ Viewer!Disconnected \subseteq Warmings
  <1> DEFINE o == Viewer!Outdated
  <1>1. fetches \in Seq(Fetches) /\ warming \subseteq Warmings
    BY DEF ViewerTyped
  <1>2. \A i \in DOMAIN fetches : fetches[i] \in Fetches
    BY <1>1, ElementOfSeq, LenProperties
  <1>3. o = [i \in DOMAIN fetches |-> [fetches[i] EXCEPT !.current = FALSE]]
    BY DEF Viewer!Outdated
  <1> HIDE DEF o
  <1>4. \A i \in DOMAIN fetches : o[i] \in Fetches /\ ~o[i].current
    BY <1>2, <1>3 DEF Fetches
  <1>5. o = [i \in DOMAIN fetches |-> o[i]]
    BY <1>3
  <1>6. o \in Seq(Fetches) /\ DOMAIN o = DOMAIN fetches
    BY <1>1, <1>4, <1>5, SeqChanged
  <1>7. NoneAwaited(o)
    BY <1>4, <1>6 DEF NoneAwaited
  <1>8. Viewer!Disconnected \subseteq Warmings
    BY <1>1 DEF Viewer!Disconnected, Warmings
  <1> QED
    BY <1>6, <1>7, <1>8 DEF o

\* A file is emptied onto the stage, and put on it.
LEMMA OfEmptied ==
    ASSUME IsViewer(viewer), NEW f, NEW v, v = Viewer!Emptied(f)
    PROVE  IsViewer(v) /\ v.source = f /\ v.background = Off /\ v.stage = <<>>
  <1>1. v = [open |-> viewer.open, source |-> f, current |-> viewer.current,
             bound |-> viewer.bound, stage |-> <<>>, background |-> Off, strip |-> viewer.strip]
    BY DEF IsViewer, Viewer!Emptied
  <1>2. viewer.open \in BOOLEAN
    BY DEF IsViewer
  <1> QED
    BY <1>1, <1>2 DEF IsViewer

LEMMA OfAttached ==
    ASSUME NEW v, IsViewer(v), NEW f, NEW element \in Pictures, NEW w,
           w = Viewer!Attached(v, f, element)
    PROVE  /\ IsViewer(w) /\ w.source = v.source /\ w.background = v.background
           /\ w.bound = f /\ w.current = f /\ w.open
           /\ w.stage = Append(v.stage, element)
  <1> DEFINE st == Append(v.stage, element)  n == Viewer!Cardinality(listing)
  <1>1. v.stage \in Seq(Pictures)
    BY DEF IsViewer
  <1>2. st \in Seq(Pictures)
    BY <1>1
  <1>3. w = [v EXCEPT !.stage = st, !.bound = f, !.current = f, !.strip = n, !.open = TRUE]
    BY DEF Viewer!Attached
  <1> HIDE DEF st, n
  <1>4. w = [open |-> TRUE, source |-> v.source, current |-> f, bound |-> f, stage |-> st,
             background |-> v.background, strip |-> n]
    BY <1>3 DEF IsViewer
  <1> QED
    BY <1>2, <1>4 DEF IsViewer, st

LEMMA OpenStage ==
    ASSUME StageInv, NEW f \in listing, Viewer!Open(f)
    PROVE  StageInv'
  <1>1. ViewerTyped /\ f \in Known /\ stored' = stored /\ listing' = listing /\ late' = FALSE
    BY DEF StageInv, ViewerTyped, Viewer!Open
  <1>2. IsViewer(viewer)
    BY <1>1 DEF ViewerTyped
  <1> DEFINE e == Viewer!Emptied(f)
  <1>3. IsViewer(e) /\ e.source = f /\ e.background = Off /\ e.stage = <<>>
    BY <1>2, OfEmptied
  <1> HIDE DEF e
  <1>4. /\ Viewer!Outdated \in Seq(Fetches) /\ NoneAwaited(Viewer!Outdated)
        /\ Viewer!Disconnected \subseteq Warmings
    BY <1>1, OutdatedFetches
  <1>5. CASE f \in Photos
    <2> DEFINE t == Viewer!Picture(f, "tile")  a == Viewer!Attached(e, f, t)
    <2>1. /\ viewer' = [a EXCEPT !.background = f]
          /\ fetches' = Viewer!Outdated
          /\ warming' = Viewer!Disconnected \cup {Viewer!Warming(f, size) : size \in Sizes}
      BY <1>5 DEF Viewer!Open, Viewer!OpenPhoto, e
    <2>2. t \in Pictures /\ t.file = f
      BY <1>1 DEF Viewer!Picture, Pictures, SizeNames
    <2> HIDE DEF t
    <2>3. /\ IsViewer(a) /\ a.source = f /\ a.bound = f /\ a.current = f /\ a.open
          /\ a.stage = <<t>>
      <3>1. Append(<<>>, t) = <<t>>
        OBVIOUS
      <3> QED
        BY <1>3, <2>2, <3>1, OfAttached
    <2> HIDE DEF a
    <2>4. /\ IsViewer(viewer') /\ viewer'.source = f /\ viewer'.bound = f /\ viewer'.current = f
          /\ viewer'.stage = <<t>> /\ viewer'.background = f
      BY <2>1, <2>3 DEF IsViewer
    <2>5. \A size \in Sizes : Viewer!Warming(f, size) \in Warmings
      BY <1>1, SizesAreNames DEF Viewer!Warming, Warmings
    <2>6. ViewerTyped'
      BY <1>1, <1>4, <2>1, <2>4, <2>5 DEF ViewerTyped
    <2>7. Behind(viewer') /\ PhotosBelong(viewer') /\ Alone(viewer')
      BY <2>2, <2>4 DEF Behind, PhotosBelong, Alone
    <2>8. Awaited(viewer', fetches')
      BY <1>4, <2>1 DEF Awaited, NoneAwaited
    <2> QED
      BY <2>6, <2>7, <2>8 DEF StageInv, StageHolds
  <1>6. CASE f \notin Photos
    <2> DEFINE o == Viewer!Outdated  g == [file |-> f, current |-> TRUE]
    <2>1. viewer' = e /\ fetches' = Append(o, g) /\ warming' = Viewer!Disconnected
      BY <1>6 DEF Viewer!Open, Viewer!OpenDocument, e
    <2>2. g \in Fetches /\ g.current /\ g.file = f
      BY <1>1, <1>6 DEF Fetches, Documents
    <2>3. o \in Seq(Fetches) /\ NoneAwaited(o)
      BY <1>4
    <2> HIDE DEF o, g
    <2>4. /\ fetches' \in Seq(Fetches) /\ DOMAIN fetches' = 1..Len(o) + 1 /\ Len(o) \in Nat
          /\ DOMAIN o = 1..Len(o)
          /\ \A k \in 1..Len(o) : fetches'[k] = o[k]
          /\ fetches'[Len(o) + 1] = g
      BY <2>1, <2>2, <2>3, AppendProperties, LenProperties
    <2>5. \A k \in DOMAIN fetches' : fetches'[k].current => k = Len(o) + 1
      BY <2>3, <2>4 DEF NoneAwaited
    <2>6. ViewerTyped'
      BY <1>1, <1>3, <1>4, <2>1, <2>4 DEF ViewerTyped
    <2>7. Behind(viewer') /\ PhotosBelong(viewer')
      BY <1>3, <2>1 DEF Behind, PhotosBelong
    <2>8. Awaited(viewer', fetches')
      BY <1>3, <2>1, <2>2, <2>4, <2>5 DEF Awaited
    <2>9. ~NoneAwaited(fetches')
      BY <2>2, <2>4 DEF NoneAwaited
    <2> QED
      BY <2>6, <2>7, <2>8, <2>9 DEF StageInv, StageHolds
  <1> QED
    BY <1>5, <1>6

\* A fetch that ends is no longer awaited; the others stay.
LEMMA FetchEnds ==
    ASSUME ViewerTyped, NEW i \in DOMAIN fetches, fetches' = Viewer!RemoveAt(fetches, i)
    PROVE  /\ fetches[i] \in Fetches
           /\ fetches' \in Seq(Fetches)
           /\ \A j \in DOMAIN fetches' : \E k \in DOMAIN fetches :
                  k # i /\ k = (IF j < i THEN j ELSE j + 1) /\ fetches'[j] = fetches[k]
           /\ \A k \in DOMAIN fetches \ {i} : \E j \in DOMAIN fetches' :
                  fetches'[j] = fetches[k]
  <1>1. fetches \in Seq(Fetches)
    BY DEF ViewerTyped
  <1>2. fetches' = Without(fetches, i)
    BY DEF Viewer!RemoveAt, Without
  <1> DEFINE n == Len(fetches)
  <1>3. /\ fetches' \in Seq(Fetches)
        /\ DOMAIN fetches = 1..n /\ DOMAIN fetches' = 1..Len(fetches')
        /\ n \in Nat /\ Len(fetches') = n - 1
        /\ \A j \in DOMAIN fetches' : fetches'[j] = IF j < i THEN fetches[j] ELSE fetches[j + 1]
    BY <1>1, <1>2, Removed
  <1> HIDE DEF n
  <1>4. fetches[i] \in Fetches
    BY <1>1, <1>3, ElementOfSeq
  <1>5. ASSUME NEW j \in DOMAIN fetches'
        PROVE  \E k \in DOMAIN fetches :
                   k # i /\ k = (IF j < i THEN j ELSE j + 1) /\ fetches'[j] = fetches[k]
    <2>1. j \in 1..(n - 1) /\ i \in 1..n
      BY <1>3
    <2>2. CASE j < i
      BY <1>3, <2>1, <2>2
    <2>3. CASE ~(j < i)
      <3>1. j + 1 \in 1..n /\ j + 1 # i
        BY <1>3, <2>1, <2>3
      <3> QED
        BY <1>3, <2>1, <2>3, <3>1
    <2> QED
      BY <2>2, <2>3
  <1>6. ASSUME NEW k \in DOMAIN fetches \ {i}
        PROVE  \E j \in DOMAIN fetches' : fetches'[j] = fetches[k]
    <2>1. k \in 1..n /\ i \in 1..n /\ k # i
      BY <1>3
    <2>2. CASE k < i
      <3>1. k \in 1..(n - 1)
        BY <1>3, <2>1, <2>2
      <3> QED
        BY <1>3, <2>2, <3>1
    <2>3. CASE ~(k < i)
      <3>1. k - 1 \in 1..(n - 1) /\ ~(k - 1 < i) /\ (k - 1) + 1 = k
        BY <1>3, <2>1, <2>3
      <3>2. fetches'[k - 1] = fetches[(k - 1) + 1]
        BY <1>3, <3>1
      <3> QED
        BY <1>3, <3>1, <3>2
    <2> QED
      BY <2>2, <2>3
  <1> QED
    BY <1>3, <1>4, <1>5, <1>6

LEMMA FetchedStage ==
    ASSUME StageInv, NEW i \in DOMAIN fetches, Viewer!Fetched(i)
    PROVE  StageInv'
  <1> DEFINE f == fetches[i].file  c == fetches[i].current  t == Viewer!Picture(f, "document")
  <1>1. ViewerTyped
    BY DEF StageInv
  <1>2. /\ viewer' = Viewer!Attached(viewer, f, t) /\ late' = (late \/ ~c)
        /\ fetches' = Viewer!RemoveAt(fetches, i)
        /\ stored' = stored /\ listing' = listing /\ warming' = warming
    BY DEF Viewer!Fetched
  <1>3. /\ fetches[i] \in Fetches
        /\ fetches' \in Seq(Fetches)
        /\ \A j \in DOMAIN fetches' : \E k \in DOMAIN fetches :
               k # i /\ k = (IF j < i THEN j ELSE j + 1) /\ fetches'[j] = fetches[k]
    BY <1>1, <1>2, FetchEnds
  <1>4. f \in Documents /\ c \in BOOLEAN
    BY <1>3 DEF Fetches
  <1>5. t \in Pictures /\ t.file = f
    BY <1>4 DEF Viewer!Picture, Pictures, SizeNames, Documents
  <1> HIDE DEF t
  <1>6. /\ IsViewer(viewer') /\ viewer'.source = viewer.source
        /\ viewer'.background = viewer.background /\ viewer'.bound = f /\ viewer'.current = f
        /\ viewer'.stage = Append(viewer.stage, t)
    BY <1>1, <1>2, <1>5, OfAttached DEF ViewerTyped
  <1>7. ViewerTyped'
    BY <1>1, <1>2, <1>3, <1>4, <1>6 DEF ViewerTyped
  <1>8. Behind(viewer')
    BY <1>6 DEF StageInv, StageHolds, Behind
  <1>9. PhotosBelong(viewer')
    <2>1. viewer.stage \in Seq(Pictures)
      BY <1>1 DEF ViewerTyped, IsViewer
    <2>2. /\ DOMAIN viewer'.stage = 1..Len(viewer.stage) + 1
          /\ DOMAIN viewer.stage = 1..Len(viewer.stage) /\ Len(viewer.stage) \in Nat
          /\ \A j \in 1..Len(viewer.stage) : viewer'.stage[j] = viewer.stage[j]
          /\ viewer'.stage[Len(viewer.stage) + 1] = t
      BY <1>5, <1>6, <2>1, AppendProperties, LenProperties
    <2>3. PhotosBelong(viewer)
      BY DEF StageInv, StageHolds
    <2> QED
      BY <1>4, <1>5, <1>6, <2>2, <2>3 DEF PhotosBelong, Documents
  <1>10. CASE ~late'
    <2>1. ~late /\ c
      BY <1>1, <1>2, <1>4, <1>10 DEF ViewerTyped
    <2>2. /\ viewer.stage = <<>> /\ viewer.source = f
          /\ \A k \in DOMAIN fetches : fetches[k].current => k = i
      BY <2>1 DEF StageInv, StageHolds, Awaited
    <2>3. \A j \in DOMAIN fetches' : ~fetches'[j].current
      BY <1>3, <2>2
    <2>4. viewer'.stage = <<t>>
      <3>1. Append(<<>>, t) = <<t>>
        OBVIOUS
      <3> QED
        BY <1>6, <2>2, <3>1
    <2>5. Alone(viewer')
      BY <1>5, <1>6, <2>2, <2>4 DEF Alone
    <2> QED
      BY <1>7, <1>8, <1>9, <2>3, <2>5 DEF StageInv, StageHolds, Awaited
  <1>11. CASE late'
    BY <1>7, <1>8, <1>9, <1>11 DEF StageInv, StageHolds
  <1> QED
    BY <1>10, <1>11

LEMMA FetchFailsStage ==
    ASSUME StageInv, NEW i \in DOMAIN fetches, Viewer!FetchFails(i)
    PROVE  StageInv'
  <1> DEFINE c == fetches[i].current
  <1>1. ViewerTyped
    BY DEF StageInv
  <1>2. /\ viewer' = viewer /\ late' = (late \/ c)
        /\ fetches' = Viewer!RemoveAt(fetches, i)
        /\ stored' = stored /\ listing' = listing /\ warming' = warming
    BY DEF Viewer!FetchFails
  <1>3. /\ fetches[i] \in Fetches
        /\ fetches' \in Seq(Fetches)
        /\ \A j \in DOMAIN fetches' : \E k \in DOMAIN fetches :
               k # i /\ k = (IF j < i THEN j ELSE j + 1) /\ fetches'[j] = fetches[k]
        /\ \A k \in DOMAIN fetches \ {i} : \E j \in DOMAIN fetches' : fetches'[j] = fetches[k]
    BY <1>1, <1>2, FetchEnds
  <1>4. c \in BOOLEAN
    BY <1>3 DEF Fetches
  <1>5. ViewerTyped'
    BY <1>1, <1>2, <1>3, <1>4 DEF ViewerTyped
  <1>6. Behind(viewer') /\ PhotosBelong(viewer')
    BY <1>2 DEF StageInv, StageHolds
  <1>7. CASE ~late'
    <2>1. ~late /\ ~c
      BY <1>1, <1>2, <1>4, <1>7 DEF ViewerTyped
    <2>2. NoneAwaited(fetches') => NoneAwaited(fetches)
      BY <1>3, <2>1 DEF NoneAwaited
    <2>3. Awaited(viewer, fetches)
      BY <2>1 DEF StageInv, StageHolds
    <2>4. ASSUME NEW j \in DOMAIN fetches', fetches'[j].current
          PROVE  /\ viewer.stage = <<>> /\ viewer.source = fetches'[j].file
                 /\ \A m \in DOMAIN fetches' : fetches'[m].current => m = j
      <3>1. PICK k \in DOMAIN fetches :
                k # i /\ k = (IF j < i THEN j ELSE j + 1) /\ fetches'[j] = fetches[k]
        BY <1>3
      <3>2. /\ viewer.stage = <<>> /\ viewer.source = fetches'[j].file
            /\ \A m \in DOMAIN fetches : fetches[m].current => m = k
        BY <2>3, <2>4, <3>1 DEF Awaited
      <3>3. ASSUME NEW m \in DOMAIN fetches', fetches'[m].current PROVE m = j
        <4>1. PICK n \in DOMAIN fetches :
                  n # i /\ n = (IF m < i THEN m ELSE m + 1) /\ fetches'[m] = fetches[n]
          BY <1>3
        <4>2. n = k
          BY <3>2, <3>3, <4>1
        <4>3. m \in Int /\ j \in Int /\ i \in Int
          <5>1. DOMAIN fetches' = 1..Len(fetches') /\ DOMAIN fetches = 1..Len(fetches)
            BY <1>1, <1>3, LenProperties DEF ViewerTyped
          <5> QED
            BY <5>1
        <4> QED
          BY <3>1, <4>1, <4>2, <4>3
      <3> QED
        BY <3>2, <3>3
    <2>5. Awaited(viewer', fetches')
      BY <1>2, <2>4 DEF Awaited
    <2> QED
      BY <1>2, <1>5, <1>6, <2>1, <2>2, <2>5 DEF StageInv, StageHolds
  <1>8. CASE late'
    BY <1>5, <1>6, <1>8 DEF StageInv, StageHolds
  <1> QED
    BY <1>7, <1>8

LEMMA WarmedStage ==
    ASSUME StageInv, NEW w \in warming, Viewer!Warmed(w)
    PROVE  StageInv'
  <1> DEFINE t == Viewer!Picture(w.file, w.size)
             st == [j \in DOMAIN viewer.stage |->
                       IF viewer.stage[j].file = w.file THEN t ELSE viewer.stage[j]]
  <1>1. ViewerTyped /\ w \in Warmings
    BY DEF StageInv, ViewerTyped
  <1>2. /\ UNCHANGED <<stored, listing, fetches, late>> /\ warming' = warming \ {w}
        /\ viewer' = IF Viewer!Belongs(w)
                     THEN [viewer EXCEPT !.background = w.file, !.stage = st] ELSE viewer
    BY DEF Viewer!Warmed
  <1>3. t \in Pictures /\ t.file = w.file
    BY <1>1 DEF Warmings, Viewer!Picture, Pictures
  <1> HIDE DEF t
  <1>4. viewer.stage \in Seq(Pictures)
    BY <1>1 DEF ViewerTyped, IsViewer
  <1>5. \A j \in DOMAIN viewer.stage : viewer.stage[j] \in Pictures
    BY <1>4, ElementOfSeq, LenProperties
  <1>6. \A j \in DOMAIN viewer.stage : st[j] \in Pictures /\ st[j].file = viewer.stage[j].file
    BY <1>3, <1>5
  <1>7. st = [j \in DOMAIN viewer.stage |-> st[j]]
    OBVIOUS
  <1> HIDE DEF st
  <1>8. st \in Seq(Pictures) /\ Len(st) = Len(viewer.stage) /\ DOMAIN st = DOMAIN viewer.stage
    BY <1>4, <1>6, <1>7, SeqChanged
  <1>9. CASE Viewer!Belongs(w)
    <2>1. viewer' = [open |-> viewer.open, source |-> viewer.source, current |-> viewer.current,
                     bound |-> viewer.bound, stage |-> st, background |-> w.file,
                     strip |-> viewer.strip]
      BY <1>1, <1>2, <1>9 DEF ViewerTyped, IsViewer
    <2>2. /\ IsViewer(viewer') /\ viewer'.open = viewer.open /\ viewer'.source = viewer.source
          /\ viewer'.bound = viewer.bound /\ viewer'.current = viewer.current
          /\ viewer'.stage = st /\ viewer'.background = w.file
      BY <1>1, <1>8, <2>1 DEF ViewerTyped, IsViewer
    <2>3. ViewerTyped'
      BY <1>1, <1>2, <2>2 DEF ViewerTyped
    <2>4. Behind(viewer')
      BY <1>9, <2>2 DEF Behind, Viewer!Belongs
    <2>5. PhotosBelong(viewer')
      BY <1>6, <1>8, <2>2 DEF PhotosBelong, StageInv, StageHolds
    <2>6. ~late' => Awaited(viewer', fetches')
      <3>1. viewer.stage = <<>> => st = <<>>
        BY <1>4, <1>8, EmptySeq
      <3> QED
        BY <1>2, <2>2, <3>1 DEF Awaited, StageInv, StageHolds
    <2>7. Alone(viewer) => Alone(viewer')
      <3>1. ASSUME Len(viewer.stage) = 1
            PROVE  Len(st) = 1 /\ st[1].file = viewer.stage[1].file
        <4>1. 1 \in DOMAIN viewer.stage
          BY <1>4, <3>1, LenProperties
        <4> QED
          BY <1>6, <1>8, <3>1, <4>1
      <3> QED
        BY <2>2, <3>1 DEF Alone
    <2> QED
      BY <1>2, <2>2, <2>3, <2>4, <2>5, <2>6, <2>7 DEF StageInv, StageHolds
  <1>10. CASE ~Viewer!Belongs(w)
    BY <1>1, <1>2, <1>10 DEF StageInv, StageHolds, ViewerTyped
  <1> QED
    BY <1>9, <1>10

\* The viewer closes, if it is open; files may have been deleted meanwhile.
LEMMA ShutStage ==
    ASSUME StageInv, Viewer!Shuts, late' = late, stored' \subseteq Known, listing' \subseteq Known
    PROVE  StageInv'
  <1>1. ViewerTyped
    BY DEF StageInv
  <1>2. CASE viewer.open
    <2>1. /\ viewer' = [viewer EXCEPT !.open = FALSE, !.source = Off, !.current = Off, !.stage = <<>>]
          /\ fetches' = Viewer!Outdated /\ warming' = Viewer!Disconnected
      BY <1>2 DEF Viewer!Shuts, Viewer!Shut, Viewer!Cleared
    <2>2. viewer' = [open |-> FALSE, source |-> Off, current |-> Off, bound |-> viewer.bound,
                     stage |-> <<>>, background |-> viewer.background, strip |-> viewer.strip]
      BY <1>1, <2>1 DEF ViewerTyped, IsViewer
    <2>3. IsViewer(viewer') /\ ~viewer'.open /\ viewer'.source = Off /\ viewer'.stage = <<>>
      BY <2>2 DEF IsViewer
    <2>4. /\ fetches' \in Seq(Fetches) /\ NoneAwaited(fetches') /\ warming' \subseteq Warmings
      BY <1>1, <2>1, OutdatedFetches
    <2>5. ViewerTyped'
      BY <1>1, <2>3, <2>4 DEF ViewerTyped
    <2> QED
      BY <2>3, <2>4, <2>5
      DEF StageInv, StageHolds, Behind, PhotosBelong, Awaited, NoneAwaited
  <1>3. CASE ~viewer.open
    <2>1. viewer' = viewer /\ fetches' = fetches /\ warming' = warming
      BY <1>3 DEF Viewer!Shuts, Viewer!Shut
    <2> QED
      BY <1>1, <2>1 DEF StageInv, StageHolds, ViewerTyped
  <1> QED
    BY <1>2, <1>3

LEMMA StageKept ==
    ASSUME StageInv, UNCHANGED <<viewer, fetches, warming, late>>,
           stored' \subseteq Known, listing' \subseteq Known
    PROVE  StageInv'
  BY DEF StageInv, StageHolds, ViewerTyped

-----------------------------------------------------------------------------
(* The photo editor *)

EditsOf == Levels \cup {0, Off}
Savings == [at : {"decoding", "drawn", "written"}, picture : Pictures, edits : EditsOf,
            live : BOOLEAN, drawn : EditsOf, asked : EditsOf, again : BOOLEAN]

\* A save during whose making nothing was edited is of the photo of the editor, with the
\* edits that were asked for.
Faithful(f) ==
    {s \in Savings : ~s.again =>
        /\ s.picture.file = f /\ s.edits = s.asked
        /\ s.at # "decoding" => s.drawn = s.asked}

IsEditor(e) ==
    /\ e = [open |-> e.open, source |-> e.source, picture |-> e.picture, edits |-> e.edits,
            history |-> e.history, index |-> e.index, sliding |-> e.sliding]
    /\ e.open \in BOOLEAN /\ e.sliding \in BOOLEAN /\ e.edits \in EditsOf

\* An open editor has the photo it is named for and a place in its history; its edits
\* are those at that place, but for a slider that is being moved.
Editing(e) ==
    e.open =>
        /\ e.picture \in Pictures /\ e.picture.file = e.source
        /\ e.history \in Seq(EditsOf) /\ e.index \in DOMAIN e.history
        /\ ~e.sliding => e.edits = e.history[e.index]

EditorInv ==
    /\ IsEditor(editor) /\ Editing(editor)
    /\ copied \in EditsOf
    /\ saves \in Seq(Faithful(editor.source))
    /\ Viewer!CopiesAreAsSeen

LEMMA EditorKept ==
    ASSUME EditorInv, UNCHANGED <<editor, copied, saves, copies>>
    PROVE  EditorInv'
  BY DEF EditorInv, Viewer!CopiesAreAsSeen

\* Saves whose edits change, or that part from the editor, while the editor keeps its photo.
LEMMA SavesKept ==
    ASSUME EditorInv, NEW e \in EditsOf
    PROVE  /\ Viewer!Mutated(e) \in Seq(Faithful(editor.source))
           /\ Viewer!Parted \in Seq(Faithful(editor.source))
  <1> DEFINE F == Faithful(editor.source)  m == Viewer!Mutated(e)  p == Viewer!Parted
  <1>1. saves \in Seq(F)
    BY DEF EditorInv
  <1>2. \A i \in DOMAIN saves : saves[i] \in F
    BY <1>1, ElementOfSeq, LenProperties
  <1>3. m = [i \in DOMAIN saves |-> IF saves[i].live
                THEN [saves[i] EXCEPT !.edits = e, !.again = TRUE] ELSE saves[i]]
    BY DEF Viewer!Mutated
  <1>4. p = [i \in DOMAIN saves |-> [saves[i] EXCEPT !.live = FALSE]]
    BY DEF Viewer!Parted
  <1> HIDE DEF m, p
  <1>5. ASSUME NEW i \in DOMAIN saves PROVE m[i] \in F /\ p[i] \in F
    <2>1. saves[i] \in F
      BY <1>2
    <2>2. [saves[i] EXCEPT !.edits = e, !.again = TRUE] \in F
      BY <2>1 DEF Faithful, Savings
    <2>3. [saves[i] EXCEPT !.live = FALSE] \in F
      BY <2>1 DEF Faithful, Savings
    <2> QED
      BY <1>3, <1>4, <2>1, <2>2, <2>3
  <1>6. m = [i \in DOMAIN saves |-> m[i]] /\ p = [i \in DOMAIN saves |-> p[i]]
    BY <1>3, <1>4
  <1> HIDE DEF F
  <1> QED
    BY <1>1, <1>5, <1>6, SeqChanged DEF m, p, F

\* The editor opens on the photo of the stage, which is that of the title.
LEMMA OpenEditorStep ==
    ASSUME StageInv, EditorInv, NEW e \in EditsOf, Viewer!OpenEditor(e)
    PROVE  EditorInv'
  <1> DEFINE F == Faithful(viewer.source)  s == saves'
  <1>1. PICK image \in Viewer!Shown :
            editor' = [open |-> TRUE, source |-> viewer.source, picture |-> image, edits |-> e,
                       history |-> <<e>>, index |-> 1, sliding |-> FALSE]
    BY DEF Viewer!OpenEditor, Viewer!Named
  <1>2. PICK j \in DOMAIN viewer.stage : image = viewer.stage[j] /\ image.file \in Photos
    BY DEF Viewer!Shown
  <1>3. image \in Pictures /\ image.file = viewer.source
    <2>1. viewer.stage \in Seq(Pictures) /\ PhotosBelong(viewer)
      BY DEF StageInv, ViewerTyped, IsViewer, StageHolds
    <2> QED
      BY <1>2, <2>1, ElementOfSeq, LenProperties DEF PhotosBelong
  <1>4. IsEditor(editor') /\ Editing(editor')
    <2>1. <<e>> \in Seq(EditsOf) /\ 1 \in DOMAIN <<e>> /\ <<e>>[1] = e
      OBVIOUS
    <2> QED
      BY <1>1, <1>3, <2>1 DEF IsEditor, Editing
  <1>5. saves \in Seq(Faithful(editor.source))
    BY DEF EditorInv
  <1>6. \A i \in DOMAIN saves : saves[i] \in Savings
    <2>1. \A i \in DOMAIN saves : saves[i] \in Faithful(editor.source)
      BY <1>5, ElementOfSeq, LenProperties
    <2> QED
      BY <2>1 DEF Faithful
  <1>7. s = [i \in DOMAIN saves |-> [[saves[i] EXCEPT !.live = FALSE] EXCEPT !.again = TRUE]]
    BY <1>5, LenProperties DEF Viewer!OpenEditor, Viewer!Parted
  <1> HIDE DEF s
  <1>8. \A i \in DOMAIN saves : s[i] \in F
    BY <1>6, <1>7 DEF Faithful, Savings
  <1>9. s = [i \in DOMAIN saves |-> s[i]]
    BY <1>7
  <1> HIDE DEF F
  <1>10. s \in Seq(F)
    BY <1>5, <1>8, <1>9, SeqChanged
  <1>11. editor'.source = viewer.source /\ copied' = copied /\ copies' = copies
    BY <1>1 DEF Viewer!OpenEditor
  <1> QED
    BY <1>4, <1>10, <1>11 DEF EditorInv, Viewer!CopiesAreAsSeen, F, s

\* A change is put on the history, after what had not been undone.
LEMMA OfPushed ==
    ASSUME NEW ed, IsEditor(ed), ed.open, ed.history \in Seq(EditsOf), ed.index \in DOMAIN ed.history,
           NEW p, p = Viewer!Pushed(ed)
    PROVE  /\ IsEditor(p) /\ p.open /\ p.source = ed.source /\ p.picture = ed.picture
           /\ p.edits = ed.edits /\ p.sliding = ed.sliding
           /\ p.history \in Seq(EditsOf) /\ p.index \in DOMAIN p.history
           /\ p.index = ed.index + 1 /\ Len(p.history) = p.index
           /\ p.history[p.index] = ed.edits
           /\ \A k \in 1..ed.index : p.history[k] = ed.history[k]
  <1> DEFINE past == SubSeq(ed.history, 1, ed.index)  h == Append(past, ed.edits)
  <1>1. DOMAIN ed.history = 1..Len(ed.history) /\ Len(ed.history) \in Nat
    BY LenProperties
  <1>2. ed.edits \in EditsOf
    BY DEF IsEditor
  <1>3. past \in Seq(EditsOf) /\ Len(past) = ed.index /\ \A k \in 1..ed.index : past[k] = ed.history[k]
    BY <1>1
  <1> HIDE DEF past
  <1>4. /\ h \in Seq(EditsOf) /\ Len(h) = ed.index + 1 /\ DOMAIN h = 1..Len(h)
        /\ h[ed.index + 1] = ed.edits /\ \A k \in 1..ed.index : h[k] = past[k]
    BY <1>2, <1>3, AppendProperties, LenProperties
  <1>5. p = [ed EXCEPT !.history = h, !.index = ed.index + 1]
    BY DEF Viewer!Pushed, past
  <1> HIDE DEF h
  <1>6. p = [open |-> ed.open, source |-> ed.source, picture |-> ed.picture, edits |-> ed.edits,
             history |-> h, index |-> ed.index + 1, sliding |-> ed.sliding]
    BY <1>5 DEF IsEditor
  <1>7. IsEditor(p)
    BY <1>6 DEF IsEditor
  <1>8. ed.index + 1 \in DOMAIN h
    BY <1>1, <1>4
  <1>9. \A k \in 1..ed.index : h[k] = ed.history[k]
    BY <1>3, <1>4
  <1> QED
    BY <1>4, <1>6, <1>7, <1>8, <1>9

\* What a step within the open editor leaves: it keeps the photo and its name, and the
\* saves are of that photo.
LEMMA EditorChanged ==
    ASSUME EditorInv, editor.open, IsEditor(editor'),
           editor'.source = editor.source, editor'.picture = editor.picture,
           editor'.history \in Seq(EditsOf), editor'.index \in DOMAIN editor'.history,
           ~editor'.sliding => editor'.edits = editor'.history[editor'.index],
           saves' \in Seq(Faithful(editor.source)),
           UNCHANGED <<copied, copies>>
    PROVE  EditorInv'
  <1>1. editor.picture \in Pictures /\ editor.picture.file = editor.source
    BY DEF EditorInv, Editing
  <1>2. Editing(editor')
    BY <1>1 DEF Editing
  <1> QED
    BY <1>2 DEF EditorInv, Viewer!CopiesAreAsSeen

LEMMA SlideStep ==
    ASSUME EditorInv, NEW e \in Levels, Viewer!Slide(e)
    PROVE  EditorInv'
  <1>1. /\ editor.open /\ editor' = [editor EXCEPT !.edits = e, !.sliding = TRUE]
        /\ saves' = Viewer!Mutated(e) /\ UNCHANGED <<copied, copies>>
    BY DEF Viewer!Slide, Viewer!OnlyEditor
  <1>2. e \in EditsOf /\ IsEditor(editor) /\ Editing(editor)
    BY DEF EditsOf, EditorInv
  <1>3. editor' = [open |-> TRUE, source |-> editor.source, picture |-> editor.picture,
                   edits |-> e, history |-> editor.history, index |-> editor.index,
                   sliding |-> TRUE]
    BY <1>1, <1>2 DEF IsEditor
  <1>4. IsEditor(editor')
    BY <1>2, <1>3 DEF IsEditor
  <1>5. editor.history \in Seq(EditsOf) /\ editor.index \in DOMAIN editor.history
    BY <1>1, <1>2 DEF Editing
  <1> QED
    BY <1>1, <1>2, <1>3, <1>4, <1>5, SavesKept, EditorChanged

LEMMA ReleaseStep ==
    ASSUME EditorInv, Viewer!Release
    PROVE  EditorInv'
  <1> DEFINE p == Viewer!Pushed(editor)
  <1>1. /\ editor.open /\ editor' = [p EXCEPT !.sliding = FALSE]
        /\ UNCHANGED <<saves, copied, copies>>
    BY DEF Viewer!Release, Viewer!OnlyEditor
  <1>2. /\ IsEditor(editor) /\ editor.history \in Seq(EditsOf)
        /\ editor.index \in DOMAIN editor.history
    BY <1>1 DEF EditorInv, Editing
  <1>3. /\ IsEditor(p) /\ p.open /\ p.source = editor.source /\ p.picture = editor.picture
        /\ p.edits = editor.edits /\ p.history \in Seq(EditsOf)
        /\ p.index \in DOMAIN p.history /\ p.history[p.index] = editor.edits
    BY <1>1, <1>2, OfPushed
  <1> HIDE DEF p
  <1>4. editor' = [open |-> p.open, source |-> p.source, picture |-> p.picture,
                   edits |-> p.edits, history |-> p.history, index |-> p.index,
                   sliding |-> FALSE]
    BY <1>1, <1>3 DEF IsEditor
  <1>5. IsEditor(editor')
    BY <1>3, <1>4 DEF IsEditor
  <1>6. saves' \in Seq(Faithful(editor.source))
    BY <1>1 DEF EditorInv
  <1> QED
    BY <1>1, <1>3, <1>4, <1>5, <1>6, EditorChanged

\* Filters and the like, and Revert: other edits, put on the history at once.
LEMMA ChangeStep ==
    ASSUME EditorInv, NEW e \in EditsOf, Viewer!OnEditor,
           editor' = Viewer!Pushed([editor EXCEPT !.edits = e]),
           saves' \in {Viewer!Mutated(e), Viewer!Parted}, UNCHANGED <<copied, copies>>
    PROVE  EditorInv'
  <1> DEFINE ed == [editor EXCEPT !.edits = e]
  <1>1. editor.open /\ ~editor.sliding
    BY DEF Viewer!OnEditor
  <1>2. /\ IsEditor(editor) /\ editor.history \in Seq(EditsOf)
        /\ editor.index \in DOMAIN editor.history
    BY <1>1 DEF EditorInv, Editing
  <1>3. ed = [open |-> editor.open, source |-> editor.source, picture |-> editor.picture,
              edits |-> e, history |-> editor.history, index |-> editor.index,
              sliding |-> editor.sliding]
    BY <1>2 DEF IsEditor
  <1>4. editor' = Viewer!Pushed(ed)
    OBVIOUS
  <1> HIDE DEF ed
  <1>5. IsEditor(ed)
    BY <1>2, <1>3 DEF IsEditor
  <1>6. /\ IsEditor(editor') /\ editor'.source = editor.source
        /\ editor'.picture = editor.picture /\ editor'.edits = e
        /\ editor'.history \in Seq(EditsOf) /\ editor'.index \in DOMAIN editor'.history
        /\ editor'.history[editor'.index] = e
    BY <1>1, <1>2, <1>3, <1>4, <1>5, OfPushed
  <1>7. saves' \in Seq(Faithful(editor.source))
    BY SavesKept
  <1> QED
    BY <1>1, <1>6, <1>7, EditorChanged

\* Undo and Redo: another place of the history.
LEMMA RestoreStep ==
    ASSUME EditorInv, Viewer!OnEditor, NEW k \in DOMAIN editor.history,
           editor' = Viewer!Restored(editor, k), saves' = Viewer!Parted,
           UNCHANGED <<copied, copies>>
    PROVE  EditorInv'
  <1>1. editor.open /\ ~editor.sliding
    BY DEF Viewer!OnEditor
  <1>2. /\ IsEditor(editor) /\ editor.history \in Seq(EditsOf)
        /\ editor.index \in DOMAIN editor.history
    BY <1>1 DEF EditorInv, Editing
  <1>3. editor' = [open |-> editor.open, source |-> editor.source, picture |-> editor.picture,
                   edits |-> editor.history[k], history |-> editor.history, index |-> k,
                   sliding |-> editor.sliding]
    BY <1>2 DEF IsEditor, Viewer!Restored
  <1>4. editor.history[k] \in EditsOf
    BY <1>2, ElementOfSeq, LenProperties
  <1>5. IsEditor(editor')
    BY <1>2, <1>3, <1>4 DEF IsEditor
  <1>6. saves' \in Seq(Faithful(editor.source))
    <2>1. 0 \in EditsOf
      BY DEF EditsOf
    <2> QED
      BY <2>1, SavesKept
  <1> QED
    BY <1>1, <1>2, <1>3, <1>5, <1>6, EditorChanged

LEMMA CancelStep ==
    ASSUME EditorInv, Viewer!Cancel
    PROVE  EditorInv'
  <1>1. editor' = [editor EXCEPT !.open = FALSE] /\ UNCHANGED <<saves, copied, copies>>
    BY DEF Viewer!Cancel, Viewer!OnlyEditor
  <1>2. IsEditor(editor') /\ ~editor'.open /\ editor'.source = editor.source
    BY <1>1 DEF EditorInv, IsEditor
  <1> QED
    BY <1>1, <1>2 DEF EditorInv, Editing, Viewer!CopiesAreAsSeen

LEMMA DoneStep ==
    ASSUME EditorInv, Viewer!Done
    PROVE  EditorInv'
  <1> DEFINE g == [at |-> "decoding", picture |-> editor.picture, edits |-> editor.edits,
                   live |-> TRUE, drawn |-> 0, asked |-> editor.edits, again |-> FALSE]
             F == Faithful(editor.source)
  <1>1. /\ editor.open /\ saves' = Append(saves, g) /\ UNCHANGED <<editor, copied, copies>>
    BY DEF Viewer!Done, Viewer!OnEditor, Viewer!OnlyEditor, Viewer!Plain
  <1>2. /\ editor.picture \in Pictures /\ editor.picture.file = editor.source
        /\ editor.edits \in EditsOf /\ 0 \in EditsOf
    BY <1>1 DEF EditorInv, Editing, IsEditor, EditsOf
  <1>3. g \in F
    BY <1>2 DEF Faithful, Savings
  <1> HIDE DEF g
  <1>4. saves \in Seq(F)
    BY DEF EditorInv
  <1> HIDE DEF F
  <1>5. saves' \in Seq(F)
    BY <1>1, <1>3, <1>4
  <1> QED
    BY <1>1, <1>5 DEF EditorInv, Viewer!CopiesAreAsSeen, F

\* The save that a step is about, and what may become of it.
LEMMA SaveIsFaithful ==
    ASSUME EditorInv, NEW i \in DOMAIN saves
    PROVE  saves[i] \in Faithful(editor.source)
  <1>1. saves \in Seq(Faithful(editor.source))
    BY DEF EditorInv
  <1> QED
    BY <1>1, ElementOfSeq, LenProperties

LEMMA SaveReplaced ==
    ASSUME EditorInv, NEW i \in DOMAIN saves, NEW g \in Faithful(editor.source)
    PROVE  [saves EXCEPT ![i] = g] \in Seq(Faithful(editor.source))
  <1>1. saves \in Seq(Faithful(editor.source)) /\ i \in 1..Len(saves)
    BY LenProperties DEF EditorInv
  <1> QED
    BY <1>1, ExceptSeq

LEMMA SaveRemoved ==
    ASSUME EditorInv, NEW i \in DOMAIN saves
    PROVE  Viewer!RemoveAt(saves, i) \in Seq(Faithful(editor.source))
  <1>1. saves \in Seq(Faithful(editor.source))
    BY DEF EditorInv
  <1>2. Viewer!RemoveAt(saves, i) = Without(saves, i)
    BY DEF Viewer!RemoveAt, Without
  <1> QED
    BY <1>1, <1>2, Removed

LEMMA DrawnStep ==
    ASSUME EditorInv, NEW i \in DOMAIN saves, Viewer!Drawn(i)
    PROVE  EditorInv'
  <1> DEFINE F == Faithful(editor.source)
             g == [saves[i] EXCEPT !.at = "drawn", !.drawn = saves[i].edits]
  <1>1. saves[i] \in F
    BY SaveIsFaithful
  <1>2. saves' = [saves EXCEPT ![i] = g] /\ UNCHANGED <<editor, copied, copies>>
    BY DEF Viewer!Drawn, Viewer!Only
  <1>3. g \in F
    BY <1>1 DEF Faithful, Savings
  <1> HIDE DEF g
  <1>4. saves' \in Seq(F)
    BY <1>2, <1>3, SaveReplaced
  <1> HIDE DEF F
  <1> QED
    BY <1>2, <1>4 DEF EditorInv, Viewer!CopiesAreAsSeen, F

LEMMA WrittenStep ==
    ASSUME EditorInv, NEW i \in DOMAIN saves, Viewer!Written(i)
    PROVE  EditorInv'
  <1> DEFINE F == Faithful(editor.source)
             g == [saves[i] EXCEPT !.at = "written"]
             c == [of |-> editor.source, picture |-> saves[i].picture, edits |-> saves[i].drawn,
                   asked |-> saves[i].asked, again |-> saves[i].again]
  <1>1. saves[i] \in F /\ saves[i].at = "drawn"
    BY SaveIsFaithful DEF Viewer!Written
  <1>2. /\ saves' = [saves EXCEPT ![i] = g] /\ UNCHANGED <<editor, copied>>
        /\ copies' = copies \cup {c}
    BY DEF Viewer!Written, Viewer!Only, Viewer!NameOfCopy
  <1>3. g \in F
    BY <1>1 DEF Faithful, Savings
  <1>4. ~c.again => c.of = c.picture.file /\ c.edits = c.asked
    BY <1>1 DEF Faithful
  <1> HIDE DEF g, c
  <1>5. saves' \in Seq(F)
    BY <1>2, <1>3, SaveReplaced
  <1>6. (Viewer!CopiesAreAsSeen)'
    BY <1>2, <1>4 DEF EditorInv, Viewer!CopiesAreAsSeen
  <1> HIDE DEF F
  <1> QED
    BY <1>2, <1>5, <1>6 DEF EditorInv, F

LEMMA SavedStep ==
    ASSUME EditorInv, NEW i \in DOMAIN saves, Viewer!Saved(i)
    PROVE  EditorInv'
  <1>1. /\ copied' = saves[i].edits /\ saves' = Viewer!RemoveAt(saves, i)
        /\ editor' = [editor EXCEPT !.open = FALSE, !.sliding = FALSE] /\ copies' = copies
    BY DEF Viewer!Saved
  <1>2. IsEditor(editor') /\ ~editor'.open /\ editor'.source = editor.source
    BY <1>1 DEF EditorInv, IsEditor
  <1>3. copied' \in EditsOf
    BY <1>1, SaveIsFaithful DEF Faithful, Savings
  <1>4. saves' \in Seq(Faithful(editor.source))
    BY <1>1, SaveRemoved
  <1> QED
    BY <1>1, <1>2, <1>3, <1>4 DEF EditorInv, Editing, Viewer!CopiesAreAsSeen

LEMMA SaveFailsStep ==
    ASSUME EditorInv, NEW i \in DOMAIN saves, Viewer!SaveFails(i)
    PROVE  EditorInv'
  <1>1. saves' = Viewer!RemoveAt(saves, i) /\ UNCHANGED <<editor, copied, copies>>
    BY DEF Viewer!SaveFails
  <1>2. saves' \in Seq(Faithful(editor.source))
    BY <1>1, SaveRemoved
  <1> QED
    BY <1>1, <1>2 DEF EditorInv, Viewer!CopiesAreAsSeen

-----------------------------------------------------------------------------
(* The viewer and the editor *)

ViewerInv == StageInv /\ EditorInv

LEMMA FilesAreKnown == ASSUME ViewerInv PROVE stored \subseteq Known /\ listing \subseteq Known
  BY DEF ViewerInv, StageInv, ViewerTyped

LEMMA OpenViewer ==
    ASSUME ViewerInv, NEW f \in listing, Viewer!Open(f)
    PROVE  ViewerInv'
  <1>1. UNCHANGED <<editor, copied, saves, copies>>
    BY DEF Viewer!Open
  <1> QED
    BY <1>1, OpenStage, EditorKept DEF ViewerInv

LEMMA ViewerStep ==
    ASSUME ViewerInv, Viewer!OfTheViewer
    PROVE  ViewerInv'
  <1> USE FilesAreKnown
  <1>1. ASSUME NEW f, Viewer!Click(f) PROVE ViewerInv'
    BY <1>1, OpenViewer DEF Viewer!Click
  <1>2. ASSUME NEW offset, Viewer!Navigate(offset) PROVE ViewerInv'
    BY <1>2, OpenViewer DEF Viewer!Navigate
  <1>3. ASSUME NEW i, Viewer!Filmstrip(i) PROVE ViewerInv'
    BY <1>3, OpenViewer DEF Viewer!Filmstrip
  <1>4. ASSUME NEW i \in DOMAIN fetches, Viewer!Fetched(i) PROVE ViewerInv'
    BY <1>4, FetchedStage, EditorKept DEF ViewerInv, Viewer!Fetched
  <1>5. ASSUME NEW i \in DOMAIN fetches, Viewer!FetchFails(i) PROVE ViewerInv'
    BY <1>5, FetchFailsStage, EditorKept DEF ViewerInv, Viewer!FetchFails
  <1>6. ASSUME NEW w \in warming, Viewer!Warmed(w) PROVE ViewerInv'
    <2>1. UNCHANGED <<editor, copied, saves, copies>>
      BY <1>6 DEF Viewer!Warmed
    <2> QED
      BY <1>6, <2>1, WarmedStage, EditorKept DEF ViewerInv
  <1>7. CASE Viewer!Close
    BY <1>7, ShutStage, EditorKept DEF ViewerInv, Viewer!Close
  <1> QED
    BY <1>1, <1>2, <1>3, <1>4, <1>5, <1>6, <1>7 DEF Viewer!OfTheViewer

LEMMA FilesOfViewerStep ==
    ASSUME ViewerInv, Viewer!OfTheFiles
    PROVE  ViewerInv'
  <1>1. stored \subseteq Known /\ listing \subseteq Known
    BY FilesAreKnown
  <1>2. CASE Viewer!Relist
    BY <1>1, <1>2, StageKept, EditorKept DEF ViewerInv, Viewer!Relist
  <1>3. CASE Viewer!Delete
    BY <1>1, <1>3, StageKept, EditorKept DEF ViewerInv, Viewer!Delete
  <1>4. ASSUME NEW f, Viewer!Deleted(f) PROVE ViewerInv'
    BY <1>1, <1>4, ShutStage, EditorKept DEF ViewerInv, Viewer!Deleted
  <1>5. ASSUME NEW f, Viewer!DeleteFails(f) PROVE ViewerInv'
    BY <1>1, <1>5, StageKept, EditorKept DEF ViewerInv, Viewer!DeleteFails
  <1> QED
    BY <1>2, <1>3, <1>4, <1>5 DEF Viewer!OfTheFiles

LEMMA EditorStep ==
    ASSUME ViewerInv, Viewer!OfTheEditor
    PROVE  ViewerInv'
  <1>1. /\ StageInv /\ EditorInv /\ stored \subseteq Known /\ listing \subseteq Known
        /\ copied \in EditsOf /\ 0 \in EditsOf /\ Levels \subseteq EditsOf
    BY FilesAreKnown DEF ViewerInv, EditorInv, EditsOf
  <1>2. ASSUME NEW e \in EditsOf, Viewer!OpenEditor(e) PROVE ViewerInv'
    BY <1>1, <1>2, StageKept, OpenEditorStep DEF ViewerInv, Viewer!OpenEditor
  <1>3. CASE Viewer!Edit \/ Viewer!PasteEdits
    BY <1>1, <1>2, <1>3 DEF Viewer!Edit, Viewer!PasteEdits, Viewer!Plain
  <1>4. CASE Viewer!CopyEdits
    <2>1. copied' = editor.edits /\ UNCHANGED <<editor, saves, copies>>
      BY <1>4 DEF Viewer!CopyEdits
    <2>2. EditorInv'
      BY <1>1, <2>1 DEF EditorInv, IsEditor, Viewer!CopiesAreAsSeen
    <2> QED
      BY <1>1, <1>4, <2>2, StageKept DEF ViewerInv, Viewer!CopyEdits
  <1>5. ASSUME Viewer!OnlyEditor, EditorInv' PROVE ViewerInv'
    BY <1>1, <1>5, StageKept DEF ViewerInv, Viewer!OnlyEditor
  <1>6. ASSUME NEW e \in Levels, Viewer!Slide(e) PROVE ViewerInv'
    BY <1>1, <1>5, <1>6, SlideStep DEF Viewer!Slide
  <1>7. ASSUME NEW e \in Levels, Viewer!Choose(e) PROVE ViewerInv'
    <2>1. e \in EditsOf
      BY <1>1
    <2> QED
      BY <1>1, <1>5, <1>7, <2>1, ChangeStep DEF Viewer!Choose, Viewer!OnlyEditor
  <1>8. CASE Viewer!Release
    BY <1>1, <1>5, <1>8, ReleaseStep DEF Viewer!Release
  <1>9. CASE Viewer!Revert
    BY <1>1, <1>5, <1>9, ChangeStep DEF Viewer!Revert, Viewer!OnlyEditor, Viewer!Plain
  <1>10. CASE Viewer!Undo \/ Viewer!Redo
    <2>1. /\ editor.history \in Seq(EditsOf) /\ editor.index \in DOMAIN editor.history
      BY <1>1, <1>10 DEF EditorInv, Editing, Viewer!Undo, Viewer!Redo, Viewer!OnEditor
    <2>2. DOMAIN editor.history = 1..Len(editor.history) /\ Len(editor.history) \in Nat
      BY <2>1, LenProperties
    <2>3. PICK k \in DOMAIN editor.history : editor' = Viewer!Restored(editor, k)
      <3>1. CASE Viewer!Undo
        <4>1. (IF editor.index > 1 THEN editor.index - 1 ELSE 1) \in DOMAIN editor.history
          BY <2>1, <2>2
        <4> QED
          BY <3>1, <4>1 DEF Viewer!Undo
      <3>2. CASE Viewer!Redo
        <4>1. (IF editor.index < Len(editor.history) THEN editor.index + 1 ELSE editor.index)
                  \in DOMAIN editor.history
          BY <2>1, <2>2
        <4> QED
          BY <3>2, <4>1 DEF Viewer!Redo
      <3> QED
        BY <1>10, <3>1, <3>2
    <2>4. /\ Viewer!OnEditor /\ saves' = Viewer!Parted /\ Viewer!OnlyEditor
          /\ UNCHANGED <<copied, copies>>
      BY <1>10 DEF Viewer!Undo, Viewer!Redo, Viewer!OnlyEditor
    <2> QED
      BY <1>1, <1>5, <2>3, <2>4, RestoreStep
  <1>11. CASE Viewer!Cancel
    BY <1>1, <1>5, <1>11, CancelStep DEF Viewer!Cancel
  <1>12. CASE Viewer!Done
    BY <1>1, <1>5, <1>12, DoneStep DEF Viewer!Done
  <1>13. ASSUME NEW i \in DOMAIN saves, Viewer!Drawn(i) PROVE ViewerInv'
    BY <1>1, <1>13, DrawnStep, StageKept DEF ViewerInv, Viewer!Drawn, Viewer!Only
  <1>14. ASSUME NEW i \in DOMAIN saves, Viewer!Written(i) PROVE ViewerInv'
    BY <1>1, <1>14, WrittenStep, StageKept DEF ViewerInv, Viewer!Written, Viewer!Only
  <1>15. ASSUME NEW i \in DOMAIN saves, Viewer!Saved(i) PROVE ViewerInv'
    BY <1>1, <1>15, SavedStep, ShutStage DEF ViewerInv, Viewer!Saved
  <1>16. ASSUME NEW i \in DOMAIN saves, Viewer!SaveFails(i) PROVE ViewerInv'
    BY <1>1, <1>16, SaveFailsStep, StageKept DEF ViewerInv, Viewer!SaveFails
  <1> QED
    BY <1>3, <1>4, <1>6, <1>7, <1>8, <1>9, <1>10, <1>11, <1>12, <1>13, <1>14, <1>15, <1>16
    DEF Viewer!OfTheEditor

LEMMA ViewerBegins == ASSUME Viewer!Init PROVE ViewerInv
  <1>1. stored \subseteq Known /\ listing \subseteq Known
    BY FolderFiles DEF Viewer!Init
  <1>2. ViewerTyped
    <2>1. IsViewer(viewer)
      BY DEF Viewer!Init, IsViewer
    <2>2. fetches = <<>> /\ warming = {} /\ late = FALSE
      BY DEF Viewer!Init
    <2>3. fetches \in Seq(Fetches)
      BY <2>2, EmptySeq
    <2> QED
      BY <1>1, <2>1, <2>2, <2>3 DEF ViewerTyped
  <1>3. StageHolds
    BY DEF Viewer!Init, StageHolds, Behind, PhotosBelong, Awaited
  <1>4. EditorInv
    <2>1. Off \in EditsOf
      BY DEF EditsOf
    <2> QED
      BY <2>1 DEF Viewer!Init, EditorInv, IsEditor, Editing, Viewer!CopiesAreAsSeen
  <1> QED
    BY <1>2, <1>3, <1>4 DEF ViewerInv, StageInv

-----------------------------------------------------------------------------
(* The theorem about what is shown *)

BrowserInv ==
    /\ part = "files" => FilesHolds
    /\ part = "viewer" => ViewerInv

LEMMA BrowserBegins == Init => BrowserInv
  <1>1. CASE part = "files"
    BY <1>1 DEF Init, Files!Init, FilesHolds, BrowserInv
  <1>2. CASE part = "viewer"
    BY <1>2, ViewerBegins DEF Init, BrowserInv
  <1> QED
    BY <1>1, <1>2 DEF Init, BrowserInv

LEMMA BrowserKept == BrowserInv /\ [Next]_vars => BrowserInv'
  <1> SUFFICES ASSUME BrowserInv, [Next]_vars PROVE BrowserInv'
    OBVIOUS
  <1>1. CASE OfFiles(Files!Next)
    BY <1>1, FilesStep DEF OfFiles, BrowserInv
  <1>2. CASE OfAdded(Added!Next)
    BY <1>2 DEF OfAdded, BrowserInv
  <1>3. CASE OfViewer(Viewer!Next)
    BY <1>3, ViewerStep, FilesOfViewerStep, EditorStep DEF OfViewer, BrowserInv, Viewer!Next
  <1>4. CASE UNCHANGED vars
    <2>1. part' = part /\ UNCHANGED filesOwn /\ UNCHANGED viewerOwn
      BY <1>4 DEF vars
    <2>2. FilesHolds => FilesHolds'
      BY <2>1 DEF filesOwn, FilesHolds
    <2>3. ViewerInv => ViewerInv'
      <3>1. UNCHANGED <<stored, listing, viewer, fetches, warming, late, editor, copied, saves, copies>>
        BY <2>1 DEF viewerOwn
      <3> QED
        BY <3>1, FilesAreKnown, StageKept, EditorKept DEF ViewerInv
    <2> QED
      BY <2>1, <2>2, <2>3 DEF BrowserInv
  <1> QED
    BY <1>1, <1>2, <1>3, <1>4 DEF Next

LEMMA BrowserHolds == BrowserInv => ListingBelongs
  <1> SUFFICES ASSUME BrowserInv PROVE ListingBelongs
    OBVIOUS
  <1>1. part = "files" => Files!ListingBelongs
    BY DEF BrowserInv, FilesHolds, Files!ListingBelongs
  <1>2. ASSUME part = "viewer"
        PROVE  Viewer!ShowsOneFile /\ Viewer!CopiesAreAsSeen /\ Viewer!HistoryHolds
    <2>1. StageInv /\ EditorInv
      BY <1>2 DEF BrowserInv, ViewerInv
    <2>2. Viewer!ShowsOneFile
      BY <2>1 DEF StageInv, StageHolds, Behind, Alone, NoneAwaited, Viewer!ShowsOneFile
    <2>3. Viewer!CopiesAreAsSeen /\ Viewer!HistoryHolds
      BY <2>1 DEF EditorInv, Editing, Viewer!HistoryHolds, Viewer!OnEditor
    <2> QED
      BY <2>2, <2>3
  <1> QED
    BY <1>1, <1>2 DEF ListingBelongs

\* On the files page the listing is of the section chosen last, in whatever order the
\* replies come; in the viewer stage, background, buttons and title are one file's, a copy
\* is of the photo it is named for, with the edits that were seen, and the editor shows the
\* edits at its place in the history.
THEOREM ListingsBelong == Spec => []ListingBelongs
  <1>1. Init => BrowserInv
    BY BrowserBegins
  <1>2. BrowserInv /\ [Next]_vars => BrowserInv'
    BY BrowserKept
  <1>3. BrowserInv => ListingBelongs
    BY BrowserHolds
  <1> QED
    BY <1>1, <1>2, <1>3, PTL DEF Spec

-----------------------------------------------------------------------------
(* The parts that scripts add: what they show after an operation *)

Asked == [of : Nat, at : {"asked", "answered"}, got : Nat]
Operations == [at : {"idle", "sent", "done", "home", "refreshed"}, version : Nat,
               certain : BOOLEAN, back : BOOLEAN]

AddedTyped ==
    /\ paint \in Nat /\ version \in Nat /\ on \in BOOLEAN
    /\ shown \in Seq(Nat) /\ reads \in Seq(Asked)
    /\ deed \in Operations
    /\ Added!Panel => deed.at # "home"

\* Answers, and copies from the n-th on, that are of version v or newer.
AnswersFrom(v, rs) == \A i \in DOMAIN rs : rs[i].at = "answered" => rs[i].got >= v
CopiesFrom(v, cs, n) == \A i \in DOMAIN cs : i >= n => cs[i] >= v

\* After a certain operation every answer shows it.  Of the copies on the page only the
\* first may be older until the refresh, which removes it or leaves the page; a panel's
\* is replaced by the read that the refresh has begun.
AddedFresh ==
    deed.certain =>
        /\ deed.at \in {"done", "home", "refreshed"}
        /\ version >= deed.version /\ AnswersFrom(deed.version, reads)
        /\ deed.at = "done" => Added!Panel \/ CopiesFrom(deed.version, shown, 2)
        /\ deed.at = "home" => CopiesFrom(deed.version, shown, 1)
        /\ deed.at = "refreshed" /\ on =>
              CopiesFrom(deed.version, shown, 1) \/ (Added!Panel /\ reads # <<>>)

AddedInv == AddedTyped /\ AddedFresh

\* A sequence with one more element.
LEMMA Longer ==
    ASSUME NEW S, NEW s \in Seq(S), NEW e \in S
    PROVE  LET l == Append(s, e) IN
           /\ l \in Seq(S) /\ l # <<>>
           /\ \A i \in DOMAIN l : (i \in DOMAIN s /\ l[i] = s[i]) \/ l[i] = e
           /\ \A i \in DOMAIN s : i \in DOMAIN l /\ l[i] = s[i]
           /\ \E i \in DOMAIN l : i \notin DOMAIN s
           /\ \A i \in DOMAIN l : i \notin DOMAIN s => l[i] = e
           /\ \A i, j \in DOMAIN l : i \notin DOMAIN s /\ j \notin DOMAIN s => i = j
  <1> DEFINE l == Append(s, e)  n == Len(s)
  <1>1. n \in Nat /\ DOMAIN s = 1..n
    BY LenProperties
  <1>2. /\ l \in Seq(S) /\ Len(l) = n + 1 /\ l[n + 1] = e
        /\ \A i \in 1..n : l[i] = s[i]
    BY AppendProperties
  <1>3. DOMAIN l = 1..(n + 1)
    BY <1>2, LenProperties
  <1> HIDE DEF l, n
  <1>4. \A i \in DOMAIN l : i \in DOMAIN s \/ i = n + 1
    BY <1>1, <1>3
  <1>5. n + 1 \in DOMAIN l /\ n + 1 \notin DOMAIN s
    BY <1>1, <1>3
  <1>6. \A i \in DOMAIN s : i \in DOMAIN l
    BY <1>1, <1>3
  <1>7. l # <<>>
    BY <1>5, <1>3, <1>1, <1>2, EmptySeq
  <1> QED
    BY <1>1, <1>2, <1>4, <1>5, <1>6, <1>7 DEF l

LEMMA AnswersLonger ==
    ASSUME NEW v, NEW rs \in Seq(Asked), AnswersFrom(v, rs), NEW r \in Asked, r.at = "asked"
    PROVE  /\ Append(rs, r) \in Seq(Asked) /\ Append(rs, r) # <<>>
           /\ AnswersFrom(v, Append(rs, r))
  BY Longer DEF AnswersFrom

LEMMA OneMoreRead ==
    ASSUME NEW rs \in Seq(Asked), NEW r \in Asked
    PROVE  Append(rs, r) \in Seq(Asked) /\ Append(rs, r) # <<>>
  BY Longer

LEMMA CopiesLonger ==
    ASSUME NEW v, NEW cs \in Seq(Nat), NEW n, CopiesFrom(v, cs, n), NEW c \in Nat, c >= v
    PROVE  Append(cs, c) \in Seq(Nat) /\ CopiesFrom(v, Append(cs, c), n)
  BY Longer DEF CopiesFrom

\* The first copy an operation finds there is no matter when others are put in after it.
LEMMA SecondCopy ==
    ASSUME NEW v, NEW cs \in Seq(Nat), Len(cs) <= 1
    PROVE  CopiesFrom(v, cs, 2)
  <1>1. DOMAIN cs = 1..Len(cs) /\ Len(cs) \in Nat
    BY LenProperties
  <1>2. \A i \in DOMAIN cs : ~(i >= 2)
    BY <1>1
  <1> QED
    BY <1>2 DEF CopiesFrom

LEMMA WithoutFirstCopy ==
    ASSUME NEW v, NEW cs \in Seq(Nat)
    PROVE  /\ Added!WithoutFirst(cs) \in Seq(Nat)
           /\ CopiesFrom(v, cs, 2) => CopiesFrom(v, Added!WithoutFirst(cs), 1)
  <1>1. CASE cs = <<>>
    <2>1. Added!WithoutFirst(cs) = <<>> /\ DOMAIN cs = {}
      BY <1>1, EmptySeq DEF Added!WithoutFirst
    <2> QED
      BY <1>1, <2>1 DEF CopiesFrom
  <1>2. CASE cs # <<>>
    <2> DEFINE t == Tail(cs)  n == Len(cs)
    <2>1. Added!WithoutFirst(cs) = t
      BY <1>2 DEF Added!WithoutFirst
    <2>2. t \in Seq(Nat) /\ Len(t) = n - 1 /\ \A i \in 1..Len(t) : t[i] = cs[i + 1]
      BY <1>2, HeadTailProperties
    <2>3. DOMAIN cs = 1..n /\ n \in Nat /\ DOMAIN t = 1..Len(t)
      BY <2>2, LenProperties
    <2> HIDE DEF t, n
    <2>4. ASSUME CopiesFrom(v, cs, 2), NEW i \in DOMAIN t PROVE t[i] >= v
      <3>1. i + 1 \in DOMAIN cs /\ i + 1 >= 2 /\ t[i] = cs[i + 1]
        BY <2>2, <2>3
      <3> QED
        BY <2>4, <3>1 DEF CopiesFrom
    <2> QED
      BY <2>1, <2>2, <2>4 DEF CopiesFrom
  <1> QED
    BY <1>1, <1>2

LEMMA NoCopies == <<>> \in Seq(Nat) /\ \A v, n : CopiesFrom(v, <<>>, n)
  BY EmptySeq DEF CopiesFrom

\* A reply is taken out.
LEMMA ReadRemoved ==
    ASSUME NEW v, NEW rs \in Seq(Asked), NEW i \in DOMAIN rs
    PROVE  /\ Added!RemoveAt(rs, i) \in Seq(Asked)
           /\ AnswersFrom(v, rs) => AnswersFrom(v, Added!RemoveAt(rs, i))
           /\ rs[i] \in Asked
           /\ AnswersFrom(v, rs) /\ rs[i].at = "answered" => rs[i].got >= v
  <1> DEFINE r == Without(rs, i)
  <1>1. r = Added!RemoveAt(rs, i)
    BY DEF Without, Added!RemoveAt
  <1>2. /\ r \in Seq(Asked) /\ DOMAIN rs = 1..Len(rs) /\ DOMAIN r = 1..Len(r)
        /\ Len(rs) \in Nat /\ Len(r) = Len(rs) - 1
        /\ \A j \in DOMAIN r : r[j] = IF j < i THEN rs[j] ELSE rs[j + 1]
    BY Removed
  <1> HIDE DEF r
  <1>3. \A j \in DOMAIN r : \E k \in DOMAIN rs : r[j] = rs[k]
    <2> TAKE j \in DOMAIN r
    <2>1. j \in DOMAIN rs /\ j + 1 \in DOMAIN rs
      BY <1>2
    <2> QED
      BY <1>2, <2>1
  <1>4. rs[i] \in Asked
    BY <1>2, ElementOfSeq
  <1> QED
    BY <1>1, <1>2, <1>3, <1>4 DEF AnswersFrom

LEMMA ReadServed ==
    ASSUME NEW v, NEW rs \in Seq(Asked), NEW i \in DOMAIN rs, NEW n \in Nat, n >= v
    PROVE  LET s == [rs EXCEPT ![i].at = "answered", ![i].got = n] IN
           /\ s \in Seq(Asked) /\ (rs # <<>> => s # <<>>)
           /\ AnswersFrom(v, rs) => AnswersFrom(v, s)
  <1> DEFINE s == [rs EXCEPT ![i].at = "answered", ![i].got = n]
  <1>1. s = [j \in DOMAIN rs |-> IF j = i THEN [rs[i] EXCEPT !.at = "answered", !.got = n] ELSE rs[j]]
    OBVIOUS
  <1>2. \A j \in DOMAIN rs : rs[j] \in Asked
    BY ElementOfSeq, LenProperties
  <1>3. [rs[i] EXCEPT !.at = "answered", !.got = n] \in Asked
        /\ [rs[i] EXCEPT !.at = "answered", !.got = n].got = n
    BY <1>2 DEF Asked
  <1> HIDE DEF s
  <1>4. s = [j \in DOMAIN rs |-> s[j]] /\ \A j \in DOMAIN rs : s[j] \in Asked
    BY <1>1, <1>2, <1>3
  <1>5. s \in Seq(Asked) /\ DOMAIN s = DOMAIN rs
    BY <1>4, SeqChanged
  <1>6. \A j \in DOMAIN s : s[j] = rs[j] \/ s[j].got = n
    BY <1>1, <1>3, <1>5
  <1>7. rs # <<>> => s # <<>>
    BY <1>1
  <1> QED
    BY <1>5, <1>6, <1>7 DEF s, AnswersFrom

\* The page is painted: there are no copies on it.
LEMMA PaintedFresh ==
    ASSUME AddedInv, NEW here \in BOOLEAN, Added!Painted(here),
           UNCHANGED <<subject, version, reads>>,
           deed' \in Operations, deed'.version = deed.version,
           Added!Panel => deed'.at # "home",
           deed'.certain => deed.certain /\ deed'.at \in {"done", "home", "refreshed"}
    PROVE  AddedInv'
  <1>1. paint' \in Nat /\ shown' = <<>> /\ on' \in BOOLEAN
    BY DEF Added!Painted, AddedInv, AddedTyped
  <1>2. AddedTyped'
    BY <1>1, NoCopies DEF AddedInv, AddedTyped, Added!Panel
  <1>3. \A n : CopiesFrom(deed'.version, shown', n)
    BY <1>1, NoCopies
  <1>4. deed'.certain => version' >= deed'.version /\ AnswersFrom(deed'.version, reads')
    BY DEF AddedInv, AddedFresh
  <1> QED
    BY <1>2, <1>3, <1>4 DEF AddedInv, AddedFresh

\* A step of the page or of a read that leaves the operation alone: the answers it leaves
\* are as new, and so are the copies, or there is a read to come.
LEMMA AddedKept ==
    ASSUME AddedInv, UNCHANGED <<subject, on, version, deed>>, paint' \in Nat,
           reads' \in Seq(Asked), shown' \in Seq(Nat),
           deed.certain => AnswersFrom(deed.version, reads'),
           \/ /\ reads # <<>> /\ Added!Panel => reads' # <<>>
              /\ deed.certain =>
                    \A n : CopiesFrom(deed.version, shown, n) => CopiesFrom(deed.version, shown', n)
           \/ deed.certain => CopiesFrom(deed.version, shown', 1) /\ CopiesFrom(deed.version, shown', 2)
           \/ Added!Panel /\ (on => reads' # <<>>)
    PROVE  AddedInv'
  <1>1. AddedTyped' /\ Added!Panel' = Added!Panel
    BY DEF AddedInv, AddedTyped, Added!Panel
  <1>2. ASSUME deed.certain
        PROVE  /\ deed.at \in {"done", "home", "refreshed"}
               /\ version >= deed.version
               /\ deed.at = "done" => Added!Panel \/ CopiesFrom(deed.version, shown, 2)
               /\ deed.at = "home" => CopiesFrom(deed.version, shown, 1) /\ ~Added!Panel
               /\ deed.at = "refreshed" /\ on =>
                      CopiesFrom(deed.version, shown, 1) \/ (Added!Panel /\ reads # <<>>)
    BY <1>2 DEF AddedInv, AddedTyped, AddedFresh
  <1>3. ASSUME deed.certain
        PROVE  /\ deed.at = "done" => Added!Panel \/ CopiesFrom(deed.version, shown', 2)
               /\ deed.at = "home" => CopiesFrom(deed.version, shown', 1)
               /\ deed.at = "refreshed" /\ on =>
                      CopiesFrom(deed.version, shown', 1) \/ (Added!Panel /\ reads' # <<>>)
    <2>1. CASE /\ reads # <<>> /\ Added!Panel => reads' # <<>>
               /\ deed.certain =>
                    \A n : CopiesFrom(deed.version, shown, n) => CopiesFrom(deed.version, shown', n)
      BY <1>2, <1>3, <2>1
    <2>2. CASE deed.certain => CopiesFrom(deed.version, shown', 1) /\ CopiesFrom(deed.version, shown', 2)
      BY <1>3, <2>2
    <2>3. CASE Added!Panel /\ (on => reads' # <<>>)
      BY <1>2, <1>3, <2>3
    <2> QED
      BY <2>1, <2>2, <2>3
  <1>4. deed'.certain =>
        /\ deed'.at \in {"done", "home", "refreshed"}
        /\ version' >= deed'.version /\ AnswersFrom(deed'.version, reads')
        /\ deed'.at = "done" => Added!Panel' \/ CopiesFrom(deed'.version, shown', 2)
        /\ deed'.at = "home" => CopiesFrom(deed'.version, shown', 1)
        /\ deed'.at = "refreshed" /\ on' =>
              CopiesFrom(deed'.version, shown', 1) \/ (Added!Panel' /\ reads' # <<>>)
    BY <1>1, <1>2, <1>3
  <1> QED
    BY <1>1, <1>4 DEF AddedInv, AddedFresh

LEMMA AddedRead == ASSUME AddedInv PROVE Added!Read \in Asked /\ Added!Read.at = "asked"
  BY DEF AddedInv, AddedTyped, Added!Read, Asked

LEMMA AddedAnswers == ASSUME AddedInv, deed.certain PROVE AnswersFrom(deed.version, reads)
  BY DEF AddedInv, AddedFresh

LEMMA PaintStep == ASSUME AddedInv, Added!Paint PROVE AddedInv'
  <1>1. PICK here \in BOOLEAN : Added!Painted(here)
    BY DEF Added!Paint
  <1>2. UNCHANGED <<subject, version, reads, deed>>
    BY DEF Added!Paint
  <1> QED
    BY <1>1, <1>2, PaintedFresh DEF AddedInv, AddedTyped, AddedFresh

LEMMA MutateStep == ASSUME AddedInv, Added!Mutate PROVE AddedInv'
  <1>1. UNCHANGED <<subject, on, paint, shown, reads, version, deed>>
    BY DEF Added!Mutate
  <1> QED
    BY <1>1, AddedKept, AddedAnswers DEF AddedInv, AddedTyped

LEMMA EnhanceStep == ASSUME AddedInv, Added!Enhance PROVE AddedInv'
  <1>1. /\ UNCHANGED <<subject, on, paint, shown, version, deed>>
        /\ reads' = reads \/ reads' = Append(reads, Added!Read)
    BY DEF Added!Enhance
  <1>2. reads \in Seq(Asked) /\ paint \in Nat /\ shown \in Seq(Nat)
    BY DEF AddedInv, AddedTyped
  <1>3. reads' \in Seq(Asked) /\ (reads # <<>> => reads' # <<>>)
    BY <1>1, <1>2, AddedRead, AnswersLonger, Longer
  <1>4. deed.certain => AnswersFrom(deed.version, reads')
    BY <1>1, <1>2, AddedRead, AddedAnswers, AnswersLonger
  <1> QED
    BY <1>1, <1>2, <1>3, <1>4, AddedKept

LEMMA ServeStep == ASSUME AddedInv, NEW i \in DOMAIN reads, Added!Serve(i) PROVE AddedInv'
  <1>1. /\ UNCHANGED <<subject, on, paint, shown, version, deed>>
        /\ reads' = [reads EXCEPT ![i].at = "answered", ![i].got = version]
    BY DEF Added!Serve
  <1>2. reads \in Seq(Asked) /\ paint \in Nat /\ shown \in Seq(Nat) /\ version \in Nat
    BY DEF AddedInv, AddedTyped
  <1>3. version >= version
    BY <1>2
  <1>4. reads' \in Seq(Asked) /\ (reads # <<>> => reads' # <<>>)
    BY <1>1, <1>2, <1>3, ReadServed
  <1>5. deed.certain => AnswersFrom(deed.version, reads')
    <2>1. deed.certain => version >= deed.version
      BY DEF AddedInv, AddedFresh
    <2> QED
      BY <1>1, <1>2, <2>1, AddedAnswers, ReadServed
  <1> QED
    BY <1>1, <1>2, <1>4, <1>5, AddedKept

\* What is left of the reads when one has come or failed.
LEMMA LeftReads ==
    ASSUME AddedInv, NEW i \in DOMAIN reads
    PROVE  /\ Added!RemoveAt(reads, i) \in Seq(Asked)
           /\ deed.certain => AnswersFrom(deed.version, Added!RemoveAt(reads, i))
           /\ reads[i] \in Asked
           /\ deed.certain /\ reads[i].at = "answered" => reads[i].got >= deed.version
  <1>1. reads \in Seq(Asked)
    BY DEF AddedInv, AddedTyped
  <1> QED
    BY <1>1, ReadRemoved, AddedAnswers

LEMMA InsertedStep ==
    ASSUME AddedInv, NEW i \in DOMAIN reads, Added!ReplyInserted(i) \/ Added!FailInserted(i)
    PROVE  AddedInv'
  <1>1. /\ ~Added!Panel /\ UNCHANGED <<subject, on, paint, version, deed>>
        /\ reads' = Added!RemoveAt(reads, i)
        /\ \/ shown' = shown
           \/ reads[i].at = "answered" /\ shown' = Append(shown, reads[i].got)
    BY DEF Added!ReplyInserted, Added!FailInserted
  <1>2. paint \in Nat /\ shown \in Seq(Nat)
    BY DEF AddedInv, AddedTyped
  <1>3. reads[i].got \in Nat
    BY LeftReads DEF Asked
  <1>4. shown' \in Seq(Nat)
    BY <1>1, <1>2, <1>3, Longer
  <1>5. deed.certain =>
          \A n : CopiesFrom(deed.version, shown, n) => CopiesFrom(deed.version, shown', n)
    BY <1>1, <1>2, <1>3, LeftReads, CopiesLonger
  <1>6. reads' \in Seq(Asked) /\ (deed.certain => AnswersFrom(deed.version, reads'))
    BY <1>1, LeftReads
  <1> QED
    BY <1>1, <1>2, <1>4, <1>5, <1>6, AddedKept

\* A panel is filled or emptied, if it is the one that was read; else the one on the page
\* is read now.
LEMMA PanelStep ==
    ASSUME AddedInv, NEW i \in DOMAIN reads, Added!ReplyPanel(i) \/ Added!FailPanel(i)
    PROVE  AddedInv'
  <1>1. /\ Added!Panel /\ UNCHANGED <<subject, on, paint, version, deed>>
        /\ reads' = IF on /\ reads[i].of # paint THEN <<Added!Read>> ELSE Added!RemoveAt(reads, i)
        /\ IF on /\ reads[i].of = paint
           THEN shown' = <<>> \/ (reads[i].at = "answered" /\ shown' = <<reads[i].got>>)
           ELSE shown' = shown
    BY DEF Added!ReplyPanel, Added!FailPanel, Added!ReadTheNewPanel
  <1>2. paint \in Nat /\ shown \in Seq(Nat)
    BY DEF AddedInv, AddedTyped
  <1>3. reads[i].got \in Nat
    BY LeftReads DEF Asked
  <1>4. CASE on /\ reads[i].of = paint
    <2>1. shown' = <<>> \/ (reads[i].at = "answered" /\ shown' = Append(<<>>, reads[i].got))
      BY <1>1, <1>4
    <2>2. shown' \in Seq(Nat)
      <3>1. Append(<<>>, reads[i].got) \in Seq(Nat)
        BY <1>3, NoCopies, AppendProperties
      <3> QED
        BY <2>1, <3>1, NoCopies
    <2>3. deed.certain => CopiesFrom(deed.version, shown', 1) /\ CopiesFrom(deed.version, shown', 2)
      BY <2>1, <1>3, NoCopies, CopiesLonger, LeftReads
    <2>4. reads' \in Seq(Asked) /\ (deed.certain => AnswersFrom(deed.version, reads'))
      BY <1>1, <1>4, LeftReads
    <2> QED
      BY <1>1, <1>2, <2>2, <2>3, <2>4, AddedKept
  <1>5. CASE on /\ reads[i].of # paint
    <2> DEFINE r == Added!Read
    <2>1. reads' = Append(<<>>, r) /\ r \in Asked /\ r.at = "asked"
      BY <1>1, <1>5, AddedRead
    <2> HIDE DEF r
    <2>2. <<>> \in Seq(Asked) /\ AnswersFrom(deed.version, <<>>)
      BY EmptySeq DEF AnswersFrom
    <2>3. reads' \in Seq(Asked) /\ reads' # <<>> /\ AnswersFrom(deed.version, reads')
      BY <2>1, <2>2, AnswersLonger
    <2> QED
      BY <1>1, <1>2, <1>5, <2>3, AddedKept
  <1>6. CASE ~on
    <2>1. reads' \in Seq(Asked) /\ (deed.certain => AnswersFrom(deed.version, reads'))
      BY <1>1, <1>6, LeftReads
    <2> QED
      BY <1>1, <1>2, <1>6, <2>1, AddedKept
  <1> QED
    BY <1>4, <1>5, <1>6

\* Steps of an operation whose outcome is not, or no longer, certain.
LEMMA UncertainStep ==
    ASSUME AddedInv, UNCHANGED <<subject, on, paint, shown, reads>>, version' \in Nat,
           deed' \in Operations, Added!Panel => deed'.at # "home", ~deed'.certain
    PROVE  AddedInv'
  BY DEF AddedInv, AddedTyped, AddedFresh, Added!Panel

LEMMA SubmittedStep ==
    ASSUME AddedInv, Added!Submit \/ Added!Reject \/ Added!ShowSecret
    PROVE  AddedInv'
  <1>1. UNCHANGED <<subject, on, paint, shown, reads, version>>
    BY DEF Added!Submit, Added!Reject, Added!ShowSecret
  <1>2. version \in Nat /\ deed \in Operations
    BY DEF AddedInv, AddedTyped
  <1>3. Added!Idle \in Operations /\ ~Added!Idle.certain /\ Added!Idle.at = "idle"
    BY DEF Added!Idle, Operations
  <1>4. CASE Added!Submit
    <2>1. deed' = [Added!Idle EXCEPT !.at = "sent"]
      BY <1>4 DEF Added!Submit
    <2>2. deed' \in Operations /\ ~deed'.certain /\ deed'.at = "sent"
      BY <2>1 DEF Added!Idle, Operations
    <2> QED
      BY <1>1, <1>2, <2>2, UncertainStep
  <1>5. CASE Added!Reject
    <2>1. deed.at = "sent" /\ (deed' = Added!Idle \/ deed' = [deed EXCEPT !.at = "done"])
      BY <1>5 DEF Added!Reject
    <2>2. ~deed.certain
      BY <2>1 DEF AddedInv, AddedFresh
    <2>3. [deed EXCEPT !.at = "done"] \in Operations /\ ~[deed EXCEPT !.at = "done"].certain
          /\ [deed EXCEPT !.at = "done"].at = "done"
      BY <1>2, <2>2 DEF Operations
    <2> QED
      BY <1>1, <1>2, <1>3, <2>1, <2>3, UncertainStep
  <1>6. CASE Added!ShowSecret
    BY <1>1, <1>2, <1>3, <1>6, UncertainStep DEF Added!ShowSecret
  <1> QED
    BY <1>4, <1>5, <1>6

LEMMA CommitStep == ASSUME AddedInv, Added!Commit PROVE AddedInv'
  <1> DEFINE c == reads = <<>> /\ Len(shown) <= 1
  <1>1. /\ UNCHANGED <<subject, on, paint, shown, reads>> /\ version' = version + 1
        /\ deed' = [deed EXCEPT !.at = "done", !.version = version + 1, !.certain = c]
    BY DEF Added!Commit
  <1>2. version \in Nat /\ deed \in Operations /\ shown \in Seq(Nat)
    BY DEF AddedInv, AddedTyped
  <1> HIDE DEF c
  <1>3. c \in BOOLEAN /\ version + 1 \in Nat
    BY <1>2 DEF c
  <1>4. /\ deed' \in Operations /\ deed'.at = "done" /\ deed'.version = version'
        /\ deed'.certain = c
    <2> DEFINE n == version + 1
    <2>1. deed' = [deed EXCEPT !.at = "done", !.version = n, !.certain = c] /\ n \in Nat
      BY <1>1, <1>3
    <2> HIDE DEF n
    <2>2. /\ deed' \in Operations /\ deed'.at = "done" /\ deed'.version = n
          /\ deed'.certain = c
      BY <1>2, <1>3, <2>1 DEF Operations
    <2> QED
      BY <1>1, <2>2 DEF n
  <1>5. c => AnswersFrom(deed'.version, reads') /\ CopiesFrom(deed'.version, shown', 2)
    BY <1>1, <1>2, EmptySeq, SecondCopy DEF c, AnswersFrom
  <1>6. version' \in Nat /\ version' >= version'
    BY <1>1, <1>2
  <1> QED
    BY <1>1, <1>4, <1>5, <1>6 DEF AddedInv, AddedTyped, AddedFresh, Added!Panel

\* The first copy is removed, and the part read again when there is none left.
LEMMA RemovalStep == ASSUME AddedInv, Added!RefreshByRemoval PROVE AddedInv'
  <1> DEFINE left == IF subject = "groups" /\ ~on THEN shown ELSE Added!WithoutFirst(shown)
  <1>1. /\ Added!Removes /\ deed.at = "done" /\ shown' = left
        /\ UNCHANGED <<subject, on, paint, version>>
        /\ deed' = [deed EXCEPT !.at = "refreshed"]
        /\ reads' = reads \/ reads' = Append(reads, Added!Read)
    BY DEF Added!RefreshByRemoval
  <1>2. /\ reads \in Seq(Asked) /\ paint \in Nat /\ version \in Nat /\ shown \in Seq(Nat)
        /\ deed \in Operations
    BY DEF AddedInv, AddedTyped
  <1>3. ~Added!Panel
    BY <1>1 DEF Added!Removes, Added!Panel
  <1>4. /\ deed' \in Operations /\ deed'.at = "refreshed" /\ deed'.version = deed.version
        /\ deed'.certain = deed.certain
    BY <1>1, <1>2 DEF Operations
  <1>5. shown' \in Seq(Nat)
    BY <1>1, <1>2, WithoutFirstCopy
  <1>6. deed.certain /\ on => CopiesFrom(deed.version, shown', 1)
    <2>1. deed.certain => CopiesFrom(deed.version, shown, 2)
      BY <1>1, <1>3 DEF AddedInv, AddedFresh
    <2> QED
      BY <1>1, <1>2, <2>1, WithoutFirstCopy
  <1>7. reads' \in Seq(Asked) /\ (deed.certain => AnswersFrom(deed.version, reads'))
    <2> DEFINE r == Added!Read
    <2>1. r \in Asked /\ r.at = "asked"
      BY AddedRead
    <2>2. reads' = reads \/ reads' = Append(reads, r)
      BY <1>1
    <2> HIDE DEF r
    <2>3. Append(reads, r) \in Seq(Asked)
      BY <1>2, <2>1, AppendProperties
    <2>4. deed.certain => AnswersFrom(deed.version, reads)
                          /\ AnswersFrom(deed.version, Append(reads, r))
      BY <1>2, <2>1, AddedAnswers, AnswersLonger
    <2> QED
      BY <1>2, <2>2, <2>3, <2>4
  <1>8. deed.certain => version' >= deed.version
    BY <1>1 DEF AddedInv, AddedFresh
  <1> QED
    BY <1>1, <1>2, <1>3, <1>4, <1>5, <1>6, <1>7, <1>8 DEF AddedInv, AddedTyped, AddedFresh, Added!Panel

\* To the home page and back: the part is put in anew.
LEMMA LeavingStep ==
    ASSUME AddedInv, Added!RefreshByLeaving \/ Added!ComeBack
    PROVE  AddedInv'
  <1>1. deed \in Operations
    BY DEF AddedInv, AddedTyped
  <1>2. CASE Added!RefreshByLeaving
    <2>1. /\ Added!Navigates /\ Added!Painted(FALSE) /\ UNCHANGED <<subject, reads, version>>
          /\ \E b \in {on} : deed' = [deed EXCEPT !.at = "home", !.back = b]
      BY <1>2 DEF Added!RefreshByLeaving
    <2>2. ~Added!Panel
      BY <2>1 DEF Added!Navigates, Added!Panel
    <2>3. on \in BOOLEAN
      BY DEF AddedInv, AddedTyped
    <2>4. deed' \in Operations /\ deed'.version = deed.version
          /\ deed'.certain = deed.certain /\ deed'.at = "home"
      BY <1>1, <2>1, <2>3 DEF Operations
    <2> QED
      BY <2>1, <2>2, <2>4, PaintedFresh
  <1>3. CASE Added!ComeBack
    <2>1. /\ Added!Painted(deed.back) /\ UNCHANGED <<subject, reads, version>>
          /\ deed' = [deed EXCEPT !.at = "refreshed"]
      BY <1>3 DEF Added!ComeBack
    <2>2. deed.back \in BOOLEAN
      BY <1>1 DEF Operations
    <2>3. deed' \in Operations /\ deed'.version = deed.version
          /\ deed'.certain = deed.certain /\ deed'.at = "refreshed"
      BY <1>1, <2>1 DEF Operations
    <2> QED
      BY <2>1, <2>2, <2>3, PaintedFresh
  <1> QED
    BY <1>2, <1>3

\* A panel on the page is read, or is being read.
LEMMA RefreshPanelStep == ASSUME AddedInv, Added!RefreshPanel PROVE AddedInv'
  <1> DEFINE r == Added!Read
  <1>1. /\ Added!Panel /\ UNCHANGED <<subject, on, paint, shown, version>>
        /\ deed' = [deed EXCEPT !.at = "refreshed"]
        /\ reads' = IF on /\ reads = <<>> THEN <<r>> ELSE reads
    BY DEF Added!RefreshPanel
  <1>2. /\ reads \in Seq(Asked) /\ paint \in Nat /\ version \in Nat /\ shown \in Seq(Nat)
        /\ deed \in Operations /\ r \in Asked /\ r.at = "asked"
    BY AddedRead DEF AddedInv, AddedTyped
  <1> HIDE DEF r
  <1>3. /\ deed' \in Operations /\ deed'.at = "refreshed" /\ deed'.version = deed.version
        /\ deed'.certain = deed.certain
    BY <1>1, <1>2 DEF Operations
  <1>4. on /\ reads = <<>> => reads' = Append(reads, r)
    BY <1>1
  <1>5. /\ reads' \in Seq(Asked) /\ (on => reads' # <<>>)
        /\ deed.certain => AnswersFrom(deed.version, reads')
    <2>1. CASE on /\ reads = <<>>
      <3>1. /\ reads' \in Seq(Asked) /\ reads' # <<>>
        BY <1>2, <1>4, <2>1, OneMoreRead
      <3>2. deed.certain => AnswersFrom(deed.version, reads')
        BY <1>2, <1>4, <2>1, AddedAnswers, AnswersLonger
      <3> QED
        BY <3>1, <3>2
    <2>2. CASE ~(on /\ reads = <<>>)
      BY <1>1, <1>2, <2>2, AddedAnswers
    <2> QED
      BY <2>1, <2>2
  <1>6. deed.certain => version' >= deed.version
    BY <1>1 DEF AddedInv, AddedFresh
  <1> QED
    BY <1>1, <1>2, <1>3, <1>5, <1>6 DEF AddedInv, AddedTyped, AddedFresh, Added!Panel

LEMMA AddedStep == ASSUME AddedInv, Added!Next PROVE AddedInv'
  <1>1. CASE Added!Paint \/ Added!Mutate \/ Added!Enhance
    BY <1>1, PaintStep, MutateStep, EnhanceStep
  <1>2. CASE \E i \in DOMAIN reads : Added!FailInserted(i) \/ Added!FailPanel(i)
    BY <1>2, InsertedStep, PanelStep
  <1>3. CASE Added!Answered
    BY <1>3, ServeStep, InsertedStep, PanelStep DEF Added!Answered
  <1>4. CASE Added!Submit \/ Added!Commit \/ Added!Reject
    BY <1>4, SubmittedStep, CommitStep
  <1>5. CASE Added!Refresh
    BY <1>5, RemovalStep, LeavingStep, SubmittedStep, RefreshPanelStep DEF Added!Refresh
  <1> QED
    BY <1>1, <1>2, <1>3, <1>4, <1>5 DEF Added!Next

LEMMA AddedBegins == ASSUME Added!Init PROVE AddedInv
  <1>1. deed \in Operations /\ deed.at = "idle" /\ ~deed.certain
    BY DEF Added!Init, Added!Idle, Operations
  <1>2. /\ paint \in Nat /\ version \in Nat /\ shown \in Seq(Nat) /\ reads \in Seq(Asked)
        /\ on \in BOOLEAN
    BY EmptySeq DEF Added!Init
  <1> QED
    BY <1>1, <1>2 DEF AddedInv, AddedTyped, AddedFresh, Added!Init

LEMMA AddedShown == ASSUME AddedInv PROVE Added!DeedShown
  <1>1. ASSUME deed.at = "refreshed", deed.certain, on, reads = <<>>
        PROVE  CopiesFrom(deed.version, shown, 1)
    BY <1>1 DEF AddedInv, AddedFresh
  <1>2. DOMAIN shown = 1..Len(shown) /\ Len(shown) \in Nat
    BY LenProperties DEF AddedInv, AddedTyped
  <1>3. \A i \in DOMAIN shown : i >= 1
    BY <1>2
  <1> QED
    BY <1>1, <1>3 DEF Added!DeedShown, CopiesFrom

-----------------------------------------------------------------------------
(* The files page: what it shows after an operation *)

\* A load; only the list of all files is put together by reading folders.
Loadings ==
    {l \in [of : Files!Sections, force : BOOLEAN, mine : BOOLEAN,
            at : {"asked", "walking", "walked", "answered"}, got : Int] :
        l.at \in {"walking", "walked"} => l.of = "all"}
FileDeeds == [at : {"idle", "sent", "done", "loading", "shown"}, of : Files!Sections,
              version : Nat, certain : BOOLEAN]

ListTyped ==
    /\ disk \in [Files!Sections -> Nat] /\ section \in Files!Sections
    /\ allFilesCache \in Int \cup {NotLoaded}
    /\ loads \in Seq(Loadings)
    /\ deed \in FileDeeds

\* What has been read of section s is of version v or newer.
HasRead(l) == l.at \in {"walked", "answered"}
ListsFrom(v, s, ls) == \A i \in DOMAIN ls : ls[i].of = s /\ HasRead(ls[i]) => ls[i].got >= v

\* One load at most is an operation's, which waits for it; if the operation is certain, it
\* is of its section.
OneMine(ls) == \A i, j \in DOMAIN ls : ls[i].mine /\ ls[j].mine => i = j
MineIsOf(d, ls) ==
    \A i \in DOMAIN ls : ls[i].mine => d.at = "loading" /\ (d.certain => ls[i].of = d.of)

\* After a certain operation the disk, the server's list and all that is read of the
\* section show it.
ListFresh ==
    deed.certain /\ deed.at \in {"done", "loading"} =>
        /\ disk[deed.of] >= deed.version
        /\ deed.of = "all" /\ allFilesCache # NotLoaded => allFilesCache >= deed.version
        /\ ListsFrom(deed.version, deed.of, loads)

ListInv == ListTyped /\ OneMine(loads) /\ MineIsOf(deed, loads) /\ ListFresh

LEMMA AskedIsLoading ==
    ASSUME NEW s \in Files!Sections, NEW force \in BOOLEAN, NEW mine \in BOOLEAN
    PROVE  LET l == Files!Load(s, force, mine) IN
           l \in Loadings /\ l.at = "asked" /\ l.of = s /\ l.mine = mine
  BY DEF Files!Load, Files!Unread, Loadings

\* Another load begins.
LEMMA LoadBegun ==
    ASSUME NEW ls \in Seq(Loadings), NEW l \in Loadings, l.at = "asked"
    PROVE  /\ Append(ls, l) \in Seq(Loadings)
           /\ \A v, s : ListsFrom(v, s, ls) => ListsFrom(v, s, Append(ls, l))
  <1>1. ~HasRead(l)
    BY DEF HasRead
  <1> QED
    BY <1>1, Longer DEF ListsFrom

LEMMA LoadIsThere ==
    ASSUME NEW ls \in Seq(Loadings), NEW l \in Loadings
    PROVE  \E i \in DOMAIN Append(ls, l) : Append(ls, l)[i] = l
  BY Longer

LEMMA OthersBegun ==
    ASSUME NEW ls \in Seq(Loadings), NEW l \in Loadings, ~l.mine, NEW d, OneMine(ls), MineIsOf(d, ls)
    PROVE  OneMine(Append(ls, l)) /\ MineIsOf(d, Append(ls, l))
  <1> DEFINE m == Append(ls, l)
  <1>1. \A i \in DOMAIN m : (i \in DOMAIN ls /\ m[i] = ls[i]) \/ m[i] = l
    BY Longer
  <1> HIDE DEF m
  <1>2. \A i \in DOMAIN m : m[i].mine => i \in DOMAIN ls /\ m[i] = ls[i]
    BY <1>1
  <1> QED
    BY <1>2 DEF OneMine, MineIsOf, m

LEMMA MineBegun ==
    ASSUME NEW ls \in Seq(Loadings), NEW l \in Loadings, \A i \in DOMAIN ls : ~ls[i].mine,
           NEW d, d.at = "loading", d.certain => l.of = d.of
    PROVE  OneMine(Append(ls, l)) /\ MineIsOf(d, Append(ls, l))
  <1> DEFINE m == Append(ls, l)
  <1>1. /\ \A i \in DOMAIN m : (i \in DOMAIN ls /\ m[i] = ls[i]) \/ m[i] = l
        /\ \A i \in DOMAIN ls : i \in DOMAIN m /\ m[i] = ls[i]
        /\ \A i, j \in DOMAIN m : i \notin DOMAIN ls /\ j \notin DOMAIN ls => i = j
    BY Longer
  <1> HIDE DEF m
  <1>2. \A i \in DOMAIN m : m[i].mine => i \notin DOMAIN ls /\ m[i] = l
    BY <1>1
  <1> QED
    BY <1>1, <1>2 DEF OneMine, MineIsOf, m

\* A load gets on: it is the same one, with what it has read.
LEMMA LoadChanged ==
    ASSUME NEW ls \in Seq(Loadings), NEW k \in DOMAIN ls, NEW n \in Loadings,
           n.of = ls[k].of, n.mine = ls[k].mine
    PROVE  LET m == [ls EXCEPT ![k] = n] IN
           /\ m \in Seq(Loadings)
           /\ OneMine(ls) => OneMine(m)
           /\ \A d : MineIsOf(d, ls) => MineIsOf(d, m)
           /\ \A v, s : ListsFrom(v, s, ls) /\ (n.of = s /\ HasRead(n) => n.got >= v) => ListsFrom(v, s, m)
  <1> DEFINE m == [ls EXCEPT ![k] = n]
  <1>1. m = [j \in DOMAIN ls |-> IF j = k THEN n ELSE ls[j]]
    OBVIOUS
  <1>2. \A j \in DOMAIN ls : ls[j] \in Loadings
    BY ElementOfSeq, LenProperties
  <1> HIDE DEF m
  <1>3. m = [j \in DOMAIN ls |-> m[j]] /\ \A j \in DOMAIN ls : m[j] \in Loadings
    BY <1>1, <1>2
  <1>4. m \in Seq(Loadings) /\ DOMAIN m = DOMAIN ls
    BY <1>3, SeqChanged
  <1>5. \A j \in DOMAIN m : m[j].of = ls[j].of /\ m[j].mine = ls[j].mine
    BY <1>1, <1>4
  <1>6. OneMine(ls) => OneMine(m)
    BY <1>4, <1>5 DEF OneMine
  <1>7. \A d : MineIsOf(d, ls) => MineIsOf(d, m)
    BY <1>4, <1>5 DEF MineIsOf
  <1>8. \A j \in DOMAIN m : m[j] = n \/ m[j] = ls[j]
    BY <1>1, <1>4
  <1>9. \A v, s : ListsFrom(v, s, ls) /\ (n.of = s /\ HasRead(n) => n.got >= v) => ListsFrom(v, s, m)
    BY <1>4, <1>8 DEF ListsFrom
  <1> QED
    BY <1>4, <1>6, <1>7, <1>9 DEF m

\* A load ends.
LEMMA LoadEnded ==
    ASSUME NEW ls \in Seq(Loadings), NEW k \in DOMAIN ls
    PROVE  LET m == Files!RemoveAt(ls, k) IN
           /\ m \in Seq(Loadings) /\ ls[k] \in Loadings
           /\ OneMine(ls) => OneMine(m)
           /\ OneMine(ls) /\ ls[k].mine => \A j \in DOMAIN m : ~m[j].mine
           /\ \A d : MineIsOf(d, ls) => MineIsOf(d, m)
           /\ \A v, s : ListsFrom(v, s, ls) => ListsFrom(v, s, m)
  <1> DEFINE m == Without(ls, k)
  <1>1. m = Files!RemoveAt(ls, k)
    BY DEF Without, Files!RemoveAt
  <1>2. /\ m \in Seq(Loadings) /\ DOMAIN ls = 1..Len(ls) /\ DOMAIN m = 1..Len(m)
        /\ Len(ls) \in Nat /\ Len(m) = Len(ls) - 1
        /\ \A j \in DOMAIN m : m[j] = IF j < k THEN ls[j] ELSE ls[j + 1]
    BY Removed
  <1> DEFINE at(j) == IF j < k THEN j ELSE j + 1
  <1> HIDE DEF m
  <1>3. \A j \in DOMAIN m : at(j) \in DOMAIN ls /\ at(j) # k /\ m[j] = ls[at(j)]
    <2> TAKE j \in DOMAIN m
    <2>1. j \in DOMAIN ls /\ j + 1 \in DOMAIN ls /\ k \in DOMAIN ls
      BY <1>2
    <2> QED
      BY <1>2, <2>1
  <1>4. \A i, j \in DOMAIN m : at(i) = at(j) => i = j
    <2> TAKE i, j \in DOMAIN m
    <2>1. i \in Int /\ j \in Int /\ k \in Int
      BY <1>2
    <2> QED
      BY <2>1
  <1> HIDE DEF at
  <1>5. ls[k] \in Loadings
    BY <1>2, ElementOfSeq
  <1>6. OneMine(ls) => OneMine(m)
    BY <1>3, <1>4 DEF OneMine
  <1>7. OneMine(ls) /\ ls[k].mine => \A j \in DOMAIN m : ~m[j].mine
    BY <1>3 DEF OneMine
  <1>8. \A d : MineIsOf(d, ls) => MineIsOf(d, m)
    BY <1>3 DEF MineIsOf
  <1>9. \A v, s : ListsFrom(v, s, ls) => ListsFrom(v, s, m)
    BY <1>3 DEF ListsFrom
  <1> QED
    BY <1>1, <1>2, <1>5, <1>6, <1>7, <1>8, <1>9

\* Whatever else the user does, a load of some section begins at most.
Another(ls) ==
    \E s \in Files!Sections, force \in BOOLEAN : ls = Append(loads, Files!Load(s, force, FALSE))

LEMMA ListKept ==
    ASSUME ListInv, UNCHANGED <<disk, allFilesCache, deed>>, section' \in Files!Sections,
           loads' = loads \/ Another(loads')
    PROVE  ListInv'
  <1>1. loads \in Seq(Loadings) /\ OneMine(loads) /\ MineIsOf(deed, loads)
    BY DEF ListInv, ListTyped
  <1>2. /\ loads' \in Seq(Loadings) /\ OneMine(loads') /\ MineIsOf(deed, loads')
        /\ \A v, s : ListsFrom(v, s, loads) => ListsFrom(v, s, loads')
    <2>1. CASE loads' = loads
      BY <1>1, <2>1
    <2>2. CASE Another(loads')
      <3>1. PICK s \in Files!Sections, force \in BOOLEAN :
                loads' = Append(loads, Files!Load(s, force, FALSE))
        BY <2>2 DEF Another
      <3> DEFINE l == Files!Load(s, force, FALSE)
      <3>2. loads' = Append(loads, l) /\ l \in Loadings /\ l.at = "asked" /\ l.mine = FALSE
        BY <3>1, AskedIsLoading
      <3> HIDE DEF l
      <3> QED
        BY <1>1, <3>2, LoadBegun, OthersBegun
    <2> QED
      BY <2>1, <2>2
  <1>3. ListTyped'
    BY <1>2 DEF ListInv, ListTyped
  <1>4. ListFresh'
    BY <1>2 DEF ListInv, ListFresh
  <1> QED
    BY <1>2, <1>3, <1>4 DEF ListInv

LEMMA BeginsAnother ==
    ASSUME NEW s \in Files!Sections, NEW force \in BOOLEAN, NEW listed,
           Files!Begins(s, force, FALSE, listed)
    PROVE  Another(loads')
  BY DEF Files!Begins, Another

LEMMA ShowsAnother ==
    ASSUME NEW s \in Files!Sections, NEW listed, NEW stale, Files!Shows(s, listed, stale)
    PROVE  loads' = loads \/ Another(loads')
  BY BeginsAnother DEF Files!Shows

\* Clicks, and the timer that tries again.
LEMMA ListClicked ==
    ASSUME ListInv,
           \/ \E s \in Files!Sections : Files!Open(s) \/ Files!Sidebar(s) \/ Files!Retry(s)
           \/ Files!Leave \/ Files!Return \/ Files!Refresh
    PROVE  /\ section' \in Files!Sections /\ UNCHANGED <<disk, allFilesCache, deed>>
           /\ loads' = loads \/ Another(loads')
  <1>1. section \in Files!Sections
    BY DEF ListInv, ListTyped
  <1>2. ASSUME NEW s \in Files!Sections, Files!Open(s)
        PROVE  /\ section' \in Files!Sections /\ UNCHANGED <<disk, allFilesCache, deed>>
               /\ loads' = loads \/ Another(loads')
    BY <1>2, ShowsAnother DEF Files!Open, Files!Clicks, Files!server
  <1>3. ASSUME NEW s \in Files!Sections, Files!Sidebar(s)
        PROVE  /\ section' \in Files!Sections /\ UNCHANGED <<disk, allFilesCache, deed>>
               /\ loads' = loads \/ Another(loads')
    <2>1. section' = s /\ UNCHANGED <<disk, allFilesCache, deed>>
      BY <1>3 DEF Files!Sidebar, Files!Clicks, Files!server
    <2>2. \/ Files!Begins(s, FALSE, FALSE, Files!Restored(s, NotLoaded))
          \/ \E stale \in BOOLEAN : Files!Shows(s, Files!Restored(s, NotLoaded), stale)
      BY <1>3 DEF Files!Sidebar
    <2> QED
      BY <1>3, <2>1, <2>2, BeginsAnother, ShowsAnother
  <1>4. ASSUME NEW s \in Files!Sections, Files!Retry(s)
        PROVE  /\ section' \in Files!Sections /\ UNCHANGED <<disk, allFilesCache, deed>>
               /\ loads' = loads \/ Another(loads')
    BY <1>1, <1>4, BeginsAnother DEF Files!Retry, Files!server
  <1>5. CASE Files!Leave
    BY <1>1, <1>5 DEF Files!Leave, Files!Clicks, Files!server
  <1>6. CASE Files!Return
    <2>1. section' = section /\ UNCHANGED <<disk, allFilesCache, deed>>
          /\ \E stale \in BOOLEAN : Files!Shows(section, files, stale)
      BY <1>6 DEF Files!Return, Files!Clicks, Files!server
    <2> QED
      BY <1>1, <2>1, ShowsAnother
  <1>7. CASE Files!Refresh
    <2>1. section' = section /\ UNCHANGED <<disk, allFilesCache, deed>>
          /\ Files!Begins(section, TRUE, FALSE, files)
      BY <1>7 DEF Files!Refresh, Files!Clicks, Files!server
    <2> QED
      BY <1>1, <2>1, BeginsAnother
  <1> QED
    BY <1>2, <1>3, <1>4, <1>5, <1>6, <1>7

\* The operation's section is read, and what is read of it is to show the operation.
Awaiting == deed.certain /\ deed.at \in {"done", "loading"}

GoesOn(l, at, got) == [l EXCEPT !.at = at, !.got = got]

LEMMA LoadGoesOn ==
    ASSUME NEW l \in Loadings, NEW at \in {"answered", "walking", "walked"}, NEW got \in Int,
           at \in {"walking", "walked"} => l.of = "all"
    PROVE  /\ GoesOn(l, at, got) \in Loadings
           /\ GoesOn(l, at, got).of = l.of /\ GoesOn(l, at, got).mine = l.mine
           /\ GoesOn(l, at, got).at = at /\ GoesOn(l, at, got).got = got
  BY DEF Loadings, GoesOn

LEMMA ListReads ==
    ASSUME ListInv, NEW k \in DOMAIN loads, NEW n \in Loadings,
           n.of = loads[k].of, n.mine = loads[k].mine,
           loads' = [loads EXCEPT ![k] = n],
           Awaiting /\ n.of = deed.of /\ HasRead(n) => n.got >= deed.version,
           allFilesCache' \in Int \cup {NotLoaded},
           Awaiting /\ deed.of = "all" /\ allFilesCache' # NotLoaded => allFilesCache' >= deed.version,
           UNCHANGED <<disk, deed, section>>
    PROVE  ListInv'
  <1> DEFINE v == deed.version  o == deed.of
  <1>1. /\ loads \in Seq(Loadings) /\ disk \in [Files!Sections -> Nat]
        /\ deed \in FileDeeds /\ section \in Files!Sections
    BY DEF ListInv, ListTyped
  <1> HIDE DEF v, o
  <1>6. /\ loads' \in Seq(Loadings)
        /\ OneMine(loads) => OneMine(loads')
        /\ MineIsOf(deed, loads) => MineIsOf(deed, loads')
        /\ ListsFrom(v, o, loads) /\ (n.of = o /\ HasRead(n) => n.got >= v) => ListsFrom(v, o, loads')
    BY <1>1, LoadChanged
  <1>7. Awaiting /\ n.of = o /\ HasRead(n) => n.got >= v
    BY DEF v, o
  <1>8. Awaiting => disk[o] >= v /\ ListsFrom(v, o, loads')
    BY <1>6, <1>7 DEF ListInv, ListFresh, Awaiting, v, o
  <1>9. OneMine(loads') /\ MineIsOf(deed', loads')
    BY <1>6 DEF ListInv
  <1>10. ListTyped'
    BY <1>1, <1>6 DEF ListTyped
  <1>11. ListFresh'
    BY <1>8 DEF ListFresh, Awaiting, v, o
  <1> QED
    BY <1>9, <1>10, <1>11 DEF ListInv

\* The server reads, keeps and answers.
LEMMA ListServed ==
    ASSUME ListInv, NEW k \in DOMAIN loads, Files!Serve(k) \/ Files!Walk(k) \/ Files!Walked(k)
    PROVE  ListInv'
  <1> DEFINE v == deed.version  o == deed.of  l == loads[k]
  <1>1. /\ loads \in Seq(Loadings) /\ disk \in [Files!Sections -> Nat]
        /\ allFilesCache \in Int \cup {NotLoaded}
    BY DEF ListInv, ListTyped
  <1>2. l \in Loadings
    BY <1>1, ElementOfSeq, LenProperties
  <1>3. /\ l.of \in Files!Sections /\ l.got \in Int
        /\ l.at \in {"walking", "walked"} => l.of = "all"
        /\ l = [of |-> l.of, force |-> l.force, mine |-> l.mine, at |-> l.at, got |-> l.got]
    BY <1>2 DEF Loadings
  <1>4. /\ Awaiting => disk[o] >= v /\ ListsFrom(v, o, loads)
        /\ Awaiting /\ o = "all" /\ allFilesCache # NotLoaded => allFilesCache >= v
    BY DEF ListInv, ListFresh, Awaiting
  <1>5. Awaiting /\ l.of = o /\ HasRead(l) => l.got >= v
    BY <1>4 DEF ListsFrom
  <1>6. UNCHANGED <<disk, deed, section>>
    BY DEF Files!Serve, Files!Walk, Files!Walked, Files!server
  <1> HIDE DEF l, v, o
  <1>7. ASSUME NEW at \in {"answered", "walking", "walked"}, NEW got \in Int,
               loads' = [loads EXCEPT ![k] = [l EXCEPT !.at = at, !.got = got]],
               at \in {"walking", "walked"} => l.of = "all",
               Awaiting /\ l.of = o /\ at \in {"answered", "walked"} => got >= v,
               allFilesCache' \in Int \cup {NotLoaded},
               Awaiting /\ o = "all" /\ allFilesCache' # NotLoaded => allFilesCache' >= v
        PROVE  ListInv'
    <2> DEFINE n == GoesOn(l, at, got)
    <2>1. n \in Loadings /\ n.of = l.of /\ n.mine = l.mine /\ n.at = at /\ n.got = got
      BY <1>2, <1>7, LoadGoesOn
    <2>2. loads' = [loads EXCEPT ![k] = n]
      BY <1>7 DEF GoesOn
    <2> HIDE DEF n
    <2>3. n.of = loads[k].of /\ n.mine = loads[k].mine
      BY <2>1 DEF l
    <2>4. Awaiting /\ n.of = o /\ HasRead(n) => n.got >= v
      BY <1>7, <2>1 DEF HasRead
    <2> QED
      BY <1>6, <1>7, <2>1, <2>2, <2>3, <2>4, ListReads DEF v, o
  <1>8. CASE Files!Serve(k)
    <2>1. /\ l.at = "asked" /\ UNCHANGED allFilesCache
          /\ \/ l.of # "all" /\ loads' = [loads EXCEPT ![k].at = "answered", ![k].got = disk[l.of]]
             \/ l.of = "all" /\ allFilesCache # NotLoaded
                /\ loads' = [loads EXCEPT ![k].at = "answered", ![k].got = allFilesCache]
             \/ l.of = "all" /\ loads' = [loads EXCEPT ![k].at = "walking"]
      BY <1>8 DEF Files!Serve, Files!server, l
    <2>2. CASE l.of # "all" /\ loads' = [loads EXCEPT ![k].at = "answered", ![k].got = disk[l.of]]
      <3>1. disk[l.of] \in Int /\ (Awaiting /\ l.of = o => disk[l.of] >= v)
        BY <1>1, <1>3, <1>4
      <3>2. loads' = [loads EXCEPT ![k] = [l EXCEPT !.at = "answered", !.got = disk[l.of]]]
        BY <2>2 DEF l
      <3> QED
        BY <1>1, <1>4, <1>7, <2>1, <3>1, <3>2
    <2>3. CASE /\ l.of = "all" /\ allFilesCache # NotLoaded
               /\ loads' = [loads EXCEPT ![k].at = "answered", ![k].got = allFilesCache]
      <3>1. allFilesCache \in Int /\ (Awaiting /\ l.of = o => allFilesCache >= v)
        BY <1>1, <1>4, <2>3
      <3>2. loads' = [loads EXCEPT ![k] = [l EXCEPT !.at = "answered", !.got = allFilesCache]]
        BY <2>3 DEF l
      <3> QED
        BY <1>1, <1>4, <1>7, <2>1, <3>1, <3>2
    <2>4. CASE l.of = "all" /\ loads' = [loads EXCEPT ![k].at = "walking"]
      <3>1. loads' = [loads EXCEPT ![k] = [l EXCEPT !.at = "walking", !.got = l.got]]
        BY <1>3, <2>4 DEF l
      <3> QED
        BY <1>1, <1>3, <1>4, <1>7, <2>1, <2>4, <3>1
    <2> QED
      BY <2>1, <2>2, <2>3, <2>4
  <1>9. CASE Files!Walk(k)
    <2>1. /\ l.at = "walking" /\ UNCHANGED allFilesCache
          /\ loads' = [loads EXCEPT ![k] = [l EXCEPT !.at = "walked", !.got = disk["all"]]]
      BY <1>9 DEF Files!Walk, Files!server, l
    <2>2. l.of = "all"
      BY <1>3, <2>1
    <2>3. disk["all"] \in Int /\ (Awaiting /\ l.of = o => disk["all"] >= v)
      BY <1>1, <1>3, <1>4, <2>2
    <2> QED
      BY <1>1, <1>4, <1>7, <2>1, <2>2, <2>3
  <1>10. CASE Files!Walked(k)
    <2>1. /\ l.at = "walked" /\ allFilesCache' = l.got
          /\ loads' = [loads EXCEPT ![k].at = "answered"]
      BY <1>10 DEF Files!Walked, l
    <2>2. l.of = "all" /\ HasRead(l)
      BY <1>3, <2>1 DEF HasRead
    <2>3. loads' = [loads EXCEPT ![k] = [l EXCEPT !.at = "answered", !.got = l.got]]
      BY <1>3, <2>1 DEF l
    <2>4. Awaiting /\ o = "all" => l.got >= v
      BY <1>5, <2>2
    <2> QED
      BY <1>3, <1>5, <1>7, <2>1, <2>2, <2>3, <2>4
  <1> QED
    BY <1>8, <1>9, <1>10

\* An operation is submitted: none awaits a load.
LEMMA ListSubmitted == ASSUME ListInv, Files!Submit PROVE ListInv'
  <1>1. /\ deed.at \in {"idle", "shown"} /\ deed' = [Files!Idle EXCEPT !.at = "sent", !.of = section]
        /\ UNCHANGED <<disk, allFilesCache, section, loads>>
    BY DEF Files!Submit, Files!server, Files!page
  <1>2. section \in Files!Sections
    BY DEF ListInv, ListTyped
  <1>3. deed' \in FileDeeds /\ deed'.at = "sent"
    BY <1>1, <1>2 DEF FileDeeds, Files!Idle
  <1>4. MineIsOf(deed', loads')
    BY <1>1 DEF ListInv, MineIsOf
  <1> QED
    BY <1>1, <1>3, <1>4 DEF ListInv, ListTyped, ListFresh

\* The server does it.
LEMMA ListDone == ASSUME ListInv, Files!Done PROVE ListInv'
  <1> DEFINE n == disk[deed.of] + 1
  <1>1. /\ deed.at = "sent" /\ UNCHANGED <<section, loads>>
        /\ disk' = [s \in Files!Sections |-> IF s \in {"all", deed.of} THEN disk[s] + 1 ELSE disk[s]]
        /\ \/ allFilesCache' = NotLoaded /\ deed' = Files!After(FALSE)
           \/ allFilesCache' = allFilesCache /\ deed' = Files!After(TRUE)
    BY DEF Files!Done, Files!InvalidateAllFilesCache, Files!page
  <1>2. /\ disk \in [Files!Sections -> Nat] /\ deed \in FileDeeds
        /\ section \in Files!Sections /\ loads \in Seq(Loadings)
        /\ allFilesCache \in Int \cup {NotLoaded}
    BY DEF ListInv, ListTyped
  <1>3. deed.of \in Files!Sections
    BY <1>2 DEF FileDeeds
  <1>4. n \in Nat /\ disk' \in [Files!Sections -> Nat] /\ disk'[deed.of] = n
    BY <1>1, <1>2, <1>3
  <1>5. PICK c \in BOOLEAN :
            /\ deed' = [deed EXCEPT !.at = "done", !.version = n, !.certain = c]
            /\ c => allFilesCache' = NotLoaded /\ ~\E i \in DOMAIN loads : loads[i].of = deed.of
    BY <1>1 DEF Files!After
  <1> HIDE DEF n
  <1>6. /\ deed' \in FileDeeds /\ deed'.at = "done" /\ deed'.version = n /\ deed'.certain = c
        /\ deed'.of = deed.of
    BY <1>2, <1>4, <1>5 DEF FileDeeds
  <1>7. ListTyped'
    BY <1>1, <1>2, <1>4, <1>6 DEF ListTyped
  <1>8. n >= n
    BY <1>4
  <1>9. c => ListsFrom(n, deed.of, loads)
    BY <1>5 DEF ListsFrom
  <1>10. ListFresh'
    BY <1>1, <1>4, <1>5, <1>6, <1>8, <1>9 DEF ListFresh
  <1>11. MineIsOf(deed', loads')
    BY <1>1 DEF ListInv, MineIsOf
  <1> QED
    BY <1>1, <1>7, <1>10, <1>11 DEF ListInv

\* It loads the section of the page, or finds a load of it under way.
LEMMA ListReloaded ==
    ASSUME ListInv, Files!Reload
    PROVE  ListInv'
  <1>1. deed.at = "done" /\ UNCHANGED <<disk, allFilesCache>>
    BY DEF Files!Reload, Files!server
  <1>2. /\ section \in Files!Sections /\ loads \in Seq(Loadings) /\ deed \in FileDeeds
        /\ OneMine(loads) /\ \A i \in DOMAIN loads : ~loads[i].mine
    BY <1>1 DEF ListInv, ListTyped, MineIsOf
  <1>3. CASE Files!LoadsNothing
    <2>1. deed' = [deed EXCEPT !.at = "shown"] /\ UNCHANGED <<section, loads>>
      BY <1>3 DEF Files!LoadsNothing, Files!page
    <2>2. deed' \in FileDeeds /\ deed'.at = "shown"
      BY <1>2, <2>1 DEF FileDeeds
    <2>3. MineIsOf(deed', loads')
      BY <1>2, <2>1 DEF MineIsOf
    <2> QED
      BY <1>1, <1>2, <2>1, <2>2, <2>3 DEF ListInv, ListTyped, ListFresh
  <1>4. ASSUME NEW force \in BOOLEAN, Files!LoadsAgain(force) PROVE ListInv'
    <2> DEFINE l == Files!Load(section, force, TRUE)  c == deed.certain /\ deed.of = section
    <2>1. /\ deed' = [deed EXCEPT !.at = "loading", !.certain = c]
          /\ loads' = Append(loads, l) /\ section' = section
      BY <1>4 DEF Files!LoadsAgain, Files!Begins
    <2>2. l \in Loadings /\ l.at = "asked" /\ l.of = section /\ l.mine = TRUE
      BY <1>2, AskedIsLoading
    <2> HIDE DEF l, c
    <2>3. deed.certain \in BOOLEAN
      BY <1>2 DEF FileDeeds
    <2>4. c \in BOOLEAN /\ (c => deed.certain /\ deed.of = section)
      BY DEF c
    <2>5. /\ deed' \in FileDeeds /\ deed'.at = "loading" /\ deed'.certain = c
          /\ deed'.of = deed.of /\ deed'.version = deed.version
      BY <1>2, <2>1, <2>4 DEF FileDeeds
    <2>6. OneMine(loads') /\ MineIsOf(deed', loads')
      BY <1>2, <2>1, <2>2, <2>4, <2>5, MineBegun
    <2>7. /\ loads' \in Seq(Loadings)
          /\ \A v, s : ListsFrom(v, s, loads) => ListsFrom(v, s, loads')
      BY <1>2, <2>1, <2>2, LoadBegun
    <2>8. ListTyped'
      BY <1>1, <1>2, <2>1, <2>5, <2>7 DEF ListInv, ListTyped
    <2>9. ListFresh'
      BY <1>1, <2>4, <2>5, <2>7 DEF ListInv, ListFresh
    <2> QED
      BY <2>6, <2>8, <2>9 DEF ListInv
  <1>5. Files!LoadsNothing \/ \E force \in BOOLEAN : Files!LoadsAgain(force)
    BY DEF Files!Reload
  <1> QED
    BY <1>3, <1>4, <1>5

\* A load comes or fails; its operation is done.
LEMMA ListEnded ==
    ASSUME ListInv, NEW k \in DOMAIN loads, Files!Reply(k) \/ Files!Fail(k)
    PROVE  ListInv'
  <1> DEFINE l == loads[k]  rest == Files!RemoveAt(loads, k)
  <1>1. UNCHANGED <<disk, allFilesCache, section>>
    BY DEF Files!Reply, Files!Fail, Files!server
  <1>2. /\ deed' = IF l.mine THEN [deed EXCEPT !.at = "shown"] ELSE deed
        /\ loads' = rest \/ loads' = Append(rest, Files!Load(l.of, FALSE, FALSE))
    BY DEF Files!Reply, Files!Fail, Files!Ends, Files!Finish
  <1>3. loads \in Seq(Loadings) /\ deed \in FileDeeds
    BY DEF ListInv, ListTyped
  <1>4. /\ rest \in Seq(Loadings) /\ l \in Loadings
        /\ OneMine(rest) /\ MineIsOf(deed, rest)
        /\ l.mine => \A j \in DOMAIN rest : ~rest[j].mine
        /\ \A v, s : ListsFrom(v, s, loads) => ListsFrom(v, s, rest)
    BY <1>3, LoadEnded DEF ListInv
  <1> HIDE DEF l, rest
  <1>5. MineIsOf(deed', rest)
    BY <1>2, <1>4 DEF MineIsOf
  <1> DEFINE n == Files!Load(l.of, FALSE, FALSE)
  <1>6. l.of \in Files!Sections
    BY <1>4 DEF Loadings
  <1>7. n \in Loadings /\ n.at = "asked" /\ n.mine = FALSE
    BY <1>6, AskedIsLoading
  <1>8. loads' = rest \/ loads' = Append(rest, n)
    BY <1>2
  <1> HIDE DEF n
  <1>9. loads' \in Seq(Loadings) /\ \A v, s : ListsFrom(v, s, rest) => ListsFrom(v, s, loads')
    BY <1>4, <1>7, <1>8, LoadBegun
  <1>10. OneMine(loads') /\ MineIsOf(deed', loads')
    BY <1>4, <1>5, <1>7, <1>8, OthersBegun
  <1>11. deed' \in FileDeeds /\ (deed' = deed \/ deed'.at = "shown")
    BY <1>2, <1>3 DEF FileDeeds
  <1>12. ListTyped'
    BY <1>1, <1>9, <1>11 DEF ListInv, ListTyped
  <1>13. ListFresh'
    BY <1>1, <1>4, <1>9, <1>11 DEF ListInv, ListFresh
  <1> QED
    BY <1>10, <1>12, <1>13 DEF ListInv

LEMMA ListStep == ASSUME ListInv, Files!Next PROVE ListInv'
  <1>1. CASE \/ \E s \in Files!Sections : Files!Open(s) \/ Files!Sidebar(s) \/ Files!Retry(s)
             \/ Files!Leave \/ Files!Return \/ Files!Refresh
    BY <1>1, ListClicked, ListKept
  <1>2. CASE Files!Submit \/ Files!Done \/ Files!Reload
    BY <1>2, ListSubmitted, ListDone, ListReloaded
  <1>3. CASE \E i \in DOMAIN loads :
            Files!Serve(i) \/ Files!Walk(i) \/ Files!Walked(i) \/ Files!Reply(i) \/ Files!Fail(i)
    BY <1>3, ListServed, ListEnded
  <1> QED
    BY <1>1, <1>2, <1>3 DEF Files!Next

LEMMA ListBegins == ASSUME Files!Init PROVE ListInv
  <1> DEFINE l == Files!Load("all", FALSE, FALSE)
  <1>1. "all" \in Files!Sections
    BY DEF Files!Sections
  <1>2. l \in Loadings /\ l.at = "asked" /\ l.mine = FALSE
    BY <1>1, AskedIsLoading
  <1>3. loads = <<l>> /\ deed = Files!Idle /\ disk = [s \in Files!Sections |-> 0]
        /\ allFilesCache = NotLoaded /\ section = "all"
    BY DEF Files!Init
  <1> HIDE DEF l
  <1>4. loads \in Seq(Loadings) /\ DOMAIN loads = {1} /\ loads[1] = l
    BY <1>2, <1>3
  <1>5. Files!Idle \in FileDeeds /\ Files!Idle.at = "idle"
    BY <1>1 DEF FileDeeds, Files!Idle
  <1>6. ListTyped
    BY <1>1, <1>3, <1>4, <1>5 DEF ListTyped
  <1>7. OneMine(loads) /\ MineIsOf(deed, loads)
    BY <1>2, <1>4 DEF OneMine, MineIsOf
  <1> QED
    BY <1>3, <1>5, <1>6, <1>7 DEF ListInv, ListFresh

\* The load an operation waits for brings what it has done.
LEMMA DeedIsListed ==
    ASSUME ListInv, Files!Next
    PROVE  Files!DeedShows
  <1> SUFFICES ASSUME deed.at = "loading", deed'.at = "shown", deed.certain, ~fileError',
                      section = deed.of, ~\E i \in DOMAIN loads' : loads'[i].of = deed.of
               PROVE  files'.version >= deed.version
    BY DEF Files!DeedShows
  <1>1. deed' # deed
    OBVIOUS
  <1>2. PICK k \in DOMAIN loads : Files!Reply(k) \/ Files!Fail(k)
    <2>1. ~(\/ \E s \in Files!Sections : Files!Open(s) \/ Files!Sidebar(s) \/ Files!Retry(s)
            \/ Files!Leave \/ Files!Return \/ Files!Refresh)
      BY <1>1, ListClicked
    <2>2. ~(Files!Submit \/ Files!Done \/ Files!Reload)
      BY DEF Files!Submit, Files!Done, Files!Reload
    <2>3. ~\E k \in DOMAIN loads : Files!Serve(k) \/ Files!Walk(k) \/ Files!Walked(k)
      BY <1>1 DEF Files!Serve, Files!Walk, Files!Walked
    <2> QED
      BY <2>1, <2>2, <2>3 DEF Files!Next
  <1> DEFINE l == loads[k]  rest == Files!RemoveAt(loads, k)
  <1>3. deed' = IF l.mine THEN [deed EXCEPT !.at = "shown"] ELSE deed
    BY <1>2 DEF Files!Reply, Files!Fail, Files!Ends, Files!Finish
  <1>4. l.mine /\ l.of = deed.of
    BY <1>1, <1>3 DEF ListInv, MineIsOf
  <1>5. Files!IsCurrent(l.of)
    BY <1>4 DEF Files!IsCurrent
  <1>6. CASE Files!Reply(k)
    <2>1. l.at = "answered" /\ files' = Files!Listing(l.of, l.got)
      BY <1>5, <1>6 DEF Files!Reply
    <2>2. l.got >= deed.version
      BY <1>4, <2>1 DEF ListInv, ListFresh, ListsFrom, HasRead
    <2> QED
      BY <2>1, <2>2 DEF Files!Listing
  <1>7. CASE Files!Fail(k)
    <2>1. Files!Again(l.of)
      BY <1>5, <1>7 DEF Files!Fail, Files!Ends
    <2>2. loads' = Append(rest, Files!Load(l.of, FALSE, FALSE))
      BY <1>7, <2>1 DEF Files!Fail, Files!Ends
    <2>3. rest \in Seq(Loadings) /\ l \in Loadings
      BY LoadEnded DEF ListInv, ListTyped
    <2>4. l.of \in Files!Sections
      BY <2>3 DEF Loadings
    <2> DEFINE n == Files!Load(l.of, FALSE, FALSE)
    <2>5. n \in Loadings /\ n.of = l.of
      BY <2>4, AskedIsLoading
    <2> HIDE DEF n, rest, l
    <2>6. \E i \in DOMAIN loads' : loads'[i] = n
      BY <2>2, <2>3, <2>5, LoadIsThere DEF n
    <2> QED
      BY <1>4, <2>5, <2>6
  <1> QED
    BY <1>2, <1>6, <1>7

-----------------------------------------------------------------------------
(* The editor's history: a stack to undo and one to redo *)

LEMMA UpTo ==
    ASSUME NEW S, NEW h \in Seq(S), NEW p \in DOMAIN h
    PROVE  SubSeq(h, 1, p) = Append(SubSeq(h, 1, p - 1), h[p])
  <1> DEFINE a == SubSeq(h, 1, p)  b == SubSeq(h, 1, p - 1)  c == Append(b, h[p])
  <1>1. p \in 1..Len(h) /\ Len(h) \in Nat /\ h[p] \in S
    BY LenProperties, ElementOfSeq
  <1>2. a \in Seq(S) /\ Len(a) = p /\ \A j \in 1..p : a[j] = h[j]
    BY <1>1
  <1>3. b \in Seq(S) /\ Len(b) = p - 1 /\ \A j \in 1..(p - 1) : b[j] = h[j]
    BY <1>1
  <1> HIDE DEF a, b
  <1>4. /\ c \in Seq(S) /\ Len(c) = Len(b) + 1 /\ c[Len(b) + 1] = h[p]
        /\ \A j \in 1..Len(b) : c[j] = b[j]
    BY <1>1, <1>3, AppendProperties
  <1> HIDE DEF c
  <1>5. Len(c) = p /\ c[p] = h[p]
    BY <1>1, <1>3, <1>4
  <1>6. \A j \in 1..p : j = p \/ j \in 1..(p - 1)
    BY <1>1
  <1>7. \A j \in 1..p : a[j] = c[j]
    BY <1>2, <1>3, <1>4, <1>5, <1>6
  <1>8. a = c
    BY <1>2, <1>4, <1>5, <1>7, SeqEqual
  <1> QED
    BY <1>8 DEF a, b, c

LEMMA FromOn ==
    ASSUME NEW S, NEW h \in Seq(S), NEW p \in DOMAIN h
    PROVE  SubSeq(h, p, Len(h)) = <<h[p]>> \o SubSeq(h, p + 1, Len(h))
  <1> DEFINE n == Len(h)  a == SubSeq(h, p, n)  b == SubSeq(h, p + 1, n)  f == <<h[p]>>  c == f \o b
  <1>1. p \in 1..n /\ n \in Nat /\ h[p] \in S
    BY LenProperties, ElementOfSeq
  <1>2. a \in Seq(S) /\ Len(a) = n - p + 1 /\ \A j \in 1..(n - p + 1) : a[j] = h[p + j - 1]
    BY <1>1
  <1>3. b \in Seq(S) /\ Len(b) = n - p /\ \A j \in 1..(n - p) : b[j] = h[p + j]
    BY <1>1
  <1>4. f \in Seq(S) /\ Len(f) = 1 /\ f[1] = h[p]
    BY <1>1
  <1> HIDE DEF a, b, f
  <1>5. /\ c \in Seq(S) /\ Len(c) = Len(f) + Len(b)
        /\ \A j \in 1..Len(f) + Len(b) : c[j] = IF j <= Len(f) THEN f[j] ELSE b[j - Len(f)]
    BY <1>3, <1>4, ConcatProperties
  <1> HIDE DEF c
  <1>6. ASSUME NEW j \in 1..(n - p + 1) PROVE a[j] = c[j]
    <2>1. j \in 1..Len(f) + Len(b)
      BY <1>1, <1>3, <1>4
    <2>2. CASE j = 1
      <3>1. c[j] = f[1] /\ p + j - 1 = p
        BY <1>1, <1>4, <1>5, <2>1, <2>2
      <3> QED
        BY <1>2, <1>4, <1>6, <3>1
    <2>3. CASE j # 1
      <3>1. ~(j <= 1) /\ j - 1 \in 1..(n - p) /\ p + (j - 1) = p + j - 1
        BY <1>1, <2>3
      <3>2. c[j] = b[j - 1]
        BY <1>4, <1>5, <2>1, <3>1
      <3>3. b[j - 1] = h[p + (j - 1)]
        BY <1>3, <3>1
      <3> QED
        BY <1>2, <1>6, <3>1, <3>2, <3>3
    <2> QED
      BY <2>2, <2>3
  <1>7. Len(c) = n - p + 1
    BY <1>1, <1>3, <1>4, <1>5
  <1>8. a = c
    BY <1>2, <1>5, <1>6, <1>7, SeqEqual
  <1> QED
    BY <1>8 DEF a, b, c, f, n

\* The edits put on the history, of which what was undone is cut off.
LEMMA PushedStands ==
    ASSUME NEW S, NEW h \in Seq(S), NEW p \in DOMAIN h, NEW e \in S,
           NEW g \in Seq(S), Len(g) = p + 1, \A k \in 1..p : g[k] = h[k]
    PROVE  /\ SubSeq(g, 1, p) = SubSeq(h, 1, p)
           /\ SubSeq(g, p + 2, Len(g)) = <<>>
  <1> DEFINE a == SubSeq(g, 1, p)  b == SubSeq(h, 1, p)
  <1>1. p \in 1..Len(h) /\ Len(h) \in Nat
    BY LenProperties
  <1>2. a \in Seq(S) /\ Len(a) = p /\ \A j \in 1..p : a[j] = g[j]
    BY <1>1
  <1>3. b \in Seq(S) /\ Len(b) = p /\ \A j \in 1..p : b[j] = h[j]
    BY <1>1
  <1> HIDE DEF a, b
  <1>4. a = b
    BY <1>2, <1>3, SeqEqual
  <1>5. SubSeq(g, p + 2, Len(g)) = <<>>
    BY <1>1
  <1> QED
    BY <1>4, <1>5 DEF a, b

LEMMA SameStand ==
    ASSUME editor'.history = editor.history, editor'.index = editor.index
    PROVE  Viewer!UndoesAndRedoes
  BY DEF Viewer!UndoesAndRedoes, Viewer!Stands, Viewer!Past, Viewer!Future

\* What the history is while the editor is open.
LEMMA OpenEditors ==
    ASSUME EditorInv, editor.open
    PROVE  /\ IsEditor(editor) /\ editor.history \in Seq(EditsOf)
           /\ editor.index \in DOMAIN editor.history
           /\ editor.index \in 1..Len(editor.history) /\ Len(editor.history) \in Nat
  <1>1. editor.history \in Seq(EditsOf) /\ editor.index \in DOMAIN editor.history
    BY DEF EditorInv, Editing
  <1> QED
    BY <1>1, LenProperties DEF EditorInv

\* A change is put on the stack to undo, and empties that to redo.
LEMMA PushUndoes ==
    ASSUME EditorInv, editor.open, editor'.history \in Seq(EditsOf),
           editor'.index = editor.index + 1, Len(editor'.history) = editor.index + 1,
           \A k \in 1..editor.index : editor'.history[k] = editor.history[k]
    PROVE  Viewer!UndoesAndRedoes
  <1> DEFINE h == editor.history  p == editor.index  g == editor'.history
  <1>1. h \in Seq(EditsOf) /\ p \in DOMAIN h /\ p \in 1..Len(h)
    BY OpenEditors
  <1>2. h[p] \in EditsOf
    BY <1>1, ElementOfSeq
  <1> HIDE DEF h
  <1>3. SubSeq(g, 1, p) = SubSeq(h, 1, p) /\ SubSeq(g, p + 2, Len(g)) = <<>>
    BY <1>1, <1>2, PushedStands DEF h
  <1>4. SubSeq(h, 1, p) = Append(SubSeq(h, 1, p - 1), h[p])
    BY <1>1, UpTo
  <1>5. editor'.index - 1 = p /\ editor'.index + 1 = p + 2
    BY <1>1
  <1>6. Viewer!Past(editor') = SubSeq(g, 1, p) /\ Viewer!Past(editor) = SubSeq(h, 1, p - 1)
    BY <1>5 DEF Viewer!Past, h
  <1>7. Viewer!Future(editor') = SubSeq(g, p + 2, Len(g))
    BY <1>5 DEF Viewer!Future
  <1> QED
    BY <1>3, <1>4, <1>6, <1>7 DEF Viewer!UndoesAndRedoes, h

\* A step back, which takes from the first stack and puts on the second.
LEMMA BackUndoes ==
    ASSUME EditorInv, editor.open, editor.index > 1, editor'.history = editor.history,
           editor'.index = editor.index - 1
    PROVE  Viewer!UndoesAndRedoes
  <1> DEFINE h == editor.history  p == editor.index  q == editor'.index
  <1>1. h \in Seq(EditsOf) /\ p \in DOMAIN h /\ p \in 1..Len(h) /\ Len(h) \in Nat
        /\ DOMAIN h = 1..Len(h)
    BY OpenEditors, LenProperties
  <1>2. q \in DOMAIN h /\ q + 1 = p
    BY <1>1
  <1> HIDE DEF h
  <1>3. SubSeq(h, 1, q) = Append(SubSeq(h, 1, q - 1), h[q])
    BY <1>1, <1>2, UpTo
  <1>4. SubSeq(h, p, Len(h)) = <<h[p]>> \o SubSeq(h, p + 1, Len(h))
    BY <1>1, FromOn
  <1>5. Viewer!Past(editor') = SubSeq(h, 1, q - 1) /\ Viewer!Past(editor) = SubSeq(h, 1, q)
    BY DEF Viewer!Past, h
  <1>6. Viewer!Future(editor') = SubSeq(h, p, Len(h))
        /\ Viewer!Future(editor) = SubSeq(h, p + 1, Len(h))
    BY <1>2 DEF Viewer!Future, h
  <1> QED
    BY <1>3, <1>4, <1>5, <1>6 DEF Viewer!UndoesAndRedoes, h

\* A step forward, which takes from the second stack and puts on the first.
LEMMA ForthRedoes ==
    ASSUME EditorInv, editor.open, editor.index < Len(editor.history),
           editor'.history = editor.history, editor'.index = editor.index + 1
    PROVE  Viewer!UndoesAndRedoes
  <1> DEFINE h == editor.history  p == editor.index  q == editor'.index
  <1>1. h \in Seq(EditsOf) /\ p \in DOMAIN h /\ p \in 1..Len(h) /\ Len(h) \in Nat
        /\ DOMAIN h = 1..Len(h)
    BY OpenEditors, LenProperties
  <1>2. q \in DOMAIN h /\ q - 1 = p /\ q = p + 1
    BY <1>1
  <1> HIDE DEF h
  <1>3. SubSeq(h, 1, p) = Append(SubSeq(h, 1, p - 1), h[p])
    BY <1>1, UpTo
  <1>4. SubSeq(h, q, Len(h)) = <<h[q]>> \o SubSeq(h, q + 1, Len(h))
    BY <1>1, <1>2, FromOn
  <1>5. Viewer!Past(editor') = SubSeq(h, 1, p) /\ Viewer!Past(editor) = SubSeq(h, 1, p - 1)
    BY <1>2 DEF Viewer!Past, h
  <1>6. Viewer!Future(editor') = SubSeq(h, q + 1, Len(h))
        /\ Viewer!Future(editor) = SubSeq(h, q, Len(h))
    BY <1>2 DEF Viewer!Future, h
  <1> QED
    BY <1>3, <1>4, <1>5, <1>6 DEF Viewer!UndoesAndRedoes, h

LEMMA PushesUndo ==
    ASSUME EditorInv, Viewer!Release \/ Viewer!Revert \/ \E e \in Levels : Viewer!Choose(e)
    PROVE  Viewer!UndoesAndRedoes
  <1>1. editor.open
    BY DEF Viewer!Release, Viewer!Revert, Viewer!Choose, Viewer!OnEditor
  <1>2. /\ IsEditor(editor) /\ editor.history \in Seq(EditsOf)
        /\ editor.index \in DOMAIN editor.history
    BY <1>1, OpenEditors
  <1>3. CASE Viewer!Release
    <2> DEFINE p == Viewer!Pushed(editor)
    <2>1. editor' = [p EXCEPT !.sliding = FALSE]
      BY <1>3 DEF Viewer!Release
    <2>2. /\ IsEditor(p) /\ p.history \in Seq(EditsOf)
          /\ p.index = editor.index + 1 /\ Len(p.history) = p.index
          /\ \A k \in 1..editor.index : p.history[k] = editor.history[k]
      BY <1>1, <1>2, OfPushed
    <2> HIDE DEF p
    <2>3. editor'.history = p.history /\ editor'.index = p.index
      BY <2>1, <2>2 DEF IsEditor
    <2> QED
      BY <1>1, <2>2, <2>3, PushUndoes
  <1>4. ASSUME NEW e \in EditsOf, editor' = Viewer!Pushed([editor EXCEPT !.edits = e])
        PROVE  Viewer!UndoesAndRedoes
    <2> DEFINE ed == [editor EXCEPT !.edits = e]
    <2>1. ed = [open |-> editor.open, source |-> editor.source, picture |-> editor.picture,
                edits |-> e, history |-> editor.history, index |-> editor.index,
                sliding |-> editor.sliding]
      BY <1>2 DEF IsEditor
    <2>2. editor' = Viewer!Pushed(ed)
      BY <1>4
    <2> HIDE DEF ed
    <2>3. IsEditor(ed)
      BY <1>2, <1>4, <2>1 DEF IsEditor
    <2>4. ed.open /\ ed.history = editor.history /\ ed.index = editor.index
      BY <1>1, <2>1
    <2>5. /\ editor'.history \in Seq(EditsOf)
          /\ editor'.index = editor.index + 1 /\ Len(editor'.history) = editor'.index
          /\ \A k \in 1..editor.index : editor'.history[k] = editor.history[k]
      BY <1>2, <2>2, <2>3, <2>4, OfPushed
    <2> QED
      BY <1>1, <2>5, PushUndoes
  <1>5. CASE Viewer!Revert
    BY <1>4, <1>5 DEF Viewer!Revert, Viewer!Plain, EditsOf
  <1>6. ASSUME NEW e \in Levels, Viewer!Choose(e) PROVE Viewer!UndoesAndRedoes
    BY <1>4, <1>6 DEF Viewer!Choose, EditsOf
  <1> QED
    BY <1>3, <1>5, <1>6

LEMMA RestoresUndo ==
    ASSUME EditorInv, Viewer!Undo \/ Viewer!Redo
    PROVE  Viewer!UndoesAndRedoes
  <1>1. editor.open
    BY DEF Viewer!Undo, Viewer!Redo, Viewer!OnEditor
  <1>2. IsEditor(editor) /\ editor.index \in 1..Len(editor.history) /\ Len(editor.history) \in Nat
    BY <1>1, OpenEditors
  <1>3. ASSUME NEW k, editor' = Viewer!Restored(editor, k)
        PROVE  editor'.history = editor.history /\ editor'.index = k
    BY <1>2, <1>3 DEF Viewer!Restored, IsEditor
  <1>4. CASE Viewer!Undo
    <2>1. CASE editor.index > 1
      <3>1. editor' = Viewer!Restored(editor, editor.index - 1)
        BY <1>4, <2>1 DEF Viewer!Undo
      <3> QED
        BY <1>1, <1>3, <2>1, <3>1, BackUndoes
    <2>2. CASE ~(editor.index > 1)
      <3>1. editor' = Viewer!Restored(editor, 1) /\ editor.index = 1
        BY <1>2, <1>4, <2>2 DEF Viewer!Undo
      <3> QED
        BY <1>3, <3>1, SameStand
    <2> QED
      BY <2>1, <2>2
  <1>5. CASE Viewer!Redo
    <2>1. CASE editor.index < Len(editor.history)
      <3>1. editor' = Viewer!Restored(editor, editor.index + 1)
        BY <1>5, <2>1 DEF Viewer!Redo
      <3> QED
        BY <1>1, <1>3, <2>1, <3>1, ForthRedoes
    <2>2. CASE ~(editor.index < Len(editor.history))
      <3>1. editor' = Viewer!Restored(editor, editor.index)
        BY <1>5, <2>2 DEF Viewer!Redo
      <3> QED
        BY <1>3, <3>1, SameStand
    <2> QED
      BY <2>1, <2>2
  <1> QED
    BY <1>4, <1>5

LEMMA EditorUndoes ==
    ASSUME EditorInv, Viewer!Next
    PROVE  Viewer!UndoesAndRedoes
  <1>1. ASSUME editor' = editor PROVE Viewer!UndoesAndRedoes
    BY <1>1, SameStand
  <1>2. ASSUME ~editor'.open \/ ~editor.open PROVE Viewer!UndoesAndRedoes
    BY <1>2 DEF Viewer!UndoesAndRedoes
  <1>3. CASE Viewer!OfTheViewer
    <2>1. ASSUME NEW f, Viewer!Open(f) PROVE editor' = editor
      BY <2>1 DEF Viewer!Open
    <2>2. ASSUME NEW i, Viewer!Fetched(i) \/ Viewer!FetchFails(i) PROVE editor' = editor
      BY <2>2 DEF Viewer!Fetched, Viewer!FetchFails
    <2>3. ASSUME NEW w, Viewer!Warmed(w) PROVE editor' = editor
      BY <2>3 DEF Viewer!Warmed
    <2>4. Viewer!Close => editor' = editor
      BY DEF Viewer!Close
    <2> QED
      BY <1>1, <1>3, <2>1, <2>2, <2>3, <2>4
      DEF Viewer!OfTheViewer, Viewer!Click, Viewer!Navigate, Viewer!Filmstrip
  <1>4. CASE Viewer!OfTheFiles
    BY <1>1, <1>4 DEF Viewer!OfTheFiles, Viewer!Relist, Viewer!Delete, Viewer!Deleted, Viewer!DeleteFails
  <1>5. CASE Viewer!OfTheEditor
    <2>1. ASSUME NEW e, Viewer!OpenEditor(e) PROVE ~editor.open
      BY <2>1 DEF Viewer!OpenEditor, Viewer!OnViewer
    <2>2. CASE Viewer!Edit \/ Viewer!PasteEdits
      BY <1>2, <2>1, <2>2 DEF Viewer!Edit, Viewer!PasteEdits
    <2>3. CASE Viewer!CopyEdits \/ Viewer!Done
      BY <1>1, <2>3 DEF Viewer!CopyEdits, Viewer!Done
    <2>4. ASSUME NEW i, Viewer!Drawn(i) \/ Viewer!Written(i) \/ Viewer!SaveFails(i)
          PROVE  editor' = editor
      BY <2>4 DEF Viewer!Drawn, Viewer!Written, Viewer!SaveFails, Viewer!Only
    <2>5. ASSUME NEW i, Viewer!Saved(i) PROVE ~editor'.open
      BY <2>5 DEF Viewer!Saved, EditorInv, IsEditor
    <2>6. Viewer!Cancel => ~editor'.open
      BY DEF Viewer!Cancel, EditorInv, IsEditor
    <2>7. ASSUME NEW e, Viewer!Slide(e)
          PROVE  editor'.history = editor.history /\ editor'.index = editor.index
      BY <2>7 DEF Viewer!Slide, EditorInv, IsEditor
    <2> QED
      BY <1>1, <1>2, <1>5, <2>2, <2>3, <2>4, <2>5, <2>6, <2>7, SameStand, PushesUndo, RestoresUndo
      DEF Viewer!OfTheEditor
  <1> QED
    BY <1>3, <1>4, <1>5 DEF Viewer!Next

-----------------------------------------------------------------------------
(* The theorem about operations *)

DeedsInv ==
    /\ BrowserInv
    /\ part = "added" => AddedInv
    /\ part = "files" => ListInv

LEMMA DeedsBegin == Init => DeedsInv
  BY BrowserBegins, AddedBegins, ListBegins DEF Init, DeedsInv

LEMMA DeedsKept == DeedsInv /\ [Next]_vars => DeedsInv'
  <1> SUFFICES ASSUME DeedsInv, [Next]_vars PROVE DeedsInv'
    OBVIOUS
  <1>1. BrowserInv'
    BY BrowserKept DEF DeedsInv
  <1>2. CASE OfFiles(Files!Next)
    BY <1>1, <1>2, ListStep DEF OfFiles, DeedsInv
  <1>3. CASE OfAdded(Added!Next)
    BY <1>1, <1>3, AddedStep DEF OfAdded, DeedsInv
  <1>4. CASE OfViewer(Viewer!Next)
    BY <1>1, <1>4 DEF OfViewer, DeedsInv
  <1>5. CASE UNCHANGED vars
    <2>1. part' = part /\ UNCHANGED <<deed, deeds>> /\ UNCHANGED filesOwn /\ UNCHANGED addedOwn
      BY <1>5 DEF vars
    <2>2. AddedInv => AddedInv'
      BY <2>1 DEF addedOwn, AddedInv, AddedTyped, AddedFresh, Added!Panel
    <2>3. ListInv => ListInv'
      BY <2>1 DEF filesOwn, ListInv, ListTyped, MineIsOf, ListFresh
    <2> QED
      BY <1>1, <2>1, <2>2, <2>3 DEF DeedsInv
  <1> QED
    BY <1>2, <1>3, <1>4, <1>5 DEF Next

LEMMA DeedsStep ==
    DeedsInv /\ [Next]_vars =>
        [/\ part = "files" => Files!DeedShows
         /\ part = "viewer" => Viewer!UndoesAndRedoes]_vars
  <1> SUFFICES ASSUME DeedsInv, Next
               PROVE  /\ part = "files" => Files!DeedShows
                      /\ part = "viewer" => Viewer!UndoesAndRedoes
    OBVIOUS
  <1>1. ASSUME part = "files" PROVE Files!DeedShows
    <2>1. Files!Next /\ ListInv
      BY <1>1 DEF Next, OfFiles, OfAdded, OfViewer, DeedsInv
    <2> QED
      BY <2>1, DeedIsListed
  <1>2. ASSUME part = "viewer" PROVE Viewer!UndoesAndRedoes
    <2>1. Viewer!Next /\ EditorInv
      BY <1>2 DEF Next, OfFiles, OfAdded, OfViewer, DeedsInv, BrowserInv, ViewerInv
    <2> QED
      BY <2>1, EditorUndoes
  <1> QED
    BY <1>1, <1>2

\* Once an operation is done for certain, the part that a script added and the listing of
\* the files page are no older than what it did, whatever reads and paints were under way;
\* and the editor's history is a stack to undo and one to redo.
THEOREM DeedsStayShown == Spec => DeedsAreShown
  <1>1. Init => DeedsInv
    BY DeedsBegin
  <1>2. DeedsInv /\ [Next]_vars => DeedsInv'
    BY DeedsKept
  <1>3. DeedsInv => (part = "added" => Added!DeedShown)
    BY AddedShown DEF DeedsInv
  <1>4. DeedsInv /\ [Next]_vars =>
            [/\ part = "files" => Files!DeedShows
             /\ part = "viewer" => Viewer!UndoesAndRedoes]_vars
    BY DeedsStep
  <1> QED
    BY <1>1, <1>2, <1>3, <1>4, PTL DEF Spec, DeedsAreShown

=============================================================================
