--------------------------- MODULE Workspace_proofs ---------------------------
(***************************************************************************)
(* Theorems about the pages of the control center, for any pages the user  *)
(* may see, any sources of data and any number of clicks, forms and loads: *)
(* a page shows what is held and is the one asked for, and a form that is  *)
(* done is shown.                                                          *)
(***************************************************************************)
EXTENDS MCWorkspace, SequenceTheorems, FiniteSetTheorems, TLAPS

-----------------------------------------------------------------------------
(* Sequences *)

\* A finite set makes a sequence of its members.
LEMMA SetMakesSeq ==
    ASSUME NEW S, IsFiniteSet(S)
    PROVE  SetToSeq(S) \in Seq(S)
  <1>1. Cardinality(S) \in Nat /\ ExistsBijection(1..Cardinality(S), S)
    BY FS_CardinalityType
  <1>2. PICK f \in [1..Cardinality(S) -> S] :
            \A a, b \in 1..Cardinality(S) : f[a] = f[b] => a = b
    BY <1>1 DEF ExistsBijection, Bijection, Injection, IsInjective
  <1>3. \E g \in [1..Cardinality(S) -> S] : IsInjective(g)
    BY <1>2 DEF IsInjective
  <1>4. SetToSeq(S) \in [1..Cardinality(S) -> S]
    BY <1>3 DEF SetToSeq
  <1> QED
    BY <1>1, <1>4, SeqDef

LEMMA SeqOfLarger ==
    ASSUME NEW S, NEW T, S \subseteq T, NEW s \in Seq(S) PROVE s \in Seq(T)
  BY SeqDef

\* A change of the elements of a sequence.
LEMMA SeqChanged ==
    ASSUME NEW S, NEW T, NEW s \in Seq(S), NEW g,
           g = [i \in DOMAIN s |-> g[i]], \A i \in DOMAIN s : g[i] \in T
    PROVE  g \in Seq(T) /\ Len(g) = Len(s) /\ DOMAIN g = DOMAIN s
  <1>1. DOMAIN s = 1..Len(s) /\ Len(s) \in Nat
    BY LenProperties
  <1>2. g \in [1..Len(s) -> T]
    BY <1>1
  <1>3. g \in Seq(T)
    BY <1>1, <1>2, SeqDef
  <1>4. DOMAIN g = 1..Len(g) /\ Len(g) \in Nat
    BY <1>3, LenProperties
  <1>5. DOMAIN g = 1..Len(s)
    BY <1>2
  <1>6. Len(g) = Len(s)
    BY <1>1, <1>4, <1>5
  <1> QED
    BY <1>1, <1>3, <1>5, <1>6

\* What RemoveAt leaves: the elements before the place, and those after it moved.
LEMMA Removed ==
    ASSUME NEW S, NEW s \in Seq(S), NEW i \in DOMAIN s
    PROVE  LET r == RemoveAt(s, i) IN
           /\ r \in Seq(S)
           /\ DOMAIN s = 1..Len(s) /\ DOMAIN r = 1..Len(r)
           /\ Len(s) \in Nat /\ Len(r) = Len(s) - 1
           /\ \A j \in DOMAIN r : r[j] = IF j < i THEN s[j] ELSE s[j + 1]
  <1> DEFINE r == RemoveAt(s, i)
  <1>1. DOMAIN s = 1..Len(s) /\ Len(s) \in Nat
    BY LenProperties
  <1> DEFINE a == SubSeq(s, 1, i - 1)  b == SubSeq(s, i + 1, Len(s))
  <1>2. a \in Seq(S) /\ Len(a) = i - 1 /\ \A j \in 1..(i - 1) : a[j] = s[j]
    BY <1>1
  <1>3. b \in Seq(S) /\ Len(b) = Len(s) - i /\ \A j \in 1..(Len(s) - i) : b[j] = s[i + j]
    BY <1>1
  <1> HIDE DEF a, b, r
  <1>4. r = a \o b
    BY DEF a, b, r, RemoveAt
  <1>5. /\ r \in Seq(S) /\ Len(r) = Len(a) + Len(b)
        /\ \A j \in 1..Len(a) + Len(b) : r[j] = IF j <= Len(a) THEN a[j] ELSE b[j - Len(a)]
    <2>1. a \in Seq(S) /\ b \in Seq(S)
      BY <1>2, <1>3
    <2> QED
      BY <2>1, <1>4, ConcatProperties
  <1>6. DOMAIN r = 1..Len(r) /\ Len(r) = Len(s) - 1
    <2>1. DOMAIN r = 1..Len(r)
      BY <1>5, LenProperties
    <2> QED
      BY <1>1, <1>2, <1>3, <1>5, <2>1
  <1>7. ASSUME NEW j \in DOMAIN r PROVE r[j] = IF j < i THEN s[j] ELSE s[j + 1]
    <2>1. /\ Len(a) = i - 1 /\ Len(b) = Len(s) - i /\ i \in 1..Len(s)
          /\ Len(s) \in Nat /\ j \in 1..(Len(s) - 1)
      BY <1>1, <1>2, <1>3, <1>6
    <2>2. j \in 1..Len(a) + Len(b)
      BY <2>1
    <2>3. r[j] = IF j <= Len(a) THEN a[j] ELSE b[j - Len(a)]
      BY <1>5, <2>2
    <2>4. CASE j < i
      <3>1. j <= Len(a) /\ j \in 1..(i - 1)
        BY <2>1, <2>4
      <3> QED
        BY <1>2, <2>3, <2>4, <3>1
    <2>5. CASE ~(j < i)
      <3> DEFINE n == Len(s)  m == Len(a)
      <3>1. ~(j <= m) /\ j - m \in 1..(n - i) /\ i + (j - m) = j + 1
        <4>1. n \in Nat /\ i \in 1..n /\ j \in 1..(n - 1) /\ m = i - 1
          BY <2>1
        <4> HIDE DEF n, m
        <4>2. n \in Int /\ i \in Int /\ j \in Int /\ m \in Int
          BY <4>1
        <4>3. i <= j /\ j <= n - 1
          BY <2>5, <4>1, <4>2
        <4>4. ~(j <= m)
          BY <4>1, <4>2, <4>3
        <4>5. j - m \in 1..(n - i)
          BY <4>1, <4>2, <4>3
        <4>6. i + (j - m) = j + 1
          BY <4>1, <4>2
        <4> QED
          BY <4>4, <4>5, <4>6
      <3>2. b[j - Len(a)] = s[i + (j - Len(a))]
        BY <1>3, <3>1
      <3> QED
        BY <2>3, <2>5, <3>1, <3>2
    <2> QED
      BY <2>4, <2>5
  <1> QED
    BY <1>1, <1>5, <1>6, <1>7 DEF r

-----------------------------------------------------------------------------
(* Pages and what draws them again *)

Exempt == {"home", "hypervisor", "admin/analytics", "admin/settings"}

\* Every reply that changes what a page is drawn from draws the page again.  The
\* exempt pages are those of Painted, and the readings have their timer.
LEMMA RedrawnWherever ==
    ASSUME NEW p \in Pages \ Exempt, NEW s \in View(p) \ Overlooked(p)
    PROVE  p \in Redraws(s) /\ (s = "containers" => p \in Redraws("runtimes"))
  <1> USE DEF Redraws, loadSpaces, loadUsers, loadSmtp, loadMedia, loadBuiltinCatalog,
              loadCommunityCatalog, loadRuntimes, loadBackupJobs, loadContainers,
              loadSoftwareAndLicense, loadNetwork, loadLogs, Admin, Exempt, Overlooked
  <1>1. CASE p \in {"storage", "pools", "files", "users", "smtp", "shares", "backups",
                    "analytics", "logs"}
    BY <1>1 DEF View, storageView, poolsView, filesView, usersView, smtpView, sharesView,
                backupsView, analyticsView, logsView
  <1>2. CASE p \in {"containers", "vms", "settings", "capabilities", "network", "firewall",
                    "integrations", "apps"}
    BY <1>2 DEF View, containersView, vmsView, runtimeResourceSummary, settingsView,
                capabilitiesView, networkView, firewallView, integrationsView, moduleView
  <1>3. CASE p \notin {"storage", "pools", "files", "users", "smtp", "shares", "backups",
                       "analytics", "logs", "containers", "vms", "settings", "capabilities",
                       "network", "firewall", "integrations", "apps"}
    <2>1. View(p) = focus \cap adminView(p)
      BY <1>3 DEF View
    <2> QED
      BY <2>1 DEF adminView, adminGeneralPanel, usersView, smtpView, settingsView,
                  analyticsView, capabilitiesView, integrationsView
  <1> QED
    BY <1>1, <1>2, <1>3

\* A page the user may not see becomes one that they may.
LEMMA TargetIsVisible ==
    ASSUME NEW p PROVE Target(p) \in Visible
  BY PagesAssumption DEF Target

LEMMA PageIsDrawnFrom ==
    ASSUME NEW p PROVE View(p) \subseteq focus
  BY DEF View

-----------------------------------------------------------------------------
(* Loads *)

\* The pages that are named by a loader.
Named == {"pools", "storage", "users", "permissions", "smtp", "integrations", "media", "files",
          "apps", "containers", "vms", "backups", "settings", "network", "firewall", "logs",
          "analytics", "home"}

LoadRecord == [of : focus, force : BOOLEAN, again : SUBSET (Pages \cup Named),
               to : {Nowhere, "settings", "pools"}, mine : BOOLEAN,
               got : Nat \cup {NotLoaded, Reading, Empty}]

\* A load draws the pages of its loader again, but for one of the readings.
DrawsItsPages(l) == l.of # "overview" => Redraws(l.of) \cap Pages \subseteq l.again

\* A load no form waits for.
Free == {l \in LoadRecord : ~l.mine /\ l.to = Nowhere /\ DrawsItsPages(l)}

\* The load of the handler of the form d: what it has got is no older than the change.
Own(d) == {l \in LoadRecord :
    /\ l.mine /\ DrawsItsPages(l)
    /\ l.of = Forms(d.name).of /\ l.to = Forms(d.name).to
    /\ l.of = "runtimes" => l.force
    /\ l.got = Reading => l.of = "runtimes"
    /\ l.got \in Nat /\ ~d.shared => l.got >= d.version}

\* One load at most is a form's.
OneIsMine(ls) == \A i, j \in DOMAIN ls : ls[i].mine /\ ls[j].mine => i = j

LoadsHold ==
    /\ loads \in Seq(Free \cup Own(deed))
    /\ OneIsMine(loads)
    /\ deed.at # "loading" => loads \in Seq(Free)

LEMMA LoadIsFree ==
    ASSUME NEW s \in focus, NEW force \in BOOLEAN
    PROVE  Load(s, force, FALSE) \in Free
  <1>1. Redraws(s) \subseteq Pages \cup Named
    BY DEF Redraws, loadSpaces, loadUsers, loadSmtp, loadMedia, loadBuiltinCatalog,
           loadCommunityCatalog, loadRuntimes, loadBackupJobs, loadContainers,
           loadSoftwareAndLicense, loadNetwork, loadLogs, Admin, Named
  <1> QED
    BY <1>1 DEF Load, Free, LoadRecord, DrawsItsPages

\* Loads that draw every page, or that of the readings that draws some.
LEMMA LoadOfAllIsFree ==
    ASSUME NEW s \in focus, NEW force \in BOOLEAN
    PROVE  [Load(s, force, FALSE) EXCEPT !.again = Pages] \in Free
  BY DEF Load, Free, LoadRecord, DrawsItsPages

LEMMA ReadingsAreFree ==
    ASSUME "overview" \in focus
    PROVE  [Load("overview", FALSE, FALSE) EXCEPT !.again = autoDetectStorage] \in Free
  BY DEF Load, Free, LoadRecord, DrawsItsPages, autoDetectStorage, Named

\* What drawing a page asks for is added to the loads.
LEMMA DrawAsks ==
    ASSUME focus \in Focuses, NEW p, NEW h, NEW f, NEW rest, NEW aged, NEW loading,
           Draw(p, h, f, rest, aged, loading)
    PROVE  /\ page' = p /\ shown' = [s \in View(p) |-> h[s]]
           /\ \E more \in Seq(Free) : loads' = rest \o more
  <1> DEFINE catalog == p = "apps" /\ "community" \in focus /\ ~loading
                        /\ (aged \/ h["community"] = NotLoaded)
             asked == Asks(p, h, f) \cup (IF catalog THEN {"community"} ELSE {})
             Wanted == {Load(s, FALSE, FALSE) : s \in asked}
  <1>1. asked \subseteq focus
    BY DEF Asks
  <1>2. IsFiniteSet(asked)
    BY <1>1, FS_Subset, FocusesAssumption
  <1>3. IsFiniteSet(Wanted)
    <2> DEFINE begin == [s \in asked |-> Load(s, FALSE, FALSE)]
    <2>1. begin \in Surjection(asked, Wanted)
      BY DEF Surjection
    <2> QED
      BY <1>2, <2>1, FS_Surjection
  <1>4. Wanted \subseteq Free
    BY <1>1, LoadIsFree
  <1> HIDE DEF Wanted
  <1>5. SetToSeq(Wanted) \in Seq(Free)
    <2>1. SetToSeq(Wanted) \in Seq(Wanted)
      BY <1>3, SetMakesSeq
    <2> QED
      BY <1>4, <2>1, SeqOfLarger
  <1> QED
    BY <1>5 DEF Draw, Wanted

\* Loads that no form waits for come after those that are there.
LEMMA MoreLoads ==
    ASSUME NEW d, NEW ls \in Seq(Free \cup Own(d)), NEW more \in Seq(Free)
    PROVE  /\ ls \o more \in Seq(Free \cup Own(d))
           /\ OneIsMine(ls) => OneIsMine(ls \o more)
           /\ ls \in Seq(Free) => ls \o more \in Seq(Free)
  <1> DEFINE all == ls \o more  Kinds == Free \cup Own(d)
  <1>1. more \in Seq(Kinds)
    BY SeqOfLarger
  <1>2. /\ all \in Seq(Kinds) /\ Len(all) = Len(ls) + Len(more)
        /\ \A i \in 1..Len(ls) + Len(more) :
              all[i] = IF i <= Len(ls) THEN ls[i] ELSE more[i - Len(ls)]
    BY <1>1, ConcatProperties
  <1>3. /\ DOMAIN all = 1..Len(all) /\ DOMAIN ls = 1..Len(ls) /\ DOMAIN more = 1..Len(more)
        /\ Len(ls) \in Nat /\ Len(more) \in Nat
    BY <1>2, LenProperties
  <1>4. ASSUME NEW i \in DOMAIN all, all[i].mine PROVE i \in DOMAIN ls /\ all[i] = ls[i]
    <2>1. i \in 1..Len(ls) + Len(more)
      BY <1>2, <1>3
    <2>2. CASE i <= Len(ls)
      BY <1>2, <1>3, <2>1, <2>2
    <2>3. CASE ~(i <= Len(ls))
      <3>1. i - Len(ls) \in DOMAIN more /\ all[i] = more[i - Len(ls)]
        BY <1>2, <1>3, <2>1, <2>3
      <3>2. more[i - Len(ls)] \in Free
        BY <3>1, ElementOfSeq
      <3> QED
        BY <1>4, <3>1, <3>2 DEF Free
    <2> QED
      BY <2>2, <2>3
  <1> HIDE DEF all
  <1>5. OneIsMine(ls) => OneIsMine(all)
    BY <1>4 DEF OneIsMine
  <1>6. ls \in Seq(Free) => all \in Seq(Free)
    BY ConcatProperties DEF all
  <1> QED
    BY <1>2, <1>5, <1>6 DEF all

\* A load ends: those that are left are no form's if it was.
LEMMA OneLoadLess ==
    ASSUME NEW d, NEW ls \in Seq(Free \cup Own(d)), OneIsMine(ls), NEW i \in DOMAIN ls
    PROVE  /\ RemoveAt(ls, i) \in Seq(Free \cup Own(d))
           /\ OneIsMine(RemoveAt(ls, i))
           /\ ls[i].mine \/ ls \in Seq(Free) => RemoveAt(ls, i) \in Seq(Free)
  <1> DEFINE Kinds == Free \cup Own(d)  r == RemoveAt(ls, i)
  <1>1. /\ r \in Seq(Kinds)
        /\ DOMAIN ls = 1..Len(ls) /\ DOMAIN r = 1..Len(r)
        /\ Len(ls) \in Nat /\ Len(r) = Len(ls) - 1
        /\ \A j \in DOMAIN r : r[j] = IF j < i THEN ls[j] ELSE ls[j + 1]
    BY Removed
  <1> HIDE DEF r
  <1> DEFINE from(j) == IF j < i THEN j ELSE j + 1
  <1>2. ASSUME NEW j \in DOMAIN r
        PROVE  from(j) \in DOMAIN ls \ {i} /\ r[j] = ls[from(j)]
    BY <1>1
  <1>3. ASSUME NEW j \in DOMAIN r, NEW k \in DOMAIN r, from(j) = from(k) PROVE j = k
    <2>1. j \in Int /\ k \in Int /\ i \in Int
      BY <1>1
    <2> QED
      BY <1>3, <2>1
  <1> HIDE DEF from
  <1>4. OneIsMine(r)
    BY <1>2, <1>3 DEF OneIsMine
  <1>5. ls \in Seq(Free) => r \in Seq(Free)
    BY Removed DEF r
  <1>6. ASSUME ls[i].mine PROVE r \in Seq(Free)
    <2>1. ASSUME NEW j \in DOMAIN r PROVE r[j] \in Free
      <3>1. ~ls[from(j)].mine
        BY <1>2, <1>6, <2>1 DEF OneIsMine
      <3>2. ls[from(j)] \in Kinds
        BY <1>2, <2>1, ElementOfSeq
      <3> QED
        BY <1>2, <2>1, <3>1, <3>2 DEF Own
    <2> QED
      BY <1>1, <2>1, SeqDef
  <1> QED
    BY <1>1, <1>4, <1>5, <1>6 DEF r

\* The sets of loads do not depend on the state but through the focus and the form.
LEMMA SetsStay ==
    ASSUME focus' = focus, NEW d, deed' = d
    PROVE  Free' = Free /\ Own(deed)' = Own(d)
  BY DEF Free, Own, LoadRecord, DrawsItsPages

LEMMA NoneIsMine ==
    ASSUME NEW d, NEW ls \in Seq(Free)
    PROVE  ls \in Seq(Free \cup Own(d)) /\ OneIsMine(ls)
  <1>1. ASSUME NEW i \in DOMAIN ls PROVE ~ls[i].mine
    BY ElementOfSeq DEF Free
  <1> QED
    BY <1>1, SeqOfLarger DEF OneIsMine

\* How the loads go on: some are added,
LEMMA LoadsAdded ==
    ASSUME LoadsHold, focus' = focus, deed' = deed, NEW more \in Seq(Free), loads' = loads \o more
    PROVE  LoadsHold'
  <1>1. Free' = Free /\ Own(deed)' = Own(deed)
    BY SetsStay
  <1>2. /\ loads \o more \in Seq(Free \cup Own(deed)) /\ OneIsMine(loads \o more)
        /\ deed.at # "loading" => loads \o more \in Seq(Free)
    BY MoreLoads DEF LoadsHold
  <1> QED
    BY <1>1, <1>2 DEF LoadsHold, OneIsMine

\* or one,
LEMMA LoadAdded ==
    ASSUME LoadsHold, focus' = focus, deed' = deed, NEW l \in Free, loads' = Append(loads, l)
    PROVE  LoadsHold'
  <1>1. <<l>> \in Seq(Free)
    OBVIOUS
  <1>2. loads' = loads \o <<l>>
    BY AppendIsConcat DEF LoadsHold
  <1> QED
    BY <1>1, <1>2, LoadsAdded

\* they stay while a form does what needs none,
LEMMA LoadsStay ==
    ASSUME LoadsHold, focus' = focus, loads' = loads, deed' = deed \/ deed.at # "loading"
    PROVE  LoadsHold'
  <1>1. CASE deed' = deed
    BY <1>1, SetsStay DEF LoadsHold, OneIsMine
  <1>2. CASE deed.at # "loading"
    <2>1. PICK d : deed' = d
      OBVIOUS
    <2>2. Free' = Free /\ Own(deed)' = Own(d)
      BY <2>1, SetsStay
    <2>3. loads \in Seq(Free)
      BY <1>2 DEF LoadsHold
    <2> QED
      BY <2>2, <2>3, NoneIsMine DEF LoadsHold, OneIsMine
  <1> QED
    BY <1>1, <1>2

\* or one of them ends, with the form that waits for it, and some are added.
LEMMA LoadsFewer ==
    ASSUME LoadsHold, focus' = focus, NEW i \in DOMAIN loads, NEW more \in Seq(Free),
           loads' = RemoveAt(loads, i) \o more,
           IF loads[i].mine THEN deed'.at # "loading" ELSE deed' = deed
    PROVE  LoadsHold'
  <1> DEFINE r == RemoveAt(loads, i)
  <1>1. /\ r \in Seq(Free \cup Own(deed)) /\ OneIsMine(r)
        /\ loads[i].mine \/ loads \in Seq(Free) => r \in Seq(Free)
    BY OneLoadLess DEF LoadsHold
  <1>2. /\ r \o more \in Seq(Free \cup Own(deed)) /\ OneIsMine(r \o more)
        /\ r \in Seq(Free) => r \o more \in Seq(Free)
    BY <1>1, MoreLoads
  <1> HIDE DEF r
  <1>3. CASE loads[i].mine
    <2>1. PICK d : deed' = d
      OBVIOUS
    <2>2. Free' = Free /\ Own(deed)' = Own(d)
      BY <2>1, SetsStay
    <2>3. r \o more \in Seq(Free)
      BY <1>1, <1>2, <1>3
    <2>4. r \o more \in Seq(Free \cup Own(d)) /\ OneIsMine(r \o more)
      BY <2>3, NoneIsMine
    <2> QED
      BY <1>3, <2>1, <2>2, <2>3, <2>4 DEF LoadsHold, OneIsMine, r
  <1>4. CASE ~loads[i].mine
    <2>1. deed' = deed
      BY <1>4
    <2>2. Free' = Free /\ Own(deed)' = Own(deed)
      BY <2>1, SetsStay
    <2>3. deed.at # "loading" => r \o more \in Seq(Free)
      BY <1>1, <1>2 DEF LoadsHold
    <2> QED
      BY <1>2, <2>1, <2>2, <2>3 DEF LoadsHold, OneIsMine, r
  <1> QED
    BY <1>3, <1>4

-----------------------------------------------------------------------------
(* The invariant *)

DeedRecord == [name : Deeds \cup {"none"}, at : {"idle", "sent", "done", "loading", "shown"},
               version : Nat, shared : BOOLEAN]

Types ==
    /\ focus \in Focuses /\ InventoryType
    /\ server \in [focus \ Inventory -> Nat]
    /\ held \in [focus -> Nat \cup {NotLoaded, Empty}]
    /\ prewarm \subseteq focus /\ (poll => "community" \in focus)
    /\ page \in Visible
    /\ deed \in DeedRecord /\ deeds \in Nat
    /\ deed.at # "idle" => deed.name \in Deeds /\ Forms(deed.name).of \in focus

\* The page is drawn from what is held.
Drawn == DOMAIN shown = View(page) /\ Painted

\* Until a load of its handler has come, the server holds what a form has changed,
\* and the refresh of the inventory that is under way began later or is shared.
Fresh ==
    deed.at \in {"done", "loading"} =>
        LET s == Forms(deed.name).of IN
        IF s \in Inventory
        THEN host >= deed.version /\ (refresh \in Nat /\ ~deed.shared => refresh >= deed.version)
        ELSE server[s] >= deed.version

\* The page is that of the last click, or of a form: of the first, when there is one.
GoneTo(d) == Forms(d).to # Nowhere /\ page = Target(Forms(d).to)
Went ==
    /\ page = Target(hash) \/ \E d \in Deeds : GoneTo(d)
    /\ deeds <= 1 => page = Target(hash) \/ (deed.at = "shown" /\ GoneTo(deed.name))
    /\ deeds = 0 => deed.at = "idle"

WorkInv == Types /\ LoadsHold /\ Drawn /\ Fresh /\ Went

LEMMA DrawnAnew ==
    ASSUME focus' = focus, NEW p, page' = p, shown' = [s \in View(p) |-> held'[s]]
    PROVE  Drawn'
  <1>1. View(page)' = View(p)
    BY DEF View
  <1> QED
    BY <1>1 DEF Drawn, Painted, AwaitedIsShown, Overlooked

\* What is not drawn stays right if what the page is drawn from stays or is forgotten.
LEMMA DrawnStill ==
    ASSUME Drawn, focus' = focus, page' = page, shown' = shown,
           page \notin Exempt =>
               \A s \in View(page) \ Overlooked(page) : held'[s] = held[s] \/ held'[s] \notin Nat
    PROVE  Drawn'
  <1>1. View(page)' = View(page)
    BY DEF View
  <1> QED
    BY <1>1 DEF Drawn, Painted, AwaitedIsShown, Overlooked, Exempt

LEMMA WentStill ==
    ASSUME Went, UNCHANGED <<page, hash, deed, deeds>>
    PROVE  Went'
  BY DEF Went, GoneTo

LEMMA FreshStill ==
    ASSUME Fresh, deed' = deed, UNCHANGED <<server, inventory>>
    PROVE  Fresh'
  BY DEF Fresh, inventory

-----------------------------------------------------------------------------
(* The user *)

LEMMA ClickKeeps ==
    ASSUME WorkInv, focus' = focus, NEW p, Click(p)
    PROVE  WorkInv'
  <1> DEFINE q == Target(p)
  <1>1. PICK aged \in BOOLEAN : Draw(q, held, failed, loads, aged, cataloguing)
    BY DEF Click
  <1>2. /\ hash' = p /\ held' = held /\ deed' = deed /\ deeds' = deeds
        /\ prewarm' = prewarm /\ poll' = poll /\ UNCHANGED <<server, inventory>>
    BY DEF Click
  <1>3. /\ page' = q /\ shown' = [s \in View(q) |-> held[s]]
        /\ \E more \in Seq(Free) : loads' = loads \o more
    BY <1>1, DrawAsks DEF WorkInv, Types
  <1>4. q \in Visible
    BY TargetIsVisible
  <1>5. Types'
    BY <1>2, <1>3, <1>4 DEF WorkInv, Types, InventoryType, inventory
  <1>6. LoadsHold'
    BY <1>2, <1>3, LoadsAdded DEF WorkInv
  <1>7. Drawn'
    BY <1>2, <1>3, DrawnAnew
  <1>8. Fresh'
    BY <1>2, FreshStill DEF WorkInv
  <1>9. Went'
    BY <1>2, <1>3 DEF WorkInv, Went, Target
  <1> QED
    BY <1>5, <1>6, <1>7, <1>8, <1>9 DEF WorkInv

LEMMA SubmitKeeps ==
    ASSUME WorkInv, focus' = focus, NEW d \in Deeds, Submit(d)
    PROVE  WorkInv'
  <1>1. /\ deed.at \in {"idle", "shown"} /\ Forms(d).of \in focus
        /\ deed' = [Idle EXCEPT !.name = d, !.at = "sent"] /\ deeds' = deeds + 1
        /\ UNCHANGED <<inventory, server, hash, page, held, shown, loads, prewarm, poll>>
    BY DEF Submit, screen, catalogs
  <1>2. deed'.name = d /\ deed'.at = "sent" /\ deed' \in DeedRecord
    BY <1>1 DEF Idle, DeedRecord
  <1>3. Types'
    BY <1>1, <1>2 DEF WorkInv, Types, InventoryType, inventory
  <1>4. LoadsHold'
    BY <1>1, LoadsStay DEF WorkInv
  <1>5. Drawn'
    BY <1>1, DrawnStill DEF WorkInv
  <1>6. Fresh'
    BY <1>2 DEF Fresh
  <1>7. Went'
    <2>1. deeds \in Nat
      BY DEF WorkInv, Types
    <2>2. deeds' # 0 /\ (deeds' <= 1 => deeds = 0)
      BY <1>1, <2>1
    <2>3. deeds = 0 => page = Target(hash)
      BY DEF WorkInv, Went
    <2>4. Target(hash)' = Target(hash)
      BY <1>1 DEF Target
    <2> QED
      BY <1>1, <2>2, <2>3, <2>4 DEF WorkInv, Went, GoneTo
  <1> QED
    BY <1>3, <1>4, <1>5, <1>6, <1>7 DEF WorkInv

LEMMA DoneKeeps ==
    ASSUME WorkInv, focus' = focus, Done
    PROVE  WorkInv'
  <1> DEFINE s == Forms(deed.name).of
  <1>1. /\ deed.at = "sent" /\ s \in focus /\ deed.name \in Deeds
        /\ UNCHANGED <<hash, page, held, shown, loads, prewarm, poll, deeds>>
    BY DEF Done, screen, catalogs, bounds, WorkInv, Types
  <1>2. deed \in DeedRecord
    BY DEF WorkInv, Types
  <1>3. /\ InventoryType' /\ server' \in [focus \ Inventory -> Nat]
        /\ deed' \in DeedRecord /\ deed'.name = deed.name /\ deed'.at = "done" /\ Fresh'
    <2>1. CASE s \in Inventory
      <3>1. /\ host' = host + 1 /\ cache' = NotLoaded /\ refresh' = refresh /\ server' = server
            /\ deed' = [deed EXCEPT !.at = "done", !.version = host', !.shared = refresh # NotLoaded]
        BY <2>1 DEF Done, Changed
      <3>2. InventoryType'
        BY <3>1 DEF WorkInv, Types, InventoryType
      <3>3. /\ deed' \in DeedRecord /\ deed'.name = deed.name /\ deed'.at = "done"
            /\ deed'.version = host' /\ deed'.shared = (refresh # NotLoaded)
        BY <1>2, <3>1, <3>2 DEF DeedRecord, InventoryType
      <3>4. host' >= deed'.version
        BY <3>2, <3>3 DEF InventoryType
      <3>5. ~(refresh' \in Nat /\ ~deed'.shared)
        BY <3>1, <3>3, ValuesAssumption
      <3> QED
        BY <2>1, <3>1, <3>2, <3>3, <3>4, <3>5 DEF Fresh, WorkInv, Types
    <2>2. CASE s \notin Inventory
      <3>1. /\ UNCHANGED <<host, cache, refresh>> /\ server' = [server EXCEPT ![s] = @ + 1]
            /\ deed' = [deed EXCEPT !.at = "done", !.version = server'[s]]
        BY <2>2 DEF Done, inventory
      <3>2. server \in [focus \ Inventory -> Nat] /\ s \in focus \ Inventory
        BY <1>1, <2>2 DEF WorkInv, Types
      <3>3. server' \in [focus \ Inventory -> Nat] /\ server'[s] \in Nat
        BY <3>1, <3>2
      <3>4. /\ deed' \in DeedRecord /\ deed'.name = deed.name /\ deed'.at = "done"
            /\ deed'.version = server'[s]
        BY <1>2, <3>1, <3>3 DEF DeedRecord
      <3>5. server'[s] >= deed'.version
        BY <3>3, <3>4
      <3>6. InventoryType'
        BY <3>1 DEF WorkInv, Types, InventoryType
      <3> QED
        BY <2>2, <3>3, <3>4, <3>5, <3>6 DEF Fresh
    <2> QED
      BY <2>1, <2>2
  <1>4. Types'
    BY <1>1, <1>3 DEF WorkInv, Types
  <1>5. LoadsHold'
    BY <1>1, LoadsStay DEF WorkInv
  <1>6. Drawn'
    BY <1>1, DrawnStill DEF WorkInv
  <1>7. Went'
    BY <1>1, <1>3 DEF WorkInv, Went, GoneTo, Target
  <1> QED
    BY <1>3, <1>4, <1>5, <1>6, <1>7 DEF WorkInv

LEMMA RefusedKeeps ==
    ASSUME WorkInv, focus' = focus, Refused
    PROVE  WorkInv'
  <1>1. /\ deed.at = "sent" /\ deed' = Idle
        /\ UNCHANGED <<inventory, server, hash, page, held, shown, loads, prewarm, poll, deeds>>
    BY DEF Refused, screen, catalogs, bounds
  <1>2. deed'.at = "idle" /\ deed' \in DeedRecord
    BY <1>1 DEF Idle, DeedRecord
  <1>3. Types'
    BY <1>1, <1>2 DEF WorkInv, Types, InventoryType, inventory
  <1>4. LoadsHold'
    BY <1>1, LoadsStay DEF WorkInv
  <1>5. Drawn'
    BY <1>1, DrawnStill DEF WorkInv
  <1>6. Fresh'
    BY <1>2 DEF Fresh
  <1>7. Went'
    BY <1>1, <1>2 DEF WorkInv, Went, GoneTo, Target
  <1> QED
    BY <1>3, <1>4, <1>5, <1>6, <1>7 DEF WorkInv

\* What the forms load, and where they go.
LEMMA FormsLoad ==
    ASSUME NEW d \in Deeds
    PROVE  LET f == Forms(d) IN
           /\ f.force \in BOOLEAN /\ f.to \in {Nowhere, "settings", "pools"}
           /\ f.of = "runtimes" => f.force
           /\ f.to # Nowhere => f.of = "overview"
           /\ DrawsItsPages(Load(f.of, f.force, TRUE))
  <1>1. d \in {"user", "smtp", "space", "backupJob", "container", "app", "vm", "settings", "dataset"}
    BY DeedsAssumption
  <1> QED
    BY <1>1 DEF Forms, Form, saveUser, saveSmtp, saveSpace, saveBackupJob, createContainer,
                installApp, createVm, saveSettings, changeDataset, Nowhere, DrawsItsPages, Load

LEMMA ReloadKeeps ==
    ASSUME WorkInv, focus' = focus, Reload
    PROVE  WorkInv'
  <1> DEFINE f == Forms(deed.name)
             load == [Load(f.of, f.force, TRUE) EXCEPT !.to = f.to]
  <1>1. /\ deed.at = "done" /\ deed' = [deed EXCEPT !.at = "loading"]
        /\ UNCHANGED <<inventory, server, hash, page, held, shown, prewarm, poll, deeds>>
        /\ deed.name \in Deeds /\ f.of \in focus
    BY DEF Reload, screen, catalogs, bounds, WorkInv, Types
  <1>2. /\ f.force \in BOOLEAN /\ f.to \in {Nowhere, "settings", "pools"}
        /\ f.of = "runtimes" => f.force
        /\ f.to # Nowhere => f.of = "overview"
        /\ DrawsItsPages(Load(f.of, f.force, TRUE))
    BY <1>1, FormsLoad
  <1>3. loads' = Append(loads, load)
    BY <1>2 DEF Reload
  <1>4. /\ deed' \in DeedRecord /\ deed'.name = deed.name /\ deed'.at = "loading"
        /\ deed'.version = deed.version /\ deed'.shared = deed.shared
    BY <1>1 DEF WorkInv, Types, DeedRecord
  <1>5. load \in Own(deed)
    <2>1. Redraws(f.of) \subseteq Pages \cup Named
      BY DEF Redraws, loadSpaces, loadUsers, loadSmtp, loadMedia, loadBuiltinCatalog,
             loadCommunityCatalog, loadRuntimes, loadBackupJobs, loadContainers,
             loadSoftwareAndLicense, loadNetwork, loadLogs, Admin, Named
    <2> HIDE DEF f
    <2> QED
      BY <1>1, <1>2, <2>1, ValuesAssumption DEF Load, Own, LoadRecord, DrawsItsPages, f
  <1>6. LoadsHold'
    <2> DEFINE d == deed'  all == Append(loads, load)
    <2>1. Free' = Free /\ Own(deed)' = Own(d)
      BY SetsStay
    <2>2. Own(d) = Own(deed)
      BY <1>4 DEF Own
    <2>3. loads \in Seq(Free)
      BY <1>1 DEF WorkInv, LoadsHold
    <2>4. loads \in Seq(Free \cup Own(deed))
      BY <2>3, NoneIsMine
    <2>5. /\ all \in Seq(Free \cup Own(deed)) /\ Len(all) = Len(loads) + 1
          /\ \A i \in 1..Len(loads) : all[i] = loads[i]
      BY <1>5, <2>4, AppendProperties
    <2>6. /\ Len(loads) \in Nat /\ DOMAIN loads = 1..Len(loads) /\ DOMAIN all = 1..Len(all)
      BY <2>4, <2>5, LenProperties
    <2>7. ASSUME NEW i \in DOMAIN all, all[i].mine PROVE i = Len(loads) + 1
      <3>1. CASE i \in 1..Len(loads)
        <4>1. loads[i] \in Free
          BY <2>3, <2>6, <3>1, ElementOfSeq
        <4> QED
          BY <2>5, <2>7, <3>1, <4>1 DEF Free
      <3>2. CASE i \notin 1..Len(loads)
        BY <2>5, <2>6, <3>2
      <3> QED
        BY <3>1, <3>2
    <2> HIDE DEF all
    <2>8. OneIsMine(all)
      BY <2>7 DEF OneIsMine
    <2>9. loads' = all
      BY <1>3 DEF all
    <2> QED
      BY <1>4, <2>1, <2>2, <2>5, <2>8, <2>9 DEF LoadsHold, OneIsMine
  <1>7. Types'
    BY <1>1, <1>4 DEF WorkInv, Types, InventoryType, inventory
  <1>8. Drawn'
    BY <1>1, DrawnStill DEF WorkInv
  <1>9. Fresh'
    BY <1>1, <1>4 DEF WorkInv, Fresh, inventory
  <1>10. Went'
    BY <1>1, <1>4 DEF WorkInv, Went, GoneTo, Target
  <1> QED
    BY <1>6, <1>7, <1>8, <1>9, <1>10 DEF WorkInv

\* A load is asked for that no form waits for, and some data may be forgotten.
LEMMA AskKeeps ==
    ASSUME WorkInv, focus' = focus, NEW l \in Free, Ask(l),
           held' \in [focus -> Nat \cup {NotLoaded, Empty}],
           \A s \in focus : held'[s] = held[s] \/ held'[s] \notin Nat
    PROVE  WorkInv'
  <1>1. /\ loads' = Append(loads, l) /\ deed' = deed
        /\ UNCHANGED <<inventory, server, hash, page, shown, prewarm, poll, deeds>>
    BY DEF Ask, catalogs
  <1>2. Types'
    BY <1>1 DEF WorkInv, Types, InventoryType, inventory
  <1>3. LoadsHold'
    BY <1>1, LoadAdded DEF WorkInv
  <1>4. Drawn'
    BY <1>1, DrawnStill, PageIsDrawnFrom DEF WorkInv
  <1>5. Fresh' /\ Went'
    BY <1>1, FreshStill, WentStill DEF WorkInv
  <1> QED
    BY <1>2, <1>3, <1>4, <1>5 DEF WorkInv

LEMMA RefreshKeeps ==
    ASSUME WorkInv, focus' = focus, Refresh
    PROVE  WorkInv'
  <1>0. held \in [focus -> Nat \cup {NotLoaded, Empty}]
    BY DEF WorkInv, Types
  <1>1. CASE /\ "overview" \in focus /\ held' = held
             /\ Ask([Load("overview", FALSE, FALSE) EXCEPT !.again = Pages])
    BY <1>0, <1>1, LoadOfAllIsFree, AskKeeps
  <1>2. CASE /\ "runtimes" \in focus /\ held' = held
             /\ Ask([Load("runtimes", TRUE, FALSE) EXCEPT !.again = Pages])
    BY <1>0, <1>2, LoadOfAllIsFree, AskKeeps
  <1>3. CASE /\ "community" \in focus /\ held' = held
             /\ Ask([Load("community", TRUE, FALSE) EXCEPT !.again = Pages])
    BY <1>0, <1>3, LoadOfAllIsFree, AskKeeps
  <1>4. CASE /\ "runtimes" \in focus /\ held' = held
             /\ Ask(Load("runtimes", TRUE, FALSE))
    BY <1>0, <1>4, LoadIsFree, AskKeeps
  <1>5. CASE /\ "logs" \in focus /\ held' = [held EXCEPT !["logs"] = NotLoaded]
             /\ Ask(Load("logs", FALSE, FALSE))
    <2>1. held' \in [focus -> Nat \cup {NotLoaded, Empty}]
      BY <1>0, <1>5
    <2>2. \A s \in focus : held'[s] = held[s] \/ held'[s] \notin Nat
      BY <1>0, <1>5, ValuesAssumption
    <2> QED
      BY <1>5, <2>1, <2>2, LoadIsFree, AskKeeps
  <1> QED
    BY <1>1, <1>2, <1>3, <1>4, <1>5 DEF Refresh

LEMMA RepairKeeps ==
    ASSUME WorkInv, focus' = focus, Repair
    PROVE  WorkInv'
  <1>1. /\ held' = [s \in focus |-> IF s \in Inventory THEN NotLoaded ELSE held[s]]
        /\ UNCHANGED <<inventory, server, hash, page, shown, loads, prewarm, poll, deed, deeds>>
    BY DEF Repair, catalogs
  <1>2. Types'
    BY <1>1 DEF WorkInv, Types, InventoryType, inventory
  <1>3. LoadsHold'
    BY <1>1, LoadsStay DEF WorkInv
  <1>4. \A s \in focus : held'[s] = held[s] \/ held'[s] \notin Nat
    BY <1>1, ValuesAssumption
  <1>5. Drawn'
    BY <1>1, <1>4, DrawnStill, PageIsDrawnFrom DEF WorkInv
  <1>6. Fresh' /\ Went'
    BY <1>1, FreshStill, WentStill DEF WorkInv
  <1> QED
    BY <1>2, <1>3, <1>5, <1>6 DEF WorkInv

-----------------------------------------------------------------------------
(* Timers *)

LEMMA TimersKeep ==
    ASSUME WorkInv, focus' = focus,
           OverviewTimer \/ StorageDetected \/ Poll \/ \E s \in prewarm : Prewarm(s)
    PROVE  WorkInv'
  <1>0. held \in [focus -> Nat \cup {NotLoaded, Empty}]
    BY DEF WorkInv, Types
  <1>1. CASE OverviewTimer
    BY <1>0, <1>1, LoadOfAllIsFree, AskKeeps DEF OverviewTimer
  <1>2. CASE StorageDetected
    BY <1>0, <1>2, ReadingsAreFree, AskKeeps DEF StorageDetected
  <1>3. CASE Poll \/ \E s \in prewarm : Prewarm(s)
    <2>1. PICK s \in focus :
              /\ loads' = loads \/ loads' = Append(loads, Load(s, FALSE, FALSE))
              /\ prewarm' \subseteq prewarm /\ (poll' => poll) /\ deed' = deed
              /\ UNCHANGED <<inventory, server, hash, page, held, shown, deeds>>
      <3>1. CASE Poll
        BY <3>1 DEF Poll, screen, bounds, WorkInv, Types
      <3>2. ASSUME NEW s \in prewarm, Prewarm(s)
            PROVE  /\ s \in focus
                   /\ loads' = loads \/ loads' = Append(loads, Load(s, FALSE, FALSE))
                   /\ prewarm' \subseteq prewarm /\ (poll' => poll) /\ deed' = deed
                   /\ UNCHANGED <<inventory, server, hash, page, held, shown, deeds>>
        BY <3>2 DEF Prewarm, screen, bounds, WorkInv, Types
      <3> QED
        BY <1>3, <3>1, <3>2
    <2>2. Types'
      BY <2>1 DEF WorkInv, Types, InventoryType, inventory
    <2>3. LoadsHold'
      BY <2>1, LoadsStay, LoadAdded, LoadIsFree DEF WorkInv
    <2>4. Drawn'
      BY <2>1, DrawnStill DEF WorkInv
    <2>5. Fresh' /\ Went'
      BY <2>1, FreshStill, WentStill DEF WorkInv
    <2> QED
      BY <2>2, <2>3, <2>4, <2>5 DEF WorkInv
  <1> QED
    BY <1>1, <1>2, <1>3

-----------------------------------------------------------------------------
(* The server *)

\* Loads that have got something else: those no form waits for anything, that of the
\* form what it may get.
LEMMA LoadsGet ==
    ASSUME LoadsHold, focus' = focus, deed' = deed, loads' = [i \in DOMAIN loads |-> loads'[i]],
           \A i \in DOMAIN loads :
               \/ loads'[i] = loads[i]
               \/ \E v \in Nat \cup {NotLoaded, Reading, Empty} :
                      /\ loads'[i] = [loads[i] EXCEPT !.got = v]
                      /\ loads[i] \in Own(deed) =>
                             /\ v = Reading => loads[i].of = "runtimes"
                             /\ v \in Nat /\ ~deed.shared => v >= deed.version
    PROVE  LoadsHold'
  <1>1. Free' = Free /\ Own(deed)' = Own(deed)
    BY SetsStay
  <1>2. /\ \A i \in DOMAIN loads : loads[i] \in Free \cup Own(deed)
        /\ deed.at # "loading" => \A i \in DOMAIN loads : loads[i] \in Free
    BY ElementOfSeq DEF LoadsHold
  <1>3. ASSUME NEW i \in DOMAIN loads
        PROVE  /\ loads'[i] \in Free \cup Own(deed)
               /\ loads[i] \in Free => loads'[i] \in Free
               /\ loads'[i].mine = loads[i].mine
    <2>1. CASE loads'[i] = loads[i]
      BY <1>2, <2>1
    <2>2. ASSUME NEW v \in Nat \cup {NotLoaded, Reading, Empty},
                 loads'[i] = [loads[i] EXCEPT !.got = v],
                 loads[i] \in Own(deed) =>
                     /\ v = Reading => loads[i].of = "runtimes"
                     /\ v \in Nat /\ ~deed.shared => v >= deed.version
          PROVE  /\ loads'[i] \in Free \cup Own(deed)
                 /\ loads[i] \in Free => loads'[i] \in Free
                 /\ loads'[i].mine = loads[i].mine
      <3> DEFINE l == loads[i]  m == loads'[i]
      <3>1. l \in LoadRecord
        BY <1>2 DEF Free, Own
      <3>2. /\ m \in LoadRecord /\ m.of = l.of /\ m.force = l.force /\ m.again = l.again
            /\ m.to = l.to /\ m.mine = l.mine /\ m.got = v
        BY <2>2, <3>1 DEF LoadRecord
      <3> HIDE DEF l, m
      <3>3. l \in Free => m \in Free
        BY <3>2 DEF Free, DrawsItsPages
      <3>4. l \in Own(deed) => m \in Own(deed)
        BY <2>2, <3>2 DEF Own, DrawsItsPages, l
      <3> QED
        BY <1>2, <3>2, <3>3, <3>4 DEF l, m
    <2> QED
      BY <2>1, <2>2
  <1>4. /\ loads' \in Seq(Free \cup Own(deed)) /\ DOMAIN loads' = DOMAIN loads
        /\ deed.at # "loading" => loads' \in Seq(Free)
    <2>1. loads \in Seq(Free \cup Own(deed))
      BY DEF LoadsHold
    <2> QED
      BY <1>2, <1>3, <2>1, SeqChanged
  <1> QED
    BY <1>1, <1>3, <1>4 DEF LoadsHold, OneIsMine

LEMMA ServeKeeps ==
    ASSUME WorkInv, focus' = focus, NEW i \in DOMAIN loads, Serve(i)
    PROVE  WorkInv'
  <1> DEFINE l == loads[i]
             v == IF l.of = "runtimes" THEN IF FromCache(l.force) THEN cache ELSE Reading
                  ELSE IF l.of = "containers" THEN host
                  ELSE server[l.of]
  <1>1. /\ loads' = [loads EXCEPT ![i].got = v]
        /\ UNCHANGED <<server, hash, page, held, shown, prewarm, poll, deed, deeds>>
        /\ host' = host /\ cache' = cache /\ (refresh' = refresh \/ refresh' = Shared(refresh))
    BY DEF Serve, screen, catalogs, bounds, Asked, inventory
  <1>2. l \in Free \cup Own(deed)
    BY ElementOfSeq DEF WorkInv, LoadsHold
  <1>3. l.of \in focus
    BY <1>2 DEF Free, Own, LoadRecord
  <1>4. v \in Nat \cup {NotLoaded, Reading, Empty}
    BY <1>3 DEF WorkInv, Types, InventoryType, FromCache, Inventory
  <1>5. ASSUME l \in Own(deed)
        PROVE  /\ v = Reading => l.of = "runtimes"
               /\ v \in Nat /\ ~deed.shared => v >= deed.version
    <2>1. deed.at = "loading"
      <3>1. l \notin Free
        BY <1>5 DEF Own, Free
      <3> QED
        BY <3>1, ElementOfSeq DEF WorkInv, LoadsHold
    <2>2. l.of = Forms(deed.name).of /\ (l.of = "runtimes" => l.force)
      BY <1>5 DEF Own
    <2>3. CASE l.of = "runtimes"
      <3>1. v = Reading
        BY <2>2, <2>3 DEF FromCache
      <3> QED
        BY <2>3, <3>1, ValuesAssumption
    <2>4. CASE l.of = "containers"
      BY <2>1, <2>2, <2>4, ValuesAssumption DEF WorkInv, Types, InventoryType, Fresh, Inventory
    <2>5. CASE l.of \notin {"runtimes", "containers"}
      <3>1. v = server[l.of] /\ v \in Nat
        BY <1>3, <2>5 DEF WorkInv, Types, Inventory
      <3>2. v >= deed.version
        BY <2>1, <2>2, <2>5, <3>1 DEF WorkInv, Fresh, Inventory
      <3> QED
        BY <3>1, <3>2, ValuesAssumption
    <2> QED
      BY <2>3, <2>4, <2>5
  <1> HIDE DEF v
  <1>6. Types'
    BY <1>1 DEF WorkInv, Types, InventoryType, Shared
  <1>7. LoadsHold'
    BY <1>1, <1>4, <1>5, LoadsGet DEF WorkInv
  <1>8. Drawn'
    BY <1>1, DrawnStill DEF WorkInv
  <1>9. Fresh'
    BY <1>1, ValuesAssumption DEF WorkInv, Fresh, Shared
  <1>10. Went'
    BY <1>1, WentStill DEF WorkInv
  <1> QED
    BY <1>6, <1>7, <1>8, <1>9, <1>10 DEF WorkInv

LEMMA InventoryReadKeeps ==
    ASSUME WorkInv, focus' = focus, InventoryRead
    PROVE  WorkInv'
  <1>1. UNCHANGED <<server, hash, page, held, shown, prewarm, poll, deed, deeds>>
    BY DEF InventoryRead, screen, catalogs, bounds
  <1>2. /\ host' = host /\ InventoryType'
        /\ refresh' \in Nat => refresh' = host
    BY ValuesAssumption DEF InventoryRead, Looks, Stored, RefreshFails, WorkInv, Types, InventoryType
  <1>3. Types'
    BY <1>1, <1>2 DEF WorkInv, Types
  <1>4. LoadsHold'
    <2>1. CASE loads' = loads
      BY <1>1, <2>1, LoadsStay DEF WorkInv
    <2>2. ASSUME NEW v \in Nat \cup {Empty}, loads' = Waiting(v),
                 v \in Nat => v = refresh
          PROVE  LoadsHold'
      <3>1. ASSUME NEW i \in DOMAIN loads, loads[i] \in Own(deed), loads[i].got = Reading,
                   v \in Nat, ~deed.shared
            PROVE  v >= deed.version
        <4>1. deed.at = "loading"
          <5>1. loads[i] \notin Free
            BY <3>1 DEF Own, Free
          <5> QED
            BY <3>1, <5>1, ElementOfSeq DEF WorkInv, LoadsHold
        <4>2. Forms(deed.name).of = "runtimes"
          BY <3>1 DEF Own
        <4> QED
          BY <2>2, <3>1, <4>1, <4>2 DEF WorkInv, Fresh, Inventory
      <3>2. /\ loads' = [i \in DOMAIN loads |-> loads'[i]]
            /\ \A i \in DOMAIN loads :
                  \/ loads'[i] = loads[i]
                  \/ loads[i].got = Reading /\ loads'[i] = [loads[i] EXCEPT !.got = v]
        BY <2>2 DEF Waiting
      <3>3. v # Reading
        BY ValuesAssumption DEF Empty
      <3>4. ASSUME NEW i \in DOMAIN loads
            PROVE  \/ loads'[i] = loads[i]
                   \/ \E w \in Nat \cup {NotLoaded, Reading, Empty} :
                          /\ loads'[i] = [loads[i] EXCEPT !.got = w]
                          /\ loads[i] \in Own(deed) =>
                                 /\ w = Reading => loads[i].of = "runtimes"
                                 /\ w \in Nat /\ ~deed.shared => w >= deed.version
        BY <3>1, <3>2, <3>3
      <3> QED
        BY <1>1, <3>2, <3>4, LoadsGet DEF WorkInv
    <2> QED
      BY <2>1, <2>2 DEF InventoryRead, Stored, RefreshFails, Empty
  <1>5. Drawn'
    BY <1>1, DrawnStill DEF WorkInv
  <1>6. Fresh'
    <2>1. ASSUME deed.at \in {"done", "loading"}, Forms(deed.name).of \in Inventory
          PROVE  host >= deed.version
      BY <2>1 DEF WorkInv, Fresh
    <2> QED
      BY <1>1, <1>2, <2>1 DEF WorkInv, Fresh
  <1>7. Went'
    BY <1>1, WentStill DEF WorkInv
  <1> QED
    BY <1>3, <1>4, <1>5, <1>6, <1>7 DEF WorkInv

-----------------------------------------------------------------------------
(* Replies and failures *)

LEMMA PerhapsOne ==
    ASSUME NEW S, NEW x, NEW c, c => x \in S
    PROVE  (IF c THEN <<x>> ELSE <<>>) \in Seq(S)
  <1>1. CASE c
    BY <1>1
  <1>2. CASE ~c
    BY <1>2
  <1> QED
    BY <1>1, <1>2

\* A load ends: a page of its own is drawn from what is held then, or no page is.
LEMMA EndsDraw ==
    ASSUME WorkInv, NEW i \in DOMAIN loads, NEW h, NEW f, Ends(i, h, f)
    PROVE  LET l == loads[i]
               goes == Target(IF l.to # Nowhere THEN l.to ELSE page)
           IN  /\ held' = h
               /\ UNCHANGED <<host, cache, refresh, server, hash, prewarm, deeds>>
               /\ \/ /\ l.to # Nowhere \/ page \in l.again
                     /\ page' = goes /\ shown' = [s \in View(goes) |-> h[s]]
                  \/ /\ l.to = Nowhere /\ page \notin l.again
                     /\ page' = page /\ shown' = shown
               /\ \E more \in Seq(Free) : loads' = RemoveAt(loads, i) \o more
  <1> DEFINE l == loads[i]
             builtin == l.of = "runtimes" /\ page = "apps" /\ "builtin" \in focus /\ h["builtin"] = NotLoaded
             inventoried == l.of = "community" /\ l.force /\ "runtimes" \in focus
             one == IF builtin THEN <<Load("builtin", FALSE, FALSE)>> ELSE <<>>
             other == IF inventoried THEN <<Load("runtimes", TRUE, FALSE)>> ELSE <<>>
             some == one \o other
             left == RemoveAt(loads, i)
             rest == (left \o one) \o other
             loading == cataloguing /\ l.of # "community"
             goes == Target(IF l.to # Nowhere THEN l.to ELSE page)
  <1>1. /\ held' = h /\ UNCHANGED <<host, cache, refresh, server, hash, prewarm, deeds>>
        /\ IF l.to # Nowhere \/ page \in l.again
           THEN \E aged \in BOOLEAN : Draw(goes, h, f, rest, aged, loading)
           ELSE loads' = rest /\ UNCHANGED <<page, shown>>
    BY DEF Ends, inventory, bounds
  <1>2. one \in Seq(Free) /\ other \in Seq(Free)
    <2>1. builtin => Load("builtin", FALSE, FALSE) \in Free
      BY LoadIsFree
    <2>2. inventoried => Load("runtimes", TRUE, FALSE) \in Free
      BY LoadIsFree
    <2> HIDE DEF builtin, inventoried
    <2> QED
      BY <2>1, <2>2, PerhapsOne
  <1>3. left \in Seq(Free \cup Own(deed))
    BY OneLoadLess DEF WorkInv, LoadsHold
  <1> HIDE DEF one, other, left, loading
  <1>4. some \in Seq(Free)
    BY <1>2, ConcatProperties
  <1>5. rest = left \o some
    <2> DEFINE All == Free \cup Own(deed)
    <2>1. one \in Seq(All) /\ other \in Seq(All)
      BY <1>2, SeqOfLarger
    <2> HIDE DEF All
    <2>2. left \in Seq(All)
      BY <1>3 DEF All
    <2> QED
      BY <2>1, <2>2, ConcatAssociative
  <1> HIDE DEF some, rest
  <1>6. CASE l.to # Nowhere \/ page \in l.again
    <2>1. PICK aged \in BOOLEAN : Draw(goes, h, f, rest, aged, loading)
      BY <1>1, <1>6
    <2> HIDE DEF goes
    <2>2. /\ page' = goes /\ shown' = [s \in View(goes) |-> h[s]]
          /\ \E more \in Seq(Free) : loads' = rest \o more
      BY <2>1, DrawAsks DEF WorkInv, Types
    <2>3. PICK more \in Seq(Free) : loads' = (left \o some) \o more
      BY <1>5, <2>2
    <2>4. loads' = left \o (some \o more) /\ some \o more \in Seq(Free)
      <3> DEFINE All == Free \cup Own(deed)
      <3>1. some \in Seq(All) /\ more \in Seq(All)
        BY <1>4, SeqOfLarger
      <3>2. (left \o some) \o more = left \o (some \o more)
        BY <1>3, <3>1, ConcatAssociative
      <3>3. some \o more \in Seq(Free)
        BY <1>4, ConcatProperties
      <3> QED
        BY <2>3, <3>2, <3>3
    <2> QED
      BY <1>1, <1>6, <2>2, <2>4 DEF left, goes
  <1>7. CASE ~(l.to # Nowhere \/ page \in l.again)
    BY <1>1, <1>4, <1>7, <1>5 DEF left
  <1> QED
    BY <1>6, <1>7

\* The end of a load in which no more is held than was, or what its page is drawn from
\* anew, by the way it draws.
LEMMA EndsDrawn ==
    ASSUME WorkInv, focus' = focus, NEW i \in DOMAIN loads, NEW h, NEW f, Ends(i, h, f),
           \A s \in focus : h[s] = held[s] \/ h[s] \notin Nat \/ s = loads[i].of
                               \/ (s \in Inventory /\ loads[i].of = "runtimes")
    PROVE  Drawn' /\ page' \in Visible
  <1> DEFINE l == loads[i]
             goes == Target(IF l.to # Nowhere THEN l.to ELSE page)
  <1>1. /\ held' = h
        /\ \/ page' = goes /\ shown' = [s \in View(goes) |-> h[s]]
           \/ page \notin l.again /\ page' = page /\ shown' = shown
    BY EndsDraw
  <1>2. goes \in Visible /\ page \in Visible
    BY TargetIsVisible DEF WorkInv, Types
  <1>3. CASE page' = goes /\ shown' = [s \in View(goes) |-> h[s]]
    BY <1>1, <1>2, <1>3, DrawnAnew
  <1>4. CASE page \notin l.again /\ page' = page /\ shown' = shown
    <2>1. ASSUME page \notin Exempt, NEW s \in View(page) \ Overlooked(page)
          PROVE  h[s] = held[s] \/ h[s] \notin Nat
      <3>1. page \in Redraws(s) /\ (s = "containers" => page \in Redraws("runtimes"))
        BY <1>2, <2>1, PagesAssumption, RedrawnWherever
      <3>2. l.of # "overview" => page \notin Redraws(l.of)
        <4>1. l \in Free \cup Own(deed)
          BY ElementOfSeq DEF WorkInv, LoadsHold
        <4> QED
          BY <1>2, <1>4, <4>1, PagesAssumption DEF Free, Own, DrawsItsPages
      <3>3. s # l.of /\ ~(s \in Inventory /\ l.of = "runtimes")
        BY <2>1, <3>1, <3>2 DEF Inventory, Overlooked
      <3>4. s \in focus
        BY <2>1, PageIsDrawnFrom
      <3> QED
        BY <3>3, <3>4
    <2> QED
      BY <1>1, <1>2, <1>4, <2>1, DrawnStill DEF WorkInv
  <1> QED
    BY <1>1, <1>3, <1>4

\* Only the load of a form goes to a page, and while it waits.
LEMMA WhoGoes ==
    ASSUME WorkInv, NEW i \in DOMAIN loads
    PROVE  LET l == loads[i] IN
           /\ l \in LoadRecord
           /\ ~l.mine => l.to = Nowhere
           /\ l.mine => /\ l \in Own(deed) /\ deed.at = "loading" /\ deed.name \in Deeds
                        /\ l.of = Forms(deed.name).of /\ l.to = Forms(deed.name).to
                        /\ l.to # Nowhere => l.of = "overview"
  <1> DEFINE l == loads[i]
  <1>1. l \in Free \cup Own(deed) /\ (deed.at # "loading" => l \in Free)
    BY ElementOfSeq DEF WorkInv, LoadsHold
  <1>2. l.mine => l \in Own(deed) /\ deed.at = "loading"
    BY <1>1 DEF Free
  <1>3. l.mine => deed.name \in Deeds
    BY <1>2 DEF WorkInv, Types
  <1> QED
    BY <1>1, <1>2, <1>3, FormsLoad DEF Free, Own

\* The page a load goes to is the one of its form; else it stays.
LEMMA EndsWent ==
    ASSUME WorkInv, focus' = focus, NEW i \in DOMAIN loads, NEW h, NEW f, Ends(i, h, f),
           deed' = IF loads[i].mine THEN [deed EXCEPT !.at = "shown"] ELSE deed
    PROVE  Went'
  <1> DEFINE l == loads[i]
  <1>1. /\ hash' = hash /\ deeds' = deeds
        /\ page' = page \/ page' = Target(IF l.to # Nowhere THEN l.to ELSE page)
    BY EndsDraw
  <1>2. Target(page) = page
    BY DEF WorkInv, Types, Target
  <1>3. CASE l.mine
    <2>1. /\ deed.at = "loading" /\ deed.name \in Deeds /\ l.to = Forms(deed.name).to
      BY <1>3, WhoGoes
    <2>2. deed' = [deed EXCEPT !.at = "shown"]
      BY <1>3
    <2>3. deed'.at = "shown" /\ deed'.name = deed.name
      BY <2>2 DEF WorkInv, Types, DeedRecord
    <2>4. page' = page \/ GoneTo(deed.name)'
      BY <1>1, <1>2, <2>1, <2>3 DEF GoneTo, Target
    <2> QED
      BY <1>1, <2>1, <2>3, <2>4 DEF WorkInv, Went, GoneTo, Target
  <1>4. CASE ~l.mine
    <2>1. deed' = deed /\ l.to = Nowhere
      BY <1>4, WhoGoes
    <2>2. page' = page
      BY <1>1, <1>2, <2>1
    <2> QED
      BY <1>1, <2>1, <2>2, WentStill DEF WorkInv
  <1> QED
    BY <1>3, <1>4

LEMMA ReplyKeeps ==
    ASSUME WorkInv, focus' = focus, NEW i \in DOMAIN loads, Reply(i)
    PROVE  WorkInv'
  <1> DEFINE l == loads[i]  h == Received(l)
  <1>1. /\ l.got \in Nat /\ Ends(i, h, failed \ {l.of})
        /\ deed' = IF l.mine THEN [deed EXCEPT !.at = "shown"] ELSE deed
        /\ poll' = poll \/ l.of = "community"
    BY DEF Reply
  <1>2. l \in LoadRecord
    BY WhoGoes
  <1>3. h \in [focus -> Nat \cup {NotLoaded, Empty}]
    BY <1>1, <1>2 DEF Received, WorkInv, Types
  <1>4. \A s \in focus : h[s] = held[s] \/ s = l.of \/ (s \in Inventory /\ l.of = "runtimes")
    BY DEF Received
  <1> HIDE DEF h
  <1>5. /\ held' = h /\ UNCHANGED <<host, cache, refresh, server, prewarm, deeds>>
        /\ \E more \in Seq(Free) : loads' = RemoveAt(loads, i) \o more
    BY <1>1, EndsDraw
  <1>6. Drawn' /\ page' \in Visible
    BY <1>1, <1>4, EndsDrawn
  <1>7. /\ deed' \in DeedRecord /\ deed'.name = deed.name
        /\ l.mine => deed'.at = "shown" /\ deed.at = "loading"
        /\ ~l.mine => deed' = deed
    BY <1>1, WhoGoes DEF WorkInv, Types, DeedRecord
  <1>8. Types'
    <2>1. poll' => "community" \in focus
      BY <1>1, <1>2 DEF WorkInv, Types, LoadRecord
    <2>2. deed'.at # "idle" => deed.at # "idle"
      BY <1>7
    <2> QED
      BY <1>3, <1>5, <1>6, <1>7, <2>1, <2>2 DEF WorkInv, Types, InventoryType
  <1>9. LoadsHold'
    <2>1. IF l.mine THEN deed'.at # "loading" ELSE deed' = deed
      BY <1>7
    <2> QED
      BY <1>5, <2>1, LoadsFewer DEF WorkInv
  <1>10. Fresh'
    BY <1>5, <1>7 DEF WorkInv, Fresh
  <1>11. Went'
    BY <1>1, EndsWent
  <1> QED
    BY <1>6, <1>8, <1>9, <1>10, <1>11 DEF WorkInv

LEMMA FailKeeps ==
    ASSUME WorkInv, focus' = focus, NEW i \in DOMAIN loads, Fail(i)
    PROVE  WorkInv'
  <1> DEFINE l == loads[i]
             lost == l.of \in Emptied \/ (l.of = "community" /\ held[l.of] = NotLoaded)
             drawn == l.of \in Inventory \cup {"backupJobs", "community"}
             h == IF lost THEN [held EXCEPT ![l.of] = Empty] ELSE held
             f == IF l.of \in Inventory THEN failed \cup {l.of} ELSE failed
  <1>1. /\ IF drawn THEN Ends(i, h, f)
           ELSE /\ held' = h /\ loads' = RemoveAt(loads, i)
                /\ UNCHANGED <<host, cache, refresh, server, hash, page, shown, prewarm, deeds>>
        /\ poll' = (poll \/ l.of = "community")
        /\ deed' = IF l.mine THEN Idle ELSE deed
    BY DEF Fail, inventory, bounds
  <1>2. l \in LoadRecord
    BY WhoGoes
  <1>3. h \in [focus -> Nat \cup {NotLoaded, Empty}]
    BY <1>2 DEF LoadRecord, WorkInv, Types
  <1>4. \A s \in focus : h[s] = held[s] \/ h[s] \notin Nat
    BY DEF WorkInv, Types, Empty
  <1>5. l.to = Nowhere \/ ~drawn
    BY WhoGoes DEF Inventory
  <1> HIDE DEF h, f
  <1>6. /\ held' = h /\ UNCHANGED <<host, cache, refresh, server, hash, prewarm, deeds>>
        /\ \E more \in Seq(Free) : loads' = RemoveAt(loads, i) \o more
        /\ page' = page
        /\ Drawn'
    <2>1. CASE drawn
      <3>1. Ends(i, h, f)
        BY <1>1, <2>1
      <3>2. Target(page) = page
        BY DEF WorkInv, Types, Target
      <3>3. /\ held' = h /\ UNCHANGED <<host, cache, refresh, server, hash, prewarm, deeds>>
            /\ \E more \in Seq(Free) : loads' = RemoveAt(loads, i) \o more
            /\ page' = page
        BY <1>5, <2>1, <3>1, <3>2, EndsDraw
      <3>4. Drawn'
        BY <1>4, <3>1, EndsDrawn
      <3> QED
        BY <3>3, <3>4
    <2>2. CASE ~drawn
      <3>1. /\ held' = h /\ loads' = RemoveAt(loads, i)
            /\ UNCHANGED <<host, cache, refresh, server, hash, page, shown, prewarm, deeds>>
        BY <1>1, <2>2
      <3>2. loads' = RemoveAt(loads, i) \o <<>> /\ <<>> \in Seq(Free)
        <4> DEFINE r == RemoveAt(loads, i)
        <4>1. r \in Seq(Free \cup Own(deed))
          BY OneLoadLess DEF WorkInv, LoadsHold
        <4> HIDE DEF r
        <4>2. r \o <<>> = r
          BY <4>1, ConcatEmptySeq
        <4>3. <<>> \in Seq(Free)
          BY EmptySeq
        <4> QED
          BY <3>1, <4>2, <4>3 DEF r
      <3>3. Drawn'
        BY <1>4, <3>1, DrawnStill, PageIsDrawnFrom DEF WorkInv
      <3> QED
        BY <3>1, <3>2, <3>3
    <2> QED
      BY <2>1, <2>2
  <1>7. /\ deed' \in DeedRecord
        /\ l.mine => deed'.at = "idle" /\ deed.at = "loading"
        /\ ~l.mine => deed' = deed
    BY <1>1, WhoGoes DEF WorkInv, Types, DeedRecord, Idle
  <1>8. Types'
    <2>1. poll' => "community" \in focus
      BY <1>1, <1>2 DEF WorkInv, Types, LoadRecord
    <2>2. page' \in Visible
      BY <1>6 DEF WorkInv, Types
    <2> QED
      BY <1>3, <1>6, <1>7, <2>1, <2>2 DEF WorkInv, Types, InventoryType
  <1>9. LoadsHold'
    <2>1. IF l.mine THEN deed'.at # "loading" ELSE deed' = deed
      BY <1>7
    <2> QED
      BY <1>6, <2>1, LoadsFewer DEF WorkInv
  <1>10. Fresh'
    BY <1>6, <1>7 DEF WorkInv, Fresh
  <1>11. Went'
    <2>1. CASE l.mine
      BY <1>6, <1>7, <2>1 DEF WorkInv, Went, GoneTo, Target
    <2>2. CASE ~l.mine
      BY <1>6, <1>7, <2>2, WentStill DEF WorkInv
    <2> QED
      BY <2>1, <2>2
  <1> QED
    BY <1>6, <1>8, <1>9, <1>10, <1>11 DEF WorkInv

-----------------------------------------------------------------------------
(* The theorems *)

LEMMA InitHolds ==
    ASSUME Init PROVE WorkInv
  <1> DEFINE wanted == {s \in focus : page \in AskedFor(s)} \cup (IF cataloguing THEN {"community"} ELSE {})
             Wanted == {Load(s, FALSE, FALSE) : s \in wanted}
  <1>1. /\ focus \in Focuses /\ wanted \subseteq focus
        /\ deed = Idle /\ deeds = 0 /\ page = Target(hash)
    BY DEF Init
  <1>2. loads \in Seq(Free)
    <2>1. IsFiniteSet(wanted)
      BY <1>1, FS_Subset, FocusesAssumption
    <2>2. IsFiniteSet(Wanted)
      <3> DEFINE begin == [s \in wanted |-> Load(s, FALSE, FALSE)]
      <3>1. begin \in Surjection(wanted, Wanted)
        BY DEF Surjection
      <3> QED
        BY <2>1, <3>1, FS_Surjection
    <2>3. Wanted \subseteq Free
      BY <1>1, LoadIsFree
    <2>4. loads = SetToSeq(Wanted)
      BY DEF Init
    <2> HIDE DEF Wanted
    <2>5. loads \in Seq(Wanted)
      BY <2>2, <2>4, SetMakesSeq
    <2> QED
      BY <2>3, <2>5, SeqOfLarger
  <1>3. LoadsHold
    BY <1>2, NoneIsMine DEF LoadsHold
  <1>4. Types
    <2>1. page \in Visible
      BY <1>1, TargetIsVisible
    <2>2. deed \in DeedRecord /\ deed.at = "idle"
      BY <1>1 DEF Idle, DeedRecord
    <2>3. InventoryType
      BY DEF Init, InventoryInit, InventoryType
    <2>4. server \in [focus \ Inventory -> Nat] /\ held \in [focus -> Nat \cup {NotLoaded, Empty}]
      BY DEF Init
    <2>5. prewarm \subseteq focus /\ poll = FALSE
      BY DEF Init
    <2> HIDE DEF wanted
    <2> QED
      BY <1>1, <2>1, <2>2, <2>3, <2>4, <2>5 DEF Types
  <1>5. Drawn
    BY PageIsDrawnFrom DEF Init, Drawn, Painted, AwaitedIsShown
  <1>6. Fresh /\ Went
    BY <1>1 DEF Fresh, Went, Idle
  <1> QED
    BY <1>3, <1>4, <1>5, <1>6 DEF WorkInv

LEMMA StepKeeps ==
    ASSUME WorkInv, [Next]_vars PROVE WorkInv'
  <1>1. CASE UNCHANGED vars
    <2>1. /\ focus' = focus /\ loads' = loads /\ deed' = deed
          /\ UNCHANGED <<inventory, server, hash, page, held, shown, prewarm, poll, deeds>>
      BY <1>1 DEF vars, screen, catalogs, bounds
    <2>2. Types'
      BY <2>1 DEF WorkInv, Types, InventoryType, inventory
    <2>3. LoadsHold' /\ Drawn' /\ Fresh' /\ Went'
      BY <2>1, LoadsStay, DrawnStill, FreshStill, WentStill DEF WorkInv
    <2> QED
      BY <2>2, <2>3 DEF WorkInv
  <1>2. CASE Step /\ focus' = focus
    <2>1. ASSUME NEW s \in focus, Progress(s) PROVE WorkInv'
      BY <1>2, <2>1, ServeKeeps, ReplyKeeps, FailKeeps DEF Progress
    <2> QED
      BY <1>2, <2>1, ClickKeeps, SubmitKeeps, DoneKeeps, RefusedKeeps, ReloadKeeps,
         RefreshKeeps, RepairKeeps, TimersKeep, InventoryReadKeeps DEF Step
  <1> QED
    BY <1>1, <1>2 DEF Next

THEOREM WorkInvariance == Spec => []WorkInv
  BY InitHolds, StepKeeps, PTL DEF Spec

\* A page shows what is held of what it is drawn from, and is the one the user asked for
\* last, or that of a form that goes to one: PageIsRight of the run.
THEOREM PagesStayRight == Spec => []PageIsRight
  <1>1. WorkInv => PageIsRight
    <2> SUFFICES ASSUME WorkInv PROVE StaysThere
      BY DEF WorkInv, Drawn, PageIsRight
    <2>1. CASE page = Target(hash)
      BY <2>1 DEF StaysThere
    <2>2. CASE page # Target(hash)
      <3>1. CASE deeds <= 1
        <4>1. deed.at = "shown" /\ GoneTo(deed.name)
          BY <2>2, <3>1 DEF WorkInv, Went
        <4>2. deed.name \in Deeds
          BY <4>1 DEF WorkInv, Types
        <4> QED
          BY <4>1, <4>2 DEF StaysThere, GoneTo
      <3>2. CASE ~(deeds <= 1)
        BY <2>2, <3>2 DEF WorkInv, Went, StaysThere, GoneTo
      <3> QED
        BY <3>1, <3>2
    <2> QED
      BY <2>1, <2>2
  <1> QED
    BY <1>1, WorkInvariance, PTL

\* The reply a handler waits for is what is held then, and drawn if its page is shown.
LEMMA ReplyShows ==
    ASSUME WorkInv, NEW i \in DOMAIN loads, Reply(i), loads[i].mine
    PROVE  Shows
  <1> DEFINE l == loads[i]  h == Received(l)  s == Forms(deed.name).of
  <1>1. l.got \in Nat /\ Ends(i, h, failed \ {l.of})
    BY DEF Reply
  <1>2. l \in Own(deed) /\ l.of = s /\ l.to = Forms(deed.name).to /\ s \in focus /\ l \in LoadRecord
    BY WhoGoes DEF WorkInv, Types
  <1>3. ~deed.shared => l.got >= deed.version
    BY <1>1, <1>2 DEF Own
  <1>4. h[s] = l.got
    BY <1>2 DEF Received
  <1> DEFINE goes == Target(IF l.to # Nowhere THEN l.to ELSE page)
  <1> HIDE DEF h
  <1>5. /\ held' = h
        /\ \/ page' = goes /\ shown' = [t \in View(goes) |-> h[t]]
           \/ page \notin l.again /\ page' = page /\ shown' = shown
    BY <1>1, EndsDraw
  <1>6. ASSUME page \notin l.again, page' = page PROVE page' \notin Redraws(s)
    <2>1. page \in Pages
      BY PagesAssumption DEF WorkInv, Types
    <2>2. CASE s = "overview"
      BY <2>2 DEF Redraws
    <2>3. CASE s # "overview"
      BY <1>2, <1>6, <2>1, <2>3 DEF Own, DrawsItsPages
    <2> QED
      BY <2>2, <2>3
  <1>7. s \in DOMAIN shown' /\ page' \in Redraws(s) => shown'[s] = h[s]
    BY <1>5, <1>6
  <1> QED
    BY <1>3, <1>4, <1>5, <1>7 DEF Shows

LEMMA OnlyRepliesShow ==
    ASSUME WorkInv, Next, deed.at = "loading", deed'.at = "shown"
    PROVE  \E i \in DOMAIN loads : Reply(i) /\ loads[i].mine
  <1>0. deed' # deed /\ deed \in DeedRecord
    BY DEF WorkInv, Types
  <1>1. ASSUME NEW s \in focus, Progress(s)
        PROVE  \E i \in DOMAIN loads : Reply(i) /\ loads[i].mine
    <2>1. PICK i \in DOMAIN loads : Serve(i) \/ Reply(i) \/ Fail(i)
      BY <1>1 DEF Progress
    <2>2. ~Serve(i)
      BY <1>0 DEF Serve
    <2>3. ~Fail(i)
      BY <1>0 DEF Fail, Idle
    <2>4. Reply(i) => loads[i].mine
      BY <1>0 DEF Reply
    <2> QED
      BY <2>1, <2>2, <2>3, <2>4
  <1>2. ~\E s \in prewarm : Prewarm(s)
    BY <1>0 DEF Prewarm
  <1>3. ~(OverviewTimer \/ StorageDetected \/ Poll \/ InventoryRead)
    BY <1>0 DEF OverviewTimer, StorageDetected, Poll, InventoryRead, Ask
  <1>4. ~(Done \/ Refused \/ Reload \/ Refresh \/ Repair)
    BY <1>0 DEF Done, Refused, Reload, Refresh, Repair, Ask
  <1>5. (~\E p \in Pages : Click(p)) /\ (~\E d \in Deeds : Submit(d))
    BY <1>0 DEF Click, Submit
  <1> QED
    BY <1>1, <1>2, <1>3, <1>4, <1>5 DEF Next, Step

\* When the handler of a form is done, what is held is no older than the change it made,
\* and so is what its page shows: DeedShown, for any number of loads at a time.
THEOREM DeedsDoShow == Spec => DeedShown
  <1>1. WorkInv /\ [Next]_vars => [Shows]_vars
    <2> SUFFICES ASSUME WorkInv, Next PROVE Shows
      OBVIOUS
    <2>1. CASE deed.at = "loading" /\ deed'.at = "shown"
      BY <2>1, OnlyRepliesShow, ReplyShows
    <2>2. CASE ~(deed.at = "loading" /\ deed'.at = "shown")
      BY <2>2 DEF Shows
    <2> QED
      BY <2>1, <2>2
  <1> QED
    BY <1>1, WorkInvariance, PTL DEF Spec, DeedShown

=============================================================================
