------------------------------ MODULE Workspace ------------------------------
(***************************************************************************)
(* The pages of the browser's control center, public/app.js.  The pages    *)
(* are drawn from data fetched earlier: render() draws what is held and    *)
(* asks for what a page lacks, each loader stores its reply and draws      *)
(* again if the page is one of its own, the handlers of forms and buttons  *)
(* change something on the server and load again.  Nothing cancels a load, *)
(* and the user goes elsewhere meanwhile.                                  *)
(*                                                                         *)
(* Data is one version number per source.  A page of the admin center is   *)
(* named with its section.  The listings of the files page are FilesPage.  *)
(***************************************************************************)
EXTENDS InventoryCache, Integers, Sequences, SequencesExt, FiniteSets

CONSTANTS
    Focuses,    \* bound: sets of sources; a behaviour is about the data of one of them
    Pages,      \* the pages
    Visible,    \* those canView() grants the user
    Starts,     \* bound: those the user may be on when a behaviour begins
    Deeds,      \* what the user does: names of forms and buttons below
    MaxClicks,  \* bound: how often the user goes to another page
    MaxDeeds,   \* bound: forms submitted
    MaxLoads    \* bound: loads in flight when one more begins but for a page's (see Draw)

ASSUME PagesAssumption ==
    /\ Visible \subseteq Pages /\ Visible \cap {"home", "files"} # {}
    /\ Starts \subseteq Pages
ASSUME DeedsAssumption == Deeds \subseteq {
    "user", "smtp", "space", "backupJob", "container", "app", "vm", "settings", "dataset"}
ASSUME FocusesAssumption == \A f \in Focuses : IsFiniteSet(f)
ASSUME ValuesAssumption == NotLoaded # Reading /\ {NotLoaded, Reading} \cap (Nat \cup {-1}) = {}
ASSUME BoundsAssumption == {MaxClicks, MaxDeeds, MaxLoads} \subseteq Nat

VARIABLES
    focus,      \* the sources this behaviour is about
    server,     \* what the server holds of each source but the inventory
    hash,       \* location.hash: where the user went last
    page,       \* state.view, with state.adminSection
    held,       \* state.overview, state.users, ...
    shown,      \* what the page was drawn from
    failed,     \* runtimeError, containerError
    loads,      \* loads in flight, oldest first
    prewarm,    \* timers of showConsole() that are still to fire
    cataloguing,\* state.communityCatalogLoading
    poll,       \* communityCatalogPollTimer is set
    deed,       \* the form or button at work
    clicks, deeds

screen == <<hash, page, held, shown, failed>>
catalogs == <<cataloguing, poll>>
bounds == <<clicks, deeds>>
vars == <<focus, inventory, server, screen, loads, prewarm, catalogs, deed, bounds>>

Admin == {p \in Pages : p \in {"admin/general", "admin/users", "admin/permissions", "admin/smtp",
            "admin/settings", "admin/analytics", "admin/capabilities", "admin/integrations"}}
Inventory == {"runtimes", "containers"}
Empty == -1     \* an empty list put in place of data that could not be loaded
Nowhere == "nowhere"

-----------------------------------------------------------------------------
(* What each page is drawn from *)

overviewComputeInventory == {"runtimes", "containers"}
homeView == {"overview"} \cup overviewComputeInventory
hypervisorInventoryRows == {"runtimes", "containers"}
hypervisorView == {"overview", "network", "logs"} \cup hypervisorInventoryRows
storageView == {"spaces"}
poolsView == {"overview"}
usersView == {"overview", "users"}
smtpView == {"smtp"}
runtimeResourceSummary == {"overview"}
containersView == {"runtimes", "containers"} \cup runtimeResourceSummary
vmsView == {"runtimes"} \cup runtimeResourceSummary
sharesView == {"overview"}
filesView == {"overview", "media"}
capabilitiesView == {"overview"}
settingsView == {"overview", "software"}
adminGeneralPanel == {"overview", "users", "network"}
moduleView == {"overview", "runtimes", "builtin", "community"}
networkView == {"network"}
firewallView == {"network"}
integrationsView == {"overview", "runtimes", "containers", "smtp"}
backupsView == {"overview", "logs", "backupJobs"}
analyticsView == {"overview", "logs"}
logsView == {"logs"}

\* The embedded views of adminView().
adminView(p) ==
    CASE p = "admin/general"      -> adminGeneralPanel
      [] p = "admin/users"        -> usersView
      [] p = "admin/smtp"         -> smtpView
      [] p = "admin/settings"     -> settingsView
      [] p = "admin/analytics"    -> analyticsView
      [] p = "admin/capabilities" -> capabilitiesView
      [] p = "admin/integrations" -> integrationsView
      [] OTHER                    -> {}

\* The dispatch of render(); "permissions", "shell", "ai" and "kubernetes" show
\* nothing that is loaded here.
View(p) ==
    focus \cap
    CASE p = "home"         -> homeView
      [] p = "hypervisor"   -> hypervisorView
      [] p = "storage"      -> storageView
      [] p = "pools"        -> poolsView
      [] p = "files"        -> filesView
      [] p = "users"        -> usersView
      [] p = "smtp"         -> smtpView
      [] p = "shares"       -> sharesView
      [] p = "backups"      -> backupsView
      [] p = "analytics"    -> analyticsView
      [] p = "logs"         -> logsView
      [] p = "containers"   -> containersView
      [] p = "vms"          -> vmsView
      [] p = "settings"     -> settingsView
      [] p = "capabilities" -> capabilitiesView
      [] p = "network"      -> networkView
      [] p = "firewall"     -> firewallView
      [] p = "integrations" -> integrationsView
      [] p = "apps"         -> moduleView
      [] OTHER              -> adminView(p)

-----------------------------------------------------------------------------
(* The loaders, each by the pages its reply draws again *)

loadSpaces == {"pools", "storage"}
loadUsers == {"users", "permissions"} \cup Admin
loadSmtp == {"smtp", "integrations"} \cup Admin
loadMedia == {"media", "files"}
loadBuiltinCatalog == {"apps"}
loadCommunityCatalog == {"apps"}

\* Variant: written before the integrations page read the inventory.
loadRuntimesWithoutIntegrations == {"apps", "containers", "vms"} \cup Admin

loadRuntimes == {"apps", "containers", "vms", "integrations"} \cup Admin
loadBackupJobs == {"backups"}
loadContainers == {"containers"}
loadSoftwareAndLicense == {"settings"}
loadNetwork == {"network", "firewall"} \cup Admin
loadLogs == {"logs", "backups", "analytics"}
autoDetectStorage == {"home", "storage", "pools"}

Redraws(s) ==
    CASE s = "spaces"     -> loadSpaces
      [] s = "users"      -> loadUsers
      [] s = "smtp"       -> loadSmtp
      [] s = "media"      -> loadMedia
      [] s = "builtin"    -> loadBuiltinCatalog
      [] s = "community"  -> loadCommunityCatalog
      [] s = "runtimes"   -> loadRuntimes
      [] s = "backupJobs" -> loadBackupJobs
      [] s = "containers" -> loadContainers
      [] s = "software"   -> loadSoftwareAndLicense
      [] s = "network"    -> loadNetwork
      [] s = "logs"       -> loadLogs
      [] OTHER            -> {}

\* The pages for which render() asks for a source that is missing.
AskedFor(s) ==
    CASE s = "spaces"     -> {"pools", "storage"}
      [] s = "users"      -> {"users", "permissions"} \cup Admin
      [] s = "smtp"       -> {"smtp", "integrations", "admin/smtp", "admin/integrations"}
      [] s = "media"      -> {"files"}
      [] s = "network"    -> {"network", "firewall"} \cup Admin
      [] s = "logs"       -> {"logs", "backups", "analytics", "admin/analytics"}
      [] s = "backupJobs" -> {"backups"}
      [] s = "software"   -> {"settings", "admin/settings"}
      [] s = "containers" -> {"containers"}
      [] s = "runtimes"   -> {"home", "hypervisor", "apps", "ai", "vms", "integrations",
                              "containers", "admin/integrations"}
      [] OTHER            -> {}

\* Variant: loadBackupJobs() draws its page whatever page the user is on.
LoadAndGo(s, force, mine) ==
    [of |-> s, force |-> force, again |-> Redraws(s), mine |-> mine, got |-> NotLoaded,
     to |-> IF s = "backupJobs" THEN "backups" ELSE Nowhere]

\* A load: of a source, forced past the caches or not; it draws the pages in
\* "again" if one of them is on the screen, or goes to the page "to".
Load(s, force, mine) ==
    [of |-> s, force |-> force, again |-> Redraws(s), to |-> Nowhere, mine |-> mine, got |-> NotLoaded]

\* runtimeLoadPromise is set while an unforced load is in flight.
RuntimesLoading == \E i \in DOMAIN loads : loads[i].of = "runtimes" /\ ~loads[i].force

Roomy == Len(loads) < MaxLoads

\* What render(p) asks for, the holdings being h and the errors f.  The load
\* whose reply is being drawn counts as in flight.
Asks(p, h, f) ==
    {s \in focus \ f : /\ p \in AskedFor(s)
                       /\ h[s] = NotLoaded
                       /\ s = "runtimes" => ~RuntimesLoading}

\* render(p), which finds the loads "rest"; "aged" is whether the community
\* catalog is more than 15 seconds old, "loading" whether it is being loaded.
Draw(p, h, f, rest, aged, loading) ==
    LET catalog == p = "apps" /\ "community" \in focus /\ ~loading
                   /\ (aged \/ h["community"] = NotLoaded)
        asked == Asks(p, h, f) \cup (IF catalog THEN {"community"} ELSE {})
        more == SetToSeq({Load(s, FALSE, FALSE) : s \in asked})
    IN  /\ Len(rest) + Len(more) <= MaxLoads + 3
        /\ page' = p
        /\ shown' = [s \in View(p) |-> h[s]]
        /\ loads' = rest \o more
        /\ cataloguing' = (loading \/ catalog)

\* canView(): a page the user may not see becomes another.
Target(p) ==
    IF p \in Visible THEN p ELSE IF "home" \in Visible THEN "home" ELSE "files"

-----------------------------------------------------------------------------
(* The user *)

\* Bound: the pages that have to do with the data, and one that has not.
Places == {p \in Pages : p = "shares" \/ View(p) # {} \/ \E s \in focus : p \in AskedFor(s)}

\* A link, the address bar, or a section of the admin center.
Click(p) ==
    /\ clicks < MaxClicks
    /\ p \in Places
    /\ hash' = p
    /\ Roomy
    /\ \E aged \in BOOLEAN : Draw(Target(p), held, failed, loads, aged, cataloguing)
    /\ clicks' = clicks + 1
    /\ UNCHANGED <<inventory, server, held, failed, prewarm, poll, deed, deeds>>

\* Forms and buttons: where they are, what they change, and how their handler
\* shows it: by a load of a source or by going to a page.
Form(on, of, force, to) == [on |-> on, of |-> of, force |-> force, to |-> to]
saveUser == Form({"users", "admin/users"}, "users", FALSE, Nowhere)
saveSmtp == Form({"smtp", "admin/smtp"}, "smtp", FALSE, Nowhere)
saveSpace == Form({"storage"}, "spaces", FALSE, Nowhere)
saveBackupJob == Form({"backups"}, "backupJobs", FALSE, Nowhere)
createContainer == Form({"containers"}, "containers", FALSE, Nowhere)

\* Variant: the inventory is not forced, so the load in flight serves.
installAppUnforced == Form({"apps"}, "runtimes", FALSE, Nowhere)

installApp == Form({"apps"}, "runtimes", TRUE, Nowhere)
createVm == Form({"vms"}, "runtimes", TRUE, Nowhere)
saveSettings == Form({"settings", "admin/settings"}, "overview", FALSE, "settings")
changeDataset == Form({"pools"}, "overview", FALSE, "pools")

Forms(d) ==
    CASE d = "user"      -> saveUser
      [] d = "smtp"      -> saveSmtp
      [] d = "space"     -> saveSpace
      [] d = "backupJob" -> saveBackupJob
      [] d = "container" -> createContainer
      [] d = "app"       -> installApp
      [] d = "vm"        -> createVm
      [] d = "settings"  -> saveSettings
      [] d = "dataset"   -> changeDataset

Idle == [name |-> "none", at |-> "idle", version |-> 0, shared |-> FALSE]

Submit(d) ==
    /\ deed.at \in {"idle", "shown"}
    /\ deeds < MaxDeeds
    /\ page \in Forms(d).on /\ Forms(d).of \in focus
    /\ deed' = [Idle EXCEPT !.name = d, !.at = "sent"]
    /\ deeds' = deeds + 1
    /\ UNCHANGED <<inventory, server, screen, loads, prewarm, catalogs, clicks>>

\* The server does it.  "shared": a refresh of the inventory was under way, which
\* a forced load of the browser will share.
Done ==
    /\ deed.at = "sent"
    /\ LET s == Forms(deed.name).of IN
       IF s \in Inventory
       THEN /\ Changed
            /\ deed' = [deed EXCEPT !.at = "done", !.version = host', !.shared = refresh # NotLoaded]
            /\ UNCHANGED server
       ELSE /\ server' = [server EXCEPT ![s] = @ + 1]
            /\ deed' = [deed EXCEPT !.at = "done", !.version = server'[s]]
            /\ UNCHANGED inventory
    /\ UNCHANGED <<screen, loads, prewarm, catalogs, bounds>>

\* The handler goes on: it loads the source, or waits for the load in flight.
Reload ==
    /\ deed.at = "done"
    /\ LET f == Forms(deed.name)
           joins == f.of = "runtimes" /\ ~f.force /\ RuntimesLoading
           load == [Load(f.of, f.force, TRUE) EXCEPT !.to = f.to]
       IN  /\ joins \/ Roomy
           /\ loads' = IF joins THEN [i \in DOMAIN loads |->
                                       IF loads[i].of = "runtimes" THEN [loads[i] EXCEPT !.mine = TRUE]
                                       ELSE loads[i]]
                       ELSE Append(loads, load)
    /\ deed' = [deed EXCEPT !.at = "loading"]
    /\ UNCHANGED <<inventory, server, screen, prewarm, catalogs, bounds>>

\* The server refuses: the handler shows the message and stops.
Refused ==
    /\ deed.at = "sent"
    /\ deed' = Idle
    /\ UNCHANGED <<inventory, server, screen, loads, prewarm, catalogs, bounds>>

\* What buttons do that change nothing but what is held: new readings, a forced
\* inventory, the log after a backup has been requested, and a repair, which
\* forgets the inventory and draws nothing.  The apps page waits for the catalog,
\* forced too, draws itself, and leaves the inventory to come (see Ends).
Ask(load) ==
    /\ Roomy
    /\ loads' = Append(loads, load)
    /\ UNCHANGED <<inventory, server, hash, page, shown, failed, prewarm, poll, deed, deeds>>

Refresh ==
    /\ clicks < MaxClicks
    /\ clicks' = clicks + 1
    /\ \/ /\ "overview" \in focus
          /\ Ask([Load("overview", FALSE, FALSE) EXCEPT !.again = Pages])
          /\ UNCHANGED <<held, cataloguing>>
       \/ /\ page \in {"containers", "vms", "integrations", "admin/integrations", "hypervisor"}
          /\ "runtimes" \in focus
          /\ Ask([Load("runtimes", TRUE, FALSE) EXCEPT !.again = Pages])
          /\ UNCHANGED <<held, cataloguing>>
       \/ /\ page = "apps" /\ "community" \in focus
          /\ Ask([Load("community", TRUE, FALSE) EXCEPT !.again = Pages])
          /\ cataloguing' = TRUE
          /\ UNCHANGED held
       \/ /\ page = "apps" /\ "community" \notin focus /\ "runtimes" \in focus
          /\ Ask(Load("runtimes", TRUE, FALSE))
          /\ UNCHANGED <<held, cataloguing>>
       \/ /\ page = "backups"
          /\ "logs" \in focus
          /\ held' = [held EXCEPT !["logs"] = NotLoaded]
          /\ Ask(Load("logs", FALSE, FALSE))
          /\ UNCHANGED cataloguing

Repair ==
    /\ page = "admin/general" /\ Inventory \subseteq focus
    /\ clicks < MaxClicks
    /\ clicks' = clicks + 1
    /\ held' = [s \in focus |-> IF s \in Inventory THEN NotLoaded ELSE held[s]]
    /\ failed' = failed \ {"runtimes"}
    /\ UNCHANGED <<inventory, server, hash, page, shown, loads, prewarm, catalogs, deed, deeds>>

-----------------------------------------------------------------------------
(* Timers *)

\* The data people open most often, shortly after signing in.
Prewarm(s) ==
    /\ s \in prewarm /\ Roomy
    /\ prewarm' = prewarm \ {s}
    /\ LET needed == CASE s = "runtimes"  -> ~RuntimesLoading
                       [] s = "community" -> ~cataloguing
                       [] OTHER           -> held[s] = NotLoaded
       IN  /\ loads' = IF needed THEN Append(loads, Load(s, FALSE, FALSE)) ELSE loads
           /\ cataloguing' = (cataloguing \/ s = "community")
    /\ UNCHANGED <<inventory, server, screen, poll, deed, bounds>>

\* Every 5 seconds on the home page; one such load at a time is a bound.
OverviewTimer ==
    /\ page = "home" /\ "overview" \in focus
    /\ ~\E i \in DOMAIN loads : loads[i].of = "overview"
    /\ Ask([Load("overview", FALSE, FALSE) EXCEPT !.again = Pages])
    /\ UNCHANGED <<held, cataloguing, clicks>>

\* autoDetectStorage(): the scan differs from the readings held.
StorageDetected ==
    /\ "overview" \in focus
    /\ held["overview"] # server["overview"]
    /\ ~\E i \in DOMAIN loads : loads[i].of = "overview"
    /\ Ask([Load("overview", FALSE, FALSE) EXCEPT !.again = autoDetectStorage])
    /\ UNCHANGED <<held, cataloguing, clicks>>

\* communityCatalogPollTimer
Poll ==
    /\ poll /\ Roomy
    /\ poll' = FALSE
    /\ loads' = IF cataloguing THEN loads ELSE Append(loads, Load("community", FALSE, FALSE))
    /\ cataloguing' = TRUE
    /\ UNCHANGED <<inventory, server, screen, prewarm, deed, bounds>>

-----------------------------------------------------------------------------
(* Loads *)

\* The server answers: the inventory from its cache, or when the refresh ends.
Serve(i) ==
    LET l == loads[i] IN
    /\ l.got = NotLoaded
    /\ IF l.of = "runtimes" THEN Asked(l.force) ELSE UNCHANGED inventory
    /\ loads' = [loads EXCEPT ![i].got =
           IF l.of = "runtimes" THEN IF FromCache(l.force) THEN cache ELSE Reading
           ELSE IF l.of = "containers" THEN host
           ELSE server[l.of]]
    /\ UNCHANGED <<server, screen, prewarm, catalogs, deed, bounds>>

\* A refresh of the inventory goes on; its end answers all that wait for it.
Waiting(v) == [i \in DOMAIN loads |-> IF loads[i].got = Reading THEN [loads[i] EXCEPT !.got = v]
                                      ELSE loads[i]]

InventoryRead ==
    /\ \/ Looks /\ UNCHANGED loads
       \/ Stored /\ loads' = Waiting(refresh)
       \/ RefreshFails /\ loads' = Waiting(Empty)
    /\ UNCHANGED <<server, screen, prewarm, catalogs, deed, bounds>>

\* What is held once a reply has come.
Received(l) ==
    [s \in focus |-> IF s = l.of \/ (l.of = "runtimes" /\ s \in Inventory) THEN l.got ELSE held[s]]

\* A reply is stored, whatever has come since, and drawn where it belongs.
\* loadRuntimes() then sees to the catalog of the apps page, and after the forced
\* catalog of the refresh button comes its forced inventory.
Ends(i, h, f) ==
    LET l == loads[i]
        builtin == l.of = "runtimes" /\ page = "apps" /\ "builtin" \in focus /\ h["builtin"] = NotLoaded
        inventoried == l.of = "community" /\ l.force /\ "runtimes" \in focus
        rest == RemoveAt(loads, i)
                \o (IF builtin THEN <<Load("builtin", FALSE, FALSE)>> ELSE <<>>)
                \o (IF inventoried THEN <<Load("runtimes", TRUE, FALSE)>> ELSE <<>>)
        loading == cataloguing /\ l.of # "community"
        goes == IF l.to # Nowhere THEN l.to ELSE page
    IN  /\ held' = h
        /\ failed' = f
        /\ IF l.to # Nowhere \/ page \in l.again
           THEN \E aged \in BOOLEAN : Draw(Target(goes), h, f, rest, aged, loading)
           ELSE /\ loads' = rest
                /\ cataloguing' = loading
                /\ UNCHANGED <<page, shown>>
        /\ UNCHANGED <<inventory, server, hash, prewarm, bounds>>

Reply(i) ==
    LET l == loads[i] IN
    /\ l.got \in Nat
    /\ Ends(i, Received(l), failed \ {l.of})
    /\ \E refreshing \in BOOLEAN : poll' = IF l.of = "community" THEN refreshing ELSE poll
    /\ deed' = IF l.mine THEN [deed EXCEPT !.at = "shown"] ELSE deed

\* Variant: the list stays null.
EmptiedNone == {"builtin"}

\* Sources whose loader puts an empty list in place.
Emptied == {"backupJobs", "builtin"}

\* A load fails: an error to show, an empty list, or nothing but a message.
Fail(i) ==
    LET l == loads[i]
        lost == l.of \in Emptied \/ (l.of = "community" /\ held[l.of] = NotLoaded)
        drawn == l.of \in Inventory \cup {"backupJobs", "community"}
        h == IF lost THEN [held EXCEPT ![l.of] = Empty] ELSE held
        f == IF l.of \in Inventory THEN failed \cup {l.of} ELSE failed
    IN  /\ IF drawn THEN Ends(i, h, f)
           ELSE /\ held' = h
                /\ loads' = RemoveAt(loads, i)
                /\ UNCHANGED <<inventory, server, hash, page, shown, failed, prewarm, cataloguing, bounds>>
        /\ poll' = (poll \/ l.of = "community")
        /\ deed' = IF l.mine THEN Idle ELSE deed

-----------------------------------------------------------------------------
\* showConsole(): the readings have come, the page is drawn.
Init ==
    /\ InventoryInit
    /\ focus \in Focuses
    /\ server = [s \in focus \ Inventory |-> 0]
    /\ hash \in Places \cap Starts
    /\ page = Target(hash)
    /\ held = [s \in focus |-> IF s = "overview" THEN 0 ELSE NotLoaded]
    /\ shown = [s \in View(page) |-> held[s]]
    /\ failed = {}
    /\ cataloguing = (page = "apps" /\ "community" \in focus)
    /\ loads = SetToSeq({Load(s, FALSE, FALSE) : s \in
           {s \in focus : page \in AskedFor(s)} \cup (IF cataloguing THEN {"community"} ELSE {})})
    /\ prewarm = focus \cap {"builtin", "community", "runtimes", "network", "spaces"}
    /\ poll = FALSE
    /\ deed = Idle
    /\ clicks = 0 /\ deeds = 0

Progress(s) == \E i \in DOMAIN loads : loads[i].of = s /\ (Serve(i) \/ Reply(i) \/ Fail(i))

Step ==
    \/ \E p \in Pages : Click(p)
    \/ \E d \in Deeds : Submit(d)
    \/ Done \/ Refused \/ Reload \/ Refresh \/ Repair
    \/ \E s \in prewarm : Prewarm(s)
    \/ OverviewTimer \/ StorageDetected \/ Poll
    \/ InventoryRead
    \/ \E s \in focus : Progress(s)

Next == Step /\ UNCHANGED focus

Spec == Init /\ [][Next]_vars

Polled == {"overview", "community"}
Requests == \E s \in focus \ Polled : Progress(s)

\* Requests are answered or fail, those that a timer repeats left aside, and the refresh
\* of the inventory ends.
FairSpec ==
    /\ Spec
    /\ WF_vars(Requests /\ UNCHANGED focus)
    /\ WF_vars(InventoryRead /\ UNCHANGED focus)

-----------------------------------------------------------------------------
\* What is drawn on a page p and not drawn again when it comes: the readings of the
\* overview, and the containers on the integrations page, which loadContainers()
\* stores and draws on its own page only.  The status of system containers stays at
\* "Checking container provider..." when they come there and the inventory fails.
Overlooked(p) ==
    {"overview"} \cup (IF p \in {"integrations", "admin/integrations"} THEN {"containers"} ELSE {})

\* A page shows what is held of what it is drawn from, but for what is overlooked: no
\* page goes on waiting for data that has come.
AwaitedIsShown ==
    \A s \in DOMAIN shown \ Overlooked(page) : held[s] \in Nat => shown[s] = held[s]

\* The same for the pages whose data is all redrawn: home is drawn by a timer
\* only, and the others violate AwaitedIsShown.
Painted == page \in {"home", "hypervisor", "admin/analytics", "admin/settings"} \/ AwaitedIsShown

\* No reply takes the user to another page than the one last asked for, but to that of
\* a form that goes to a page when it is done, and has been submitted.
StaysThere ==
    \/ page = Target(hash)
    \/ \E d \in Deeds :
           /\ Forms(d).to # Nowhere /\ page = Target(Forms(d).to)
           /\ deeds <= 1 => deed.name = d

\* When the handler of a form is done, what is held is no older than the change
\* it made, and so is the page: however many loads overlap.  An inventory the
\* server was already collecting may be older.
Shows ==
    deed.at = "loading" /\ deed'.at = "shown" /\ ~deed.shared =>
        LET s == Forms(deed.name).of IN
        /\ held'[s] >= deed.version
        /\ page' \in Redraws(s) /\ s \in DOMAIN shown' => shown'[s] >= deed.version
DeedShown == [][Shows]_vars

\* Once the user stops, loading stops: no reply, and no failure, makes a page
\* ask for the same again.  (Readings and catalog are polled.)
Calm == \A i \in DOMAIN loads : loads[i].of \in Polled
Settles == <>[]Calm
=============================================================================
