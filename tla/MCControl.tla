------------------------------ MODULE MCControl ------------------------------
(***************************************************************************)
(* Instances for TLC of modules of the control plane: accounts and         *)
(* sessions, second factors, the activity log, publications of containers, *)
(* virtual machines and applications of the catalogue.  An initial state   *)
(* chooses the one that runs, "part"; the variables that are not its own   *)
(* stay Off.  Variables of one name hold what the part that runs has.      *)
(***************************************************************************)
EXTENDS Integers, Sequences, FiniteSets, TLC

CONSTANTS
    Handlers,                                                       \* requests that wait
    LoginNames, Groups, Updates, Owner, MaxAccounts, MaxPasswords,  \* accounts
    Phones, MaxAttempts, MaxIssued,                                 \* second factors
    Savers, Limit, MaxEvents, LostWrites, Reboots,                  \* the activity log
    Containers, Publishers, Loop, Ops, Private, Lan, LastPort,      \* publications
    Candidates, Faults, MaxFailures, MaxChanges, MaxRestarts,
    Requests, Machines, Devices, MaxCreated, MaxFailed, MaxUpdates, \* virtual machines
    Instances, Default, Automatic, Chosen, MaxRefused,              \* applications
    None, Off

VARIABLES
    part,
    handlers, state, queue, file, broken, requests, operation,
    failures, changes, restarts,
    accounts, users, groups, spent, sessions, passwords, halfway, twice, orphaned,
    phone, secret, pendingSecret, passkeys, enrollment, login, registration,
    assertion, throttled, issued, held, used, entered, latest, undone,
    added, acked,
    listeners, taken, firewall, guests, work, todo, disturbed,
    domains, files, created, answered, deleted, attached,
    containers, rules, listed, opened

\* One of each kind of change of a user: disable, enable with groups, a password,
\* and a password with a quota that is refused.
Change(disabled, password, refused, members) ==
    [disabled |-> disabled, password |-> password, refused |-> refused, groups |-> members]

EachUpdate == {Change(TRUE, FALSE, FALSE, None), Change(FALSE, FALSE, FALSE, Groups),
               Change(None, TRUE, FALSE, None), Change(None, TRUE, TRUE, None)}

Users == INSTANCE Accounts WITH Names <- LoginNames, Rejected <- TRUE

Factors == INSTANCE SecondFactor

Log == INSTANCE ActivityLog WITH
    Handlers <- Savers, MaxFailures <- LostWrites, MaxRestarts <- Reboots

Proxies == INSTANCE Publications WITH Requests <- Publishers

Hypervisor == INSTANCE VirtualMachines WITH
    Names <- Machines, Renames <- FALSE, Overlap <- FALSE,
    MaxFailures <- MaxFailed, MaxChanges <- MaxUpdates

Apps == INSTANCE CatalogApps WITH Overlap <- FALSE, MaxFailures <- MaxRefused

ASSUME ControlAssumption ==
    /\ Users!AccountsAssumption /\ Factors!SecondFactorAssumption
    /\ Log!ActivityLogAssumption /\ Proxies!PublicationsAssumption
    /\ Hypervisor!VirtualMachinesAssumption /\ Apps!CatalogAppsAssumption

-----------------------------------------------------------------------------
\* The variables of one part only, and those of several.
usersOwn == <<accounts, users, groups, spent, sessions, passwords, halfway, twice, orphaned>>
factorsOwn == <<phone, secret, pendingSecret, passkeys, enrollment, login, registration,
                assertion, throttled, issued, held, used, entered, latest, undone>>
logOwn == <<added, acked>>
proxiesOwn == <<listeners, taken, firewall, guests, work, todo, disturbed>>
machinesOwn == <<domains, files, created, answered, deleted, attached>>
appsOwn == <<containers, rules, listed, opened>>

storeVars == <<state, queue, file, broken>>
requestVars == <<requests, operation>>

vars == <<part, handlers, storeVars, requestVars, failures, changes, restarts, usersOwn,
          factorsOwn, logOwn, proxiesOwn, machinesOwn, appsOwn>>

UsersOff ==
    /\ accounts = Off /\ users = Off /\ groups = Off /\ spent = Off /\ sessions = Off
    /\ passwords = Off /\ halfway = Off /\ twice = Off /\ orphaned = Off

FactorsOff ==
    /\ phone = Off /\ secret = Off /\ pendingSecret = Off /\ passkeys = Off
    /\ enrollment = Off /\ login = Off /\ registration = Off /\ assertion = Off
    /\ throttled = Off /\ issued = Off /\ held = Off /\ used = Off /\ entered = Off
    /\ latest = Off /\ undone = Off

LogOff == added = Off /\ acked = Off

ProxiesOff ==
    /\ listeners = Off /\ taken = Off /\ firewall = Off /\ guests = Off /\ work = Off
    /\ todo = Off /\ disturbed = Off

MachinesOff ==
    /\ domains = Off /\ files = Off /\ created = Off /\ answered = Off /\ deleted = Off
    /\ attached = Off

AppsOff == containers = Off /\ rules = Off /\ listed = Off /\ opened = Off

StoreOff == state = Off /\ queue = Off /\ file = Off /\ broken = Off
RequestsOff == requests = Off /\ operation = Off
BoundsOff == failures = Off /\ changes = Off /\ restarts = Off

Init ==
    \/ /\ part = "users" /\ Users!Init
       /\ FactorsOff /\ LogOff /\ ProxiesOff /\ MachinesOff /\ AppsOff
       /\ StoreOff /\ RequestsOff /\ BoundsOff
    \/ /\ part = "factors" /\ Factors!Init
       /\ UsersOff /\ LogOff /\ ProxiesOff /\ MachinesOff /\ AppsOff
       /\ StoreOff /\ RequestsOff /\ BoundsOff
    \/ /\ part = "log" /\ Log!Init
       /\ UsersOff /\ FactorsOff /\ ProxiesOff /\ MachinesOff /\ AppsOff
       /\ RequestsOff /\ changes = Off
    \/ /\ part = "proxies" /\ Proxies!Init
       /\ UsersOff /\ FactorsOff /\ LogOff /\ MachinesOff /\ AppsOff
       /\ RequestsOff /\ handlers = Off
    \/ /\ part = "machines" /\ Hypervisor!Init
       /\ UsersOff /\ FactorsOff /\ LogOff /\ ProxiesOff /\ AppsOff
       /\ StoreOff /\ handlers = Off /\ restarts = Off
    \/ /\ part = "apps" /\ Apps!Init
       /\ UsersOff /\ FactorsOff /\ LogOff /\ ProxiesOff /\ MachinesOff
       /\ StoreOff /\ handlers = Off /\ changes = Off /\ restarts = Off

Next ==
    \/ /\ part = "users" /\ Users!Next
       /\ UNCHANGED <<part, storeVars, requestVars, failures, changes, restarts,
                      factorsOwn, logOwn, proxiesOwn, machinesOwn, appsOwn>>
    \/ /\ part = "factors" /\ Factors!Next
       /\ UNCHANGED <<part, storeVars, requestVars, failures, changes, restarts,
                      usersOwn, logOwn, proxiesOwn, machinesOwn, appsOwn>>
    \/ /\ part = "log" /\ Log!Next
       /\ UNCHANGED <<part, requestVars, changes,
                      usersOwn, factorsOwn, proxiesOwn, machinesOwn, appsOwn>>
    \/ /\ part = "proxies" /\ Proxies!Next
       /\ UNCHANGED <<part, handlers, requestVars,
                      usersOwn, factorsOwn, logOwn, machinesOwn, appsOwn>>
    \/ /\ part = "machines" /\ Hypervisor!Next
       /\ UNCHANGED <<part, handlers, storeVars, restarts,
                      usersOwn, factorsOwn, logOwn, proxiesOwn, appsOwn>>
    \/ /\ part = "apps" /\ Apps!Next
       /\ UNCHANGED <<part, handlers, storeVars, changes, restarts,
                      usersOwn, factorsOwn, logOwn, proxiesOwn, machinesOwn>>

Spec == Init /\ [][Next]_vars

-----------------------------------------------------------------------------
\* Containers are interchangeable, and so are the requests of a part.
Symmetry == Permutations(Containers) \cup Permutations(Handlers) \cup Permutations(Requests)

\* The properties of the modules, each of the part that runs.
OldSessionsEnd == part = "users" => Users!OldSessionsEnd
DirectoryIsSound == part = "users" => Users!DirectoryIsSound

\* Codes that were sent are accepted, and what is accepted was held.
FactorsWork == part = "factors" => Factors!SentCodeWorks /\ Factors!FactorsAreHeld

\* The log that is kept is a chain, and holds what a save was acknowledged of.
LogIsKept == part = "log" => Log!ChainIntact /\ Log!AckedIsDurable
FileMovesOn == [][part = "log" => Log!MovesOn]_vars

\* Proxies are those of the records, and the records those of proxies.
ProxiesAreRecords == part = "proxies" => Proxies!ProxiesMatchRecords /\ Proxies!RecordsHaveProxies

\* What is removed is a container's own, and all of it.
RemovesItsOwn == part = "proxies" => Proxies!ClosesItsOwn /\ Proxies!DeletedIsUnpublished

\* Machines keep their disks and their devices.
MachinesKeepDisks == part = "machines" => Hypervisor!MachinesKeepDisks /\ Hypervisor!DevicesStay
FailedLeavesNothing == part = "machines" => Hypervisor!FailedLeavesNothing

InstalledStaysOpen == part = "apps" => Apps!InstalledStaysOpen
=============================================================================
