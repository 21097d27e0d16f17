---------------------------- MODULE InventoryCache ----------------------------
(***************************************************************************)
(* The inventory of apps, containers and virtual machines that             *)
(* src/server.mjs keeps in memory: served stale while one refresh at a     *)
(* time looks at the host again, and forgotten after an operation on it.   *)
(* The inventory of the host is a version number.                          *)
(***************************************************************************)
EXTENDS Naturals

CONSTANTS
    NotLoaded,  \* null
    Reading     \* a refresh that has not yet looked at what matters

VARIABLES
    host,       \* what the host has
    cache,      \* runtimeInventoryCache
    refresh     \* runtimeInventoryRefresh: NotLoaded, Reading, or what it read

inventory == <<host, cache, refresh>>

InventoryType ==
    /\ host \in Nat
    /\ cache \in Nat \cup {NotLoaded}
    /\ refresh \in Nat \cup {NotLoaded, Reading}

InventoryInit == host = 0 /\ cache = NotLoaded /\ refresh = NotLoaded

\* Whether getRuntimeInventoryCached() answers with what it has.
FromCache(force) == ~force /\ cache # NotLoaded

\* refresh(): the one in flight is shared, by forced calls too.
Shared(r) == IF r = NotLoaded THEN Reading ELSE r

\* getRuntimeInventoryCached(force): what it has may be of any age, and is
\* refreshed when that is RUNTIME_INVENTORY_TTL_MS or more.
Asked(force) ==
    /\ \/ FromCache(force) /\ UNCHANGED refresh
       \/ refresh' = Shared(refresh)
    /\ UNCHANGED <<host, cache>>

\* invalidateRuntimeInventory(), after the operation: the refresh goes on.
Changed == host' = host + 1 /\ cache' = NotLoaded /\ UNCHANGED refresh

\* runtimeInventory() asks the host.
Looks == refresh = Reading /\ refresh' = host /\ UNCHANGED <<host, cache>>

\* It returns: what it read is the inventory, however long ago it was read.
Stored ==
    /\ refresh \in Nat
    /\ cache' = refresh
    /\ refresh' = NotLoaded
    /\ UNCHANGED host

\* It throws: the finally clause lets the next one begin.
RefreshFails == refresh # NotLoaded /\ refresh' = NotLoaded /\ UNCHANGED <<host, cache>>
=============================================================================
