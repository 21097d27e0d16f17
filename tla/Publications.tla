---------------------------- MODULE Publications ----------------------------
(***************************************************************************)
(* Applications of containers made reachable on ports of the appliance:    *)
(* class ContainerPublisher of src/container-publish.mjs, which keeps the  *)
(* publications in the state store and a proxy listening on each port, and *)
(* the parts of src/server.mjs that drive it: the requests to publish, to  *)
(* unpublish and to delete a container, and the reconcile loop for the     *)
(* containers of the private network.                                      *)
(*                                                                         *)
(* A worker is a request or the loop; its steps are what runs between two  *)
(* awaits.  Port 0 is that of a direct publication, which has no listener. *)
(***************************************************************************)
EXTENDS StateStore, Integers, FiniteSets, FiniteSetsExt, TLC

CONSTANTS
    Containers,
    Requests,       \* requests of administrators
    Loop,           \* the reconcile loop
    Ops,            \* what is requested: "publish", "unpublish", "delete"
    Private, Lan,   \* addresses a container has on the private network, on the LAN
    None,
    LastPort,       \* ports are 1..LastPort
    Candidates,     \* ports tried for one application (13 in the code)
    Faults,         \* what may fail: "firewall" commands, a "write" of the store
    MaxFailures,    \* bound: how often
    MaxChanges,     \* bound: how often an address or the ports of others change
    MaxRestarts     \* bound: restarts of the server

Ports == 1..LastPort
Workers == Requests \cup {Loop}

\* A record, and a proxy; the address is None of a container that has none.
Addresses == {None} \cup Private \cup Lan
Publication == [port : {0} \cup Ports, target : Addresses]
Proxy == [id : Containers, target : Addresses]

PublicationsAssumption ==
    /\ Loop \notin Requests /\ Private \cap Lan = {}
    /\ None \notin Containers \cup Private \cup Lan
    /\ None \notin Publication /\ None \notin Proxy
    /\ LastPort \in Nat \ {0} /\ Candidates \in Nat \ {0}

VARIABLES
    listeners,  \* this.listeners: the proxy of each port
    taken,      \* ports on which another program listens
    firewall,   \* ports the firewall lets in
    guests,     \* the address of each container, None once it is deleted
    work,       \* the workers
    todo,       \* containers the loop has still to look at
    disturbed,  \* history: see Meets and Restart
    failures, changes, restarts

bounds == <<failures, changes, restarts>>
world == <<guests, taken, disturbed, bounds>>
vars == <<store, listeners, taken, firewall, guests, work, todo, disturbed, bounds>>

\* What containerUsesPrivateNat() says of an address.
UsesPrivateNat(address) == address \in Private

\* The record a worker wants for its container.
Wanted(v) == [port |-> v.port, target |-> v.target]

Go(w, v) == work' = [work EXCEPT ![w] = v]
At(w, at) == Go(w, [work[w] EXCEPT !.at = at])

\* Where a worker goes when an exception ends its work on a container.
Ended(w) == IF w = Loop THEN "next" ELSE "done"

Publish(c, r) == [state EXCEPT ![c] = r]

-----------------------------------------------------------------------------
(* ContainerPublisher *)

\* Whether remove() finds a listener to close for a container: that of the port
\* of its record, whoever it belongs to.
Proxied(c) == state[c] # None /\ state[c].port # 0 /\ listeners[state[c].port] # None

\* remove() destroys the sockets, closes the server and waits.
Close(w, v, then) ==
    /\ Go(w, [v EXCEPT !.at = "closing", !.closing = state[v.id].port, !.then = then])
    /\ UNCHANGED <<store, listeners>>

\* configure(): the record is replaced and saved.
Record(w, v) ==
    /\ state' = Publish(v.id, Wanted(v))
    /\ SaveCalled(state', w)
    /\ Go(w, [v EXCEPT !.at = "saving", !.then = "published"])
    /\ UNCHANGED <<file, broken>>

\* Variant: a proxy that is already there does not matter.
FreeOfOthers(p) == p \in Ports /\ p \notin taken

\* listen(): neither published already nor in use.
Free(p) == p \in Ports /\ listeners[p] = None /\ p \notin taken

\* listen() binds the port before any other callback runs.
Listen(w, v) ==
    /\ listeners' = IF v.port = 0 THEN listeners
                    ELSE [listeners EXCEPT ![v.port] = [id |-> v.id, target |-> v.target]]
    /\ Record(w, v)

\* Variant: the record is saved although no candidate was free.
ListenOrNot(w, v) ==
    LET free == {p \in v.port..v.last : Free(p)} IN
    IF v.port = 0 \/ free # {}
    THEN Listen(w, [v EXCEPT !.port = IF v.port = 0 THEN 0 ELSE Min(free)])
    ELSE Record(w, v) /\ UNCHANGED listeners

\* The old record is gone without a wait: the first candidate that is free, or
\* none, and then the record is not saved.
ListenFirst(w, v) ==
    LET free == {p \in v.port..v.last : Free(p)} IN
    IF v.port = 0 THEN Listen(w, v)
    ELSE IF free # {} THEN Listen(w, [v EXCEPT !.port = Min(free)])
    ELSE /\ state' = Publish(v.id, None)
         /\ Go(w, [v EXCEPT !.at = Ended(w)])
         /\ UNCHANGED <<queue, file, broken, listeners>>

\* Variant: the old proxy is not removed first.
ConfigureAnew(w, v) ==
    IF state[v.id] = Wanted(v)
    THEN Go(w, [v EXCEPT !.at = "published"]) /\ UNCHANGED <<store, listeners>>
    ELSE ListenFirst(w, v)

\* configure(): nothing to do, or remove(id, false) and listen().
Configure(w, v) ==
    IF state[v.id] = Wanted(v)
    THEN Go(w, [v EXCEPT !.at = "published"]) /\ UNCHANGED <<store, listeners>>
    ELSE IF Proxied(v.id) THEN Close(w, v, "listening")
    ELSE ListenFirst(w, v)

\* remove() with its save.
Withdraw(w, v, then) ==
    IF Proxied(v.id) THEN Close(w, v, then)
    ELSE /\ state' = Publish(v.id, None)
         /\ SaveCalled(state', w)
         /\ Go(w, [v EXCEPT !.at = "saving", !.then = then])
         /\ UNCHANGED <<file, broken, listeners>>

\* Who waits for a server that has closed: the callbacks of all are due at once.
Due(w) == work[w].at = "closing" /\ listeners[work[w].closing] = None

\* The callback of close(): the port leaves the map, the record the list.
Closed(w) ==
    /\ work[w].at = "closing"
    /\ LET v == work[w] IN
       /\ listeners' = [listeners EXCEPT ![v.closing] = None]
       /\ state' = Publish(v.id, None)
       /\ IF v.then = "listening"
          THEN Go(w, [v EXCEPT !.at = "listening"]) /\ UNCHANGED queue
          ELSE SaveCalled(state', w) /\ Go(w, [v EXCEPT !.at = "saving"])
    /\ UNCHANGED <<file, broken, firewall, todo, world>>

\* Then listen(), and configureProxyFallback() goes on to the next candidate
\* when the port is in use.
Listening(w) ==
    /\ work[w].at = "listening"
    /\ ~\E u \in Workers : Due(u)
    /\ LET v == work[w] IN
       IF v.port = 0 \/ Free(v.port) THEN Listen(w, v)
       ELSE IF v.port < v.last THEN Configure(w, [v EXCEPT !.port = @ + 1])
       ELSE At(w, Ended(w)) /\ UNCHANGED <<store, listeners>>
    /\ UNCHANGED <<firewall, todo, world>>

\* Between a server that has closed and the one that replaces it no other
\* callback runs.
Calm == \A w \in Workers : ~Due(w) /\ work[w].at # "listening"

-----------------------------------------------------------------------------
(* automaticContainerApplication() *)

\* Variant: the address is one found earlier.
ReadyEarlier(w) ==
    /\ work[w].at = "starting"
    /\ \E a \in Private \cup {guests[work[w].id]} :
          a # None /\ Go(w, [work[w] EXCEPT !.at = "detecting", !.target = a])
    /\ UNCHANGED <<store, listeners, firewall, todo, world>>

\* containerReadyForPublication() finds the container's address.
Ready(w) ==
    /\ work[w].at = "starting"
    /\ LET c == work[w].id IN
       Go(w, IF guests[c] = None THEN [work[w] EXCEPT !.at = Ended(w)]
             ELSE [work[w] EXCEPT !.at = "detecting", !.target = guests[c]])
    /\ UNCHANGED <<store, listeners, firewall, todo, world>>

Preferred(c) == IF state[c] # None /\ state[c].port # 0 THEN state[c].port ELSE 1

\* An application answers: it is published on the port asked for, on that of
\* the record or on its own, or else on one of those that follow; directly when
\* the container is on the LAN.
Detected(w) ==
    /\ work[w].at = "detecting"
    /\ LET v == work[w] IN
       \E p \in (IF w = Loop THEN {} ELSE Ports) \cup {Preferred(v.id)} :
          Configure(w,
             IF UsesPrivateNat(v.target)
             THEN [v EXCEPT !.port = p, !.last = p + Candidates - 1]
             ELSE [v EXCEPT !.port = 0, !.last = 0,
                            !.old = IF state[v.id] = None THEN 0 ELSE state[v.id].port])
    /\ UNCHANGED <<firewall, todo, world>>

Undetected(w) ==
    /\ work[w].at = "detecting"
    /\ At(w, Ended(w))
    /\ UNCHANGED <<store, listeners, firewall, todo, world>>

\* None answers, and the request names a port: the proxy is set up as asked for.
Manual(w) ==
    /\ work[w].at = "detecting" /\ w \in Requests
    /\ \E p \in Ports : Configure(w, [work[w] EXCEPT !.port = p, !.last = p])
    /\ UNCHANGED <<firewall, todo, world>>

\* A request saves once more, with its activity; the loop goes on.
Finish(w) ==
    IF w = Loop
    THEN At(w, "next") /\ UNCHANGED store
    ELSE /\ SaveCalled(state, w)
         /\ Go(w, [work[w] EXCEPT !.at = "saving", !.then = "done"])
         /\ UNCHANGED <<state, file, broken>>

\* The firewall lets the port of the proxy in.
Allow(w) ==
    /\ work[w].at = "published" /\ work[w].port # 0
    /\ firewall' = firewall \cup {work[w].port}
    /\ Finish(w)
    /\ UNCHANGED <<listeners, todo, world>>

Fails(what) ==
    /\ what \in Faults /\ failures < MaxFailures
    /\ failures' = failures + 1
    /\ UNCHANGED <<changes, restarts>>

\* It does not, and the publication is removed again.
AllowFails(w) ==
    /\ work[w].at = "published" /\ work[w].port # 0
    /\ Fails("firewall")
    /\ Withdraw(w, work[w], Ended(w))
    /\ UNCHANGED <<firewall, guests, taken, todo, disturbed>>

\* A direct publication closes the port of the proxy it replaces; an error of
\* that is ignored.
PublishedDirectly(w) ==
    /\ work[w].at = "published" /\ work[w].port = 0
    /\ \/ firewall' = firewall \ {work[w].old} /\ UNCHANGED bounds
       \/ Fails("firewall") /\ UNCHANGED firewall
    /\ Finish(w)
    /\ UNCHANGED <<listeners, guests, taken, todo, disturbed>>

-----------------------------------------------------------------------------
(* Requests *)

Resting == {"new", "done", "idle", "next"}
BusyWith(w, c) == work[w].at \notin Resting /\ work[w].id = c

\* A worker takes up a container, which is disturbed if another is busy with it.
Meets(c) ==
    disturbed' = disturbed \cup {d \in {c} : \E w \in Workers : BusyWith(w, d)}

Begin(w) ==
    /\ work[w].at = "new"
    /\ \E c \in Containers, op \in Ops :
          /\ guests[c] # None
          /\ Meets(c)
          /\ Go(w, [work[w] EXCEPT !.id = c, !.op = op,
                 !.at = IF op = "publish" THEN "starting" ELSE "removing"])
    /\ UNCHANGED <<store, listeners, firewall, todo, guests, taken, bounds>>

\* The container is deleted if that was asked; its publication is removed.
Unpublish(w) ==
    /\ work[w].at = "removing"
    /\ LET v == work[w] IN
       /\ guests' = IF v.op = "delete" THEN [guests EXCEPT ![v.id] = None] ELSE guests
       /\ Withdraw(w, [v EXCEPT !.old = IF state[v.id] = None THEN 0 ELSE state[v.id].port],
                 "revoking")
    /\ UNCHANGED <<firewall, taken, todo, disturbed, bounds>>

\* The firewall closes the port it had; an error ends an unpublish request.
Revoke(w) ==
    /\ work[w].at = "revoking"
    /\ \/ /\ firewall' = firewall \ {work[w].old}
          /\ Finish(w)
          /\ UNCHANGED bounds
       \/ /\ work[w].old # 0 /\ Fails("firewall")
          /\ IF work[w].op = "delete" THEN Finish(w)
             ELSE At(w, "done") /\ UNCHANGED store
          /\ UNCHANGED firewall
    /\ UNCHANGED <<listeners, guests, taken, todo, disturbed>>

-----------------------------------------------------------------------------
(* reconcilePrivateNatPublications() *)

Scan ==
    /\ work[Loop].at = "idle"
    /\ todo' = {c \in Containers : UsesPrivateNat(guests[c])}
    /\ At(Loop, "next")
    /\ UNCHANGED <<store, listeners, firewall, world>>

isListening(p, c) == listeners[p] # None /\ listeners[p].id = c

\* A container with a proxy is passed over; another record is removed first.
LookAt(c) ==
    /\ work[Loop].at = "next" /\ c \in todo
    /\ todo' = todo \ {c}
    /\ LET v == [work[Loop] EXCEPT !.id = c] IN
       IF state[c] # None /\ state[c].port # 0 /\ isListening(state[c].port, c)
       THEN UNCHANGED <<store, listeners, work, disturbed>>
       ELSE /\ IF state[c] # None THEN Withdraw(Loop, v, "starting")
               ELSE Go(Loop, [v EXCEPT !.at = "starting"]) /\ UNCHANGED <<store, listeners>>
            /\ Meets(c)
    /\ UNCHANGED <<firewall, guests, taken, bounds>>

ScanEnds ==
    /\ work[Loop].at = "next" /\ todo = {}
    /\ At(Loop, "idle")
    /\ UNCHANGED <<store, listeners, firewall, todo, world>>

-----------------------------------------------------------------------------
(* The store, the host and the server *)

Caller == Head(queue).for

Written ==
    /\ HeadWritten
    /\ At(Caller, work[Caller].then)
    /\ UNCHANGED <<listeners, firewall, todo, world>>

\* The await throws; only the loop goes on after a remove() that threw.
NotWritten ==
    /\ \/ HeadFails /\ Fails("write")
       \/ HeadRejected /\ UNCHANGED bounds
    /\ At(Caller, IF work[Caller].then = "starting" THEN "starting" ELSE Ended(Caller))
    /\ UNCHANGED <<listeners, firewall, guests, taken, todo, disturbed>>

Changes == changes < MaxChanges /\ changes' = changes + 1

\* A new lease, or another network.
Move(c) ==
    /\ Changes
    /\ guests[c] # None
    /\ \E a \in (Private \cup Lan) \ {guests[c]} : guests' = [guests EXCEPT ![c] = a]
    /\ UNCHANGED <<store, listeners, taken, firewall, work, todo, disturbed, failures, restarts>>

\* Another program takes a port, or leaves it.
Takes(p) ==
    /\ Changes
    /\ taken' = IF p \in taken THEN taken \ {p} ELSE taken \cup {p}

Foreign(p) ==
    /\ listeners[p] = None
    /\ Takes(p)
    /\ UNCHANGED <<store, listeners, firewall, guests, work, todo, disturbed, failures, restarts>>

\* restore(): the proxies of the records that are found in the file listen; of
\* two that name one port only one does, and none on a port that is taken.
Restored ==
    \E owner \in [Ports -> Containers \cup {None}] :
        /\ \A p \in Ports :
              LET claims == {c \in Containers : file[c] # None /\ file[c].port = p}
              IN  IF claims = {} \/ p \in taken' THEN owner[p] = None
                  ELSE owner[p] \in claims
        /\ listeners' = [p \in Ports |->
              IF owner[p] = None THEN None
              ELSE [id |-> owner[p], target |-> file[owner[p]].target]]

\* The record names a port on which its container has no proxy.
Unrestored(c) ==
    file[c] # None /\ file[c].port # 0 /\
        (listeners[file[c].port] = None \/ listeners[file[c].port].id # c)

\* A restart disturbs the containers a worker was busy with and those whose record
\* was not in the file as it was; all of them when a proxy cannot be restored,
\* because its port can pass to another.
Restart ==
    /\ restarts < MaxRestarts /\ restarts' = restarts + 1
    /\ \/ UNCHANGED <<taken, changes>>
       \/ \E p \in Ports \ taken : Takes(p)
    /\ Reload
    /\ Restored
    /\ disturbed' = IF \E c \in Containers : Unrestored(c)' THEN Containers
          ELSE disturbed \cup
              {c \in Containers :
                  file[c] # state[c] \/ \E w \in Workers : BusyWith(w, c)}
    /\ todo' = {}
    /\ work' = [w \in Workers |->
          IF w = Loop THEN [work[w] EXCEPT !.at = "idle"]
          ELSE IF work[w].at = "new" THEN work[w] ELSE [work[w] EXCEPT !.at = "done"]]
    /\ UNCHANGED <<firewall, guests, failures>>

Init ==
    /\ state = [c \in Containers |-> None] /\ file = state
    /\ queue = <<>> /\ broken = FALSE
    /\ listeners = [p \in Ports |-> None]
    /\ taken \in {{}, {1}}
    /\ firewall = {} /\ todo = {} /\ disturbed = {}
    /\ guests \in [Containers -> Private \cup Lan]
    /\ work = [w \in Workers |->
          [at |-> IF w = Loop THEN "idle" ELSE "new", op |-> "publish", id |-> None,
           port |-> 0, last |-> 0, old |-> 0, target |-> None, closing |-> 0,
           then |-> "done"]]
    /\ failures = 0 /\ changes = 0 /\ restarts = 0

Turn(w) == Closed(w) \/ Listening(w)

Step(w) ==
    \/ Ready(w) \/ Detected(w) \/ Undetected(w) \/ Manual(w) \/ Allow(w) \/ AllowFails(w)
    \/ PublishedDirectly(w)

Next ==
    \/ \E w \in Workers : Turn(w)
    \/ /\ Calm
       /\ \/ \E w \in Workers : Step(w)
          \/ \E w \in Requests : Begin(w) \/ Unpublish(w) \/ Revoke(w)
          \/ Scan \/ ScanEnds
          \/ \E c \in Containers : LookAt(c) \/ Move(c)
          \/ \E p \in Ports : Foreign(p)
          \/ Written \/ NotWritten
          \/ Restart

Spec == Init /\ [][Next]_vars

\* Commands and writes end, the interval fires, and an application that runs is
\* found sooner or later.
FairSpec ==
    /\ Spec
    /\ \A w \in Workers : WF_vars(Turn(w)) /\ WF_vars(Calm /\ Step(w))
    /\ \A w \in Requests : WF_vars(Calm /\ (Unpublish(w) \/ Revoke(w)))
    /\ SF_vars(Calm /\ Detected(Loop))
    /\ WF_vars(Calm /\ Scan) /\ WF_vars(Calm /\ ScanEnds)
    /\ \A c \in Containers : SF_vars(Calm /\ LookAt(c))
    /\ WF_vars(Calm /\ (Written \/ NotWritten))

-----------------------------------------------------------------------------
\* No worker is busy with the container, nor has its work been disturbed.
Settled(c) == c \notin disturbed /\ \A w \in Workers : ~BusyWith(w, c)

\* No proxy is left behind: once the work on a container is done, what listens for
\* it is its record, whichever candidates were refused, firewall commands or
\* saves failed on the way.
ProxiesMatchRecords ==
    \A p \in Ports : listeners[p] # None /\ Settled(listeners[p].id) =>
        state[listeners[p].id] = [port |-> p, target |-> listeners[p].target]

\* No record is left without the proxy it names, so the loop, which looks at
\* nothing else, is right to pass the container over.
RecordsHaveProxies ==
    \A c \in Containers : Settled(c) /\ state[c] # None /\ state[c].port # 0 =>
        isListening(state[c].port, c)

\* remove(), which closes whatever listens on the port of the record, never closes
\* the proxy of another container.
ClosesItsOwn ==
    \A w \in Workers :
        work[w].at = "closing" /\ ~Due(w) /\ work[w].id \notin disturbed =>
            listeners[work[w].closing].id = work[w].id

\* A deleted container is not published any more, though the loop may still have
\* had it in its list.
DeletedIsUnpublished ==
    \A c \in Containers : guests[c] = None /\ Settled(c) => state[c] = None

\* Requests to the port of the appliance arrive at the container.
Reached(c) ==
    /\ state[c] # None /\ state[c].port \in firewall
    /\ isListening(state[c].port, c)
    /\ listeners[state[c].port].target = guests[c]

\* As server.mjs says of the loop, "private-NAT guests must always be reachable
\* through a live host-side proxy": in the end each of them is, for good.
Reachable ==
    \A c \in Containers : <>[](UsesPrivateNat(guests[c]) => Reached(c))
=============================================================================
