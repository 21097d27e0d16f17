----------------------------- MODULE CatalogApps -----------------------------
(***************************************************************************)
(* Applications of the catalogue: installCatalogApp, updateCatalogApp and  *)
(* manageCatalogApp of src/runtimes-next.mjs over Docker, the routes of    *)
(* src/server.mjs that open and close their ports in the firewall, and the *)
(* buttons of public/app.js.  The model is of one application and its      *)
(* instances: the first takes the port the catalogue gives the             *)
(* application, the others a port Docker picks each time they start, and   *)
(* one that a client of the interface other than the browser's page        *)
(* installs the port it chooses.                                           *)
(*                                                                         *)
(* Each Docker command runs under the guard of exclusive(), which refuses  *)
(* a second one: a request of several commands may be refused half-way.    *)
(***************************************************************************)
EXTENDS Naturals, FiniteSets

CONSTANTS
    Requests,       \* requests under way at once
    Instances,      \* names of instances
    Default,        \* the name of the first one
    None,
    Overlap,        \* whether two requests may be about one instance
    Automatic,      \* bound: ports that Docker picks from
    Chosen,         \* bound: ports that other clients choose
    MaxFailures     \* bound: commands that fail for a reason of their own

NoPort == 0
Fixed == 1          \* the port of the catalogue

Commands == {"pull", "run", "inspect", "manage"}
Steps == Commands \cup {"open", "close"}

Published == [asked : {NoPort, Fixed} \cup Chosen, port : Nat, on : BOOLEAN]

CatalogAppsAssumption ==
    /\ Default \in Instances
    /\ None \notin Requests \cup Instances \cup Nat \cup Steps \cup Published
    /\ Overlap \in BOOLEAN
    /\ Automatic \cup Chosen \subseteq Nat \ {NoPort, Fixed}
    /\ MaxFailures \in Nat

VARIABLES
    containers,     \* what Docker has under a name: the port asked for, the port
                    \* published, and whether it runs
    rules,          \* the ports the firewall lets in
    operation,      \* operationRunning: the request it was set by
    requests,       \* what each request waits for
    listed,         \* the port the browser's list shows for an instance
    opened,         \* history: instances answered as installed with their port open,
                    \* but for the cases of Open and StillOpen
    failures

vars == <<containers, rules, operation, requests, listed, opened, failures>>

Idle == [step |-> None, running |-> FALSE, name |-> None, kind |-> None, port |-> NoPort]

\* A running container other than i's has the port p.
Bound(p, i) ==
    \E j \in Instances \ {i} : containers[j] # None /\ containers[j].on /\ containers[j].port = p

\* The port i may run on: the one that was asked for, or any of Docker's own, one
\* another container has left included.  The port of the catalogue is outside these.
Picked(i, asked) == {p \in IF asked = NoPort THEN Automatic ELSE {asked} : ~Bound(p, i)}

Free(r, i) ==
    /\ requests[r] = Idle
    /\ Overlap \/ \A q \in Requests : requests[q].name # i

Ends(r) == requests' = [requests EXCEPT ![r] = Idle]
Fails == failures < MaxFailures /\ failures' = failures + 1

-----------------------------------------------------------------------------
\* exclusive() and runDocker

Runs(r, step) == requests[r].step = step /\ requests[r].running
Waits(r) == requests[r].step \in Commands /\ ~requests[r].running

Begin(r) ==
    /\ Waits(r) /\ operation = None
    /\ operation' = r
    /\ requests' = [requests EXCEPT ![r].running = TRUE]
    /\ UNCHANGED <<containers, rules, listed, opened, failures>>

\* "Another runtime operation is in progress."
Busy(r) ==
    /\ Waits(r) /\ operation # None
    /\ Ends(r)
    /\ UNCHANGED <<containers, rules, operation, listed, opened, failures>>

\* The command of a step succeeds, and the request goes on.
Done(r, step, next) ==
    /\ Runs(r, step)
    /\ operation' = None
    /\ requests' = [requests EXCEPT ![r].step = next, ![r].running = FALSE]

Failed(r, step) ==
    /\ Runs(r, step) /\ Fails
    /\ operation' = None /\ Ends(r)
    /\ UNCHANGED <<containers, rules, listed, opened>>

-----------------------------------------------------------------------------
\* Installation

Existing == {i \in Instances : containers[i] # None}

\* The button asks for a name, and for an automatic port, when the browser's list shows
\* an instance; else the server takes the first name and the port of the catalogue, or,
\* if there is an instance already, another name and an automatic port.  Another client
\* names both.  The name is tested before the image is downloaded.
Install(r, i, port) ==
    /\ Free(r, i) /\ containers[i] = None
    /\ \/ port = NoPort /\ \E j \in Instances : listed[j] # None
       \/ port = NoPort /\ Existing # {} /\ i # Default
       \/ port = Fixed /\ Existing = {} /\ i = Default /\ \A j \in Instances : listed[j] = None
       \/ port \in Chosen
    /\ requests' = [requests EXCEPT ![r] =
           [step |-> "pull", running |-> FALSE, name |-> i, kind |-> "install", port |-> port]]
    /\ UNCHANGED <<containers, rules, operation, listed, opened, failures>>

Pulled(r) ==
    /\ Done(r, "pull", "run")
    /\ UNCHANGED <<containers, rules, listed, opened, failures>>

PullFailed(r) == Failed(r, "pull")

\* A container that runs on the port that was asked for, or on one of Docker's own.
Run(i, asked) ==
    \E p \in Picked(i, asked) :
        containers' = [containers EXCEPT ![i] = [asked |-> asked, port |-> p, on |-> TRUE]]

\* Instances that go on counting as opened when i has run: not one that is stopped
\* and whose own port i has got, and so may close when it is removed.
StillOpen(i) ==
    {j \in opened \ {i} :
        \/ containers'[i] = None \/ ~containers'[i].on
        \/ containers[j].asked # containers'[i].port}

\* docker run, docker port and the wait for the port.
Ran(r) ==
    LET i == requests[r].name
    IN /\ Done(r, "run", "open")
       /\ containers[i] = None /\ Run(i, requests[r].port)
       /\ opened' = StillOpen(i)
       /\ UNCHANGED <<rules, listed, failures>>

\* docker run refuses a name in use; when it cannot publish the port it leaves the
\* container it created, stopped.
RunFailed(r) ==
    LET i == requests[r].name
        asked == requests[r].port
    IN /\ Runs(r, "run")
       /\ \/ containers[i] # None /\ UNCHANGED <<containers, failures>>
          \/ Fails /\ UNCHANGED containers
          \/ /\ containers[i] = None
             /\ \/ Fails
                \/ Picked(i, asked) = {} /\ UNCHANGED failures
             /\ containers' = [containers EXCEPT ![i] =
                    [asked |-> asked, port |-> NoPort, on |-> FALSE]]
       /\ operation' = None /\ Ends(r)
       /\ UNCHANGED <<rules, listed, opened>>

\* A port that another instance is listed with, or that its removal is to close: the
\* list, or the removal, is older than the start that took the port.
Stale(i, p) ==
    \/ \E j \in Instances \ {i} : listed[j] = p
    \/ \E q \in Requests : requests[q].kind = "remove" /\ requests[q].name # i /\ requests[q].port = p

\* Variant: the port that was asked for is opened.
OpenAsked(r) ==
    LET i == requests[r].name
    IN /\ requests[r].step = "open"
       /\ IF containers[i] = None \/ ~containers[i].on
          THEN UNCHANGED <<rules, opened>>
          ELSE /\ rules' = rules \cup {requests[r].port}
               /\ opened' = IF Stale(i, containers[i].port) THEN opened ELSE opened \cup {i}
       /\ Ends(r)
       /\ UNCHANGED <<containers, operation, listed, failures>>

\* firewall-add, with the port Docker published.
Open(r) ==
    LET i == requests[r].name
    IN /\ requests[r].step = "open"
       /\ IF containers[i] = None \/ ~containers[i].on
          THEN UNCHANGED <<rules, opened>>
          ELSE /\ rules' = rules \cup {containers[i].port}
               /\ opened' = IF Stale(i, containers[i].port) THEN opened ELSE opened \cup {i}
       /\ Ends(r)
       /\ UNCHANGED <<containers, operation, listed, failures>>

\* A firewall that refuses is a warning in the answer.
NotOpened(r) ==
    /\ requests[r].step = "open" /\ Fails
    /\ Ends(r)
    /\ UNCHANGED <<containers, rules, operation, listed, opened>>

-----------------------------------------------------------------------------
\* Start, stop, restart, remove and new limits, of an instance of the list

\* Variant: the port is closed before the container is removed.
ManageClosing(r, i, kind) ==
    /\ Free(r, i) /\ listed[i] # None
    /\ requests' = [requests EXCEPT ![r] =
           [step |-> "inspect", running |-> FALSE, name |-> i, kind |-> kind, port |-> listed[i]]]
    /\ rules' = IF kind = "remove" THEN rules \ {listed[i]} ELSE rules
    /\ UNCHANGED <<containers, operation, listed, opened, failures>>

\* The button sends the port of the list with the name.
Manage(r, i, kind) ==
    /\ Free(r, i) /\ listed[i] # None
    /\ requests' = [requests EXCEPT ![r] =
           [step |-> "inspect", running |-> FALSE, name |-> i, kind |-> kind, port |-> listed[i]]]
    /\ UNCHANGED <<containers, rules, operation, listed, opened, failures>>

\* assertManagedContainer
Inspected(r) ==
    /\ Done(r, "inspect", "manage") /\ containers[requests[r].name] # None
    /\ UNCHANGED <<containers, rules, listed, opened, failures>>

InspectFailed(r) ==
    \/ Failed(r, "inspect")
    \/ /\ Runs(r, "inspect") /\ containers[requests[r].name] = None
       /\ operation' = None /\ Ends(r)
       /\ UNCHANGED <<containers, rules, listed, opened, failures>>

Started(i, kind) == kind = "restart" \/ (kind = "start" /\ ~containers[i].on)

Effect(i, kind) ==
    CASE kind = "remove" -> containers' = [containers EXCEPT ![i] = None]
      [] kind = "stop" -> containers' = [containers EXCEPT ![i].on = FALSE, ![i].port = NoPort]
      [] Started(i, kind) -> Run(i, containers[i].asked)
      [] OTHER -> UNCHANGED containers

\* An instance that Docker picks a port for is no longer the one that was opened when it
\* stops or starts again.
Managed(r) ==
    LET i == requests[r].name
        kind == requests[r].kind
        same == kind # "remove" /\ (containers[i].asked # NoPort \/ containers'[i] = containers[i])
    IN /\ Runs(r, "manage") /\ containers[i] # None
       /\ operation' = None
       /\ IF kind = "remove" /\ requests[r].port # NoPort
          THEN requests' = [requests EXCEPT ![r].step = "close", ![r].running = FALSE]
          ELSE Ends(r)
       /\ Effect(i, kind)
       /\ opened' = StillOpen(i) \cup (IF i \in opened /\ same THEN {i} ELSE {})
       /\ UNCHANGED <<rules, listed, failures>>

\* A stopped container that gets no port stays as it is.
ManageFailed(r) ==
    LET i == requests[r].name
    IN \/ Failed(r, "manage")
       \/ /\ Runs(r, "manage")
          /\ \/ containers[i] = None
             \/ Started(i, requests[r].kind) /\ Picked(i, containers[i].asked) = {}
          /\ operation' = None /\ Ends(r)
          /\ UNCHANGED <<containers, rules, listed, opened, failures>>

\* firewall-remove-port; its failure is ignored.
Close(r) ==
    /\ requests[r].step = "close"
    /\ \/ rules' = rules \ {requests[r].port} /\ UNCHANGED failures
       \/ Fails /\ UNCHANGED rules
    /\ Ends(r)
    /\ UNCHANGED <<containers, operation, listed, opened>>

\* The list shows the published port, or for the first instance the one of the
\* catalogue when none is published.
Shown(i) ==
    IF containers[i] = None THEN None
    ELSE IF containers[i].port = NoPort /\ i = Default THEN Fixed
    ELSE containers[i].port

Listed ==
    /\ listed' = [i \in Instances |-> Shown(i)] /\ listed' # listed
    /\ UNCHANGED <<containers, rules, operation, requests, opened, failures>>

-----------------------------------------------------------------------------
Kinds == {"start", "stop", "restart", "remove", "update"}

Init ==
    /\ containers = [i \in Instances |-> None]
    /\ rules = {}
    /\ operation = None
    /\ requests = [r \in Requests |-> Idle]
    /\ listed = [i \in Instances |-> None]
    /\ opened = {} /\ failures = 0

Next ==
    \/ \E r \in Requests :
        \/ \E i \in Instances, port \in {NoPort, Fixed} \cup Chosen : Install(r, i, port)
        \/ \E i \in Instances, kind \in Kinds : Manage(r, i, kind)
        \/ Begin(r) \/ Busy(r)
        \/ Pulled(r) \/ PullFailed(r) \/ Ran(r) \/ RunFailed(r) \/ Open(r) \/ NotOpened(r)
        \/ Inspected(r) \/ InspectFailed(r) \/ Managed(r) \/ ManageFailed(r)
        \/ Close(r)
    \/ Listed

Spec == Init /\ [][Next]_vars

-----------------------------------------------------------------------------
\* An instance that was answered as installed with its port open and that runs on
\* that port is let in by the firewall, whatever was installed, restarted or
\* removed since, on the same ports among others.
InstalledStaysOpen ==
    \A i \in opened : containers[i] # None /\ containers[i].on => containers[i].port \in rules
=============================================================================
