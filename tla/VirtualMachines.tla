-------------------------- MODULE VirtualMachines --------------------------
(***************************************************************************)
(* Virtual machines of src/runtimes-next.mjs: createVm with its clean-up   *)
(* and its second try, localManageVm, localUpdateVm and                    *)
(* localAttachVmGuestDrivers, over libvirt.  Only virt-install is run      *)
(* under the guard of exclusive(); every other request gives way to the    *)
(* others at each command.                                                 *)
(*                                                                         *)
(* The disk of a machine lies in the directory of the name it was created  *)
(* under, and stays there when the machine is renamed.                     *)
(***************************************************************************)
EXTENDS Naturals, FiniteSets

CONSTANTS
    Requests,       \* requests under way at once
    Names,          \* names of machines
    Devices,        \* drives, adapters and host devices that are added
    None,
    Renames,        \* whether machines are renamed
    Overlap,        \* whether two requests may be about one name
    MaxCreated,     \* bound: runs of virt-install
    MaxFailures,    \* bound: commands that fail for a reason of their own
    MaxChanges      \* bound: updates and attachments

Steps == {"taken", "ready", "installing", "created", "undefine", "remove",
          "define", "destroy", "start", "attach"}

Domains == [id : Nat, on : BOOLEAN, disk : Names, devices : SUBSET Devices]

VirtualMachinesAssumption ==
    /\ None \notin Nat \cup Names \cup Requests \cup Steps \cup Domains
    /\ "other" \notin Requests
    /\ {Renames, Overlap} \subseteq BOOLEAN
    /\ {MaxCreated, MaxFailures, MaxChanges} \subseteq Nat

VARIABLES
    domains,        \* what libvirt has under a name: the run of virt-install that
                    \* made it, its power, the directory of its disk, its devices
    files,          \* the directory of a name: the run its disk was made by
    operation,      \* operationRunning: the request it was set by
    requests,       \* what each request waits for
    created,        \* runs of virt-install so far
    answered,       \* history: machines whose creation was answered
    deleted,        \* history: machines whose deletion was asked for
    attached,       \* history: devices answered as added to a machine
    failures, changes

hosts == <<domains, files, operation>>
history == <<answered, deleted, attached>>
vars == <<hosts, requests, created, history, failures, changes>>

Idle == [step |-> None, name |-> None, id |-> None, again |-> FALSE,
         on |-> FALSE, devices |-> {}]

Free(r, name) ==
    /\ requests[r] = Idle
    /\ Overlap \/ \A q \in Requests : requests[q].name # name

Waits(r, step) == requests' = [requests EXCEPT ![r].step = step]
Ends(r) == requests' = [requests EXCEPT ![r] = Idle]

Fails == failures < MaxFailures /\ failures' = failures + 1

\* A disk that a machine has is in use, under whatever name the machine is.
InUse(directory) == \E n \in Names : domains[n] # None /\ domains[n].disk = directory

-----------------------------------------------------------------------------
\* createVm

\* Variant: the name is left to virt-install to refuse.
CreateUnlisted(r, name) ==
    /\ Free(r, name) /\ created < MaxCreated
    /\ requests' = [requests EXCEPT ![r] = [Idle EXCEPT !.step = "ready", !.name = name]]
    /\ UNCHANGED <<hosts, created, history, failures, changes>>

\* runtimeInventory lists the machines.
Create(r, name) ==
    /\ Free(r, name) /\ created < MaxCreated
    /\ requests' = [requests EXCEPT ![r] =
           [Idle EXCEPT !.step = IF domains[name] = None THEN "ready" ELSE "taken",
                        !.name = name]]
    /\ UNCHANGED <<hosts, created, history, failures, changes>>

\* "A VM with this name already exists."
Taken(r) ==
    /\ requests[r].step = "taken" /\ Ends(r)
    /\ UNCHANGED <<hosts, created, history, failures, changes>>

\* exclusive(): the directory is there and the host prepared.
Install(r) ==
    /\ requests[r].step = "ready" /\ operation = None /\ created < MaxCreated
    /\ operation' = r /\ created' = created + 1
    /\ requests' = [requests EXCEPT ![r].step = "installing", ![r].id = created']
    /\ UNCHANGED <<domains, files, history, failures, changes>>

\* "Another runtime operation is in progress.": nothing is cleaned up.
Busy(r) ==
    /\ requests[r].step = "ready" /\ operation # None
    /\ Ends(r)
    /\ UNCHANGED <<hosts, created, history, failures, changes>>

Domain(r) == [id |-> requests[r].id, on |-> TRUE, disk |-> requests[r].name, devices |-> {}]

Installed(r) ==
    LET name == requests[r].name
    IN /\ requests[r].step = "installing"
       /\ domains[name] = None /\ ~InUse(name)
       /\ domains' = [domains EXCEPT ![name] = Domain(r)]
       /\ files' = [files EXCEPT ![name] = requests[r].id]
       /\ operation' = None
       /\ Waits(r, "created")
       /\ UNCHANGED <<created, history, failures, changes>>

\* Variant: a failure leaves the guard set.
NotInstalledBusy(r) ==
    /\ requests[r].step = "installing" /\ Fails
    /\ Waits(r, "undefine")
    /\ UNCHANGED <<hosts, created, history, changes>>

\* virt-install refuses a name or a disk that is in use, and may fail for another
\* reason, with the machine or its disk already made.  An error of ownership in a
\* nested host is tried once more.
NotInstalled(r) ==
    LET name == requests[r].name
    IN /\ requests[r].step = "installing"
       /\ \/ /\ domains[name] # None \/ InUse(name)
             /\ UNCHANGED <<domains, files, failures>>
          \/ /\ domains[name] = None /\ ~InUse(name) /\ Fails
             /\ \/ UNCHANGED domains
                \/ domains' = [domains EXCEPT ![name] = Domain(r)]
             /\ files' = [files EXCEPT ![name] = requests[r].id]
       /\ operation' = None
       /\ \E nested \in IF requests[r].again THEN {FALSE} ELSE BOOLEAN :
              requests' = [requests EXCEPT ![r].step = "undefine", ![r].again = nested]
       /\ UNCHANGED <<created, history, changes>>

\* virsh destroy and undefine: both may find nothing.
Undefine(r) ==
    /\ requests[r].step = "undefine"
    /\ domains' = [domains EXCEPT ![requests[r].name] = None]
    /\ Waits(r, "remove")
    /\ UNCHANGED <<files, operation, created, history, failures, changes>>

\* Variant: the disk is left to the next try.
RemoveNothing(r) ==
    /\ requests[r].step = "remove"
    /\ IF requests[r].again THEN Waits(r, "ready") ELSE Ends(r)
    /\ UNCHANGED <<hosts, created, history, failures, changes>>

\* rm of the directory; then the host is repaired and the directory made for the
\* second try, or the request fails.
Remove(r) ==
    /\ requests[r].step = "remove"
    /\ files' = [files EXCEPT ![requests[r].name] = None]
    /\ IF requests[r].again THEN Waits(r, "ready") ELSE Ends(r)
    /\ UNCHANGED <<domains, operation, created, history, failures, changes>>

\* Autostart is set.  If that fails the answer says that the machine was created.
CreateAnswered(r) ==
    /\ requests[r].step = "created"
    /\ answered' = answered \cup {requests[r].id}
    /\ Ends(r)
    /\ UNCHANGED <<hosts, created, deleted, attached, failures, changes>>

\* Another operation under exclusive(): docker run, pull, inspect...
OtherOperation ==
    /\ operation \in {None, "other"}
    /\ operation' = IF operation = None THEN "other" ELSE None
    /\ UNCHANGED <<domains, files, requests, created, history, failures, changes>>

-----------------------------------------------------------------------------
\* localManageVm

\* delete: destroy, then undefine --remove-all-storage.
Delete(name) ==
    /\ domains[name] # None
    /\ Overlap \/ \A r \in Requests : requests[r].name # name
    /\ deleted' = deleted \cup {domains[name].id}
    /\ domains' = [domains EXCEPT ![name] = None]
    /\ files' = [files EXCEPT ![domains[name].disk] = None]
    /\ UNCHANGED <<operation, requests, created, answered, attached, failures, changes>>

\* start; stop, shutdown and what the guest does by itself.
Power(name) ==
    /\ domains[name] # None
    /\ domains' = [domains EXCEPT ![name].on = ~@]
    /\ UNCHANGED <<files, operation, requests, created, history, failures, changes>>

-----------------------------------------------------------------------------
\* localUpdateVm, localAttachVmGuestDrivers

\* domrename of a machine that is shut off.
Rename(name, other) ==
    /\ Renames /\ domains[name] # None /\ ~domains[name].on /\ domains[other] = None
    /\ Overlap \/ \A r \in Requests : requests[r].name \notin {name, other}
    /\ domains' = [domains EXCEPT ![name] = None, ![other] = domains[name]]
    /\ UNCHANGED <<files, operation, requests, created, history, failures, changes>>

\* Variant: the definition is made anew from the settings of the dialog.
UpdateAnew(r, name) ==
    /\ Free(r, name) /\ domains[name] # None /\ changes < MaxChanges
    /\ changes' = changes + 1
    /\ requests' = [requests EXCEPT ![r] =
           [Idle EXCEPT !.step = "define", !.name = name, !.id = domains[name].id,
                        !.on = domains[name].on]]
    /\ UNCHANGED <<hosts, created, history, failures>>

\* dumpxml and domstate, after memory and processors were set.
Update(r, name) ==
    /\ Free(r, name) /\ domains[name] # None /\ changes < MaxChanges
    /\ changes' = changes + 1
    /\ requests' = [requests EXCEPT ![r] =
           [Idle EXCEPT !.step = "define", !.name = name, !.id = domains[name].id,
                        !.on = domains[name].on, !.devices = domains[name].devices]]
    /\ UNCHANGED <<hosts, created, history, failures>>

\* define of the XML that was read, with its changes.  A machine deleted meanwhile
\* is defined again, one renamed is refused.
Define(r) ==
    LET q == requests[r]
        domain == [id |-> q.id, on |-> domains[q.name] # None /\ domains[q.name].on,
                   disk |-> IF domains[q.name] = None THEN q.name ELSE domains[q.name].disk,
                   devices |-> q.devices]
    IN /\ q.step = "define"
       /\ \/ /\ IF domains[q.name] = None
                THEN \A n \in Names : domains[n] # None => domains[n].id # q.id
                ELSE domains[q.name].id = q.id
             /\ domains' = [domains EXCEPT ![q.name] = domain]
             /\ IF q.on THEN Waits(r, "destroy") ELSE Ends(r)
             /\ UNCHANGED failures
          \/ Fails /\ Ends(r) /\ UNCHANGED domains
          \/ /\ \E n \in Names : domains[n] # None /\ (n = q.name <=> domains[n].id # q.id)
             /\ Ends(r) /\ UNCHANGED <<domains, failures>>
       /\ UNCHANGED <<files, operation, created, history, changes>>

\* A machine that ran when its state was read is destroyed and started.
Restart(r) ==
    LET name == requests[r].name
    IN /\ requests[r].step \in {"destroy", "start"}
       /\ \/ /\ requests[r].step = "destroy"
             /\ domains' = IF domains[name] = None THEN domains
                           ELSE [domains EXCEPT ![name].on = FALSE]
             /\ Waits(r, "start") /\ UNCHANGED failures
          \/ /\ requests[r].step = "start" /\ Ends(r)
             /\ \/ /\ domains[name] # None /\ UNCHANGED failures
                   /\ domains' = [domains EXCEPT ![name].on = TRUE]
                \/ domains[name] = None /\ UNCHANGED <<domains, failures>>
                \/ Fails /\ UNCHANGED domains
       /\ UNCHANGED <<files, operation, created, history, changes>>

\* attach-device, attach-disk or attach-interface with --config: the drives were
\* listed before.
Attach(r, name, device) ==
    /\ Free(r, name) /\ domains[name] # None /\ device \notin domains[name].devices
    /\ changes < MaxChanges /\ changes' = changes + 1
    /\ requests' = [requests EXCEPT ![r] =
           [Idle EXCEPT !.step = "attach", !.name = name, !.id = domains[name].id,
                        !.devices = {device}]]
    /\ UNCHANGED <<hosts, created, history, failures>>

Attached(r) ==
    LET q == requests[r]
    IN /\ q.step = "attach" /\ Ends(r)
       /\ \/ /\ domains[q.name] # None
             /\ domains' = [domains EXCEPT ![q.name].devices = @ \cup q.devices]
             /\ attached' = attached \cup ({domains[q.name].id} \X q.devices)
             /\ UNCHANGED failures
          \/ domains[q.name] = None /\ UNCHANGED <<domains, attached, failures>>
          \/ Fails /\ UNCHANGED <<domains, attached>>
       /\ UNCHANGED <<files, operation, created, answered, deleted, changes>>

-----------------------------------------------------------------------------
Init ==
    /\ domains = [n \in Names |-> None] /\ files = [n \in Names |-> None]
    /\ operation = None /\ requests = [r \in Requests |-> Idle]
    /\ created = 0 /\ answered = {} /\ deleted = {} /\ attached = {}
    /\ failures = 0 /\ changes = 0

Next ==
    \/ \E r \in Requests :
        \/ \E n \in Names : Create(r, n) \/ Update(r, n) \/ \E d \in Devices : Attach(r, n, d)
        \/ Taken(r) \/ Install(r) \/ Busy(r) \/ Installed(r) \/ NotInstalled(r)
        \/ Undefine(r) \/ Remove(r) \/ CreateAnswered(r)
        \/ Define(r) \/ Restart(r) \/ Attached(r)
    \/ \E n \in Names : Delete(n) \/ Power(n) \/ \E other \in Names \ {n} : Rename(n, other)
    \/ OtherOperation

Spec == Init /\ [][Next]_vars

-----------------------------------------------------------------------------
\* "Remove only the domain/path created by this request" (runtimes-next.mjs, at the
\* clean-up of createVm): a machine whose creation was answered is there, with the
\* disk that was made for it, until its deletion is asked for.
MachinesKeepDisks ==
    \A id \in answered \ deleted :
        \E n \in Names : domains[n] # None /\ domains[n].id = id /\ files[domains[n].disk] = id

\* "so the same VM name can be retried": a request that failed leaves neither a
\* machine nor a disk, and the guard of exclusive() is held by a request that is
\* installing, so that the next one is not refused.
FailedLeavesNothing ==
    LET pending == {requests[r].id : r \in Requests}
    IN /\ \A n \in Names : domains[n] # None => domains[n].id \in answered \cup pending
       /\ \A n \in Names : files[n] # None => files[n] \in answered \cup pending
       /\ \A r \in Requests : operation = r <=> requests[r].step = "installing"

\* A device that was answered as added stays: an update writes a definition that
\* it read before.
DevicesStay ==
    \A given \in attached : \A n \in Names :
        (domains[n] # None /\ domains[n].id = given[1]) => given[2] \in domains[n].devices
=============================================================================
