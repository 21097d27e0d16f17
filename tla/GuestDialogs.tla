---------------------------- MODULE GuestDialogs ----------------------------
(***************************************************************************)
(* The dialogs of public/dialog-controls.js about one guest (a system      *)
(* container, a virtual machine or an app), and the dock of tasks that     *)
(* reports what they do.  A form shows the settings of some inventory, and *)
(* saving it sends them all.  The window keeps inventories and tasks in    *)
(* memory, and the tasks in the browser's storage too; the server carries  *)
(* out what it was sent whatever becomes of the window.                    *)
(*                                                                         *)
(* A guest has two settings of two values each.                            *)
(***************************************************************************)
EXTENDS Integers, Sequences, SequencesExt

CONSTANTS
    NotLoaded,      \* null
    Gone,           \* no guest of that name
    NoForm,         \* no dialog is open
    Kinds,          \* kinds of guest, one of which a behaviour is about
    MaxDeeds,       \* bound: forms submitted
    MaxReads,       \* bound: inventories in flight when the page asks for one
    MaxDocked       \* bound: deeds submitted when the dock is used or the page reloaded

GuestDialogsAssumption ==
    /\ Kinds \subseteq {"container", "vm", "app"}
    /\ {MaxDeeds, MaxReads, MaxDocked} \subseteq Nat

VARIABLES
    kind,           \* of the guest
    guest,          \* its settings on the host
    cache,          \* what the window keeps of the guest's kind: window.LightNASContainerInventory,
                    \* where a summary lacks storage and templates, or LightNASRuntimeInventory
    reads,          \* inventories asked for
    form,           \* the dialog open, one at a time
    deeds,          \* what was submitted
    items,          \* the task of each deed: its status, or "none"
    saved           \* the same in localStorage

vars == <<kind, guest, cache, reads, form, deeds, items, saved>>

Fields == {"resources", "network"}
Settings == [Fields -> BOOLEAN]

\* What the wizard's fields start with.
New == [f \in Fields |-> FALSE]
Sent == Len(deeds)
AtWork == \E d \in DOMAIN deeds : deeds[d].truth = "sent"
Awaited == \E i \in DOMAIN reads : reads[i].use # "page"

TypeOK ==
    /\ kind \in Kinds
    /\ guest \in Settings \cup {Gone}
    /\ cache \in {NotLoaded} \cup [full : BOOLEAN, got : Settings \cup {Gone}]
    /\ form = NoForm \/ form.at \in {"open", "saving"}
    /\ DOMAIN items = DOMAIN deeds /\ DOMAIN saved = DOMAIN deeds
    /\ \A d \in DOMAIN items : items[d] \in {"none", "running", "success", "error", "canceled"}

-----------------------------------------------------------------------------
(* Inventories *)

Inventory(full, got) == [full |-> full, got |-> got]

Ask(use) ==
    reads' = Append(reads, [use |-> use, got |-> NotLoaded, hasty |-> use = "edit" /\ AtWork])

\* The page loads its inventory: when it is entered, and by refreshRuntime().
LoadPage ==
    /\ Len(reads) < MaxReads /\ Sent < MaxDeeds
    /\ Ask("page")
    /\ UNCHANGED <<kind, guest, cache, form, deeds, items, saved>>

\* The server looks at the host.
Looked(i) ==
    /\ reads[i].got = NotLoaded
    /\ reads' = [reads EXCEPT ![i].got = guest]
    /\ UNCHANGED <<kind, guest, cache, form, deeds, items, saved>>

\* A summary of the containers, or the guest in the inventory of the page.
Loaded(i) ==
    /\ reads[i].use = "page" /\ reads[i].got # NotLoaded
    /\ reads' = RemoveAt(reads, i)
    /\ cache' = Inventory(FALSE, reads[i].got)
    /\ UNCHANGED <<kind, guest, form, deeds, items, saved>>

ReadFails(i) ==
    /\ reads' = RemoveAt(reads, i)
    /\ UNCHANGED <<kind, guest, cache, form, deeds, items, saved>>

-----------------------------------------------------------------------------
(* Dialogs *)

\* The operator may ask for a dialog.
Idle == form = NoForm /\ ~Awaited /\ Sent < MaxDeeds

\* A form: the settings it was opened with, those entered, and whether it was opened or
\* sent while the host was at work on another, or may have been.
Form(what, was, hasty) ==
    [what |-> what, was |-> was, now |-> was, at |-> "open", deed |-> 0, hasty |-> hasty]
Entered(sent) == {f \in Fields : sent.now[f] # sent.was[f]}

\* Variant: any guest the page knows is edited as the page knows it.
KnownAlways == cache # NotLoaded /\ cache.got # Gone

\* Whether the form opens with what the page knows: never the container manager's.
Known == kind # "container" /\ cache # NotLoaded /\ cache.got # Gone

Edit ==
    /\ Idle
    /\ IF Known
       THEN form' = Form("edit", cache.got, AtWork) /\ UNCHANGED reads
       ELSE Ask("edit") /\ UNCHANGED form
    /\ UNCHANGED <<kind, guest, cache, deeds, items, saved>>

\* An alert when the guest is not there; the editor of a virtual machine opens all the
\* same.
EditAnswered(i) ==
    /\ reads[i].use = "edit" /\ reads[i].got # NotLoaded
    /\ reads' = RemoveAt(reads, i)
    /\ cache' = Inventory(FALSE, reads[i].got)
    /\ form' = CASE reads[i].got # Gone -> Form("edit", reads[i].got, reads[i].hasty)
                 [] reads[i].got = Gone /\ kind = "vm" -> Form("edit", New, FALSE)
                 [] OTHER -> NoForm
    /\ UNCHANGED <<kind, guest, deeds, items, saved>>

\* showRuntimeWizard(): for containers, the inventory the window has.
Create ==
    /\ Idle /\ kind # "app"
    /\ LET has == kind = "container" /\ cache # NotLoaded IN
       /\ IF has THEN UNCHANGED reads ELSE Ask("create")
       /\ form' = CASE has /\ ~cache.full -> Form("noStorage", New, FALSE)
                     [] has /\ cache.full -> Form("create", New, FALSE)
                     [] OTHER -> NoForm
    /\ UNCHANGED <<kind, guest, cache, deeds, items, saved>>

CreateAnswered(i) ==
    /\ reads[i].use = "create" /\ reads[i].got # NotLoaded
    /\ reads' = RemoveAt(reads, i)
    /\ cache' = IF kind = "container" THEN Inventory(TRUE, reads[i].got) ELSE cache
    /\ form' = Form("create", New, FALSE)
    /\ UNCHANGED <<kind, guest, deeds, items, saved>>

Delete ==
    /\ Idle /\ kind # "app"
    /\ form' = Form("delete", New, FALSE)
    /\ UNCHANGED <<kind, guest, cache, reads, deeds, items, saved>>

\* The operator enters a setting.
Enter(f) ==
    /\ form # NoForm
    /\ form.what = "edit" /\ form.at = "open" /\ Sent < MaxDeeds
    /\ form' = [form EXCEPT !.now[f] = ~@]
    /\ UNCHANGED <<kind, guest, cache, reads, deeds, items, saved>>

\* Also while it saves, which goes on.
Close ==
    /\ form # NoForm /\ form' = NoForm
    /\ UNCHANGED <<kind, guest, cache, reads, deeds, items, saved>>

-----------------------------------------------------------------------------
(* Deeds, and the tasks that stand for them *)

\* Each change of the tasks is saved.
Keep(list) == items' = list /\ saved' = list

\* success() and error() of a task: the first outcome stays.
Ends(d, status) == Keep(IF items[d] = "running" THEN [items EXCEPT ![d] = status] ELSE items)

\* Only the manager has a task among the editors; it sends the settings when one was
\* changed.
Managed == form.what = "edit" /\ kind = "container"
NewTask == IF form.what = "edit" /\ ~Managed THEN "none" ELSE "running"
SettingsChanged == Managed => Entered(form) # {}

\* The manager then asks for the application's address.  The wizard closes as it is sent.
Submit ==
    /\ form # NoForm
    /\ form.at = "open" /\ form.what # "noStorage" /\ Sent < MaxDeeds
    /\ LET sends == SettingsChanged
           others == [d \in DOMAIN deeds |->
               IF deeds[d].truth = "sent" THEN [deeds[d] EXCEPT !.sent.hasty = TRUE] ELSE deeds[d]]
       IN  deeds' = Append(others,
           [what |-> form.what,
            sent |-> IF sends THEN [form EXCEPT !.hasty = @ \/ AtWork] ELSE NoForm,
            truth |-> IF sends THEN "sent" ELSE "none",
            window |-> IF sends THEN "waiting" ELSE "publishing"])
    /\ Keep(Append(items, NewTask))
    /\ form' = IF form.what = "create" THEN NoForm ELSE [form EXCEPT !.at = "saving", !.deed = Sent + 1]
    /\ UNCHANGED <<kind, guest, cache, reads>>

\* The host ends what it was sent: it does it, or refuses it or fails.
Decide(d, truth) == deeds' = [deeds EXCEPT ![d].truth = truth, ![d].sent = NoForm]

CarriedOut(d) ==
    /\ deeds[d].truth = "sent"
    /\ (guest = Gone) = (deeds[d].what = "create")
    /\ Decide(d, "done")
    /\ guest' = CASE deeds[d].what = "create" -> New
                  [] deeds[d].what = "edit" -> deeds[d].sent.now
                  [] deeds[d].what = "delete" -> Gone
    /\ UNCHANGED <<kind, cache, reads, form, items, saved>>

TurnedDown(d) ==
    /\ deeds[d].truth = "sent"
    /\ Decide(d, "refused")
    /\ UNCHANGED <<kind, guest, cache, reads, form, items, saved>>

\* What the dialog of a deed does when it is done, or could not be.
Closes(d) == form' = IF form # NoForm /\ form.deed = d THEN NoForm ELSE form
Reopens(d, lost) ==
    form' = IF form # NoForm /\ form.deed = d
            THEN [form EXCEPT !.at = "open", !.deed = 0, !.hasty = @ \/ lost] ELSE form

\* The reply of success.
Succeeds(d) ==
    /\ deeds[d].window = "waiting" /\ deeds[d].truth = "done"
    /\ IF deeds[d].what = "edit" /\ kind = "container"
       THEN /\ deeds' = [deeds EXCEPT ![d].window = "publishing"]
            /\ UNCHANGED <<form, items, saved, cache>>
       ELSE /\ deeds' = [deeds EXCEPT ![d].window = "over"]
            /\ Closes(d)
            /\ Ends(d, "success")
            /\ cache' = IF deeds[d].what = "delete" THEN NotLoaded ELSE cache
    /\ UNCHANGED <<kind, guest, reads>>

\* Variant: what fails leaves its task as it is.
NoFail(d, lost) ==
    /\ deeds[d].window = "waiting"
    /\ deeds[d].truth = "refused" \/ lost
    /\ deeds' = [deeds EXCEPT ![d].window = IF lost THEN "lost" ELSE "over"]
    /\ Reopens(d, lost)
    /\ UNCHANGED <<kind, guest, cache, reads, items, saved>>

\* The reply of failure, or "lost": the connection broke, or what the server does after
\* the host's part failed.
Fails(d, lost) ==
    /\ deeds[d].window = "waiting"
    /\ deeds[d].truth = "refused" \/ lost
    /\ deeds' = [deeds EXCEPT ![d].window = IF lost THEN "lost" ELSE "over"]
    /\ Reopens(d, lost)
    /\ Ends(d, "error")
    /\ UNCHANGED <<kind, guest, cache, reads>>

\* Variant: an application that cannot be published fails the save.
PublishFails(d) ==
    /\ deeds[d].window = "publishing"
    /\ deeds' = [deeds EXCEPT ![d].window = "over"]
    /\ cache' = NotLoaded
    /\ Closes(d)
    /\ Ends(d, "success") \/ Ends(d, "error")
    /\ UNCHANGED <<kind, guest, reads>>

\* The application's address is found, or not: the settings are saved either way.
Published(d) ==
    /\ deeds[d].window = "publishing"
    /\ deeds' = [deeds EXCEPT ![d].window = "over"]
    /\ cache' = NotLoaded
    /\ Closes(d)
    /\ Ends(d, "success")
    /\ UNCHANGED <<kind, guest, reads>>

\* Cancel in the dock: no handler of these tasks, so the deed goes on.
Cancel(d) ==
    /\ items[d] = "running" /\ Sent <= MaxDocked
    /\ Ends(d, "canceled")
    /\ UNCHANGED <<kind, guest, cache, reads, form, deeds>>

Clear(d) ==
    /\ items[d] # "none" /\ Sent <= MaxDocked
    /\ Keep([items EXCEPT ![d] = "none"])
    /\ UNCHANGED <<kind, guest, cache, reads, form, deeds>>

\* Variant: tasks that a reload interrupted are shown as they were.
Taken(list) == list

\* The tasks that a page starts with.
Restored(list) == [d \in DOMAIN list |-> IF list[d] = "running" THEN "canceled" ELSE list[d]]

\* The page is loaded again: only the saved tasks stay.
Reload ==
    /\ Sent <= MaxDocked
    /\ cache' = NotLoaded
    /\ reads' = <<>> /\ form' = NoForm
    /\ deeds' = [d \in DOMAIN deeds |->
           [deeds[d] EXCEPT !.window = IF @ = "lost" THEN @ ELSE "over"]]
    /\ Keep(Restored(saved))
    /\ UNCHANGED <<kind, guest>>

-----------------------------------------------------------------------------
Init ==
    /\ kind \in Kinds
    /\ guest \in {New, Gone}
    /\ cache = NotLoaded
    /\ reads = <<>> /\ form = NoForm
    /\ deeds = <<>> /\ items = <<>> /\ saved = <<>>

Next ==
    \/ LoadPage \/ Edit \/ Create \/ Delete \/ Close \/ Submit \/ Reload
    \/ \E f \in Fields : Enter(f)
    \/ \E i \in DOMAIN reads :
           Looked(i) \/ Loaded(i) \/ EditAnswered(i) \/ CreateAnswered(i) \/ ReadFails(i)
    \/ \E d \in DOMAIN deeds :
           \/ CarriedOut(d) \/ TurnedDown(d)
           \/ Succeeds(d) \/ (\E lost \in BOOLEAN : Fails(d, lost)) \/ Published(d)
           \/ Cancel(d) \/ Clear(d)

Spec == Init /\ [][Next]_vars

\* The server ends what it was sent; a request is answered, or its connection breaks.
Progress ==
    \E d \in DOMAIN deeds :
        CarriedOut(d) \/ TurnedDown(d) \/ Succeeds(d) \/ Fails(d, FALSE) \/ Published(d)

FairSpec == Spec /\ WF_vars(Progress)

-----------------------------------------------------------------------------
\* What the container manager saves changes the settings the operator entered and no
\* others, which an earlier save may have changed, unless he opened or sent it while the
\* host was still at work on another (dialog-controls.js:711, 947).
AsEntered ==
    \A d \in DOMAIN deeds :
        (/\ kind = "container" /\ deeds[d].what = "edit"
         /\ deeds[d].truth = "sent" /\ deeds'[d].truth = "done" /\ ~deeds[d].sent.hasty)
        => \A f \in Fields \ Entered(deeds[d].sent) : guest'[f] = guest[f]
SavesWhatWasEntered == [][AsEntered]_vars

\* A task that shows an outcome shows the true one: success of what was done, an error
\* of what was not or may not have been; a task is running while its page waits for it.
TasksTell ==
    \A d \in DOMAIN items :
        /\ items[d] = "success" => deeds[d].truth \in {"done", "none"}
        /\ items[d] = "error" => deeds[d].truth = "refused" \/ deeds[d].window = "lost"
        /\ items[d] = "running" => deeds[d].window \in {"waiting", "publishing"}

\* An outcome once shown stays until it is cleared, through reloads and late replies
\* (dialog-controls.js:252).
StaysShown ==
    \A d \in DOMAIN items :
        items[d] \in {"success", "error", "canceled"} => items'[d] \in {items[d], "none"}
OutcomesStay == [][StaysShown]_vars

\* No task runs for ever, and no dialog saves for ever.
Hangs ==
    \E d \in DOMAIN deeds : items[d] = "running" \/ (form # NoForm /\ form.deed = d)
NoStuckTask == Hangs ~> ~Hangs

\* The create wizard finds the storage that the host has: "the creation wizard requests
\* the full inventory when it is opened" (server.mjs:1977).
WizardHasChoices == form = NoForm \/ form.what # "noStorage"
=============================================================================
