# LightNAS: specifications, model checking and proofs

TLA+ models of the parts of LightNAS whose correctness depends on the order in
which things happen: the storage agent's job engine, its shares and its scheduler;
the control plane's state, accounts, second factors, publications, virtual machines,
applications, uploads and storage content; and the browser's pages, listings, dialogs
and viewer. `PROJECT.json` holds the machine-readable side: which lines of the code
each definition stands for, the runs, the hazards, the mutants that show each
property can fail, and the theorems.

Paths are relative to the repository; `operations.js:57` is a line of a file.

## The system

LightNAS is a Node.js control plane (`src/server.mjs`) that serves the browser
interface (`public/`), a privileged storage agent (`src/storage-agent/`) that it
reaches over a Unix socket, and Python helpers that run single host commands as root.
Each Node process, and each window of the browser, runs JavaScript on one thread, so
nothing interleaves between two awaits and everything may between the awaits of
different requests, timers, replies and jobs. That is the concurrency modelled here:
**a step of every module is what the code runs between two awaits.**

| Component | State it keeps | Operations | Interacts with | What makes it correct | Module |
|---|---|---|---|---|---|
| Job engine (`storage-agent/operations.js`, `persistence.js`) | `jobs`, `busy`, write chain `saving`, `jobs.json` | preview, approve, execute, cancel, rollback preview, init | share, resource, feature, protection adapters; scheduler | one mutation at a time; an approval used once; changes only from the approved state; honest outcomes; rollback data first | `Operations`, `JobLedger` |
| Share activation (`ShareAdapter`) | Samba and NFS fragments, manifest, activation record | apply, reload, verify, rollback | smbd, exportfs, boot | "active" and "no-op" are true of the services; rollback restores | `ShareActivation` |
| Protection scheduler (`features.js`, `protection.js`) | task registry, `runtime.json`, the tick | tick, claim, preview, approve, record, ACME renewal | job engine, administrators' jobs | one run per due time; runs only saved tasks; serialized; due tasks are claimed | `Scheduler` |
| State store, activity log (`store.mjs`) | state in memory, write queue, state file, hash chain | load, save, addActivity | every request handler | the file never goes back; acknowledged means durable; chain intact | `StateStore`, `ActivityLog` |
| Container publications (`container-publish.mjs`, `server.mjs`) | listeners, records, firewall ports | configure, listen, remove, restore, reconcile loop, requests | state store, firewall, LXC | proxies, records and containers agree | `Publications` |
| Accounts (`server.mjs`, `auth.mjs`) | users, groups, passwords, sessions | sign-in and out, create, change, delete | state store, Samba | old sessions end; a name is one account | `Accounts` |
| Second factors (`server.mjs`) | codes, challenges, secrets, keys | send, verify, set up, remove | SMS service, sign-in | codes sent work; what is enabled was held; nothing is used twice | `SecondFactor` |
| Virtual machines (`runtimes-next.mjs`) | libvirt's domains, disks | create, clean-up, second try, update, delete | libvirt, guard `exclusive()` | machines keep disks and devices; failures leave nothing | `VirtualMachines` |
| Applications (`runtimes-next.mjs`, `server.mjs`, `app.js`) | Docker's containers, firewall ports | install, start, stop, remove, limits | Docker, firewall, browser | an installed application stays reachable | `CatalogApps` |
| Uploads (`files.mjs`, `app.js`) | sessions, reservations, files; workers of the browser | upload, chunks, retry; a batch | HTTP, disk | a completed file is whole; the report is true; a batch ends | `Uploads`, `UploadBatch` |
| Storage content (`storage-pools.mjs`, `templates.mjs`, `guest-tools.mjs`) | hidden and listed files | chunked upload, stream, checksum, delete | browser, download sources | what is listed is whole; answers are true | `StorageContent` |
| Previews of media (`thumbnails.mjs`, `server.mjs`) | what is kept, programs at work, two queues | ask, make, send a range, prepare after an upload | file library, ffmpeg, store | what is sent is no older than the file was; an upload is prepared; a range is the range asked for | `MediaCache` |
| Conversions (`media.mjs`, `server.mjs`) | `converting`, output files | convert, fail, answer | file library, ffmpeg | a conversion answered is there; what is another's stays; the converter is freed | `MediaConversion` |
| Control center (`app.js`) | data by source, the page | loaders, forms, timers, navigation | server's inventory cache | a page shows what is held and was asked for; deeds are shown; loading stops | `Workspace`, `InventoryCache` |
| Files page (`app.js`, `files.mjs`) | remembered listings, the list of all files | load, retry, operations | disk | the listing is of the section; deeds are shown | `FilesPage` |
| Parts added by scripts (`admin-security.js`, `identity-providers.js`, `kubernetes.js`) | the part on the page | observe, read, insert, refresh | pages of `app.js` | the part appears and shows deeds | `AddedParts` |
| Storage page (`storage-manager.js`, `app.js`, `server.mjs`) | slot, cache, scan | paint, poll, scan, operation | disks | a disk attached is shown | `StoragePage` |
| Guest dialogs, task dock (`dialog-controls.js`) | inventories, form, tasks in memory and `localStorage` | edit, create, delete, cancel, reload | server | saves what was entered; tasks tell the truth and end | `GuestDialogs` |
| File viewer, photo editor (`enhancements.js`) | stage, buttons, late pictures, edit history | open, navigate, edit, undo, save, delete | file library | one file is shown; copies are as seen; undo is a stack | `FileViewer` |

Not modelled: the adapters of the agent beyond the job engine's view of them, the
agent's event stream and broker, certificates' files, LXC and Proxmox, templates and
icons, inventories of the host, permission tables and identity providers, the throttle
of sign-ins, installers. The reasons are at the end.

### The behaviours that are hard

* *Tested before an await, used after it.* `busy` (`operations.js:37`,
  `features.js:35`), `expectedOffset` (`files.mjs:428`), a user's name
  (`server.mjs:1548`), a domain's XML (`runtimes-next.mjs:622`), the name of the photo
  a copy is for (`enhancements.js:774`).
* *Read-modify-write across awaits.* `runtime.json` (`protection.js:94`).
* *Queues of writes.* `jobs.json` and the state file are written by a promise chain:
  memory runs ahead of the disk, and a failed write must not stop the others.
* *Restarts and reloads.* Anything not in a file is forgotten between two awaits: jobs,
  upload sessions, proxies, the tick, the window's tasks.
* *Replies out of order.* Nothing in the browser cancels a request: a reply comes after
  the user has gone elsewhere, after a later request's, or after the deed it does not
  show yet (`app.js:1248`, `:1809`, `:2813`; `enhancements.js:883`, `:932`).
* *Answers lost.* The browser sends again what the server has done (`app.js:1999`,
  `files.mjs:403`).
* *Several commands, one fails.* `runtimes-next.mjs:1586`, `container-publish.mjs:94`,
  `server.mjs:1959`.
* *Things that must end.* The engine's slot, an approved job, a due task, a batch of
  uploads, a task of the dock, a page without its data.

`PROJECT.json` lists the forty most important hazards at their lines, with the
properties that cover each. The disagreements below tell of others.

## The modules

### Storage agent

**`Operations`**, the job engine. A job is previewed (`preview()`), approved
(`approve()` takes the slot `busy`, plans again, compares, journals "queued" and
answers) and executed (`execute()`: verification, no-op test, recheck, journalled
commit, apply, confirmation, final status; a catch block that restores, and a `finally`
that frees the slot). `pc[j]` names the await the call of job `j` waits at, so the
interleaving of jobs with clients, with each other and with a restart (`init()`) at each
await is all there. `save()` copies the jobs at its call and chains the write:
`saving` is that chain, `journal` is `jobs.json`, and a write can fail (`FailJournal`)
without stopping later ones. The five adapters differ in what the engine does for them:
shares are validated, have a no-op test and are restored on failure; resources write
part by part and report each directory; features confirm; protection runs record their
outcome; volumes are a single command. `host` is the configuration the plans are about,
in `NParts` parts written separately. An administrator can edit it between any two steps
(`Edit`). History variables: `starts` (entries into `execute()`), `wrote`, `overtaken`
(edited by hand since the recheck).

**`JobLedger`** says what an approval promises, without queues, awaits or statuses: a
durable entry only moves from previewed to approved to settled, and a job runs at most
once, after the ledger says approved, never beside another. `ops_edits` checks that
`Operations` implements it (`ImplementsLedger`, with `jobs.json` as the ledger);
`Operations_proofs` proves it for every instance.

**`ShareActivation`**. Three atomic file writes, two service reloads, a verification,
then the record of hash and boot that later requests compare with. What each service
really serves (`live`) stands next to what the files say, which the code cannot see.
Reboots load the files; a fault can hit any write, command or verification; a failed
commit is applied backwards. `MutualExclusion` (proved) is why one job is enough. Two
history variables say what the properties may rely on: `cutShort`, an application of
files ended early at some time; `misled`, one ended so that the record names files that
are not served (`Misleads`) or will be written over half a configuration (`RestoresHalf`).

**`Scheduler`**. One tick at a time walks the registry it read, claims due tasks by
advancing their time in `runtime.json`, previews and approves a run and records
"queued"; the job records its own outcome, both with the read and the write of the file
as separate steps. Clients preview, approve, save and delete. A schedule is "due at each
instant": `nextRun` is the only use the tick makes of it.

### Control plane

**`StateStore`** is `JsonStore`: memory, the queue of copies, the file, and whether the
chain has been rejected. **`ActivityLog`** adds the hash-chained log, cut to its limit,
and handlers that answer after the save.

**`Publications`**. A worker (a request or the reconcile loop) works on one container:
find its address, detect the application, remove the old publication, listen on the
first free port, record and save, then open the firewall. Two details come from Node:
closing a server frees its port at once but calls back later, all waiters in one turn of
the event loop (`Due`, `Turn`, `Calm`), and binding a port ends before any other
callback runs. `disturbed` is a history variable: containers two workers were busy with
at a time, or that a restart caught with work under way.

**`Accounts`**. Handlers that create, change and delete users and groups, change the
owner's own password by either route, sign in and out. They give way at the derivation
of a hash, the making of a folder, a save and the synchronisation with Samba, and keep
the account object they found. History: `late` sessions (made from what was out of date
by then), `halfway` (a password changed in memory whose request then failed), `twice` and
`orphaned`.

**`SecondFactor`**. Codes by SMS, an authenticator and passkeys of one account, from
several tabs: what is pending is one entry of each kind, replaced, expired, used, tried
too often, or removed by the failure of another send.

**`VirtualMachines`**. Commands of libvirt one by one, each of which may fail; the
directory of a machine's name and the disk in it; the guard `exclusive()`; updates that
define the machine from XML read before.

**`CatalogApps`**. Instances of one application over Docker: the first on the
catalogue's port, others on a port that Docker picks each time they start, one that
another has left included, or on one that a client of the API chose; two that want one
port cannot run at once. The firewall's ports that requests open and close, the latter
with the port an older list of the browser showed. `opened` is the history of instances
answered as installed with their port open.

**`Uploads`**. The client sends a chunk at a time and repeats a request whose response
is lost; the handler in its steps (session, quota, open, write, completion); the upload
in one request; reservations; a restart. `Overlap` says whether a retry may arrive
before the handler of the attempt before it has ended. **`UploadBatch`** is the browser's
side of a selection: folders first, then workers that take files one after another,
rename what is taken and send again what failed.

**`MediaCache`**. What ffmpeg makes of a file is kept under a key, `<<file, version,
kind>>`: the name in the code is a hash of path, size and time, so each version of a file
has keys of its own. `caller` holds the requests and the places of the two queues
(`thumbnailWarm`, two, and `videoWarm`, one) alike: each finds the file, looks for what is
kept, and waits for the program of that key, begun once (`jobs`). The program opens the
file as it is by then, which may be newer than the key. Pictures are written where they
are found, videos beside and then moved. `Span` is the arithmetic of a range, compared with
its definition in HTTP for every range of small files. **`MediaConversion`** is
`convertMedia()`, with each await a step: `converting` is tested before two awaits and set
after them, so two programs can run, and `unlink` removes whatever has the output's name.

**`StorageContent`**. Images in chunks with their browser, images and templates in one
stream with or without a checksum, driver media fetched when there are none, deletions
and a restart. A file is the sequence of chunks written to it.

### Browser

**`Workspace`** with **`InventoryCache`**. Data is one version number per source. `render()`
draws what is held and asks for what the page lacks; a loader stores its reply and draws
again if the page is one of its own list (`Redraws`); forms change something and load.
`focus` bounds which sources change in a behaviour, `Starts` the page it begins on.
`InventoryCache` is the server's cache of the runtimes: served stale while one refresh
looks at the host, forgotten after an operation.

**`FilesPage`**. Sections (all files, or a folder) with remembered listings; loads of
several at a time, errors tried again; the server's list of all files, put together over
several awaits. **`AddedParts`**: a painting wipes the page, an observer notices, the part
is read and inserted. **`StoragePage`**: the slot of `storage-manager.js`, its polls, the
scan, and the server's storage inventory.

**`GuestDialogs`**. A form shows the settings of some inventory, old or new, and sends
them all; `truth` of a deed is what the server did, which the window learns by an
answer, by a poll or not at all; the dock keeps tasks in memory and in `localStorage`,
and a reload restores them.

**`FileViewer`**. `openPreview()` clears the stage and sets the title at once; a photo is
put on the stage immediately and larger pictures of it replace it when they come, a
document comes later and brings the buttons with it. The editor's edits are held by
reference by the saves under way (`live`), and its history is an array with an index.

### Instances

The modules `MC...` instantiate several modules each: an initial state chooses the part
that runs, and the variables of the others stay `Off`. The parts share no state, so
this is only a way to check several modules in one run; fairness conditions of
different parts are joined by disjunction, as one part runs for good.

## The runs

| Run | Parts | Instance | Properties |
|---|---|---|---|
| `ops_jobs` | `Operations` | 2 jobs, 4 kinds, 2 parts, 1 restart, 1 failed write, 3.5M states | `OneMutation` `NeverReplayed` `RollbackJournaled` `DirectoriesJournaled` `OutcomeIsReal` `CancelPreventsChange` `TypeOK` |
| `ops_edits` | `Operations`, `JobLedger` | 2 jobs, shares and volumes, 1 edit, 1 restart, 1.9M | `CommitsFromPreviewed` `ImplementsLedger` |
| `ops_live` | `Operations` | 2 jobs, 1 fault, fair, 268k | `SlotFreed` `ApprovedJobEnds` |
| `agent` | `Scheduler` and `ShareActivation`, twice each | 2 tasks, 3 jobs and renewals; 1 task against 2 administrators' jobs; 2 fragments, 1 reboot, 1 failure and 1 fragment, 1 reboot, 2 failures, 692k states | `OncePerDue` `ShownIsFinal` `Serialized` `RunsSavedTask` `DueIsClaimed`; `RecordIsActive` `FilesAreWhole` |
| `control` | `Accounts`, `SecondFactor`, `ActivityLog`, `Publications`, `VirtualMachines`, `CatalogApps` | 2 handlers, requests or containers each, 2 instances on 2 ports, 1 or 2 failures, restarts, 2.6M states | `OldSessionsEnd` `DirectoryIsSound`; `FactorsWork`; `LogIsKept` `FileMovesOn`; `ProxiesAreRecords` `RemovesItsOwn`; `MachinesKeepDisks` `FailedLeavesNothing`; `InstalledStaysOpen` |
| `library` | `Uploads`, `UploadBatch`, `MediaCache`, `MediaConversion`, `StorageContent`, `StoragePage`, `GuestDialogs` | 2 chunked uploads and 1 single; 2 files, 2 workers; 1 picture, 1 video, 2 versions, 1 request, 1 place per queue, 2 acts; 2 conversions, 1 output, 4 asks; 1 image, 2 streams; 1 operation, 2 clicks; 2 deeds, 753k states | `UploadsArrive`; `ReportIsTrue` `BatchEnds` (batch and dialogs); `ContentArrives`; `DisksDetected`; `DeedsAreShown` (page and dialogs) |
| `pages` | `Workspace`, `InventoryCache` | 7 sets of sources, 29 pages, 1 form | `PageIsRight` `DeedShown` `Settles` |
| `browser` | `FilesPage`, `AddedParts`, `FileViewer` | 1 folder and all files, 2 loads; 5 parts; 2 photos, 1 document, 2 saves | `ListingBelongs` `DeedsAreShown` `PagesFill` |
| `ops_cancel` (violation) | `Operations` | 2 share jobs, no restart, failure or edit | `CancelBeforeCommit` |
| `sched_renewal` (violation) | `Scheduler` | 1 task, 2 jobs | `Serialized` |
| `pub_reach` (violation) | `Publications` | the loop, 2 containers, 1 new address, fair | `Reachable` |
| `vms_rename` (violation) | `VirtualMachines` | 1 request at a time, 2 names, renames | `MachinesKeepDisks` |

What the properties of the combined runs are made of:

* `RecordIsActive`, `FilesAreWhole`: `ActiveSharesServed` and `NoopIsActive`,
  `CurrentIsWhole` and `RollbackRestores` of `ShareActivation`.
* `FactorsWork`: `SentCodeWorks` and `FactorsAreHeld`. `LogIsKept`: `ChainIntact`,
  `AckedIsDurable`. `ProxiesAreRecords`, `RemovesItsOwn`: the four of `Publications`.
  `MachinesKeepDisks`: with `DevicesStay`.
* `UploadsArrive`: `DoneIsWhole`, `RetryResumes`. `ContentArrives`: `ListedIsWhole`,
  `AnswersAreTrue`; `PreviewsAreCurrent`, `UploadsArePrepared`, `RangesAreRight` of
  `MediaCache`; `OutputsStay`, `NeverStuck` of `MediaConversion`. `ReportIsTrue`: that of
  the batch, and `TasksTell` of the dialogs. `BatchEnds`: a batch ends, every request for a
  preview is answered and the queues empty (`Rests`), and no task of the dock runs for ever.
  `DeedsAreShown` of `library`: `DeedShown` of the storage page, `AsEntered` and
  `StaysShown` of the dialogs.
* `PageIsRight`: `Painted` and `StaysThere`.
* `ListingBelongs` of `browser`: that of the files page; `ShowsOneFile`,
  `CopiesAreAsSeen` and `HistoryHolds` of the viewer. `DeedsAreShown` of `browser`:
  `DeedShown` of both pages, and `UndoesAndRedoes` of the editor. `PagesFill`: `Recovers`
  and `Appears`.

### What the properties leave out

Each exclusion is something the code does wrong or cannot know; a history variable
marks it, and the list of disagreements says which.

* `ShareActivation`: `cutShort` for protocols without shares, `misled` for the others and
  for `CurrentIsWhole`.
* `Publications`: `disturbed` containers.
* `Accounts`: sessions made `late`, changes that failed `halfway`, names created `twice`
  at once, groups set while the user was deleted. `SecondFactor`: codes `undone` by the
  failure of another send.
* `Uploads`, `StorageContent`, `VirtualMachines`, `CatalogApps`: `Overlap = FALSE` keeps
  two requests about one thing apart. `Renames = FALSE` in `control`; `vms_rename` has them.
* `MediaCache`: of a picture, part may be sent. `MediaConversion`: conversions whose output
  others made since they looked (`disturbed`), which remove it when they fail, and those
  whose output was deleted or removed so (`robbed`).
* `CatalogApps`: an instance that takes a port while a list, or a removal under way, still
  names it for another (`Stale`), a stopped one whose port another has got by then
  (`StillOpen`), and one on an automatic port after it stops or starts again. Clients do
  not choose the catalogue's port, which the list shows for a stopped first instance.
* `FilesPage`: an operation that meets another listing of its section in flight or a list
  of all files being put together, or whose own reload fails and has the page load the
  section again, and conversions, which invalidate nothing.
* `Workspace`: `Painted` leaves out home (drawn by a timer) and the pages the code forgets
  to draw again; `Overlooked` leaves out the readings, and on the integrations page the
  containers that came on their own. `Shows` leaves out inventories the server was already
  collecting (`shared`). `StaysThere` lets a form that goes to a page when it is done take
  the user there (`app.js:3447`); once a second form was submitted, the first one's page is
  still among those, as its reply may be the later one.
* `AddedParts`: older reads in flight, and copies that are on the page twice.
  `StoragePage`: `Overtaking = FALSE`, and an error in the slot stays.
* `GuestDialogs`: a manager opened or sent while the host is at work on another save
  (`hasty`); the property is about the container manager only.
* `FileViewer`: documents that come after another file was opened or do not come
  (`late`, until the next file is opened), and copies during whose making the photo was
  edited on or the editor opened again (`again`).

### Why the bounds are enough

Bounds are constants named `Max...`, `Budgets` and `Starts`. Two jobs, containers, uploads,
handlers or requests are enough for every pairwise interleaving; the engine never looks at
more than one other job, through `busy`. One failure and one restart hit every await; a
reboot lets a record of an older boot meet a newer one. In `agent` the second failure needs
a smaller instance (one fragment); two fragments with three failures (7.0M states) were
checked once, beyond the time of a run, with the same result. `MaxPending = 2` lets a client
call arrive while a save is being written. Three chunks have a first, a middle and a last; a
quota of 7 with uploads of 3 makes the third one meet it. `Limit = 3` of the log makes it
cut. Two ports with one taken make a publication fail for want of candidates; `MaxChanges =
1` is one lease, or one port taken or left. Three codes issued let one replace another. Two
deeds of the dialogs let one be under way while the other is opened, and one inventory in
flight lets it be old. Two loads of each section overlap, and one operation meets them at
any time. Three files opened let a document come after two others; two saves of one photo,
or one save and another photo, meet at each await; two edits with undo between them reach a
history that is cut. `focus` restricts a behaviour of `Workspace` to sources that are drawn
together, since others do not meet on a page, and `Starts` to ten of the pages to begin on:
the others are reached by navigation. Two versions let a program open a newer file than the
one it was begun for, one act more than that is the request; a place of a queue and a
request meet at one key, and two places of a queue never do, as a name waits once. Two
conversions of one name are both past the test when there is one output, and the two asks
that are left are an upload, a deletion or a restart between. Symmetry is used in safety
runs over identifiers that are only compared for equality. Deadlock is not checked where the
system may rest: clients owe nothing.

### Fairness

* `ops_live`: weak fairness of each continuation of `approve()`/`execute()` and of the
  chained write. The event loop resumes a call whose await is settled, and file
  operations and commands end (the adapters run them with timeouts). Nothing is assumed
  of clients, restarts or failures.
* `agent`: weak fairness of the tick's and the jobs' steps and of systemd
  (`Restart=on-failure`); strong fairness of `Tick`: an interval that fires for ever meets
  a free slot, if the slot is free again and again. Clients are bounded.
* `library`: weak fairness of the batch, of the dialogs' answers (a request is answered or
  fails), of what is under way for previews (a program ends or breaks: those for pictures
  have time limits, `thumbnails.mjs:84`; ffmpeg for videos has none and is assumed to end),
  of the storage page's replies, refreshes and scans; strong fairness of the inventory's
  fetch, as requests to it come again and again.
* `pages`: weak fairness of the requests in flight (`Requests`) and of the server's
  look at the host: each is answered or fails. Polls are left out of `Settles` (`Polled`).
* `browser`: weak fairness of the observer, the answers, the timer that retries and the
  operation's reload; strong fairness of a listing's success: reads that are tried for
  ever succeed again and again. Nothing is assumed of the viewer.
* `pub_reach`: weak fairness of steps, the interval and the writes; strong fairness of
  the loop's look at each container and of detection. The violation is not a missing
  step: the loop runs for ever and passes the container over each time.

## What is proved

Eight modules hold theorems, each for **every** value of the constants: any set of jobs,
tasks, accounts, files or pages, any limits, restarts, failures and loads under way. The
assumptions are those the modules state of their constants, which TLC evaluates in every
run of the module: bounds are naturals, kinds are among the known ones, `None` and the
like are none of the values they are told apart from. The modules `MC...` leave the
constants of their parts to the `.cfg` file, so a theorem about a property of `control`,
`library`, `browser`, `pages` or `agent` is about all such instances too.

An invariant is seldom inductive as a run states it. Each proof therefore names a stronger
one, shows that it holds at first, that every action keeps it (one lemma per action, for
the larger modules), and that it implies what the run checks. These were model-checked on
the instances of the runs before they were proved.

**`Operations_proofs`**, of the job engine and what it promises:

* `Typing` (`TypeOK`), and `MutualExclusion` (`OneMutation`), which says of which awaits
  hold the slot *and* that the slot is taken only then, so it is inductive given the types.
* `SingleUse` (`NeverReplayed`) is not inductive: a restart reads a journal that lags behind
  memory. `RunInv` says why the lag is harmless: along journal, chained writes and memory
  the approval of a job never becomes unused again (`Monotone`), a job's own pending save
  already has it used (`Own`), from "queueing" on it is used in memory and from
  "scheduled" on in the journal (`Stages`), and a started job is not before its start (`Once`).
* `NoLostMutation` (`CommitsFromPreviewed`): only the holder of the slot writes the host,
  so `MutualExclusion` is used.
* `Implementation` (`ImplementsLedger`): `Operations` read through a refinement mapping is a
  `JobLedger`. A write of the journal is a step of the ledger because no record goes back
  along journal, chained writes and memory (`Ordered`) and nothing is settled in memory
  before its approval is in the journal (`Settling`), so an entry never jumps from
  previewed to settled. A start is a `Begin` because of `MutualExclusion` and `SingleUse`.
* What a commit leaves behind: `RollbackBeforeChange` (`RollbackJournaled`),
  `DirectoriesBeforeNext` (`DirectoriesJournaled`), `HonestOutcome` (`OutcomeIsReal`) and
  `CancelledStaysOut` (`CancelPreventsChange`), from three invariants. `IoInv`: a suspended
  call waits for exactly one write of the chain, its last save, so when that is done the
  journal has what it saved. `ChainInv`: nothing said of a commit is taken back along
  journal, writes and memory (`Below`), so later saves of other jobs, which copy all
  records, cannot lose it. `WorkInv`: what each job's record says at each await
  (`StageOf`), what the journal says of it (`JournalOf`), when it has written at all
  (`WroteOf`) and which parts of the host it has changed or restored (`HostOf`). Edits by
  hand are why each property sets `overtaken` jobs apart.

**`Scheduler_proofs`**, of the protection scheduler:

* Without renewals by ACME, `MutationsSerialized` (`Serialized`) and `RunsAreOfSavedTasks`
  (`RunsSavedTask`): the slot is taken exactly while one job is under way (`Slot`), the tick
  never comes to a renewal (`Ticking`), and what an applying job was planned from is still
  the registry (`Planning`). With renewals both are false, which `sched_renewal` shows.
* Without administrators' jobs, `RunsOncePerDue` (`OncePerDue`), renewals and restarts
  included. `OnceInv`: a read of `runtime.json` that is still to be written back has the
  times that are on disk (`Reading`, `Writing`), as one job at a time records (`OneAtATime`),
  and every job's due time is before the task's next (`Times`).
* `ShownStaysFinal` (`ShownIsFinal`), until a restart: `ShownInv` follows the status of each
  task from the tick or the job to the disk. It needs that no two records interleave with
  different tasks: either nobody but the tick's runs records, or there is one task. The
  disagreements below tell what happens otherwise.

**`ShareActivation_proofs`**, for any fragments, failures, stops and reboots:
`NoopsAreActive`, `ActiveIsServed`, `RecordIsWhole` and `RollbackIsComplete`. The invariant
says how far the files are written and over what (`Written`), that what is applied and what
is recorded is one configuration (`Wholes`), and what the services run meanwhile: while
nothing was cut short, their file or the one before, with the reload that is needed still
to come (`Orderly`); afterwards at least the shares that the record, or the absence of a
needed reload, vouches for (`Trusting`). `Trusting` fails without the exclusions of
`misled`, which is how those were found: with one failure TLC does not see them.

**`Agent_proofs`** carries these two modules' theorems to the properties of `agent`:
`RunsOnce`, `ShownStaysFinal`, `MutationsStaySerial`, `RunsAreSaved`, `RecordsAreActive`
and `FilesStayWhole`.

**`Control_proofs`**, of the parts of `control`:

* `LogStaysKept` (`LogIsKept`) and `LogMovesOn` (`FileMovesOn`). As with the journal, file,
  queue of copies and memory are ordered, each going on from the one before
  (`LogsOrdered`), each is chained and holds only events that were added, the newest
  first (`LogsSound`), and a request that waits has its event in the copy its write will
  store (`Waited`), so that once it is answered the file has the event or newer ones in its
  place (`Acknowledged`). That exactly as many newer ones as are kept then stand in the
  file is a fact of cardinality (`AllNewer`).
* `FactorsDoWork` (`FactorsWork`), from `FactorsInv`: a pending entry is the last code
  issued of its kind, and for its phone (`Latest`, `ForItsPhone`), numbers are given out
  once and used once (`GivenOut`, `UsedOnce`), and what is enabled was entered.
* `OldSessionsDoEnd` (`OldSessionsEnd`) and `DirectoryStaysSound` (`DirectoryIsSound`), from
  `UsersInv`: what each suspended handler found is still so, or it is one of those set apart
  (`HandlersKnow`), and each session is of a current password and an enabled account, or
  late (`SessionsStand`).
* `MachinesStay` (`MachinesKeepDisks`) and `FailureLeavesNothing` (`FailedLeavesNothing`),
  from `MachineInv`: what the domains and the directory of a name may hold at each step of
  the one request that is at work on it.
* `AppsStayOpen` (`InstalledStaysOpen`), from `AppsInv`: the port of an instance in
  `opened` is open, and no other instance runs on it, is listed with it or is being removed
  with it (`Claims`), so no request closes it. A start of another on the same port takes
  an instance that is stopped out of `opened` (`StillOpenApart`).
* `ProxiesStayRecords` (`ProxiesAreRecords`) and `RemovalIsOwn` (`RemovesItsOwn`), from
  `PublishersInv`: unless disturbed, a container has one worker at most (`OneIsBusy`), its
  listener is that of its record or of that worker's step (`ProxiesHold`, `Fits`), and what
  is closing is its own (`ClosingOwn`). What is saved at last is what the workers wait for.

**`Library_proofs`**, of the parts of `library`:

* `ReportsAreTrue` (`ReportIsTrue`): each file is with one worker or in one list of the batch
  (`Sharing`), and the copies stored are the answers heard and unheard (`Counting`); a
  task of the dock says what the server did, as far as the window was told (`Told`).
* `UploadsDoArrive` (`UploadsArrive`), from `UploadInv`: client, session, handler and file
  agree on the chunks written so far (`Agrees`), through lost requests and restarts.
* `ContentDoesArrive` (`ContentArrives`), from `ContentInv`: the same for images, and every
  listed file is whole or was never to be checked (`Listed`). Of previews (`MediaInv`), what
  is kept for a key, or being made for it, is of the key's version or a newer one
  (`MediaKept`), a video that is found is whole, and each caller's key is no older than what
  it asked for (`Caller`). Of conversions (`ConversionInv`), what each of them may find under
  its output's name at each await, unless disturbed or robbed (`Foreseen`). The arithmetic of
  ranges is proved for files of every size.
* `DeedsStayShown` (`DeedsAreShown`). On the storage page (`PageInv`), replies coming in
  order, once an operation's own read has been shown every read still to come was answered
  after the operation (`Newer`). Of the dialogs (`EntryInv`), an inventory asked for while
  the host was at rest finds it at rest (`ReadFits`), so the container manager opened with
  it shows the guest as it is until its own save is done (`FormFits`), and a save sent so is
  alone at work (`SentFits`): it changes what was entered and no more. The theorem, as the
  run, is about `Overtaking = FALSE`, without which the first half is false.

**`Browser_proofs`**, of the parts of `browser`:

* `ListingsBelong` (`ListingBelongs`). On the files page the loads under way and what is
  remembered are of their sections (`FilesHolds`). In the viewer (`ViewerInv`), every
  picture still to come is for the file it will be shown with, and unless a document is
  late nothing else is on the stage (`StageInv`); the editor shows the edits at its place in
  the history, and the saves under way hold what was seen (`EditorInv`).
* `DeedsStayShown` (`DeedsAreShown`). After a certain operation every answer to a read of a
  part shows it, and of the copies of the part on the page only the first may not
  (`AddedInv`); the disk, the list of all files and all that is read of the section show it,
  and the operation waits for a load of its own section (`ListInv`). Every step of the open
  editor leaves its history, pushes on the stack to undo, or moves one element from a stack
  to the other, from lemmas about `SubSeq` (`UpTo`, `FromOn`, `PushedStands`).

**`Workspace_proofs`**, of the pages of the control center, for any number of pages, loads,
forms and timers:

* `PagesStayRight` (`PageIsRight`) and `DeedsDoShow` (`DeedShown`), from `WorkInv`: of the
  loads under way one at most is a form's, and it has read what the form changed or will
  (`LoadsHold`, `Fresh`), what is drawn is what is held (`Drawn`), and only a submitted
  form's page is gone to (`Went`).

In all about 20100 obligations, with nothing left unproved.

Only model-checked: the liveness properties (`SlotFreed`, `ApprovedJobEnds`,
`DueIsClaimed`, `BatchEnds`, `DisksDetected`, `Settles`, `PagesFill`), as fairness and
`ENABLED` are beyond the prover.
Induction over data is out of reach as well: the chain of the log needs none, as
`ChainIntact` speaks of each event and the one before it.

## Disagreements between the code and what is said of it

With a run:

1. `operations.js:69`: a cancellation accepted while the no-op test of a share job awaits
   does not stop the commit (`ops_cancel`); the framework's document says "cancellation
   before commit". `CancelPreventsChange` tells which jobs are safe.
2. `features.js:35`: the tick tests `busy`, awaits, then takes the slot: a renewal and a
   job run together, and the renewal frees the job's slot (`sched_renewal`).
3. `server.mjs:472`: a container whose address changed stays unreachable (`pub_reach`).
   Other paths to the same end: a stop between the save and `firewall-add`
   (`:396`-`:398`); an unpublish whose `firewall-remove-port` arrives after the port was
   given to another publication.
4. `runtimes-next.mjs:1592`: a renamed machine leaves its disk in the directory of its old
   name, and the clean-up of a failed creation under that name removes it (`vms_rename`).

Found while modelling, by TLC with other bounds or properties defined in the modules,
without a run of their own:

* `store.mjs:52`: a failed write rejects every later save until a restart.
* `files.mjs:428`: with `Overlap = TRUE`, `DoneIsWhole` fails: two attempts of one chunk both
  advance the session, and the next chunk is acknowledged unwritten.
* `files.mjs:433`: a retry of the last chunk, whose response was lost, is refused.
* `files.mjs:379`, `:394`: uploads begun together exceed the quota, or lose a reservation;
  `:314`-`:317`: a refused upload never returns its reservation.
* `storage-pools.mjs:412`: with `Overlap = TRUE`, `ListedIsWhole` fails: two transfers under
  one name write one hidden file, or replace what the other stored.
* `storage-pools.mjs:414`: a chunk that fails removes those before it, and the retry of
  `storage-manager.js:274` is refused for its position at `:400` (`ResumesAfterFailure`),
  although a test (`test/installer-files-appstore.test.mjs:147`) speaks of resumable
  chunks. `:389`: each chunk asks for room for the whole file again (`FitsIsStored`).
* `thumbnails.mjs:74`: pictures are written where they are found. Part of one is served while
  it is made, and when the program fails, is stopped by its time limit or by a restart, part
  of it stays and is served for good. A restart, or an upload whose state cannot be saved,
  forgets what was to be prepared, and uploads by the phone's synchronisation are never put
  in the queues; it is made when asked for.
* `media.mjs:14`: the converter is found free before two awaits and taken after them
  (`:25`), so that two programs run, although the answer says "Another conversion is in
  progress." `:30`: a conversion that fails, for example as its name was taken meanwhile
  (`-n`), removes what is there under the name: what another conversion or an upload has
  made (`OutputsStay` without `disturbed`). A restart leaves part of an output, which then
  blocks its name (`:16`).
* `operations.js:17`: overlapping previews exceed the documented cap of jobs.
* `ShareAdapter` (`operations.js:135`, `:138`, `:139`), each found by dropping `~cutShort` or
  `~misled` from a property with two or more failures. The record is not withdrawn while
  files are written: when the files that come back are those it names, in a rollback or in
  the commit after one that was cut short, and the reloads do not follow, the service runs
  something else and a request is answered as a no-op (`ActiveSharesServed`). A stop
  between the three writes leaves half a configuration; the next commit that fails puts
  that half back, and its reload records it as active (`CurrentIsWhole`). After a stop
  nothing reloads a protocol whose shares were all removed (`NoopIsActive`).
* `protection.js:94`, `:90`: `record()`, and the save and the deletion of a task, read
  `runtime.json`, await and write it back. With two tasks and an administrator's deletion
  TLC finds a claim erased by the write of what was read before it, so that a due run is run
  twice (`OncePerDue`), and a final status overwritten (`ShownIsFinal`); an administrator's
  run does the latter too. The comment at `features.js:31` says "Claim one run durably before
  execution; never replay a missed/active run on restart." The instance with
  administrators has one task.
* `features.js:30`: a due time missed while the agent was down is run at the next start;
  the documentation says never, a test relies on it.
* `container-publish.mjs:98`: two workers that reconfigure one container can leave a
  listener without a record; `:104`: `remove()` closes the proxy of another container;
  `server.mjs:2148`: a stop after a container's deletion leaves its publication;
  `server.mjs:2138`: an unpublished container of the private network is published again.
* `server.mjs:1959`: a password changed by `PATCH /api/settings` whose synchronisation with
  Samba fails leaves the old sessions, as does one by either route whose save fails
  (`:1487`, `:1957`), which is in memory by then (`PasswordSignsOut`; `README.md:59` says
  that password changes sign out every session); `:1548`: two users of one name.
* `server.mjs:1029`: a code that was sent is removed by the failure of another send
  (`CodeLasts`, of the message "It expires in 5 minutes").
* `runtimes-next.mjs:622`: an update takes away a device attached meanwhile; with `Overlap`
  two requests about one machine break `MachinesKeepDisks`.
* `app.js:3256`: without `Stale`, or without the condition of `StillOpen`, a removal closes
  the port that another instance has by then: the port is the one an older list showed.
  An instance on an automatic port gets another after a restart, which the firewall does
  not let in.
* `app.js:2787`, `:2198`, `:1254`: `AwaitedIsShown` fails for the logs, the admin center's
  settings and the hypervisor page: the loader that brings the data does not draw the
  page that waits for it, which `docs/LIGHTNAS-SUPPORT-GUIDE.md:113` tells the user to
  reload.
* `app.js:1288`: without `Overlooked`, `AwaitedIsShown` fails on the integrations page and in
  its section of the admin center. Both read the containers (`app.js:2616`), which
  `loadContainers()` stores and draws on the containers page only: when the user leaves that
  page while they are being loaded and the inventory then fails, the live status of system
  containers stays at "Checking container provider…".
* `files.mjs:266`: a list of all files put together while an operation invalidates the
  cache is stored afterwards; `:242`, `app.js:3070`: a conversion invalidates nothing.
* `storage-manager.js`, `admin-security.js`: an error stays in the slot; a part can be
  inserted twice, or on another page than it was read for.
* `dialog-controls.js:1159`: the editor of a virtual machine opens with the inventory the
  window keeps, which a save does not clear: a second save undoes the first (`AsEntered`
  for every kind fails).
* `dialog-controls.js:389`, `:413`: the wizard takes the inventory the window has, which the
  containers page filled with a summary without storage, and refuses to open
  (`WizardHasChoices`); the comment at `server.mjs:1975` says that "the creation wizard
  requests the full inventory when it is opened".
* `dialog-controls.js:189`: several windows overwrite each other's saved tasks.
* `enhancements.js:932`: a document fetched while another file is opened comes on the
  stage beside it and takes over its buttons, Delete included (the question names the
  file that would be deleted); when the viewer was closed it opens again. `:935`: a
  document that fails leaves its title over the buttons of the file before.
* `enhancements.js:774`: a copy is named for the photo the editor is open on when the
  picture has been encoded, which may be another; the answer closes that editor too
  (`:789`), and a second press of Done saves twice. `:701`: on a phone, where the
  original is never loaded, the copy is made from the thumbnail. `:179`: the filmstrip's
  pictures are those of an older listing. `:606`: none of this touches the history, which
  is a stack.

## What is not modelled

* Contents: paths, validation, rendering of configuration files and pages, provider
  protocols, output of commands. They are functions of their input.
* Power loss between a write and the disk: `rename` is atomic and durable here. The state
  file is renamed without a sync (`store.mjs:55`).
* The throttle of failed sign-ins (`server.mjs:160`) and the rate limit of the SMS
  gateway: counters over time.
* The agent's adapters beyond what the job engine does for them, and its event stream;
  the broker (`server.mjs`), a table of routes; the files of certificates.
* LXC containers and Proxmox: commands whose state is theirs. Growing a disk, the boot
  key of installers, credentials and readiness of applications, traffic through a proxy.
* Permission tables (`access.mjs`), identity providers, licences, features, mail: functions
  of their input or single requests.
* Host agents, installers, image builder: scripts that run one command per request.
* Drawings (SVG), which are sent as they are; archives of a folder, which are streamed and
  keep no state; the rendition of the product as a hypervisor only (`LIGHTNAS_PRODUCT_MODE`),
  which hides pages.
* In the browser: dialogs for disks and the network, the forms for guest drivers and
  licences, the chat, favorites, sharing and duplicates of files, videos, several windows.

## Plan

1. *Done*: the core with its proofs, then the control plane and the browser as above.
2. *More of the system*, when a run has room: the network dialogs with the firewall's rule
   numbers (a rule is deleted by a number that another change may have shifted); the
   agent's event stream composed with `Operations`; the files of certificates composed
   with `Scheduler`; sign-in throttle and rate limits; several windows of one browser.
3. *More proofs*: done for every safety invariant and every action property of the
   passing runs; the liveness properties stay with TLC.
