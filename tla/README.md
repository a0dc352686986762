# A TLA+ model of gDrive and its Dokan file system

gDrive shows a Google Docs account as a Windows drive. It is a Dokan
application: the kernel driver under `dokanlib/sys` turns file requests into
events, the user library under `dokanlib/dokan` fetches them and calls the
functions of the application (`gDrive/src`), and the application talks to the
service through `comm`. The hard part of the system is the traffic between
driver and library, where system threads, spin locks, cancel routines, timeouts
and several mounts of one device meet; half of the model is about it. The rest
follows what builds on that traffic: listings, renames and deletes through
handles, drive letters, the tokens of the account, and the lookup of its files.

Paths below are relative to the repository.

## 1. The system

### 1.1 Components

| component | code | state | operations |
|---|---|---|---|
| Pending IRP list | `dokanlib/sys/event.c`, `timeout.c`, `notification.c`, `write.c` | list of `IRP_ENTRY` with a spin lock, the cancel routine and `DriverContext` of each IRP, the event of each request | register, notify, cancel, answer (`IOCTL_EVENT_INFO`), fetch the data of a big write (`IOCTL_EVENT_WRITE`), time out, release at unmount |
| Event delivery | `dokanlib/sys/notification.c`, `event.c`, `dokanlib/dokan/dokan.c` (`DokanLoop`) | list of undelivered events, list of waiting loop threads, a `NotEmpty` event each, mount identifier | send an event, wait for an event, pair the two lists, cancel a wait, release the waits |
| Device threads | `dokanlib/sys/timeout.c`, `notification.c`, `event.c`, `device.c` | `Mounted`, `MountId`, two thread pointers, `KillEvent`, `ReleaseEvent`, the tick of the last keep-alive | mount, keep-alive, forced unmount, release, stop of each thread |
| Open files | `dokanlib/sys/create.c`, `cleanup.c`, `read.c`, `dokan.c`; `dokanlib/dokan/create.c`, `cleanup.c`, `close.c`, `read.c` | FCBs with their counts, CCBs with mount identifier and user context, `DOKAN_OPEN_INFO` in the application | create, operate, cleanup, close, and the answers |
| Other file operations | `dokanlib/sys/directory.c`, `fileinfo.c`, `lock.c`, `flush.c`, `volume.c` | search pattern and index, delete-on-close flags | query, set, lock, flush |
| Driver set-up | `dokanlib/sys/init.c`, `device.c`, `fscontrol.c` | devices, `DokanGlobal` | create and delete devices, dispatch control codes |
| Library: dispatch | `dokanlib/dokan/directory.c`, `write.c`, `setfile.c`, ... | list of directory entries per handle, `UserContext` | turn an event into a callback, fill the answer |
| Library: mounting | `dokanlib/dokan/dokan.c`, `mount.c` | list of instances, loop threads | `DokanMain`, `DokanUnmount`, `DispatchUnmount` |
| Mount service, dokanctl | `dokanlib/dokan_mount`, `dokanlib/dokan_control` | table of mounts by drive letter, a pipe, a service wait | mount, unmount, list, notice of a forced unmount |
| Mirror sample | `dokanlib/dokan_mirror`, `gDrive/src/mirror.c` | none of its own | forwards each callback to Windows |
| Virtual drive | `gDrive/src/vDrive.cpp`, `gdrive.cpp`, `ctree.cpp` | tree of folders and files | resolve a path, list a folder, read a file |
| Credentials, preferences | `gDrive/src/gdrive.cpp`, `Preferences.cpp` | tokens and their time, in memory and in SQLite | load, save, renew |
| Google Docs client | `comm` | an HTTP client | obtain and renew tokens, list and download files |
| Tracing, strings | `gDrive/src/trace.cpp`, `ictrace.cpp`, `StringConversions.cpp` | | |
| Vendored code | `libcurl`, `jansson`, `gDrive/src/sqlite3.c`, `dokanlib/sys/ntifs.h`, gSOAP | | |

### 1.2 How they interact

A request enters the driver on the thread that issued it. `DokanCheckCCB` looks
at the mount; the dispatch routine allocates an event, stamped with the mount
identifier, and registers the IRP in `PendingIrp`; the event joins
`NotifyEvent`. The notification thread pairs events with the waits of the loop
threads of the application. A loop thread drops an event of another mount;
otherwise it calls the application and sends the answer, which takes the IRP
off the list and completes it. The timeout thread completes what nobody
answers; a cancellation completes an IRP from its cancel routine; an unmount
completes everything that is pending, with the two threads stopped at the end.
The unmount is asked for by a process, or decided by the timeout thread itself
when the application has sent no keep-alive for too long.

A program that mounts takes a free device from the driver and asks the mount
service, through a pipe, to define a letter for it; `dokanctl`, or the library
when the program ends, releases the device through the letter and then asks the
service to remove the letter. gDrive loads and renews its tokens before it
mounts, and asks the server once for each name of each path it is given.

### 1.3 What is hard

* The cancel routine of an IRP reads `DriverContext` before it takes the list
  lock, while five other parties unlink, free and hand over the same entry.
* The `Mounted` flag is read and written without a lock.
* `NotEmpty` is a manual-reset event that is cleared for both lists after a
  pairing, and set by threads that hold at most one of the two locks.
* Lists, events and waits outlive the mount they belong to.
* `DokanEventRelease` takes no lock (both calls are commented out), is not
  idempotent, and may run on a thread it waits for.
* The driver finishes requests that the application still works on.
* FCBs are shared by name, and live in between two resources.
* The library goes on with a query or a rename that the driver has given up, and
  keeps what it found or wrote.
* An event carries the name the file had when the request was dispatched.
* Letters, devices and the service's table are changed one after the other by
  processes that may end in between.
* A cleanup closes its handle and then deletes by name.
* Tokens are saved row by row; a path is looked up request by request.

The `hazards` of `PROJECT.json` give each of these, and the smaller ones, the
line where it bites and the properties that watch it. Hazards without a property
carry a note that says why.

### 1.4 What makes each component correct

* Pending IRP list: every IRP has one owner at any time and is completed once,
  for a reason; no entry, event or buffer is used after it is freed; a pended
  IRP is completed in the end.
* Event delivery: no wakeup and no event is lost, no wait answered twice; a release
  returns.
* Device threads: a mounted device has its two threads, each is dereferenced
  once, an unmounted one has none; a silent application is unmounted.
* Open files: the FCB count equals the number of holders; a callback never sees
  a freed or missing open info, nor one of another mount; callbacks come in the
  order of a session.
* Other file operations: the pages of a listing are one listing; a pattern means
  what its description says; an open file keeps its name through renames, its
  Win32 handle through concurrent callbacks, and a delete deletes that file.
* Mounting: a letter leads to the device that is mounted for it, a program keeps
  its drive, and who takes it away had a reason to.
* Credentials: the refresh token survives crashes and failed renewals; an expired
  access token is not used.
* Virtual drive: a path finds what it names.

## 2. Modules

| module | models | TLC instance |
|---|---|---|
| `RequestService` | abstract: what the issuer of a request is promised | through `PendingIrp` |
| `PendingIrp` | pending IRP list | `MCPendingIrp` |
| `Lists` | pure: linked lists as sequences | through the modules that have lists |
| `EventDelivery` | lists of events and waits, notification thread, loop threads | `MCEventDelivery` |
| `DeviceThreads` | mount, keep-alive, release, the two threads | `MCDeviceThreads` |
| `FileSession` | abstract: the order of the callbacks of one open file | through `OpenFiles` |
| `OpenFiles` | FCB, CCB, open info, through driver and library | `MCOpenFiles` |
| `NameExpression` | pure: `DokanIsNameInExpression`, and what its comment says | through `DirectoryListing` |
| `DirectoryListing` | directory queries of one handle, driver and library | `MCDirectoryListing` |
| `RenameDelete` | rename, delete on close, `Context`, with the mirror sample | `MCRenameDelete` |
| `MountService` | `DokanMain`, mount service, `dokanctl`, letters and devices | `MCMountService` |
| `Credentials` | tokens of the account, in memory and in SQLite | `MCCredentials` |
| `VirtualDrive` | pure: `findFile` and listings against an account that changes | `MCCredentials` |

`X_proofs` has the theorems about `X`, for `PendingIrp`, `EventDelivery`, `DeviceThreads`,
`OpenFiles`, `DirectoryListing`, `RenameDelete`, `MountService` and `Credentials`; see 4.

The modules cut the driver along its lists: each keeps what the others need in a
coarser form. `EventDelivery` sees a request as an event; `PendingIrp` sees the
delivery of an event as one step (`Deliver`); `DeviceThreads` leaves out the
lists; `OpenFiles` has an IRP that is pending or done, and `RenameDelete` and
`DirectoryListing` build on that, with the name of the file or the pages of a
listing added and mounts left out. `MountService` has a release as one step.
Where two modules show the same code, it is the finer one that answers for it.

Every module that has slips (`RegisterSilently`, `FreeFCBTwice`, ...) uses them in no
action of `Next`. They are the plausible mistakes the properties were tried against:
each property of a passing run is violated when one of them replaces the
definition it is a variant of (`mutants` of `PROJECT.json`).

### 2.1 `PendingIrp`

One IRP has one entry, one serial number and one event, so the name of the IRP
stands for all of them, and it is used once. Three kinds: reads (every request
without a write buffer), small writes, whose event is also stored in
`DriverContext` while they are dispatched, and big writes, whose data the
application fetches separately.

| variable | code |
|---|---|
| `mounted` | `DeviceExtension->Mounted` |
| `list`, `lock`, `linked` | `PendingIrp.ListHead`, `ListLock`, the links of the entry |
| `cancel`, `armed` | `Irp->Cancel`, `Irp->CancelRoutine` |
| `ctx`, `bufCtx` | `DriverContext[DRIVER_CONTEXT_IRP_ENTRY]`, `[DRIVER_CONTEXT_EVENT]` |
| `mem`, `entryIrp`, `freeMem`, `age` | the `IRP_ENTRY`: allocation, `Irp`, `CancelRoutineFreeMemory`, `TickCount` |
| `phase`, `routine`, `timeout`, `release` | how far the dispatch routine, the cancel routine, the timeout thread and `DokanEventRelease` have come |
| `taker` | who has the entry on a private list |
| `event`, `user` | the `EVENT_CONTEXT`, and what the application did with it |
| `completions`, `outcome` | `IoCompleteRequest` |

A critical section is one action when all it touches is protected by its lock.
It is split where something else can see the middle: registration arms the cancel
routine, tests `Irp->Cancel` and stores the entry in three steps, because
cancellation does not take the list lock; the cancel routine reads its context,
unlinks and completes in three; the timeout and the release take entry by entry
with the lock held, then complete entry by entry without it.

An IRP of `Cancellable` is cancelled at any time, also while its dispatch routine runs
(`CancelIoEx` does not wait for it), and a big write is one of them. What the code does
not get right then is recorded by three history variables. `missed` has the IRPs
whose cancel routine came before the registration had stored the pointer it reads;
`outrun` those whose entry the cancel routine unlinked before their dispatch
routine had returned; `rearmed` says that `IOCTL_EVENT_WRITE` has put a cancel routine back
while it was running, after which the list leads to freed memory. `HandOver` leaves
out the first, `EventFreedOnce` the second, and the safety properties speak of the time before
the third. Each of the three exceptions is a disagreement with a comment of the code, which is
stated as a property of its own and fails (see 5).

### 2.2 `EventDelivery`

A loop thread `<<m, n>>` is the n-th of the m-th mount, its wait has its name.
`Locked` is the time `NotificationLoop` holds both spin locks; it moves one pair
per action, since cancellation takes the cancel routine of a wait without any lock.
Inserting an event and setting `NotEmpty` are two actions, as in the code; the
registration of a wait does both under the lock and is one. `Long` events do not
fit the buffer of `DokanLoop`: they are pushed back and the wait fails.

### 2.3 `DeviceThreads`

Thread n belongs to the n-th mount. A release is a small program (set
`KillEvent`, wait for the thread, dereference it, then the same for
`ReleaseEvent`) that any process in `Users`, or a timeout thread, executes. The
wait is for the thread the pointer named when the wait began, the dereference
is of the thread it names when the wait is over, as in the code.

Any process may release at any time: while a mount starts, and a device that is not
mounted. The code guards against neither. Two history variables say of which mounts that
happened, and the properties make their exceptions for those mounts alone:
`overlapped` has the mounts whose start overlapped a release that was not stuck,
`twice` those of which a release began when they were no longer mounted. What goes wrong
with them is in 5.

### 2.4 `OpenFiles`

A file object is opened once. `irp` is the progress of each of its IRPs through
the driver, `event` that of its event through the application; `stage` is what
the I/O manager knows, which decides when it sends a cleanup or a close. The
driver keeps a pointer to the `DOKAN_OPEN_INFO`, modelled as whether it has it. FCBs are
known by the file object whose create allocated them. `DokanGetFCB` and `DokanFreeFCB`
each run under the resource of the VCB and are one action each. Close is split in
five, since it frees the CCB and the FCB before it queues its event.

Every request may be given up by the driver, and a mount may begin at any time,
also between a handler's `DokanCheckCCB` (or `DokanAllocateCCB`) and its
`AllocateEventContext`. Two history variables record for which file objects that mattered:
`givenUp`, that the driver has finished an operation or a cleanup nobody had answered,
and `crossed`, that a mount began between a check and an event. The properties except
those file objects, and no others, from what they promise; the second is no exception from
the first promise, nor the other way round. `Drop` is the test of `DokanLoop` as the code has it: any other
`MountId` than its own is dropped, by a loop of an earlier or of a later mount.

### 2.5 `NameExpression` and `DirectoryListing`

One handle, whose issuer asks for one page after the other. `pattern` and `context`
are those of the CCB, `list` is `DirListHead`, `event` the progress of a query
through `DispatchDirectoryInformation`: finding, matching, answering. The driver
may give a query up at any time, and its answer is then dropped, but the library
has changed `list` all the same. A page is the longest run of entries the buffer
takes, entries having the size `Size` gives them. The directory changes between
queries. `scan` is a history: what the issuer has got since it last asked for the first
entry, and which readings of the directory that came from.

`DokanIsNameInExpression` is a function of the two positions, in place of the
recursion of the code. What the code reads without having written it (`lastDot`,
the characters behind the name) is the parameter `unwritten`, over which the
properties quantify. `InExpression` is the reference, the comment above the function: cut the
name into one piece for each character of the pattern. `MatchAsDocumented` says that the code does the same, and is
violated (see 5). `MatchMissesNothing` is what is left of it; `MatchSettled` says, of
patterns with any wildcards, for which of them `unwritten` makes no difference.

### 2.6 `RenameDelete`

| variable | code |
|---|---|
| `fcb`, `fcbName`, `fcbUsers`, `flag` | `ccb->Fcb`, `fcb->FileName`, `fcb->FileCount`, `DOKAN_DELETE_ON_CLOSE` |
| `irp`, `event` | each request in the driver and in the library |
| `name`, `copy`, `target`, `deletes`, `failed` | the event and the `DOKAN_FILE_INFO` of its callback |
| `context` | `openInfo->UserContext` |
| `disk`, `win32`, `pendingDelete` | the mirrored directory, the handle `MirrorCreateFile` opens, files that go with their last handle |

Dispatch puts the name of the FCB into the event; the callback runs later, with
the copy of `Context` it got when it began; its answer writes the copy back,
and for a rename changes the name in the FCB. Each of these is an action, and
other handles act in between. The callbacks that close the Win32 handle are two actions:
`CloseHandle` leaves the event "closed", and what follows (`MoveFile` of a rename,
`DeleteFile` of a cleanup, by the name in the event) comes when other handles may have
moved, deleted or created what the name stands for. `DeleteFile` may fail, which is only
logged. `outlived` has the handles whose file had gone by then, `strayed` those that
deleted the file of another, `refused` those whose `DeleteFile` failed.

### 2.7 `MountService`

A program starts (the driver tries one device after the other), mounts, serves,
and ends or fails; a tool, and a program that ends with an instance left, releases the
device and then asks for the unmount. The pipe has one instance: a client that comes while the
service is connected is turned away. `defined` is what a letter means to Windows,
`table` what the service remembers, `mounted` what the driver knows.
`ForceUnmount` is the keep-alive check. The service may be stopped and started
again. A program may end at any point, from the insertion of its instance
(`dokan/dokan.c:163`) on: `DllMain` then unmounts the letter of the instance, whether or
not the program has got it (`Exit`; `Unserved` are those that have not). A program or tool may also be
killed at any point, between two calls of an unmount too, and then does nothing more. `stray`, `failed`, `bereft` and
`harmed` are history: they say which letters and programs have met one of the
causes the properties except.

### 2.8 `Credentials` and `VirtualDrive`

`db` is the table `PREFERENCES`, `step` how many statements of its save a program
has behind it; a statement is an action, and it fails unnoticed when another
program has the file locked. A program may end before any of them. A token is the
number of the renewal it comes from, `issued` when that was answered; the time that
is read back is wrong by `Offset`, the difference between local time and UTC.

`VirtualDrive` has no state: what `findFile` keeps between two requests is local
to it. An account is the list of its items in the order of the server, with the parents
of each, and a lookup is a function of the accounts its requests see. It has
the omissions of the code: only the first page of an answer, only the first parent of an
item of the root, the first item of several with one name. The name of an item is that
under which it was uploaded, when it has one, whatever its title is now (`ShownName`,
`ResponseParser.cpp:166-170`). `Chains` and `Exact` are the
reference: what the path means by these names. The module extends
`Credentials`, since lookups happen while a program serves (`PathsResolve`).

## 3. Runs

TLC's instances are small but have every party at least once, and the parties
that race twice.

| run | instance | shows |
|---|---|---|
| `irp_core` | a small and a big write, both cancelled at any time, 2 mounts, 1 release | one owner, no use after free, one verdict for its own reason: `PendingIrp` implements `RequestService` |
| `irp_live` | a read cancelled at any time, a big write, timeout of 2 ticks, no unmount, fairness | completed in the end |
| `events` | one event that fits and one that does not, one loop thread for each of 2 mounts, waits cancelled | lists and waits, without fairness |
| `events_live` | one event, two loop threads, one mount, fairness | a waiting thread is served, a release returns, the loop threads end after it |
| `device` | a process, two releases at any time, keep-alive on or off, 2 mounts, fairness | the threads of the device over two mounts, and what overlaps and second releases do to them; a silent application is unmounted, a release returns |
| `device_keepalive` (violation) | one process, keep-alive, one mount | `StopsTimeoutThread` fails: see 5 |
| `handles` | one file object with two operations, 3 mounts at any time, every request may be given up | open infos, `OpenFiles` implements `FileSession` |
| `handles_shared` | three file objects of one name, one mount, every request may be given up | FCBs |
| `listing` | three queries, two directories of two and three names, three patterns, two kinds of page, one change; 656 patterns against 7 names | pages of a listing, `DokanIsNameInExpression` |
| `names` | two handles on two names, one renames, both delete; renames may be given up; a file created directly | name of the FCB, `Context`, delete on close |
| `mounts` | two programs, two tools, two letters, two devices, one stop of the service; programs end, and all may be killed, anywhere | letters, devices and programs fit; who can take a drive |
| `gdrive` | two programs started three times in all, a token that lives 2 ticks, 3 ticks, clock ahead by 1; 640 accounts of three items | tokens; lookups |

Why these bounds are enough to meet the interesting cases:

* Two IRPs in `irp_core`: the timeout takes a prefix of the list, so it needs an entry that
  has timed out and one that has not; answer, timeout, release and cancellation can meet on
  either. The small write has the event that may be freed twice, the big one the cancel
  routine that is put back; a read has nothing that they lack. A second mount
  starts a new timeout thread over entries of the first. `TimeoutTicks` is the number of
  ticks an entry lives, 1 being the first that tells old from young.
* Two loop threads in `events_live` compete for one event; in `events` the two
  belong to different mounts, so a wait or an event of the first meets the second.
* Two mounts and two releases in `device`: the second release is a second one of the first
  mount, or overlaps the start of the second, or is that of the second; a timeout thread
  may hang in its own release meanwhile. A second process adds nothing to the safety
  properties: with two the instance has 4.3 million states, too many for its liveness. `KeepAliveTicks` = 1 is the first that tells a
  late keep-alive from one in time.
* `handles` and `handles_shared` share the work: what a file object does to its own open info is
  independent of the others, which meet in the FCB alone. Two operations are one that is late and
  one that overlaps it; three mounts are one that opened the file, one that
  crosses it, and one whose events an earlier loop drops. Three opens of one name are one that frees
  the FCB, one that has got it and one that comes.
* Three queries in `listing` are a page, a page given up or a restart, and one
  that shows what either left behind. Each pattern
  leaves out a name of the directory of three, and one name does not fit into the short buffer. Patterns of four characters have every pair of
  `?` and `*` with a character on either side, those of three every DOS wildcard between
  two others.
* In `names` one rename suffices to change a name under an event that is on its
  way, and the second handle makes it one of a shared FCB, or of another.
  The same handle may rename before it deletes, and the one that renames may replace what the other
  is about to delete.
* In `mounts` a letter left behind by the first program is met by the second,
  while a tool unmounts and another is turned away; the second device makes a
  letter that leads to the wrong one possible.
* `irp_live` leaves the unmount out, since that would complete what the timeout has to.
* In `gdrive` two saves overlap, and a third start reads what they left. Three items make
  a folder, a folder in it and a file in that; the page holds two of them.

`mounts`, `releases`, `mountId` are bounded by `MaxMounts` and `MaxReleases`, queries and
changes by `MaxQueries` and `MaxChanges`, restarts by `MaxStops` and `MaxRuns`, `now` by
`MaxTime`.
`age` and `silent` saturate at their limits, where the code only asks whether
they are reached. TLC reports no deadlock on its own account
(`CHECK_DEADLOCK FALSE`): when every request is finished and no mount is left,
a bounded instance has nothing more to do.

Symmetry is used for file objects in `handles_shared`, for programs, tools and letters in `mounts` and for programs in
`gdrive`; all of them check safety only.

### Fairness

The scheduler of the system runs every thread that can run (weak fairness for
threads that go on), a thread that spins or waits for a lock gets it in the end
although others take it meanwhile (strong fairness for the actions that take a
lock), and time passes. In `EventDelivery` the functions of the file system
return. Nothing else is assumed: no request, cancellation, answer, keep-alive,
mount or unmount has to happen.

## 4. Proofs

Eight modules are proved about, each in a module of its own, for every value of the
constants that satisfies the module's named assumption: any number of requests, handles,
programs, mounts and ticks, patterns, names and paths of any length. Every safety property
that a run checks is a theorem; `TypeOK` of `PendingIrp` and of `OpenFiles` are theorems and in no run.

| proofs | theorems | beyond the assumption of the module |
|---|---|---|
| `PendingIrp_proofs` | `TypeOK`, `OneHolder`, `CompletedOnce`, `HandOver`, `NoDanglingEntry`, `EventFreedOnce`, `RefinesService` | nothing |
| `EventDelivery_proofs` | `TypeOK`, `NoLostWakeup`, `EventKept`, `WaitHeldOnce` | nothing |
| `DeviceThreads_proofs` | `TypeOK`, `Serviced`, `ThreadFreedOnce`, `ForcesOwnMount` | nothing |
| `OpenFiles_proofs` | `TypeOK`, `FcbShared`, `ContextLive`, `InfoFreed`, `RefinesSession` | nothing |
| `DirectoryListing_proofs` | `MatchMissesNothing`, `MatchSettled` | nothing |
| | `TypeOK`, `PagesInOrder`, `ListingComplete` | `Alone`, of a state |
| `RenameDelete_proofs` | `TypeOK`, `ContextSound`, `NameCurrent`, `DeleteOnClose` | nothing |
| `MountService_proofs` | `TypeOK`, `DrivesStand`, `HarmNeedsCause` | nothing |
| `Credentials_proofs` | `TypeOK`, `RefreshKept`, `StartsFresh`, `PathsResolve` | nothing |

Except for some of the type invariants none of the properties is inductive. Every
module of proofs therefore begins with `IInv`, the conjunction of named parts that is, and has one
lemma for each action or for each part; `Invariance` joins them, and the other theorems are
consequences of it.

### The assumptions

    Alone == Serial \/ \A q \in Queries : irp[q] # "givenUp"

`Alone` is a condition on a state, and the theorems say `Spec => [](Alone => ...)`: either
`DokanMain` has one loop thread, or, with any number of them (5 unless the application says
otherwise, `dokan/dokan.c:116`), no query of the handle has been given up. Otherwise two
threads work on one `DirListHead`, and names come twice (see 5). The run `listing` has one
thread and lets queries be given up.

No other theorem needs more than the assumption of its module. In particular the others hold for
every order in which requests are cancelled, given up and answered, and mounts and releases
begin; what the code gets wrong is in the exceptions of the properties themselves (`rearmed`,
`missed`, `outrun`; `overlapped`, `twice`; `givenUp`, `crossed`; `strayed`, `refused`, and
so on), and section 5 names them.

The modules' own assumptions say that names are different from each other and from `None`, that bounds are
numbers, for `DirectoryListing` that an entry needs room, no directory has a name twice,
no pattern is one of the two that stand for none, and the names of files (`FileNames`) have no
wildcards in them; for `VirtualDrive` that items have ids of
their own and no folder is in itself (a depth orders them), as on the server; for `OpenFiles` and `Credentials` that there are finitely many
file objects and programs, which are counted (`FileCount`; one renewal a run).

### The arguments

`PendingIrp`. `HandOver`, say, speaks of an entry that has been handed over, and its step
needs what an entry looks like before that. `IInv` says for each IRP in which of eight
situations it is, whoever is cancelled and when:

    Private   only the dispatch routine knows it
    Waiting   on the list, cancel routine in place
    Cancelling  the cancel routine was called; entry on the list or handed over
    Unlinked  the cancel routine has unlinked it and will complete it
    Taken     a thread has it on a private list and will complete it
    Finished  completed
    Overtaken cancelled after its routine was set, before it joined the list
    Stranded  joined the list after that: the cancel routine has passed it by

and fixes in each what every shared field is: `armed`, `ctx`, `mem`, `linked`,
`freeMem`, `taker`, `completions`. `ListInv` ties `linked` to membership of the
list and excludes duplicates, `LockInv` ties the lock to who holds it, `MountInv`
relates the release to the timeout thread, `EventInv` follows the event and the write
buffer. Each action has its lemma: it moves one IRP from a situation to another, and
`UntouchedKeeps` takes care of the others. `TakeEntryKeeps` and `FinishEntryKeeps`
are shared by the three parties that take entries. `IInv` is kept until an `IOCTL_EVENT_WRITE`
puts a running cancel routine back; since `rearmed` is never reset, what is proved of all
behaviours is `Sound == ~rearmed => IInv` (and `TypeOK` without that premise). The properties and the
refinement follow from it. For the refinement each step of `PendingIrp` is a step
of `RequestService` or does not show (`Silent`).

`EventDelivery`. The wait of a loop thread that waits is in one of four hands (`Listed`,
`Paired`, `Freed`, `Cancelling`), that of any other thread in none; an event is on the list or in the
one buffer that `fate` says. `WakeInv` is `NoLostWakeup` without its premise on the
notification thread: what must hold while it pairs, for it to hold when it waits again.

`DeviceThreads`. A mount is clean if no release was under way when it was started (`Clean`, for
the latest). `MountedInv` says that a clean mount is left alone as long as it is mounted;
`ReleaseInv` and `ReleasedInv` where its releases are once it is not, `PastInv` that it is over, or
hangs, before the next clean mount is started, because a release that still made progress would
overlap that. Of the mounts that are not clean only `PointerInv` speaks, which says to which mount the two
thread pointers may belong. `WaitInv` says that whoever waits for a thread waits for the one its
pointer is set to, `OnceInv` that a clean mount released once has one release, and `DerefInv` counts
the dereferences, which come in pairs of read and use that another release may split.

`OpenFiles`. `DriverInv` relates the stage of a file object to its IRPs, its CCB and its FCB, and
counts the holders of each FCB. `EventInv` adds the events, each part with the exceptions under
which it is true: `CreateInv` what a create leaves behind, `OperationInv` the operations and the
cleanup, `CloseInv` the close, which finds all the others over (`Settled`) unless the file
object is one of `givenUp`; `StampInv` says which mount an event was stamped with, unless it is one of
`crossed`. The refinement maps `irp` and `event` to the calls of `FileSession`;
its steps are those that begin or end a callback, and those of a file object of either set are
left free (`Disturbed`).

`DirectoryListing`. The state has four views of one reading of the directory: the `list` of the library,
the answer that is cut from it, the index in the CCB, and what the issuer has put together
(`scan`). Any of them may be ahead of the others, for a query that is given up fills or
empties the list without the driver hearing of it. `OrderInv` puts the queries of the
handle and their events in order: only the last one is in dispatch. `ListInv` says what
the list is made of, `AnswerInv` that the page on its way is a part of what matches in it,
and `ScanInv` that the list is still the one the scan began with as long as it comes from the same
reading. `MixInv` is why a scan mixes two readings only after a query was given up: while none
is, a scan that can go on has its own list, or the answer that ends it is on its way, or one
for index 0 that starts another.

What `Chosen` and `Filled` return is recursive. The provers cannot instantiate a
theorem of induction, but they can use that a non-empty set of numbers has a least member
(`LeastNatural`, from the library's `WFMin`); `SetInduction` follows, and with it the lemmas about
every list (`ChosenType`, `ChosenAll`, `FilledIsBeginning`, `PageOf`). For the pages the matching itself need not be unfolded: `Agree` says all that they ask of it.

For `MatchMissesNothing` it is unfolded. `Tabulated` turns `DokanIsNameInExpression` into a table
with a row for each position in the pattern, and `Cuts` says of a cell what the comment
promises. From the last row up a cell with a cut is true (`NoneMissed`), and a true cell has a
cut as long as no `?` steps over the end of the name (`SameBeginning`). That happens only
where nothing but question marks and stars is left, with a star last (`TailFound`,
`TailOfStars`); there every cell is true. For `MatchSettled` two tables are compared, for the two choices
of `unwritten`: `NothingUnread` says of each row, again from the last one up, that they agree on
every cell that the first can lead to.

The attempt to prove `PagesInOrder` showed that an earlier form of `Agree` was too weak on
instances larger than that of `listing`: it asked that the answer for each name in the list
depend on nothing unwritten, now it asks that of each name the directory may have. With a
directory of AB and B, the pattern `<B` and an application that selects, a query that
was given up and the next one read different entries from the same contents.

`RenameDelete`. Its steps are first described by what they change (`Step`, sixteen kinds:
`CreateSent`, `Begun`, `Moves`, `RenameGot`, ...), and the parts of the invariant are
carried over each kind. `ContextInv` says where the truth about the Win32 handle is: in
the copy of the one callback that runs, or else in `Context`. `NameInv` follows a name
around: what the create on its way carries, what the FCB has, what a rename between its
callback and its answer will put there, and what the cleanup on its way carries.
`Shuts` is the closing of the Win32 handle in a rename or a cleanup, and what follows a step of its
own (`Moves`, `Cleans`); in between nothing but the name in the event leads to the file, of which
`CleanupNamed` says what is known.
`DeleteInv` and `DeleteDone` connect them with the file that is deleted.

The attempt to prove `NameCurrent` showed that an earlier form of it was wrong on instances
larger than that of `names`, where two handles rename. Two renames of one file may be
answered in the other order, which leaves the FCB with the earlier name; and an FCB that
is made for the file while a rename is between its callback and its answer knows nothing of
it. The first is now the fifth exception of `NameCurrent` (`crossed` in
`AnswerRename`), and `Renaming` asks for a rename of the file, not of the FCB. TLC has
checked this form with two handles that both rename, none given up (468 000 states; with
the other exceptions the instance is too large for a run).

`MountService`. A letter that is defined is not defined again until it is removed. So a
program that unmounts its own drive keeps everyone else from the letter until the service has
removed it (`ProgramInv`), which is what makes it harmless, and what fails for one that has
lost its drive before or never got it (`Unserved`): the causes in `HarmNeedsCause`.

`Credentials`. `RefreshInv` says that the refresh token is in the file, or a save is under
way, or one has lost it; no overlap of two saves breaks it. For `StartsFresh`, `SavedInv` says
what is in the file row by row: as long as no statement was lost and no two saves overlapped,
the rows are a prefix of those of one renewal in the order of the keys, so that the access
token and the time next to it belong together. `CountInv` says that the renewals are never more than
the runs.

`VirtualDrive`. A lookup is a walk: `FindFileWalks` turns the recursive function into a
sequence of nodes, each found in the one before. The requests before the change walk one
account, those after it the other, and these differ in one item. Where the halves meet, `FoundWasThere`
needs one account that has the whole chain. The item that was changed cannot be in both halves, since
it would then be in itself (`NoReturn`); the account that agrees with the half without it
has the whole chain, and so the path named the node before or after the change.
For `NamedIsFound`, a path that names one item at every level leaves
each request one node it can answer (`OnlyOne`, `NextOnChain`), and the chains before and after are the same
(`SameChain`).

### What is only model-checked

Every liveness property: fairness and leads-to are out of reach of the provers.

The proofs about pages take over `Defined`, that the answer for a pattern and a name depends on nothing
unwritten, as a premise (in `Agree`); `MatchSettled` says of which patterns that is so.

## 5. What the model shows beyond the properties that hold

### A violated run

* `device_keepalive` - `DokanCheckKeepAlive` runs on the timeout thread and
  calls `DokanEventRelease`, which waits for that thread.

### What comments of the code say and it does not do

Each of these is a definition next to the property that holds with an exception, or such a property
without it. TLC finds a violation of it under the constants of the run that is named, when it takes
the place of the properties in the configuration.

* `CancelRoutineNotTwice` (`irp_core`): "Clear it to prevent to be completed by CancelRoutine
  twice" (`dokanlib/sys/event.c:329`). A big write is cancelled, and its cancel routine is on its
  way, when the application fetches the data. `IOCTL_EVENT_WRITE` calls
  `IoSetCancelRoutine(writeIrp, DokanIrpCancelRoutine)` (`event.c:517`), which puts the routine back,
  clears the links of the entry and leaves it on the list. The answer takes the routine back once
  more and completes the IRP, and the cancel routine completes it too.
* `CancelRoutineWillRun` (`irp_core`): "Cancel routine will run as soon as we release the lock"
  (`event.c:317`). An IRP is cancelled after the registration has set the cancel routine (`event.c:157`) and
  before it has stored the pointer to the entry (`:177`). The routine finds no entry (`:46`), completes the IRP
  and is gone; the registration then inserts the entry, and whoever takes it off the list
  hands it to a routine that will not come: a leak.
* `EventPointerCleared` (`irp_core`): "EventContext is no longer valid, clears it"
  (`write.c:151`). A small write is cancelled between the registration, which has queued its event, and
  `write.c:152`: the cancel routine frees the event that `NotifyEvent` holds, or
  that the notification thread has freed.
* `MatchAsDocumented` (`listing`): "Expression can contain "?"(any one character)"
  (`dokanlib/dokan/directory.c:580`). A question mark steps over the end of the name without a look at it
  (`:651`), so one in front of a final star matches no character as well: `A?*` matches `A`.
* `DeletesTheFile` (`names`): "When FileInfo->DeleteOnClose is true, you must delete the file in
  Cleanup" (`dokanlib/dokan/dokan.h:94`). `MirrorCleanup` closes its handle (`mirror.c:273`) and then deletes whatever
  has the name (`:286`). In between a rename that was waiting may replace the file, and is what gets deleted.
* `LoopsEnd` without `Stranded` (`events_live`): "The function blocks until the file system is unmounted"
  (`dokanlib/readme.txt:261`, of `DokanMain`). The test of `Mounted` (`event.c:124`) and the insertion into
  the list are far apart: the wait of a loop thread joins the list of a device after it was
  released, is never answered, and `DokanMain` does not return.

### What the history variables except

* `DeviceThreads`, `overlapped`: `DokanEventRelease` takes no lock. One that is under way while
  the device is mounted again tells the new threads to stop, or leaves the device mounted without them
  (`notification.c:446`); and a keep-alive check that has seen `Mounted` under the Resource and acts on it
  later unmounts the mount that has come meanwhile (`timeout.c:47-74`).
* `DeviceThreads`, `twice`: a second release of the device waits for, and dereferences, the timeout
  thread a second time, since `TimeoutThread` is not reset (`timeout.c:278`).
* `OpenFiles`, `givenUp`: the driver finishes an operation or a cleanup after 15 seconds, answered or not; the
  close follows, and `CloseFile` may run before, or while, the slow callback does, on an open info
  that it frees.
* `OpenFiles`, `crossed`: with a mount between the check of the CCB and the event, the event carries the
  address of an open info of another process.
* `OpenFiles`, in `InfoFreed`: a loop of an earlier mount whose wait came after the release takes the
  close event of the present mount and drops it, and the open info is never freed.

### The same modules under other constants

* `DirectoryListing`, `Serial` FALSE: a query that was given up and the next one fill
  `DirListHead` at the same time, and names come twice.
* `Credentials`, `Offset` below zero (local time behind UTC): an access token is
  taken for good up to that difference too long (`gdrive.cpp:138`), and
  `StartsFresh` without its last premise fails.

### What the exceptions in the properties are

* Listings. A `?` before the star that ends a pattern matches no character as
  well, against the comment at `dokanlib/dokan/directory.c:580`. `<` on a name
  without a dot reads `lastDot`, which nobody has set. Only the first query of a handle sets
  the pattern. A query of an unknown class sets the index back to 0. An entry that does
  not fit into the whole buffer ends the listing with "no more files". When the answer
  that reported the end was given up and the directory has changed, the next pages
  continue another reading.
* Renames and deletes. Any rename through a handle closes the Win32 handle, so that a
  delete on close of the same handle does nothing. A rename to a bare name puts
  that into the FCB. A rename while another handle is being opened
  puts two files into one FCB. After `CloseHandle` nothing holds the file of a cleanup or a rename, and what
  follows goes by name; a `DeleteFile` that fails is only logged. Two renames of one file that are answered in the other
  order, or a rename of a file that has two FCBs, leave an FCB with an old name. A rename
  that was given up is carried out, and the FCB keeps the old name; it also writes back a `Context` that a later callback has changed.
* Mounting. The instance of a `DokanMain` that failed stays in the list, and
  `DllMain` unmounts its letter at the end, whoever has that now; so does one that ends before its mount is done. A client turned
  away from the pipe does not wait (`dokan/mount.c:132`): the device is released and the
  letter stays. A letter left behind refuses the next mount of it
  (`dokan_mount/mount.c:59`), since its device can still be opened
  (`sys/create.c:360-370`), and leads to whatever is mounted on that device next. A
  mount that the service refuses is released by the number of its device
  (`dokan/dokan.c:180`), which may be another program's by then. A service that is restarted has an empty table, though the letters are there.
* Credentials. A save that ends between its `DELETE` and its last `INSERT` loses
  the refresh token; `registerApp()`, which alone would bring one back, is called by nobody.
  A statement that meets a lock is lost unnoticed, and since `PREFERENCES` has no unique
  key, two saves leave rows of both: the first counts, and a token may be judged by the time of
  another (the reason why `StartsFresh` excepts both). A missing `AUTH_REQUEST` leaves
  the fields of the time unset. No token is renewed while the drive is mounted.
* Lookups. A file that was uploaded and then renamed by its owner is shown, and found, under the name it was
  uploaded with only: `ResponseParser.cpp:166-170` takes `originalFilename` before the title, and
  `gdrive.cpp:18` compares with that. `findNodeInList` has no result for a name that is missing
  (`gdrive.cpp:14-24`); `findFile` uses it for the next request, and
  `MirrorGetFileInformation` its attributes: `Nothing` and `Crash` in the model. An item
  beyond the first page, in the root by its second parent only, or behind
  another of the same name is not found; so is nothing once the token has expired.
  `FoundWasThere` rests on a single change during a lookup.

## 6. Not modelled

* Failed allocations and failed thread creation: the code takes an early exit in some
  places and ignores the result in others.
* The service channel (`PendingService`, `NotifyService`): `NotificationThread`
  waits for three of its five events (`sys/notification.c:356`), so that nothing arrives
  at the mount service; `DeviceThreads` has the notice of a forced unmount,
  not its delivery, nor that it is allocated shorter than it is used
  (`sys/timeout.c:72`).
* The request for the device itself (a create without file name) and requests
  without a file object; flags, offsets, lengths and buffers of reads and writes.
* Locks, flush, change notifications, queries of file and volume information: they
  keep no state, and their way through the driver is that of any request.
* `FILE_DELETE_ON_CLOSE`, taking a delete back, renames of directories and sharing
  modes, in `RenameDelete`. Its run gives up renames only; the theorems let every request
  but the close be given up.
* Big write buffers: `bufCtx` shows the buffer of a big write that nobody
  frees (`write.c:155`), and no property is about it.
* FCBs, CCBs and open infos of creates that fail: nothing frees them.
* Several `DokanMain` in one program, the Unmount callback, which a static variable
  counts for the whole process (`dokan/dokan.c:495`), installing and removing the service and the
  driver, letters of other volumes.
* `IOCTL_SERVICE_WAIT`, which the service asks again while the last one is pending
  (`dokan_mount/mounter.c:208`).
* gDrive: registration (it is the initial state), downloads, the callbacks that
  return 0 without doing anything, HTTP, the tree that `MirrorFindFiles` appends to without a
  lock and nobody reads, titles with a backslash.
* Vendored code, logging, character sets. They are most of the repository's lines:
  SQLite, cURL, Jansson, gSOAP and `ntifs.h`.

## 7. Plan

Done, in this order: `PendingIrp` with `RequestService` and its proofs,
`EventDelivery`, `DeviceThreads`, `OpenFiles` with `FileSession`;
`NameExpression` with `DirectoryListing`, `RenameDelete`, `MountService`,
`Credentials`, `VirtualDrive`.

Then the proofs, in this order: `PendingIrp`, `DeviceThreads`, `EventDelivery`,
`OpenFiles` with its refinement, `Credentials`, `MountService`, `RenameDelete`,
`DirectoryListing`, `VirtualDrive`.

Next: the parts listed in 6 that keep state, the service channel and the
buffers of big writes, may be added, and several file objects of several names may be run together.
