# Runner fleet manager: specifications

TLA+ specifications, model-checking configurations and machine-checked proofs
for the GitHub runner add-on (`src/github_runner`): a Go service that keeps a
fleet of self-hosted Actions runners as Docker containers, with a Vue UI.
Paths below are relative to `src/github_runner` unless they begin with `src/`.

Contents: [the system](#the-system), [modules](#modules),
[runs](#runs), [findings](#what-the-violations-show),
[proofs](#proofs), [limits](#what-is-not-covered), [plan](#plan).

## The system

A **runner** exists in three places at once, and no transaction spans them:

| place | written by | holds |
|---|---|---|
| row in `runners.json` (`internal/store`) | `Store.Add/Update/Delete`, one mutex, one file rename | expected configuration: id, name, container and volume name, workdir, cache |
| worker container (Docker) | `CreateAndStart`, `Start`, `Stop`, `Restart`, `RemoveContainerTimeout` | label with the runner id, environment (for a moment `RUNNER_TOKEN`), running or not |
| data volume (Docker) | `config.sh` in the container, helper containers of the manager | `.runner` (the registration, with the workdir fixed at configure time), `.runner.bak` |

A fourth place, `status.json` in the host workdir, tells whether a job runs. The
job hooks of the agent write it; the manager reads it and seeds it.

### Components

| component | state | operations | hard behaviour | what makes it correct |
|---|---|---|---|---|
| `runner.Manager` lifecycle (`internal/runner/manager.go`) | none of its own but locks; acts on the three places | `Create` and rollback, `Patch` (with and without apply), `Recreate`, `RecreateMissing`, `Start`, `Stop`, `Restart`, `Delete` | partial failure of each call, crash between calls, Docker reset, two requests at once, deadlines that race the agent | nothing is orphaned, a success is a working listener, a registration is never lost by an update, a recreate recovers from anything |
| runner locks (`lockRunnerOpt`) | `sync.Map` of mutexes | lock, unlock, unlock and forget | the forgetting races with waiters and newcomers | mutual exclusion per key, the map does not grow, everybody is served |
| Docker client (`internal/container/docker`) | inspect cache with generations, singleflight group, helper semaphore | `InspectByName`, `InvalidateInspect`, lifecycle calls, helpers for files on volumes and host | inspects in flight while the container changes; helpers that are cleaned up while in use | a read that follows a write sees it; at most four helpers; no slot is lost |
| busy gate and job status (`jobhooks.go`, `jobstatus.go`) | cache of `status.json` by workdir, two seconds | `errIfBusy`, `applyJobStatus`, seeds, hook scripts | readers without locks fill the cache; inspects are two seconds old; a patch moves the workdir the gate looks in; seeds race the hooks; hooks may fail | a running job is not torn down; a dead one does not block; up to what the caches hide |
| store (`store.go`) | `runners.json` | List, Get, Add, Update, Delete | crash in the middle of a save; a newer schema | old or new file, unique names |
| reconcile (`Reconcile`) | list of orphans | every two minutes | two reads of two systems | orphans reported are orphans |
| cache volumes (`persistence.go`) | volumes shared by name | reference count at delete and apply | count and removal are not atomic | a volume in use stays |
| rate limiter | window of ten in a minute | `Allow` | boundary, what consumes it | as documented |
| views (`List`, `Get`, `StatusCounts`) | cache of the agents' work folders | enrich in parallel | stale reads | status of the right container |
| REST and WebSocket (`internal/rest`) | one log stream per connection | handlers, subscribe, unsubscribe | streams replaced while they send | one stream, closed with its connection |
| fleet page (`frontend/src/pages/RunnersPage.vue`, `store/index.js`) | Vuex list, loading flags and error; selection and address; one action gate; dialogs | mount, poll, refresh, select, start/stop/restart, recreate, recreate-missing, delete | chains of requests that overlap, answers out of order, a list that fails after its mutation | the page comes to show the fleet; gate, spinner and error tell the truth; a dialog keeps its runner |
| log dialog (`RunnerLogsDialog.vue`) | lines, current socket, reconnect timer | open, close, follow, reconnect, clear; callbacks of the socket | asynchronous calls that nothing stops, sockets that fail in any order | while it follows there is a socket, a timer or a call; live lines are of the runner in the title |
| create and edit forms (`CreateRunnerDialog.vue`, `EditRunnerDialog.vue`, `RunnerConfigFields.vue`, `utils/runnerConfig.js`) | fields, token, toggle, submitting | open, fill in, submit, close; record to form to payload | other clients that change the runner, a failure after success, a create sent twice, paths that client and server clean separately | what is typed is stored or refused, what is untouched stays |
| GitHub client | none | mint a token, deregister | fails, is slow | best effort |

The REST handlers call the manager. The manager calls store and Docker client,
and holds a lock of `lockRunnerOpt` over a whole mutation; views hold none and
share two caches with the mutations. The UI polls the views. The reconcile loop
runs beside everything and takes no runner lock. Every Docker call of a mutation
runs on a context detached from the request, so a client that goes away does
not interrupt it; the end of the process does.

`PROJECT.json` lists all components with their status, and under `hazards` the
places in the code where these behaviours bite, each with the properties that
would notice.

## Modules

| module | models | used by |
|---|---|---|
| `RunnerLifecycle` | the handlers of the manager over row, container and volume, over the mutexes of `lockRunnerOpt`, with failures and crashes | `MCRunnerLifecycle`, `MCRunnerRequests`, `RunnerLifecycle_proofs` |
| `KeyedMutex` | abstract: one mutex per key | `KeyLock` (refinement) |
| `KeyLock` | `lockRunnerOpt` | `MCKeyLock`, `KeyLock_proofs` |
| `InspectCache` | `InspectByName` and its invalidation, one container | `MCInspectCache`, `InspectCache_proofs` |
| `BusyGate` | the busy gate, the job status cache, the hooks, one runner | `MCBusyGate`, `BusyGate_proofs` |
| `RunnerRows` | the rows of the store and what a call makes of them: operators only | `RunnerStore`, `StoreFile` |
| `RunnerStore` | abstract: a set of rows that each call changes at once | `StoreFile` (refinement) |
| `StoreFile` | `Store` with `runners.json`, its save and its load | `MCStoreFile`, `StoreFile_proofs` |
| `FleetPage` | the page with the fleet and the store of the UI, against a server whose fleet changes | `MCFleetPage`, `FleetPage_proofs` |
| `LogDialog` | the log dialog, its sockets and its timer | `MCLogDialog`, `LogDialog_proofs` |
| `RunnerConfig` | records, forms and payloads of a runner, and what the server makes of a payload: operators only | `RunnerForms` |
| `RunnerForms` | the create and the edit form, with one runner at the server | `MCRunnerForms`, `RunnerForms_proofs` |

The `MC...` modules hold the sets, symmetries and views of the instances;
`MCRunnerRequests` also starts the manager with stored runners and counts
requests. `PROJECT.json` maps each definition to the lines it stands for.

Definitions with a comment that begins with **Slip** are not part of any
specification. Each is a neighbour of the definition after it with a mistake
one could make in the code: a dropped guard, a swapped order, a missing reset.
Put in the place of its neighbour it breaks one of the properties, which is how
each property is known to depend on the code it is about (`mutants` in
`PROJECT.json`).

### RunnerLifecycle

State: `rows` (the store), `ctr` and `vol` (Docker, by runner name, from which
container and volume names derive), `table` (`runnerLocks`: a mutex for the key
`create:<containerName>` of a name and for each runner id), and per handler a
program counter with the local variables of its Go function (`rid`, `rec`,
`plan`, `todo`) and the mutexes it has found (`nameMu`, `idMu`). `clean` and
`faults` are history and budget; `astray` is history.

The locks are those of `lockRunnerOpt`, not ideal ones. A request looks its
mutex up when it comes in (`Arrive`, `CreateBegin`, `CreateCheck`) and waits for
that one (`LockName`, `LockId`); the end of a create or a delete, also of one
that was refused, unlocks and forgets the key if its `TryLock` succeeds
(`Finish`, `Forget`). A waiter of the old mutex and a newcomer can then hold one
runner together. `astray` becomes true at the moment this happens, and also when
recreate-missing locks a runner whose row, which it has listed before, is there
no more (`Stale`). From then on the code keeps none of what the properties on
ownership say, and they end with it: `~ astray => ...`. How far this reaches is
a theorem of its own: `SingleHolders` shows that without `Delete` and
recreate-missing nothing goes astray.

One action is one step of the Go code that touches shared state. The labels, in
the order of the code:

- create: `lockname` → `check` (list, token, quota, id lock) → `add` →
  configure and listen → `get`, or `rollback` → `rm_ctr` → `rm_vol` → `rm_row`
- recreate, apply: `lockid` → `load` → `gate` (inspect, read `.runner`, plan,
  token) → `rm_old` → `backup` → `clear` → configure and listen → `get`, or
  `restore`
- configure and listen: `cfg_create` → `cfg_wait` → `cfg_remove` (or `cfg_drop`)
  → `run_create` → `listen` → `verify`; with a usable registration it begins at
  `run_create` and skips `listen`
- recreate-missing: `next` → `lockid` → `gate` → ... for each row of its list
- delete: `lockid` → `load` → `rm_ctr` → `rm_vol` → `rm_row`
- start, stop, restart, patch without apply: `lockid` → `load` → `act`, one effect
  (`StartStop`, `PatchRow`)

A create or delete ends at `unlocked`, before its `TryLock`. `Refuse` is every
early return that has changed nothing: validation, no token, quota, busy gate,
no Docker.

Failures (`FaultKinds`, at most `MaxFaults`): a Docker or store call fails,
having done nothing or half its work (`HalfRemoved`, `Launch`); a helper cannot
read `.runner`; `config.sh` exits without registering; Docker loses containers
or volumes; the manager dies, with all locks and locals. A wait that runs into
its deadline is `CfgWaitFails`, `ListenFails` or `VerifyFails`.

Abstractions: a name stands for name, container name and volume name (they
derive from each other; the store keeps both unique). A workdir stands for
every configuration that is fixed at configure time. Inspects are current:
`InspectCache` shows that an inspect that follows a lifecycle call of the client
sees it; the two seconds after a call that failed without invalidating, and
after a container that died by itself, are not in this model (`BusyGate` has
them). The volume is registered or not: credentials beside
`.runner` are not told apart. Docker refuses to remove a volume that is mounted.
A container with `RUNNER_TOKEN` runs `config.sh` if there is no `.runner` and
exits; one without it serves if there is a `.runner`.

### KeyLock and KeyedMutex

`LoadOrStore`, `Lock`, `Unlock`, `TryLock`, `Delete` and the second `Unlock` of
`lockRunnerOpt` are a step each. `Forgetting[k]` says which values of the
parameter `forget` the callers of key `k` pass: `{TRUE}` for create keys,
`{FALSE}` for the id of a runner that is never deleted, `{TRUE, FALSE}` for one
that is. Mutexes are values of a finite set; one that nobody refers to may be
allocated again, as after garbage collection. `KeyedMutex` is what the handlers
count on. They get it for keys that nobody forgets only, so `RunnerLifecycle` has
`table`, `Forget` and the waiters of old mutexes itself; there `Unlock` and what the
handler did before it, and `TryLock` with what follows it, are a step each.

### InspectCache

One container name. Its state at the Engine is a counter of changes, `version`.
The steps are the single operations on `inspectCache`, `inspectGens` and the
singleflight group: load, compare generation, delete, read generation, `Do`,
Engine read, compare again, store; and Engine change, delete, bump. Expiry is
the freedom of `Miss` to happen at any time. `complete`, `covers` and `floor`
are history: the newest change whose call has ended, at the start of a
generation, at the start of an inspect.

### BusyGate

One runner: its container, its job, a `status.json` and a cache entry for each
workdir, one request at a time (they hold the runner lock) and readers without a
lock. `file` is what a parse would make of a file; `stale` is every content that is
neither clearly busy nor idle. `untold` is a job whose hook could not write.

There are three workdirs: that of the container (`wd`), where its hooks write,
that of the row (`row`), which `Patch` moves, and that of the record a request
was given (`rec`), which an apply moves too. The gate looks in the last
(`jobhooks.go:129`). The inspects of gate, start, removal and readers go through
the cache of the Docker client: `shown` is what it, or a flight that has read,
says of the container. A lifecycle call that succeeds drops it, the container's
own death, restart or loss does not, nor does a launch that leaves a container
behind unstarted (`created`).

`busyAll`, `downAll`, `quiet` and `wiped` are history, kept by `Track` and by
the seeds. `ToldBusy` and `Down` say when a job counts as running, and a
container as down, for the two halves of the promise: an older inspect must not
say the opposite (`shown`), and the job must write to the file of the record
(`wd = rec`). Outside of these the code is wrong for up to two seconds, or for
as long as row and container disagree: a gate that reads another file than the
agent writes lets a recreate, apply or delete through while a job runs.

### StoreFile, RunnerStore and RunnerRows

A row is an id, a name and a container. `StoreFile` has `runners.json` (`file`:
its version and rows; `bad` does not parse), the temporary file beside it
(`tmp`), `Store.mu`, and per caller its call, the rows that it is to write and
its answer. The steps are `Lock`; `load` with what the method makes of it
(`LoadFails`, `LoadList`, `Reject`, `Change`); the system calls of `save`
(`Write`, `Sync`, `Rename`, `SyncDir`, and `SaveFails` for each of them); and
`Unlock`. `Crash` ends the process between any two steps, `PowerLoss` also puts
the file back to something in `durable`, which is what the disk may hold of
`runners.json` until its folder is synced: the file before a rename, or the one
after it, and after a rename without a sync also nothing or a part of the new
one. That a rename is atomic and files that were synced are whole is assumed of
the file system. `used` is history: ids are UUIDs, and only `Create` makes one.

`RunnerStore` is what the manager counts on: a call that is answered has changed
the rows at once, or failed and changed nothing; a change with which rows were
not unique is refused; the end of the process keeps `stored`, and a power loss
one of the values since the last `Settle`. In the refinement `stored` is
`file.rows` and `kept` the rows in `durable`. `Rename` is where a change takes
effect, `SyncDir` is `Settle`, and `Unlock` returns.

Abstractions: `Get`, `List` and `Readable` are one call that only reads;
`UpdatedAt` and the order of rows are left out.

### FleetPage

The server is its history: `past` holds every version of the fleet, and a runner
is `none`, `up`, `busy`, `down` or `missing`. The page has of each runner the
version its row is from (`seen`). A read is answered with any version from the
one at its sending to the last, so that answers of overlapping chains come in
any order and as old as the network allows. A *task* is a chain of requests with
one in flight, `todo`: the action that the gate admits, the form, and chains
nobody waits for (mount, poll, refresh, detail), of which `MaxBackground` overlap.
An answer is one step with all that runs before the next await: the commits, the
finallys, the watcher of the selection that puts it into the address and asks
for a detail. `job` and `arg` say what a task is for; `Unserved`, `Failed` and
`Partly` how far its mutation is. Each catch is an action: `MutationFails` of
`mutateRunner` (also for the list after a mutation that succeeded), `ListFails`
of `fetchRunners`, `DetailFails` of `refreshSelected`.

Abstractions: the health answer is merged with the list before it, as nothing
here depends on what is in it, but for the mount, which waits for both. Start,
stop and restart are one job. `detailsOpen`, tokens and the texts of dialogs are
left out.

### LogDialog

A *slot* is one call of `streamLogs` and the WebSocket it opens; a call waits
for the runner (`get`) or the snapshot (`fetch`), or its socket connects, is
`live` or `mute` (subscribed, with and without a server that still sends), or
`idle` (open and never subscribed: it was not the known socket any more when it
opened). `socket` is the module's variable of that name, `shown` which kinds of
lines of which runner are in the view. Two slots start at once when both
watchers fire. `overtaken` is history: a newer call or a close met a call that
waits in `ensureRunner` or in the snapshot. The code does not notice that, and
`SnapshotOfRunner`, `OneFeed` and `ReconnectWhenDown` hold only without it:
TLC finds a snapshot under another runner's title, a socket behind a closed
dialog and a timer that tears down a good stream as soon as the condition is
left out. `FollowAlive` and `LiveLinesOfRunner` hold always.

Abstractions: the back-off delay, the cap on lines, colours, scrolling and the
download.

### RunnerConfig and RunnerForms

A path is whether it is absolute and its parts as typed; an environment text its
lines; a value what is left of it when its line is trimmed (`Trimmed`); a label
whether it is blank. The three loops are folds of one step each: `Push` (a part
on the stack of `cleanCachePath`), `AddLine`, `AddLabel`. `PathClean`, the
reference of what Go's `path.Clean` does, is said without a stack: it counts
names and parents (`Kept`). `AsStored` is what the server makes sure of in every
record it stores, whichever client sent it. `buildRuntimePayload`,
`cacheFromRunner`, `FormOf` (the watcher of the edit form) and
`cacheSiblingPathWarning` are the client's side, `Accepts`, `Stored` and
`ServerWarning` the server's.

`RunnerForms` has one runner at the server (`stored`), the row the page shows,
the open form, and the requests in flight with what they were made of and their
replies (`flights`). Serving a request and applying its answer are two steps,
and other clients and the poll come between. The edit form refuses a second
submit, the create form does not: `SubmitCreate` can send a create beside one in
flight, whose end then ends the loading of both and may close or mark a form
that waits for another. `overlap` is true while creates are in flight that were
not sent alone; `SentAsHeld` and `ClosesOnlyWhenDone` say nothing of them,
`SavedAsTyped` and `SubmitsEnd` hold for them too. A token that is hidden again
by the toggle of the edit form stays in the form, and an apply sends it: the
property says *held*, not shown. Validation and what follows it in `submit` are
one task. A closed form is emptied when it closes instead of when it opens
again, which nobody can see. `image` and `limit` stand for the fields that are
copied as they are.

The keys of an environment are names that a line of the form can hold. The API
takes others (`validateExtraEnv`, `internal/runner/manager.go:1899`): a name
that begins with `#` would come back as a comment, and one with spaces around it
without them. A record with such a name is not in the model. Values with spaces
at their end, which the API takes too, are: an edit that changes nothing drops
those spaces, and `UntouchedSaveKeeps` says so.

Records are as the server's views show them (`stored`): a bind cache that an older
version stored with a target of its own keeps it in `runners.json` until it is
edited, and `enrichWithManaged` puts the path of the host in its place.

## Runs

| run | instance | distinct states | shows |
|---|---|---|---|
| `lifecycle_pair` | 2 handlers, 2 ids, 1 name, 2 workdirs, 2 mutexes a key, 2 faults, all operations, until astray | 2 319 505 | `CourseInv`, `OneWorkerPerName`, `SuccessIsServing`, `NoOrphan`, `RecreateRecovers`, `RegistrationKept`, `OnlyDeleteUnregisters` |
| `lifecycle_ends` | 2 handlers, 3 requests, 2 stored runners and a free id, 2 names, create, stop, delete and recreate-missing, no faults, fairness | 515 901 | `TokenOnlyWhileConfiguring`, `RequestsEnd` |
| `keylock` | 3 callers, a plain and a pruned key, 4 mutexes, fairness | 67 732 | `PruneInv`, `Pruned`, `EveryoneServed`, `KeepsPromise` |
| `inspect_cache` | 2 inspecting, 2 changing, 3 changes, fairness | 605 962 | `ReadsSeeWrites`, `InspectReturns` |
| `busy_gate` | 1 reader, 2 workdirs | 5 375 011 | `BusyRefusedWhenQuiet`, `DownNeverRefused`, `OnlyStartWipes` |
| `store_file` | 2 callers, 4 rows of 3 ids that compete for a name or a container, 2 faults | 688 476 | `StoreInv`, `ForeignKept`, `KeepsPromise` |
| `ui_fleet` | 3 runners (up, missing, not there), the first in the address, 2 background chains, 1 mutation or change, fairness | 177 366 | `PageInv`, `GateHonest`, `DialogTarget`, `MutationErrorStays`, `Converges`, `ActionsEnd` |
| `ui_logs` | 2 runners, 4 calls and sockets, 4 acts of the user, 2 faults, fairness | 422 859 | `DialogInv`, `FollowAlive`, `LiveLinesOfRunner`, `SnapshotOfRunner`, `OneFeed`, `ReconnectWhenDown`, `FollowReconnects` |
| `ui_forms` | 2 requests, 1 record and none, 1 variable, 4 paths, 2 edits, 1 fault, fairness | 388 460 | `SavedAsTyped`, `UntouchedSaveKeeps`, `SentAsHeld`, `WarnsAlike`, `ClosesOnlyWhenDone`, `SubmitsEnd` |
| `rollback_read`, `keylock_forget`, `busy_refill` | small | stops at the violation | see below |

**Bounds.** Two handlers on one name are what it takes for two operations to
collide; a third would only wait for the same lock. One name in `lifecycle_pair`
and two ids make delete followed by create of the same name happen, which is
where ids and names come apart. `CONSTRAINT SingleHolders` stops at `astray`:
the properties of the run say nothing beyond. `VIEW` leaves out which mutex is
which: only who refers to the same one, and whether a newcomer would get it, is
kept.

`lifecycle_ends` begins where Docker was reset while the manager was down: two
stored runners without containers, so that the list of recreate-missing has two
rows, beside which a delete, a create or a stop comes; it goes on when the run
is astray. Three requests (`MaxRequests`) are enough for a key to be forgotten
under a waiter by a delete while recreate-missing has another row to visit.

Two mutexes a key are as many as two handlers can refer to. Two faults are one
that breaks an operation and one that breaks its rollback, its restore, or the
next attempt; a crash and a reset count as faults. Ids are never used twice
(`used`), so two of them bound the creates of a behaviour to two. The three
callers of `keylock` are one that unlocks, one that waits for the old mutex, and
one that comes later (which the first can do as well, so that the two handlers
of `lifecycle_pair` go astray too). In `keylock` four mutexes are one more than
callers can hold at once.

Three changes let two lifecycle calls overlap and the container change by
itself. In `store_file` a second caller waits for the mutex of the first or
finds what it left; two faults are a call that fails or an interrupted save and
the power loss, or the second interruption, after it; the file may be there
already, with any rows that are unique and of any version.

In `ui_fleet` two background chains are the poll that overlaps another poll, the
mount, a refresh or a detail, beside an action and a form; one mutation or
change makes a version that reads can miss; reads fail without bound. Four slots
in `ui_logs` are two calls of one tick and two that overtake them; four acts are
opening, two toggles or reconnects, and opening again. In `busy_gate` one reader
is the put that is late, a second only another; two workdirs are the old and the
new one of a move. Its `VIEW` leaves out locals and history that nobody reads
any more. In `ui_forms` two edits change two fields of a form, or one field of
each of two forms that follow each other; a create beside another counts as the
fault, and two requests are the two creates, or a create whose answer is late
and an edit; the paths have parents in every place that matters, parts that say
nothing, the root, a relative one and none.

**Fairness.** A handler that runs takes its next step (`WF` on `Step`): every
Docker call and every wait in a handler has a deadline, and its expiry is one of
the steps. Locks are granted strongly fairly (`SF` on `Acquire` and on `Lock`):
Go's mutexes hand over to a waiter that has starved for a millisecond. New
requests, the agent and the Engine are under no fairness: `RequestsEnd` does
not need the agent ever to register. In `InspectCache` callers and flights
run, and a flight is cut off after 15 seconds; changes need not happen.
In the UI every request is answered, with success or an error (`WF` on its
answers), timers fire, and the user and the other clients need do nothing. In
`FleetPage` the interval goes on (`SF` on `Tick`, since in the model only the bound
on chains can make it wait), and a list that is asked for again and again does
not fail each time (`SF` on `ListAnswers`): without that no page converges.

**Deadlock.** Two runs switch the deadlock check off: in `ui_logs` a dialog may rest
with nothing under way when the user has done what the bound allows, in
`lifecycle_ends` the manager when all requests that the bound allows have ended;
that a request is not stuck is what `RequestsEnd` says there.

**What the properties mean.** Those of `lifecycle_pair` hold while no runner has
had two holders and no row that recreate-missing listed has gone (`~ astray`,
see `RunnerLifecycle`); the two of `lifecycle_ends` hold without the condition.
`CourseInv`: a handler that works owns the id, row and name, and if nothing
failed in it, container, token, workdir and volume are at each step as its plan
needs them. `SuccessIsServing`: at the point where a create, recreate or apply
reports success, and if nothing failed in it, there is a listener of this runner
on the requested workdir, registered for it, without token. `RecreateRecovers`:
after any two failures or crashes at any steps, a recreate that itself meets no
failure does not fail. `RegistrationKept`: no step takes a volume from having
`.runner` or its backup to having neither. `OnlyDeleteUnregisters`: only a
delete removes a volume with a `.runner`. `TokenOnlyWhileConfiguring`: a
container with a token is being configured, as long as nothing failed.
`DownNeverRefused` and `BusyRefused` are the two halves of what
`src/docs/features/0005-runner-job-state.md` promises, where no older inspect
says the opposite and, for the second, the job writes to the file that belongs
to the record of the request; `OnlyStartWipes` says which jobs may be shown idle
although their hook wrote busy. `PruneInv`: as long as the map has a mutex for a
key that everybody forgets, some caller is on the way to forgetting it.
`StoreInv`: no id, name or container is twice in the file nor in anything a
power loss can leave. `ForeignKept`: a file of a newer version, or one that does
not parse, is never touched. `KeepsPromise` of `StoreFile`: see above.
`GateHonest`: the buttons are dead exactly while an action runs. `DialogTarget`:
the runner under an open dialog never becomes another one. `Converges`: once the
fleet changes no more, the rows come to be those of the server and stay so,
although older answers may be applied on the way. `FollowAlive`: no order of
events leaves a dialog that follows without a socket, a timer and a call. A
socket counts whatever comes over it: when the stream has ended at the server (a
container that stopped), the connection stays open and `mute`, and nothing in
the code notices or revives it. `SentAsHeld`: an edit in flight, and a create
that no other overlaps, is what the locked form holds. `ClosesOnlyWhenDone`: an
answer to one of these closes its form only if the server has done it. The form
may also stay open, with an error, although it was done: when the list after it
fails. `SavedAsTyped` compares what the server would store with what was typed,
cleaned by the reference; `UntouchedSaveKeeps` that the way from record to form
to payload to record changes nothing in a record the server can hold, but for
the spaces at the ends of its values.

## What the violations show

Three statements of the documentation or of comments do not hold; each has a run
that ends in the counterexample and a finding in `PROJECT.json`.

- `rollback_read` / `OnlyDeleteUnregisters`. With an unreadable `.runner`
  (`volumeRead`, left out of `lifecycle_pair`) the rollback of a create removes
  a volume that holds a registration.
- `keylock_forget` / `Exclusive`. On a runner id with deletes among the callers
  two can hold the lock. `PlainExclusive` is the part that holds. In
  `RunnerLifecycle` this is `astray`, the condition under which its properties
  on ownership hold: with two holders a delete can remove the row under a
  recreate that goes on to create a container nobody owns.
- `busy_refill` / `BusyRefused`. An older read of a reader can undo the gate's
  invalidation. `BusyRefusedWhenQuiet` is the part that holds.

Recreate-missing works from the list it took first (`manager.go:1456`), and not
from what is stored when it gets to a row: the runner may have been deleted, and
its name taken by another, since, and then the id it locks no longer owns the
row it copied. Such a step is `Stale`, and sets `astray` as two holders
do. A row that was only patched since it was listed does no such harm. With the
condition taken out of `lifecycle_pair` and its properties, TLC finds each of
`OneWorkerPerName`, `SuccessIsServing`, `NoOrphan`, `RecreateRecovers`,
`RegistrationKept` and `OnlyDeleteUnregisters` violated.

## Proofs

`tlapm` checks the `..._proofs` modules to the last leaf, for any sets of
handlers, ids, names, callers, keys and readers and any bound. From the named
assumptions only: `ConstantsOK`, `LockOK`, `CacheOK`, `GateOK` and the
`...Assumption`s of `FleetPage`, `LogDialog`, `RunnerForms` and `StoreFile`
(types of the constants, and that `None` is none of the values it stands in for;
for the forms also that the records of other clients are as the server stores
them, that each input gives what it is for (chips, a number, lines, paths, a
switch, one of the two types), and that the names of variables are finitely
many). `NamesAssumption` only says that four strings are strings, which the
prover does not know. Every safety property of a passing run is a theorem. The
inductive invariants that no run names were checked by TLC before they were
proved: `LockInv`, `CacheInv`, `GateInv`, `SeedInv`, `FormInv`.

- **RunnerLifecycle.** `TypeCorrect`: `Spec => []TypeInv`. `TypeInv` is `TypeOK`
  with `Filled`, what a handler has put into its locals at each label: without
  it the type of `NameOf(p)` would not be inductive. `Ownership`: `Spec =>
  [](TypeInv /\ (~ astray => IInv))`, for all operations. `NoOrphan` is not
  inductive: that a removal of the row leaves nothing behind needs that at
  `rm_row` container and volume are gone, that nobody else has built new ones
  for the name meanwhile, and hence that a working handler owns id, row and
  name. `Owns` says so per label, and `RowsInv` that names and ids of rows are
  unique. `Exclusive` holds by the definition of `astray`: a second holder, or a
  row that has gone, is what ends the claim, and what is proved is that nothing
  else does. `NothingOrphaned`, `OneWorker` and `RegistrationNeverLost` follow;
  the last needs `BackedUp` at `clear`. `SingleHolders`: if neither `Delete` nor
  recreate-missing is among the operations, `[](~ astray)`. Nobody forgets an id
  then, but creates, whose ids are fresh, so that who waits for or holds a
  runner has the mutex that `table` has for it (`Bound`); for such a manager the
  conditions fall away. The step proof has a case per action, after lemmas for
  what an update of `ctr`, `vol` or the locals of one handler leaves alone.
  `CleanRuns`: `Spec => []CourseInv`, which is `IInv` with `OnCourse`: `OnTrack`
  says for each label what a handler that has met no failure finds (which
  container, its token and workdir, what is in the volume), `Undoing` what a
  rollback may rely on. It is inductive only beside `IInv`: that nobody else
  touches container and volume of the name is the ownership of the id, the row
  and the name. A step of a handler keeps its own part (a lemma for each phase:
  `PlannedOnTrack`, `RemovedOnTrack`, `LaunchedOnTrack`, `WaitedOnTrack`) and
  everybody else's (`OthersOnCourse`, by the name they do not share); the agent,
  Docker resets and crashes are lemmas of their own, since a reset makes all
  handlers unclean. `SuccessServes`, `RecreateAlwaysRecovers` and
  `RollbackKeepsRegistrations` (if `.runner` can be read, `"volumeRead"` not in
  `FaultKinds`) follow. `TokensAreShortLived` needs none of this, and no
  condition: a token comes in with `cfg_wait` only, and the step that leaves the
  configure phase removes the container, or a call has failed.
- **KeyLock.** `LockInvariant`: who waits for or holds a plain key has the mutex
  the map has, and only an owner unlocks. `PlainKeysExclude` follows, and
  `MapIsKeyedMutex`: each step is one of `KeyedMutex` on the plain keys, or a
  stutter. `PruneInvariant` adds why nothing stays in the map: a mutex serves
  one key at a time (`OneKey`), who holds one is at a label that says so
  (`Held`), and for a key that everybody forgets some caller of its mutex is
  still `OnTheWay`. The step that could break it is a `TryLock` that fails: then
  another caller holds the mutex, with the same key, and is on the way itself.
  `ForgottenKeysGo` follows.
- **InspectCache.** `CacheInvariant`: whatever was read in generation `g`, in
  the cache, in flight or in a caller's hands, is at least `covers[g]`; a caller
  that begins now gets generation `gen` or later, for which `covers` is
  `complete`. `InspectSeesWrites` follows.
- **BusyGate.** `GateInvariant`: with `quiet`, and `ToldBusy` since the request
  began, `OnlyBusyReads` holds from the invalidation on: of the workdir of the
  record the gate, the readers and the cache can only have busy or an error, and
  the gate lets neither pass. `QuietGateRefuses` follows. `SeedInvariant` adds
  what the inspect and the removal have made sure of: with `downAll` the gate
  never gets past the inspect to the file, and a recreate seeds while there is
  no container that was ever started (`NeverRun`, which is also all that an old
  inspect can take for missing), so that only the seed of a start or restart can
  meet a job. `LeftoversDoNotRefuse` and `RecreateDoesNotWipe` follow.
- **RunnerForms.** `FormsInvariant`: `FormInv` is `SentAsHeld` with which
  requests can be in flight in each state of the dialog (`InFlight`), what each
  of them was made of (`Flights`) and that records and form are ones that can be
  (`ConfigsKnown`): a record that is stored, shown or loaded is `AsStored`, and
  the form has what its inputs give. That a step keeps it needs that what the
  server accepts of such a form is again `AsStored` (`StoresKnown`), and that
  the form of such a record could have been typed (`LoadedTyped`). `HeldIsSent`,
  `WarningsAgree` and `FormClosesOnlyWhenDone` follow. `SavesWhatIsTyped` and
  `EditsKeep` need what the loops of `runnerConfig.js` compute for paths, texts
  and chips of *any length*, by induction. Since no theorem with an operator as
  its parameter can be used, `Induction` is one over a *set* of numbers: if it
  lacked one it would lack a least one, which is well-foundedness of `<`
  (`WFMin`). `FoldExists` shows by it that the function which a fold is defined
  by exists, so that each loop takes its steps (`PathRuns`, `EnvRuns`,
  `LabelRuns`); the invariant of each loop is then carried along its steps. For
  the environment it is that a name has the value of its last line so far
  (`LastLineWins`). For paths it is `OnStack`: after `n` parts the stack holds,
  in order, the parts that no parents after them outnumber the names between,
  each ahead by as many as there are parts above it; so a parent pops the one
  part that falls behind (`PushKeeps`). That the stack is what `PathClean`
  selects by counting is `CleansLikeGo`. `ThereAndBack` puts them together: a
  record, its form and the payload of that form.
- **StoreFile.** `StoreInvariant`: `StoreInv` is inductive. `UniqueRows` alone is
  not: that a rename keeps ids unique needs that the id of a pending add is in no
  other add and in no file a power loss may bring back (`IdInv`), and that what
  is renamed is what the caller made of the present file (`InStep`), hence that
  it alone has been in a call since it read it. `ForeignFilesKept` needs
  `DiskInv`: a foreign file was never replaced, so that it is all the disk can hold.
  `FileIsStore` maps each step to one of `RunnerStore` or a stutter; that `Taken`
  and `Unique` refuse the same changes (`LoopsKeepUnique`) is where the loops of
  `Add` and `Update` are compared with what they are for.
- **FleetPage.** `PageSafe`: `IInv`, the parts of `PageInv` with `GateHonest`, is
  inductive. `SpinnerHonest` alone is not: that a chain which is not at a list
  takes none away, and that a mutation which fails or succeeds is followed by
  one, needs `ChainsKept`, the rests of chains that each task can have. It also
  says that the mount is a background task (so that the gate is not its
  business) and that a read in flight has a version to be answered with.
  `GoesKeeps` and `StartKeeps` do the work for all actions that send a request.
  `PageKept` and `GateKeeps` follow; `DialogKeepsTarget` needs `AddressKept`: a
  mount that ends under an open dialog finds the selected runner in the address
  and can only deselect it. `MutationErrorKept` needs that only an action or a form
  has a mutation in flight.
- **LogDialog.** `DialogInvariant`: `DialogInv` is inductive. `SocketCurrent` says
  that the known socket opens or is subscribed for the runner of the dialog, and
  that a timer runs only in an open dialog that follows; `OneCall` what else can
  be under way while nothing was overtaken. `NeverLeftAlone` and
  `LiveLinesRight` need no more than it; `SnapshotsRight`, `FeedsOnce` and
  `ReconnectsRight` follow from `OneCall`.

With TLC only, on the instances above: all liveness (`RequestsEnd`,
`EveryoneServed`, `InspectReturns`, `Converges`, `ActionsEnd`,
`FollowReconnects`, `SubmitsEnd`). The prover handles no `ENABLED`, and so no
fairness. The three violated properties have their counterexamples.

## What is not covered

The GitHub API, image pulls, log parsing (a marker is seen or not), validation
of paths, environment and limits, rendering, packaging. `PROJECT.json` gives the
reason for each component. Half-covered components are marked `partly` there:
above all cache volumes in `Delete` and apply, `List` and reconcile, and the
helpers. Of the UI, what only shows state is left out: details
of a runner, settings, cards, theme, the texts of alerts.

## Plan

In order; each adds a module, its instance and, where marked, theorems.

1. **CacheVolumes**: rows with cache volumes, delete and apply of several
   runners, creates that come between count and removal. *A volume that a
   stored runner and its container use is not removed*; owned against shared
   names. Theorem: for handlers one at a time, the reference count is right.
2. **VolumeHelper**: semaphore, helper containers, `RemoveExitedHelpers`. *A read
   ends with the file or an error, never with a helper taken for another's;
   slots are not lost.* Theorem: slots in use equal helpers that run.
3. **Fleet**: `Reconcile`, `List` and `StatusCounts` over rows and containers
   that change between the reads. *What is an orphan throughout a reconcile is
   reported; what is reported was unowned at some time during it.*
4. **DockerLink**: the lazy connection to the Engine, who reads it without the
   mutex, and what runs before it.
5. **LogStream**: the WebSocket session of the server, composed with `LogDialog`.
6. **RateLimiter**: a window in discrete time; *never more than ten in any
   minute* as a theorem; which refusals consume.
7. Composition: `RunnerLifecycle` over an inspect that may be stale for the
   entry's lifetime; `BusyGate` inside recreate and delete. What two holders of
   one runner can do to it, as an abstract specification that is weaker than
   ownership.

Proofs to add: an abstract specification of the inspect cache (a register that
reads between floor and now) with its refinement; `RunnerLifecycle` against
an abstract fleet whose operations act at once; and the theorems marked above.
