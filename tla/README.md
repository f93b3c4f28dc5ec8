# A TLA+ model of cmgr

cmgr manages capture-the-flag challenges: it loads challenge definitions,
builds Docker images from them, starts and stops instances of the images, and
keeps all of this in a SQLite database. The command line tool `cmgr` and any
number of `cmgrd` daemons may work on one database at the same time. This
directory models the parts of `src/cmgr` and `src/internal/ociinterceptor` where that concurrency, and the lack of a
transaction over Docker and SQLite together, make correctness hard to test.

## The system and its parts

| Part | State | Operations | What is hard |
|---|---|---|---|
| operation barrier (`operation_lock.go`) | a Go `RWMutex` per Manager, a gate file and a main file per database | acquire shared or exclusive, try at start-up, release | two lock levels, errors half way, starvation, processes that die |
| instances (`api.go` Start/Stop/newInstance, `docker.go`, `database_instances.go`) | rows `instances`, `containers`, `portAssignments`, `retiredContainers`, `retiredNetworks`; Docker containers and networks | Start, Stop, the roll-back of a failed Start | every step can fail or be the last one of the process; two requests on one instance |
| port allocation (`operation_lock.go`, `docker.go`) | a local mutex and a lock file; committed `portAssignments` | acquirePortAllocationLock, getFreePort | a port is chosen long before it is committed |
| start-up recovery (`docker.go` retryRetiredResources) | the retired tables, rows whose containers are gone | remove retired, restart, remove broken, restore capacity | runs once per start-up, may itself fail and be retried by a later one |
| builds (`api.go` Build/Destroy, `docker.go` generateBuilds, executeBuild, destroyImages) | `builds` rows and their numbers, image tags and artifact archives named after the numbers, temporary containers, build slots | Build, Destroy | numbers are used again at once; requests run beside each other; a failed Build has to leave nothing |
| build update (`docker.go`, `database_builds.go`) | builds rows, image tags, artifact files, staged copies | Update, promote, roll back, finish, clean up after a crash | staged switch-over of images, files, rows and running instances |
| solver (`solver_framework.go`) | a solver image per build, a container beside an instance | CheckInstance | a container that outlives its request or its process |
| schemas (`api.go`, `database_builds.go`) | schema rows, locked and active builds | Create/Update/DeleteSchema, convergeSchema | errors are collected; the next call has to converge |
| challenge update (`api.go`, `database_challenges.go`) | challenge rows, checksums | DetectChanges, Update | answer computed on one state, applied to another |
| database opening (`api.go` NewManager, `database.go`) | schema version and tables, migration latch, backup files | acquire the start-up lock, check the latch, latch, back up, create or migrate, validate, unlatch | a crash or power loss in the middle of a migration; other processes that start meanwhile |
| keyed local locks (`docker.go`, `operation_lock.go`) | a map of reference-counted mutexes | acquireBuildLock, acquireLocalPortLock | a lock object replaced while somebody waits for it |
| runtime registration (`internal/ociinterceptor`) | `daemon.json`, its directory entry, the daemon's loaded copy, a lock file | register with validation, reload and roll-back; the runtime itself, called by the daemon | a file shared with an administrator and a daemon; a roll-back that may fail; a check and a use that are apart |
| loader, file system, artifacts, seccomp, policy, CLI, HTTP | none that is shared, or input/output | | text and file handling |

Interactions: every operation of the Manager that changes state enters the
operation barrier: Start, Stop, CheckInstance, Build and Destroy shared; Update, the schema
requests and start-up recovery exclusively. Start, convergeSchema and recovery call newInstance, which takes the port
allocation lock inside the barrier. Docker and SQLite are called synchronously.
Every hazard of this code with its line is in `PROJECT.json` under `hazards`.

## Modules

| Module | Models | State |
|---|---|---|
| `RWBarrier` | what the operation lock promises: per database, one exclusive holder or any number of shared ones | `hold` |
| `OperationLock` | `operation_lock.go` 244-358 line by line | `pc`, `mode`, `try` of each goroutine; `writer`/`readers` of each RWMutex; `gate`, `mainX`, `mainS` for the two files; `up` for processes |
| `OperationLockProofs` | proofs about `OperationLock`, and that it implements `RWBarrier` | |
| `InstanceLifecycle` | Start, newInstance, its roll-back, Stop, start-up recovery | the five tables; `state`, `attached`, `bind`, `nets` of Docker; `hold`, `portLock`; `op[o]`, a program counter and local variables for each request |
| `ContainerLedger` | what instances promise about each container: recorded before it runs, an instance's by the commit, forgotten when it is gone | `record`, `state` |
| `InstanceLifecycleProofs` | proofs about `InstanceLifecycle`, and that it implements `ContainerLedger` | |
| `SchemaConvergence` | CreateSchema, UpdateSchema, DeleteSchema of one schema, with the builds and instances they make and destroy | `schema`, `count`, `flag`: the rows; `image`: Docker and the disk; `insts`: the instances of each build; `req`: the request under way |
| `SchemaConvergenceProofs` | proofs about `SchemaConvergence` | |
| `ChallengeUpdate` | the rebuild of one changed challenge, forwards and backwards, and recovery after it | `digest`, `row`, `owner`, `retired`: the database; `image`, `artifact`, `debris`, `cont`: Docker and the disk; `req` |
| `ChallengeUpdateProofs` | proofs about `ChallengeUpdate` | |
| `DatabaseStartup` | NewManager on a shared database: latch, backup, migrations, validation | `db`, `latch`, `backups`: the files, and `diskLatch`, `diskBackups`: what of them is synced; `pc`, `hold`, `attempt` of each process; `replaced`, `unfinished`: history |
| `DatabaseStartupProofs` | proofs about `DatabaseStartup` | |
| `KeyedLock` | acquireBuildLock and acquireLocalPortLock | `locks`, the map; `refs` and `holder` of each mutex; `ref[t]`, the pointer a goroutine got |
| `KeyedLockProofs` | proofs about `KeyedLock`, which `BuildRequestsProofs` uses | |
| `BuildRequests` (extends `KeyedLock`) | Build, Destroy, Start, Stop and CheckInstance beside each other under the shared operation lock | `schemas`, `rows`, `instances`, `retired`: the database; `images`, `solvers`, `temps`: Docker; `files`; `slots`; `req[r]`, a request's step and variables |
| `BuildRequestsProofs` | proofs about `BuildRequests` | |
| `RuntimeRegistration` | the register command, the daemon that reads the file, and the start of a container with tweaks | `file` and `disk` (what a power loss may leave), `lock`, `cmd[c]`; `up`, `active`, `pending` of the daemon; `launch`; `settings`, `promised`, `synced`: history |
| `RuntimeRegistrationProofs` | proofs about `RuntimeRegistration` | |
| `MC...` | the instances TLC checks | |

### OperationLock

A request goes through `local` (waiting for the RWMutex), `drain` (a writer that
waits for readers; Go blocks new readers from then on), `gate`, `main`, `ungate`,
`held`, and back through `leave`; `undo` is every error return. `try` marks
the first, non-blocking exclusive attempt of acquireStartupOperationLock, which
falls back to a blocking shared request. In-memory databases (`InMemory`) have
no lock files. `GateError` and `MainError` are the errors of acquireFileLock.
`Crash` ends a process: the kernel drops its file locks. Go's RWMutex and
`flock` are external and modelled from their use: `flock` gives no order.

### InstanceLifecycle

One action per Docker call or database transaction. A request is a record in
`op`; its fields are the local variables that matter: the instance, the
containers (`instance.Containers`), what the current loop has to visit, what
stopContainers could not remove, the builds to restore, and whether an error was
seen. Every action has the outcome of success and, if the run allows it, failure
of Docker or the database, with what the code does then. `Crash` ends the
request wherever it is. `Lose` and `Exit` are containers that disappear or stop
behind cmgr's back. Recovery holds the barrier exclusively, so that nothing
interleaves with it except losses and its own death; loops over
retired and broken resources take one resource per action there.

Abstractions: instance identifiers are SQLite row ids, used again as SQLite
does; network `cmgr-N` is the number N; a container publishes at most one port
from CMGR_PORTS (one port name per host); container identifiers are recycled only when nothing
mentions them. `Overlap` says whether clients may stop an instance that another
request is working on; the code does not prevent it. `Reserved` keeps
identifiers for recovery so that the bound on identifiers never blocks it.

`ContainerLedger` is the abstract specification. It has neither requests nor
ports nor networks, only two stores that fail separately: the record the
database has of a container (none, retired, or an instance) and its state in
Docker. Each container moves on its own: `Create`, `Retire`, `Run`, `Commit`, `Exit`,
`Remove`, `Forget`; a step may move any number of containers, because a transaction
and a step of recovery do. The refinement mapping is `Record`: the containers
row, else the mark in `retiredContainers`. It does not allow an instance's container
to become retired or to change hands, a container to be started before it is
recorded, or a record to go before its container.

### SchemaConvergence

The three requests are exclusive, so there is one `req`; clients of dynamic
builds and start-up recovery act while it is `idle`. The steps follow
convergeSchema: `stage` (stageBuild inserts locked rows), `generate`,
`finalize`, `discard`, `drop` (generateBuilds and its two clean-up calls),
`scale`, `start`, `undo` (newInstance and its roll-back), `activate` (one
transaction), then `cleanup` and `erase` (cleanupSchemaResources and
destroyImages) and `reduce`. `rollback` is failBeforeActivation. `end` decides,
for a failed CreateSchema without active builds, to remove everything, and
`record` deletes the schema's row.

A build is a key (format, challenge, seed); a definition maps keys to instance
counts. An instance is "up", or "part": a row without all its containers, which
is what a stop that failed and a start that could not be undone leave.
Recovery, which InstanceLifecycle has in detail, is one action here, with any
subset of its work undone when it fails. The order in which a loop visits
builds makes no difference to the properties and is fixed; that the code
generates builds in groups by challenge is left out, because the groups only decide
when the challenge's directory is checked, which may fail in the model before
each build.

### ChallengeUpdate

Versions of the challenge's source are numbers, and everything made from it
carries its version: the row of a build, its image, its artifacts, its
containers. The steps follow updateChallengesInternal: `build`
(executeBuild under a staging name), `tag`, `keep`, `install`
(promoteStagedBuild), `finalize`, `pause`, `start`, `commit`
(prepareInstanceCutover), and when all builds are done `finish`, `cleanup`,
`complete`. Any error continues with the steps of rollbackBuildUpdate,
`giveback`, `retake`, `unpromote`, `unfinalize`, `discard`, for the build in hand and
then for the completed ones, last one first, and `restore`, which writes the
previous metadata. `debris` are the builds that have staged images or saved artifacts of an
attempt that no longer runs.

Abstractions: one challenge; one container per instance, which binds the
instance's host port while it runs; creating, retiring and starting a
replacement is one step (InstanceLifecycle has its parts); the author edits
the directory only between updates; challenges that are added, removed or
merely refreshed are left out.

### DatabaseStartup

A start goes through `wait` (only if it did not get the barrier exclusively),
`check` (the latch), `inspect`, and, if it holds the barrier exclusively and the
database is older, `latch` and `backup`; then `ensure`, which creates the schema
of an empty database, `migrate` (a transaction per version), `validate`,
`unlatch` and `finish`; `record` writes a failure into the latch. Every step may
fail; `Crash` ends a process anywhere, `PowerLoss` all of them, and loses
directory entries that were not synced. `Restore` and `Repair` are the
administrator's recovery as the repository's README describes it: everything
is stopped, the database replaced or repaired, the latch moved.

A database is what a start can tell about it: its `user_version`, which schema
its tables, columns and indexes amount to, whether rows conflict with the
indexes of version 1, and whether the final validation refuses its rows.
Exact duplicates, which the migration removes, are no conflict. The barrier is the
abstract one, except that a first attempt may also fail because another process
waits at the gate. SQLite's transactions are atomic and durable (external). Staging and linking the backup is one step:
nobody writes while the start holds the barrier. Programs that
do not take the barrier (an sqlite shell, a cmgr older than it) are left out; the
repository's README asks to stop them.

### KeyedLock and BuildRequests

Acquiring a keyed lock is two steps, releasing it two more, because the
goroutine waits for the key's mutex outside the mutex of the map: it can hold a
pointer to a mutex that the map no longer has. Mutexes are a finite set of
memory cells; one can be returned by `new` again when neither the map nor a
goroutine refers to it.

The requests of `BuildRequests` have no other lock in common. Everything
they make in Docker and on the disk is named after the row number of the build,
and SQLite gives the number of a deleted last row to the next insertion. An
image, an archive, a flag is therefore modelled by the key (schema, seed) of the build
it was made for, and the question is whether a number and a key can come apart. A Build goes through
`reference`, `lock`, `open`, `slot`, `images`, `create`, `retire`, `copy`,
`remove`, `finalize`, `unlock`, `drop` for each seed; `discard` and `forget` are
the clean-up of generateBuilds, `collect` and `destroy` that of Build. Destroy, and
the latter, go through `destroy`, `artifacts`, `untag`, `row`, `schema`. Start
is cut down to `instance`, `reference`, `lock`, `launch` and `undo`, Stop to one
step. CheckInstance goes through `solver`, `create`, `retire`, `start`, `wait`,
`remove`, `clear`, and shares the middle with executeBuild.

Abstractions: one process and one challenge, with one image and one archive for each build;
an empty schema record that a crash left behind is forgotten when its name is
reused (the real names are random and never reused). Clients follow a
discipline (`Free`): they do not name a build
that another request of theirs is still generating or destroying, and do not
destroy one they are starting or checking. Nothing in the code enforces it;
Observations says what happens without it.

### RuntimeRegistration

A command goes through `lock`, `snapshot`, `read`, `replace`, `sync`,
`validate`, `reload` and `wait`; `undo` and `undosync` are restoreFile after a
rejected validation, `restore`, `backsync` and `again` are
rollbackRegistration. Every step may fail at any time, without a bound. The
file is what else the administrator configured (`base`) and the entry of the
interceptor; whether dockerd accepts a base alone, and with an entry, is given
by constants. `disk` is the file a power loss may bring back: replaceFile
syncs the contents and only syncDirectory the name. The daemon reads the
file when it starts and some time after a signal. `ConfigureContainerSeccomp` is
cmgr's check of the daemon's runtimes when it creates a container, and
`StartContainer` the daemon resolving the name later: the arguments of
the entry then in force are parsed as parseRuntimeArguments does (counting
protocol and path arguments, forwarding the rest), and the interceptor refuses or
rewrites the bundle.

Abstractions: the administrator edits the file while no command holds its lock;
the checks of owners and modes of executables and directories are refusals before anything
happens; a seccomp profile is present or not.

The operators marked "Mistake" are not part of the model. Each is a wrong
version of the definition after it, used to confirm that the property named in
`PROJECT.json` would notice.

## Runs

| Run | Result | Shows |
|---|---|---|
| `operation_lock` | passes | two processes on a database, three goroutines, errors and crashes: exclusion, no leaked lock, no bypass of a waiting exclusive request, refinement of `RWBarrier`; every request is answered if operations end, and a start-up even if holders of the shared lock never release it |
| `instance_faults` | passes | two concurrent requests, one container per instance, up to two failures of any kind; refinement of `ContainerLedger` |
| `instance_siblings` | passes | instances of two containers, one failure, containers that stop, one build without ports; recovery settles, requests end, retired containers are removed in the end |
| `build_requests` | passes | two of Build, Destroy, Start, Stop, CheckInstance at once, one failed call or crash: one goroutine per key, finished builds own what bears their number (unless a Destroy is removing them or was cut short), failed Builds and Destroys without faults leave nothing, running solvers are recorded |
| `registration` | passes | two commands, an administrator, a daemon that restarts, any number of failed calls, deaths and power losses: settings are kept, reported registrations stay, the daemon follows the file, roll-backs are complete, tweaks are not omitted by an entry of the interceptor |
| `schema_faults` | passes | one definition in force at any time, staged rows never serve, a failed attempt takes nothing away, success means what was asked for, repeated updates converge; three failures or crashes |
| `update_crashes` | passes | the digest vouches for everything made from the source, nothing is forgotten, one active container per instance, repeated updates converge; one failure and two crashes |
| `database_startup` | passes | three processes, twelve kinds of databases, two faults: migrations are recoverable, only validated databases are served, starts end, nothing wedges the deployment |
| `restore_capacity` | violated | a replacement that fails once is never tried again |
| `stop_during_start` | violated | Stop of an instance that is being started orphans its containers |
| `schema_no_images` | violated | a build can be activated without its images |
| `update_rollback` | violated | after a failed roll-back the challenge is mixed and not marked as incomplete |

Bounds. Two requests are enough for each pair of operations to interleave at each step,
and recovery takes a third role after either. One build is dynamic and one has
a fixed number of instances (1), so both branches of Start, Stop and
recovery occur. Three ports are fewer than three instances plus leftovers can
want, so running out of ports occurs. Two failures allow a failure of the
clean-up of a failure. Two containers per instance are the smallest number that
can be half removed. The three definitions of `schema_faults` overlap: two share
a build with different counts, one of them and the third share a build that is
dynamic in one and fixed in the other, so that builds are added, removed,
scaled up and down and change hands; the third failure can hit the
clean-up of a retry. In `update_crashes` two builds are the least that can be
mixed, one version has artifacts and one has none, and two crashes allow one
during the retry after the other. Six containers allow an update to start
while recovery has not yet removed the containers of an interrupted one. In
`database_startup` the databases include one of every outcome of `Ensure`,
`Migrate` and `Validate`; three processes allow a start to meet both a start
and a running operation, and two faults allow a failure or a death followed by a power loss.
In `build_requests` two build numbers are the least for which one can be used again
while the other is in use; two seeds let a Build fail after its first success;
one slot makes two Builds wait for each other; one fault at any of the steps, with
broken challenges on top, which are no fault and not bounded. In `registration` nothing but the sets of constants is bounded: two commands and
two interceptors allow a forced replacement of one registration by the other, and the
bases include one that dockerd accepts only without an entry and one that is no JSON.

The four violated runs are findings, described with quotations in
`PROJECT.json`. `update_rollback` needs two failures; with one, `update_crashes`
shows that a failed update restores everything. `RetriesConverge` excepts the
rows that `schema_no_images` is about. `stop_during_start` needs no failure at all: Stop reads
the instance after openInstance and before finalizeInstance, removes no
container, and its removeInstanceMetadata comes after the commit; ON DELETE
CASCADE then drops the rows of running containers. The passing runs therefore
assume that clients do not stop an instance that another request works on
(`Overlap = FALSE`), and so do the theorems that state their properties, as a
hypothesis; `CommittedNotRetired` does not.

Fairness. `operation_lock` assumes that a goroutine that can take its next step
takes it (weak fairness: Go schedules runnable goroutines)
and that a waiter of `flock` or of the RWMutex that can infinitely often be
served is served (strong fairness; Linux wakes `flock` waiters in turn and Go's RWMutex has
its own writer preference). That operations end is a premise of
`RequestsAnswered`; `StartupDoesNotWait` has instead the premise that from some
time on no running Manager asks for exclusive access, and of fairness that an
exclusive operation ends (`ReleaseExclusive`). `instance_siblings` assumes that requests go on (every Docker call returns),
that the port lock is fair, and for `RetiredRemoved` that start-ups recur and
find the barrier free. `schema_faults` and `update_crashes` assume that a request
goes on (weak fairness of `Step`), that the client or operator repeats the
update (weak fairness of `UpdateSchema`, `Update`; both are meant to be repeated after
errors), and `update_crashes` that a start-up comes again and again between updates
(strong fairness of `Recover`: each run of the command line tool is one).
`database_startup` assumes that a start and an operation go on, that the barrier serves who waits
(strong fairness of `AcquireShared`, which `operation_lock` justifies), and that the
administrator comes to repair what starts refuse (strong fairness of `Repair`).
It does not assume that processes are started; that is a premise of
`LoneStartServes`.

### Observations

Seen while modelling, at the lines named, and not kept as runs:

- `docker.go:1533`: a process that dies between ContainerCreate and
  retireContainer leaves a created container, never started, that no table
  names; recovery does not list Docker's containers. executeBuild has the same window.
- `api.go:415`: a rollback that could not remove the network and then fails to retire it
  reports both errors, and removes the row all the same. If that works the network is in no table.
- `docker.go:159`: getFreePort knows committed ports only. The second container of an
  instance can be given the port of the first, and its start then fails
  although ports are free.
- `api.go:726`: convergeSchema counts rows of instances. A row that a failed
  stop left without containers counts until the next recovery.
- `docker.go:2206`: destroyImages removes the images the row lists, none before
  finalizeBuild. After a crash between executeBuild and finalizeBuild,
  DeleteSchema leaves the images.
- `api.go:53`: a start that finds the barrier taken may not create or migrate the
  schema and fails. Two processes that a supervisor restarts at once can overlap
  for ever in this way, each failing because of the other, with no fault
  involved after the first. `LoneStartServes` therefore has the premise that in the end one
  process starts with no other beside it.
- `internal/ociinterceptor/register.go:168`: the merged daemon.json is validated
  only by the call that changed it. After a death between the replacement and
  the validation, the next call finds nothing to change and reloads Docker
  with a file that was never validated. The daemon refuses such a file and keeps what it has.
  In the same way a command after a death before syncDirectory reports "already configured"
  without syncing: `RegisteredStays` counts only registrations a command made itself.
- `internal/ociinterceptor/register.go:584`: restoreFile writes back the snapshot. What an
  administrator, who does not know the lock file, wrote since is lost.
- `api.go:513`: a Destroy of a finished build whose Build is still at a later
  seed deletes the record of the schema, as soon as there is no row of it. The later builds have
  a schema without a record; schemaIsManual then fails, and they can never be destroyed.
- `docker.go:2179`: destroyImages looks for instances, removes artifacts and images, and only
  the foreign key of the last step notices an instance that was opened since. The build then has a running or failing
  instance, a row and no images.
- `solver_framework.go:81`: two checks of instances of one build share one image name; the
  first to end removes the image, and the ContainerCreate of the other fails.
- `solver_framework.go:78`: the removal of the solver image is deferred only after the progress of
  its build was read. An error or a time-out between the tag and the end of the progress
  leaves the image, until a later check of an instance of the build removes it.
- `api.go:375`: Start does not look at the flag. The row of a build that is still being
  generated lists no images, and Start of it reports an instance without containers.
- `docker.go:940`: discardStagedBuild removes images without force. If the
  temporary container could not be removed, the image stays although the row goes; the next
  Build with the number tags its own.
- `api.go:340`: a process that dies in a Build leaves the manual schema record, and no request
  removes it.

## Proofs

All theorems hold for every value of the constants, under `ConstantsAssumption`
(`OperationLock`), `ParametersAssumption` (`InstanceLifecycle` and
`RuntimeRegistration`), `SchemaAssumption`, `StartupAssumption`, `LocksAssumption`,
`BuildsAssumption` and `UpdateAssumption`, which say what kind of values the constants
are, with every crash and failure the modules have. `LocksAssumption` has the
set of goroutines finite: the reference count of a mutex is the number of goroutines that
point to it.

`OperationLockProofs`. The inductive invariant `IndInv` says, for each lock, that
it belongs to exactly the goroutines whose program counter says so: readers and
writers of the RWMutex (`ReadersOwned`, `WriterOwned`), no reader beside a
writer that has drained (`WriterAlone`), and the gate and the main file with the mode the
request asked for (`FileInv`). The properties themselves are not inductive: that
two exclusive holders cannot coexist follows only from the main file having one
owner, and that nothing leaks only from the equivalences. Theorems:
`TypeCorrect`, `LocksNotLeaked`, `Exclusion`, `Turnstile` (an action property)
and `Refinement` (`OperationLock` implements `RWBarrier`).

`InstanceLifecycleProofs`. `TypeCorrect`, and `CommittedNotRetired`: no container
of an active instance is ever in `retiredContainers`, which the next recovery
would remove. The invariant has three parts: `Stores` (types of the tables and
of Docker), `Locals` (each request is `Sound`: what it may hold at each step)
and `Marks`: containers of an unfinished newInstance have no owner
(`Uncommitted`), two unfinished ones share no container (`Apart`), and
the property itself. `Uncommitted` is needed because retireContainer marks
what the request holds; `Apart`, because finalizeInstance of one request gives
owners to containers. Each action is shown to be a `Moves` step (only its own
request changes, to a sound value with no new container); creation and commit are the
two exceptions and have lemmas of their own.

The other safety properties of `InstanceLifecycle` have the hypothesis `~Overlap`,
without which `stop_during_start` refutes the first of them. They rest on one more
inductive invariant, `TrackInv` (`TracksAlways`): a recovery is alone in the barrier
(`Alone`, `Held`), no two requests work on one instance or one container (`Distinct`,
which is what `~Overlap` buys), every containers row has its instance row and what ever
ran has a row or is retired (`Recorded`), and `Faithful`, what the stores say of the
instance and the containers of each request at each step: that the row is still
there, that a newInstance that has not committed owns nothing, that a Stop which has come to
the ports has no container left, that a broken instance's containers are gone before its row.
The proof is by framing: `Frame` says what a step of one request may do to the stores
such that nothing known of another one is lost (`OthersKept`), `Careful` what keeps
`Recorded`, and each action is shown to be both; only its own request is then left to
look at. A new instance is no other request's because its identifier is larger than
every row's (`NextIdFree`, from a well-founded order on the identifiers).
Theorems:

- `RunningIsTracked` (`RunningTracked`) and the action property `OwnershipOutlives`
  (`OwnershipOutlivesContainer`), for any failures and deaths.
- `LedgerImplemented` (`FollowsLedger`: the module implements `ContainerLedger`), for any
  failures and deaths. `Careful` has what a record's end needs; in addition, what an
  unfinished newInstance holds is marked in `retiredContainers` from RetirePending to the commit
  (`LogInv`), so that the commit takes every container from the retired ones. That
  no other request removes such a mark needs `Distinct`, and for recovery, which
  removes all of them, that it is alone. `Ledgered` is what each action does to one container; with
  the other invariants, `LedgerMoves` makes a move of the ledger of it. `LedgerKeeps`
  shows that the ledger is worth implementing: what follows it never loses a container that ran.
- `PortsAreRecorded` and `PortsAreExclusive`, from `PortInv`: whoever has the port allocation
  lock is between startContainers and its end, its containers are on its own
  network, and their ports have no row before the commit; committed containers are on
  their instance's network. `PortsExclusive` is not inductive: that two instances do not choose one
  port needs that only the holder of the lock adds rows.
- `NetworksAreTracked` (`NetworksTracked`), from `NetInv`, with the second hypothesis that
  the database does not fail: a rollback whose retireNetwork fails goes on to delete the row
  (Observations; the run has no such failures either). Docker may refuse and processes may die.
- `RecoverySettlesAlways` (`RecoverySettles`, an action property), from `SettleInv`: as long as a
  recovery has met no error, what it has not dealt with is on the list it works
  through (`Tidy`): the retired containers, then the incomplete instances, then at most the
  instance that it is creating, which finalizeInstance makes complete, because it is reached
  with one container per host. A recovery that rolls back an instance has met an error. `RecoveryAlone` and
  `RecoveryExcludes` show that nobody else changes the tables meanwhile; containers may be lost or stop.

`SchemaConvergenceProofs`. `TypeCorrect`; `StagedNeverServe`: a build that was
never finalized is not in force and has no instances; `OneDefinition`: the builds
in force are those of one whole definition, or none, for any definitions and any
number of failures and crashes. The definitions in the assumption are those
validateSchemaDefinition accepts: counts of at least -1, so never LOCKED. The
invariant adds to the properties what the request has established (`Plan`: after
staging every build of the definition has a row; after generation every one has a
flag, which the activation relies on; a build about to be dropped has none, so
it was not in force), that the instances it
created are still at their recorded positions, in increasing order for each
build (`Creation`: a roll-back from the last one never shifts an earlier one),
and that only rows carry a flag (`FlagsOnRows`).
`SuccessIsExact` states `ConvergedExactly` for every definition and failure, whatever
earlier attempts left. Its invariant, `Progress`, follows what a request without
an error has achieved: the builds it has scaled have enough instances (`Filled`),
after the activation the definition is in force while locked builds go, before the
reductions nothing is locked, and the builds it has reduced have exactly their number.
Here it matters that cleanupSchemaResources touches locked builds only, none of which
is in the definition, and that any error it meets is reported. `CapacityIsKept` states
the action property `PriorCapacityKept` for every step: a new row does not run until it is
counted as created, and it is the last one when it is taken back (`FreshLast`); each
roll-back step forgets one created instance and stops at most one running one, which
takes an injection between the positions before and after a removal (`UpsRemoved`).

`DatabaseStartupProofs`. `TypeCorrect`, `Recoverable` and `Validated`. The invariant
says which exclusion and which latch each step of a start is entitled to
(`Entitled`), and what a start has found out about the database and relies on
later (`Knows`): that a migration is still required when the latch is written, that the
backup still equals the database at the first transaction, that a validated
database stays so. `Durable` strengthens `MigrationRecoverable` to what is synced, without
which a power loss would break it. `Validated` rests on `Knows` because a process
that serves between operations holds no lock: nobody can migrate under it
only because its database requires no migration.

`RuntimeRegistrationProofs`. `TypeCorrect`, `SettingsPreserved`, `RegistrationDurable`,
`DaemonAgrees`, `RollbackExact` and `TweaksApplied`, for any number of commands and
faults. The invariant says who holds the lock (`Locked`: a command past its
lock step is the only one, and only it may have changed the file), what its
copies are worth (`Copies`: snapshot and merged document carry the administrator's
settings, and the snapshot also the entry promised last), what file and disk
are at each step (`Progress`), and that `launch.entry` is compatible
(`Checked`). `SettingsKept` needs `Copies` because a restored snapshot must be no
older than the administrator's last edit; `RegisteredStays` and `RollbackComplete` need `Progress`
because the disk lags behind the file for a step of each replacement.

`KeyedLockProofs`. `LocksExclude`: two goroutines never hold the lock of one key.
The invariant says that the reference count of a mutex is the number of goroutines that point to
it, that every goroutine between acquire and release points to the mutex the
map has under its key, and that keys have mutexes of their own. The property is
not inductive without the count: only `refs = 1` at the release shows that
nobody still waits for the mutex that the map forgets.

`BuildRequestsProofs`. `BuildTypes`, `FinishedBuildsWork`, `SolversRecorded`,
`NothingIsLeft` and `RequestsExclude`, all from `RequestsKeepTheirBuilds`, for any number of
requests, builds, failed calls and deaths. The inductive invariant `BuildsInv` says of each
request what it holds at each step: the lock and the slot; that the schema of a Build is its own,
so that nobody else inserts or deletes rows of it; that a Destroy has its build to
itself; that a number in hand is the number of a row of the right key, or of no row. From this
a number has at most one request that writes the images, the archive or the
row it names, and these are what the step of that request says they are
(`FinishedIntact`). A new number is fresh because it is larger than the number of every
row; what a deleted row may have left under the same number is accounted for by
the invariant and overwritten before the flag is set. `NothingLeft` needs that without faults
each leftover belongs to a request that is still going to remove it.

`ChallengeUpdateProofs`. `UpdateTypes` and `OneActive` (`AlwaysOneActive`) hold whatever fails, from
`SafeInv`: where the request is and what its loops have visited (`Place`, `Order`), the old and the
new container of each instance that was moved (`Cutovers`), and that what was passed on
the way forward is of the new version (`Promoted`). `AlwaysOneActive` alone is
not inductive: CommitNew and GiveBack hand the instance from one container
to the other, and only `Cutovers` says that the other one exists, is nobody else's
and is not about to be removed. `OneFailureVouches`, `OneFailureNoDebris` and `OneFailureKeepsRunning` state
`DigestVouches`, `NoDebris` and `KeepsRunning` as long as `failures <= 1`, with any number of
deaths: the roll-back ignores its own errors, and `update_rollback` refutes
`DigestVouches` with a second failure. Their invariant `RestoreInv` says that each
build still to be taken back has its previous version saved, that each old container has
the previous version (`Vouched`), that no stray container has a port that the
roll-back needs (`Tidy`), and which containers run (`Serving`). A death in a
cutover does leave a stray container with the port. The roll-back of a later update could
then not start the old container; but that death also left the marker, so that this
update has no previous digest to restore (`Clean`).

Only model-checked: liveness (`RequestsAnswered`, `StartupDoesNotWait`, `RequestsEnd`,
`RetiredRemoved`, `StartupEnds`, `LoneStartServes`, `RetriesConverge`, `UpdatesConverge`), which is out of
the prover's reach. Every safety property that a passing run checks is also a theorem.

## Not modelled

- Ports chosen by Docker when CMGR_PORTS is not set; several ports per container.
- Calls whose reply is lost (Docker did the work and cmgr sees an error), except for
  starting a container.
- In InstanceLifecycle: LOCKED builds, which Start and Stop refuse like fixed ones
  and recovery does not restore (SchemaConvergence has them).
- freezeBaseImage, which builds and pushes a cache image and changes nothing else.
- What the solver finds: the comparison of the flag and recordSolve, which writes a time
  stamp by the instance's number.
- Which rules a seccomp tweak adds to a profile.
- The path of the lock files (symbolic links to one database are resolved by
  canonicalDatabasePath before the models begin).
- The rest of the table above; `PROJECT.json` has a reason for each component.

## Plan

1. `ChallengeUpdate`: added, removed and refreshed challenges, edits during an
   update; an abstract specification in which a challenge is old, new or marked,
   and the proof that the update implements it.
2. The networks and ports of an instance in an abstract specification beside
   `ContainerLedger`.
