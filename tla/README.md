# A verification project for menabrea

Menabrea is a platform for event-driven applications on several cores and several nodes. It sits on
OpenEM (EM) and ODP: one process per core dispatches events, and all of them share memory.
Applications deploy *workers*, send them *messages*, also across nodes, and arm *timers* that send
messages later.

The modules here are translated from the C code under `src/platform/components`, the kernel driver
and its library under `src/drivers`, and the C++ code of `src/test-harness`. `PROJECT.json` has the
correspondence definition by definition (`map`), the runs, the mutants that show that each property
can fail, the hazards and the theorems. Paths below are relative to `src/platform/components` unless
they begin with `src/`.

## 1. Inventory

| Component | State | Operations | Hard behaviour | What makes it correct |
|---|---|---|---|---|
| Identifier rings (`workers/worker_table.c`, `timing/timer_table.c`) | a ring with a get and a put index and a count, in shared memory, under a lock | allocate, release | two indices that wrap at different times; poisoning of empty slots | no ID lost, duplicated or handed out while in use; reuse is first in, first out |
| Timing (`timing/`) | timer table with one lock per entry, the ring, EM timeout objects, timeout events in the queue of a daemon | create, arm, disarm, destroy, handle a timeout event, retire all | a disarmed timer's event is already queued; destroy waits for late events; creation works without the lock; shutdown meets all of this | `SkipEvents` counts exactly the late events; one owner per message; table and ring agree; a destroyed timer is released |
| Workers (`workers/`) | worker table with one lock per entry, the ring of dynamic IDs, execution objects (EOs), the stack of each core, the landing pad of `longjmp` | deploy, local and global start, completion by a daemon, body, terminate (another worker, oneself), local and global stop | termination during deployment, termination of oneself on two cores, nested callbacks, failures with half the resources taken | contexts outlive their users; nothing leaks; deployments and terminations end |
| Local messaging (`messaging/local/`, `messaging/router.c`) | message buffer of a worker being deployed, queue of its EO | route, buffer, flush, drop | messages and deployment progress in parallel; EM refuses part of a flush | no message freed twice, lost, or reordered |
| Dispatchers (`startup/event_dispatcher.c`) | shared exit flag and six counters, two ODP barriers, permissions and polling flags per process | fork, start-up, dispatch, shutdown, teardown, signal listeners | processes wait for each other nine times, main has work in between; crashes and signals at any time | processes move in step; main's shutdown work overlaps with dispatching of the others; nobody waits for ever; no orphans |
| Memory (`memory/memory.c`) | reference counters in shared buffers; a list of init memory debts per process | get, reference, put; get init memory, release the debts | puts on several cores; the list is copied by `fork` | a buffer is given back once, after its last reference; each init block is freed exactly once |
| Internode messaging (`messaging/network/`, `messaging/message.c`) | message pool, packet pool, device queues, the burst of each polling core | create, send, poll, validate, translate, destroy | lossy network, padding, foreign traffic, exhausted pools | what arrives was sent here, once; every buffer is given back |
| Spinlocks (`menabrea/common.h`, the tables) | one lock per timer, per worker and per ring | acquire, release | locks nest: a message is sent with the timer's entry locked | no circle of cores that wait for each other; each ring operation is as good as one step |
| Host state (`startup/main.c`, `messaging/network/setup.c`, `mac_spoofing.c`, `exception/`, `src/platform/scripts/menabrea_cleanup.sh`) | the interface's MAC address, a file that saves it, ODP's shared memory, the socket of the harness, the script of recovery actions, a chain of listeners per signal | start-up, teardown, register a recovery action, raise, clean up, restart | death between any two system calls | the cleanup restores the host; a restart does not stumble over what was left |
| Application loading (`startup/load_applications.c`) | up to eight slots with a list of dependencies each, the linker's reference counts | load, fail, unload | slots are reused after failed loads; applications share dependencies | each library is closed as often as it was opened |
| Test harness (`src/test-harness`) | the socket and its one client, the runner with test, timer and run number | connect, run, stop, report, extend, time out, hang up, exit | reports and timeouts that arrive after their test; shutdown under a running test | a verdict belongs to its run; one answer per request; no leaks; every run ends |
| mring driver and library (`src/drivers`) | one ring per core in pages mapped to user space, two indices, resources of module and handle | load, produce, open, read, close, unload | two sides without a lock; pages mapped by processes; failures half-way | indices match what was published and read; pages outlive their mappings |
| Input polling (`input/`) | a list of callbacks, polling flag | register, enable, poll | polling must end before the callbacks' resources go | part of the harness and of the dispatchers |
| Cores, queue groups, logging, command line, EM/ODP set-up | configuration | - | none: sequential, before the fork | - |

Interactions: the timing daemon, the completion daemon and every worker are EOs that EM dispatches
on any core. The timing daemon sends messages through the router, which looks into the worker table.
The dispatchers disable timer creation and worker deployment core by core, and main then retires the
timers and terminates the workers while the other cores dispatch. The network feeds the same router
through input polling, and so does the harness, an application like any other: it uses timers,
messages and a worker. Main loads the applications before it starts the dispatchers.

## 2. Modules

| Module | Models | Built on |
|---|---|---|
| `IdFifo` | the ring: `AllocateId`, `ReleaseId`, its assertions, `RingInv` | |
| `IdQueue` | abstract: a queue of free identifiers | |
| `IdAllocator` | the ring on its own, used arbitrarily | `IdFifo`, refines `IdQueue` |
| `TimerService` | abstract: what `menabrea/timing.h` promises | |
| `Timing` | timer table, API, daemon, retirement | `IdFifo`, refines `TimerService` |
| `WorkerService` | abstract: a worker as a mailbox | |
| `Workers` | worker table, deployment, termination, local messages | `IdFifo`, refines `WorkerService` |
| `Dispatcher` | processes, synchronization, signals, teardown | |
| `Memory` | runtime memory and init memory | |
| `MessageTransfer` | abstract: a lossy transfer that delivers at most once | |
| `Network` | messages between nodes | refines `MessageTransfer` |
| `Locks` | spinlocks of timers, workers and rings, and the calls that nest them | `IdAllocator`, refines it |
| `Mring` | the mring kernel module and the library | |
| `TestHarness` | socket, parser, test runner, listener, polling, shutdown of the harness | |
| `Platform` | main, application loading, MAC address, signals, recovery, cleanup, restart | |
| `MCWorkers` | core masks and symmetry for TLC | `Workers` |
| `Subsequence` | what is left of a sequence when elements are dropped, shared by `Workers` and `WorkerService` | |
| `IdFifoProofs`, `LocksProofs`, `TimingProofs`, `DispatcherProofs`, `WorkersProofs`, `TestHarnessProofs` | theorems | the module in their name (`LocksProofs`: also `IdAllocator`) |
| `BufferProofs` | theorems: the pools and who has their buffers | `Memory`, `Network` |
| `ResourceProofs` | theorems: what is taken step by step is given back | `Mring`, `Platform` |

Definitions keep the names of the functions they stand for. The definitions named as `as` under
`mutants` in `PROJECT.json` are plausible wrong versions of the definitions that follow them (their
comments say what the slip is); only the mutation runs use them.

### How code becomes actions

*Locks.* What the code does while it holds the spinlock of a table entry, or of the ring, is one
action: no other core sees the states in between. Code outside a lock is split at every access to
shared state. `CreateTimer` is three actions (identifier, entry, timeout object), `DeployWorker`
one per resource it takes or gives back. `Locks` is what entitles the others to this: there each
acquisition and release is a step, and so are reading and changing the ring.

*Assertions and fatal exceptions* add their name to the variable `failed`. In `Workers`, `NoFatal`
says that it stays empty; in `Timing` one case is left, and `OnlyUnfinishedTimersFail` says which.

*Refused calls* (wrong state, no resource, no right to allocate) and messages that are destroyed at
once change nothing and are stuttering steps.

*Data.* Ticks are reduced to what the code tests: whether a period is zero, with the truncating
conversion of microseconds to ticks kept, and whether `PreviousExpiration` is zero. Messages are
handles; in `Network` also a size, since lengths are validated there. `MessageBuffer`, an array
padded with `MESSAGE_INVALID`, is a sequence.

### What EM, ODP and Linux are assumed to do

These definitions are marked external in the map and come from how the code uses the libraries.

* A timeout object sends one event per expiry; cancelling it succeeds only before the expiry. The
  daemon's queue is parallel.
* `em_eo_start` runs the start function at once, then the local one on every core of the queue group
  from the dispatch loop, then sends the notification. `em_eo_stop` disables the queue, runs the
  local stop function on every core and then the stop function. Events of a disabled queue and of a
  deleted EO are dropped. EM holds back what a start function sends until the EO runs.
* `Workers` lets any core of the mask run the body at any time. That covers parallel workers, and
  atomic ones that leave the atomic context at once; for the others it allows more than EM does.
* The core's current EO (`s_currentEoCallback`) is the top of its stack.
* An `ActiveSync` dispatches chunks of events between two looks at the counter. The ODP barrier that
  is used twice at exit appears as two barriers, which is what a reusable barrier amounts to.
* A module whose file operations have an owner is not unloaded while a file of its devices is open
  or mapped. A process that ends loses its mappings and descriptors.
* `dlopen` and `dlclose` count references. systemd runs `menabrea_cleanup.sh` after the process has
  ended, and may start it again. `rm` and `ifconfig` do what they say; commands of the script whose
  file is missing have no effect.
* The network loses frames, pads short ones to 60 bytes, delivers frames to stations they are not
  addressed to, and carries other traffic. It does not forge or duplicate frames.

### State and actions

`Timing`: `table` is `s_timerTable`, `fifo` is `s_idFifo`, `tmo` and `inFlight` are EM's side,
`owner` says who has each message, `creating` is the call a core is in, `allow` are the flags
`s_allowAllocations`, `retireNext` is the loop variable of `RetireAllTimers`, `issued` the identifiers `CreateTimer` has ever
returned. Applications may call with any of these, on any core and at any time (`Called`): the timer may
have been destroyed, or another `CreateTimer` call be about to create it again. `ArmTimer`,
`DisarmArmed`/`DisarmIdle`, `DestroyNow`/`DestroyDeferred` are the API, `ArmTimerAborts` and
`DestroyTimerAborts` the calls that die of an assertion. `failed` has each assertion with its timer, whose
entry then stays locked; the core that died is not recorded and may go on, which allows more than the
code does. `SkipEvent`,
`CleanTimeoutOneShot`, `CleanTimeoutPeriodic`, `DestroyedEvent`, `RetiredEvent` are the branches of
`HandleTimeoutEvent`. `RetireStep` has the guard `allow = {}`: main retires timers after the
synchronization at which all cores have given up allocating. That this is so is a property of
`Dispatcher` (`QuietAtShutdown`, a part of `TeardownAlone`), and the two modules are tied together there only.
`CreateTmo` takes it that the value tested after `em_tmo_create` is the one that was returned, as in the
optimized builds of the layers; code that reads `context->Tmo` again (`timing.c:45`) could be told that
the creation failed by a caller that has destroyed the timer with an old identifier in between.

`Workers`: `stack[c]` holds the calls of a core, innermost first, so that a callback may deploy
another worker, whose start function runs inside it. `pad` in a frame tells whether `s_jumpPad`
still belongs to it. `eo` are the execution objects with their queues, `notifs` the notifications
for the completion daemon, `live` the messages somebody is responsible for.

`Dispatcher`: `pc[c]` is the place of a process in the sequence from fork to exit; `counter` are the
shared counters. Workers appear as far as shutdown cares. `Die` is a crash; SIGCHLD, SIGTERM (the
parent-death signal) and SIGINT are actions. A child asks for `getppid() == 1`. What `getppid`
returns once main is gone is the constant `AdopterPid`: 1, the process that adopts orphans, and main is
another process (`MainPid`). Where orphans go to a subreaper, a child whose main died before the death
signal was asked for stays, and TLC refutes `OrphansDie` with another `AdopterPid`; where main itself is
process 1 of a container, no child comes up. The proofs do not depend on the two.
`Drained` waits until no event is left that the core could dispatch (`HasEvent`): a local function sent
to it, or a notification, which any core may take.

`Memory`: `freeing` marks a process between the atomic decrement and `em_free`. `debts` and
`allowed` are per process and copied by `ForkChild`. After `MemoryTeardown` no application code
runs, and no process is inside a put when it is reached: main comes to it behind the exit barrier,
which `Dispatcher` shows to hold until everybody has stopped dispatching (`NobodyRunsAhead`).

`Network`: a message moves `held` -> `pktout` -> `wire` -> `pktin` -> `packets` -> `inbox`;
`freeMsgs` and `freePkts` count free buffers. The check of the Ethernet destination and the receiver
check of `IsValidMessage` are both kept, although for frames built by nodes each implies the other.
Several cores poll one device, so messages of one sender may be routed in another order than they
were sent; the interface does not promise otherwise. `IsValidMessage` adds the length of the header to
the payload size as the code does, modulo the range of a `u32` (`U32Range`; TLC has a smaller one, its
integers being no wider). Sizes of messages stay below it, which is an assumption on `PayloadSizes`: only a
forged frame could make the sum wrap, and the network of the model forges none. The local part of the
receiver is not kept; a message dropped for it there is one that `PollRoute` destroys.

`Locks`: `todo[c]` is what is left of the call of core `c`, a sequence of acquisitions, releases and
ring operations; `seen[c]` is the ring as it has read it. The ring of the timers has its contents,
that of the workers, which is the same code, only its lock. Which timer a call is about is arbitrary;
`CheckTimer` lets only one of several calls destroy it. A call that meets an entry under construction
takes no further step: it would die of the assertion of `em_tmo_delete`.

`Mring`: `kern` are the resources of the module in the order `mring_init` takes them; `producer` is
the timer callback of a ring in three steps: it looks at the indices, fills, publishes. `user` is a
handle of the library with its place in `mring_open`, its descriptors and mappings. Bytes have no
contents: `owed` counts those published and unread, `spoiled` are offsets of unread bytes that were
written to. `orphans` are processes that opened a device while `mring_init` was still running and
then failed; what happens to their mappings is not the driver's to decide.

`TestHarness`: core 0 does one thing at a time, so `phase` says what; `conn`, `open` and `client` are
the socket, `runner` the static variables of `test_runner.cc`, `queue` the listener's messages. `code`
is what a test leaves running on other cores: it reads the number of the run (`ReadsRunId`) and sends
later (`Sends`), also after its test was stopped. `ledger` is history: who asked for a run, how it
ended and who was told. Clients are assumed to put a word into every packet: the result of reading an
empty one fails an assertion (`ipc_socket.cc:168`), and of blanks only there is no command to compare
(`test_runner.cc:94`, `187`); nothing is claimed of either. A request is a sequence of tokens, good or bad, over the keys of the test, with
at most one more than there are keys, so that keys are missing, doubled and wrong.

`Platform`: `world` and `script` outlive a process; every other variable is lost when it ends. Each
place `pc` is followed by one system call that changes the world, so that `Dies` can come between any
two. A load that fails computes what is left of the references, for each number of dependencies that
were loaded before the missing one (`DependencyMissing`). `listeners` is the chain for SIGINT and SIGCHLD, last registered first. `libs.twice` records that
a list of dependencies was released a second time; since that is undefined, `StaleListKills` lets the
process die of it at any time from then on. `gap` is set if the process died between the registration
of `ifconfig down` and that of `ifconfig up`.

## 3. Runs that pass

| Run | Shows |
|---|---|
| `id_ring` | three cores, three timers, one worker, instruction by instruction: no group of cores waits for itself and no lock is forgotten (`NoCircularWait`); what happens to the ring is what `IdAllocator` says of operations in one step (`ImplementsIdAllocator`), and the ring's assertions hold |
| `timing` | two cores, two timers: late events are counted exactly (`EventAccounting`), messages have one owner, table and ring agree, assertions fail only for a call with an old identifier on an entry under construction (`OnlyUnfinishedTimersFail`), and the timers implement `TimerService`, in particular a message armed after a disarm is never sent by the earlier event; a destroyed timer is released by its last late event, an armed one-shot timer is served |
| `workers` | two cores, a static and a dynamic ID, all failures: no callback runs on a context that was released (`ContextOutlivesUsers`), the worker table agrees with the ring, no EO leaks and no message is in two places (`ResourcesAccounted`), none is forgotten unless a deployment is rolled back (`OnlyRollBackLosesMessages`), and workers implement `WorkerService` (delivery in order, none to a worker whose termination was requested during deployment) |
| `workers_liveness` | deployments and terminations end, for workers on both cores or on one, and callbacks run on the cores of their worker |
| `dispatcher` | three processes, SIGINT and crashes at any time: nobody passes a synchronization that another has not reached, main's shutdown work is done while the others dispatch, no timers or workers are created any more by then and main leaves last (`TeardownAlone`); SIGINT at any moment leads to the exit of all unless one of them crashes; children die with main, also one whose main dies before it has asked for the death signal |
| `memory` | references are exact while three processes get, share and put; init memory is freed once; buffers return to the pool |
| `network` | two nodes with pools so small that each allocation fails sometimes: no buffer lost or given back twice, and the network implements `MessageTransfer`; each message taken over is delivered or destroyed in the end |
| `mring` | the indices differ by exactly what was published and not read, although each side works with an old copy of the other's (`IndicesExact`); a burst writes to unread bytes only if these wrap around the end of the ring (`SpoilsOnlyWrapped`); whatever fails, half-way through `mring_init` or `mring_open`, nothing is left and no process keeps pages that were freed (`PagesReleasedInTime`) |
| `harness` | runner, timer, test case and messages agree at every moment and no assertion fails (`NothingLeaks`); a test is ended by its own result or timeout (`VerdictsBelong`); the client that asked gets one answer (`AnswersOnce`); tests start with all parameters (`ParamsComplete`); every run ends (`EveryRunEnds`) |
| `platform` | wherever the process dies, the cleanup gives the host back as it was, and after exit there is nothing to clean (`CrashRecovered`); no assertion about the host fails in the next start, and the process dies of a list released twice only for lists of applications of one shape (`DiesOnlyOfStaleList`); the linker's counts are what the loaded applications hold, whichever loads failed (`LibrariesExact`) |

Each property has a mutant in `PROJECT.json`: a plausible slip in the code under which TLC finds the
property violated. `NoFatal` and the like are about assertions of the code; type invariants are part of
the first invariant of each module.

### Bounds

* `Locks`: 3 cores, so that a circle may be longer than two; 3 timers, the ring empty, full and
  wrapped; 1 worker. Cores are symmetric. Deadlock is checked: some core can always go on.
* `Mring`: 2 rings, so that `mring_init` can fail after the first is complete; one process reads.
  8 bytes; bursts of 2, 3 and 8: one that divides the size, one that does not (so that the unread bytes
  wrap in every way), and one that never fits.
* `TestHarness`: 2 runs, 2 clients, 1 message from the code of each run, 1 timer (so that creation
  fails while another run has it), 2 parameters. One run more than is needed for a late message to
  meet another test.
* `Platform`: 2 processes one after the other, lists of up to 3 applications for 2 slots (so that slots
  are reused and run out), one dependency, which an application may name twice; the harness is the one
  application that touches the host.
* `Timing`: 2 timers (one reused while the other is in use), 2 cores (two concurrent creations, or a
  call against the daemon), 2 messages, 3 events in flight per timer: two late ones and that of the
  current arming, one more than is needed to confuse them. The bound stands for the event pool.
  Periods 0, 1 and 3 microseconds at 1.5 microseconds per tick: one-shot, positive but rounded to
  zero, periodic. Two timers and cores are also what the failing assertion takes: one core creates a
  timer under an identifier whose first copy is still with an application on the other.
* `Workers`: 2 cores, one static and one dynamic ID, 2 EOs, 3 messages with a buffer of 2 (so that it
  can be full, and flushed in part), 3 nested calls: a callback that deploys a worker whose start
  function calls again; all workers on both cores. The symmetric sets are EOs and messages, which no
  definition tells apart. The liveness run has one ID, one message and two nested calls, and adds
  workers that live on one core only.
* `Dispatcher`: main and two children: one may be ahead of and another behind a third. One worker.
* `Memory`: 2 buffers, 3 holders, 3 processes, 2 blocks: a put that is the last and one that is not,
  concurrently.
* `Network`: 2 nodes and one identifier without a node; 1 message buffer and 3 packet buffers per
  node; payloads 8 (padded), 1466 (the largest that fits) and 1467; bursts of 2, so that the last
  burst may be short.

### Fairness

* `Timing`: EM serves every timeout and every event, and a core goes on with a `CreateTimer` call it
  has begun; receivers destroy their messages. Applications owe nothing else. `DestroyCompletes` and
  `TimeoutServed` hold as long as no assertion has failed, since the process is dead then.
* `Workers`: calls return, user code included (the platform has no other means to go on either); the
  dispatch loop gets to each local function and notification. That is strong fairness, since between
  two callbacks the core may always find other work: EM's scheduler serves its queues in turn.
* `Dispatcher`: processes run, pending signals are delivered, dispatched events are handled. No
  fairness for SIGINT or crashes.
* `Memory`: a process that has decided to free does so.
* `TestHarness`: core 0 goes on dispatching and polling, callbacks return, armed timers expire, a
  shutdown that has begun goes on. Clients and the code of tests owe nothing.
* `Network`: the device transmits, a frame is lost or arrives, each core polls again and finishes
  its burst, as the dispatch loop does.

`CHECK_DEADLOCK FALSE` stands wherever the modelled system may really stop: after retirement,
shutdown, release of init memory, with all identities of messages, runs or restarts used up, or when
no user does anything any more. `id_ring` and `mring` check deadlock.

## 4. Runs that fail, and what they found

Each of these states what the repository says of itself and is refuted by what the code does.

* `workers_jump` - *`TerminateWorker` of oneself after deploying another worker jumps into a dead
  frame.* One landing pad per process, overwritten by the nested start function (`workers.c:389`).
* `dispatcher_teardown` - *workers may still be stopping when their table is freed.* `ActiveSync`
  waits for cores to arrive, not for terminations to finish; and a worker that is still being
  deployed is skipped by `TerminateAllWorkers`.

### Other things the models show

Where the configuration is named, `tlc -config <it> <module>` gives the counterexample; these are not
runs of the project, since a passing run already says exactly how far the code goes.

* *`ArmTimer` and `DestroyTimer` may find an idle timer that does not exist yet.* `ReserveTimerContext`
  marks the entry `Idle` (`timer_table.c:94`) before `CreateTimer` has stored the timeout object in it
  (`timing.c:37`), without the lock. A core that calls with an old copy of the identifier in between
  passes the test of the state, and "`AssertTrue(context->Tmo != EM_TMO_UNDEF)`" (`timing.c:107`), made
  when "We have a valid timer" (line 88), ends the process, or so does that of `em_tmo_delete` (line
  429). On a destroyed timer the same call is a non-fatal exception, and the interface does not forbid
  it. (`TimingStale.cfg`, `Timing`: create two timers, destroy the first, create it again, and arm it
  with the old identifier before that call has finished.)
* *A message buffered for a worker whose deployment fails is lost.* `ResetContext` overwrites the
  buffer without destroying its messages (`worker_table.c:255`); `messaging.h` says the platform is
  responsible for delivery or destruction. `OnlyRollBackLosesMessages` says that this is the only way
  (`WorkersLost.cfg`, `MCWorkers`).
* *The name of a dead worker may lead to another worker.* The context is released before the EO is
  deleted (`workers.c:456`), and the lookup goes from the EO to the context (`WorkersFind.cfg`,
  `MCWorkers`).
* *A crash during shutdown is taken for a regular exit,* and the others wait for ever
  (`event_dispatcher.c:145`; `DispatcherDeath.cfg`, `Dispatcher`).
* *The mring producer overwrites unread bytes when they wrap.* It fills the ring from the write index to
  the end and from the start to the read index, whatever the burst; if the write index is behind the
  read index, bytes offered to the reader change under it (`kernel/mring.c:59`); the library's `mring.h`
  says they can be read until `mring_read_end`. `SpoilsOnlyWrapped` says that this is the only case
  (`MringUnread.cfg`, `Mring`).
* *The interface may stay down.* The recovery of the MAC address is registered as three commands; if
  the process dies after the first and before the third, the cleanup takes the interface down and
  does not bring it up (`setup.c:33-35`). `CrashRecovered` names the two places.
* *A list of dependencies may be released twice.* When an application's library does not load, its
  dependencies are released but the slot keeps the pointer (`load_applications.c:122`); an application
  without dependencies that takes the slot inherits it. Lists in which no application without
  dependencies follows one with some are safe (`DiesOnlyOfStaleList`).
* `mring_close` unmaps one of the two copies of the ring (`user/mring.c:57`): the other keeps the
  module in use until the process ends. With the write index at 0 and the read index at 0 a burst is
  published of which nothing was written. The timers are first armed with a period where
  `mod_timer` takes a point in time (`kernel/mring.c:280`).
* A report by test code that went on after its test was stopped may carry the number of the next run,
  which it ends (`test_runner.cc:140`); `VerdictsBelong` makes this its one exception.
* The default configuration of the event pools leaves the number of subpools unset
  (`command_line.c:132`), which matters only if the process is started without the starter script.

## 5. What is proved

The theorems hold for every number of identifiers, timers, cores, processes, messages, buffers and
so on; from the named assumptions of the modules only (`IdAssumption` and its like: the null value
is no identifier, sets of processes and holders are finite, bounds are natural numbers). TLC
evaluates each of these assumptions in some run.

* **`IdFifoProofs`, `LocksProofs`.** `RingInv(f, H)`: the put index is the get index advanced
  by the number of free IDs; a slot holds an ID iff it lies between the two; no ID twice; each ID is
  in the ring or in `H`, not in both. The first conjunct is what makes the rest inductive: without
  it an allocation from a full or empty ring cannot be told apart. `AllocateRing` and `ReleaseRing`
  are proved once and reused for timers and workers. `RingIsQueue`: `FreeSeq` reads the ring from the
  get index; an allocation takes its head, a release appends.
  The second half of `LocksProofs` is about the locks. A *grant* says what a core has: its locks, the
  identifiers that are its own, and whether what it read of the ring is still true. `Accepts(g, s)`
  says that the rest `s` of a call can be carried out from grant `g`; it holds of every call at its
  start (`AcceptsCalls`) and each step hands it on. `LocksInv` gives every core such a grant, with
  disjoint identifiers. A grant admits only acquisitions of a higher rank (timer entry, worker entry,
  ring), so a core spins upwards, and the core of highest rank in a set cannot be waiting in it
  (`NoCircularWait`). A core that relies on what it read holds the ring, so an allocation or release
  is one step of `IdAllocator` (`ImplementsIdAllocator`), whose theorems then apply.
* **`TimingProofs`.** `IInv` is `TypeOK`, `EventAccounting`, `MessageOwnership`,
  `TableMatchesRing` and four more parts. None of the four is inductive alone: `EventAccounting`
  needs to know that the timeout object runs only while the timer is armed (`TmoInv`) and that a
  context outside `Armed` is clean (`ContextInv`); `TableMatchesRing` needs that concurrent creations
  work on different entries (`CreatingInv`) and that retirement begins when nobody creates any more
  (`RetireInv`). One lemma per action, one step per conjunct it can disturb, and that it meets no
  assertion; the two that do (`AbortStep`, `StepFails`) work on an entry under construction, the only idle
  one without timeout object, which is `OnlyUnfinishedTimersFail`. `IInv` follows from `Spec` and gives
  the first five theorems. Then `Spec => Service!Spec`, with `Statuses` (an
  armed timer whose timeout has elapsed is "Due") and `Held` (the message in the context) in place of
  the abstract variables. Each action of `Timing` is a step of `TimerService` or leaves the two
  unchanged; creation, late events and the release of destroyed timers are stutters.
* **`WorkersProofs`.** Three invariants, one on top of the other. `SInv` follows the stacks: `FrameOK`
  says in which state each frame finds the table entry and the EO it works on, `Shape` which frames
  may follow each other, `Apart` that no two frames on any stacks are responsible for the same worker
  or EO, `EntryOK` and `EoOK` which states of entry and EO go together, `NotifOK` what a notification
  to the completion daemon still finds, and the ring holds the IDs that are not in use. It yields
  `NoFatal` and `ContextOutlivesUsers`. `QuietInv`: before a worker is up nothing is in the queue of
  its EO, and afterwards nothing in its buffer. `MailInv`: buffers and queues share no message, and
  hold none twice or freed. The last two, `OnlyRollBackLosesMessages` and the refinement do not look
  at actions: a step changes messages and states of workers only as one of a dozen effects says
  (`Effect`, `NextEffect`), and each is proved of the effects. `ImplementsWorkerService`: a worker's
  status is that of its entry (and whether its termination has been requested), its mailbox the buffer
  while it is deployed and the queue of its EO after; flushing the buffer at the end of a deployment,
  which drops what EM refuses, is the step that needs `Kept` (below).
* **`BufferProofs`, Memory.** `ReferencesExact` is strong enough by itself: a buffer outside the pool
  has as many references as holders, and one without holders is in the hands of exactly one process.
  For init memory, `InitInv`: main's list of debts enumerates the shared blocks in use without
  repetition, and no living process may add to its list once main has left the phase before the
  fork.
* **`BufferProofs`, Network.** Whatever is counted is counted exactly: `MsgsOK` and `PktsOK`, with
  `Finite` for the sets whose cardinalities they use, are inductive; each action moves one buffer
  between the pool and one place, and `PollReceive` a whole burst from the device to a core
  (`PolledChange`). For the refinement this is not enough: if a message could be on the wire and in a
  burst at the same time, its delivery would leave it in `InTransit`. So the invariant says that there
  is a map `loc` from identities to places (`\E loc : Located(loc)`): everything found at a place has
  that place as its `loc`, and is found there once. A map says in one formula that no two of the six
  places share a message, where pairs of places would need a formula each; each action is proved by
  naming the new map. Frames that have strayed to a station they are not addressed to, and those of
  other traffic, take buffers but have no place. `NetworkImplementsTransfer`: `CreateMessage` does
  nothing to the abstract state; `SendInvalid`, `SendNoPacket` and `SendNotEnqueued` are `Discard`,
  `SendLocal` is `SendAtHome` or, if the local router refuses, `Discard`, and `SendOut` is `Send`;
  `Transmit`, `Arrive` and `PollReceive` only move the message, except that a frame for a node that
  does not exist is lost with its transmission; `PollRoute` is `Deliver` or, if the local router
  refuses, `Lose`; `LoseFrame` and `PollInvalid` are `Lose`, or no step if the frame was not meant for
  the node; `DestroyMessage` is `Consume` or `Discard`.
* **`DispatcherProofs`.** `SyncInv`: a counter never exceeds the number of processes that have
  arrived (a process that has died may or may not have counted). With it, a counter that is complete
  means that everybody has arrived or is dead, and `NobodyRunsAhead` is inductive;
  `OthersKeepDispatching` follows from the order of the places. `TeardownAlone` needs in addition
  `QuietInv`, that a process beyond the place where it gives up allocating does not allocate, and
  `MainExitsLast`; the rest is `NobodyRunsAhead` read at the barriers of the exit.
* **`ResourceProofs`, Mring.** `RingExact`: while a burst is under way, what the producer believes to be unread
  is what is unread plus what the reader has read since the producer looked; so the burst it computes
  from an old index still fits. The arithmetic of the mask comes first, as lemmas about `Masked` for
  every `Size`. `KernInv`: while the module loads it holds a prefix of the list of resources, and the
  failure of any step gives back that prefix; `UseInv` and `HandlesInv` tie each handle to the pages
  it needs.
* **`ResourceProofs`, Platform.** `HostInv` goes through the places of `main`: how many of the six
  recovery commands have been registered (`ScriptInv`: always a prefix of one order, the last command
  only with the harness), and what the host is like (`MacInv`, `SockInv`, `ShmInv`). `Executed` is
  written out for each of these prefixes (`ExecutedOrder`), and `Recovers` says of each for which
  states of the host it is enough. `DeadInv` carries the result over the death of the process: the
  script that is left would recover the host; `Cleanup` then runs it. The socket needs to know how far
  the loops over the applications have come to the harness, and so that no application is loaded twice.
  `LoadInv` is about those loops. `StaleInv` says where a freed list of dependencies can be: in an
  unused slot, if an earlier entry of the list has dependencies; in a slot that inherited it, if a later
  one has none; or in a slot that is already unloaded. `LibrariesExact` is inductive with it: the
  references to one library are a set of pairs of a slot and a position in its list; loading an
  application adds the pairs of its slot, unloading it takes them away, and a failed load opens and
  closes the same number (`OpenedClosed`).
* **`TestHarnessProofs`.** A run is *in progress* (`Doing`) from the moment its timeout ticks until its
  verdict, which includes `StartTest`. While it is: its client is connected, its verdict is open
  (`LedgerInv`), its timer is the only one in use and the only one that may be armed (`TimersInv`), and
  only its code is active (`CodeInv`), so that whatever other code reports is marked late. `LiveInv`
  counts messages. `PhaseInv` and `SocketInv` say which descriptors are open at which moment of the
  shutdown, from which follow the assertions and that nothing is written to a closed one. All four
  safety invariants follow. That a request the parser accepts has every parameter once is a bijection
  of the positions and the keys (`ParseIs`).

The type invariants of the rings, `Timing` and `Memory`, `RingConsistent` and `ImplementsIdQueue` are
proved and no longer model-checked on their own: `id_ring` checks that `Locks` implements
`IdAllocator`, of which they are proved. The inductive invariants of `Workers`, `TestHarness`, `Network`
and `Platform` were checked by TLC on the instances of their runs (for `Network`, the map is looked for
among the functions from identities to places).

Two recursive functions are proved about. `Executed` of `Platform` is written out for scripts of up to
six commands, which are all there are. `Kept` (module `Subsequence`) recurs over the length of any
sequence; that it is a subsequence, in order and without
repetition, is proved by a least counterexample (`SetInduction`, from the well-foundedness of the
natural numbers), since the induction rules of the library take operators as parameters.

Only model-checked are the liveness properties: they need fairness and ENABLED, which the proof system
does not handle. Where a refinement is proved, it is of the safety part, which is all the abstract
modules state. Every safety property that a passing run checks is a theorem.

## 6. Not modelled

Private data pointers of workers, core mask validation and the encoding of node and local part of an
ID; the creation of pools, queues and the device of pktio, where a failure ends the process (`Dies` in
`Platform` covers that); the count of events an input callback reports to EM; the values of command
line options and pool configurations; the handlers of single signals and the call stack, which only
log; logging; the tables of cores and queue groups, built once. The example applications and the
cases under `src/platform-test` are users; they were read for how the interface is used.

## 7. Hazards

`PROJECT.json` lists them at their lines with the properties that would catch them.

## 8. Plan

Done: identifier rings, timing, workers with local messaging, dispatchers, memory, internode
messaging, lock order, the mring driver, the test harness, the life of the process with application
loading and recovery; proofs of the safety properties of all of them.

To come:

1. Worker IDs: node and local part, their limits, and the routing decision taken from them.
2. `Workers` and `Dispatcher` composed, so that the guard of `RetireStep` and the shutdown of workers
   follow from the synchronization of the processes instead of being assumed on one side and proved on
   the other.
3. Command line: which options are required together, and which bad values are found before the host
   is touched.
