# Verification of the migration framework

`migfra` is a daemon that runs on every node of a cluster, takes YAML task
messages from an MQTT topic, starts, stops, migrates and evacuates virtual
machines through libvirt, and answers on a result topic. This directory holds
TLA+ models of the daemon, the TLC runs that check them on small instances and
TLAPS proofs of the results that matter most.

## The system

| part | state | operations | interacts with |
|---|---|---|---|
| `Task_handler` (task_handler.cpp, main.cpp) | `running`, the communicator, the hypervisor | constructor (configuration), `loop`, destructor | takes messages from the communicator, calls `execute` |
| task execution (task.cpp) | per container: the tasks, their futures and results; `Thread_counter::count` | `execute(Task_container)`, `execute(Task)`, `send_*`, `Thread_counter` | loop thread, one detached thread per container, one thread per launched task; calls the hypervisor |
| evacuation (libvirt_hypervisor.cpp 769-899) | the static deque `dest_caps` and its mutex | `get_evacuate_tasks`, `init_destinations_capacities`, `get_next_destination`, `evacuate` | first part in the loop thread, second in the thread of each task; calls `migrate` |
| migration (libvirt_hypervisor.cpp 714-767) | the guards on the stack | `migrate` | constructs the four guards, calls libvirt on both hosts |
| `Pscom_handler` | `messages_expected`, `answers`, the subscription | suspend in the constructor, resume in the destructor | requests to and answers from the pscom processes in the domain, over MQTT |
| `Migrate_ivshmem_guard` | `detached_devices` | detach, reattach | libvirt |
| `Migrate_devices_guard`, `PCI_device_handler` | `detached_types_counts`, the device cache | attach, detach, reattach | libvirt on both hosts |
| `Repin_guard` | the migrate flags | set the paused flag, repin, resume | libvirt at the destination |
| swap migration (libvirt_hypervisor.cpp 448-549) | two sets of guards, a snapshot | parallel or snapshot swap | as migration, two domains |
| start, stop, repin, suspend, resume (libvirt_hypervisor.cpp 590-712, 901-936) | state of the domain | one task each | libvirt on the local node, state checks on the others |
| main program (main.cpp) | the locked pid file, files 0 to 2 | lock, parse options, become a daemon, load, run | other launches on the machine |
| device cache (pci_device_handler.cpp) | `Device_cache::devices` and its mutex, `attached_hint` per device | `get_devices`, `attach`, `detach` | the threads of all tasks, libvirt, the daemons of other nodes |
| `Ponci_hypervisor`, `Dummy_hypervisor` | cgroups; none | the hypervisor interface | the ponci library |
| benchmark client (benchmark_main.cpp) | the round, the times | send a task, wait for a result | the daemons of two nodes |

What is hard here: the loop, the detached container threads and the task
threads interleave; a `std::async` future may be deferred; every send may
throw, in the loop thread or in a thread that nobody catches for; the deque of
destinations is shared by the threads of all evacuations and only partly
locked; a migration holds four guards whose constructors and destructors call
libvirt and may all fail, in the middle of unwinding too; the answers of the
pscom processes may be late or lost; a swap has eight guards and two threads,
or a halted domain whose only copy is a snapshot; nodes start and stop domains
without a lock between them, and guests obey late or never; copies of the device
cache and the hints they are sorted by are stale when they are used; the lock of
the pid file must survive a fork and be gone after a crash; results are told
apart by their order alone.

What makes the parts correct:

- request path: one answer per request with the results in the order of the
  tasks; a sequential container holds up what follows; the destructor waits for
  the threads that have counted themselves; a quit ends the process;
- evacuation: no host is overbooked when that is forbidden, no task is refused
  while there is room, and each mode distributes the domains as documented;
- migration: success means that the domain, its devices, its pinning and its
  processes are in place at the destination; a failure before the move leaves
  the domain as it was; processes are suspended while the domain moves and are
  resumed last; every task ends;
- swap: no domain comes up twice, success means two intact domains, a failure
  before a domain is halted or moved is undone, every swap ends;
- start and stop: a domain is active on one node at most, a start that succeeds
  leaves it running with its devices, a stop that succeeds leaves it off, every
  task ends;
- devices: an attach gives up only if every device was in use or refused, a
  detach leaves none behind;
- main and ponci: one instance per machine, a success that is true of the
  cgroup, tasks that end;
- benchmark: it falls behind its results only by the starts it repeated, its
  times are times of migrations, it ends.

## Modules

| module | models | runs |
|---|---|---|
| `TaskHandler` | `Task_handler::loop`, `~Task_handler`, both `execute` functions, `Thread_counter` | `MCTaskHandler` |
| `TaskService` | what these promise the scheduler: the abstract specification | `MCTaskHandler` |
| `Evacuate` | `get_evacuate_tasks` to `evacuate` | `MCEvacuate` |
| `Migrate` | `Libvirt_hypervisor::migrate` and its four guards | `MCMigrate` |
| `SwapMigration` | `Libvirt_hypervisor::swap_migration` | `MCSwapMigration` |
| `DomainLife` | start, stop, suspend, resume and repin of `Libvirt_hypervisor` on all nodes | `MCDomainLife` |
| `DeviceCache` | `Device_cache::get_devices`, `PCI_device_handler::attach` and `detach` in concurrent tasks | `MCDeviceCache` |
| `PonciNode` | `main`, `Task_handler`'s choice of a hypervisor, `Ponci_hypervisor`, `Dummy_hypervisor` | `MCPonciNode` |
| `Benchmark` | the benchmark client | itself |
| `TaskHandlerProofs`, `EvacuateProofs`, `MigrateProofs`, `SwapMigrationProofs`, `DomainLifeProofs`, `DeviceCacheProofs`, `PonciNodeProofs`, `BenchmarkProofs` | theorems about the modules they are named after; the refinement of `TaskService` is in the first | |

Names that begin with `Mut` are mutated forms of the definition that follows
them; no specification uses them. Each shows that a property fails when the
code has a plausible bug. The modules stand beside each other as the layers of
the code do: a task of `TaskHandler` is a call that returns or throws, and
`Evacuate`, `Migrate`, `SwapMigration` and `DomainLife` are the insides of such
calls; the migration that ends a task of `Evacuate` is a call whose inside is
`Migrate`, and `DeviceCache` is the inside of the device guards of `Migrate` and
of the attachments of `DomainLife`. `Benchmark` sees two daemons from outside.

### TaskHandler

A message is its shape: what the parser makes of it (`malformed`, `empty`,
`quit`, `tasks`, `evacuate`), whether the container runs concurrently and, per
task, whether it is launched or deferred. `loop` says where the main thread is
(waiting for a message, inside a sequential container, in the destructor, gone,
or aborted by `std::terminate`), `worker[m]` where the execution of container
`m` is. One action handles one message from `get_message` to the end of
`execute`, with every error path: `RejectMalformed`, `RejectEmpty`, `Quit`,
`ExecuteTasks`, `ExecuteEvacuate`. The container's `func` is `CountThread`,
`LaunchTask`, `RunDeferred`, `Collect`, `SendResult`, `UncountThread`; a task
that runs ends in `FinishTask`, with an error or without. `WaitForThreads`,
`SpuriousWakeup` and the notification in `UncountThread` are the wait on the
condition variable. With `SendFails` every call of `send_message` may throw:
out of a detached thread that is `std::terminate`, in the loop thread it reaches
the handlers of the loop. The broker delivers in order and loses nothing; what
it loses the daemon never sees.

### TaskService

A request is unsent, queued, running, or at its end: answered with its id,
answered without it (`anonymous`), or `lost`. The service turns to the oldest
queued request (`Turn`) unless a request that must run alone is running; after
a quit it turns to none. `TaskHandler` implements it with the mapping at the end
of that module: `Phase(m)` is read off the replies to message `m`, its
container's worker and `Taken`, the number of messages that have left the inbox;
`exclusive` are the published messages that are not executed concurrently,
`accepting` is `running`, and the service is up until the main thread has ended.
`ImplementsService` is checked by TLC and proved.

### Evacuate

`Request` is `get_evacuate_tasks` up to `dest_caps.clear()`; `EmplaceBack`,
`DropFull` and `Unreachable` are the steps of `init_destinations_capacities`,
which holds no lock; `Launch` starts one task per domain. A task is `Check` (the
test of the deque, before the mutex is taken), `Take` (the part under the mutex,
where `front()` of an empty deque is the state `undefined`) and `Migrate`
(succeeds, fails, or throws after the domain has moved, as a guard's destructor
may). What else runs on a host is constant (`load`). `Rearranged` is what each
mode does to the deque; `std::sort` is not stable, so `Sorted` is a set. With
`Overlap` the scheduler sends an evacuation before the last one has been
answered. The message lists no destination twice (`DistinctDestinations`).

### Migrate

`pc` runs through the constructors in their order (`suspend`, `ivshmem`,
`devices`, `connect`), the call of libvirt (`migrate`) and the destructors in
reverse (`~repin`, `~devices`, `~ivshmem`, `~pscom`, `resume`). `exc` is
`std::uncaught_exception()`: a call that throws sets it and jumps to the
destructor of the guard constructed last (`Throw`); a destructor that throws is
swallowed during unwinding and otherwise begins it (`DestructorThrows`). Which
external calls may fail in a behaviour is the variable `faults`, chosen at the
start from the constant `FaultSets`, one name per call: properties that hold
only if the failures are `Recoverable` say so. Requests
to the pscom processes wait in a queue per process; answers are only counted,
as in the code; `subscribed` and `queue` are the communicator's subscription,
which ends in `EndUnsubscribed`: `remove_subscription` may throw, in which case
the destructor calls it a second time and lets the task fail (fault
`unsubscribe`).
Assumed of the external parts: libvirt refuses to migrate a domain that has PCI
devices; `remove_subscription` drops the messages that wait; a second
`add_subscription` of a topic keeps them; a process in a paused domain does not
run. `before` is a history variable, the devices the domain had when the task
began. PCI devices of one type are counted; `HostPci` devices exist on each
host. All ways in which a task can fail before it subscribes (connection, domain
missing or not running, a malformed `pscom-hook-procs`, no MQTT communicator)
are the one fault `lookup`.

### SwapMigration

A guard is here one operation on its domain (the module above has its inside),
and `Guards` gives the order of the eight constructors; `Destroy` runs the
destructors in reverse, with the same rule for exceptions. `target` is the
domain object that the guards of a domain hold: a destructor works only where
that host has the domain active, which is how the model shows that guards are
told of the destination late. `Choose` is `check_snapshot_required` and
`sort_domains_by_size`. The parallel swap is two `ThreadMigrates` and `Join`,
which waits for the futures and does not ask them; the swap through a snapshot
is one action per call of libvirt. Sizes are in KiB and free memory in bytes,
as libvirt reports them, and are compared as the code compares them. A PCI
device that does not detach is only logged and counted as detached (fault
`detach_pci`): its domain is in `stuck`, and the destructor attaches another
device. Assumed of libvirt: a migration that fails leaves the domain running
where it was, and a domain with a PCI device is neither migrated nor saved
(`Refused`).

### DomainLife

All nodes run the code and each has its libvirt, which knows a domain or not
(`known`), as persistent or transient, in a `state`, perhaps `halting` after a
shutdown request, with or without its devices. A task is known by its place in
`Tasks` and has a thread per domain: one, or for a stop by regular expression
one per active domain that matches. Every call of libvirt is an action of
`ThreadStep`, may fail, and ends the thread if it does; nothing is undone.
`calm` is chosen at the start: whether the scheduler sends one task at a time
for a domain. In any case it does not start a domain twice at the same time.
What a node answers about a domain it does not know is compared with a text
(libvirt_hypervisor.cpp:262), so that `check_remote_state` may go on or fail.
It asks the nodes that the configuration lists: `nodes` is an optional entry,
empty by default (task_handler.cpp:121), so it may leave out nodes of `Nodes` or
all of them, and `OneInstance` is about those it lists (`Listed`). All daemons
are assumed to have the same configuration. Migrations are in modules of their
own: `DomainLife` has no domain that moves while it is started or stopped.
The domain is named in the message and the driver is qemu.

### DeviceCache

One PCI-id on one host, a set of devices, and threads that each work for one
domain. `GetDevices` is the part of `get_devices` under the mutex up to the copy
of the entry, `Sort` the part after it: the hints are atomic one by one, so that
the comparison may change its mind during `std::sort`, which then leaves any
order or runs out of the vector (`undefined`). `Try` is the call of libvirt,
`Attached` and `Refused` set the hint afterwards. `BeginDetach`, `DetachDevice`
and `Unhint` are `detach`. Assumed of libvirt: a device belongs to one domain at
most, and attaching a device in use fails. The daemon of another node attaches
and frees devices of this host without this cache (`OtherDaemon`). `missed` is a
history variable: the cached devices that were free, and not refused, all
through the present call.

### PonciNode

One machine on which the program is launched again and again: by hand, by a
scheduler's script, after a crash. `Launch` opens and locks the pid file,
`ParseOptions` and `Daemonize` have what the log file and the daemon do to the
files 0, 1 and 2. If a standard stream was closed at the launch (`stream
closed`), one of these is the pid file, and replacing or closing it gives up the
lock (`LosesLock`). `opts` keeps of the command line what later steps look at.
The hypervisor is the one the configuration file of the machine names, the
same at every launch. A task is the sequence of calls its method makes of the
ponci library (`Calls`); `Return` and `Throw` end a call, and nothing undoes the
calls before. Assumed of the library: a call throws if the cgroup does not
exist, creating an existing cgroup succeeds, freezing takes time (`Frozen`) and
the two waits read the state until it is the wanted one. `alone` is a history
variable: no other task about the cgroup has run at the same time.

### Benchmark

`stage` is the place in `main`, `waiting` is inside `get_message`. The daemons
execute requests in any order and publish one result each; a domain that is not
where a request needs it makes it fail. `title` is what the daemon calls the
result of a migration: the client looks for "migrate done", mqtt-spec.md:332 says
"vm migrated"; both are tried. The client is started right after the daemons
(run.sh), so that a daemon may subscribe late and miss a message: a start is
sent again after five seconds, anything else is not, which `lost` records. A
send that throws ends the client (`SendFails`). The
last of `MaxRetries` timeouts is kept for when server A is up, so that the bound
never ends the retries of a daemon that is late.

## Runs

| run | result | shows |
|---|---|---|
| `task_safety` | pass, 1.5 million states | the counter is exact (`CountAgrees`); at most one answer (`AtMostOneReply`), which carries the results in order (`ReplyFaithful`); sequential containers and quit are barriers (`FifoBarrier`); the destructor waits (`DrainWaits`); the request path implements `TaskService` (`ImplementsService`) |
| `task_liveness` | pass, 0.2 million | every request is answered, a quit ends the process |
| `task_destructor` | violation | the destructor misses a detached thread that has not constructed its `Thread_counter` (task_handler.hpp:42) |
| `evacuate_modes` | pass, 4.9 million | two evacuations: the distribution of each mode (`ScatterEven`, `CompactFill`, `AutoLevels`), refusals only when full (`RefusedOnlyWhenFull`), no overbooking while every evacuation so far forbade it in mode compact or scatter (`NoOverbooking`) |
| `evacuate_empty` | violation | `front()` of an empty deque (libvirt_hypervisor.cpp:852-857) |
| `migrate_faults` | pass, 206 thousand | two attempts, any call may fail or only recoverable ones: success is complete (`SuccessMeansComplete`), a recoverable failure restores the domain (`RestoredOnError`), processes whose answers are in time are suspended during the move (`SuspendedInTime`), resumed last (`ResumedLast`) and always (`ProcsResume`), every task ends (`TaskEnds`) |
| `swap_faults` | pass, 237 thousand | `OneHome`; success means intact and, through a snapshot, swapped (`SuccessMeansIntact`); early failures are undone (`RestoredOnEarlyError`); every swap ends (`SwapEnds`) |
| `swap_lost_error` | violation | a parallel swap in which a migration failed reports success (libvirt_hypervisor.cpp:544, mqtt-spec.md:170) |
| `domain_life` | pass, 187 thousand | a domain is active on one of the listed nodes at most (`OneInstance`); success of a start and of a stop by name is true (`SuccessMeansDone`); every task ends (`TasksEnd`) |
| `device_cache` | pass, 2.8 million | attach gives up only if every cached device was in use or refused (`FailsOnlyWhenTaken`), however stale hints and copy are; a detach without failing calls leaves no device (`DetachedMeansBare`) |
| `ponci_node` | pass, 957 thousand | one instance at a time (`SingleInstance`); a success is true of the cgroup (`SuccessIsTrue`); a task alone with its cgroup ends (`LoneTaskEnds`) |
| `benchmark` | pass, 34 thousand | the client falls behind only by the starts it repeated (`NeverFurtherBehind`); success means 2n migrations (`TimesAreMeasured`); it ends unless a later message was lost (`ClientEnds`) |

The passing runs of the other modules also check `TypeOK`; that of `TaskHandler`
and of `Evacuate` is proved. No run checks for deadlock: the daemon stops after a
quit, and the scheduler sends a bounded number of messages; that nothing waits
for ever is what the liveness properties say.

### Bounds

`MaxMsgs = 3` lets a sequential container or a quit stand between two others and
lets two detached threads and the destructor meet; `MaxTasks = 2` and containers
of two tasks are enough for an order of results. Three domains and three hosts
with one, two and three CPUs and up to two other domains each give every mode
hosts that are full from the start, become full, and stay free. Two rounds are
enough for one evacuation to see what the last one left. Domains are symmetric.
In `Migrate` two processes tell "all answered" from "one answered"; two PCI
devices make the reattach loop iterate, with one spare on the host; zero, one and
two ivshmem devices are the three cases of `detach`; two attempts let a late
answer meet the next request. In `SwapMigration` two sizes make either domain the
smaller one, and the three amounts of free memory are none (which the code takes
for an error), one byte (too little for two KiB even in the code's comparison)
and enough. In `DomainLife` three tasks, two at a time, are enough to start a
domain, suspend it or stop it in vain, and start it elsewhere meanwhile or after;
the second domain only takes part in the stop by regular expression, and the
third node, which the configuration does not list, starts and stops the domain
too. In `DeviceCache` three threads and two devices leave one thread without a
device; three operations let a detach change hints while two attaches sort and
try. In `PonciNode` two launches are enough for a second instance or a restart,
two tasks for a task that finds what a crashed or failed one left behind, and one
cgroup is enough, since tasks about different ones share nothing. In `Benchmark`
three rounds and three repeated starts let every result of the first round be
read early.

### Fairness

`TaskHandler` assumes weak fairness of the loop thread, of each container's
thread and of each running task (hypervisor calls return: their waits have
timeouts). Publishing and spurious wakeups are not fair. `Migrate` assumes weak
fairness of the task's thread, whose waits for answers end after ten seconds
(the fault `timeout` where an answer may be missing), and of each process in a
running domain. `SwapMigration` and `DomainLife` assume weak fairness of each
thread: calls of libvirt return, and the waits for a state and for SSH have
timeouts (stop_timeout, start_timeout). Guests are not fair: one may ignore a
shutdown request for ever. `PonciNode` assumes weak fairness of each task's
thread and of the kernel's freezing; launches, crashes and messages are not
fair. `Benchmark` assumes it of the client's steps, its five-second timer
included, of the daemons' execution of requests (tasks end) and of their coming
up.
`Evacuate` and `DeviceCache` have no liveness property: their tasks take no step
that waits, apart from a mutex that is held for a bounded time.

## Proofs

Every invariant and every safety action property that a passing run checks is a
theorem for every value of the constants that satisfies the named assumptions.
TLC checked each inductive invariant as an invariant of the run of its module
before it was proved.

For every number of messages, tasks and shapes (`TaskHandlerProofs`):

- `TypeCorrect`: `Spec => []TypeOK`;
- `CountCorrect`: `Spec => []CountAgrees`. The cardinality of `Counted` changes
  with the counter only if a thread is counted once and only a container that is
  concurrent is ever in `spawned` or `uncount`. So the inductive invariant
  `CountInv` adds to types and `CountAgrees` that messages in the inbox are
  published and in order (`InboxInOrder`), that no container runs before its
  message has left the inbox (`NoWorkerAhead`: a message is dispatched once) and
  `OnlyDetachedCount`;
- `DrainCorrect`: `Spec => DrainWaits`, from `CountCorrect`;
- `ReplyCorrect`: `Spec => []ReplyFaithful`. `ResultInv` says that the futures
  stand in the order of the tasks and that `Collect` has a prefix of them
  (`InTaskOrder`), and that nothing changes the future of a task once the reply
  is built (`FaithfulReply`);

and, for the same parameters and whichever sends fail:

- `AnsweredOnce`: `Spec => []AtMostOneReply`;
- `NothingOvertakes`: `Spec => []FifoBarrier`;
- `Refinement`: `Spec => ImplementsService`. All three follow from `ServiceInv`,
  which adds to `CountInv` that no message has a reply before it is taken
  (`NoReplyAhead`), that a container that runs has none (`UnansweredRuns`), that
  only the last message taken can run in the loop (`InlineLast`) and only a quit
  stops it (`QuitLast`). Every step of the daemon is then shown to be one step of
  the service or to leave the mapped variables alone (`HandleMessageRefines`,
  `WorkerRefines`, `PublishRefines`, `LoopRefines`).

For every finite set of domains, every list of destinations, all capacities,
loads and numbers of evacuations (`EvacuateProofs`):

- `TypeCorrect`: `Spec => []TypeOK`;
- `StrictNeverOverbooks`: `Spec => []NoOverbooking`: no host is overbooked as
  long as every evacuation so far forbade it in mode compact or scatter and did
  not overlap another (`StrictSoFar`). `NoOverbooking` speaks of
  domains that have arrived; the invariant must count those that are on their
  way: `CommittedFits` says that active and committed domains together fit, and
  `CapsSafe` that an entry of the deque never promises more than is left after
  them. That a decrement of one entry is enough needs `HostsDistinct`; that
  capacities read while the deque is filled are still true when it is used needs
  `FillSequential`; that the entry taken has room needs `CapsPositive`.

For the same parameters, if evacuations do not overlap (`~Overlap`; the run that
checks these properties sets it, too; with `Overlap = TRUE` TLC finds each of them
violated, because the second evacuation refills the deque):

- `RefusalIsJustified`: `~Overlap /\ Spec => []RefusedOnlyWhenFull`,
- `ScatterIsEven`: `~Overlap /\ Spec => []ScatterEven`,
- `CompactFillsUp`: `~Overlap /\ Spec => []CompactFill`,
- `AutoIsLevel`: `~Overlap /\ Spec => []AutoLevels`. All four follow from
  `ShareInv`. The properties speak of how many domains each host was given, the
  code decides by the order and the capacities of the deque; `Shared` ties the
  two: an entry counts down from the room of its host and is missing only when
  that is used up (`Counted`), and per mode the deque is ordered so that its front
  is the right next pick (`Scattered`, `Compacted`, `Levelled`). One
  lemma per mode shows that a pick keeps it, whether it leaves the front, rotates
  it to the back, drops it or sorts the deque. `TasksOfRound` says that no task of
  an earlier round is left to change the counts.

For every set of processes, all numbers of devices, attempts and failing calls
(`MigrateProofs`):

- `TypeCorrect`: `Spec => []TypeOK`;
- `DevicesBeforeResume`: `Spec => []ResumedLast`,
- `GuardsRestore`: `Spec => []RestoredOnError`, both from `GuardInv`: which guard
  holds which devices at every point of the code (`IvHeld`, `PciHeld`,
  `NothingHeld`), that only `Repin_guard` leaves a domain paused
  (`PausedForRepin`), and how a task ends (`Ended`);
- `NoMoveUnlessSuspended`: `Told /\ Spec => []SuspendedInTime`,
- `SuccessIsComplete`: `Told /\ Spec => []SuccessMeansComplete`. `Told` says that
  a task that states a number of processes states no fewer than there are: the
  handler counts answers, and with a smaller number the first answers are enough
  for it (with two processes and `HookProcs = {1}` TLC finds both violated). The
  invariant `ProcInv` adds that the handler never counts more answers than
  processes have obeyed (`Asking`), so that a full count means all of them;
  counting sets is where the proof needs `Procs` to be finite.

For every choice of failing calls, guards and sizes (`SwapMigrationProofs`):

- `TypeCorrect`: `Spec => []TypeOK`,
- `NeverTwice`: `Spec => []OneHome`,
- `SuccessIsIntact`: `Spec => []SuccessMeansIntact`,
- `EarlyErrorUndone`: `Spec => []RestoredOnEarlyError`, all from `SwapInv`: for
  each point of the code where each domain and its snapshot are (`BeforeChoice`,
  `InParallel`, `ThroughSnapshot`, `Unwinding`), and that exactly the guards
  constructed so far have taken something (`GuardsInStep`).

For every set of nodes, every part of it that the configuration lists, all
domains, tasks and requests (`DomainLifeProofs`):

- `TypeCorrect`: `Spec => []TypeOK`,
- `NeverTwice`: `Spec => []OneInstance`,
- `SuccessIsDone`: `Spec => SuccessMeansDone`, all from `LifeInv`. `OneInstance`
  needs that what `check_remote_state` has seen of the nodes checked so far stays
  true until the domain is started (`Seen`), which rests on the scheduler
  (`Exclusive`) and on a shutdown never being pending for a domain that is off
  (`OffIsOff`). `Starting` and `Stopping` say what each step of a task adds.

For every set of threads and devices (`DeviceCacheProofs`):

- `AttachNeverMissesADevice`: `Spec => []FailsOnlyWhenTaken`;
- `DetachLeavesNothing`: `Spec => []DetachedMeansBare`. The invariant `Inv` says
  of each thread that a device it would miss is still in the part of its copy it
  has not tried, and that what its domain has is still to be detached; the
  latter needs `CacheInv`: without failures an entry of the cache is empty or
  complete;
- `TypeCorrect`: `Spec => []TypeOK`. That the count of devices to attach does not
  fall below zero needs that the loop is entered only while it is positive
  (`CountInv`); this is where `Devices` has to be finite.

For every number of launches and tasks and all command lines
(`PonciNodeProofs`):

- `OnlyOneInstance`: `Spec => []SingleInstance`, from `LockInv`: an instance that
  is past the check holds the lock, unless the pid file was one of its standard
  streams and its log file or the daemon has replaced that;
- `TypeCorrect`: `Spec => []TypeOK`,
- `SuccessTrue`: `Spec => []SuccessIsTrue`, from `TaskInv`: the latest task about a
  cgroup has done all calls before its current one (`Kept`), and a task that is
  alone has no other running beside it (`LoneTask`), so that a crash or an
  earlier failure cannot undo them.

For every number of rounds and of timeouts (`BenchmarkProofs`):

- `TypeCorrect`: `Spec => []TypeOK`: that no more than 2n migrations happen needs
  that every request to migrate is executed at most once (`TypeInv`);
- `NeverLosesStep`: `Spec => []NeverFurtherBehind`. `Behind` states it by the
  number of requests of each stage;
- `TimesMeasured`: `Spec => []TimesAreMeasured`, from `TripInv`. The client may
  read results too early, so no invariant can tie its stage to where the domain
  is. `TripsCounted` counts round trips instead: every migration is half of one,
  the client counts them by the results of server B, which it never reads too
  early, and no trip begins that it did not ask for. `InStep` says that without a
  timeout there is one request at a time.

Assumptions: `Parameters` of each module and `DistinctDestinations`, which TLC
evaluates in every run; and `~Overlap` and `Told` where they are written in the
theorem. `Parameters` of `DomainLife` says of the requests what the fields of the
tasks say in the code: only a stop can have a regular expression, and any other
task names one domain.

Only model-checked: liveness (`QuitTerminates`, `EveryRequestAnswered`,
`TaskEnds`, `ProcsResume`, `SwapEnds`, `TasksEnd`, `LoneTaskEnds`, `ClientEnds`),
because fairness and ENABLED are out of reach of the proof system's backends. The
three properties that runs show to be violated have no theorem.

## Observations without a run

- An evacuate message whose `get_evacuate_tasks` throws is answered by the loop
  without its id (task_handler.cpp:75), against mqtt-spec.md:196.
- The first domain in mode auto goes to the first destination of the message:
  the deque is sorted after the front was taken (libvirt_hypervisor.cpp:857,
  875). `AutoLevels` states what does hold.
- When `repin_vcpus` fails the domain stays paused at the destination
  (repin_handler.cpp:60), and the resume request to its processes times out.
- `PCI_device_handler::detach` counts a device that did not detach; the
  destructor then attaches a spare one (pci_device_handler.cpp:314-325).
- Two evacuations that overlap share `dest_caps`: the second clears and refills
  it, without the mutex, from capacities that do not know the migrations under
  way (libvirt_hypervisor.cpp:788). With `Overlap = TRUE` `NoOverbooking` fails.
- When one pscom process misses its timeout, `suspend()` throws out of the
  constructor (pscom_handler.cpp:105), no destructor runs, and the processes that
  did suspend are not asked to resume, against pscom_handler.hpp:16. This is why
  `ProcsResume` is about recoverable failures.
- `check_snapshot_required` compares free memory in bytes with sizes in KiB
  (libvirt_hypervisor.cpp:445): it prefers the parallel swap where the memory is
  short by a factor of up to 1024.
- When a step after the snapshot fails, the smaller domain stays halted; when
  only the deletion of the restored snapshot fails, its guards still hold the old
  domain object and its devices are not attached again
  (libvirt_hypervisor.cpp:510-514).
- Two starts of a domain on two nodes at the same time both pass
  `check_remote_state`: `OneInstance` fails without the condition in `Send`.
- A stop by regular expression reports success although domains run on: the
  futures are not asked (libvirt_hypervisor.cpp:701-708), as in a swap. A domain
  that is suspended is never stopped this way.
- A transient start that sets memory or vcpus fails, because a transient domain
  has no persistent configuration, and leaves the domain behind, paused
  (libvirt_hypervisor.cpp:607, 621). `undefine` with the stop of a transient
  domain reports an error after the domain was stopped.
- `retry_counter` of an evacuation is copied and never read.
- Mode auto ignores `overbooking: false` (mqtt-spec.md:209): a full host stays in
  the deque (libvirt_hypervisor.cpp:874), and `NoOverbooking` fails if
  `StrictSoFar` admits that mode.
- A late answer to the requests of an earlier attempt is counted as a suspension
  (pscom_handler.cpp:152), so that processes run while their domain moves,
  against pscom_handler.hpp:13: `SuspendedWhileMigrating` fails without the
  condition of `SuspendedInTime`.
- `get_devices` sorts by hints that other tasks change meanwhile: `std::sort` with
  a comparison that is not an order is undefined (pci_device_handler.cpp, state
  `undefined` of `DeviceCache`). An entry of the cache that was filled
  incompletely, because a description could not be read, is never searched for
  again.
- A resume that overlaps a suspend leaves the latter waiting for ever
  (ponci_hypervisor.cpp:105): `LoneTaskEnds` fails without `alone`, and a quit
  then never ends.
- If a standard stream is closed at the launch, the pid file is opened as file 0,
  1 or 2, and the log file (main.cpp:76-78) or the start as a daemon
  (main.cpp:98-100) closes it: the lock is gone and a second instance starts.
- A parallel swap reports success although a PCI device did not detach: libvirt
  refuses to migrate that domain, the exception is lost with its future, and the
  destructor attaches a device more than the domain had.
- A domain may run on a node that the configuration does not list, and be started
  on a second one: `check_remote_state` does not ask there.
- The program returns success after an exception in the configuration.
- The benchmark looks at the result of a migration only if its title is "migrate
  done" (benchmark_main.cpp:142); mqtt-spec.md:332 says "vm migrated", and under
  that title failed migrations are timed like others.
- After a repeated start the benchmark reads every result of server A one
  request too early: the times are shifted, the domain may not be off when it
  ends, though `TimesAreMeasured` holds.
- Only the start is repeated: if server B subscribes after the first migration
  back was sent, the benchmark waits for ever.

## Not modelled

The parsing of the configuration and of messages, XML, YAML, logging and time
measurement are data or formatting. The automatic detection of the number of
pscom processes (pscom_handler.cpp:23-69) is a loop over what libssh returns; its
result is the parameter `HookProcs`. Build files, examples and slides have no
state. The corruption of the deque by unlocked concurrent access is not modelled
below the level of its operations, and neither is what else starts on a
destination after its capacity was read (libvirt_hypervisor.cpp:773): no code
looks at it again. An exception of `get_message` in the loop
(task_handler.cpp:61) publishes an error that answers no request and changes no
state of the model. That the system has no thread left for `std::thread` or
`std::async` is left out, as are memory leaks that the source notes in comments.

## Plan

All components with state are modelled, and all safety properties of the runs are
proved. What is left to do, in this order: what holds when evacuations overlap
(the model has `Overlap`, no property but `NoOverbooking` covers it); what holds
of `SuspendedWhileMigrating` when a task states fewer processes than there are,
beyond that the first answers suffice.

New questions are asked in the run of the module they are about where one
instance serves: properties that need a condition on the environment carry it
(as `faults`, `calm`, `alone` and `StrictSoFar` do), so that a run can hold
several of them.
