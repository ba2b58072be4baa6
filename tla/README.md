# Open CAS Linux in TLA+

Specifications of Open CAS Linux, from its reference counter to its start-up
scripts, checked with TLC and,
in part, proved with TLAPS. Every definition is translated from the source under
`src/`; `PROJECT.json` maps definitions to lines. All paths below are relative
to `src/`.

Contents: [the system](#1-the-system), [modules](#2-modules-and-the-code),
[runs](#3-runs), [fairness](#4-fairness), [proofs](#5-proofs),
[where code and statements differ](#6-where-the-code-and-its-own-statements-differ),
[assumptions on OCF](#7-assumptions-on-ocf), [left out](#8-what-is-not-modelled).

## 1. The system

Open CAS puts a cache device in front of slower core devices. It consists of two
kernel modules, a command line tool and scripts:

```
 users' I/O            casadm / opencas.py                     sysfs (cas_bd)
     |                        | ioctl, netlink                       |
     v                        v                                      v
 exported object --> top volume     management layer          exported object
 /dev/casX-Y (cas_bd)  (cas_cache)   (cas_cache)                box (cas_bd)
     |  pass-through      |               | lock, start, attach, flush, stop
     |                    v               v
     |               OCF (external) <- queue thread, cleaner thread
     v                    v
 core disk <-- bottom volume (cas_cache) --> cache disk      (cas_disk, cas_bd)
```

- `cas_bd` registers the block devices users see (exported objects), opens the
  disks below, and keeps exported objects that outlive their cache in a box.
- `cas_cache` runs OCF: it supplies its environment (reference counters, locks,
  threads, volumes) and turns ioctls into calls of OCF.
- OCF, the cache engine, is a submodule that is not part of this repository.
  What the modules need of it is stated as assumptions, see section 7.
- `casadm`, `libopencas` and `opencas.py` are clients of the ioctl and netlink
  interfaces.

### Inventory

For each part: what is hard about it, the module that models it and the
properties stated, those that are also proved in bold. Status is **M** modelled,
**P** partly, **-** not.
`PROJECT.json` has the same list with notes, and the hazards line by line.

| part | sources | hard behaviour | module | properties | |
|---|---|---|---|---|---|
| freezable reference counter | `modules/cas_cache/ocf_env_refcnt.c` | per-CPU work items against gets and puts on the same CPU; three ways to reach zero | `EnvRefcnt`, `AbstractRefcnt` | **RefsAccounted**, **ZeroedMeansNoRefs**, **CallbackAtZero**, CallbackFires, **ImplementsGate** | M |
| queue and cleaner threads | `threads.c` | lost wake-ups, a stop while work is pending, freeing while a kick is under way | `CasThreads` | **ThreadsSafe**, ThreadsServe | M |
| asynchronous management calls | `layer_cache_management.c` (contexts, lock, flush, save, attach, detach, stop) | a signal ends the wait while the completion runs; who cleans up | `MngtAsync` | **NoFault**, **NothingLeaks**, **SuccessIsReal**, AllEnd | M |
| start, rollback and stop of a cache | `layer_cache_management.c` (lazy thread, init, exit, rollback) | failure or signal at every step of a start; two stops | `CacheLifecycle` | **LifecycleSafe**, EndsClean | P |
| exported objects and the box | `cas_bd/exp_obj.c`, `exp_obj_box.c` | users open while a command dismantles; one of several cores fails | `ExpObj` | **ObjectsConsistent**, **CommandsRestore**, CommandsFinish | M |
| requests under disconnect and connect | `exp_obj.c`, `vol_block_dev_top.c`, `layer_cache_management.c` | the data path switches while requests are in flight | `Disconnect` | **ReadsCurrent**, **EmptyOnStop**, **FlushedOnCore**, **LastWriteKept**, AllServed | M |
| requests in the top and bottom volumes | `vol_block_dev_top.c`, `vol_block_dev_bottom.c` | parts and bios fail and complete in any order | `BlockIo` | **EndsExact** | M |
| data buffers | `vol_blk_utils.c`, `context.c`, `utils/utils_data.c` | offsets over fragments, iterators | `IoBuffers`, `AbstractData` | ImplementsStream | P |
| splitting, ids, sort | `vol_block_dev_*.c`, `layer_cache_management.c`, `ocf_env.c` | alignments, a bitmap's last word, a heap's last node | `Algorithms` | AnswersRight | M |
| pools and allocators | `utils/utils_rpool.c`, `utils_mpool.c`, `ocf_env.c` | another CPU gives back; a list at its limit; destruction | `Pools` | PoolsExact | P |
| disks | `cas_bd/disk.c` | the mutex is dropped between look-up and open, and before the close | `CasDisk` | **DisksExact** | M |
| netlink dump | `service_ui_netlink.c` | a dump over several buffers while caches change | `NetlinkDump` | DumpExact | M |
| module loading | `main.c`, `control.c`, `cas_bd/main.c` | a step is refused half-way, users arrive before init returns | `ModuleLoad` | LoadExact | M |
| IO classifier, IO classes | `classifier.c`, `layer_cache_management.c` (partitions) | rules exchanged under running requests; directory resolution | `ClassifierRules`, `Classifier` | RulesExact, ClassifiesRight | M |
| core ids, core pool | `layer_cache_management.c` (add, remove, pool) | a bitmap kept by hand beside OCF's list, through every failure | `CoreIds` | **IdsExact** | M |
| settings | `layer_cache_management.c`, `service_ui_ioctl.c` | changed in memory, then saved; power may fail between, a save may outlive its caller | `Settings` | **SettingsKept** | M |
| listing | `casadm/cas_lib.c`, `layer_cache_management.c` | many ioctls while caches come and go | `CacheListing` | ListExact | M |
| casadm commands | `casadm/cas_lib.c`, `cas_lib_utils.c`, `layer_cache_management.c` (interrupts) | retries, a progress thread and a signal handler around one ioctl; an interrupt that meets the last flush | `CasadmCmd` | ReportTrue, CommandReturns | P |
| configuration, `casctl init` | `utils/opencas.py`, `casctl` | conflicting lines; cores on exported objects of other cores | `CasConfig` | InitExact | P |
| start-up and shutdown | `opencas.py`, `casctl`, `open-cas-loader.py` | device events in any order, against settle and stop | `Startup` | SettleStopTrue, AllComeUp | P |
| libopencas, exporter | `libopencas/`, `extra/prometheus/` | an error at any record or allocation of a dump | `LibDump` | ScrapeExact | P |
| safeclib | `casadm/safeclib/` | overlap, alignment, the last byte | `SafeMem` | SafeExact | P |
| headers, tables, CSV parser, packaging, tests | see `PROJECT.json` | no state of their own | | | - |

## 2. Modules and the code

Names of the source are kept where TLA+ allows it; a handler that releases the
processor, a lock or its caller in the middle is split at that point into
several actions, each of them the whole stretch up to the next such point.
Several modules keep a variable `faults` (or `...Fault`): a step that the code
would take with a freed structure, an unheld lock or a missing reference is not
disabled in the model but recorded there, so that a property can say it never
happens. Variables called history (`lost`, `drift`, `orphaned`, `stale`, `behind`, `risk`,
`hindered`, ...) record
what a property needs to name and no action reads.

### The kernel's mechanisms (`MCProgress`, `MCMngtAsync`)

**EnvRefcnt.** `counter` and `freeze` are the per-CPU fields, `fcount`,
`countdown` and `initializing` the fields of `rc->freeze`, `armed` the state of
the callback. Threads are anonymous: `live` counts references held, `decs` puts
that have seen a raised flag and not yet taken the lock, `firing` threads that
have decided to call the callback, kept apart by whether the decision was made
in the present freeze period. A freeze is its entry, two steps of the work item
on each CPU (raise the flag, add the count) and the finish that publishes the
sum; a get or a put on a CPU is one step because it runs with preemption
disabled and touches its own CPU only. The counter is shown to implement
`AbstractRefcnt`, one count and a gate, under the mapping
`refs <- live + decs`, `shut <- fcount > 0 /\ ~initializing`.

**MngtAsync.** A command is a sequence of phases (`Program`), each of which takes
the cache lock and runs an operation. `pc` is where the caller stands, `op` where
the operation stands that holds the context; `Wait` returns because the context
was completed or because a signal came, and `caller_set_result` and
`callee_set_result` decide under the spin lock which side cleans up. What each
side then does (`lock_complete`, `flush_complete`, `attach_complete`,
`detach_cache_complete`, `exit_instance_finish`, ...) is taken from the
completion of that operation.

**CacheLifecycle.** `StartPrepare` to `StartEnd` are the stages of
`cache_mngt_init_instance` with its error paths, `StopGet` to `StopResult` those
of `cache_mngt_exit_instance`. `lazy` and `flag` follow the lazy thread statement
by statement from its creation through `wait_event` to its end. `held` are the
resources of the instance, `modrefs` the module references it owns. The flush
and the lock wait of a stop are one step, since MngtAsync has them in detail.

**CasThreads.** `mgr` is the caller's side of create, start and stop; `thr` the
thread's. The sleep is `check`, `queued`, `asleep`: a thread evaluates its
condition, puts itself on the wait queue and evaluates it again, as `wait_event`
does, so a lost wake-up would be visible. The cleaner pushes a request to the
queue thread and waits for it, which is why both are in one module.

### Exported objects (`MCExported`, `MCDisconnect`)

**ExpObj.** `obj[c]` is `struct cas_exp_obj` of core `c` reduced to state,
openers, claim, owner, routing and freeze depth. A command visits the cores one
by one (`todo`); at each core a step may fail, after which the code's roll-back
visits the cores it has done. `disk` and `modrefs` count references. `tail`
follows the object pointers that a pass-through disconnect keeps after it has
given the objects away.

**Disconnect.** One block of one core. `coreCur` and `cacheCur` say whether the
copy on the core and in the cache is that of the last write; the data itself
does not matter. `pc[b]` is the position of a request: waiting for the queue,
entered, routed, deferred to the work queue, inside OCF, filling the line, or at
the disk. The command steps through flush, lock, switch, freeze, drain, purge,
deposit, stop and unfreeze, and the connect through load, claim, hold, reroute
and resume. `missed` says that a write has passed by what the cache holds, or
what it may still be filled with, and that no purge has followed; `behind` that
the cache was taken into use again in spite of such a write, or of one still on
its way to the core. Two allowances keep the properties honest: a read that overlaps a
write may return either value, and of two overlapping writes either may be the
last one.

### The data path (`MCDataPath`)

**BlockIo.** One request from `blkdev_submit_bio` to its end: deferral, flush
before data, the loop that submits parts, the master (`master`) whose count the
parts and the loop share, and for each I/O the token of the bottom volume with
one reference per bio and one for the loop that sends them.
`blkdev_complete_data_master` is three steps, because it reads and writes
`master->error` without a lock; `lost` records that an error was overwritten so.
A bio ends with one of three statuses. The bottom volume drops "not supported"
for every request without the read flag, not only for discards, and `lost`
records that too.

**IoBuffers, AbstractData.** A buffer is a vector of fragments (offset, length)
of pages with an iterator. `Walk` and its relatives are the loops of
`vol_blk_utils.c` step by step; `ZeroWalk` is the one of `cas_io_iter_zero`, which
takes whole fragments however few bytes are asked for; `AddPages` and `ForwardBios` those of
`block_dev_forward_io`. The abstract buffer is a sequence of bytes and a
position; the mapping flattens the fragments.

**Algorithms.** Where a request and a discard are cut, which id a core or cache
gets, which pool serves a vector, and the heap sort, each against a definition of
its result that does not follow the algorithm.

**Pools.** `pool[k][c]` is the length of CPU `c`'s list in pool `k`; a buffer
remembers from which list each of its items came.

**CasDisk.** `user[u]` is where a volume or exported object stands in
`cas_disk_open` and `cas_disk_put`, split where the mutex is dropped; `holder` is
the kernel's exclusive holder of a device. Several paths may name one device.

### Management state (`MCManagement`)

**NetlinkDump.** The collection of all caches, each under its read lock, into
`ctx`, and the emission over buffers of `Room` records with the cursor `cb`.
A cache is skipped when its lock or its information is not to be had or when
memory runs out between its parts; its entry of the array then serves the next
cache with the path it already has (`left`). `snap` remembers what each cache
was when it was read.

**ModuleLoad.** The lists of what the init functions acquire and of what the
error labels and exit functions release, in the code's order; `BuiltOn` says what
needs what.

**ClassifierRules, Classifier.** Rule texts as conditions and separators, what
the parser accepts, every condition's test and the evaluation of a rule; then the
list of rules, its exchange class by class under the write lock while bios are
classified under the read lock, the delayed directory resolution and the life of
the classifier.

**CoreIds.** `core` is OCF's list, `bitmap` the code's. The exceptions the code
makes (`drift`) are named: a connect marks no ids, the roll-back of an add is not
checked, an inactive core may be gone although an error came.

**Settings.** `val` is what OCF runs with, `disk` what is saved. One key stands
for each group of parameters the code treats alike: the mode, parameters that are
saved after a change (`kept`), those that are not (`unkept`), and each core's.
A save writes the whole configuration. When a signal ends the wait for it, its
caller goes on as after a failure while the save is still under way: `late` holds
what such saves may still write, `risk` the keys of which they know another value
than the one in force. `Reload` is a power loss and a load of what is on the
device at that moment.

**CacheListing.** The calls of `casadm --list-caches`: the count, pages of ids by
position, one call for each cache, one for each core, then the pool, while caches
and cores come and go.

### Programs around the kernel (`MCUserspace`)

**CasadmCmd.** `main` runs the ioctl with its retries, `thread` prints progress
until the pipe closes, `handler` is SIGINT interrupting the flush. `kernel` is the
command's way through `layer_cache_management.c`: it may be refused, flush, lock,
flush once more with `flush_interrupt_enabled` cleared, change, save, and put the
mode back when the save failed; each of these may fail. The interrupt ioctl is
two steps, the look at `flush_interrupt_enabled` and the request to OCF. `effect`
says what became of the system, `fault` whether a step failed by itself or the
interrupt had looked too early.

**CasConfig, Startup.** The configuration read line by line with the conflicts it
refuses; `casctl init` with its recursion over cores that lie on other cores'
exported objects; the loader at each udev event; `settle` with its list, wait and
retry; `stop` with its recursive detach, one frame of `halt.stack` for each core
on the way. Users open exported objects, any command of `stop` may fail and an
event may load a cache again behind it (`hindered`, `reloaded`).

**LibDump.** What the kernel puts into a message, how `libopencas` walks its
attributes and grows its lists, and the exporter that publishes a scrape.

**SafeMem.** Memory as a row of bytes; the word-wise move with its head, units
and tail, the string functions with their bounds as this build compiles them
(without `SAFECLIB_STR_NULL_SLACK`), and `casadm`'s comparison of mounted devices.

### How the modules fit together

MngtAsync has the lock and context protocol that all commands use; CacheLifecycle
takes it as one step and adds the instance, ExpObj takes commands to be
serialised by that lock and adds several cores and users, Disconnect takes one
core and adds requests and data, CoreIds and Settings take the lock as one
variable. BlockIo is what Disconnect calls a request inside OCF or at the disk,
IoBuffers what BlockIo calls a bio's data, Pools where those buffers come from,
CasDisk where the bios go. CasadmCmd follows one command from the user's side,
with the kernel's phases reduced to what an interrupt and a failure tell apart;
the waits that signals other than SIGINT break are in MngtAsync. LibDump reads what
NetlinkDump sends; Startup issues commands that are steps of the kernel.

The `MC...` modules put parts that share no state into one run. A variable `turn`
is chosen at the start and says which part runs; the others stay where they began.
The state spaces therefore add up and do not multiply, each part is explored as
completely as in a run of its own, and a property of a part is stated for the
behaviours in which it runs.

## 3. Runs

`tlc -config X.cfg Module`. State counts are distinct states.

| run | config | states | parts and instance |
|---|---|---|---|
| `progress` | `Progress.cfg` | 60 632 | counter: 2 CPUs, 2 references, nesting 2; threads: 2 pushes, 2 kicks; one start and two stops; an attach against a detach |
| `async_safety` | `MngtAsync_safety.cfg` | 97 303 | any two of six commands, or stop + change + query |
| `exported` | `Exported.cfg` | 108 854 | 2 cores, 1 opener each; 2 requests under pass-through disconnects with prompt disks |
| `disconnect_flush` | `Disconnect_flush.cfg` | 3 453 179 | 2 requests, both flushing ways, everything may fail |
| `data_path` | `DataPath.cfg` | 406 600 | 3 parts of a request; buffers of 2 and 3 fragments; all small inputs of the algorithms; 2 CPUs, 2 buffers; 3 users, 3 paths of 2 devices |
| `management` | `Management.cfg` | 949 291 | dumps of 2 caches; both modules, 2 files; 36 rule tables, 4 bios; 2 commands over 2 ids; 2 commands over settings of the cache and a core; a listing of 3 caches in pages of 2, one of them changing meanwhile; symmetry in the names of the commands over ids |
| `userspace` | `Userspace.cfg` | 208 852 | one command of each kind; files of up to 3 + 3 lines out of 6 + 6; 2 caches and 3 cores, one on another's exported object; 2 scrapes of dumps of up to 5 objects; every call over 8 bytes of memory |
| `async_detach_interrupted` | `MngtAsync_detach.cfg` | violation | one detach |
| `expobj_remove_retry` | `ExpObj_retry.cfg` | violation | 2 cores, 1 opener |
| `disconnect_window` | `Disconnect_window.cfg` | violation | 2 requests, default way |
| `disconnect_deferred` | `Disconnect_deferred.cfg` | violation | 2 requests, pass-through, deferral |
| `disconnect_slow` | `Disconnect_slow.cfg` | violation | 2 requests, pass-through, slow disk |

What the passing runs show:

- **progress, the counter.** No reference is lost or counted twice at any point
  of a freeze or unfreeze (`RefsAccounted`); zero is reported only when nobody
  holds a reference (`ZeroedMeansNoRefs`); the callback comes at zero
  (`CallbackAtZero`) and does come (`CallbackFires`); all of it implements a gate
  over one count (`ImplementsGate`). Two CPUs suffice for a put on another CPU
  than its get, which makes one private count negative, and for a freeze that has
  reached one CPU and not the other. Nesting 2 distinguishes first, nested and
  last. `CallbackAtZero` is about threads that decided in the present freeze
  period: a thread that decided, was delayed over an unfreeze and a new freeze,
  and then finds a new callback registered may call it early. That case is a
  hazard in `PROJECT.json`, not a claim of this run.
- **progress, the threads.** No structure is used after it was freed, no request
  is left behind, a stop returns only after the thread has gone (`ThreadsSafe`);
  no wake-up is lost (`ThreadsServe`). Two pushes and kicks let one arrive during
  the run caused by the other.
- **progress, start and stop.** They never use freed memory, pin the module while
  an instance exists and leave nothing over (`LifecycleSafe`); a failed start is
  rolled back and an interrupted stop is finished (`EndsClean`). Two stops are
  needed for one to lose the race for the lock. One event is left aside, the late
  wake-up of a lazy thread, see section 6.
- **progress, commands.** All return and every orphaned operation is over in the
  end (`AllEnd`).
- **async_safety.** With signals possible at every wait, nobody uses a freed
  context or gives back what they do not hold (`NoFault`), everything is given
  back (`NothingLeaks`), and success is reported only for an operation that
  succeeded (`SuccessIsReal`). Commands interact only through the cache lock, so
  two cover every pair of lock modes; the triple adds a stop with a waiting
  writer and reader. The one wait that no signal ends here is that for a detach
  itself, see section 6.
- **exported.** Open devices are not dismantled by commands, references balance
  and requests go where the owner says (`ObjectsConsistent`), a failed command
  restores what it changed (`CommandsRestore`), commands end (`CommandsFinish`).
  Two cores let a loop over the cores fail half-way; one opener decides between
  open and closed, and the proof covers any number. A behaviour in which the
  code follows a freed or NULL pointer stops there (`Halted`). As long as no
  request is deferred, repeated pass-through disconnects and connects stop an
  empty cache (`EmptyOnStop`), and every request is served (`AllServed`).
  `disconnect_deferred` shows what deferral does to the first. Disks answer at
  once in this run, which keeps the liveness check small; the proof of
  `EmptyOnStop` covers slow ones.
- **disconnect_flush.** With deferral, slow disks, failures and signals, a
  flushing disconnect never bypasses the cache before the core is up to date
  (`FlushedOnCore`), and at no time is the last write in neither place
  (`LastWriteKept`). A read is stale only if the cache was used again although
  it had missed a write (`ReadsCurrent`): freeze, drain, purge and the order of
  the steps leave no other way. `disconnect_window` and `disconnect_slow` show
  that this one exists. `--no-flush` is left out because it gives dirty data up.
- **data_path.** A request ends once, when all is over, with an error exactly if
  something failed, but for a lost race on `master->error` and for "not supported"
  of a write or flush (`EndsExact`); buffers are streams, in which a zeroing
  that does not end with a fragment goes on to the end of the buffer
  (`ImplementsStream`); the algorithms compute what they have
  to (`AnswersRight`); pools neither lose nor duplicate items as long as no page
  allocation fails (`PoolsExact`); no device has two disks and none closes under a
  user (`DisksExact`). Three parts let two complete while the loop still submits.
- **management.** See the properties in the table of section 1; each is stated in
  full above its definition. Two commands meet at every step between lock, change
  and save; power fails at any step and a save may come after its caller has
  given up (`SettingsKept`, with what is then at `risk` named); three caches are a full page
  and a rest. The commands over ids (`Users`) occur in no other part and are only
  compared with each other, so their permutations are a symmetry; the run checks
  no liveness.
- **userspace.** For every order of ioctl, kernel phases, progress thread and
  SIGINT, with failures anywhere, the exit code is what became of the system, and
  Ctrl-C alone neither stops a cache dirty nor turns a removal into a detach,
  unless the interrupt had looked at `flush_interrupt_enabled` before it was
  cleared (`ReportTrue`); the command returns (`CommandReturns`). `casctl stop`
  leaves running only what an open core pins, what failed or what was loaded
  again, and its exit code says so (`SettleStopTrue`); `AllComeUp` holds for
  every order of device events.

Bounds other than the sizes above are named constants with a comment
(`MaxCounter`, `MaxFiring`, `MaxChanges`, `MaxCalls`, `MaxLines`, ...); they are
guards of the actions that would exceed them. Deadlock is not checked where the
part really may stop, all threads being gone or a call being over; the liveness
properties, or a conjunct that somebody is still to act (`Pending` in
`EndsExact`), take its place.
Each property has a mutant of the code in `PROJECT.json` (a dropped guard, a
missing reset, swapped statements) under which TLC finds it violated.

## 4. Fairness

No fairness is put on users, on the administrator or on signals: nobody has to
start a command, open or close a device, push a request or interrupt a wait. In
a run of several parts the fairness of a part speaks of the behaviours in which
that part runs (`WF(turn = "..." /\ A)`).

| part | fairness | justified by |
|---|---|---|
| `EnvRefcnt` | WF of work items, of the rest of a call that has begun, of puts | work queues run; holders of references are requests, which end |
| `MngtAsync` | WF of each command, a wait only once it is completed; WF of each operation | threads are scheduled; OCF completes what it was asked for and grants a free lock |
| `CacheLifecycle` | the same for calls that have begun, lazy threads and OCF | |
| `CasThreads` | WF of threads, of calls under way and of kicks | `kick` follows `push` in the same thread |
| `ExpObj` | WF of the command under way, of the last steps of disconnect and delete | they run in a kernel thread without waiting for users |
| `Disconnect` | WF of the command; SF of each request's progress | see below |
| `CasadmCmd` | WF of the main thread with the kernel's phases of the ioctl inside it, and of the progress thread | threads are scheduled; MngtAsync shows that the waits inside the command end |
| `Startup` | WF of the appearance of the disks and of the loader at each event | the hardware is there; udev runs its rules for every event |

A request may be disabled again and again, by the queue being frozen once more
or by another request holding the line. Weak fairness would let it starve
although the block layer wakes all waiters of a queue that is unfrozen and OCF
serves a line in turn, so progress of a request is strongly fair. With weak
fairness `AllServed` is not claimed.

## 5. Proofs

Proved with TLAPS for every value of the constants, in eight modules of their own
(14 161 obligations; `tlapm <module>.tla` checks one of them). Where a module's
assumptions on its constants are not named in the module itself, they are a
hypothesis of the theorem. What a proof needs of the library (facts on finite sets
and their cardinality, that the naturals are well ordered) is a definition
(`SetFacts`, `FiniteFacts`, `WellOrdered`) that the lemmas assume; the module's end takes
in the library's theorem module, proves that the definition holds, and states the
theorems without it.

| module | theorem | states | under |
|---|---|---|---|
| `ProgressProofs` | `InductiveInvariant` | `Spec => []IInv` | `NAssumption`, `BoundsAssumption` |
| | `TypeCorrect` | `[]TypeOK` | |
| | `ReferencesAccounted` | `[]RefsAccounted` | |
| | `ZeroedIsTruthful` | `[]ZeroedMeansNoRefs` | |
| | `FrozenIsClosed` | `[]FrozenAdmitsNone` | |
| | `CallbackIsAtZero` | `CallbackAtZero` | |
| | `RefinesGate` | `ImplementsGate`: the counter implements `AbstractRefcnt` | |
| | `ThreadsInvariant` | `ThrSpec => []ThrInv` | `ThrBoundsNat` |
| | `ThreadsAreSafe` | `[]ThreadsSafe` | the same |
| `MngtAsyncProofs` | `OwnershipInvariant` | `[]IInv` | `ProgramAssumption`, `PhasesAssumption`, `NoDetach` |
| | `TypeCorrect` | `[]TypeOK` | |
| | `NeverMisused` | `[]NoFault` | |
| | `NeverLeaks` | `[]NothingLeaks` | |
| | `AlwaysUnderLock` | `[]WorksUnderLock` | |
| | `SuccessIsTrue` | `SuccessIsReal` | |
| `CasDiskProofs` | `DisksInvariant` | `[]DiskInv` | `UsersAssumption`, `PathsAssumption`, `StructsAssumption` |
| | `DisksCorrect` | `[]DisksExact` | |
| `BlockIoProofs` | `RequestInvariant` | `[]IoInv` | `BoundsNat` |
| | `RequestEndsOnce` | `[]EndsExact` | the same |
| `ExpObjProofs` | `ObjectInvariant` | `[]Objects` | `CoresAssumption`, `OpenersAssumption` |
| | `CommandsLeaveNoTrace` | `[]CommandsRestore` | |
| | `ReferenceInvariant` | `[]Tally` | the same |
| | `ObjectsAgree` | `[]ObjectsConsistent` | |
| `LifecycleProofs` | `LifecycleInvariant` | `LifeSpec => []LifeInv` | `StoppersAssumption` |
| | `LifecycleIsSafe` | `[]LifecycleSafe` | |
| `DisconnectProofs` | `StepsInvariant` | `[]Steps` | |
| | `TypeCorrect` | `[]TypeOK` | |
| | `DataInvariant` | `[]Data` | no disconnect without flush |
| | `NoWriteLost` | `[]LastWriteKept` | the same |
| | `CoreIsCurrent` | `[]FlushedOnCore` | the same |
| | `EmptyWithoutDeferral` | `[]EmptyOnStop` | `Deferral = FALSE` |
| | `ReadsAreCurrent` | `[]ReadsCurrent` | no disconnect without flush |
| `ManagementProofs` | `IdsInvariant` | `[]IdInv` | `WellFormed` |
| | `IdsCorrect` | `[]IdsExact` | |
| | `SettingsInvariant` | `SetSpec => []SetInv` | `SettersAssumption`, `CoresAssumption` |
| | `SettingsStay` | `[]SettingsKept` | |

**ProgressProofs, the counter**, for any number of CPUs. `ZeroedMeansNoRefs`
alone is not inductive: the countdown is zero for a reason that lies in the
private counts before the freeze. `IInv` has four parts. `Accounted` is
`RefsAccounted`, with the sum over the CPUs written as the existence of a
function of partial sums, so that changing one CPU's count by `d` changes the sum
by `d` (`SumUpdate`) without induction in the proof of each action; that the
recursive function `UncollectedUpTo` in which the run states the sum has this
value rests on the uniqueness of partial sums (`PartialSumsUnique`). `Phases`
says which flags and work items are possible in each phase: in particular that
the counts of all CPUs are collected once a freeze has completed. `Deciders` says
that a thread that decided in this period still finds the counter at zero,
because no reference can be taken before an unfreeze, which turns its decision
into one of an earlier period. From these, a completed freeze with countdown zero
leaves `live + decs = 0`.

**ProgressProofs, the threads**, for any number of requests and kicks. That a
freed structure is not used depends on whose completion a stop consumes. `Life`
gives, for each position of the caller, the possible positions of the thread, its
structure, the stop flag and the completion: the completion of the start has been
consumed and cleared before the flag is raised, so the one that ends the stop is
that of the thread's exit. `Order` says that a cleaner exists only beside a queue
that is up. `Work` says that at most one request of a cleaner is on the queue,
that the cleaner waits for it meanwhile, and that the queue is empty once the
queue thread has decided to exit.

**MngtAsyncProofs**, for any set of commands and any programs of one phase, or of
a flush and one more phase, without a detach (the property is false with one, see
section 6). `NoFault` is not inductive, since it says nothing about who owns
what. `IInv` adds, for each position of the caller and each position of the
operation, what is allocated and held for the command (`Owns`): while the caller
waits, the context is allocated, its result is still empty until the completion
has spoken, and the number of references is the one the failure path will put;
after an interrupted return the completion alone owns the context. `LockSound`
ties the lock to the commands: a writer excludes everybody. Each action has one
lemma that it keeps `IInv`; the argument for the other commands is common to all
of them (`MovedKeeps`: a step of one command leaves the parts of the others
alone).

**CasDiskProofs**, for any finite set of users and any paths, devices and
structures. `DisksExact` counts users, and the mutex is dropped between the look-up
of a disk, its opening and its insertion into the list, so the proof needs what
each user holds at each of these points: `DiskInv` says which structure a user at
a given step refers to, that a listed disk has as many references as users that
have got it, and that an opened structure that is not listed belongs to one user
only. Adding or removing a user changes the counted set by one element
(`FiniteSetTheorems`).

**BlockIoProofs**, for any number of parts of a request and of bios below each.
`EndsExact` speaks of the request when it has ended and says nothing of why it did
not end before. `IoInv` has the reason: `master->remaining` is the number of those
who will still decrement it, which are the loop while it submits, the parts under
way and the callers inside `blkdev_complete_data_master` (`Counting`, with a
cardinality), and the references of an I/O's token are its bios and the loop that
sends them (`TokenOK`). `Positions` says what may be under way at each position of
the request, `Numbered` that parts are submitted in order and how many are left,
and `Errors` where a failure is remembered until the request ends with it:
in an I/O, at a caller on the way to the master, in the master or in the end
itself, unless the race on `master->error` or the test for "not supported" lost
it.

**ExpObjProofs**, for any finite set of cores and any number of openers. What an
object looks like follows only from where the command under way stands and which
cores it has visited, so `Objects` is a table with a row for every phase of every
command (`Row`: what holds of the objects still to visit and what of the others),
the sets of cores each phase goes with (`Sets`) and the agreement of an object's
parts with each other and with its place, with a `priv_top` or in the box
(`Fits`). Each action has one lemma; most of them change one object and pass to
the next core or phase (`OneObject`). `CommandsRestore` is the row of the idle
phase.

`Tally` adds the references: it says that a module has as many of them
as objects it owns, by cardinality, and that a disk has those of its object and of
OCF. Whether a step may take or drop a reference depends on the table, so the
proof uses `ObjectInvariant`; the two together give `ObjectsConsistent`. Like the
runs, the theorems speak of behaviours up to a use of a freed or missing object,
where the model stops (`Halted`).

**LifecycleProofs**, for any number of stops beside the start. `LifecycleSafe`
says nothing of who will release what. `LifeInv` names one call that owns the
instance and gives the rows it may be in (`Owner`): what of the instance exists,
where its lazy thread stands, what OCF is doing for it and which of caller,
completion and thread will free the context. A caller that was interrupted is over
while it still owns the instance, through its thread. Every other call is `Beside`
it: over, waiting for the lock or not begun, its thread absent or told to end, so
none of its steps touches what the owner has.

**DisconnectProofs**, for any number of requests. `Steps` says which route, mode
and queue state each step of a command has: the object passes requests by exactly
in the steps between the switch and the way back, no request is in the handler
once the queue was found quiet, and none is in OCF while the cache is stopped.
`Data` adds what makes the copies right: while a command is past its flush the
line is not dirty, a dirty line is the current copy, and a write still under way
at the disk beside a dirty line was overtaken by a later one. The last write is
then on the core or in the cache in every state. Disconnecting
without flush is excluded since it gives dirty data up by design. `EmptyOnStop`
holds if no request is deferred to the work queue, and is false otherwise
(section 6): the deferral is the only reason for the violation. `ReadsCurrent`
needs `Coherent`: until the cache is used again although it missed a write, a copy
in the cache, or one on its way there, is `Outdated` only while requests pass the
cache by, and then every request that may still meet the line was overtaken by the
write that outdated it; after the purge there is no copy and nobody who could make
one. The invariant holds on the paths that fail and with slow disks and deferral,
because what they spoil is exactly what `behind` records when requests are routed
to the cache again.

**ManagementProofs, the core ids**, for any ids and any number of commands (`WellFormed`: ids are
naturals, the set of commands is finite and none is named like the free lock).
`IdsExact` compares the bitmap with OCF's list of cores only while nobody holds
the management lock. `IdInv` says what the holder may have left half done: a core
without its bit is one that is being exported (`Marked`), a command in its export
or its removal holds the lock and its core is active (`Standing`), and there is
one cache reference for each command at work, beside those that were leaked
(`Referenced`). That the first free id is one of the free ids is the minimum
principle for naturals (`WellFoundedInduction`).

**ManagementProofs, the settings**, for any number of commands, cores and modes.
`SettingsKept` compares what was reported with what is in force and on the device
only while the lock is free, and a step may break it under the lock as long as the
holder repairs it. `SetInv` says who can be in the middle of what. `Exclusive` ties
the lock to the positions of the commands: one writer, which changes or saves, or
readers. `Promised` says that every setting agrees with its report unless the one
command that saves it has changed it and not saved it yet; that such a command has withdrawn
the report first (the parameters) or still knows the value that was reported, which
is also the one on the device (the mode), so that putting it back after a failed
save restores the agreement (`Saving`); and that what a reader has collected is
still the state, since no writer gets in. `Behind` bounds the saves nobody waits
for: whatever they may still write agrees with what is in force but for the keys
in `risk`, so that when one of them lands it disturbs no other key.

### Only model-checked

- Liveness: `CallbackFires`, `ThreadsServe`, `EndsClean`, `AllEnd`,
  `CommandsFinish`, `AllServed`, `CommandReturns`, `AllComeUp`. Fairness and
  enabledness are outside the prover's reach.
- `AnswersRight`, `PoolsExact`, `ImplementsStream`, `RulesExact`,
  `ClassifiesRight` and `SafeExact`: their modules compute with recursive
  operators, which are outside the prover's reach as well.
- `DumpExact`, `LoadExact`, `ListExact`, `ReportTrue`,
  `InitExact`, `SettleStopTrue` and `ScrapeExact`: no proof has been
  written.
- The violations of section 6.

## 6. Where the code and its own statements differ

Five runs state what a message, a comment, a manual page or a test of the
repository says, and TLC shows a behaviour of the code that contradicts it:

- `async_detach_interrupted`: a detach whose wait was interrupted "will finish
  asynchronously"; its completion frees the context twice and keeps the cache
  reference (`layer_cache_management.c:2578`).
- `expobj_remove_retry`: after a failed removal the user is asked to retry; the
  core has lost its `priv_top`, which the retry reads (`vol_block_dev_top.c:571`).
- `disconnect_window`: the route is switched before the queue is frozen; a write
  in between leaves the cached copy stale, and a default disconnect keeps it
  (`layer_cache_management.c:3618`).
- `disconnect_deferred`: freeze and drain do not wait for requests deferred to
  the work queue, which fill the cache after the purge (`vol_block_dev_top.c:188`).
- `disconnect_slow`: pass-through hands a write to the core and forgets it; a
  connect routes requests to the cache while the write is still on its way, a
  read miss caches the old block, and reads hit it after the write has landed,
  against a test's "core data is consistent (including the overwritten half)
  after connect" (`layer_cache_management.c:3714`).

Further behaviours the models have, where the repository states nothing to hold
them against or where a property names them as its exception. Those with
concurrent steps are also hazards in `PROJECT.json`.

Kernel, start and stop (`layer_cache_management.c`):

- A lazy thread that has not slept yet sees its flag, runs and frees its structure
  before its creator uses the wait queue in it; a start that fails early drops the
  module while that thread is returning through it (2851).
- The clean-up of a load whose second object could not be created reads a NULL
  `priv_top` (1863); information on an inactive core reads it too (4091).
- Pointers to objects are kept by a disconnect after the objects were given away;
  a delete through sysfs removes an open device.
- A disconnect without flush that fails after requests have bypassed a dirty
  line.

Kernel, management (`layer_cache_management.c`):

- Setting the mode returns 0 without setting it when another command came first
  (3240-3244); a save that was interrupted is taken for failed (3261), and what it
  writes in the end is neither what its caller has put back nor what others have
  set since.
- The interrupt of a flush looks at `flush_interrupt_enabled` and then asks OCF to
  stop (3920); if the last flush of a stop or removal begins in between, it is
  interrupted although the flag forbids it.
- After a connect the bitmap knows none of the cores, so an add without an id may
  choose one that is in use, and fails (1279).
- Promotion parameters and the cleaning policy are not saved (1017-1032, 907-925).
- When no core id is free the cache reference is not put (1280-1281).
- The removal of an inactive core keeps its bit when the error came after the
  removal; the roll-back of an add also drops a core that was there inactive.
- The core pool is changed without a lock.
- Zeroing of metadata looks at the device twice (3148-3215), and a core looked up
  for its parameters may be stale when they are set.
- `set_partitions` creates rules before it has the lock and meets
  `BUG_ON(!cls)` when the cache has stopped meanwhile (`classifier.c:948`).

Kernel, data path and environment:

- Two completions of parts write `master->error` at the same time and one error
  is lost (`vol_block_dev_top.c:195`); a test expects "I/O errors returned to
  user" (`test_cache_insert_error.py:155`).
- "Not supported" is taken for success for writes and flushes too, not only for
  discards (`vol_block_dev_bottom.c:140`).
- `cas_io_iter_zero` clears whole fragments; when the count does not end with one
  it clears all that follows (`vol_blk_utils.c`).
- When a page cannot be allocated the clean-up loop uses the index of the missing
  page for all of them (`context.c:126-138`), so the pages are not given back and
  the allocator warns at the end (`ocf_env.c:214-217`).
- A netlink dump leaves out a cache it could not lock or had no memory for, and
  reports a detached cache with the path of a cache whose collection failed
  before it (`service_ui_netlink.c:733-739`).
- A nested freeze returns before the first has notified every CPU, so a get may
  still succeed after it (`ocf_env_refcnt.h:83-85` says that they fail).

User space:

- `strnlen_s` and `strcmp_s` read one character beyond the bound they are given,
  against the comment "At most the first dmax characters of dest are accessed";
  `strncpy_s` leaves what follows the terminator as it was, against
  `strncpy_s.c:52-54`.
- A cache added between the count and the pages is one more than the list has
  room for; a core removed between two calls hides the cores after it.
- The progress pipe is closed a second time when SIGINT meets the end of the
  ioctl; of several parameters set in one command those before a failure stay set.
- `casctl stop` exits 1 after an error although nothing is left running; `settle`
  exits 0 when a start it raced with is still under way; `casctl init` calls
  a configuration recursive in which a core is reached twice; a detach matches
  exported objects by a substring of their path (`opencas.py:703`).

These are statements about the models, derived from the code by reading; none
has been reproduced on a running system.

## 7. Assumptions on OCF

OCF is not in the repository. The models take from the way it is called:

- the cache lock is granted in finite time once free, holds its own reference,
  and is refused on a cache being stopped;
- every asynchronous call completes exactly once, with or without an error;
- a stop waits for requests and puts the base reference itself;
- `ocf_mngt_cache_set_no_dirty` takes effect at once: writes become write-through;
- a queue is first in, first out; a push is followed by a kick, with no stop in
  between; the cleaner is stopped before the queue;
- accesses to one cache line exclude each other and are served in turn;
- a forwarded request is ended once for each reference of its token, whatever the
  order in which the parts end;
- a removal that ends with `OCF_ERR_CORE_NOT_REMOVED` has left the core in the
  cache, one with any other error may have removed it;
- a load or connect restores the cores that are in the metadata, with their ids;
- a new freeze of a counter does not begin while the last unfreeze still waits
  for its work items.

Definitions that stand for OCF are marked external in the map.

## 8. What is not modelled

- **OCF**: not in the repository, see section 7.
- **The ioctl dispatcher**: copies a command in, calls one of the functions
  modelled and copies the result out; only the translation of the result is
  modelled (CasadmCmd).
- **Formatting**: tables, statistics, CSV, option parsing, wording of messages and
  logs. The CSV parser and the sort of its rows work character by character on a
  file and keep nothing.
- **Kernel compatibility headers, ioctl structures, packaging, upgrade helpers**:
  declarations and build steps.
- **Within modelled parts**: checks of the start configuration that precede any
  state (RAM size, probing of metadata, partitions of the device), the standby
  mode that the code refuses to start, the geometry copied to an exported queue,
  the garbage collector of kernels that need one, metadata zeroing and health
  checks of `casadm`, the writing of `opencas.conf`, udev's own queue, the HTTP
  server of the exporter and the functions of safeclib that nothing calls.
  Failing allocations are merged with the failure of the step they belong to, and
  of the data of requests only currency (Disconnect) or position (IoBuffers) is
  kept.
- **Memory order**: steps are sequentially consistent. Data races are modelled as
  separate reads and writes where the code has them (`master->error`, the flags
  of the counter, the core id bitmap).
