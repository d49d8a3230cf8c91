# White Venom: verification project

TLA+ models, TLC runs and TLAPS proofs about White Venom (`src/debian_skeleton`):
a reactive host-protection engine in C++, the Reactive Extensions (RxCpp) it carries
in its tree and is built on, and the Bash pipeline that hardens the host. Paths below
are relative to `src/debian_skeleton/`.

## 1. Inventory

### The engine (C++, `src/`, `include/`)

| Component | State | Operations | Talks to |
|---|---|---|---|
| Window stream: `window_with_time(200ms).subscribe_on(new_thread)` | the deque `subj` of windows, the thread's time-ordered queue, `expected` | create, produce, release a window; subscribe, unsubscribe and join | called by the bus; calls the bus's handler |
| `VenomBus` with `BusTelemetry` | atomic counters (`total`, `queue_depth`, `accepted`, `null_routed`), `last_filtered_ip` behind a mutex | `pushEvent`, the handler of `startReactive`, snapshot | pushed by the probe's threads and by the Scheduler's callback; read by `main` |
| `SocketProbe` | `keepRunning`, listening socket, worker thread | `start`, `listenLoop`, `stop`, one detached thread per message | pushes events |
| `main --service` | `engine_lifetime`, `last_filtered` | poll and block every 250 ms, signal handler, shutdown | all of the above, `BpfLoader` |
| `VisualMemory` | Bloom bits (atomic one by one), strike counts (mutex) | mark, look-up, count, clear | the Scheduler's callback |
| `Scheduler` | a captured map descriptor | `start` wires `VisualMemory` to `blacklist_map` and the bus | kernel map |
| `BpfLoader`, `venom_shield.bpf.c` | object, link, maps (1024 blacklist entries) | deploy, `setRouterMAC`, `blockIP`, `getStats`, detach; the XDP program | kernel |
| `FilesystemModule` | `inotifyFd`, `keepMonitoring`, thread | audit, start, stop, monitor loop | pushes events; `main` constructs it, and nobody calls `startMonitoring` yet |
| Policies (`PrivilegeDecision`, `ExecPolicyRegistry`, `SysctlPolicy`, `SafeExecutor`) | none | pure decisions | |
| `HardeningUtils`, `VenomInitializer`, `InitSecurityModule`, `StringUtils`, `ConfigTemplates` | files on disk | single writes and permission changes | |

How they run. Whoever pushes an event also delivers it: `window_with_time` takes
its default coordination, the *current thread*, so the handler runs on the
pusher's thread and walks `subj` there, while the *new thread* creates and pops
windows. Every client message is pushed by a detached thread of its own. The
Scheduler has no thread: its callback runs on the caller of `mark_as_wanted`.
`unsubscribe()` is called in the signal handler and joins the window thread. The
monitor shares its descriptor with whoever starts and stops it.

What is hard: several threads walk and change one unlocked list; counters are
checked and changed in two steps; a late window thread; a signal at any moment;
a shutdown that must not hang and must not leave threads behind; a Bloom filter
cleared while it is written; a kernel map that can be missing or full; a
descriptor closed, and its number given out again, while another thread uses it.

What makes each part correct: the stream always has an open window once it has a
first one, until it is ended, ends windows in order and pops them all; the bus counts
each ruling and each refusal exactly once and gives queue places back; after every
filtered event the poll asks for the source once more; the shutdown ends, with no new thread after `stop()`; no false
negatives, no block before three strikes and one at the third; no descriptor leaked,
none of another part closed, and the kernel released on every orderly way out.

### RxCpp (`include/rxcpp/`)

The library is in the repository, and the bus is a chain of its operators: what the
engine promises rests on it, and it has the concurrency the engine does not show.

| Component | State | Operations |
|---|---|---|
| operators and sources | the members of each observer, a worker's queue | one call per signal or scheduled action |
| `composite_subscription` | a set behind a mutex, two atomic flags | add, remove, clear, unsubscribe |
| subjects, `multicast`, `ref_count` | the list of observers, exchanged under a mutex and read without it; a count and a connection | add, leave, push, complete, connect |
| schedulers | a time-ordered queue, the recursion flag, the virtual clock | schedule, run, recurse, unsubscribe, stop, advance |

What is hard: a lifetime that ends at any step of what hangs on it; actions that
schedule, unsubscribe and drive the very scheduler they run in; orders of completions
that leave an output nobody can end; work that runs late and cannot be taken back.

What makes each part correct: an operator's output is a function of what was sent; a
signal is delivered in order, once, not early, and so is the end; no child of an ended
lifetime is left behind; a value reaches everyone who had joined; items run in order,
one at a time, and are not forgotten.

### The hardening pipeline (Bash)

| Component | State | Operations |
|---|---|---|
| `01_orchestrator.sh`, `90_release_locks.sh` | plan, position | run modules 00 - 25 in order (or in reverse for restore), then release locks |
| modules `00`, `02`, `03`, `06` - `25` | system files with content, immutable bit and a backup | back up, unlock, rewrite, lock, drop the backup; an ERR trap rolls back |
| `04_ipv6_worm_protection.sh` | ip6tables chain | audit, apply, restore |
| `05_dpkg_apt_hardening.sh` | snapshots of apt's files | snapshot, apply, restore |
| `scripts/90_sysctl_reconcile.sh`, `91_wv00_selfcheck.sh` | sysctl sources | merge, verify |
| `tools/*.sh`, `scripts/hw_vuln_inject.sh` | permissions, boot parameter | one-shot commands |

What is hard: a failure or a kill between any two steps, traps that do not fire
for `exit 1`, locks one module leaves and another stumbles on, a backup name two
modules share, and a second run over what the first left.

`PROJECT.json` lists every component with its status, and every hazard at its line
with the properties that cover it, or why none does.

## 2. Modules

| Module | Models |
|---|---|
| `WindowStream` | abstract: a stream of windows, counted by phase (pushed, observed, completed, popped), in which only a window with an observed successor is completed as long as somebody listens; a deaf stream may open windows nobody observes and complete the last one |
| `WindowTimer` | the window thread: its queue ordered by (time, ordinal), the periodic tick, create / produce / release / complete tasks as rxcpp schedules them, subscription, the steps of disposal and the join; the clock runs freely, so the thread is late by any amount |
| `EventLedger` | abstract: what the telemetry promises |
| `VenomBus` | extends `WindowTimer` with pushing threads: one action per access to a shared variable, from `total_events++` to the decrement of `queue_depth` |
| `ServiceMain` | extends `VenomBus` with `main --service`, the listening thread, the detached threads and the shutdown |
| `VisualMemory`, `MCVisualMemory` | the Bloom filter, the strikes, the callback to `blacklist_map` |
| `EngineHost` | what the engine holds of its host: `BpfLoader` and the packet program, the router identity file, the inotify monitor with its descriptor, under the construction and destruction order of `main()`, kills and restarts |
| `RxNotification` | signals, what one call of an operator does (its pushes, the sources it joins or leaves, the work it schedules), and the gate of `subscriber` and `observer` |
| `RxUnary`, `RxCombine`, `RxTimed` | one function per operator and source: with one source, with several, with a worker |
| `RxReference` | what the operators of `RxUnary` and `RxCombine` promise: the whole output as a closed form of the signals sent, read off their documentation |
| `RxOperators`, `MCRxOperators` | one operator with its sources, its worker and its observer; the catalogue of operators and arguments |
| `RxSubscription` | `composite_subscription` under several threads, one step per load, exchange, lock and child |
| `RxSharing` | subject, behavior and replay under `multicast` and `ref_count`, one step per critical section |
| `RxScheduler` | a worker of each scheduler (immediate, current thread, run loop, event loop, virtual time and test) under actions that do what they like |
| `HardeningScripts` | the scripts 00, 02, 03, 07, 09 - 14, 16 - 18, 20 - 25 and 90, each as the sequence of its steps on files and the sequence of its ERR trap |
| `Orchestrator` | extends `HardeningScripts` with what a step does to the files, what follows when it fails, and `01_orchestrator.sh`, which runs the scripts |
| `VenomBus_proofs`, `VisualMemory_proofs`, `EngineHost_proofs`, `RxOperators_proofs`, `RxSubscription_proofs`, `RxSharing_proofs`, `RxScheduler_proofs`, `Orchestrator_proofs` | theorems about the modules of these names; those about `WindowTimer` and `ServiceMain` are in `VenomBus_proofs` |

`ServiceMain` is the composition of the engine's threads (window thread, pushers,
listener, `main`); `Orchestrator` that of the scripts. `EngineHost` stands beside
`ServiceMain` and not above it: of the bus it needs only that it is alive, and of the
loop only that it ends.

How state and actions correspond to the code:

* `WindowTimer`. `pushed - popped` windows are in `subj`; `popped` is the index of
  `subj[0]`. `chain` is the subscription: *none* before the producer has run,
  *subscribed*, and then the steps of `unsubscribe()` in the order of the code, with the
  thread at work between them: *ending* (`End`, the flag of `engine_lifetime` is turned),
  *deaf* (`Deafen`, the output hears no more: a window pushed from now on is observed by
  nobody, and the last observed one may be completed), *left* (`Leave`, the source's
  lifetime has taken the operator off `vent_bus`), *silent* (`Silence`, the periodic
  tick's lifetime has ended), *disposed* (`Dispose`, the queue is locked and emptied) and
  *joined* (`JoinTimer`). `DisposeSelf` is the same end when the disposal runs on the
  window thread itself, which cannot join itself. The callbacks of one lifetime run in
  the order in which a set holds them; the model has the order in which the operator's
  comes before that of the subject, whose states include those of the other order.
  The producer builds the chain in one step. `task` is where the thread is inside
  a task that takes two steps: after `push_back` and before the rest of
  `create_window` (*observe*), after `on_completed` and before `pop_front` (*pop*).
  A queue entry carries the window it was scheduled for (`win`), which the code does
  not: `ReleasesTheFront` says that `subj[0]` is that window.
* `VenomBus`. An event is the thread that carries it. `pc` follows `pushEvent`
  (`count`, `check`, `refuse`, `uncount`, `emit`), the walk over `subj` (`visit`) and
  the handler (`judge`, `stamp`, `drain`, `drop`). `stop` is the end of the deque when
  the loop began, as in the range-for. `VisitDangling` is undefined behaviour in the
  code: reading a popped element either looks like the completed subject it was
  (`VisitDeaf`) or ends the process (`crashed`). The threshold moves with the load and
  the clock, so a non-ARP event may get either ruling.
* `ServiceMain`. `main` follows the loop (test, snapshot, compare, block, remember) and
  the way out (stop, join, detach, destroy). The handler runs on the main thread, so `main`
  stands still from *ending* to *disposed*. `told` is history: the count of filtered
  events when the loop last asked for the source. `deploy()` and `start()` may have failed.
* `VisualMemory`. One step per atomic access or critical section of
  `mark_as_wanted` and `clear_memory`; `RequestBlock` and `Announce` are the callback,
  which `Start` (`Scheduler::start`) sets. Before that a third strike asks nobody
  (`VisualMemory.cpp:34`). `Start` comes while no call is under way: the assignment of a
  `std::function` that another thread reads is undefined.
* `HardeningScripts`. A step is one command that changes a configuration file, a lock
  (`chattr +i`), a backup, or that can fail for reasons of its own (apt, a service,
  `grub-mkconfig`: `Exec`). `need` is the test in front of it (the file is there,
  absent, locked, or was found locked); `on` is what bash does when it fails. Only the
  file a module is about is modelled; secondary files, packages and services are
  `Exec` steps. `AppArmorFiles` and `CriticalFiles` hold those entries of the two lists
  that some other modelled script touches.
* What follows a failure was established by running bash: an ERR trap is not inherited
  by functions unless `errtrace` is set, and none of the scripts sets it. So a failing
  command inside `run`, `unlock_file` or any other function ends the script by `set -e`
  without the rollback, and so does a plain `exit 1` (`"die"`). Comments in
  `00_install.sh:77`, `17_kernel_cmdline_lockdown.sh:103` and
  `21_mount_opts_hardening.sh:170` expect the rollback there.
* `Orchestrator`. A file is there or not, locked or not, and holds the whole change of
  some modules (`done`) or a change cut short (`half`). `Do` is a step that works or is
  skipped, `Refuse` one the kernel refuses because of a lock or a missing file, `Fault`
  one that fails by itself, `Kill` the end of the process at any point. A copy or a
  write that fails or is killed may leave its target torn; a rename and `sed -i` are
  atomic. The orchestrator is `StartPipeline`, `RunModule`, `RunRelease` and the
  return to it in `Leave`; `before`, `hurt`, `passed` and `last` are history.
* `EngineHost`. `main` is the position in `main()`, with the steps of `stopMonitoring`
  (close the descriptor, set `inotifyFd` to -1, join) apart, since the monitoring thread
  can run between them; `monitor` is the position in `monitorLoop`. `owner` tells whose a
  descriptor number is: a closed one is given out again, the lowest first, to the other
  parts of the process too. A read from such a number (`foreign`) may come back, fail, which ends the
  thread, or wait for a peer for as long as it likes (`monitor = "waiting"`,
  `ReadReturns`): the listener's client sockets have no timeout until
  `SocketProbe.cpp:74`. `Closed` (0) stands for -1. Nobody in the repository calls
  `startMonitoring` (`main.cpp:135` only constructs the module), so the loop of the model
  plays the caller of that public interface. `identity` stays FALSE, because
  `setRouterMAC` is called before `deploy()` has loaded the object (`main.cpp:143`). A
  `Kill` is SIGKILL; the kernel takes descriptors, program and maps back.
* `RxNotification` to `RxOperators`. An operator is a record with its name, its period
  and arguments, and the number `quit` of values after which its observer leaves. Its
  members are kept in the fields of `st`. `Send` is a signal of a source that is still
  subscribed; `Run` the worker's next action, as late as the clock lets it; `Dispose`
  the observer's `unsubscribe()`. `Outcome` is what `subscriber::on_next` and the like
  do around the call: a signal after the end goes nowhere, an end releases the sources
  and the worker. A function given to an operator may throw on a value; of the three
  that `group_by` is given, `m` says which one does. The
  coordination is the default one (the identity), which trusts the sources to call one
  at a time.
  The values of a timed operator are numbered as they are sent. Periodic work and what it
  schedules carry the target they belong to, which the code does not; `NeverEarly` measures
  by the clock and the log, not by these.
* `RxSubscription`. `outer` is the flag of `subscription_state` around the composite,
  `inner` that of `composite_subscription_inner`, `lock` the mutex. A child's action may
  call `remove` on the composite it is in, as those of `merge` and `concat` do. `owed` is
  history: what was added and not taken out again.
* `RxSharing`. `completer` is the immutable list that `on_next` reads through a weak
  pointer without the mutex (`rx-subject.hpp:178`); the read yields the list the pointer
  named at one moment. `AliveIn` is `copy_if` over the observers' `is_subscribed()`. `add()`
  holds the mutex while it adds a callback to the observer's lifetime
  (`rx-subject.hpp:140`): if another thread ends that lifetime in between, the
  callback runs at once on the thread that holds the mutex it wants, and waits for
  itself. The model has this (`Hook`, then `Rebuild`); the properties speak of the states
  where every thread has come back. `on_connect` of `multicast` is four steps: the look at
  the connection it has (`Connect`), then `Nest` (the new one hangs on the subject's
  lifetime and is remembered), `Unlinker` (it is given the callback that forgets it) and
  `Source` (the source is subscribed with it). `Forget` is that callback; it forgets
  whichever connection there is.
* `RxScheduler`. `frames` is the call stack of the thread that runs the queue. What an
  action does between its begin and its return is any sequence of the scheduler's own
  calls, `run_loop::dispatch()` among them: it runs the item after it has given the lock
  back (`rx-runloop.hpp:191`), so that an item can run another one inside itself, and both
  share the loop's one recursion flag (`Again`). Lifetimes may be unsubscribed by any
  thread at any step. An item is scheduled under a lifetime (`Life`): its worker's, or its
  own where it has one. The constructor adds an own lifetime to the worker's, and the
  destructor of every copy takes it off again (`rx-scheduler.hpp:507`), so that whatever
  went through a queue ends with its own lifetime only; one that is run inside the call
  that scheduled it may still hang on the worker's (`Linked`). The event loop hands on the
  action alone, under its worker's lifetime (`rx-eventloop.hpp:53`): the item's own is
  never asked. `swept` are the runs that were in a queue when it was destroyed.

## 3. Runs

| Run | Question | Bounds |
|---|---|---|
| `window_timer` | does the window thread implement the stream, is there an observed window until the subscription is ended, are all popped, whatever the thread does between the steps of `unsubscribe()`? | three periods (`Horizon = 3`): two overlaps, and every lateness up to the horizon |
| `bus_boundary` | are the counters exact, and does an emitted event go unheard only if its walk was overtaken, across window boundaries, a refusal and a disposal? | two threads, `Limit = 1` so that one can be refused, two periods, one ARP event |
| `service_loop` | does the loop ask again after every filtered event, and does the shutdown end quietly? | two clients, one period, a signal at any time, deploy and probe working or not |
| `memory` | false negatives, strikes, third strike | two threads, two addresses sharing a bit, three marks each, one clear, a map of one entry, the callback set at any moment between calls or never |
| `engine_host` | does the monitor end before the bus, are descriptors neither leaked nor closed twice, is the kernel released, does `stopMonitoring()` return, but from a join with a thread that reads from another part's descriptor? | two descriptors, so that a number is given out again; two starts, two lives, two file events, one packet |
| `rx_operators` | does each operator send what its definition says, in time, in order, to the end, whatever order the sources send and end in? | five signals for the untimed operators: two sources that send and end, and one signal too many; two values at two times and a worker late up to the end of time for the timed ones; observers that stay, or leave in the first or second value |
| `rx_subscription` | is no child left behind, does every call return? | three threads with a call each on two children, one of which removes itself: an add between an unsubscribe's exchange and its taking of the set, with a third thread's remove or clear |
| `rx_sharing` | does a value reach everyone who had joined, does everyone hear the end, is the count right, is the source connected while wanted? | two observers, one of which leaves after its first value, two threads, two values, each kind of subject |
| `rx_scheduler` | order, overlap, loss, lifetimes, the virtual clock | two schedulables, one with a lifetime of its own, three runs asked for, times 0 to 2 |
| `pipeline` | does any failure, kill, rerun or order of modules lose the text a run found, break a rollback, leave a lock open or stop a module? | two starts (a pipeline of 02, 07, 17, 22, 23 and 90 in any of the five modes, or any of 18 single modules), two failed commands or kills |
| `bus_dangling` | *violated*: no race on the window list | one event, one boundary |
| `service_destroy` | *violated*: the bus finishes the events inside before it goes | one client |

Beside them lie configurations to be run on demand:

* What the code does against its documents or against the reader's expectation, each
  with the one property it refutes: `BusLeak.cfg` (queue depth 0 at rest),
  `BusWrap.cfg` (refused only when full), `ServiceAsk.cfg` (a filtered source is asked
  for), `MemoryForgets.cfg` (never forgotten), `PipelineAgain.cfg` (a second run
  succeeds), `PipelineTorn.cfg` (a whole text is kept over several runs),
  `PipelineEmpty.cfg` (no module, nothing to do), `EngineHostStop.cfg` (a clean stop),
  `EngineHostJoin.cfg` (the close wakes the reader), `RxRelease.cfg` (disconnected when
  nobody is there), `RxSharingTwo.cfg` (connected for whoever subscribes first),
  `RxEmpty.cfg` (no value taken from an empty member), `RxTake.cfg` (`take(t)` sends the
  first *t* only), `RxSchedulerDocs.cfg` (the worker's end ends its items, an item's own
  end ends it, one item at a time: all three, with TLC's `-continue`).
* What else holds: `WindowTimerMore.cfg`, `BusMore.cfg`, `EngineHostMore.cfg` and
  `RxSchedulerMore.cfg`. They check type invariants, that calls return, that release takes
  the front window, that the timer does not drift, that at the moment of an emit there is a
  window that would hear the event, that file events are read, and that the virtual clock
  goes forward. The other type invariants are theorems.

Why the bounds are enough: the phenomena are between one window and the next, between
two threads, or between one step of a thread and the shutdown; a third window or
thread repeats them. The theorems of section 5 remove the bounds where it matters
most. `DepthMod` stands for 2^32 and `Limit` for 1000: only `Limit + 1 < DepthMod`
is used. `MaxThreads`, `Horizon`, `MaxMarks`, `MaxClears`, `MaxEntries`, `MaxStarts`,
`MaxLives`, `MaxFileEvents`, `MaxPackets`, `MaxLog`, `MaxNext`, `MaxNow`, `MaxCalls`,
`MaxRequests` and `MaxValue` bound what would not end. `MaxT` is the largest value of
the small integers the sources send. Two starts of the pipeline are what a crash and the
run after it, or two modules in conflict, take; two failures are one that breaks a
module and one that meets it in its rollback or in the next run. The pipeline's five
modules are those that share files and locks; the others are started singly, before and
after it. Deadlock is not checked: every bounded model comes to rest, the engine stops
after its shutdown, a host is at rest between two runs, and callers may stop calling.

Each property of a passing run is paired in `PROJECT.json` with a mutant: a faulty
variant of an action, written beside it, under which the run must fail.

### What the violated configurations show

* `queue_depth` is given back only by a handler, so an event that no window hears
  (before the first window or after disposal) leaks its place: `VenomBus.cpp:24`. The
  stress test report speaks of zero leak.
* The pusher's thread walks the deque that the window thread pops, unlocked
  (`rx-window_time.hpp:185,147`).
* `if (queue_depth > 0) queue_depth--` in two threads (both delivering to two
  overlapping windows) wraps the counter, and then everything is refused
  (`VenomBus.cpp:50,18`).
* Detached client threads survive `stop()` and the bus (`SocketProbe.cpp:82`).
* A poll between `null_routed++` and the write of `last_filtered_ip` remembers the
  count and never asks for the source (`main.cpp:163`, `VenomBus.cpp:42,45`).
* `clear_memory` overlapping `mark_as_wanted` can erase one of its bits
  (`VisualMemory.cpp:56`).
* `09` locks `sshd_config`; `10` and `11` do not look for the lock, and fail from then
  on, their rollbacks too (`10_user_ssh_hardening.sh:46`). In the pipeline the order
  hides it until the second pass.
* `stopMonitoring` closes the descriptor and sets it to -1 while `monitorLoop` is between
  its test and `FD_SET`, `select` or `read`: `FD_SET` of -1 (which a hardened build
  aborts on), or a read from a descriptor of another part that was given the number
  (`FilesystemModule.cpp:101`). The master context calls flag and close a clean stop
  (`src/context/master_conetext_package_v2.1.md:299`). The comment at
  `FilesystemModule.cpp:99` counts on the close to interrupt the read; if the number has
  gone to a client's socket in between, the read waits for that client, and the join
  with it (`EngineHostJoin.cfg`).
* A run that is killed in the middle of its write leaves a torn file and the whole text in
  the backup. The next run backs up what it finds, the torn file, over it
  (`02_dns_quad9.sh:79`), and a second kill leaves neither text whole
  (`PipelineTorn.cfg`): the script calls its rollback "robusztus"
  (`02_dns_quad9.sh:6`).
* With no module to run, `01_orchestrator.sh:151-163` says that there is nothing to do; that
  branch is never met, since `printf` of an empty array prints one line
  (`01_orchestrator.sh:127`): `--audit` runs `bash ""` and fails, `--snapshot` goes on to
  release the locks (`PipelineEmpty.cfg`).
* `ref_count` reads the connection without the mutex after the observer was subscribed
  (`rx-ref_count.hpp:163`): an observer that leaves by itself in its first value has
  gone before `connect()`, and the source stays connected for nobody. With two threads
  that subscribe, the second may find a connection that is dead and not forgotten yet,
  and its observer stays without a source (`rx-multicast.hpp:64`), against
  `rx-ref_count.hpp:8` (`RxSharingTwo.cfg`).
* `take(0)` sends one value: the count is tested after it was lowered (`rx-take.hpp:103`;
  an unsigned one wraps around there, and everything is sent), against `rx-take.hpp:7,13`, "only the first t items" (`RxTake.cfg`). `RxReference` has
  what the documentation says, and `OutputIsReference` leaves out `take(0)` (`TakesNone`).
* The end of a worker is said to unsubscribe all items scheduled to it
  (`rx-scheduler.hpp:408`); one with a lifetime of its own that waits in a queue is not
  reached, because each destroyed copy of it has cut the link (`rx-scheduler.hpp:507`,
  `WorkerEndsAll`). On an event loop the item's own end does not reach it either
  (`rx-eventloop.hpp:53` against `rx-scheduler.hpp:279`, `OwnEndsAll`).
* A worker is said to run its items one at a time (`rx-scheduler.hpp:409`); an item that
  calls `run_loop::dispatch()` runs another one inside itself (`NeverNested`).
* `debounce` keeps the pending value in a member that `on_error` empties
  (`rx-debounce.hpp:166-169`). The disposer that this puts on the worker comes behind the
  work of the value when that is due already: the work then takes the value out of the
  empty member (`rx-debounce.hpp:127`).

More disagreements met while modelling the pipeline, without a configuration of their own:

* `--dry-run` is said to write nothing (`01_orchestrator.sh:28`), but only 00, 02, 03
  and 07 look at the mode: 09 - 25 and 90 apply.
* `--restore` is said to undo (`01_orchestrator.sh:30`): the modules apply again in
  reverse order, and 03 and 00 stop at the unknown mode.
* 12, 16 and 18 end in failure at every start: `log` is not defined in 12, and `local`
  stands outside a function in 16 and 18.
* The rollbacks of 07, 16 and 17 restore a backup that `cp` left torn. 17 and 21
  restore before they unlock. 21 drops its backup before it moves the new file into
  place, and on that way leaves the file unlocked. 23 never locks `grub` again.
* 10's rollback deletes the user even if it was there before; 13's purges what it has
  just restored; 10 and 11 share one backup name.

`OldOrNew`, `RollbackExact` and `RelockedAsFound` name the cases they leave out because of
these: the properties say what does hold. In the same way `EndReached` names the worker of
`synchronize()` that goes with its input, `NobodyLeftWaiting` the `skip_until()` that
swallows a completion before its trigger, and `ClockForward` the end of an advance.

In the engine: the source the probe gives, `NET_SOCKET_8888`, is not an address, so that
`blockIP` refuses it (`SocketProbe.cpp:83`, `BpfLoader.cpp:61`); and the callback
announces `IP_BLOCKED` whether or not the map took the entry (`Scheduler.cpp:26-31`).

In RxCpp's schedulers: *immediate* nests, too; an item that stops virtual time and starts it again runs items
inside itself; the end of `advance_to` sets the clock back when an item slept past it;
an exception leaves `isenabled` set, and destroys the queue of a *current thread*.

## 4. Fairness

* The window thread, the pushing threads inside `pushEvent`, `main` and the listener
  are threads of one process that nothing blocks for ever except the two joins, which
  are guards; so is the thread that ends the subscription, through every step of the
  disposal; the scheduler of the operating system runs them, hence weak fairness.
* Nobody has to push an event, connect, call `mark_as_wanted`, start the engine or the
  monitor, or send a signal.
* The clock goes on up to the horizon (`WindowsArePopped` needs it: a window ends when
  its time comes).
* `VisualMemory`: a call that was made goes on to its end.
* `EngineHost`: the steps of `stopMonitoring` and of `monitorLoop` are taken (weak
  fairness), but for the return of a read from another part's descriptor
  (`ReadReturns`), which is up to whoever is at its other end. That a `select` with something to report is not interrupted for ever is
  strong fairness, used only by `EventsAreRead`: `select` returns after a second at most,
  with or without events, and the loop calls it again.
* `RxSubscription`: a thread inside a call goes on, and a thread that waits for the mutex
  again and again finds it free gets it in the end (strong fairness of `Lock`, as for any
  mutex of the platform). That the mutex is given back is what the run shows.
* `RxScheduler`: an action ends, a thread that sleeps or waits is woken, and the owner of
  a run loop goes on dispatching whenever no item runs (`rx-runloop.hpp` leaves that to the application).
  Virtual time has no fairness: it waits for whoever advances it.

## 5. Proofs

All theorems hold for every value of the constants, under the assumptions the modules
name: `HorizonAssumption` (a natural number), `BusAssumption`
(`ArpEvents \subseteq Events`, `Limit + 1 < DepthMod`, at least one thread),
`ServiceAssumption`, `MemoryAssumption`, `SubscriptionAssumption`, `SharingAssumption`
(finitely many observers and threads of the application, none of them the thread of a
connection; a replay subject keeps at least one value), `SchedulerAssumption` (the bounds
are natural numbers, and *forever* is later than any time that can come up),
`HostAssumption` (descriptors are numbered from 1, the bounds
are natural numbers), `PipelineAssumption`, `BoundsAssumption` (natural numbers) and
`OperatorsAssumption`: every entry of the catalogue names an operator that the module
models, one that keeps time exactly if it has a period; its arguments are natural numbers;
the distance of buffers and windows, which the code divides by, is not 0, and neither is the
size of a window. The sets of events, threads, clients and
children may be any finite or infinite sets. TLC evaluates the assumptions in every run.
One theorem, `DepthAlwaysExact`, has a hypothesis of its own, stated with it.

`VenomBus_proofs`, about the window thread: `TimerTypeCorrect`, `WindowsAlwaysCovered`,
`ReleaseIsInOrder`, `TimerNeverDrifts`, `JoinedStaysFinal`, `TimerImplementsStream`. None of the
invariants is inductive: that a released window has an observed successor depends on
the order in which tasks of equal time are queued. The inductive invariant `TimerInv`
is the type invariant with

* `CountersInv`: the phases of the windows are in order and agree with `task`;
* `OrdersInv`: ordinals are unique and below `ordinal`, immediate tasks are not in
  the future;
* `TickInv`: exactly one tick is pending, at a fixed distance from `expected`, and the
  windows it announced are pushed or have their creation queued in order;
* `EndingInv`: each observed, uncompleted window has exactly one ending task, and those
  of older windows precede those of newer ones;
* `SuccessorInv`: a window's ending task is always behind the tick or the creation of
  its successor;
* `ChainInv`: what the steps of `unsubscribe()` have taken away so far. `WindowsCovered`
  holds until the first of them that the windows feel, and the stream goes on, deaf,
  until the queue is emptied.

There is one lemma per action; the theorems follow from `TimerInvariant`, and the
refinement from it step by step: every action is a step of `WindowStream` or a stutter.

About the bus, in the same module: `BusTypeCorrect`, `CountersAlwaysAgree` (with the invariant that a
walking thread has not yet judged the windows ahead of it), `EmitAlwaysFindsLive` (from
`TimerInv`: the bus leaves the timer's variables alone; it is about the moment of the emit),
`UnheardAlwaysOvertaken` (what becomes of the event after it: with `OvertakenInv`, all windows
that its walk has passed were completed when it passed them), `DisposedAlwaysDrains`, and
`BusImplementsLedger` (with the invariant that walks stay on windows that were opened), and
`DepthAlwaysExact`: until a second window opens, `queue_depth` is the number of events
inside plus those that went unheard, provided `MaxThreads + Limit < DepthMod`. That
hypothesis says that there are fewer threads than the counter has numbers to spare above
the limit: each of them adds one before it tests (`VenomBus.cpp:16-18`), and with more of
them the counter itself would wrap.

About the service, in the same module: `ServiceIsABus` (every behaviour of the service is
one of the bus, so that the theorems above hold in it: `ServiceCountersAgree`,
`ServiceUnheardOvertaken`, `ServiceImplementsLedger`), `ServiceTypeCorrect`, and `StoppedStaysQuiet`. The last needs that the listener has
ended when `main` is past the join (`ProbeInv`).

`VisualMemory_proofs`: `MemoryTypeCorrect`, `NeverFalseNegative` and
`NeverBeforeThreeStrikes`. The former needs that what an undisturbed call has set is still
set (`SetInv`) and that nobody is undisturbed while a clear is under way (`ClearInv`). The
latter needs a count: the strikes of an address and the calls that are still to strike it
are no more than its marks together (`CountInv`, `CarryInv`).

`Orchestrator_proofs`, under `PipelineAssumption` (the installed modules and those
started by hand are scripts of `Numbers`; the bounds are natural numbers):
`PipelineRunsInOrder`, `PipelineTyped`, `PipelineOldOrNew`, `PipelineRollsBack`,
`PipelineSucceeds`, `PipelineRelocks` and `PipelineNotLockedOut`. TLC checks these
properties with two starts and two faults; the theorems hold for any number of either,
and so for every disk that any sequence of modules, failures and kills leaves behind.

* For the order, `OrderInv` says that passed, running and pending modules together are
  the plan, cut at two points of its order; `StaysOrLeaves` reduces every step of a
  module, whatever its script is, to one that leaves the pipeline alone or ends it.
* What a module can rely on when it starts is `DiskOK`: a missing file has no text and no
  lock, a backup is never locked, the files of `Kept` are there, and a backup of the audit
  rules or of the blacklist stands only beside its original. Without the last, `07`
  started after a crash could take an old backup for the text it found. All scripts
  together keep it, because each of their steps keeps to `Sound` (`BodiesSound`,
  `TrapsSound`: the scripts are gone through step by step).
* `OldOrNew` is about one run: the text that it found, or the whole change. For 02 it holds
  whatever fails; 07, 16, 17 and 18 do not survive a `cp` that was cut short, and 17 not the
  failure of its trap (`Relied`). It says nothing of a text that an earlier run had already
  torn: see `PipelineTorn.cfg`.
* For the texts, each module that promises something has an outline in the manner of
  Owicki and Gries: `Run02` says for each position of 02's body and trap what holds there
  (the file has its old text; the backup has it; the change is made; the file is not
  locked), `Step02` that each step, done, skipped, refused, failed or killed, leads from
  one assertion to the next or leaves what the property promises. `Run17` needs to know
  that the trap restores before it unlocks, `Run07` that its unlock came before its write.
* For the locks, `Owed` says that a file found locked and not locked now is `Due`: the
  module is past the step that unlocked it and not past the one that locks it again, and
  that one cannot be refused, because the file is there (`Remaining` for 09, 24 and 25,
  the outlines for 02, 07, 14 and 17).
* That locks are no obstacle is `hurt = {}` in the outlines of the bodies: nothing is
  refused there, since each step that a lock would stop comes after the module's own
  unlock. The modules without a trap are `Untrapped`.

`PipelineInv` is all of this together; TLC checks it on the instance of `Pipeline.cfg`
too.

`RxSubscription_proofs`: `TypeCorrect` and `NoChildIsLeftBehind`. That no child is left
behind is not inductive: it speaks of the states in which all calls have returned. `IInv`
says who is responsible before: the thread that turned the outer flag still has the inner
one to turn (`OuterInv`); the thread that turned the inner one still has the set to take,
or has taken it and nobody is past the second test of an `add` (`InnerInv`, which needs
that this test and the insertion are one critical section, `MutexInv`); and every child
owed is in the set, in a thread's hands, or unsubscribed (`OwedInv`, `TodoInv`).

`EngineHost_proofs`: `HostTypeCorrect`, `MonitorEndsBeforeBus`, `OnlyOneDescriptor` and
`KernelAlwaysReleased`. `IInv` ties the monitor and its descriptor to the position of
`main()`: there is no thread before the loop and after the join (`MonitorInv`), no flag
and no number where the module is stopped (`StoppedInv`), and the inotify descriptors of
the process are exactly the one `inotifyFd` names, except in the moment between `close()`
and the assignment of -1 (`OwnerInv`).

`RxSharing_proofs`: `CountAlwaysExact`. The count of `ref_count` is right only at rest; what
is inductive is who owes it in between (`Counted`). An observer is counted from the first
step of its subscribe until its callback has run, and the debt lies with exactly one: the
thread that is still to add the callback, the composite that has it, or the thread that
unsubscribed that composite (`OnceInv`, `PresentInv`). Every step either leaves the debts
alone, passes one on, makes one or pays one.

`SharingTyped`, `NobodyIsLeftOut`, `NobodyWaitsForTheEnd` and `WantedIsConnected`, in the
same module. `SharingInv` adds to the debts

* where an observer is (`Here`, `MembersInv`): one that is there is being added by the
  thread that subscribes it, or is on the list, or on the list that the end of the source
  took away and still goes through;
* whose the mutex is (`LockInv`): the holder is between the lock and the unlock of a
  call, so that nobody else changes the list meanwhile;
* which connections run (`LinkInv`, `RunningInv`, `WantedInv`): none but the one that
  `ref_count` has now is subscribed to the source and not unsubscribed, and with one thread
  it is there, or on its way through `on_connect`, as long as somebody is counted who is
  past the connect; a connection that is subscribed has the callback that forgets it;
* whom a push still owes its value (`ExpectInv`): those who were there when it began have
  it, are ahead of it in its loop, or have left.

The last needs the one before: while a push owes its value nobody else pushes or ends the
subject, because the connection of a push that still has listeners is the only one that
runs. What `AliveIn` keeps of a list (`AliveInKeeps`) is proved by induction over its
length, from the least index at which it would fail (`LeastNatural`).

`RxScheduler_proofs`: `SchedulerTyped`, `SchedulerInOrder`, `SchedulerOneAtATime`,
`SchedulerNothingLost`, `SchedulerBeginsAliveAndDue`, `SchedulerAdvanced` and
`SchedulerClockForward`, for all five kinds of worker at once. The order in which runs
begin is not inductive, since it says nothing of those that wait. `SchedulerInv` adds

* that the queue is sorted, by time and then by request, and that all that has begun comes
  before all that waits, and what was taken (`Picked`) before what is still queued
  (`OrderInv`);
* where nothing waits (`RestInv`): on an immediate worker, on a thread without an owner of
  its queue, and wherever an action may run again in place. Without it, a run in place,
  which is the latest asked for, would overtake those in the queue;
* what is below the top of the stack (`StackInv`): it runs, and has dispatched its run loop
  or stopped the virtual time it runs in (`drove`). Only so can another item be inside it;
* that every request has begun, waits, was taken or is lost (`LostInv`), has the lifetime
  of its task (`LifeInv`), and that what was taken is due, unless it sleeps until it is
  (`DueInv`);
* that times stay in their range (`BoundInv`): each run that an action asks for may be due
  one moment after the one before it, so that the *i*th is due at `MaxNow + i` at the latest.

Steps that do the same to what waits share a lemma (`Enqueues`, `TakesHead`, `DropsHead`,
`Begins`, `RunsAgain`, `LosesQueue`, `Quiet`), and so do those that do the same to the stack
(`PushFrame`, `PopFrame`, `TopChanged`); each action is then one of either. `Pushed` says
what `schedulable_queue::push` does: behind all that is due no later, and nothing else moves.

`RxOperators_proofs`: `NobodyLeftWaitingAlways`, for the whole catalogue of operators
without a period, with any arguments, any number of sources and values, and an observer that
leaves when it likes. `NobodyLeftWaiting` only says that somebody is subscribed; that the
last one to go ends the output needs what the members of the operator have to do with the
sources that are left. `Waits` says this, one conjunct per family (the operators with one
source have that source):

* `merge`, `flat_map`: the count of open sources is that of the sources subscribed (`Counted`);
  `concat`: the collection, or the inner source whose turn it is, is on (`InTurn`);
  `switch_on_next`: `Latched`; `amb`: the first list is open, or the winner is on (`Racing`);
* `zip`, `combine_latest`, `with_latest_from`, `sequence_equal`: who has completed is
  remembered, and is not everybody; `take_until`: its own source is on and the trigger has not
  fired; `on_error_resume_next`, `switch_if_empty`: one of the two is on;
* `window`: the list of open windows is as long as size and distance make it (`Opened`), so
  that no window is taken from an empty list (`WindowMoves`; an identity of products and
  remainders, `WindowTurns`);
* `all`, `any`, `is_empty` and `element_at` have not made up their minds.

`Goes` is what a call owes: it ends the output, or `Waits` holds of the state and the sources
it leaves. There is one lemma per operator (`DirectlyGoes`, `DirectlyStarts` collect them);
`DeliveryEnds` says of the gate of `subscriber` that a terminal signal closes it and nothing
opens it again, whatever else is sent in the same call.

`NothingEarly`, for every operator of that catalogue that keeps time (`delay`, `debounce`,
`timeout`, `buffer_with_time`, `buffer_with_time_or_count`, `sample_with_time`, `interval`,
`timer`), with any period and arguments, any number of values, any moment at which the
observer leaves and any lateness of the worker. `NeverEarly` speaks of what was seen, which says nothing about
what will be; the inductive invariant `TimeKept` (`OnSchedule` with the operator's arguments)
ties the past to what waits on the worker:

* all that was seen was in time (`AllPunctual`), and stays so whatever is sent or seen later,
  because no stamp and no entry of the log lies in the future (`InPast`);
* the queue holds work of that operator only, in the order of its due times (`Tasks`). The
  queue is described without positions, by what is in it and what is ahead of what (`In`,
  `Ahead`), so that taking its head and inserting by time are one lemma each for all operators;
* as long as the output is observed, what waits is late enough (`Schedule`, one conjunct per
  operator). `Delaying`: a period after it was sent. `Debouncing`, `Timing`: the work of the last
  value, known by its index, is due a period after it, any other is stale; the value it will
  send is still the pending one. `Grouping`: the timer of the open chunk runs a period from the
  last full one. `Buffering`, `Sampling`, `Ticking`: as many periods have passed as signals were
  seen; opening, closing and emitting stand in the queue in the order of their targets.
  `Ringing`: after the period. Once the observer is gone the members may say anything.

`InTime` is the part of `Step` these operators take (`StepInTime`); each of them has one lemma
for what a source sends, one for its own work and one for its subscription. `SendKeepsTime`,
`RunKeepsTime`, `DisposeKeepsTime` and the steps that leave the queue alone make up
`NextKeepsTime`; `KeptIsEnough` gives `NeverEarly`. The attempt corrected the property:
what a completion flushes may come early, and an observer that leaves in the middle of such
a flush (`buffer_with_time` has several chunks to send) never sees the completion
(`Flushed`); the run has had such an observer since.

Only model-checked: the liveness properties (outside the prover's reach), and the other
properties of `RxOperators`. `OutputIsReference`, `DeliveredAsSent` and `EndReached` compare
what an operator computed with a fold, a selection or a recursion over the whole log of
signals, on both sides; there is no proof of them.

## 6. Not modelled, and the plan

Not modelled:

* `04_ipv6_worm_protection.sh`: firewall rules that no other modelled part reads. In a dry
  run its restore never ends: the loop at line 245 looks for a rule that it deletes only
  in earnest.
* `05_dpkg_apt_hardening.sh`: a store of its own. Each apply takes a snapshot of what is
  there, its own files included, so that restore after a second apply brings those back
  (line 102 takes the latest).
* 06, 08 and 15, which install packages and share no file with the others; 19, which
  patches binaries one by one, each with its own backup.
* `StreamProbe`: entropy and load in floating point. The bus takes either ruling.
* The policies, the utilities, the sysctl reconciliation and the maintenance tools: pure
  decisions or one-shot rewriting, without state between calls.
* The display of `main`, the engine without `--service` (it returns at once), `on_error`
  and `on_completed` of the bus's subject, which nobody calls; a torn weak pointer
  `current_completer`; the signal handler on another thread than `main`;
  `dropped_events` and the peak, which nothing updates; the audit of permissions; log
  files; older copies under `src/backup`.
* The second call of `Scheduler::start` and `Scheduler::stop`; the race of `start` with
  calls of `mark_as_wanted` on the callback it assigns; a second `deploy()`.
* The mode *Disposed* of a subject (`rx-subject.hpp:109-116,166-172`), into which it goes when
  its own lifetime is unsubscribed from outside: `publish()` keeps the subject to itself, and
  the bus never unsubscribes its own.
* In RxCpp: overloads, traits and the forwarding that select an operator, coordinations
  that move calls between threads, tracing, and the recording observers of the tests.

What is left without a proof is liveness, and what the operators compute, which would need
induction over recursive definitions.
