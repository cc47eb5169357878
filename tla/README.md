# A TLA+ model of nebase

nebase is a C library of portable building blocks for daemons: an event
dispatcher (`evdp`) with several kernel back ends, user timers, threads with a
registry, signals, semaphores, pid files, and a number of helpers. This project
models the parts that keep state and are driven by callbacks, signals or other
processes, and the containers and algorithms they rest on; model-checks them with
TLC on small instances; and proves, with TLAPS and for every instance, the safety
properties of the user timer, of the event queue under each of its five drivers, of
the thread registry, the semaphores, the pid file and the random ring, and that the
search and the next time of day are computed right.

Paths below are relative to the repository root; `core.c` and `core.h` are those
of `src/evdp/`, and `epoll/`, `aio_poll/`, `io_uring/`, `kevent/` and
`event_port/` are directories of `src/evdp/driver/`.

## 1. The system

| part | state it keeps | operations | properties that make it correct |
|---|---|---|---|
| user timer, `src/evdp/timer.c` | tree of timestamps (tnodes), a list of points per tnode, keeplist, two bounded caches | `neb_evdp_timer_create/destroy`, `new_point`, `del_point`, `point_reset`, `evdp_timer_fetch_neareast_ts`, `evdp_timer_run_until` | no freed node is used; no point is lost, moved or called early; the queue does not sleep past a point; order; every due point is called |
| event queue, `core.c`, `core.h` | `pending_qs`, `running_qs`, `stats`, the batch of events, `no_detach`, the foreach cursor and ids | attach, detach, `foreach_start/next`, `run`, `destroy` | counters match lists; no event for a source that was detached; a source stays attached while its callback runs; foreach calls each source at most once; destroy calls every `on_remove` |
| sources, `io_base.c`, `sys_timer.c` | handlers, the fd, the kind of source | `new_*`, `next_read/next_write`, `reset_hup`, `regulate`, `del` | interest asked for is armed in the kernel |
| epoll driver, `epoll/` | `ctl_op`, `added`, `ctl_event`, `its` per source; the epoll set and timerfds in the kernel | flush, wait, fetch, handlers and detach of the four kinds of source | the kernel never reports a source that is gone; epoll_ctl does not fail on a stale idea of what is registered; timers that are reported can be read |
| aio_poll and io_uring drivers | `submitted`, the mask and `its` per source; poll requests in flight in the kernel | the same | interest asked for has one request, none twice; no completion for a source that is gone |
| kevent driver | `added`, `to_add` per filter, `stats_updated`; the filters in the kqueue | the same | a filter asked for is in the kqueue or on its way; no filter of a source that is gone; the handler called is set |
| event_port driver | `associated` and the mask per source; the port's associations and timers | the same | an fd is associated again after each report; none of a source that is gone |
| threads, `src/thread.c` | tree of running `pthread_t`, `thread_ready_sem`, exit key | `register`, `set_ready`, `create`, `is_running`, `destroy` | the tree is exact; a creation that succeeds means a ready thread; destroy returns |
| semaphores, `src/sem_posix.c`, `src/sem_sysv.c` | a counter; a SysV set | signal, timed wait; post and wait between processes | no notification is lost or invented |
| signals and events, `src/signal.c`, `src/events.c` | `thread_events` per thread, `neb_sigchld_info` | handlers, block, unblock | a quit request is heeded |
| pid file, `src/pidfile.c` | the file, its record lock, the descriptor's offset | open, write, close, remove, `neb_pidlock` | one daemon; its pid is in the file; a blocked caller is told who blocks it |
| random pool and ring, `src/random.c` | slices of node lists | add, pick, confuse | a ring picks fairly; slices stay ordered; a pick finds a node |
| pure functions: `src/str/bm.c`, `src/sock/csum.c`, `src/time.c` | none | search, checksum, next day time | agreement with a reference definition |
| red-black tree, `compat/rbtree/rb.c` | nodes with father, position and colour; the minimum and maximum | init, insert, find, find_geq/leq, remove, iterate | it is an ordered set; the balance and order `rb_tree_check_node` looks for |
| hash table, `compat/hashtable/hash.c` | buckets with overflow entries, counts, the free list, the tuning | initialize, lookup, get_first/next, rehash, insert, delete, clear, free | it is a keyed set; a failed allocation changes nothing; a walk sees every entry |
| wrappers: `src/sock`, `src/file`, `src/net`, `src/pty.c`, `src/io.c`, `src/pipe.c`, `src/proc.c`, `src/plugin.c`, `src/syslog.c` | none of their own | system calls | none that a model would show |

### How the parts interact

`neb_evdp_queue_run` is the centre: each round it looks at `thread_events` (set
by signal handlers), has the driver arm the pending sources, asks the timer for
its nearest timestamp, waits in the driver, dispatches the batch of events to
the sources' handlers, and runs the timer. Handlers and timeouts call client
code, and client code may call back into every public operation: it may detach
and delete other sources whose events wait in the same batch, re-arm sources, add
and remove timer points, or start a foreach. A thread that runs a queue is
created and destroyed by the main thread, which uses the ready semaphore to
learn that it started and a signal to make it leave.

### What is hard

* Re-entrancy: state read before a callback and used after it (`ref_tnode`, the
  cursor of `run_until`, the source of the event being handled, the foreach
  cursor, the rest of the batch).
* Two views of one fact: the driver's `added` and `ctl_op` against the kernel's
  epoll set; `submitted` against the requests in flight; `stats` against the
  lists; the timerfd against the batch.
* Failures in the middle: an `epoll_ctl` or an allocation that fails after part
  of the work is done; a callback that breaks the loop within a batch.
* Concurrency: threads against the registry and the semaphore, signals against
  the loop, processes against the pid file, crashes between system calls.

`PROJECT.json` lists the hazards at their lines, with the properties that would
catch each going wrong.

## 2. The modules

| module | models | builds on |
|---|---|---|
| `TimerAbs` | abstract specification: what a user timer promises | |
| `EvdpTimer` | `timer.c`, and the loop as far as it drives the timer | `INSTANCE TimerAbs` |
| `EvdpTimerProofs` | theorems about `EvdpTimer` | `EvdpTimer`, `TLAPS` |
| `EvdpQueue` | `core.c`, `core.h`: what is common to all drivers | |
| `EvdpHandle` | `io_base.c`, `sys_timer.c`, and what attach, detach and the handlers of the drivers have in common | `EvdpQueue` |
| `EvdpEpoll` | the epoll driver, the kernel's epoll set, a client | `EvdpHandle` |
| `EvdpPoll` | the aio_poll and io_uring drivers, the requests in flight, a client | `EvdpHandle` |
| `EvdpKevent`, `EvdpPort` | the kevent and event_port drivers, the kqueue and the port, a client | `EvdpHandle` |
| `EvdpNative` | the queue on either of the two, and what they promise in common | `EvdpKevent`, `EvdpPort` |
| `EvdpHandleProofs` | lemmas about `EvdpQueue` and `EvdpHandle` under any driver | `EvdpHandle`, `TLAPS` |
| `EvdpEpollProofs`, `EvdpPollProofs`, `EvdpNativeProofs` | theorems about the drivers | the driver, `EvdpHandleProofs` |
| `NebThread` | `thread.c`, `sem_posix.c`, `signal.c`, the head of the loop | |
| `Pidfile` | `pidfile.c` and several processes | |
| `NebThreadProofs`, `PidfileProofs` | theorems about them | the module named, `TLAPS` |
| `OrderedSet`, `KeyedSet` | abstract specifications: an ordered set, a set with keys that may run out of memory | |
| `RbTree` | `compat/rbtree/rb.c` | `INSTANCE OrderedSet` |
| `HashTable` | `compat/hashtable/hash.c` | `INSTANCE KeyedSet` |
| `RandomRing` | `random.c`: pool and ring | |
| `SemSysv` | `sem_sysv.c` and the processes that use a set | |
| `StrBm`, `SockCsum`, `Daytime` | `str/bm.c`, `sock/csum.c`, `neb_daytime_abs_nearest` of `time.c` | |
| `LibraryProofs` | theorems about `SemSysv`, `RandomRing`, `StrBm`, `SockCsum` and `Daytime` | these, `TLAPS` |
| `MC*` | instances for TLC | the module named |

Definitions named `Bug...` are mutants: each changes one definition the way a
plausible mistake in the code would. No specification uses them; they are there
to confirm that each property notices its mistake.

### EvdpTimer

State: `nst`, `nts` are the tnodes and their timestamps, `pst`, `inl`, `ref` the
points, the list each is on and its `ref_tnode`; `cursor` and `running` are the
local `tn` and `ln->running` of `evdp_timer_run_until`; `pc`, `deadline`, `curTs`
are where the loop stands; `due` records what the client asked for. A list and a
cache are sets: no property depends on the order within one timestamp. `calloc`
fails exactly when every address is in use.

Each operation of the API is an action (`NewPoint`, `NewPointNoMem`, `DelPoint`,
`PointReset`, `TimerDestroy`, `UpdateCurTs`), enabled whenever client code can
run, hence also inside a timeout callback. `run_until` is split where it calls
out: `RunDue` and `RunNothing` enter it, `Fire` calls a point, `CbFree` and
`CbKeep` return from the callback, `RunNext` and `RunEnd` move on.

### EvdpQueue, EvdpHandle and the drivers

`EvdpQueue` has the steps of `core.c` as operators over the queue's variables,
and `EvdpHandle` those of the sources and handlers; `EvdpEpoll` and `EvdpPoll`
conjoin them with what the driver does in the same call, so that one action is
one call. `loc` says which list a source is on (one variable, as a source is on
at most one), `nPend` and `nRun` are the counters the code keeps beside the
lists, `ev` is the batch, `want` the read and write flags of `ctl_event`, `hand`
the handlers that are set, `ticks` a timerfd that has expired and was not read.
`Wait` takes any subset of what can be reported, up to `BatchSize`. A handler
stops at every callback: `CallHandler` calls it, and the callback ends in
`CbContinue`, `CbBreak` or `CbRemove` after any number of client actions.

For `EvdpEpoll` the kernel is `kreg` and `karm`: the fd is registered, and armed
for which flags. An abstimer's handler reads its configuration through the wrong
struct (`epoll/source_abstimer.c:124`). `AbstimerCall` does what the 64-bit build
does: it consumes the expiration and calls nothing. The other two drivers read
the right struct.

For `EvdpPoll` it is `reqs`, the masks of the requests in flight: the two drivers
have in common that the kernel holds requests with the address of a source and
that a request cancelled completes all the same (`aio_poll.h` notes that
`io_cancel` always returns EINPROGRESS). The variable `driver`, chosen once,
selects what differs: a read-only fd or a timer is one multishot request in
io_uring and is submitted again after every event in aio_poll; aio_poll submits in
batches and records `submitted`, which io_uring's flush does not. `late` is a
request that had completed when its timer was set again. foreach is explored with
epoll only: the queue does it without the driver, but for the detach.

### EvdpKevent and EvdpPort

Both take `EvdpQueue` and `EvdpHandle` as they are and differ in what the kernel
keeps. A kqueue has two filters per fd: `want` is the pair of `to_add` flags,
`kAdded` the pair of `added`, `knote` the filters in the kqueue, and `asked` a
history of what the client asked for and was not yet called with. Flush copies
changes into the batch array and hands full batches over (`BatchFlush`); the rest
goes into the kernel with the next wait, when `ChangesMove` moves sources from
pending to running and corrects the counters for a source with two changes, by
`counted`, its `stats_updated`. `eof`
marks entries with EV_EOF, where `do_hup` is called instead. A timer is a oneshot
or periodic filter, `timerOn` its `attached` flag.

An event port drops an association when it reports it. `assoc` is the driver's
`associated`, `pmask` what the port watches for. The handlers make a source
pending again when interest is left, and flush associates it. Timers are created
at attach and never flushed.

`EvdpNative` puts both into one specification; `driver`, chosen once, selects which.

### The library's units

`RbTree` keeps the tree as functions `kid`, `father`, `pos`, `red` and `minmax`, so
that each field `rb.c` writes has its counterpart: rotations are `Reparent`, removal
goes through `PruneNode`, `SwapPruneAndRebalance`, `PruneBlackRedBranch` and
`RemovalRebalance`. `CheckNode` is `rb_tree_check_node`, which only a
build with RBDEBUG asserts.

`HashTable` keeps the buckets in use, the first datum of each in its head and the
others in overflow entries. Every allocation may fail; `hash_rehash` then moves
entries back (`Undo`), and aborts if it cannot.

`RandomRing` has the two buckets with their slices and which list heads are stale.
`wild` records that a pointer was followed that leads nowhere; the behaviour ends
there. `passed` is a history for `RingFair`. A reorder loop moves one slice by
exchanges with its neighbours, which is `Move`; `RisesTo` and `FallsTo` are where the
loop stops. `in_use` is a set.

`SemSysv` has processes that wait, with a timeout, for a post or for the removal of
the set. `bsd` selects the build without `semtimedop`, which tries once per
millisecond. `due` counts posts against successful waits.

`StrBm` computes the two tables, `SuffixLoop` round by round as the code does, and moves
the window step by step; `SockCsum` adds words of small bytes with the carries of the
code, at each alignment and in both byte orders; its reference `Sum16` adds
the shorts of the message in memory order. `Daytime` is a clock
of `DayHours` hours with a summer time.

`MCLibrary` checks them in one run: `unit` is chosen once and only that unit moves.

### NebThread

`wpc` is the control state of each thread, from `pthread_create` over
registration to the loop of its queue; tests of `thread_events`, its clearing and
the wait are separate steps, and a handler may run between any two. `mpc` is the
main thread in `neb_thread_create` or `neb_thread_destroy`. A `pthread_t` is free
for a new thread after the join. `KillFails` is `pthread_kill` returning ESRCH.

### Pidfile

Every system call is a step of its process. `content` is the pid in the file, or
`empty`, or `part` of a pid after a write that was cut short, or `garbled` (a pid
behind bytes of 0); `offset` says that the descriptor was read or written before, because `set_pid` truncates the file but
does not move the offset. `Crash` may happen at any step; a pid is not used
again.

## 3. Liberties

The library's headers leave open what a client may do in many places. The
models let the client do everything, except for uses that are known to break the
code: those are members of the constant `Liberties`, and a run grants some of
them. This keeps the disciplined part checkable, and each liberty is a
documented hazard. Adding the liberty to a passing configuration, with only the
property named, reproduces the counterexample:

| liberty | what the client does | what then fails |
|---|---|---|
| timer `past` | asks for a timestamp already reached | granted in `EvdpTimer_safety`; only `RoundComplete` has to exclude it |
| timer `sameTs` | a callback resets its own point to the timestamp being run | `ScheduledAsAsked`: the request is dropped, `timer.c:244` |
| timer `cross` | a callback resets its own point, then deletes or resets another | `NoDanglingNode`: `ref_tnode` names a freed tnode, `timer.c:249` |
| epoll `cross` | asks for I/O on a source whose event is still in the batch | `StatsExact`: it is made pending twice, `epoll/source_os_fd.c:146` |
| epoll `rearm` | asks an armed source for a second direction | `InterestArmed`: EPOLL_CTL_ADD gets EEXIST, `epoll/source_os_fd.c:198` |
| epoll `rerun` | calls `neb_evdp_queue_run` again after a break or a failure | `InterestArmed`: the rest of the batch is dropped, `core.c:481`; granted in `EvdpEpoll_foreach` for the other properties |
| epoll `reattach` | attaches again, without closing, an fd whose source has fired | `FlushSucceeds` (oneshot fds): the fd stayed registered, `epoll/source_os_fd.c:95` |
| epoll `nomem` | the kernel refuses an `epoll_ctl` | `DestroyDrains` (two oneshot fds): sources armed before are not counted, `epoll/queue.c:157`; what still holds then is `FailuresHarmless`, granted in `EvdpEpoll_foreach` |
| epoll `removeIO` | `on_remove` during destroy asks a source for I/O | `DestroyDrains`: the source goes to a list already freed, `core.c:118` |
| epoll `regulate` | sets an abstimer anew while its expiration is in the batch | `TimerReadable`: read gets EAGAIN and the loop ends, `epoll/source_abstimer.c:121` |
| epoll `foreachInCb` | `foreach_next` in the event callback of a source it reaches | `CallbackSourceAttached`: `no_detach` is a flag and is cleared, `core.c:300` |
| poll `inFlight` | detaches a source that has a request in flight | `NoStrayCompletion`: run `EvdpPoll_detach` for io_uring; with aio_poll the cancelled request completes too |
| poll `cross` | as for epoll | `StatsExact` in both drivers; the "extra pending check" of `io_uring/source_os_fd.c:142` protects only `stats.running` |
| poll `rearm` | asks a source with a request in flight for more | `OneshotHonoured` (`BatchSize` 1): two requests complete for one direction |
| poll `regulate` | as for epoll, also between the completion and the wait | `TimerReadable`: the loop ends, `aio_poll/source_abstimer.c:127` |
| poll `partial` | `io_submit` takes some of the batch | `InterestRequested`: the rest counts as submitted, `aio_poll/queue.c:106` |
| kevent `cross` | asks for or unsets I/O whose event is still in the batch | `HandlerSet`: the handler called is NULL, `kevent/source_os_fd.c:153` |
| kevent `regulate` | sets an abstimer anew while its expiration is in the batch | `NoStrayFilter`: `attached` is cleared for a filter that is in the kqueue, `kevent/source_abstimer.c:104` |
| kevent `nomem` | `do_batch_flush` fails after the kernel has made some of the changes | granted in `EvdpNative_run`; `NoStrayFilter` has to except the sources concerned (`refused`): they stay pending, so that detach deletes none of their filters, `kevent/queue.c:153` |
| event_port `nomem` | `port_associate` fails after other sources were moved | granted in `EvdpNative_run`, where two sources show nothing; with three oneshot fds `DestroyDrains`: the moved sources are not counted (`event_port/queue.c:122`), detaching them takes `stats.running` to 0 and below, and destroy skips the running list |
| pid file `retry` | `neb_pidfile_write` again on a descriptor that was read, or that part of a pid was written to (a retry before that is no liberty) | `Published`: the pid is written behind bytes of 0, `pidfile.c:22` |
| pid file `unlink` | `neb_pidfile_remove` while another process has the file open | `OneDaemon`: two locks on two files, `pidfile.c:117` |

## 4. Runs

All with `tlc -workers 2 -config <cfg> <module>`; state counts are distinct
states.

| run | instance | checks |
|---|---|---|
| `EvdpTimer_safety` | 3 points, 4 tnodes, caches of 1, timestamps to 3, `past` | types, no dangling node, schedule, accounting, no oversleeping, destroy, caches and unique timestamps, order, and that the timer implements `TimerAbs` |
| `EvdpTimer_live` | 2 points, 3 tnodes, timestamps to 2 | a round leaves nothing due behind; every due point is called or withdrawn |
| `EvdpEpoll_loop` | oneshot fd with both directions, abstimer, interval timer, batches of 2, `regulate` (78,935 states) | counters, armed interest, no stray event, no failing flush, destroy, the batch after a detach, no callback that was not asked for, and that pending sources get armed |
| `EvdpEpoll_foreach` | oneshot and read-only fd, 2 foreachs, `rearm`, `nomem`, `reattach`, `rerun` (879,405) | callbacks of attached sources only, at most one call per source in a foreach; after an `epoll_ctl` that failed, and when the loop is run again: by how much the counters are wrong, that destroy misses no pending source, and no stray event |
| `EvdpPoll_run` | oneshot fd, read-only fd, absolute or interval timer, batches of 2, both drivers, `nomem` (510,193) | one request per source, none forgotten, counters, timers that are reported can be read, no callback that was not asked for |
| `EvdpNative_run` | oneshot fd with an fd or timer of each kind, batches of 2, both drivers, `nomem` (134,713) | filters and associations match what was asked for and belong to attached sources, also when a flush or wait failed half way, counters, timers go on, handlers called are set and were asked for, pending sources get armed |
| `NebThread_run` | 2 threads, 1 SIGCHLD, 2 creations that time out (35,496) | registry, ready semaphore, the main thread's calls return |
| `Pidfile_run` | 3 processes, 2 inodes (72,557, with symmetry) | one daemon, its pid is published, a blocked caller is told the running daemon |
| `Library_run` | trees of 9 items with 8 keys, and of 22 items; 5 hash entries, 2 tunings, at most 1 overflow entry allocated; ring of 2 nodes and 4 slices; 2 processes, 2 sets; patterns to 4 and texts to 7 letters; messages to 15 bytes; days of 12 (185,518) | the tree and the table implement their abstract sets, the tree's own check, counts and rehash under failing allocations, complete walks; fair ring, ordered slices; posts, removal and timeouts of semaphores, waits end; search, checksum and alarm against their definitions |

A property of a run is often a conjunction of named parts, each with its own
comment, and has a mutant per part. The liberties above name the parts.

| property | its parts |
|---|---|
| `MemorySound` (timer) | `NodesSound`, `DestroyFreesAll` |
| `DueServed` (timer) | `RoundComplete`, `DueFires` |
| `QueueSound` (epoll) | `TypeOK`, `StatsExact`, `DestroyDrains` |
| `KernelAgrees` (epoll) | `InterestArmed`, `FlushSucceeds` |
| `DetachedSilent` (epoll) | `NoEventForDetached`, `NoStrayEvent` |
| `FailuresHarmless` (epoll, `nomem` and `rerun` granted) | `MiscountBounded`, `PendingDrained`, `NoStrayEvent` |
| `RequestsSound` (aio_poll, io_uring) | `TypeOK`, `StatsExact`, `InterestRequested`, `TimerReadable` |
| `NativeSound` (kevent, event_port) | `NativeTypeOK`, `StatsExact` |
| `InterestWatched` | `FilterWatched`, `TimerGoesOn` (kevent), `InterestAssociated` (event_port) |
| `NothingStray` | `NoStrayFilter`, `NoStrayAssociation` |
| `HandlersAsked` | `HandlerSet`, `CalledWhenAsked` |
| `RegistrySound`, `ReadyExact` (threads) | `TypeOK`, `RegistryExact`; `ReadyCredit`, `ReadyWhenCreated` |
| `DaemonSound` (pid file) | `TypeOK`, `OneDaemon`, `Published` |
| `TableSound` (hash table) | `HashSound`, `RehashUndoes`, `WalkComplete` |
| `RandomSound` | `RingFair`, `SlicesOrdered` |
| `SemSound` | `PostsAccounted`, `RemovedIsGone`, `TimeoutTried` |
| `SearchRight` | `FirstFound`, `BmAdvances` |

Three runs end in a violation on purpose. Each states what a header, a comment
or a test says, and shows what the code does instead:

* `EvdpEpoll_abstimer` (`TimerWakes`): an absolute timer never calls its client
  (`epoll/source_abstimer.c:124`).
* `EvdpPoll_detach` (`NoStrayCompletion`): io_uring's flush never sets
  `submitted`, so detach does not cancel the request (`io_uring/source_ro_fd.c:57`)
  and its completion carries the address of a source that is gone, where
  `core.c:366` expects "source detached" to show as NULL.
* `Random_pick` (`PickInBounds`), with the constants of `random.c`: put fills slices
  0 to 7, pick starts at 2 to 9. If all from there on are empty no node is selected
  and the reorder loop reads `slices[10]` (`random.c:168`): always when it starts at 8
  or 9, however many nodes there are.

More disagreements, each reproduced by a small change of a configuration:

* `EvdpTimer_safety.cfg` with the liberty `cross` violates `NoDanglingNode`:
  `timer.c:249` relies on "The insert will happen after the callback", but the tnode
  that `ref_tnode` names is freed by the deletion of its only other point in the
  same callback.
* `EvdpEpoll_foreach.cfg` with `Typed = {a}` and `INVARIANT ForeachRemovesCalled`: foreach
  removes the source it skipped, not the one whose callback returned REMOVE
  (`core.c:306`; "sources without utype set will be skipped",
  `include/nebase/evdp/core.h:90`). In the runs all sources have a utype or none has.
* `EvdpNative_run.cfg`, with `NoStrayFilter` said of all sources instead of those not in
  `refused`: after a `do_batch_flush` that failed half way (`kevent/queue.c:153`) a source
  that is detached leaves a filter with its address in the kqueue.
* A `neb_pidfile_write` that was cut short returns -1 and keeps its lock
  (`pidfile.c:26`): others are told part of its pid, which may be another process.
* `NebThread_run.cfg` with `PROPERTY QuitHeeded` alone: a quit signal between the test
  of `thread_events` and its clearing, or the wait, is lost or slept over
  (`core.c:415`, `437`, `461`).
* `Random_pick.cfg` with `INVARIANT HeadsValid`: `neb_random_slice_reverse` copies
  the head of a tail queue (`random.c:100`); the links back to the old head stay, and
  the next insertion or removal writes there. In `Library_run` such a behaviour ends
  at that point.

### Bounds

* Timer: three points make all the relations of `run_until` happen: the point
  that runs, one on the same tnode, one on another; the fourth tnode lets an
  insertion need a node while three are in use. Caches of one are both full and
  empty. `MaxTime` bounds the clock and the requests; the order of timestamps is
  all the code looks at.
* Drivers: the handlers look at one source and at the batch, so two sources show
  every interaction of a pair; the kinds are combined as their code differs, and
  three sources with a batch of two leave one out of the batch. `MaxRequests`
  bounds the requests of a source; without `rearm` there is one (`TypeOK`). A batch
  has one completion per source, which is all there can be without `rearm` if
  several completions of a multishot request are taken as one.
  `MaxForeach` bounds the foreachs and is less than `IdMod`, so that `foreach_id` does not
  wrap around in any run: in the code that takes 2^32 of them. `MaxMiscount` bounds how
  many sources failed flushes leave miscounted, and with it how often a flush that has
  moved a source may fail; with one, every later flush, detach, foreach and destroy meets
  wrong counters, and `FailuresAreHarmless` has it for any number.
* kevent and event_port: a oneshot fd fills a batch of two with its two changes, and
  with a second source overflows into another batch. (Two changes at the last place
  of the array are left out, see section 6.)
* Tree: with eight keys, one of them there twice, all operations come in any order
  (`rbtree`). A removal climbs from level to level only where a path has three black
  nodes, which takes ten nodes at least. So a second unit, `rbdeep`, lets a tree grow
  in one direction to sixteen or twenty-two items, and then removes any of the first
  nine. That reaches every branch of `rb_tree_removal_rebalance` at the leaves and one level
  up, on both sides, two-level climbs that end at a red nephew or at the root, but not,
  one level up, a red brother followed by a double rotation for a near nephew (which
  occurs at the leaves). `BugNoClimb` drops the climb and is caught there. Searches and
  insertions between removals are tried in the small trees only.
* Hash table: of eleven buckets 11 and 22 share one, of seventeen 11 and 28 do, and 111
  equals 11. With the first tuning an insertion into a table that uses three of eleven
  buckets makes it grow to seventeen; with 11, 28 and 18 in it and no
  overflow entry to be had, that rehash is undone and the insertion fails.
* Random: `RingFair` is about a pair of nodes. Four slices, three of them random, keep
  the off-by-one between what put and pick choose from.
* Semaphores: one process waits while the other posts, destroys the set and
  creates another. A timeout of one tick is half a millisecond.
* Search: periodic patterns of four letters have good suffixes of each kind.
  Checksum: a byte has four values. All messages of up to six bytes of 0 and 3 cover
  alignments and rests; messages of three words let the carry of an addition go into the
  next one (`BugAddWord` forgets it there). One of the two IPv6 addresses has four
  words that differ. Day time:
  summer time is a quarter of a day ahead and lasts a little longer than a day; every
  time before, in and after it is tried.
* Threads: `thread_ready_sem` is shared, so two threads suffice for one to take
  the other's notification. `MaxTimeouts` bounds the semaphore.
* Pid file: three processes are a dead daemon, its successor, and a caller that
  the successor blocks. Two inodes are the file removed and the file created
  after it.

`CHECK_DEADLOCK FALSE` is set where the system may stop: a destroyed timer or
queue, and a pid file all of whose processes are gone.

### Fairness

* `EvdpTimer!LiveSpec`: the thread of the queue keeps running, callbacks return,
  a wait with a timeout ends, and time passes. Client actions and other events
  have none.
* `EvdpEpoll!LiveSpec`: the loop goes on while it can, which includes that
  callbacks return. Nothing makes the kernel report an event: `PendingFlushed`
  is about what happens before the wait.
* `EvdpNative!NativeSpec`: the same for the other two drivers.
* `MCLibrary!Spec`: a call of a semaphore operation that can return does, a timeout
  passes, and the polling goes on. Nothing makes another process post.
* `NebThread!LiveSpec`: a runnable thread runs and the main thread's timed waits
  end. Nothing promises an event, a signal, or a callback that ends the loop.

## 5. Proofs

Each `*Proofs` module is checked with `tlapm <module>.tla`. A theorem holds for all
values of the constants that satisfy the named assumptions of the module it is about
(`TimerConstants`, `QueueConstants`, `EpollConstants`, `ThreadConstants`, `PidfileConstants`,
`SemConstants`, `RandomConstants`, `DaytimeConstants`, `BmConstants`, `CsumConstants`): any
finite number of points, sources, threads and processes, any sizes of
caches and batches, and for the checksums any message whose length fits the 16 bits
of a length field. What a client must not do is a hypothesis of the theorem, and is
one of the liberties of section 3: each has a counterexample of TLC for the property,
or for a property the argument rests on. The liberties a theorem does not mention
are allowed.

| theorem | states | liberties excluded |
|---|---|---|
| `TypeCorrect`, `NoUseAfterFree`, `NoPointLost` (timer) | `TypeOK`, `NoDanglingNode`, `PointsAccounted` | `cross` |
| `MemoryCorrect` (timer) | `MemorySound` | `cross` |
| `ScheduleCorrect`, `NeverOversleeps`, `Refinement`, `RoundsComplete` (timer) | `ScheduledAsAsked`, `NoOversleep`, `ImplementsTimer`, `RoundComplete` | `cross`, `sameTs` |
| `OrderedRun` (timer) | `RunsInOrder` | none |
| `DetachedStaySilent` (epoll) | `DetachedSilent` | `cross` |
| `ForeachCallsOnce` (epoll) | `ForeachOnce` | none |
| `CallbackStaysAttached`, `OneshotAlwaysHonoured` (epoll) | `CallbackSourceAttached`, `OneshotHonoured` | `cross`, foreach |
| `FailuresAreHarmless` (epoll) | `FailuresHarmless` | `cross`, foreach, `removeIO` |
| `KernelAlwaysAgrees` (epoll) | `KernelAgrees` | `cross`, foreach, `rearm`, `rerun`, `reattach` |
| `QueueCorrect` (epoll) | `QueueSound` | `cross`, foreach, `reattach`, `nomem`, `removeIO` |
| `RequestsCorrect`, `NoneStray`, `OneshotAlwaysHonoured` (aio_poll, io_uring) | `RequestsSound`, `NoStrayCompletion`, `OneshotHonoured` | `cross`, `rearm`, `inFlight`, `regulate`, `partial` |
| `NativeBooks`, `NativeWatches`, `NativeNothingStray`, `NativeAsked` (kevent, event_port) | `NativeSound`, `InterestWatched`, `NothingStray`, `HandlersAsked` | `cross`, `regulate`; `rerun` is not in the models |
| `RegistryCorrect`, `ReadyCorrect`, `UntimedJoinEnds` (threads) | `RegistrySound`, `ReadyExact`, `JoinEnds` | no liberties in this module |
| `OneDaemonPerFile` (pid file) | no two daemons hold one inode | none |
| `DaemonAlone`, `DaemonPublished`, `PidfileSound` (pid file) | `OneDaemon`, `Published`, `DaemonSound` | `unlink`; `retry`; both |
| `BlockedCallerTold` (pid file) | `RunningReported` | `retry` |
| `SemCorrect` (semaphores) | `SemSound` | no liberties in this module |
| `RandomCorrect` (random ring) | `RandomSound` | no liberties in this module |
| `AlarmCorrect` (time of day) | `AlarmNearest` | no liberties in this module |
| `SearchCorrect` (search) | `SearchRight` | no liberties in this module |
| `ChecksumCorrect` (checksums) | `ChecksumRight` | no liberties in this module |

"foreach" stands for `OrderlyForeach`: no `foreachInCb`, all sources or none have a
utype (section 4 has the counterexample for a mixture), and `foreach_id` does not
come round, which in the code takes 2^32 foreachs.

### The arguments

Timer. The inductive invariant is
`IInv == TypeOK /\ UniqueTs /\ ControlInv /\ ListInv /\ NoDanglingNode`.
`NoDanglingNode` is not inductive alone: that freeing a tnode leaves no reference
needs to know that a point's `ref_tnode` is the list it is on, unless the point
is running (`ListInv`), which tnodes the loop refers to in each control state
(`ControlInv`), and that the tree has one tnode per timestamp (`UniqueTs`), since
an insertion reuses the tnode of its timestamp. There is one lemma per action
under `NextIInv`, and lemmas for what the allocation, insertion and deletion
helpers do to the tree. The schedule, the timeout and the caches are invariants on top of
`IInv`; the refinement maps `due` to the armed timestamps and `running` to the
callback in progress. `RoundsComplete` shows by the order of the run that no tnode
at or before `curTs` is left when the cursor has passed them.

Queue. `EvdpHandleProofs` has the steps every driver takes (`QueueStep`) and shows
what each keeps, whatever the driver does with its own state: the types and the
control flow (`QueueInv`), foreach (`EachInv`: the source of a callback is attached
and protected by `no_detach`, and `captured` is the source called), and the
counters. For those the lemmas state by how much a step changes each list and each
counter (`Balanced`); a detach in the middle of the two-phase destroy is the
exception, which `BooksInv` describes. After a flush that failed the counters are wrong;
`CountsInv` says that they are so by `Miscounted`, the sources moved and not counted, in
favour of the pending list. As that never is negative, a queue with a pending source has
a counter of pending sources that is not 0, and destroy goes through the list.

epoll. `ArmedInv` is the tie between the three views of a source: `added` means
registered and running, the kernel is armed only for what is `added`, and an event in
the batch is of such a source. From it and `EachInv` follows that the source of a callback
is running (`CurRuns`), without which the counters go wrong, since the macro at the
end of the handlers counts one off the running list whatever list the source is on.
`CtlInv` says when `ctl_op` is ADD, so that a flush meets neither EEXIST nor ENOENT.
`InterestInv` follows interest from `next_read` to the epoll set and back, `AskedInv`
what is reported from the epoll set to the callback.

aio_poll and io_uring. `PollInv == Types /\ (Live => BatchInv /\ InterestInv /\
TimerInv /\ AskedInv)`. `BatchInv` follows a request from flush to the end of the
handlers: a source with a request in flight or an event in the batch is running, and a
request that is not multishot is over once its completion is in the batch.
A source then has one request at most, so that `MaxRequests` cuts nothing off. All hold while the loop goes on
(`Live`), which is what the properties are about.

kevent and event_port. `NativeInv == Types /\ QueueKept /\ KeventInv /\ PortInv /\
OtherIdle`: each driver's part speaks of its own sources, and the state of the one not
chosen stays as it began. For kevent everything is said per filter (`KFilter`): `added`
is exactly "in the kqueue or in the batch", what was asked for is added or about to be,
and a handler that is asked for is set. A source is pending exactly when it has a change
to make (`KSource`), which is what makes the correction of the counters after a wait
right for a source with two changes; that correction relies on `stats_updated` being
clear when the changes are made (`FlagInv`). The loop ends on a change that fails, so
this is an invariant while `Live`. After that `StrayInv` is left, which also holds in
destroy: a filter in the kqueue is of an attached source, and `added` (a oneshot fd),
`attached` (a timer) or the list it is on (a read-only fd) say so, which is what the detach
functions look at. A source in `refused` is the exception. For event_port `PSource` ties `associated`, the port's mask and
the batch together, and holds through failures; `PWatched` is the interest, while the
loop goes on. `cross` breaks `KFilter` (a handler is cleared behind an event already
copied) and `regulate` the tie of `attached` to the filter.

Threads. The registry is a function of where each thread is (`TreeInv`).
`ReadyCredit` is a sum over all threads, and its preservation is counting
(`Cardinality` of the threads that have not set themselves ready).
`JoinEnds` is the safety half of `CallsReturn`.

Pid file. `LockInv` (who is past SetLk holds the lock of its descriptor's inode)
gives exclusion per inode; `PathInv` (all descriptors are of the inode at the path)
makes it exclusion per path, and needs that nobody removes a file others have open;
`OffsetInv` (a descriptor not yet used is at its start) makes what is written the
content. The invariant has the liberties as antecedents of its parts, so one
induction serves all theorems.

Semaphores. `IdInv` (ids are not used again) keeps a reported removal true;
`IdleInv` (the semaphore of `wait_removed` is 0) means such a wait can only end by
removal, a signal or its timeout; `TriedInv` with `PollsRoundsUp` (a timeout above zero is
at least one poll) gives `TimeoutTried`.

Random ring. `SlicesOrdered` needs that a reorder loop is a rearrangement (`Move`) of a
bucket in which only the slice that changed is out of order. `RingFair` needs that a node
is in one place only (`NodesApart`) and `PassedInv`, which says how often a node can
have been picked from where it and the one that waits are.

Time of day. The alarm is the time asked for on the local day of the call, or a day
later if that is not in the future; quotient and remainder by the length of a day do the
rest.

Search. `SuffixInv` is the invariant of the loop of `suffixes`: the entries so far are
right, and the stretch from `g + 1` to `f`, in which the next rounds look entries up,
repeats the end of the pattern. By induction over the rounds the table is right
(`SuffixTableRight`), so that a smaller shift than `GoodSuffix` would have shown in it
(`GoodSuffixRight`); `BadCharacterRight` is the same for the other table. The invariant
of the search is that nothing before `shift` is an occurrence.

Checksums. `Same(a, s)` is what the code keeps of a sum `s`: a number equal to it modulo
the greatest short, and 0 only for the sum 0 (without which the result would not be all
ones). Additions, foldings and an exchange of the two bytes respect it. The carry of an
addition goes into the next one, which it cannot make wrap around twice (`AddWordSame`:
sum and carry together stay below a word). `AddWordsSame` and `AddRestSame` follow the
shorts of the message by induction; at an odd address they are the shorts from the second
byte on, which `OddSame` shows to be the others with their bytes exchanged. The pseudo
headers are messages of 12 and 40 bytes, whose words are those the code adds.

Induction over the naturals is not one of the prover's theorems that can be
instantiated, but as a statement about a set (`Induction`) it follows from the
pigeonhole principle for finite sets, and from it that a set of numbers has a least and,
if bounded, a greatest element, which is what `Min`, `Max` and the loops need.

### Only model-checked

* Liveness (`DueFires`, `PendingFlushed`, `CallsReturn`, `WaitsEnd`): the prover has no
  rules for fairness.
* `RbTree` and `HashTable` with their refinements: the algorithms are recursive (tree
  walks and rebalancing, transfers between tables), and the prover loses its arithmetic in
  modules with recursive operators.

## 6. What is not modelled

Within the modelled parts: `event_call`; the values of timeouts, whose conversion
has edges of its own (`conf->msec * 1000000` for an interval timer,
`epoll/source_itimer.c:27`; a NULL or sub-millisecond timeout in the build without
`epoll_pwait2`, `epoll/queue.c:99`); memory that is only leaked; `neb_thread_deinit`;
allocation failure in `thread_rbt_add`, after which the destructor of the exit key
removes a node that is not there (`thread.c:289`); the mask of blocked signals;
`foreach_next` called by a foreach callback, and a return value of that callback that is
none of the enum's; an invalid `tv_nsec` in a semaphore's timeout, whose EINVAL
`neb_sem_proc_wait_removed` takes for the removal of the set (`sem_sysv.c:207`); an empty
pattern, for which the tables of the search are written before their start
(`str/bm.c:34`). The absolute timers of epoll and event_port read `do_wakeup` behind the
end of their configuration: the models take what lies there for 0. With anything else the
code would call it, and no model says what follows. An
interval timer that is attached again after a detach is set to zero
(`epoll/source_itimer.c:87`): the model has it (`its`), no doc says it may be. In the
kevent driver, a oneshot fd with two changes at the last place of the batch array
writes behind it (`kevent/queue.c:215`), and after a break the count of the old batch
is taken for changes (`kevent/queue.c:74`); both are left out. The hash table's
statistics, printing and `hash_do_for_each`, and the tree's depth statistics, change
nothing. The epoll model follows
the build with `epoll_pwait2`; `EvdpPoll` leaves out that the kernel may end a
multishot request (the handlers ignore IORING_CQE_F_MORE) and what io_uring
reports again after a break. The radix tree (`compat/net_radix`,
`src/net/radix.c`) works on the bits of keys and masks and the obstacks on addresses
within chunks; both are imported code that a model on this level would say little
about. Sockets, files, devices, terminals and logging are
wrappers around system calls without state of their own.

## 7. Plan

1. An abstract event queue (sources that are idle, armed or being called; an
   event only for what is armed) that the five drivers implement, and the refinement
   proved for epoll.
2. The conversion of timeouts as pure functions, and failing allocations in
   `thread.c`.
