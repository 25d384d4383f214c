# Verification of QtLikeSignal

QtLikeSignal is a C++17 library in the manner of QtCore: objects that live on threads, signals that
call slots directly or post them to the receiver's thread, event loops, timers, a thread pool,
properties and animations, settings, and windows on four window systems. This directory holds TLA+
models of it, the TLC runs that check them on small instances, and TLAPS proofs of what matters
most. `PROJECT.json` lists components, runs, mutants, the lines each definition models (`map`),
hazards and theorems. Paths below are relative to `src/src/QtLikeSignal/`, those of the GUI to
`src/src/QtLikeSignalGui/`.

## 1. Inventory

| Component | State it keeps | Operations | Module |
|---|---|---|---|
| Event dispatcher (`EventDispatcherDefault.cpp`) | queue ranked by priority, chain of running passes with their batches, timers, capacity, accepting flag, `deletedReceivers` of a pass | post (three overflow policies), post unconditionally, pass, nested pass, cancel by receiver, take by receiver, timers, close, final drain | `EventDispatcher`, `Subsequences` |
| Wait and wake of an idle loop (`EventDispatcherDefault.cpp`, `...Linux.cpp`, `...Win32.cpp`) | interrupt and pending flags, eventfd, event or posted message, registered descriptors with generations | wait, wake up, interrupt, register, unregister, calls to the sources | `LoopWait`; `ThreadLoop` for the life of a run |
| Thread start, end, join (`Thread.cpp`, `ThreadPosix.cpp`) | running, finishing, finished, joinable, native handle, priority, priority mutex | `start`, `wait`, `setPriority`, the two ends of `threadBody` | `ThreadLifecycle` |
| Thread loop, parking, posting (`Thread.cpp`, `ThreadData.cpp`, `Object.cpp`) | exiting flag, dispatcher, parked events, interrupt | `exec`, `exit`, `post`, `invokeAndWait`, hand-over, closing, letting go | `ThreadLoop`, `TaskDelivery` |
| Blocking calls (`BlockingCall.cpp`) | one-shot latch, guard | settle, wait | `ThreadLoop` |
| Signals and connections (`Signal.hpp`, `Connection.hpp`, `Object.cpp`) | writers' list with nulls, published snapshot, node flags and index, receivers' incoming lists, life flags | connect, register, disconnect, disconnectAll, emit, end of a receiver | `Signal` |
| Object affinity (`Object.cpp`) | affinity, life flag, pending `callLater` calls | `moveToThread`, sweep of posted events, hand-over of timers, `callLater` | `Affinity`; the queue's side in `EventDispatcher` |
| Timers (`Timer.cpp`, `EventDispatcherDefault.cpp`) | timers with their ids | start, kill, expiry, restart from a timeout | `EventDispatcher`, `Affinity`, `Animation` |
| Thread pool (`ThreadPool.cpp`, `TaskState.cpp`) | ranked queue, active count, stopping flag, task stages | submit, cancel, clear, wait for done, worker loop, destructor | `ThreadPool` |
| Event pool (`EventPool.cpp`) | a free list per thread, a central one, counts, hits and misses | allocate, release, refill, spill, reserve, end of a thread | `EventPool`, `QueuedCalls` |
| Loop health (`EventDispatcherDefault.cpp`, `LoopHealth.hpp`) | the dispatch in progress and the last, under a sequence lock; tracking switch | begin and end of a dispatch, nested ones, `health()` | `LoopHealth`, `QueuedCalls` |
| Properties (`Property.hpp`) | value, mode of notification | set, modify, `setNotifyMode`, notification | `Property` |
| Animations (`AbstractAnimation.cpp`, `PropertyAnimation.hpp`, `Timer.cpp`) | per animation state, direction, loop, time; the clock's list with holes, its timer and last tick | start, stop, pause, resume, tick, nested tick, `advanceAll`, destruction | `Animation` |
| Settings store (`SettingsFile.cpp`, `SettingsFileIoPosix.cpp`) | keys the file had, keys added, keys removed, stamp; on disk: the file, its lock file, a temporary file | set, remove, clear, sync; the lock's `tryLock` and `unlock`; atomic replacement | `SettingsFile` |
| Settings front, values and codec (`Settings.cpp`, `SettingsValue.cpp`, `SettingsIniCodec.cpp`) | stack of groups and arrays with its prefix, scheduled write; the text of the file | set, get, list, groups, arrays, deferred write, reading and rewriting of INI text, conversions | `IniText`, `Settings` |
| Signal watcher (`SignalWatcherPosix.cpp`, `...Win.cpp`) | handler and its descriptor, pipe or signalfd, previous dispositions | construction, handler, delivery, destruction | `SignalWatcher` |
| GUI (`WindowSystemInterface.cpp`, `Window.hpp`, `PlatformIntegration*.cpp`) | windows alive, focus, touch focus, modifiers, per back end its native windows, buttons, pending repaints, scales, connection | make, adopt, destroy windows; input, focus, size, scale, close and expose events; repaints; flush | `WindowSystem`, `KeyTranslation`, `Wayland`, `Drm`, `X11`, `Win32`, `Gui` |
| Parent-child tree (`Object.cpp`) | parent, children, order | `setParent`, stacking, `deleteChildren` | not modelled |
| Logging, call stacks, tests, demo, tools | | formatting, symbol lookup | not modelled |

**How they interact.** An object belongs to a thread through an `Affinity`; the thread owns a
`ThreadData`, which points to the dispatcher while a loop runs and parks events before it does. A
signal emits over a snapshot: a slot whose receiver lives here is called, any other becomes a
`MetaCall` event, made in a block of the event pool and posted through `ThreadData` to the
receiver's dispatcher. `Thread::post()`, `invokeAndWait()`, `callLater()` and `deleteLater()` take
the same road. A destroyed object clears its life flag, leaves the signals it is connected to and
strips its events from the queue and from every pass that runs. The pool's workers are `Thread`s
whose `run()` empties the pool's queue. The clock of a thread's animations ticks by a `Timer`; an
animation sets a `Property`, whose signal runs slots inside the tick. `Settings` writes by
`callLater()`. The signal watcher and the window systems' connections are event sources of the
loop's wait; a repaint asked for is a posted event or the window system's own.

**What is hard.** Nothing is serialised but by small mutexes, none of which is held while user code
runs. So (a) state read under one mutex is used under another, or after it; (b) user code runs in
the middle of a pass, of an emission, of a task, of a tick, of a window's message, and may call
anything, the same operation included, and destroy what called it; (c) threads are restarted, may
fail to come up, and end while others post to them; (d) memory is freed by hand and blocks wander
between threads, so that an owner too many or too few is a double free or a leak; (e) sleepers rely
on others to wake them, with a flag beside a descriptor that have to agree; (f) signal handlers run
between any two statements. Only settings survive the process: (g) several processes, and people,
replace one file, any call of the file system may fail, and a process may die between two of them.
The window systems are asynchronous peers: (h) what a back end keeps of buttons, modifiers, scales
and frames has to agree with them whatever was announced while it did not look. The 40 hazards of
`PROJECT.json` place these at their lines.

**What makes each part correct.** Dispatcher: rank and posting order kept, each event freed once,
nothing held for an object that died or left, passes that end, deferred deletes never lost. Wait: no
post slept through, no callback of a registration that was taken back. Thread: one native thread at
a time, each joined once and only when over, no call hanging. Loop: an accepted task runs once, in
order, or is discarded by a loop that ended; whoever waits is released; `exit()` ends the loop.
Signal: the guarantees of `Signal.hpp`'s class comment, and nothing kept of the dead. Affinity:
events and timers follow their object, whoever posts meanwhile, and a `callLater()` key is never
blocked. Pools: no task lost, no wake-up lost, no block lost or given out twice. Health: what a
watchdog reads was true at one moment. Animations: each charged the time it ran, finished once.
Settings: one writer at a time, no process's keys overwritten by another's old copy, never part of a
file, and what is read back is what was set. Signals of the system: told once, never lost. GUI: no
dangling window, no lost repaint, the input and the geometry of the window system.

## 2. Modules

Each module models one component and names the source's members beside its variables. One action is
one hold of a mutex, or one access to an atomic, with the thread-local work that follows; where the
code releases a mutex between two steps, there are two actions, and other threads step in between.
Where everything runs on one thread, what interleaves is user code: a slot's calls are actions, and
what waits for the slot to return is a frame on a stack. Every module is parameterised by CONSTANTS,
with named assumptions where proofs need them, and has no RECURSIVE operator. An operator that no
action uses (`StealFreely`, `CompactedInPlace`, ...) is a mutated form of its neighbour: the
`mutants` of `PROJECT.json` put it in the other's place and must find the property broken.

### Threads, events and signals

**`EventDispatcher`** is the queue of one thread. `frames` is the chain of passes, innermost last;
each has its batch, in which a slot is cleared when its event is claimed or its receiver dies, its
expiries, its budget of stolen events and its `deletedReceivers`. A post is two steps, as in
`Object::postEventTo()`: `BeginPost`, `BeginDeleteLater` or `BeginCarry` (a sweep or a hand-over of
parked events) finds the receiver here, and `PostEvent`, `PostEventUnconditionally`, `RefusePost` or
`DeleteAtOnce` locks the queue later. `posting[p]` is the event a caller has in flight; its `target`
records what its receiver has become meanwhile: `here`, `gone` (destroyed; the event then is a
`MetaCall`, whose life token is dead, for any other post obliges its caller to keep the receiver
alive), or `stray` (moved to another thread). Queuing inserts by rank after
admission (`DropNewest`, `DropOldest`, `Coalesce`; a deferred delete is always admitted);
`BeginPass` swaps the queue out; `NextEvent` claims a batch slot or, if something outranks it,
steals from the queue; destroying, moving, killing timers and nested passes are possible whenever
user code runs: between passes and during a dispatch. `BeginDrain` to `DrainAgain` are
`processDeferredDeletes()`. Time is abstracted: any registered timer may be due. `Subsequences` has
the sequence helper it is built on, written as a recursive function so that proofs can use it.

**`ThreadLifecycle`** is `start()`, `wait()`, `setPriority()` and both ends of `threadBody()` on
POSIX. `call[c]` is where each caller is in its call, `native[n]` where each run's native thread is,
`handle` the run `mThreadId` names. Creation may fail for the priority asked for, and then fall back
or fail for good. `osPriority[n]` is what the system was last told to run it at: `Apply` is
`applyPriority()`, which returns nothing, so the priority is taken or goes `Unheeded`, and so is the
branch of `start()` that cannot find policy or range. `StartsAlone` and `WaitsApart` are the
callers' obligations (section 4).

**`ThreadLoop`** follows a task from `post()` or `invokeAndWait()` through `ThreadData` to the loop
of a thread that may be starting, running, ending or starting again. The three steps of a caller
(read the running flag; fetch the dispatcher or park; post to what was fetched) interleave with
those of the body: publish the dispatcher, hand over what was parked, check `mExiting`, pass, sleep,
dispatch, end, close the queue, let go. A dispatcher lives while somebody refers to it, and frees
what is queued with the last reference. `waited` is auxiliary: which tasks were parked.
**`TaskDelivery`** is the abstract promise: a task is refused, or accepted and then runs once or is
discarded by a loop that ended. `ThreadLoop` implements it under the mapping `Fate`.

**`LoopWait`** is how an idle loop waits and how it is woken, in the four ways there are: the
condition variable, `poll()` over an eventfd and the registered descriptors, an auto-reset event, or
a posted message when there is no event. Only `mMutex` makes steps one: raising the pending flag,
writing the descriptor, emptying it and lowering the flag are steps of their own that two threads
interleave. A registration has a generation, and a descriptor may be closed, opened again and
registered anew between a poll and the calls it leads to. A foreign message loop may run instead of
ours. Queued events are only what has to be noticed.

**`SignalWatcher`** EXTENDS it: a handler that writes into a pipe, a signalfd, or a console handler
on a thread of its own. A signal arrives between any two statements of the watcher, so its
constructor and `stopWatching()` are as many steps as they have process-wide effects. Dispositions,
mask and console are external.

**`Signal`** is one signal, its receivers and the threads that use them. Each thread has a stack of
operations in progress, because a slot may call any of them: the guard `MayCall` lets a thread call
between events and from inside a slot. `Connect`, `Register` and `List` are one `connect()`;
`Disconnect`, `RemoveConnection`, `Prune` and `Unlist` one `disconnect()`; `DisconnectAll` then
prunes receiver by receiver; `Destroy`, `TakeIncoming`, `Sever` (with `RemoveConnection`) and
`StripAndFree` are `~Object()`; `Emit`, `CallNext`, `Post`, `EndSlot` an emission; `Deliver` a
posted call. A receiver is destroyed on its own thread and nobody connects to it at that time, as
the library asks of its users.

**`Affinity`** is `moveToThread()` between threads that may not have started, with what happens
meanwhile. `home[o]` is the atomic pointer. `op[t]` is where a thread is in the one call it is
making: `Resolve`, `Fetch` and `Land` are any post (the affinity is read; that thread's dispatcher
is fetched, or the event parked, or refused; it is queued with what was fetched); `BeginMove`,
`Swap`, `Sweep`, `Repost` or `Drop`, and `ForgetTimers` are a move, whose timers then travel by a
post of their own to `DeliverTimers`; `CallLater`, `Arm`, `Unlist` and `DeliverLater`, `Disarm` are
the two halves of `callLater()`, each under its two mutexes. A thread's queue and the batches of its
passes are one sequence, without ranks and without a limit. `stray` marks what a poster that had
read the old affinity queued after the swap: the code leaves it to be run there. `Careful` has the
application keep two rules the code needs and does not check, `Allowed` (no move while the last one
goes on, no timers to a thread that was not started, no move to no thread while timers are on their
way) and `MayKill` (no timer is killed while on its way, and none of another object).

**`ThreadPool`** is the pool with its workers, clients, tasks that submit tasks, handles that
cancel, `clear()`, `waitForDone()` and the destructor. Both condition variables are explicit:
`asleep` workers and `waiting` clients move only when somebody notifies them. A worker's thread may
never come up.

**`EventPool`** is the blocks events are made in: each thread's free list, the central one, and what
`allocate()` does when both are empty (count a miss, reserve for itself, or take one from the heap).
A step is one hold of the central mutex, or what a thread does to its own list between two. Free
lists are sets, for blocks are interchangeable; their lengths, which the code counts beside them,
are kept apart, so that the two can differ. **`LoopHealth`** is the sequence lock: each relaxed
store between two raises of `mHealthSeq`, and each relaxed load between its two readings, is a step,
in any order; `published` keeps the records that were complete, one of which a reading has to
return. **`QueuedCalls`** EXTENDS both and drives them: threads allocate and post, a loop
dispatches, in nested passes too, and releases, and a watchdog reads what it does.

### Properties and animations

**`Property`** is one value with a subscriber whose slot may do whatever the program may do, in its
two modes of telling it: at once, or coalesced by `callLater()`. **`Animation`** EXTENDS it with the
clock and its animations: `Advance` and what it calls, the frames of ticks and of slots on a stack,
`list` with its holes and their compaction, the timer and the idle time it must not charge. A time
is in halves of a millisecond, so that truncation to milliseconds is there to go wrong; an easing
curve is 0 at 0 and 1 at 1 and linear, or overshooting, between.

### Settings

**`SettingsFile`** is any number of processes with a store each, and the disk they share. `mem[p]`
holds the three maps and the stamp of `SettingsFile.hpp`; `at[p]` is where `sync()` is, one call of
the file system per action, each free to fail: a `stat()` that fails (`Stat`) is taken for that of a
file that does not exist. `OpenLock`, `Flock`, `LockRefused`, `KeepLock` and `DropLock` are one
`tryLock()`; `UnlinkLock` and `CloseLock` one `unlock()`; `Create`, `Fill` and `Rename` one
`writeAtomically()`. Inodes are recycled once no name and no descriptor has them. `Crash` ends a
process anywhere and starts it again with an empty store: the kernel closes its descriptors, which
frees its lock, and lock file and temporary file stay. The mutex of a store is held for all of a
call, so the threads of one process need no model of their own. A stamp stands for size and time
together; that no two contents share one is assumed, as the code does. What names lead to is
explicit (`link`), because `rename()` replaces a symbolic link.

**`IniText`** is pure: `SettingsValue` with its conversions, and the codec that writes keys and
values as INI text and reads such text, its own or a person's. A text is a sequence of code points.
Escaping, quoting, lists, `@`-types, section names, percent-encoded keys, comments and malformed
lines are there rule by rule, because reading back what was written is the property. **`Settings`**
EXTENDS it with the object a program uses: groups and arrays whose prefix is cut and rewritten by
lengths, the changes kept, the write scheduled for the next pass, files edited by a person, writes
that fail, deferred writes `callLater()` refuses. Here `sync()` is one step; `SettingsFile` has its
steps and the other processes.

### GUI

**`WindowSystem`** is what every back end shares: the windows, the focus kept for the process, the
application that quits with its last window, and the reports a back end makes, each an operator from
a GUI state to the next. `gui.stack` holds the emissions going on, each with what its handler still
has to do when the slots return, since a slot may close the window, ask for a repaint or switch the
pacing. A repaint is a posted task (`RepaintPosted`), which `CoreApplication::post()` may refuse.
**`KeyTranslation`** is the three tables of keys, one key of each kind and both Shift keys.
**`Wayland`**, **`Drm`**, **`X11`** and **`Win32`** are the back ends, each with its peer as
environment: the compositor with its outputs, its seat and its frame callbacks; libinput; the server
with its event queue and its grabs; Windows with its capture, its messages sent from inside calls
and its invalid regions. **`Gui`** instantiates the four side by side, a behaviour belonging to one.

The `MC*` modules give constants values that a configuration cannot write. They define no behaviour.

## 3. Runs

All are passing runs, checked with two workers; each takes at most three and a half minutes.

| Run | Instance | States | Properties |
|---|---|---|---|
| `dispatcher` | 2 receivers, one of which moves, dies and returns, and one that stays and has no timers (`Bystanders`); 1 poster, ranks -1 and 0, capacities 0 (unbounded) and 2, 3 events, passes nested 2 deep | 982,160 | `OneOwner`, `QueueIsSound`, `PassesAreSound`, `EqualPriorityKeepsOrder`, `DeferredDeletesAreKept` |
| `thread_lifecycle` | 3 callers, 2 runs, 2 priorities and inheriting | 99,905 | `HandleIsRight`, `WaitsReturnReaped` |
| `thread_loop` | 2 callers with 2 calls each (post or invoke; invoke or exit), 2 runs that may fail to start | 215,871 | `InOnePlace`, `RunsInPostingOrder`, `ImplementsTaskDelivery`, `NothingHangs` |
| `loop_wait` | 4 ways to wait, 2 other threads, 2 descriptors, 2 posts with 2 requests or 2 registrations; 2 watchers and 3 signals | 130,885 | `WakeIsNotLost`, `RequestsAreKept`, `CallsWhatWasPolled`, `LoopIsReached` |
| `signal` | 2 threads with a receiver each, 3 connections, calls nested 2 deep, 1 emission, symmetric threads | 1,341,279 | `ListsAgree`, `EmissionInOrder`, `NoSlotOfTheDead` |
| `affinity` | 2 threads, either may be unstarted, 1 object, 1 timer id, 2 posts, 2 `callLater()`, 2 moves, 2 sweeps | 246,746 | `WorkIsKept`, `TimersAreWhereTheyBelong` |
| `thread_pool` | 2 workers that may not come up, 2 clients, 3 tasks of 2 priorities | 298,382 | `NothingIsLost`, `NothingHangs` |
| `queued_calls` | a loop's thread and a poster, 4 blocks of the pool and 1 of the heap, batches of 1, a default reserve of 2, 3 calls (2 when watched), dispatches 2 deep, 1 reading, symmetric blocks | 628,293 | `HealthIsTold`, `CallsHaveTheirBlocks` |
| `animation` | 2 addresses, 1 property, 3 set-ups, 3 calls, slots 2 deep, 1.5 ms in halves, symmetric addresses | 1,052,692 | `ClockHoldsTheRunning`, `ChargedTheTimeItRan`, `FinishesOnceARun`, `SubscriberHearsTheValue` |
| `settings_file` | 2 processes, 1 file, a group and a key in it, 2 changes, 3 calls of `sync()`, 1 crash, every system call free to fail | 353,974 | `OneWriterWholeFiles`, `MergeKeepsOthers`, `StampTellsTheTruth`, `SyncReturns` |
| `settings_text` | values: all texts up to 2 of 15 characters and some of 4, lists up to 2, numbers at the edges of their widths, 11 awkward keys; lines: files of 3 of 15 hand-written lines, 1 edit, 1 call; groups: 4 calls | 241,003 | `NamesAreRight`, `FileTellsTheStore`, `UnsavedIsScheduled`, `WritesKeepTheRest` |
| `gui` | each of the 4 back ends, 2 windows, 2 buttons, 3 keys, two of them of one modifier, 2 outputs, emissions nested 2 deep, 2 posted repaints, 2 queued X events; one family of events a behaviour | 1,188,360 | `WindowsAreTracked`, `RequestsGetThrough`, `InputIsTheUsers`, `GeometryIsTold` |

Each module's first conjunct of its first invariant is its `TypeOK` (`AffinityTypeOK` in
`Affinity`). `HandleIsRight` joins `OneUnreapedThread`, `JoinsOnlyFinished` and
`PriorityIsTheLastAsked`; the comments of the others name their parts.

**Why the bounds are enough for the questions.** *Dispatcher*: an order between two events and a
third that preempts, evicts or is coalesced needs three; a cancellation that must reach every frame
needs two. One object that comes and goes has its slots cleared between those of one that stays. Two
objects that both die, without moves (568,570 states), and two posters of one receiver, without
nesting (1,124,632), were run once and showed nothing new; the proofs have no such bounds.
*Lifecycle*: a restart needs two runs; the races between joiners a starter and two waiters. *Loop*:
a reference to an old dispatcher needs two runs, order two tasks of one caller; the second caller
adds `exit()` and a blocked call at once. *Wait*: a wake-up consumed by the wrong round needs two
posts or a post and a request; a stale registration a descriptor that is closed and opened again,
and a second one beside it; the code's limit of 15 sources is 2. A second watcher is there for the
dispositions the first one put back, a third signal for one that comes in between. *Signal*: a
compaction that moves a live slot needs three entries, two of them dead; a slot that calls back into
the signal needs depth two; a second emission adds nothing to these properties but repetition, since
an emission reads the list and changes only the snapshot. *Affinity*: the mover, and another thread
that is in the middle of a post, or is the destination; there and back, or to no thread and adopted
again, is two moves; a second object or a third move were tried once and showed nothing new. A sweep
finds something twice at most, since each thread is in one post at a time, so two sweeps stand for
the code's eight. *Pool*: a task that is submitted, one that submits it and one that is cancelled
are three, a wake-up given to the wrong sleeper needs two workers; the proof covers the rest.
*Calls*: four blocks are two of each thread's own, or a batch on each side of the central list; with
batches of one a refill and a spill happen at every second call, and the proof has any batch size.
*Animation*: one that runs and one that is started, or removed, beside it; three calls are one from
outside the tick and two from its slots; three half milliseconds make a fraction that must be
carried over and a step that ends two loops. *Settings*: a lock on a deleted file matters once a
third `sync()` makes a new one; two changes are one of each process, or two that a store merges;
more processes are covered by the proofs. *Settings text*: an escape rule looks one character ahead
or at an end, so two characters show each pair; the longer texts put the digits and quotes between
them. *GUI*: one window that is replaced by another at once; two events in flight, the second of
which belongs to a window the first one's slot has closed; both keys of a modifier, since one goes
up under the other. Every bound is a conjunct of a guard and named in CONSTANTS; deadlock is not
checked because all these programs may come to rest.

**Fairness.** Safety runs use `Spec` (`AffinitySpec` for `affinity`) without it.
`ThreadLifecycle!FairSpec`: a thread in the middle of `start()` or `wait()`, and a native thread in
`threadBody()`, go on when they can; every `run()` returns; no timeout is obliged to strike.
`ThreadLoop!FairSpec`: the body and calls in progress go on; nobody has to call anything.
`ThreadPool!FairSpec`: workers, announced submissions and calls in progress go on, and every task's
`run()` returns, which the pool itself asks ("Nothing may escape run()"). `SignalWatcher!Fairness`:
who is in the middle of a wake-up or in a handler goes on, and the watcher's constructor and
destructor; the loop goes on, and a wait that has something to return for returns; nobody has to
post, and nothing has to interrupt a wait by chance. `SettingsFile!FairSpec`: a process in `sync()`
goes on; it need not crash, and who waits for the lock does not count on the time-out of five
seconds, so that `SyncReturns` says the lock itself comes free. One step of it is strongly fair:
examining the lock file (`KeepLock`) does not fail for ever, for `tryLock()` looks at no clock when
it does. It is weak fairness of one thread's next step everywhere else: what an operating system
that schedules every runnable thread and a mutex that is not withheld for ever provide. Nowhere is
an application's call, a cancellation or a time-out assumed fair.

**What the properties leave out**, because the code does not promise it, or because it is known not
to hold and told in section 4:

* `RunsInPostingOrder` does not compare a parked task with one that was not parked
  (`setDispatcher()` posts what was parked after releasing its mutex, so a direct post may pass it).
  `NothingHangs` of `ThreadLoop` excepts a task stranded on a thread that never comes up or has
  ended; that of `ThreadPool` needs one worker whose thread came up.
* `PassesAreSound` excepts strays. A post in flight while its receiver moves is queued on the old
  thread after the sweep, and runs there, or after the object has died elsewhere, although
  `postEvent()` calls posting to an object that may be destroyed meanwhile safe
  (`Object.hpp:463-465`); so may an event that a sweep carried here behind a deferred delete of the
  same object. A caller of `postEvent()` or `deleteLater()` keeps the receiver alive for the call, as
  they ask. A `MetaCall` for an object already destroyed does enter the queue, and
  finds its life token dead.
* `DeferredDeletesAreKept` excepts an address used again within a pass, and a deferred delete
  carried to a queue that has closed (`CarriedInVain`): it is freed and its object leaks.
* `PriorityIsTheLastAsked` allows the system not to heed a request, as `Thread.cpp:497` does.
* `WorkIsKept` leaves strays where they are, and excepts a key whose event a move to no thread
  deleted. `HandleIsRight` is for callers that keep `start()` and `wait()` of one thread apart.
  `affinity` has `Careful` TRUE.
* `LoopIsReached` excepts what a full native message queue refused (`refused`).
* `CallsHaveTheirBlocks` is for a thread that was started: `Adopted` is FALSE. `HealthIsTold`
  excepts the outer dispatch when tracking is switched off in the middle of its first steps
  (`blinded`).
* `ChargedTheTimeItRan` excepts animations `favoured` by other calls, `FinishesOnceARun` those
  `meddled` with as they show their end value, `SubscriberHearsTheValue` a mode switched with a call
  pending (`switched`). A slot does not destroy the animation whose end value it is told of.
* `MergeKeepsOthers` excepts a store that takes the file for missing because `stat()` failed
  (`TakenForMissing`): the code does lose keys then.
* `UnsavedIsScheduled` excepts what a failed write leaves, and what `callLater()` refused, on a
  thread without an event loop or with a full queue; the next `sync()` writes it.
* `InputIsTheUsers` excepts a modifier `lost` when one of its two keys comes up with the other down,
  until either key changes again or the compositor tells it anew. Of X11 and Windows it says only
  that a button a window was told of as down will be told of as up.
* `RequestsGetThrough` and `UnsavedIsScheduled` assume that a task once posted stays posted: on a
  loop whose queue an application has bounded, with `DropOldest` in use, it may be evicted, and
  `mUpdatePending` or `mPendingChanges` stays set. No module has both.
* In `gui`, `Repaces` and `SlotsCloseOnEnter` are FALSE, `Handles` is `{TRUE}`; what was held down
  when nobody was told of its release any more (`cut`) stays in a back end's state.

## 4. Where code and comments disagree

**Demonstrations.** These configurations are kept beside the runs. Each checks one property that a
comment of the code states, or a restriction of a run lifted, and TLC finds it violated: `tlc
-config <configuration> <module>`.

| Configuration, module | What it shows |
|---|---|
| `AddressReuse.cfg`, `MCEventDispatcher` | `DeferredDeletePending` (`EventDispatcherDefault.cpp:474`): a pass remembers the addresses of the objects it deleted; an object created at such an address by a later handler of the same pass, and told `deleteLater()`, has its deferred delete freed unrun, and can never ask again. |
| `BlockedCall.cfg`, `MCThreadLoop` | `BlockedCallReturns` (`Object.cpp:1663`): the running flag is read before the dispatcher is fetched; if the thread ends in between, the event is parked on a finished thread and `invokeAndWait()` never returns. |
| `TimersLost.cfg`, `Affinity` | `RunningTimersAreKept` (`Object.cpp:545`): an object with timers is moved to a thread that was not started. Its events are parked, but the event that would register its timers goes the way of a new post, and is refused; the timers are gone and their ids held until the object ends. |
| `TwoNames.cfg`, `MCSettingsFile` | `NamesReadAlike` (`SettingsFileIoPosix.cpp:233`): a store that names its file by a symbolic link replaces the link with a file of its own at its first write; the comment on `open()` says that two names, "for example through a symbolic link", do not lose each other's changes. |
| `NextSignal.cfg`, `SignalWatcher` | `NextSignalKills` (`SignalWatcher.hpp`: on the first delivery "the watched signals go back to their default disposition"): `SA_RESETHAND` resets the one that arrived. After a `SIGINT` the next `SIGTERM` is caught and ignored. |
| `TouchedAfterFinish.cfg`, `MCAnimation` | `NothingTouchesTheGone` (`AbstractAnimation.cpp:492`): a slot on `finished()` may destroy its animation, says the comment at line 532; the tick that called it reads `mState` afterwards. |

Five more need one edit of a run's configuration:

* `ThreadLifecycle.cfg` with `WaitsApart = FALSE`, `SPECIFICATION Spec` and `INVARIANT
  JoinsOnlyFinished` (`ThreadPosix.cpp:351`): a `wait()` released by the end of a run may find that
  `start()` has reaped it and launched the next; it then joins a running thread while it holds the
  mutex that thread needs first. Both hang. Assuming `WaitsApart`, all is well.
* `QueuedCalls.cfg` with `Adopted = TRUE`: `CallsHaveTheirBlocks` fails in seven states. The queue
  of an adopted thread is destroyed after its block cache, so what it still holds is released to a
  cache that is gone, and lost; `EventPool.cpp` says (about line 125) that ending a thread "does not
  lose blocks".
* `Gui.cfg` with `Repaces = TRUE` and `INVARIANT UpdateIsOwed`
  (`PlatformIntegrationWayland.cpp:2393`): `mFrameCallbackPending` outlives the window it was asked
  for, so the first paced request of the next window is swallowed, and nothing repaints it.
* `Settings.cfg` with `INVARIANT DestructorWrites` only (`Settings.cpp:203`): `~Settings()` "writes
  any change that is not yet written", but not after a write that failed, which has cleared
  `mPendingChanges`.
* `SettingsFile.cfg` with `PROPERTY UnexaminedIsLeftAlone` only (`SettingsFileIoPosix.cpp:135`): "a
  file that exists but cannot be read is an AccessError, and nothing is written, because a write
  would lose the keys in it" (`SettingsFile.cpp:332`), but a file that cannot be examined is taken
  for one that does not exist: the store forgets its keys and replaces the file by its own
  additions.

**Seen while modelling**, without a property of its own.

*Posting*: `postEventTo()` sets a flag in its receiver (`Object.cpp:1670`), although the comment
before it says the function does not dereference it; `Signal` has the consequence, a call posted to
a receiver that is being destroyed.

*Threads*: `quit()` is documented to drain queued tasks before the loop exits (`Thread.cpp:294`) and
does not (`Thread.cpp:306`). *Moves*: a stray runs on the thread its object has left, though several
sweeps were meant to prevent that, because the first empty one ends them (`Object.cpp:1406`); a
sweep from inside a handler takes the queue before the older events of the batches, and so reverses
posting order (`EventDispatcherDefault.cpp:1582`); `killTimer()` while timers are on their way does
not stop them, and releases an id that then runs on (`Object.cpp:1186`); `killTimer()` stops another
object's timer, though "an id this object does not own is ignored" (`Object.cpp:1223`).
*`callLater()`*: a callable stored just after its node was emptied is never called
(`Object.cpp:1291`); a move to no thread deletes the event and leaves the registry's entry, which
blocks the key for as long as the object lives (`Object.cpp:1418`).

*Waiting*: a refused `PostMessage` is a wake-up lost; on the message back end a `wakeUp()` before a
wait may be pumped away before it. *Signals of the system*: after a watcher is gone the handler of a
signal that did not arrive stays installed without a descriptor, and the next watcher saves it as
the "previous" one; a handler running on another thread may hold the descriptor while
`stopWatching()` closes it. *Event pool*: `blocksAvailable` is said to count every thread's cache
(`EventPool.hpp:107`) and counts the caller's; a miss is counted that the pool then served after
reserving more; two threads that miss at once both reserve.

*Animations*: a slot that stops, restarts or pauses an animation while its end value is shown is
overruled, for `finishOrLoop()` goes on, and `finished` is emitted although "not emitted by stop()";
if it ticks the clock, twice; if it destroys the animation, the code uses it afterwards, as it does
(`mState`, line 492) when a slot destroys one without a duration that still has loops to go. An
animation that a slot starts again during a tick gets that whole tick's step. `tickExternally(true)`
does not stop a timer that runs, `tickExternally(false)` does not start it again. `setNotifyMode()`
with a call pending delivers an old value late.

*Settings*: after a read that failed, a store has forgotten the keys it knew, so that `remove()` has
nothing to record (`SettingsFile.cpp:368`); `clear()` removes the keys the store knows of, so the
next `sync()` writes what another process has added since; the retry after a lock on a deleted file
does not look at the deadline (`SettingsFileIoPosix.cpp:437`), nor does the one after an `fstat()`
or `stat()` that failed; a store whose `stat()` fails after its own replacement, and again at the
next write, overwrites what others wrote in between with its old copy. A list of one element reads
back as a string; conversions of a value and of its text differ (an `Int` 2 is true, the text "2" is
no bool; a `Double` 1.5 rounds, the text "1.5" fails) where `SettingsValue.hpp:38` has them agree;
`setArrayIndex()` in an array without a name underflows a length (`Settings.cpp:370`).

*GUI*: DRM's `adoptWindow()` calls its handle optional (`PlatformIntegrationDrm.cpp:229`), but a
window without one is never released, and the back end keeps its pointer. Wayland does not ask for
which surface pointer motion, buttons, scrolling and touches are. `WM_MOUSEMOVE` goes on with a
window its slot may have closed (`PlatformIntegrationWin32.cpp:503`). On Wayland and DRM, with both
Shift keys down, releasing one ends the modifier (`PlatformIntegrationWayland.cpp:912`); modifiers
and buttons outlive the window they were told to. A digit with Shift is an unknown key on X11. X11's
repeat of a pass holds no life token of the back end (`PlatformIntegrationX11.cpp:1132`). When
registering the connection fails, Wayland's `createWindow()` leaves surface and role behind.

*Starting and ending*: two threads in `start()` at once both create a native thread
(`Thread.cpp:120`; constant `StartsAlone`); an `exit()` between `Thread.cpp:143` and the reset of
`mExiting` is forgotten; `pruneReceiver()` asks for the life flag before it takes the receiver's
lock (`Object.cpp:1736`), so that the receiver may be freed in between; `Signal` has the two steps,
and no memory to be freed.

Two of the 40 hazards have no property for that reason: the reuse of an address within a pass, and
two threads in `start()`. In both the code does what the property would forbid.

## 5. Proofs

Thirty-three theorems in eight modules, for all values of the constants that satisfy the named
assumptions. Each is an inductive invariant, a lemma per action that it is kept, and a last temporal
step.

**`EventDispatcherProofs`**, for all receivers, priorities, capacities and bounds, from
`DispatcherAssumption` and `NoneAssumption` alone:

* `TypeCorrect`: `Spec => []TypeOK`. `TypeOK` is inductive as it stands; the work is in lemmas that
  type each helper (`InsertByPriorityPlaces`, `ClearedType`, `TopType`, ...).
* `AlwaysQueueOrdered`: the queue is sorted by rank, and by ticket within one. Not inductive: an
  event inserted behind its equals is in order only because it is the youngest. `QueueInv` adds that
  every queued ticket is below `nextId`. A lemma per way the queue changes: taking entries out, the
  head, insertion, admission.
* `NothingIsForTheGone`: an event that was queued for a living object, in the queue or in a slot of
  any pass, names one that lives here still, and one that was queued for an object destroyed while
  it was on its way is a `MetaCall`. `LivingInv` adds the two that turn into events: timers, which a
  pass makes expiries of, and posts in flight (`PostsAimed`), which every death and every move has
  to mark (`Outlive`).
* `PassAlwaysBounded`: a pass ends. The invariant relates what a pass has run to how far it is in
  its batch, its expiries and its budget.
* `QueueAlwaysSound` and `PassesAlwaysSound` join these into two of the properties that `dispatcher`
  checks; the next three theorems are the others.
* `EventsHaveOneOwner`: an event is owned once. The owners are the queue, the slots of the batches
  and the dispatches in hand; `HeldInv` says that no two hold one ticket, that every held ticket is
  below `nextId`, and that a slot a pass has gone by is empty. One lemma serves all steps
  (`FramesMove`): the frames an action is not about lose events at most, and what it brings is new
  or comes from where it was held.
* `EqualPrioritiesKeepOrder`: the other half of `HeldInv` is the order. A batch is ranked even where
  slots were cleared, and what a pass swapped out is older than all that is queued now, so what it
  takes up, from either, no equal should have preceded.
* `DeferredDeletesStay`: `DeletingInv` has only objects of this thread told to delete themselves.
  The rest is about steps: none lets go of a deferred delete whose object stays to be deleted
  (`StepKeepsDelete`), and after the final drain none is left.

**`SubsequencesProofs`** has what they rest on: what `Picked` returns is a sequence of the same
elements, in the same order, at the picked positions. It is proved from the recursive function's
definition by induction over naturals in the library's first-order form. `InsertAtShifts` says the
same of an insertion.

**`MovesAndSavesProofs`** has the proofs of two components that share nothing, `Affinity` and
`SettingsFile`. Of `Affinity`, for any threads, objects, timer ids and bounds, from
`AffinityAssumption` and `Careful`, the rules the run also assumes:

* `WorkIsAlwaysKept` and `TimersAlwaysBelong` are the two properties of the run; both follow from
  `AffinityInvariant`. `AffinityInv` counts in items: an event is worth its call, its node, or each
  of the timers it will register, and a timer registered with a dispatcher or taken along by a mover
  is worth itself (`Cargo`, `Hand`, `Clock`). An item is carried in one lane of one thread, in one
  event of it (`Apart`, `AllSingle`), and what is carried is exactly the open calls, the running
  timers and, but for those a move to no thread deleted, the pending nodes (`CallsAreOpen`,
  `TimersRun`, `NodesGo`). So the proof of an action is to name the lanes between which it moves
  items (`LaneMoves`, `LaneGains`, `LaneLoses`); a sweep that splits a queue is the hard one
  (`QueueSwept`, on what `SubsequencesProofs` says of `Picked`).
* The properties do not follow from that alone. `MovesAreSound` has an object moved by one thread at
  a time (`Allowed`), the swap before anything is registered again, a queue with none of the
  object's events once a sweep has found it empty, and the event with the timers never astray, since
  its destination cannot change while it travels. `NodesHaveCalls` says which half of `callLater()`
  owns a node between its two mutexes.
* `Careful` is used in two places, `KillTimerLanes` (a timer killed on its way would be registered
  later with its id in the pool) and `BeginMoveMoves`. Without it the run fails as well.

Of `SettingsFile`, for any number of processes, names, keys, values, changes, syncs and crashes, from
`SettingsAssumption`:

* `TypeCorrect`: `TypeOK` is inductive; lemmas say which operations on maps give maps.
* `AtMostOneHolder`. `OneHolder` speaks of those who trust their lock. What makes it inductive,
  `LockInv`, says that they have an inode locked *and* that it is the one the lock file's name leads
  to, so two holders under one name would have one inode locked twice. It has to follow whether
  `sync()` only reads, for a reader passes through the same places without a lock.
* `FilesStayWhole`: who renames has written all. `FilesAreOneWritersWork` joins the two into the
  property of the run.
* `StampsAreRight` and `WritesMerge` (but for a file taken for missing), when no name is a link
  (`OwnNames`; `TwoNames.cfg` shows why). `Known` relates a store's stamp to the file's: never ahead
  of it, and when equal, the keys are equal; past the read, the holder has the file's keys. It stays
  true under another process's replacement because that raises the version above every stamp, and
  because `AtMostOneHolder` keeps others from replacing the file between the holder's read and its
  rename.

**`StartAndWaitProofs`** has what a thread's starter and its loop wait for.

* `HandleIsAlwaysRight`, for any callers, priorities and number of runs, under `StartsAlone` and
  `WaitsApart`: `HandleIsRight`, the run's property. `LifecycleInv` says which of the steps of
  `start()`, `wait()` and `threadBody()` go together: who holds the mutex, that the runs are created
  in order, that the thread that is there is the one the handle names or is about to be, and that
  what is finished stays so until it is reaped. What the system was told follows `priority`, or
  went unheeded, at each of three steps. `Alone` is where the two premises come in.
* `WaitingMeansReaped`, under the same two: `WaitMeansReaped`, the half of the run's
  `WaitsReturnReaped` that is not liveness. A `wait()` answers `true` where it finds nothing
  joinable or has just joined the thread itself (`LeavingMeansReaped`), and in both places
  `LifecycleInv` leaves no run unreaped.
* `WatcherInvariant`: the invariant of `LoopWait` and `SignalWatcher` together, for any threads,
  descriptors, signals and ways to wait, from the modules' own assumptions. It has two halves.
  `WaitInv` is the wait's: a set `wakePending` has a write behind it, one to come, or the loop about
  to clear it (`FlagIsBacked`); whatever must not be slept on (an event, a request, an interruption,
  a list of sources that changed under the poll) has a wake-up written, or a thread that is about to
  write it or to take a clear flag (`NoticeIsComing`); and a descriptor has one registration among
  the sources and the polled ones, whose generations lie below the next (`OneEach`). None of the
  three is inductive without `Where`, which says at which of its steps the loop can have which
  effect half done. `WatchInv` is the watcher's: the handler's descriptor is the living watcher's
  (`HandlerIsOurs`), a readable signalfd has a pending signal (`SignalFdIsTrue`), what the poll
  returned for the watcher is still to be read when its turn comes (`PolledIsReadable`,
  `CallIsDue`), and the console's events are for the watcher that was asked (`ConsoleIsOurs`).
* `WakeIsKept`, `RequestIsKept` and `OnlyPolledIsCalled` are the run's `WakeIsNotLost`,
  `RequestsAreKept` and `CallsWhatWasPolled`. The last follows from `OneEach`: a descriptor closed
  and registered again between the poll and its callback has a new generation, and is passed over.

**`ThreadPoolProofs`**: `NoTaskIsLost`, for any finite number of workers and any clients, priorities
and tasks: `NothingIsLost`. `PoolInv` says that queue, hands and `clear()`s have no task in common
and that every task is in one of them or deleted (`QueueApart`, `HandsApart`, `DropsApart`,
`AllPlaced`); that a worker has a task just when it runs, has run or drops one (`HandsAreFull`), and
`active` is the number of those who run one; and, for the pool that is gone, that the destructor is
alone with the workers and that a worker ends only over an empty queue (`EndsAlone`). `PickKeeps` is
shared by the three ways a worker gets to its next task.

**`QueuedCallsProofs`** has a part for each module that `QueuedCalls` composes. `EventPool`:
`BlocksAreAlwaysKept`: a block is in one place and each count is its list's length, for any threads,
blocks and batch size. A batch is any set of blocks of the right size, so the proof is by
cardinalities of what moves. `LoopHealth`: `ReadingsAreOneMoment`, for any readers and events. The
invariant follows the sequence number: while it is odd one store after the other makes the record
the next complete one, and a reader that began at an even number has, of each field it has loaded,
the value of that number's record, or will see another number at its end. The composition, for a
loop that is not an adopted thread's: `QueuedCallsHaveTheirBlocks`, where the events of the queue
and of the dispatches in progress are apart from each other and held; and `HealthIsAlwaysTold`,
which adds that a record between two writes names the innermost dispatch that is tracked, for which
the invariant says of every dispatch below it what it will restore.

**`ThreadLoopProofs`**, for any callers, calls and runs. A task stands in one of several lines, from
the parked ones back to those that ran (`Lines`). `LoopInv` is in two parts. `Control` says which
phases of the body and of a caller go together: which dispatcher is installed, who has fetched one,
and that one not installed yet is nobody's and holds nothing. `InLines` says that no two places in
the lines have one task and none has a task that is refused or discarded, that a number not given
yet, or given to a call still looking for a place, is nowhere, and that in the lines that still lead
somewhere the tasks of one caller and one class (parked, or queued at once) stand in order. Four
lemmas say how lines may change (a task joins one, a line's head moves on, a whole line moves behind
another, a line is dropped), and each action is one of them.

* `TasksAreInOnePlace` and `TasksRunInOrder` are `InOnePlace` and `RunsInPostingOrder`.
* `LoopImplementsTaskDelivery`: the refinement. Each action of `ThreadLoop` is a step of
  `TaskDelivery` under `Fate`, or leaves every fate as it was: accepting is joining a line, running
  is moving to the last one, and discarding is the drop of a line of a loop that ended.

**`SignalProofs`**, for any threads, receivers, connections and depth of nesting. The invariant has
three parts.

* `OpsAreSound` and `Nested`: what each operation in progress has in its fields, and that all of a
  thread's operations but the innermost wait for a slot to return.
* `Lists`: each linked node is in the list at its index and nowhere else, the list rises by age, its
  nulls are counted, and a snapshot that is not dirty is what the list's live entries are.
* `Core`: whatever the lists disagree about, some thread is in the middle of. A connection linked
  but not in its receiver's incoming list is being made, one listed there but no longer linked is
  being ended, and what is still linked to a receiver under destruction lies ahead of the thread
  that destroys it. This accounts for the gaps in `connect()`, `disconnect()` and `~Object()`, which
  hold the signal's mutex and the receiver's in turn and never together.

`SignalListsAgree` is `Lists` and `Core` when nobody is in the middle. `EmissionsRunInOrder` needs
only the emissions' own part: a snapshot rises by age and has nothing younger than its emission.
`NoSlotRunsForTheDead` is an action property: a slot is entered for a connection that is connected,
hence linked, hence of a receiver that is not gone; and were it dying, this thread, which is the
receiver's, would be the one destroying it and not emitting.

**Only model-checked**: liveness under fairness, which is out of the prover's reach (`NothingHangs`,
`WaitsReturnReaped`, `SyncReturns`, `LoopIsReached`); what a recursive definition computes for every
input, and so all of `IniText` and of the names and files of `Settings`; the sums of the animations;
and the invariants of `Property`, `Animation` and the GUI, with the action property
`WritesKeepTheRest`.

## 6. Bounds of the models, and what is not modelled

Abstracted within the modules, beside what their headers say:

* `EventDispatcher`: when a timer is due, and the heap that says so. `LoopWait`: timers as the limit
  of a wait, a failing `write` to the eventfd, `SetEvent`, `sigaction` or `pipe`.
* `Signal`: blocking-queued and direct connections, signals connected to signals, receivers that
  move.
* `ThreadLifecycle`: adopting a native thread, names, the Windows half, which mirrors the POSIX one.
* `Affinity`: objects that end during a move, the order in which a sweep hands over, the end of a
  loop with events queued.
* `ThreadPool`: runnables the pool does not own; the hand-off of a result, which is a signal.
* `EventPool`: the layout of blocks, a double release. `LoopHealth`: the width of the sequence
  number.
* `Animation`: curves other than two shapes, seeking outside a tick, integer casts that overflow, a
  `startTimer` that fails. No liveness is stated: the clock ticks when the loop does.
* `IniText`: exponents, infinities and NaN, text that is not UTF-8; hand-written sections named `[]`
  and keys with empty parts. `Settings`: where files are looked for; other objects on the same
  store.
* GUI: decorations, titles, cursors, the search for displays and devices, drawing; on Wayland a
  failing registration, on DRM and X11 the loss of the connection.

Not modelled:

* The parent-child tree: `setParent()`, the deletion of children and searches run on one thread and
  under no lock. What leaves that thread, the end of one object and its move, is modelled for
  objects without children. It would be the next module, a forest with the ends of parents and
  children.
* Logging: formatting and output. Call stacks: symbol lookup, an interface of the operating system.
* Tests, demo, performance programs and build tools: read for what they say of the library.

Worth proving next, in this order: `SubscriberHearsTheValue` of `Property`, whose coalesced calls
have to bring the last value; `UnsavedIsScheduled` of `Settings`; `WindowsAreTracked`, back end by
back end.
