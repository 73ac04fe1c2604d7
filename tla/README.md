# gdres in TLA+

gdres is a C++ library of building blocks for multi-threaded programs: locks,
named threads, a thread pool, timers, fibres with a scheduler, a logger, and on
top of them *modules*, objects with a thread and a message queue each, that a
module manager registers and routes messages between. A TCP server and client
stand beside it. This directory holds TLA+ specifications of these parts, the
TLC configurations that check them and TLAPS proofs. Paths below are relative to `src/src/basics/`; `README 1.4` is
section 1.4 of the repository's README. `PROJECT.json` maps every definition to
the lines it models.

## 1. The system

| Component | State | Operations | Used by |
|---|---|---|---|
| `Semaphore` (parts/lock) | `mtx`, `cond`, `count` | `signal`, `wait` | Thread, ThreadPool, ModulBase |
| `RdWrLock` (parts/lock) | `readMtx`, `writeMtx`, reader `count` | `rdlock`, `rdunlock`, `wrlock`, `wrunlock` | ModulMgr, TimerMgr |
| `SpinLock`, `WrapLock` (parts/lock) | an atomic flag | `lock`, `unlock` | Logger |
| `SafeQueue` (parts/safe_container.h) | queue, mutex | `empty`, `size`, `push`, `take` | nobody |
| `Thread` (thread/wthread) | `thState`, `th`, `func`, `sem` | constructor, `Run`, `join`, `reset` | ThreadPool, ModulMgr, Scheduler |
| `ThreadPool` (thread/thread_pool) | task queue, worker vector, `m_liveNum`, `m_busyNum`, `m_exitNum`, `m_sem`, `m_shutdown` | `AddTask`, `AddThread`, `Worker`, `Manager`, `Destroy` | ModulTimerMgr, user code |
| `TimerMgr`, `Timer` (timer/timer) | set of timers by address, `m_occur`, RdWrLock | `AddTimer`, `GetCbList` | ModulTimerMgr |
| `ModulTimerMgr` (modulmgr/modul_timer) | a fixed ThreadPool, `m_stopping` | `Init`, `Run`, `Stop` | ModulMgr |
| `MsgQueue` (modulmgr/msgqueue) | two queues, one slot, `m_size`, `m_mtx` | `push`, `take` | ModulBase |
| `ModulBase` (modulmgr/modul_base) | queue, semaphore, `m_stopping` | `Init`, `Run`, `MsgPush`, `TakeMsg`, `Stop` | derived modules |
| `ModulMgr` (modulmgr/modul_mgr) | `m_mods`, `m_wrMtx` | `Register`, `UnRegister`, `PostMsg` (one ID, many), `RegisTimer` | ModulBase |
| `Fiber` (fiber/fiber) | state, context | `SwapIn`, `SwapOut`, `YieldToReady`, `YieldToHold`, `Reset` | Scheduler |
| `Scheduler` (fiber/scheduler) | task list, idle and active counts, condition variable | `Start`, `AddTask`, `Run`, `Idle`, `Tickle`, `Stop` | user code |
| `Logger`, `LogAppender`, `LogFormatter` (log/log) | appenders, formatters, levels, files, SpinLocks | `Log`, `ReOpen`, `SetFormatter`, `AddAppender`, `DelAppender`, ... | everything |
| `TcpServer`, `CellServer`, `ClientCell`, `WTcpClient` (WSocket/tcp_socket) | client lists, receive and send buffers | `Accept`, `AddClient`, `Run`, `ProcessMsg`, `RecvMsg`, `SendMsg`, `OnRun` | examples; commented out of the build |
| memory pool (WMemory) | | | nobody; does not compile |

How they interact: a message posted with `ModulMgr::PostMsg()` is looked up
under the read lock, then handed through the registered callback to
`ModulBase::MsgPush()`, which pushes it into the module's `MsgQueue` and signals
the module's semaphore. The module's thread, a `Thread` made by
`ModulMgr::Register()`, sleeps on the semaphore in `Run()`, takes one message
per token and processes it. `Register()` also adds a timer; the timer loop runs
as a task of a fixed `ThreadPool` and puts the callbacks that are due into the
same pool. `Scheduler::Start()` makes `Thread`s of its own, each of which runs
the fibres and functions of one shared task list and goes to sleep in an idle
fibre. Every LOG statement, in any thread, walks the appenders of the one
logger. The TCP server accepts in one thread and hands each client to one of
several `CellServer`s, whose threads receive, process and answer its messages.

What makes this code hard to test is the same everywhere: values are read
before the lock under which they are changed (`m_size`, `m_shutdown`, the IDs),
counters stand for sets of threads or messages they were never compared with
(`m_liveNum`, `m_size`, the semaphores' counts), a wake-up is a separate step
after the change it announces, and stopping (`Stop()`, `Destroy()`,
`UnRegister()`) frees objects that other threads still use. The `hazards` of
`PROJECT.json` list these points line by line.

What makes each component correct:

- *Semaphore*: a `wait()` returns for a permit a `signal()` gave, no permit is
  left behind while a thread sleeps, and somebody waiting gets a free permit.
- *RdWrLock*: a writer is alone; if nobody is in the way, somebody gets in.
- *MsgQueue*: accepted messages are not lost, duplicated or miscounted; they
  leave by level, then by age; the capacity bounds the queue.
- *ModulBase*: an accepted message is processed; `Stop()` ends the thread.
- *ModulMgr*: a registration stays until `UnRegister()`; the object a message
  can be routed to has its thread; the calls return.
- *ThreadPool*: every task is executed; the pool keeps its minimum of workers
  and does not lose a task's wake-up to a request to leave; `Destroy()` wakes and
  waits for everybody.
- *Thread*: its id and its function are there when the constructor returns.
- *TimerMgr*, *ModulTimerMgr*: a timer fires when it is due and not before, a
  one-shot timer once; `Stop()` ends the loop.
- *Fiber*, *Scheduler*: a task added is run, on one thread at a time; a fibre
  that yields comes back; `Start()` and `Stop()` return.
- *Logger*: the lines an appender writes do not mix and are whole, or the error
  is reported; nobody formats with a deleted formatter; the spin locks are given
  back.
- *TCP server and client*: the messages cut from the stream are the messages
  sent, each is answered, no client is forgotten or held up by another for ever.

## 2. Modules

| Module | What it is |
|---|---|
| `LockUsers` | the threads that call a lock and where each is; extended by `Semaphore` and `RdWrLock` |
| `AbsSemaphore` | a counting semaphore: permits and the set of waiters |
| `Semaphore` | `parts/lock.cpp` 68-83, one action per step between mutex and condition variable; `ImplementsSemaphore` is the refinement of `AbsSemaphore` |
| `AbsRdWrLock` | a readers-writer lock: who wants in, who is in |
| `RdWrLock` | `parts/lock.cpp` 17-43 with its two mutexes; refines `AbsRdWrLock` |
| `LockProofs` | proofs about `Semaphore` and `RdWrLock`, and that they implement their abstract specifications |
| `MsgQueue` | `push()` and `take()`, each as an unlocked check and a locked section |
| `ModulBase` | extends `MsgQueue` by the module's thread, its semaphore, and `Stop()` |
| `ModulBaseProofs` | proofs about `MsgQueue`, and about `ModulBase` over them |
| `ModulMgr`, `MCModulMgr` | registration, removal and routing among several modules and posters |
| `ModulMgrProofs` | proofs about `ModulMgr` |
| `ThreadPool` | workers, manager, adders and `Destroy()` of fixed and dynamic pools |
| `ThreadPoolProofs` | proofs about `ThreadPool` |
| `WThread` | the life of a `Thread`, from the constructor's handshake to `join()` |
| `Fiber` | the fibres' states and the switches between them |
| `Scheduler`, `MCScheduler` | composes `WThread` and `Fiber` (INSTANCE) with the task list, `Run()`, `Idle()`, `Start()` and `Stop()` |
| `SchedulerProofs` | proofs about `Scheduler`, `Fiber` and `WThread` |
| `TimerMgr` | the set of timers, `AddTimer()` and the scan |
| `ModulTimer`, `MCModulTimer` | composes `TimerMgr` with the timer loop, its pool and `Stop()` |
| `ModulTimerProofs` | proofs about `ModulTimer` and `TimerMgr` |
| `LogFormat` | the parser of log patterns, as an operator from patterns to items |
| `Logger`, `MCLogger` | threads that log, over `LogFormat`, while others change formatters, levels and appenders |
| `LoggerProofs` | proofs about `Logger` |
| `ClientCell` | one connection: both ends' buffers and the windows between them |
| `TcpServer`, `MCTcpServer` | accepting, the client lists and the loop of the `CellServer`s, over `ClientCell` |
| `TcpServerProofs` | proofs about `TcpServer` and `ClientCell` |

The two locks are modelled down to the mutex. The modules above them use what
they were shown to be: the semaphore is a counter that blocks at zero, the
readers-writer lock a guard. A critical section of the code is one action, and
every access outside of it is an action of its own, which is where the hazards
are. A program counter per thread (`pc`, `runPc`, `own`, `ppc`, ...) names the
place between two such steps; each module's header explains its values.

Undefined behaviour is a choice: where a thread may use an object that another
thread deleted, it either finds the memory intact (the ordinary actions stay
enabled) or the process dies (`crashed`). Messages, tasks and modules are model
values; `ProcessMsg()`, tasks and timer callbacks are single steps that return.
History variables (`fate`, `stamp`, `clock`, `sent`, `missed`, `overlapped`, `mixed`) say where a message
or task is; no guard on the code's behaviour reads them except to use each
message or task once. What is outside of the library (users of the scheduler,
the clock, the network, the file system) is an action without a promise, except
where the paragraph on fairness says so.

### Correspondences worth knowing

- `MsgQueue.PushCheck`/`PushFull` is the test at msgqueue.cpp 29, `PushInsert`/
  `PushRefuse` the locked switch. A second immediate message, and one of no
  level, are turned down under the lock, after the check. `TakeRemove`
  decrements `m_size` even if it found nothing: `Accounting` and `TypeOK` show
  that this never happens with one taker.
- `ThreadPool.Init`: the workers created by `Init()` are *not* in `workThs`,
  because the code assigns into a vector that was only reserved. `Reaped`
  spells out which positions the loop of `Manager()` erases, `it++` after
  `erase()` included. `WorkerQuit` does not touch `liveNum`; only reaping does.
  `AddThread` is over before `Destroy()` begins: only the destructor calls
  that, and it walks the vector without the lock.
- `ModulBase.StopSet` is the test of `m_stopping` and the assignment in one step
  (modul_base.cpp 111-114): one thread stops a module. Two that both pass the
  test would delete the queue twice.
- `ModulMgr.Emplace` does not replace an existing entry, as
  `std::map::emplace`. `ScanFails` keeps the read lock. `UnRegisterJoin` waits
  for the thread of the module found in the map, which nothing in
  `UnRegister()` stops.
- `Scheduler.Take`: the scan of `Run()` passes over the tasks meant for other
  threads and those whose fibre executes; the first other one is taken.
  `tickle` is set if a task was passed over for another thread, or is left
  behind. The idle fibre has no value in `Fiber`: it never leaves its thread, so
  the program counter is its state. That also makes line 196 unreachable, since
  `Idle()` returns only when `m_stopping` is set, and the loop tests that first.
- `Fiber.Unusable` is where a switch is undefined: the fibre's stack is in use
  in another thread, the fibre is deleted (a queued `cbFiber` whose thread left
  `Run()`), it ended meanwhile (a `cbFiber` that its own thread ran to the end
  would return from `MainFunc()`), or its function is empty (a `cbFiber` reset
  in between). A user resumes a fibre on hold only after the scheduler let go of it, since `Run()`
  writes `HOLD` once more at line 175.
- `TimerMgr`: only `m_occur` minus the clock decides anything, so `left` counts
  down to zero. Addresses are chosen freely and reused after `delete`; that
  fixes the order of the set.
- `ModulTimer`: the pool is what `ThreadPool` shows a fixed pool to be, a queue
  whose tasks are executed. Deleting it is what `ThreadPool` shows of that too:
  the process may die, or go on in freed memory. A loop that no thread has begun
  by then may be dropped with the pool (`Dropped`).
- The clock of the timers is taken to go on steadily. `GetNowTimMS()` reads
  `high_resolution_clock` (func_pub.cpp 48-52), which in libstdc++ is the system's
  clock: when that is set, timers come early or late by as much, and `NeverEarly`
  does not hold.
- `LogFormat.Items` reads a pattern from its end, as a function of the position.
  What the parser does in unusual cases is in it: of `%%` the second `%` begins
  a key, so that `%%T` is the text `%` and a tab; the letters that follow a key
  belong to it; the error of an unclosed brace comes before the text in front of
  it; `{}` is no format.
- `sink[a]` is what the appender `a` writes: all there is in its file, or its
  share of `std::cout`. `errors` is what the file appenders write to `std::cout`
  when `Format()` says that their stream is not good (log.cpp 617-619), under their
  own lock, so that it comes anywhere in what a `StdoutLogAppender` writes; `at` is
  the place.
- `LinesWhole` says of each stretch of equal line numbers in a `sink` that it
  spells the pattern of a formatter, or was cut and an error was reported for it.
  It says nothing of how `std::cout` is shared: see `ErrorsApart` in section 5.
  It holds for patterns that the parser reads
  without an error (`Spelled`); `MCAssumption` of `MCLogger` checks that those of
  the run are.
- `Logger.Opened`: `ReOpen()` closes a stream only if it is good, so a stream
  with an error stays open and `open()` fails on it. `Update` ignores
  `hasFormatter`, which is never set. The default formatter and `SetFormatter()`
  delete what they replace; `LogAppender::SetFormatter()` does not.
- `Logger.Delete` while a thread walks the appenders ends the model (`crashed`).
  The code erases from a vector under a running iterator: what the thread visits
  next is undefined, and nothing is claimed of it.
- `ClientCell`: a byte of a login is the login's number, since what `OnRun()` or
  another caller of `SendMsg()` puts into a login may differ; its length and header
  do not. `Copied` is the `memcpy()` that moves up what follows a login in
  `recvMsgBuff` (client_cell.cpp 110). When more than two logins are there the
  regions overlap, and the standard does not say what is copied: a byte then
  comes from its place in any of the later logins, which covers a copy forward,
  backward and in blocks. A login mixed in this way still has the header of one.
  `overlapped` and `mixed` record for which clients this happened. The replies are
  all alike (`LogInRet` with `ret` 1, client_cell.cpp 136-137), so the same `memcpy()`
  of the client (socket_client.cpp 164) cannot change a byte of them, and they are
  counted.
- `Sent` is the loop of `SendMsg()`: full buffers go out, the rest stays. A failed
  `send()` is one whose client is gone; it drops the reply and leaves the buffer
  as it was (`FlushFails`). SIGPIPE is taken to be ignored by the program.
- `TcpServer.Accept` also appends the client to the server's own list `clients`
  (tcp_server.cpp 174-175). The list is left out: nothing reads it.
- `TcpServer.RecvFailed` erases the client and moves past the next one, as the
  loop does. `Chosen` takes the last server with fewer clients than the first,
  because `min` is never brought up to date.

## 3. Runs

| Run | Instance | Question |
|---|---|---|
| `semaphore` | 4 threads, count at most 3 | types, `NoLostWakeup`, and refinement with fairness of the counting semaphore |
| `rdwrlock` | 4 threads | types (`RwTypeOK`), `Exclusion`, refinement with fairness of the readers-writer lock |
| `msgqueue` | 3 senders, 7 messages of all levels, capacity 2 | `Accounting`, `OvershootBounded`, `DeliveryOrder` |
| `modulbase` | 2 senders, 4 messages, capacity 2, a `Stop()` at any time | types (`ModulTypeOK`), `TokenBalance`, `MessagesProcessed`, `StopEndsRun` |
| `fixed_pool` | 2 workers, 1 thread to add, 3 tasks, a `Destroy()` at any time | `TasksRun` |
| `dynamic_pool` | 1 to 3 workers with a manager, 2 tasks, a `Destroy()` at any time | types, `TokensCoverTasks`, `WakesEveryWorker`, `DestroyEndsWorkers` |
| `modulmgr` | 3 modules, two with one ID, 1 poster, one ID or both | types, `ThreadCoversInfo`, `RegistrationStable`, `CallsReturn` |
| `scheduler` | 2 threads, 1 fibre, 1 function bound to a thread, 2 yields, a `Stop()` at any time | types, `IdsPublished`, `FiberInOnePlace`, `CountsExact`, `OnlyTheRaceStrands`, `StartAndStopReturn`, `YieldedResumes` |
| `timer` | recurring timers of 2 and 3 ticks, a one-shot of 1, any addresses, a `Stop()` at any time | `OneShotOnce`, `NeverEarly`, `TimersFire`, `StopEndsLoop` |
| `logger` | 2 threads, standard output and a file, 2 lines, 2 formatters, 2 changes, 1 fault | `LinesWhole`, `FormatterCurrent`, `LogReturns` |
| `tcp_server` | 1 server, 2 clients that send 4 logins and 1 and may both leave | `FramesKept`, `ClientsCounted`, `LoginsProcessed` |
| `pool_starves` | 1 to 2 workers with a manager, 3 tasks | refutes `DynamicTasksRun` |

The last one states what the repository's README says; its trace is described in
section 5 and in the finding of `PROJECT.json`. More properties are refuted as
well, each in seconds by adding it to the configuration named in section 5; no
run of their own is kept.

**Bounds.** Each message, task and module object is used once, which bounds the
queues, the history and the registrations; the constants that bound a counter
are these:

- `MaxCount` (Semaphore) stops new calls of `signal()` at three permits, given or
  on their way. With four threads that is enough for several sleepers, several
  permits and a spurious wake-up at the same time.
- `Capacity` 2 with 3 senders: all senders can be past the check together, so
  the overshoot reaches its bound of 4; two messages of each level give each
  order of arrival and removal, and the second immediate message is turned
  down.
- `MaxTokens` (ThreadPool) keeps the manager from signalling beyond it:
  `Manager()` asks for `NUMBER` threads in every pass of an idle pool and its
  requests pile up in the semaphore. At 2 (`dynamic_pool`) it asks when no token
  is left, and a second time as soon as its first tokens are taken and the
  workers are still on their way; with two tasks in the queue of one worker it adds
  two threads at once, which may end together and be reaped together. A
  larger bound makes the instance too large for a run of a few minutes. In
  `pool_starves` it is 5; `DynamicTasksRun` excludes the behaviours in which the
  bound is what holds the manager up.
- `MaxReaders` (ModulMgr) 1: a `PostMsg()` to a vector starts only while no read
  lock has leaked. One leaked lock shuts writers out for good, more change
  nothing.

- `MaxYields` 2 and `MaxSpurious` 1 (Scheduler): a fibre and a function can both
  be back in the list, or one of them twice, and a thread can wake for nothing
  once. Two threads suffice for every race the properties are about: a thread
  that sleeps, and one that adds, takes or stops; the code takes no fewer than
  four.
- `MaxQueued` (ModulTimer) 2: the clock stops while two callbacks wait, as
  callbacks that fall behind the timers for ever would fill any queue.
- `MaxTime` 1, `ReopenTime` 1 (Logger): the clock passes the time to open the
  file again once, before, between or in the middle of lines. With `MaxLines` 2
  each thread has a line to mix with the other's, `MaxChanges` 2 puts two
  changes against each other or one after the other around a line, `MaxFaults` 1
  lets one opening or one write fail. Both patterns are read without an error
  and have several items.
- `Logins` (TcpServer): four of one client with `SendSize` 2, `RetLen` 1 and
  `DownMax` 2 fill the send buffer twice, so that the server blocks in `send()`
  while the one login of the other client waits whole. `LoginLen` 2 with `UpMax` 4
  and `RecvSize` 5 cuts logins in the middle and brings two and a half
  together, where the `memcpy()` overlaps. Both may leave: one that is gone is
  erased while the other behind it is ready, and passed over.
- One server: two of them with three clients are too many states for a run. What
  there is to say about several, who is in whose list and that `Chosen` is one of
  them, is `EachWithOneServer`, for any number (section 4); the servers' threads
  share nothing but `clientsNum`.

`Spare` bounds the threads a pool creates at a time; a thread that was reaped
may be created again. No run uses symmetry.

**Fairness.** Weak fairness of the steps of each thread that is inside a function
of the library: the operating system schedules runnable threads, and tasks,
`ProcessMsg()` and callbacks are taken to return. It is no more than weak: a
thread that waits for a mutex or a token which others keep taking is owed
nothing, because neither promises a fair choice among its waiters, and the
refinements of the two locks promise only that *somebody* gets on. Calls (`CallSignal`, `Push`, `AddTask`, `StopSet`, `DestroyShutdown`,
`RegisterCall`, `PostOne`, `Log`, ...), yields, faults and spurious wake-ups have no fairness:
nobody owes them. The manager's sleeps and `SLEEPMS()` end, and time passes. A
process that has crashed owes nothing. In `TcpServer` the clients' threads, the
accepting thread and each server's thread are scheduled, each for itself, and the
network delivers: a client goes on in `OnRun()`, reads its replies and sends its
logins. That it connects or leaves is its own affair. The spin locks are not fair either: `LogReturns` needs no more, because
the instance has too few lines to keep one thread out for ever, and what it
shows is that no lock is kept or waited for in a circle.

**The windows.** Both ends of a connection use blocking `send()` (client_cell.cpp
70, socket_client.cpp 96), the server in the thread that serves its other
clients, the client in the thread that reads. `WindowAssumption` of `ClientCell`
is what keeps them from waiting for each other for ever: the client's login fits
into the window up, the server's buffer into the window down, and one receive
buffer of logins causes at most one full send buffer. With the sizes of the code
(50 KB buffers, logins of a few dozen bytes) it depends on the socket buffers of
the system. With `DownMax` 1, one less than `SendSize`, and `UpMax` 2, TLC refutes
`LoginsProcessed`: both are in `send()`. That is also how one client stops the
others of its server, which `LoginsProcessed` denies for windows that are large
enough.

**Deadlock** is checked for the locks and the queue, where some call is always
possible. The other runs say `CHECK_DEADLOCK FALSE`, since these systems may stop:
a stopped module, scheduler or timer loop, a destroyed pool, a process that
died, a client that sent its last login, or all objects used up. What must not stop there is stated as liveness.

## 4. Proofs

All theorems hold for every value of the constants under the named assumptions
of the modules (finite sets of threads; the special values are not members).
They are in eight modules; `PROJECT.json` lists them. Each invariant named here was
checked by TLC on the instance of its run before it was proved.

**Semaphore.** The inductive invariant is `TypeOK`, `MutexOwned` (the mutex
belongs to exactly the thread inside) and `NoLostWakeup` itself: a thread
blocks only after it saw `count <= 0` under the mutex, an increment is paid for
by the signaller's own pending notify, and the notify by the thread it wakes.
`MoveCount` says what a move of one thread does to the number of threads at a
set of places. `Refinement` maps each step to a step of `AbsSemaphore` or a
stutter; with it goes the safety half of `ImplementsSemaphore`.

**RdWrLock.** `Exclusion` is not inductive: it needs that the reader count is
exactly the number of threads between its increment and its decrement
(`CountExact`), that the thread on its way to be the first reader is alone and
holds `readMtx` (`FirstReaderAlone`), and that `writeMtx` is held while anybody
is inside (`WriteMtxHeld`), though its owner need not be the thread that will
unlock it. In `RwRefinement` a reader enters when it gets `writeMtx` or is counted
beside another, a writer when it gets `writeMtx`; that nobody is in the way at that
step follows from `WriteMtxHeld` and `CountExact`. The other steps under `readMtx` stutter.

**MsgQueue.** One thread takes and any number push, so the test that `take()`
makes before it locks stays true until it locks: `TakerFindsOne`. A message past
the check of `push()` is held by one sender and is in no container (`HeldOnce`);
both lists are sorted by the order of arrival (`InOrder`), which is why taking
the head removes one message and the oldest. With `TypeOK` and the finiteness
of the set of queued messages these make `Accounting` inductive, and
`DeliveryOrder` follows for each branch of `take()`. `CapacityOvershoot` needs a
strengthening of its own, `Reserved`: the senders past their check count against
the capacity in advance, so that size and those senders together never exceed
`Capacity + Cardinality(Senders) - 1`.

**ModulBase.** `TokenBalance` needs only that a sender is in one push or one
wake-up at a time (`OneCall`) and that `Stop()` signals after it set
`m_stopping` (`StopMarked`). `ModulUsesQueue` maps each step of the module to a
step of the queue or a stutter: `ModulSpec` implies the `Spec` of `MsgQueue`. What is
proved of `push()` and `take()` so holds in the module too, and
`ModulTypeCorrect` uses it for its half about the queue.

**ModulMgr.** `RegistrationStable` rests on what `UnRegister()` holds when it
erases: the entry is still the one whose `ModInfo` it deleted (`FreedFirst`), and
nobody else is about to erase it (`OneEraser`, since the second deletion of one
`ModInfo` is the undefined behaviour of `Crash`). `ThreadCoversInfo` needs that
a thread is started once (`ThreadAge`), that the victim does not change between
join and delete (`Joined`), and for that the assumption `OneRemover`: no two
owners remove modules of one ID. It is not in the code: with three modules
of one ID and two removers, TLC finds the second `UnRegister()` deleting the
module that registered in between. The instance of `modulmgr` satisfies it.

**ThreadPool.** `PassCounts` is what one pass of the manager does to the counters:
`m_liveNum` changes by the threads it starts and reaps. The inductive invariant
is `CoreTypes`, `DestroyInOrder` (`Destroy()` shuts down first and goes on when
the manager is gone), `LiveExact` (`m_liveNum` counts every thread that exists)
and `TokensCoverTasks`; `WakesEveryWorker` is added to it, since a sleeping worker
exists and is therefore counted in the `m_liveNum` signals. `CoreTypes` is
`TypeOK` without `m_workThs`, the crash and the history, on which no safety
property rests. `TypeCorrect` adds them: the vector is filtered by `Without`, a
recursive function, of which `KeepsExists` shows by a smallest counterexample
that it exists for every vector, and `WithoutType` that it keeps elements only.

**ModulTimer.** `NeverEarly` speaks of what has passed (`since`), the code decides by
what is left. `RestAhead` joins them: for a timer that exists the two add up to the
interval at least. A tick takes one from the one and gives it to the other until
`since` reaches the interval, and handing out starts both anew; a timer in the scan's
prefix has nothing left (`PrefixDue`).

`OneShotOnce` needs to know where a callback is: `OneListOnly`, `ListOnce` and
`RanOnce` say that the timer of a callback in a list is deleted, given out and
has not run, and that no timer's callback is in both lists. The scan appends the
timers of its prefix in the order of their addresses, a list that `ByAddress` only
CHOOSEs: `OrderExists` shows, by a smallest counterexample, that a finite set with
distinct addresses has such a list, each timer in it once.

**Scheduler.** One invariant, `Inv`, serves the five theorems. `FiberInOnePlace`
needs that every user's fibre in the list or in a thread's hands was added
(`AddedInv`), so that the one a user adds now is in no other place, and that a thread
scans with empty hands (`TaskInv`). `IdsPublished` needs the handshake of the constructor
(`ThreadInv`): the semaphore is signalled after the id was written, once.
`CountsExact` is its own strengthening, if each path of `Run()` is shown to
increment before it decrements (`CountUp`, `CountDown`, `CountFrame`).
`OnlyTheRaceStrands` needs that a waiting thread is asleep (`WaitInv`) and what the
main thread may find (`MainInv`). A task that comes in wakes a waiter, or finds
somebody awake, or sets `missed` (`PushWakes`); a thread that goes to sleep found
nothing to take, so that what is left for anybody is being executed by a
thread that is awake (`NothingIsExecuted`, which needs `RunInv`); every other step leaves
awake who was (`StaysAwake`).

**Logger.** Three invariants, one upon the other. `FInv` is for `FormattersExist`: the
lock of an appender is held by the one thread that writes to it and the
logger's by the one that changes it (`LockInv`), and `SetFormatter()`, which deletes the old
formatter before it visits the appenders, still has every appender without
a formatter ahead of it (`ChangeInv`). `LInv` adds that lines have numbers of their own
(`IdInv`) and that a thread has written nothing yet to the appenders before it
(`WalkInv`, which rests on no appender being added twice): `LinesNeverMix`.
`WInv` adds that what a thread has written of a line, and what it has still to write, are
together the items of one formatter (`WriteInv`), and that a line nobody writes is
complete unless it is the last of a stream that went bad and an error was reported
for it (`CutInv`); such a stream never becomes good again. That is
`LinesAreComplete`, about the items of each appender; none of the theorems speaks
of `std::cout` as a whole, which the appenders' errors share. `LinesAreWhole`
carries it over to the patterns, under the hypothesis that the parser reads them
without an error (`Spelled`). What the parser does for every pattern is induction
over data, so it is a hypothesis of the theorem and TLC evaluates it for the
patterns of the run. The same goes for `LoggerAssumption`, which says of `Items`
only that it gives a sequence.

**TcpServer.** `FramesKept` has two halves. That no byte is lost is `Balanced`, over
the types (`Bytes`, `Counts`): every handler moves bytes from one term of an
equation to another, and `Division` gives what `SendMsg()` and the client's
`RecvMsg()` pass on and keep. What the bytes are is `Contents`. `InOrder` says of
a client for which nothing overlapped that the receive buffer and the window
behind it are the stream sent, from the first login that is not processed on;
then what is copied over a login is the rest of the stream (`CopiedExact`), and
the login cut from it is the next one. Once something overlapped only the
bytes are counted: `MixedOverlapped` says that no login is mixed before.
`Joined` and `Followed` put a part of the stream behind the part before. The
theorem assumes of the windows that their sizes are positive, and nothing else
of `WindowAssumption`.
`EachWithOneServer` looks at the two lists of a server as one (`Held`): `MoveClien()`
then changes nothing, `AddClient()` appends, and the `erase()` of `RecvMsg()` takes
one out. No two places hold one client (`Placed`), `m_clientsNum` is
the length plus the client on its way (`Counted`), and that client is in no list
(`Served`), as `Accept()` takes each connection once. That `Chosen`, which takes the
last of some servers, is one of them is `MaxIn`.

**Only model-checked.** Liveness (the fair halves of the two refinements,
`MessagesProcessed`, `StopEndsRun`, `TasksRun`, `DestroyEndsWorkers`,
`CallsReturn` and those of the later modules): the prover does not handle
fairness. The parser of log patterns, which is recursion over its input. Every
invariant the runs check is also a theorem.

## 5. Disagreements between code and documentation

One has a run and is listed as a finding: `pool_starves`. All workers that
`Init()` created leave on request, stay in `m_liveNum`, and the manager adds none
because the number says there are enough: a queued task is never executed.

Six are definitions that TLC refutes on the instance of a passing run, when
they are added to its configuration (each an INVARIANT, `RegisterReturns` a PROPERTY):

- `WithinCapacity` of `MsgQueue` (`MsgQueue.cfg`): senders that pass the unlocked
  test of `push()` together fill the queue beyond the "default capacity" of
  msgdata.h 18. By how much is `OvershootBounded`.
- `DestroyJoinsAll` of `ThreadPool` (`DynamicPool.cfg`): a worker made by `Init()`
  is not in the vector's size, so `Destroy()` completes while it is busy,
  although "busy threads are waited for by join" (thread_pool.cpp 216).
- `NoCrash` of `ThreadPool` (`FixedPool.cfg`): a fixed pool, which "needs no
  manager" (thread_pool.h 24), dereferences its null manager in `Destroy()`
  (thread_pool.cpp 220).
- `RegisterReturns` of `ModulMgr` (`ModulMgr.cfg`): a `PostMsg()` to several IDs of
  which one is unknown returns with the read lock (modul_mgr.cpp 114), and
  every later `Register()` waits for ever.
- `LoginsAsSent` of `ClientCell` (`TcpServer.cfg`): `RecvMsg()` is to take one
  message after the other from the receive buffer (client_cell.cpp 92), but the
  `memcpy()` that moves the rest up (client_cell.cpp 110) overlaps once more than
  two logins are there, which is ordinary with a buffer of 50 KB, and may mix them. `memmove()` would do.
- `ErrorsApart` of `Logger` (`Logger.cfg`): a file appender reports its error to
  `std::cout` under its own lock (log.cpp 617-619), in the middle of a line that a
  `StdoutLogAppender` writes. log.h 284 warns of lines that get mixed up.

Others were met while modelling:

- `push()` also fails for a second immediate message in a queue that is not
  full (msgqueue.cpp 43-48), though its comment says failure means full.
- `m_liveNum` is described as the size of the vector of workers
  (thread_pool.h 53); the workers of `Init()` are never in the vector.
- A pool may shrink below `m_minNum` (thread_pool.h 50), since `m_liveNum`
  counts threads that left.
- `PostMsg()` to several IDs may deliver to some and not to others
  (modul_mgr.cpp 105) when a module is removed after the scan; `AllOrNothing` of
  `ModulMgr` states it, and TLC refutes it on the instance of `modulmgr`.
- `UnRegister()` of a module that was not stopped joins a thread that does not
  end (modul_mgr.cpp 78).
- Two `UnRegister()` of one ID at a time may delete the module registered between
  them, thread running (modul_mgr.cpp 78-79).
- `Stop()` deletes the queue while the module's thread may be in `take()`
  (modul_base.cpp 117).
- `Timer::Comparator` orders timers by interval, but the set is declared without
  it (timer.h 65), so it is ordered by address; a timer that is due waits behind
  one that is not. `TimersFire` shows that it does get its turn.
- `ModulTimerMgr::Stop()` deletes the pool and keeps the pointer
  (modul_timer.cpp 68): the loop, or the destructor that calls `Stop()` again,
  uses it.
- A worker of the scheduler that found no task waits without testing again
  (scheduler.cpp 255), so a task added in between sleeps with it, and a thread
  that waits only after `Stop()`'s notifications is joined for ever.
- A function that yields READY leaves its fibre in the list and in the thread's
  hands; the next function this thread takes is lost, because `Reset()` ignores
  a fibre that is not finished (scheduler.cpp 179, fiber.cpp 169).
- `SetFormatter()` deletes the formatter that the appenders still use
  (log.cpp 235), and deletes nothing of an appender's own, which it overwrites
  although `hasFormatter` is there to prevent it.
- `Log()` walks the appenders without their lock (log.cpp 147).
- After a failed write `ReOpen()` never repairs the file (log.cpp 631), and
  returns true.
- The lines that one appender writes do not mix (`LinesWhole`), though log.h 284
  fears so of all. On `std::cout` they do, and not by `ErrorsApart` only: the
  errors of the parser (log.cpp 478) and a second `StdoutLogAppender`, with a lock
  of its own, are written there too.
- `TcpServer::OnLeave()` is to keep `clients` up to date when a client leaves
  (tcp_server.h 21 and 41); it takes the lock and does nothing (tcp_server.cpp
  216-220), so the list only grows, with pointers to deleted clients.
- `Accept()` is to choose a server with fewer clients (tcp_server.cpp 165); it
  compares with the first server only, since `min` stays as it was.
- `CellServer::Run()` tests its lists without the lock (cell_server.cpp 69): a
  client added before the wait is not served until another comes.
- Two threads inside `send()` to each other (section 3, the windows).

## 6. Plan and what is not modelled

Done, in this order: the locks with abstract specifications, refinement and
proofs; `MsgQueue`, and `ModulBase` composed from it; `ThreadPool`; `ModulMgr`;
`TimerMgr` and `ModulTimer`; `WThread`, `Fiber` and `Scheduler`; the logger; the
TCP server and client.

Left:

1. That `Semaphore` and `MsgQueue` as one give what `ModulBase` assumes of the
   semaphore.
2. Theorems about what no run states yet, such as where a task of `ThreadPool`
   is and which threads `m_workThs` holds.

Not modelled:

- `Thread::reset()` (nobody calls it), `Scheduler` with `useCaller` (scheduler.h
  28 puts it off), the ids and names of threads and fibres.
- `LogEvent::Format()`, the text of items, the destructor of `Logger` (the single
  logger is never deleted), two appenders of one file or both on `std::cout`.
- `TcpServer::Stop()` and `CellServer::Exit()`: they delete the servers while
  their threads run. `Monitor()` prints statistics; `AddSendTask()` has no caller.
- The errors of `select()`, which end a server's thread (cell_server.cpp 92-95) or
  the accepting one (tcp_server.cpp 182-186), and those of `accept()`: the model's
  sockets fail only when the peer leaves.
- `SafeQueue`: each operation is one critical section and nobody calls it.
- The example modules: a ring of forwards over the API.
- `ModulMgr::GetThis()` and the other singletons, made without a lock.
- `IOManager` (declarations only), the memory pool (does not compile), the rest
  of `file` and `func_pub` (pure I/O).
