# Portfolio OS (M2): verification of the kernel folio

Portfolio is the operating system of the 3DO M2: a small multitasking kernel
(the *kernel folio*), device drivers, a file system, an event broker, and audio,
graphics and streaming libraries on top. This directory holds TLA+ models of the
kernel folio and of the timer device on top of it, the TLC configurations that check
them on small instances, and proofs that TLAPS checks for instances of every size.

All paths below are relative to `src/ws_root/src/folios/kernel/` unless they
start with `src/`.

## 1. Inventory

Everything in the system is a *task* that makes *system calls* on *items*
(numbered kernel objects: tasks, semaphores, ports, messages, I/O requests,
devices, timers, interrupt handlers). The kernel is one shared-memory program; its
concurrency is cooperative inside a system call and preemptive outside:

- `exceptions.s` raises the caller's `t_Forbid` on entry to a system call and
  drops it on exit, so no other task runs until the call returns **or sleeps** in
  `SleepTask`. A call is atomic up to each sleep; what it read before it slept may
  be stale when it wakes.
- Interrupt handlers run between any two instructions outside `Disable`/`Enable`.
  They signal tasks, complete I/O requests, reply messages, and make tasks ready.
- A task can be killed at any point where it does not run, also while it sleeps
  inside a call. The killer repairs the structure the victim waits on (`Murder`),
  the victim frees the rest when it runs next (`internalKill` on itself). The
  memory of a dead task is reused for a new one.

| component | state | operations | hard parts | what makes it correct |
|---|---|---|---|---|
| semaphores (`semaphore.c`) | primary locker and nest count, shared lockers with nest counts, SHAREDREAD flag, waiting list | lock (exclusive, shared, wait or not), unlock, delete, set owner | direct hand-off to sleepers, batch wake-up with allocation failure, promotion of a secondary locker, death of holders and waiters | exclusion, no lost sleeper, true results, no overtaking, service |
| scheduler (`taskswap.c`, parts of `task.c`, `exceptions.s`) | ready queue, task states, current task, forbid counts, `PleaseReschedule`, quantum timer | yield, sleep, make ready, suspend, resume, change priority, swap on system call exit and on interrupt exit | interrupts that make tasks ready inside a forbidden section, a quantum that ends there, states that combine READY/WAITING with SUSPENDED | the queue holds exactly the runnable tasks in priority order, nobody of higher priority is left waiting, equal priorities share the CPU |
| message ports (`ports.c`) | message lists of ports, held-message lists of tasks, flags and holder of a message, `t_WaitItem` | send, reply, get, get this, wait on a port or a message, create, delete, change owner | direct hand-off to a waiter, priority order, death of sender, receiver or holder, deletion of a port with messages on it | a message is in one place, replies come once, waiters wake with what they waited for |
| signals (`signal.c`) | allocated, waited-for and pending bits of each task | alloc, free, signal (task or interrupt), wait | interrupt that signals between test and sleep, abort bit, reserved bits | no lost wake-up, no spurious bits |
| items (`item.c`) | item table with generation counters, free list, per-task resource tables, open counts | create, look up, open, close, delete, change owner, find | reuse of a slot, stale item numbers, item deleted while open, re-entrant delete | a stale number never finds a new item, each item is owned once |
| I/O requests (`io.c`, `devices.c`, `drivers.c`) | flags DONE/QUICK/INTERNAL, device queue, reply, `t_WaitItem`, `io_SigItem` | send, do, wait, check, abort, complete (from interrupts), delete | completion races with abort, wait and delete; quick I/O | each request completes once, its waiter wakes, no use after delete |
| task life cycle (`task.c`, `taskexit.c`) | task list, dead tasks, killer and killed flags | create, exit, kill, suicide, free | kill of a sleeping task, killer that sleeps for its victim, two killers, a killer that dies | every resource is freed once, killers wake |
| memory (`mem.c`, `memlock.c`) | free lists of pages and blocks per page pool, write fences | allocate, free, control access, scavenge | coalescing, memory that changes owner, lock handlers | no overlap, no leak |
| timers (`timer.c`, `timer.s`) | sorted list of armed timers, decrementer, clock | create, load, unload, service, set clock | 32-bit decrementer against 64-bit time, a clock that jumps, timers that rearm themselves in their callback | timers fire in order, none is lost |
| interrupts (`firq.c`) | handler lists per interrupt, enable bits | create, delete, dispatch | deletion from inside a handler | handlers in priority order, disabled when there are none |
| folios, DDF (`folio.c`, `ddf.c`) | folio list, open counts, device description files | create, open, expunge, query | demand loading while other tasks open the same folio | load once, expunge only unused |
| lists, bit arrays, tags (`list.c`, `bitarray.c`, `tags.c`) | none of their own | pure operations on data | boundaries | agree with their definition |
| second CPU (`mp_master.c`, `mp_slave.c`, `spinlock.c`) | hand-over record in shared memory, spin lock words | dispatch to the slave CPU, spin locks | two processors without cache coherence | one owner of the record at a time |
| exceptions, debugging, monitors, dipir, boot (`exceptions.c`, `debug.c`, `lumberjack.c`, `monitor*.c`, `dipir.c`, `main.c`) | hardware state | reports and boot | hardware | – |
| timer device (`src/ws_root/src/devices/operator/timer.c`) | requests sorted by target time, requests that count vertical blanks, one kernel timer | delays and metronomes in time or in blanks, until a date or for a span, abort, set the clock | one timer for all, late interrupts, aborts, failed signals | nobody is overdue unnoticed, metronomes keep their beat, delays end |
| other device drivers (`src/ws_root/src/devices/`) | hardware and request queues | one per device | hardware timing | – |
| file folio and file systems (`src/ws_root/src/folios/file/`) | mounted file systems, open files, blocks | open, read, write, mount | several tasks in one file system, disc changes | – |
| event broker, audio, graphics, streaming, requester, save game (`src/ws_root/src/`) | listeners, instruments, buffers | user-mode services over ports and I/O | protocols over messages | – |

Which module models what:

| component | modules |
|---|---|
| semaphores | `Semaphore`, abstract `RWLock`; `SemaphoreProofs`, `RWLockProofs` |
| scheduler, lists | `Scheduler`, `Lists`; `SchedulerProofs`, `ListProofs` |
| message ports, message-based I/O | `MsgPorts`; `MsgPortsProofs` |
| timers, timer device | `Timer`, and `TimerDevice` which extends it; `TimerProofs` |
| tasks, signals, I/O requests | `TaskLife`; `TaskLifeProofs` |
| items | `ItemTable`; `ItemTableProofs` |

Sections 2 to 7 take them in this order. Each has an `MC` module with the values of its
constants; the definitions whose names end in `_Something` and whose comments begin
with "Mutant of" are wrong variants of the definition after them, against which the
properties were tried.

## 2. Semaphores

### The model: `Semaphore.tla`

One semaphore, any number of tasks. A variable stands for each field of the
`Semaphore` structure (`sem_Locker`, `sem_NestCnt`, the SHAREDREAD flag, the
waiting list, the shared-locker nodes and their counts) and for what a task keeps
while it sleeps in `LockSemaphore` (`inLock`, `taskWaiting`, `t_WaitItem`).
`LockSemaphore` is one action per way it ends; when it sleeps, a second action
(`LockWoken`) is the rest of the call. `UnlockSemaphore` of the last lock contains
the whole hand-over: promotion of a secondary locker, a grant to one exclusive
waiter, or a batch grant to the shared waiters at the head of the list, each of
which may fail to get its node. `Murder` is what a killer does to its victim, `Die`
what the dying task does (delete the semaphores it owns, unlock the others), and
`Spawn` the reuse of its memory by a new task.

`RWLock.tla` is the abstract specification: a readers-writer lock that knows how
often each task holds it, in which mode, and who waits for what.

### Runs

| run | instance | shows |
|---|---|---|
| `semaphore_safety` | 4 tasks, nesting to 2, callers that may break the relock rule | the safety properties, and that every behaviour is one of `RWLock` |
| `semaphore_liveness` | 3 tasks, callers that keep the rule, fair | every sleeper wakes, and nobody sleeps on a lock that it holds |
| `semaphore_deadnode` | 3 tasks | *violated*: the node of a dead task stays on `sem_SharedLockers` |

Bounds: four tasks are a primary locker, a batch of one head and one follower, and
an exclusive waiter behind them; nesting to 2 tells "count is kept" from "count is
reset to 1". Fairness: a task that is ready eventually runs (`LockWoken`); holders
eventually unlock, and do not lock and unlock for ever without dropping their
last lock (a condition on callers, without which no lock can promise service).

### Proofs: `SemaphoreProofs.tla`, `RWLockProofs.tla`

`Invariance` proves `SemaphoreInv` inductive for every set of tasks and every
nesting bound. The safety properties alone are not inductive: exclusion needs to
know that in exclusive mode no shared node counts, a grant is real only if sleepers
are live tasks whose result is still the semaphore, and a new semaphore must not
meet a leftover waiter. The lemmas on lists (`WithoutQueue`, `RestQueue`,
`AppendQueue`) say how the set of queued tasks changes; `HandoverInv` is the heart:
each of the four hand-overs preserves the invariant.

`RWLockProofs` builds on it. `HandoverCases` says what the last unlock does to the
counts (somebody is promoted, nobody is left, one exclusive or several shared waiters
are granted the lock, waiters are told NOMEM), and `StepCases` sorts the steps of all
actions by what they do to counts and queue. From these follow that no task is
overtaken (`NobodyIsOvertaken`), that a hand-over loses no count
(`HandoverKeepsCounts`), that a holder never waits if callers keep the relock rule
(`HoldersNeverWait`, which assumes `Disciplined`), and that every step is a step of
`RWLock` or none (`SemaphoreIsRWLock`: `Spec => ImplementsRWLock`, one step of the
proof for each action).

## 3. The scheduler

### The model: `Lists.tla`, `Scheduler.tla`

`Lists` has the kernel's list operations on sequences: `REMOVENODE`,
`InsertNodeFromTail` and `InsertNodeFromHead`. The two insertions are given by
where the search of the code stops, so that nothing is assumed about the order of
the list.

`Scheduler` has the ready queue, the state and priority of every task, the Forbid
counts, `kb_PleaseReschedule`, and the quantum timer with the time the current task
has run. An action is one section of code that runs with interrupts disabled, so
an interrupt may come between any two actions, and a system call is any series of
them between `EnterForbid` and `LeaveForbid`:

| action | code |
|---|---|
| `EnterForbid`, `LeaveForbid` | entry and exit of a system call (`exceptions.s`), `Forbid`, `Permit`; the exit contains `SwapTasks` |
| `Yield`, `SleepTask` | `internalYield`; `LandWaiter` and `ScheduleNewTask` |
| `Wake`, `InterruptWake` | any caller of `NewReadyTask`, in a system call or in an interrupt handler |
| `CreateTask`, `Kill`, `Die` | the scheduling part of `internalCreateTask`, `Murder` and `internalKill` |
| `ChangeOwnPri`, `ChangeSleeperPri`, `ChangeReadyPri` | the three branches of `internalChangeTaskPri` |
| `UserException`, `ResumeTask` | `HandleUserExceptions` with `SuspendTask`; `CompleteUserException` |
| `Tick`, `QuantumTimer` | time passes; `_cblank` |
| `InterruptExit` | `CheckForTaskSwap` |

Abstractions: a quantum is a small number of ticks, and the decrementer interrupt
is served before another tick passes; `ran` stops at `Quantum`, beyond which
`SubTimerTicks` returns 0 anyway; which system call wakes or sleeps is left open. A
priority change of a suspended task would corrupt links in the code; callers are
assumed not to make one. The debugger's `SuspendTask`, `ResumeTask` and `AbortTask`
on other tasks are not modelled.

### Runs

| run | instance | shows |
|---|---|---|
| `scheduler_safety` | 3 tasks (one of them the operator, which neither dies nor traps), 2 priorities and Murder's, quantum 2, Forbid to 2 | the safety properties and the inductive invariant |
| `scheduler_liveness` | 3 tasks of one priority, nobody dies | every ready task runs |

Bounds: two tasks on the queue beside the running one are enough for an order, an
equal and a higher one; two ticks tell a part of a quantum from a whole one; a
Forbid count of 2 is a `Forbid` inside a system call, or a supervisor-mode task in
a system call.

Fairness: an interrupt handler ends (weak, `InterruptExit`); time passes (weak,
`Tick`); the decrementer interrupt is taken (strong, because other interrupts come
between); tasks leave their Forbid sections (weak for `LeaveForbid`, strong for the
outermost one, because a task may sleep and be preempted inside). The last is a
condition on callers: a task that never permits keeps the CPU, by design. Liveness
is checked for one priority because strict priority starves lower ones by design,
and without priority changes because each change of a ready task puts it behind
its equals again.

### Proofs: `ListProofs.tla`, `SchedulerProofs.tla`

`SchedulerInvariance` proves `SchedulerInv` for every set of tasks, every set of
priorities and every quantum, and the other theorems follow. "A preemptible task
is never below a ready one" is not inductive: inside Forbid it is false, and what
makes it true again is that every path that puts a task above the running one on
the queue also sets the reschedule flag, and that the flag is never up while a
preemptible task runs. So the invariant has: the queue is exact, sorted and
without duplicates; higher ready tasks imply the flag; equal ones imply the timer
or the flag; in the idle loop a non-empty queue implies the flag; only ready tasks
are suspended; only the current one has expired.

The proof works on `InvQ`, the same invariant grouped as the steps use it
(`SameInv`). `ListProofs` shows that removal and both insertions change the set of
nodes by one and keep the order. On these rest `LaunchGood` and `NewReadyGood`
(what `Launch` and `NewReadyTask` establish), on these `LaunchStep` and `ArriveStep`
(the two ways a step changes the queue), and on these one lemma per action. What
is on the queue (`ReadyQueueCorrect`) and in which order (`ReadyQueueInOrder`) are two
theorems. The
case worth reading is `ChangeOwnStep`: when the running task lowers its priority the
code requeues only the first ready task; the lemma shows that this is enough,
because the queue is sorted.

## 4. Message ports

### The model: `MsgPorts.tla`

Ports with their queues, messages with owner, holder, reply port and flags, the
messages each task holds, `t_WaitItem`, and the message-based I/O requests whose
completion replies a message from interrupt code. A call that changes messages in
more than one section with interrupts disabled is split there, `call` says where it
is, and only `CompleteIO` comes between the steps:

| action | code |
|---|---|
| `SendMsg`, `ReplyMsg` | the two external calls down to `internalDeliverMsg` (`Deliver`: hand over to a waiting owner, or queue) |
| `GetMsg`, `GetThisMsg`, `GetDone` | also the paths of `WaitPort` that find their message; `GetDone` writes `msg_Holder`, which the code does after `Enable` |
| `WaitPortForAny`, `WaitPortForMsg`, `WaitIO`, `WaitReturn` | the sleeping paths, and what follows the sleep |
| `DeleteMsg`, `DeleteMsgDone` | removal and mark; then the waiters are told |
| `DeleteMsgPort`, `Drain`, `Bounce`, `DeleteMsgPortDone` | the loop that returns what is on the port |
| `SetMsgPortOwner` and `...Done`, `SetMsgOwner` | `internalSetItemOwner` with its two routines |
| `CreateIOReq`, `SendIO`, `CompleteIO`, `DeleteIOReq` | the part of `io.c` that uses messages |
| `Murder`, `Exit`, `FreeResources`, `ReplyHeldMessage`, `Die` | the death of a task |

`REMOVENODE` takes a node off whichever list it is on, so that a message that is
linked in two places, or where its holder does not say, shows. Abstractions: the
data of a message and the signal to a port's owner are left out; every item is
created once, by a fixed task; the list of held messages is a set, so the dying
task's replies come in any order; a dying task enters `internalKill` when its
requests are back from the device; whoever kills is not one of the tasks. Programs
leave the messages of I/O requests to the I/O system, and an I/O request replies to
a port of its creator, as the autodocs ask.

### Runs

| run | instance | shows |
|---|---|---|
| `ports_safety` | client, its thread, server, 2 ports, 1 request, 1 I/O request of higher priority; the client's port and request change their owner | the safety properties |
| `ports_liveness` | client and server, 1 request, 1 I/O request, equal priorities, fair | the client that sleeps for its reply wakes up; messages of equal priority keep their order |
| `ports_handover` | an I/O request and a port that is given away | *violated*: the port is not empty when it changes hands |

A request and an I/O message on one queue are an order and an equal; a third task of
the client's family is one that may get and reply what it does not own. Strict
priority starves messages of lower priority by design, so liveness is checked for
equal priorities. Fairness: system calls and deaths go on and devices complete
(weak); a task that is awake gets to run (strong, because other calls come between);
the owner of a port gets its messages and replies what it holds (strong, a condition
on servers; `Polite` adds that tasks do not sleep with somebody else's request in hand
and wait for their own request at its reply port).

`MessageInOnePlace` is the property worth reading: `GetMsg` writes the holder after
it has enabled interrupts, and the only thing that keeps a completion interrupt
from delivering the same message in that gap is a test in `StartIO`, in another
file, whose own comment is about something else. It does not hold when the reply ports
of I/O requests change hands, which is why `Transfers` has the client's port only.

### Proofs: `MsgPortsProofs.tla`

The invariant comes in layers, each resting on the ones before it:

| invariant | says | needs |
|---|---|---|
| `ShapeInv` | types, what the pending call is about, sorted queues without duplicates | – |
| `AwakeInv` | the task inside a call is awake; what `t_WaitItem` may be; the reply port of a message exists | – |
| `PlaceInv` | `MessageInOnePlace`, and where the message of the pending call and of each I/O request is | `PrivateRequests` |
| `HeldInv` | what a wait returned is held; the dead have replied | `PrivateRequests` |
| `MailInv` | a sleeper's port is its own, and empty of what it waits for | `PrivateRequests`, `PortsKept` |
| `LiveInv` | what a sleeper waits for can still come | no privileged tasks |

A message moves in few ways (`ToTask`, `ToPort`, `ToNowhere`), and `Relinked` says what
each does to all queues and to all held messages; the proof of `PlaceInv` goes through
the actions with these. `PortsAreFIFO` is about steps: `QueueChange` says that a step
leaves a queue, takes one message off it, or inserts one behind its equals.

Three hypotheses stay in the theorems because the properties are false without them,
as TLC shows on the same instances:

- `PrivateRequests`: nobody else of the family of a request's creator can get at the
  request's message, and its reply port is not given away. Otherwise a thread may
  `GetThisMsg` the message of its parent's request (the test is for the family,
  `ports.c:775`), the parent sends the request again (`StartIO` only asks whether the
  message is replied, `io.c:1084`), and when the thread exits, `ReplyHeldMessages`
  (`task.c:449`) replies the message of a request that the device still has.
- `PortsKept`: ports are not moved by privileged tasks. Otherwise one takes a port from a
  sleeper and gives it back with a message on it, and the sleeper goes on sleeping.
- `Privileged = {}` in `SleepersCanBeWoken`: a privileged task that takes the port away
  leaves a sleeper that nobody will wake.

## 5. Timers and the timer device

### The model: `Timer.tla`, `TimerDevice.tla`

`Timer` has the sorted list of armed timers, the time base, the decrementer and its
exception. Two clocks of different width are the point: a wake time has 64 bits, the
decrementer 32, and it interrupts when its top bit goes from 0 to 1, also when it is
*written* so. `TimerDevice` composes it with the driver on top: two queues of requests,
one kernel timer that is loaded for the first of them.

| action | code |
|---|---|
| `ClientCreates`, `ClientDeletes`, `ClientLoads`, `ClientUnloads`, `ClientHandlerReturns` | another driver's use of `internalCreateTimer`, `internalDeleteTimer`, `LoadTimer` and `UnloadTimer`, also from its handler |
| `TimePasses`, `TakeDecrementer`, `ServiceLoop` | time; the exception; one turn of the loop of `ServiceDecrementer` |
| `Cmd...` | the commands of the device that wait or set the clock |
| `USecHandler`, `ProcessDue`, `ProcessDone` | the timer's handler and the loop of `ProcessUSecWaiters` |
| `VBLHandler` | the vertical blank |
| `AbortTimerIO` | the driver's abort |

Time goes on between any two steps, also while interrupts are disabled, so every
interrupt may be late by any amount. Abstractions: units of time are equal (a
conversion of microseconds is data), the vertical blank comes at any time, and a
metronome's signal succeeds or fails as its owner likes. Commands that only read the
clock change nothing and are left out.

### Run

`timer_service`: two requests with all commands between them, a periodic timer of
another driver, a decrementer of two bits, time up to 4. Two bits are enough for every
case of `StartDecrementer`: a delay that fits, one (3) that sets the top bit and
interrupts at once, and one (4) that has to be loaded in parts. Vertical blanks are
counted modulo 3. It shows that nobody is overdue without an interrupt that is about to
look (`NothingOverdue`), that a metronome sends as many signals as intervals have passed
however late it is served (`MetronomeKeepsCount`), that requests are where they should
be (`WaitsInOneQueue`), and that delays in vertical blanks end (`DelaysEnd`).

Fairness: interrupts are taken and handlers and loops go on. Vertical blanks and
decrementer exceptions wait for one another and for calls, and come again: strong.
Time need not pass (it is bounded), so only the delays that count blanks are said to
end; what `NothingOverdue` says of the others is that they end in time if it passes.

Two conditions of the run are conditions on the callers: the clock is set while no
periodic timer is armed (a comment in the code says that it is set at boot), and a
request whose metronome ended by an error is not used for a delay.

### Proofs: `TimerProofs.tla`

For any number of timers and requests and any width of the decrementer. `TypeCorrect` and
`RequestsWaitOnce` need nothing; the others assume `~SetsLate`, the first of the two
conditions (the second is needed for `DelaysEnd` only). `NothingOverdue` is not inductive,
as it says nothing of what is not yet due. What is inductive is a chain of promises:

- the list of armed timers is sorted by wake time (`Rising`), and the decrementer reaches
  0 no later than the first of them is due (`DecOnTime`), or an exception is on its way;
  after the clock was set it expires at once (`StartDec` has the three cases of
  `StartDecrementer`);
- the device's only timer is armed, and no later than its first request is due
  (`UTimerLoaded`), unless its handler is about to look;
- so that if a request is overdue its timer is, and then so is the decrementer.

`MetronomesKeepCount` adds `BeatsInStep`: the target of a metronome is its start plus the
beats it has sent plus one, which holds because the code adds the interval to the
target and not to the time of service.

## 6. Tasks, signals and I/O requests

### The model: `TaskLife.tla`

A family of tasks: who is alive, doomed (`Murder` has been at it), dying (it deletes
itself) or dead, where each is and whether it sleeps, its signal bits, and the requests
with their owner, flags and `io_SigItem`. A call is one step unless it sleeps, and then
one step per turn; `DoIO` and `FreeResources` are several, because a completion may
come from an interrupt between them, and no other task runs meanwhile (`Runs`).

| action | code |
|---|---|
| `SendIO`, `DoIO`, `DoIOWaits`, `WaitIO`, `WaitIOReturns`, `CheckIO` | the calls of the same names, with `StartIO` and the driver's choice to serve at once or to keep the request |
| `DeviceCompletes`, `AbortIO` | `internalCompleteIO` by an interrupt, or by the driver that is asked to abort |
| `DeleteIOReq`, `FreeIOReq`, `AbortIOReqs`, `AbortReturns` | the three users of `internalAbortForeignIO`, and its loop |
| `SetIOReqOwner`, `internalCreateIOReq`, `CreateTask` | creation and change of owner |
| `internalWait`, `internalWaitReturns` | `WaitSignal` for a request or for the death of a child |
| `internalKill`, `KillReturns`, `exit`, `KillSelf` | the killer's part; the end of a task by itself or when it comes back from the call it was killed in |
| `FreeChild`, `FreeIOReq`, `FreeRest`, `Dies` | the passes of `FreeResources`, and the rest of `internalKill` |

Left out: callbacks and `IO_INTERNAL` (drivers on top of drivers), allocation of signal
bits, the data of a request. The dead are not reborn; `Semaphore` has that.

### Run

`tasks_life`: a task, its thread and the thread's thread, with one request that changes
hands. Three generations are a killer that is killed while it waits for its victim.
`NothingOutlivesItsOwner` says that the dead leave no child and no request behind and
no device works on freed memory; `SleepersHaveAWaker` that nobody sleeps for what has
already happened or for somebody who does not know of him; `TheDoomedDie` that every
death ends. Fairness: the scheduler lets every ready task go on (strong, as tasks that
call `DoIO` keep the others from the processor for a moment), and drivers complete what
they were told to abort (weak; the interface of drivers asks for it).

Two conditions are conditions on programs, and neither is enforced by the code:
`Orderly`, that nobody exits or is killed while one above or below it in the family is
dying, and `Careful`, that a request which one task aborts is left alone by the others.
Section 8 says what happens otherwise. It is not enough for `Orderly` to look at
parents and children: in four generations, the youngest exits, its grandparent is
killed, and the parent, which the grandparent kills in turn, passes over the youngest
because that is already deleting itself, and is outlived by it.

### Proofs: `TaskLifeProofs.tla`

For any family (a task's ancestors end at some point, `TaskLifeAssumption`) and any
requests. `ShapeInv` holds without conditions and is `TypeOK` with four parts: what a call
has set up for its return (`CallShape`), how far a life is (`LifeShape`), that requests
belong to the living and to the call that is with them (`OwnerShape`), and that a client
that is about to sleep for a signal has it already if the event is over
(`SignalShape`, the lost wake-up between test and sleep).

`NothingIsLeftBehind` needs `Orderly` and `KilledByParent`. "No child outlives its
parent" is not inductive, since a parent may die just after it has passed over a child.
`DeathInv` adds that a dying task still comes to each living child or waits for it
(`ChildrenSeen`), that nobody below a task that was killed, or that a dying one still
comes to, is going already (`BelowDoomed`, `BelowTodo`), and that a killer sleeps until
its victim is dead (`VictimKnowsKiller`, `KillersWait`). `MurderInOrder` and
`SuicideInOrder` are the two steps that matter; the lemmas on `Line` give them what
"above" and "below" mean without a recursive definition.

`SleepersWillBeWoken` needs `Careful` and `KilledByParent`, not `Orderly`: `io_SigItem` and
`t_Killer` have room for one name each, and `AbortersKnown` and `VictimKnowsKiller` say
that it is the sleeper's.

`KilledByParent`, that a task is killed by its creator only, is true of the run. The
code lets any task of the family kill; with two killers the second overwrites
`t_Killer` (`task.c:354`) and the first sleeps for ever.

## 7. Items

### The model: `ItemTable.tla`

The table of items with the generation of each entry, the chain of free entries, and
each task's resource table with its chain of free slots. The chain of slots is modelled
as the code stores it, in the same words as item numbers, because the code that cleans
up when a generation wraps (`RemoveItemReferences`) does not tell them apart. The actions
are creation (which may fail after the slot was taken), open, close, delete, change of
owner, growth of a table, and the death of a task. Whether an item refuses a call
(`ir_Create`, `ir_Open`, `ir_Close`, `ir_Delete`, `ir_SetOwner`) is a choice.

`OpenItem` and `CloseItem` are two steps each, since `ir_Open` and `ir_Close` may sleep and
make calls of their own: an open loads a driver and opens a lower device, and the last
close of a device closes the lower one and then deletes the device (`internalCloseDevice`,
devices.c:688-701), all before `internalCloseItemSlot` frees the slot (item.c:1157). So a
table may have several calls under way, each with its slot: `call` says which slot is
set aside for an open or is being closed, and of which item. Every other action may come
between the two steps of a call, the deletion of the item among them, by its owner or by
the code of `ir_Close`. An open that is refused gives its slot and its count back; a
close that is refused counts the item as open again.

Death is `Exits`, any number of `FreeResources` steps that close or delete what is in a slot,
and `FreeTask`. `FreeTask` does not wait for the table to be empty: it drops the table with
whatever is in it (task.c:218-219, 505), because an `ir_Close` or `ir_Delete` refused, an
item was already being deleted, or something came into a slot after the passes. So an
item may outlive its owner, and then `realDeleteItem` refuses it (item.c:1872-1873) and only a
change of owner helps; and an open may stay counted for ever. The second is kept in `lost`, which the
code does not have: how many opens of an item died with a task.

The chain of free slots is stated without recursion: its slots are free, no two have the
same successor, none leads back to the first, and the free slots are the only set of free
slots with the first that is closed under the links (`ChainsHoldTheFreeSlots`). An open
count is the number of slots that have the item open, or are about to, and are not being
closed, and of the lost opens (`OpensAreCounted`). An item is in the table of its owner
once, as long as the owner lives (`ItemsAreOwnedOnce`).

What is left out:

- *Order.* `FreeResources` takes the slots in any order; `internalKill` makes six passes by
  type (tasks, I/O requests, closes of devices, devices, all closes, all), each from
  the last slot down, and stops when a pass ends with the table as large as it was. The
  model allows this order and more. That inner calls return before the outer one is left out too.
- *`ir_Delete` that sleeps.* A delete is one step, at its end. A task (killed) or an I/O
  request (aborted) sleeps in `ir_Delete`, which `TaskLife` models; a device may, for its
  semaphore or its driver. The mark `ITEMNODE_DELETED`, which refuses opens and other deletes
  meanwhile, is therefore not in the model, and neither is that `realDeleteItem` removes the
  item from the owner it read before it slept.
- *Whose call.* A task calls for itself; folio code that opens or closes for another task
  (the `AsTask` variants) is not modelled, nor an `ir_Open` that returns another item than it got.
- Names, priorities and the search for items.

### Runs

| run | instance | shows |
|---|---|---|
| `items_references` | 2 tasks, 2 entries, 3 generations, 2 slots, 2 calls under way per table, item indices above slot numbers | numbers of deleted items find nothing, owners and open counts agree with the tables, chains are intact (`ReferencesAreSound`) |
| `items_wrap` | 2 generations, 3 slots, 1 call under way, indices as small as slot numbers | *violated*: a chain of free slots is broken |

A few generations instead of 32768 make the numbers come round at once, which is the case
of interest. Two slots are enough for a task to own an item and to have it open, or to
open one inside of the open of another, and to be refused; with three slots, one call and two
generations `items_references` passes as well (2,010,334 states, too many for a regular run).
Bounds, beside those of the instance:

- `CallsAreShort` (not with `WrapInCalls`): the last generation of an entry does not end during
  an open or close of its item. *The code does not hold to this.* When the device's
  entry is in generation 32767, its last close deletes it in `ir_Close`; the generation
  wraps, `RemoveItemReferences` frees the slot that is being closed, as it still holds the
  number, and item.c:1157 frees it a second time, so that the slot links to itself and is
  given out for ever. With `WrapInCalls = TRUE` TLC shows `ChainsHoldTheFreeSlots` violated in
  this way, so that sequence is excluded by the bound and not covered by the run.
- `OpensTwice = FALSE`: a task has one number of each entry open. With `TRUE`
  `ReferencesAreSound` is violated, since `RemoveItemReferences` frees one slot of a table.
- A slot is not closed while it is being closed, and a table is not grown by 0 slots, for
  which the code would chain a slot that is not there.

### Proofs: `ItemTableProofs.tla`

| theorem | states |
|---|---|
| `ChainsAndOwners` | chains are intact and every owned item is in its owner's table, in one slot, until the owner is dead, and in no other, whatever programs open |
| `ReferencesSound` | `ReferencesAreSound` |
| `TypeCorrect` | `TypeOK`; open counts do not go below 0 |
| `ReferencesSoundAboveSlots` | both, for constants like those of `items_references`: indices above the slot numbers, not `OpensTwice`, not `WrapInCalls` |

All four assume `~WrapInCalls`, the bound `CallsAreShort` above: they say nothing of an open or
close during which the last generation of the item's entry ends. The first three are about
executions, under hypotheses without which they are false:

- `LowEntriesAreYoung`: no entry whose index is also a slot number is in its last
  generation. When the generation of such an entry wraps, `RemoveItemReferences` may take
  a link for a number of the entry (section 8, `items_wrap`).
- `LastOpensAreSingle` (not for `ChainsAndOwners`): no task has two numbers of an entry in
  its last generation open. `RemoveItemReferences` frees one slot of each task, and a
  second number would find the new items of the entry, generations later.

Both hold until some entry has been used 32768 times. The last theorem shows that they
follow from the conditions on the constants.

`Inv` is what `ChainsAndOwners` rests on: the shape of each table and its chain, where the
slots of sleeping opens are set aside (`TablesInv`); the free entries of the item
table, each once and not live (`FreeInv`); a slot that is being closed still has the item
(`CallInv`), without which the second step of a close would free a free slot; a dead task has nothing and is
inside of no call (`StateInv`); an owned number is the number of a live item of that task,
in one slot, and every live item has such a slot unless its owner is dead (`OwnInv`).
`ReferencesSound` needs two more parts. `OpenInv`: an open number of
a deleted item has an earlier generation than its entry, and any other open number is that
of the item; this is inductive because the generation only grows until it wraps, and then
the hypotheses make `RemoveItemReferences` find every such number. `CountInv`: the count of a
live item is the number of slots that count for it and of the lost opens. Both are stated
through views of a slot that do not depend on the call under way: `Has`, the number that a
slot or its call has, and `Counts`, whether it counts as an open, which a slot that is being closed
does not. Each step then makes one slot come or go (`SlotCounted`), or moves
all the slots of a dead task to `lost` (`FreeTaskFull`), or leaves them.

Before the proof, TLC checked `TypeOK` and `ReferencesAreSound` under the hypotheses also with
`OpensTwice` and with indices among the slot numbers.

## 8. What the violations say

Three runs show that the code does something else than a comment next to it says;
`PROJECT.json` quotes the lines.

1. `semaphore_deadnode`: the node of a task that dies as primary locker is not
   removed from `sem_SharedLockers`.
2. `ports_handover`: a port gets a message between the test that it is empty and the
   change of its owner.
3. `items_wrap`: when the generations of an entry come round, a task with a table larger
   than the index of that entry has a free slot freed a second time.

Conditions under which the passing runs hold, because the code relies on them: with the
constant changed, TLC shows the property violated.

| constant | what is then possible |
|---|---|
| `Disciplined = FALSE` in `semaphore_liveness` | `HoldersDoNotWait`: a secondary shared locker that asks for exclusive mode sleeps on its own lock; only the primary one is refused |
| `SetsLate = TRUE` in `timer_service` | `NothingOverdue`: setting the clock moves periodic timers without sorting the list |
| `Recycled = TRUE` in `timer_service` | `DelaysEnd`: a metronome that ended by an error keeps its mark, and a delay with the same request never ends |
| `Orderly = FALSE` in `tasks_life` | `NothingOutlivesItsOwner`: a child (or, in a longer line, a grandchild) that is already exiting is passed over by its dying parent and outlives it, against `autodocs.c:2377` |
| `Careful = FALSE` in `tasks_life` | `SleepersHaveAWaker`, `TheDoomedDie`: `io_SigItem` has room for one aborter, the second overwrites the first; a request sent again makes the aborter wait for the new operation |
| `OpensTwice = TRUE` in `items_references` | `ReferencesAreSound`: one slot per task is cleaned when the generation wraps, a second one finds the next item |
| `WrapInCalls = TRUE` in `items_references` | `ChainsHoldTheFreeSlots`: the last close of a device deletes it, the generation wraps, and the slot that is being closed is freed twice (item.c:1157) |

Met on the way, without a property: a message that a dying task cannot reply stays
linked on the freed task (`ports.c:1813`); shared waiters go on waiting after the only
exclusive waiter before them was killed, until the next unlock; part of a quantum is
taken off twice when an equal arrives and the task is then preempted
(`taskswap.c:642`); `internalChangeTaskPri` unlinks a suspended task that is on no list;
`TIMERCMD_DELAYUNTIL_VBL` for a count that has passed waits for nearly 2^32 blanks,
where `autodocs_cmds.c:1959` has it return at once; a completion from an interrupt
between the start of a request by a callback and the end of `internalSendIO` is dropped
by the test of `IO_INTERNAL` (`io.c:644`).

## 9. What is only model-checked, what is left out

Proved for all instances: every invariant and every action property that a run checks, of
semaphores, scheduler, message ports, timers, task life and items, and the refinement of
`RWLock`, on the lemmas of `ListProofs`. Hypotheses are named in the theorems and
explained above.

Model-checked only: liveness (`WaitersAreServed`, `ReadyTasksRun`, `RequestsAnswered`,
`DelaysEnd`, `TheDoomedDie`), which is out of the proof system's reach.

Not modelled: hardware (drivers other than the timer's, second CPU, caches, write
fences), boot and digest checks, the host debugger, memory, interrupt handler lists,
folios, file systems, audio, graphics and other user-mode services; see the components
in `PROJECT.json`.

## 10. Plan

1. Memory: the page pool and its free lists, with the scavenging of unused memory.
2. `firq.c`: handler lists and their deletion from inside a handler.
3. Signal bits: allocation, and the ports and drivers that keep one while it is freed.
