# LXAPI32: a TLA+ model of the driver's core

LXAPI32.SYS is an OS/2 device driver that hosts a Linux 2.6.5 kernel API, so that
Linux drivers and file systems run on OS/2. What the ring-0 driver cannot do
itself (files, extended attributes, starting programs) is done for it by a
user-mode daemon, LXAPID.EXE. This directory holds TLA+ modules for the driver's
own logic, TLC configurations that check them on small instances, and proofs
checked by TLAPS. Paths below are relative to `src/`.

## 1. Inventory

Third-party code is left aside: `Linux/`, `Include/` and the adapted kernel files
of `os2/{arch,drivers,fs,init,kernel,lib,mm}`, except where the driver changes what
they do: the scheduler's switch, wakeup and exit (`ok_sched.c`, `ok_exit.c`) and the
interrupt code (`oak_irq.c`, `oak_i8259.c`). The program's own logic is in `Daemon/`,
`Dev32/` and `os2/os2/`.

| Part | State | Operations | What is hard | What makes it correct |
|---|---|---|---|---|
| Daemon command channel (`Dev32/lxdaemon.c`, `Daemon/lxapid.c`) | daemon pid and state, handle counter, waiting and done lists, callers' packets and buffers, the daemon's data packet | `LX_dmn_add_command`, `LX_dmn_get_result`, ioctls CMDGET and CMDSETRESULTS, `LX_daemon_closed`, the daemon's loop | callers and daemons interleave; the daemon dies; allocations fail; a wakeup races a sleep | a caller gets the answer to its own command, once, in its own buffer, while it waits; commands run at most once and in order; callers return |
| Wait list (`Dev32/lxwaiton.c`) | list of waiters with flags | `LX_WaitOn`, `LX_RunOn`, `LX_ReschedWaitOn` | wakeup before sleep; moving sleepers from DevBlock to a Linux wait queue | a wakeup after the sleep began ends it, unless the move takes it |
| Service thread (`os2/os2/oo_thread.c`) | start list, one mailbox `lx_started_task`, softirq count | `LX_ServiceThread`, `LX_StartNewTask`, `LX_wakeup_softirq` | hand-over through one mailbox, waiting starters | every task starts once, on its own stack |
| Task tracking and run queue (`os2/os2/oo_process.c`, `os2/kernel/ok_sched.c`) | `lx_current` list, `lx_current_task`, `lx_exit_list`, run queue, utility stacks | `LX_enter_current`, `LX_leave_current`, `schedule`, `LX_switch_to`, `try_to_wake_up`, `do_exit`, ... | run-before-block; threads that OS/2 wakes behind the scheduler's back; freed tasks | the queue holds what can run; what is woken runs; nothing freed is used |
| Start-up and shutdown (`Dev32/lxinit.c`, `lxstrategy.c`, `os2/os2/oo_init.c`, `oo_startchk.c`) | `P_INIT_COUNT`, daemon state | `LX_StratInit`, `LX_wait_for_daemon`, `LX_StratShutdown` | waiting for a process that may never come | the steps happen in order and end |
| Strategy, ioctls, devices (`Dev32/lxstrategy.c`, `lxioctl.c`, `lxuioctl.c`, `lxustrat.c`, `lxidc.c`) | list of open devices, open count | open, close, ioctls, IDC | error paths | a close frees what its open made |
| Interrupts (`Dev32/lxdispatch.c`, `os2/os2/oo_irq.c`, `os2/arch/kernel/oak_irq.c`) | use count, status, depth and actions of each line | request, free, disable, enable, dispatch | sharing; nested and concurrent interrupts; lists that change under a handler | no re-entry, no freed action, registered exactly while in use, no interrupt lost |
| Memory (`Dev32/lxmemory.c`, `lxmemlock.c`, `lxszopt.c`) | selectors, allocations | allocate, free, verify, lock | widths, limits | no overlap, no leak |
| Resource manager (`Dev32/lxrm.c`) | handles | calls to RESOURCE$ | none | - |
| LXAFS (`os2/os2/fs/lxafs/`) | inodes, directory cache, link lists kept in extended attributes | create, lookup, link, unlink, rename, readdir, setattr, dates | one of several Dos calls failing; masters evicted from the dentry cache while their links keep the inode | links always lead to one master; dates round-trip |
| EA helper, command set, log (`Daemon/eah.c`, `lxapid_cmd.c`, `lxapid.c`) | EA buffers, log files | EA read, write, delete; one Dos call per command; log rotation | - | - |
| Loader, partitions, script, screen (`os2/os2/...`), `lxapilib`, `lxlibc`, `utils` | little | straight-line I/O | - | - |

How they interact: LXAFS, the loader and the start-up code call the wrappers of
`lxdaemon.c` (`LX_DOSOPEN`, `LX_EAREADSTRING`, ...); the wrappers queue commands
and sleep with `LX_WaitOn`; the daemon is a process in `ioctl`s of the driver;
its death reaches the driver through `LX_StratClose`. `PROJECT.json` lists every
component, with what is not modelled and why, and under "hazards" every place
where this code is hard to test.

## 2. Plan

In order, the most important behaviour first:

1. `LxDaemon` (done): the command channel. `MCLxDaemon` is its model; `LxDaemonProofs` and
   `LxDaemonReplyProofs` are its proofs.
2. `LxCall` (done): what the channel promises a caller, as an abstract specification.
   `LxDaemonCall` maps `LxDaemon` to it; the last part of `LxDaemonReplyProofs` proves the
   refinement.
3. `LxWaitOn` (done): the wait list and the move from DevBlock to wait queues, with
   `LxWaitOnProofs`.
4. `LxafsDate` (done): the date conversions of LXAFS against a calendar, with
   `LxafsDateProofs`.
5. `LxThread` (done): the service thread, its mailbox, softirqs, with `LxThreadProofs`.
6. `LxSched` (done): Linux tasks on OS/2 threads: run queue, switch, wakeup, fork, exit,
   threads that enter and leave, with `LxSchedProofs`.
7. `LxIrq` (done): one interrupt line with its drivers, processors and use count, with
   `LxIrqProofs`.
8. `LxafsLink` (done): hard links over master files, link lists, write-back and restart,
   with `LxafsLinkProofs`.

Every invariant and every action property that a passing run checks is also proved.
What is left are the liveness properties, which stay with TLC, and hypotheses that
could be weaker: `IrqTypeOK` and `HookFollowsUsers` with a line that OS/2 refuses, the run
queue of `LxSched` after a signal, and the types of `LxafsLink` after an inode was orphaned.

## 3. LxDaemon

A driver thread (`Client`) runs a wrapper: `CallSync` (its buffer's address is the
command's `cmdBlockID`) or `CallAsync` (`LX_DMN_LOG`, `LX_EADELETE`: `NoBlk`). A
process that runs LXAPID.EXE is a `Daemon`; there may be several, since nothing
in CMDGET looks at who asks.

State: `lx_daemon_pid`, `lx_daemon_state`, `lx_daemon_cmdhandle` and the two lists
keep their names (`waiting`, `done`). The done list is a set, since
`LX_dmn_get_result` looks results up by handle. `pc` says where each thread is;
`hcmd`, `rc`, `blk` and `buf` are a caller's parameter packet and buffer, the data
reduced to "my request" (0) or "the answer to handle h"; `hand` is the command
a daemon has, `maxLen` and `bufLen` its `cbMaxDataLen` and the memory it really has,
in units of `INCR_DATA_LEN`. `executed` is a history variable. `how` records on
which path `LX_dmn_add_command` returned. `lx_current_available` is false until the Linux
scheduler is up (it starts false with `Boot`), `indev` holds the daemons whose `LX_WaitOn`
sleeps, or last slept, in DevBlock and not in a wait queue, and `swallowed` is a history
variable: the daemons that slept on through the last `LX_RunOn`.

| Action | Code |
|---|---|
| `AddCommand`, `AddCommandNoDaemon`, `AddCommandNoMem`, `Enqueue`, `RunOn` | the five stretches of `LX_dmn_add_command` |
| `GetResult` | the turn of `LX_dmn_get_result` that finds its handle; the others change nothing |
| `Start`, `Increase`, `IncreaseNoMem`, `Execute`, `ExecuteAsync` | `main`, `increaseDataPacketLength`, `executeNewCommand` |
| `CmdGet`, `Claim`, `CheckEmpty`, `Block`, `Pop`, `PopNone`, `CopyOut`, `PushBack` | CMDGET with `LX_get_next_command` |
| `ResultsNoMem`, `Results`, `AppendDone` | CMDSETRESULTS, `LX_dmn_add_done_command` |
| `Exit`, `ExitOther`, `Drain` | `LX_StratClose`, `LX_daemon_closed` |
| `Interrupt` | a signal ends the daemon's DevBlock |
| `Available`, `Resched`, `Moved` | pid 1 enters the task list; a walk of `LX_ReschedWaitOn`; a daemon it has run goes to sleep in its wait queue |

Steps end where another thread can run. With `Smp` (the headers define
`CONFIG_SMP`, `Include/defconfig.h`) these are all the points between two
accesses to shared state not under one `lx_cmd_lock`. On one processor OS/2 does
not preempt a thread in ring 0, so a thread there runs until it blocks, sleeps in
`kmalloc` or returns to user mode: `Turn`.

`Faults` says what the environment may do: "kill" a daemon (in user mode: OS/2
ends a process when it leaves the kernel), "signal" it while it sleeps, make
`kmalloc` fail in `LX_dmn_add_command` ("oomAdd") or `LX_dmn_add_done_command`
("oomDone"), or `DosAllocMem` fail ("oomIncrease").

Assumed of OS/2: `DevHlp_VerifyAccess` refuses a data packet longer than the
memory behind it (`DataFits` depends on it; lengths stay below the 16 bits the
call takes), and DevBlock is ended by every DevRun after it.

`LX_RunOn` is not as reliable as DevRun. While the driver starts, `LX_ReschedWaitOn` marks
a daemon that sleeps in DevBlock with LXWF_WAITCONTINUE and runs it, so that it sleeps
again in its wait queue (`lxwaiton.c:82,124`). An `LX_RunOn` that comes in between, or that
has run the daemon just before the mark, is taken for the move: the daemon sleeps on
with a command queued, on one processor too. `NoMissedWakeup` and `EveryCallReturns`
say that this is the only way, `NextCommandRecovers` that the next command ends it. It
happens at most once in the life of a daemon's wait, and never after start-up.

A definition called `...Keeps`, `...Not`, `...Nobody` or commented "Mutant" is a
plausible bug kept beside the code's own form; `PROJECT.json` ("mutants") says
which property catches it. None is used by `Next`.

### LxCall and the refinement

`LxCall` says what a caller may rely on and nothing of how: a call begins, its
command runs at most once, the answer is delivered into the buffer, the call
returns (`Enter`, `Run`, `Deliver`, `Answered`), or it is refused, or told that the
daemon has gone, or returns without waiting. `LxDaemonCall` gives the refinement
mapping, which looks only at the caller: `pc[c]` (inside or outside), `hcmd[c] \in
executed`, `buf[c]` (0, its own handle, or a foreign one that `LxCall` does not
know) and `how[c]` with `rc[c]`.

### LxWaitOn

State: one `struct lx_waitid` per thread (`id`, `timed`, `iswq` and `cont` for the two
flags), the local `prev`, `lx_current_available`, and where `LX_ReschedWaitOn` is. The
list is the set of threads between `list_add` and `list_del` (`Listed`). `due` is a
history variable: something that ends a wait has ended the present sleep.

| Action | Code |
|---|---|
| `WaitOn`, `Register` | `LX_WaitOn` up to the sleep, without and with `LX_enter_current` |
| `Unblock`, `Move`, `Moved`, `Wake` | what follows DevBlock or `sleep_on`, up to the next sleep or the return |
| `RunOn` | `LX_RunOn` |
| `Scan`, `Rescan` | the walk of `LX_ReschedWaitOn` and its pause |
| `Available`, `Resched` | pid 1 enters the task list; `init` calls `LX_ReschedWaitOn` |
| `Timeout`, `Interrupt` | the end of a timeout; a signal, which ends DevBlock also where `LX_switch_to` calls it under `sleep_on` |

One processor: a thread in the driver runs until it sleeps, which it may also do in
the `kmalloc` of `LX_enter_current`. The return code is left out, since no caller
looks at it. `lx_current_available` is never reset here (`ol_misc.c` does so when the
system is going down).

### LxafsDate

`Date`, `Time` and `LxToUnix` are the two conversions; the state is a day and its date in
a calendar (`Tomorrow`, the Gregorian rule), which advances by one day per step.

### LxThread

State: for each task the call of `LX_StartNewTask` (`call`), its request `p` (`wait`,
`started`, `tid`, `alloc`); the list, the mailbox `lx_started_task` (`mail`), where the
service thread is (`svc`), `lx_softirq_wakes`, and the threads made with what each has
taken. The fields of a task carry its name, so that a mix-up shows. `order` is a
history variable.

| Action | Code |
|---|---|
| `StartNewTask`, `StartReturns` | `LX_StartNewTask` up to its wait, and its end |
| `WakeupSoftirq` | `irq_exit` with a softirq pending: `LX_wakeup_softirq` |
| `Timeout`, `Softirq`, `DoSoftirq`, `Check`, `Create`, `Finish` | the loop of `LXA_ServiceThread_Stub` and `LX_ServiceThread` |
| `TakeEsp`, `TakeEip`, `TakePrev` | the three exchanges of `LXA_TaskStub32` |

The steps are those of several processors. The tasks `Boot` are the two that
`oo_init.c` starts with prev 0: their mailbox looks free before their thread has taken
prev, which may then get the prev of the next task. `OwnTask` says what is left.

### LxSched

Every Linux task has an OS/2 thread. `schedule` picks the next task; `LX_switch_to` runs
its thread and blocks the own one. OS/2 knows nothing of the run queue, so a wakeup
(`DevRun` in `try_to_wake_up`) makes a thread run that `rq->curr` does not name: several
tasks are awake at once.

State: `state`, `queue` (both priority arrays as one queue), `nr` (`nr_running`), `curr`,
`lx_current_task`, TIF_NEED_RESCHED of the idle task, `exited` (`lx_exit_list`), the
allocated tasks, and where each thread is: "run", "switch" (between the run queue's
lock and DevBlock), "blocked", "ready", "gone" (a dead kernel task in `lx_exit_list`).

| Action | Code |
|---|---|
| `SetSleeping`, `Schedule` | `set_current_state`; `schedule` up to `context_switch`, with `deactivate_task` |
| `Switch`, `SwitchDead`, `Resume` | `LX_switch_to` before and after DevBlock, with `LX_free_unused_task_structs` and, for the dead, `LX_DoTaskExit` or the rest of `LX_leave_current` |
| `TryToWakeUp`, `SchedulerTick` | the functions of these names, from interrupts and other threads |
| `Fork`, `Exit` | `wake_up_forked_process`; `do_exit` |
| `Enter`, `Leave` | `LX_enter_current` with `LX_init_task`; `LX_leave_current` up to `schedule` |

One processor: `lx_current_task` is a single variable, and the switch is only safe
where a thread in ring 0 keeps the processor until it blocks. One priority: the order
of tasks within the queue is that of wakeups and expired time slices. A task picked
for the first time after a wakeup may go to the end of the queue (`p->activated`).
OS/2 signals, which end DevBlock without a wakeup, are steps of `SignalSpec` only
(`Signal`, of the threads that visit the driver): with them `CurrentQueued` is violated
(run `TaskSignal`), and so is `QueueExact`, since the task is taken off the queue again
(`deactivate_task`) when it calls `schedule` next. `Spec` has no signals: what the other
properties and theorems of `LxSched` say holds until the first one.

### LxIrq

One line 1, 3 .. 15. State: `desc->action` and the `next` of each action, `status`, `depth`,
the use count of `lxdispatch.c`, whether OS/2 has the handler (`hooked`), whether the EOI
is due (`inservice`), the spinning thread and the frames of `do_IRQ` on each processor.
`quiet` and `missed` are history variables: to whom `disable_irq` has returned, and whom
an interrupt of the enabled line has yet to reach.

| Action | Code |
|---|---|
| `RequestIrq` | `request_irq`, `setup_irq`, `LX_RequestIrq` |
| `FreeIrq`, `Freed` | `free_irq` with `LX_FreeIrq`, before and after `synchronize_irq` |
| `DisableIrqNosync`, `DisableIrq`, `Disabled`, `EnableIrq` | the functions of these names |
| `Interrupt` | `LX_IRQEntry`, `do_IRQ` up to its loop |
| `Handler`, `EndOfList` | `handle_IRQ_event`; the loop's condition and the end with the EOI of `IRQHandler16` |

Under TARGET_OS2 the routines of the 8259A are empty, so nothing is masked.
`IrqSetFails` lets DevIRQSet refuse the line; the run has it FALSE, since with TRUE
`HookedWhileUsed` is violated (`setup_irq` ignores the result, `oak_irq.c:1016`).

### LxafsLink

One directory. `file` is the disk (data, LX_LT as `to`, LX_LC and LX_LB_n as `by`),
`dentry` the dentry cache, `pinned` the names in it whose count nobody gives back
(`simple_link`'s `dget`, and the master `lxafs_detach_linked_file` has looked up), `inode` the linkinfo (`name`, `list`), `i_nlink` and `dirty_flag`,
which is not initialised and so starts with any value. `hung` says that a call waits for
the semaphore of the directory that it holds itself: nothing else happens in the
directory until a restart. `link` is a history variable: the file each name stands for.

| Action | Code |
|---|---|
| `Create`, `Lookup`, `LookupLink` | `iod_create`; `iod_lookup` of a master, with `lxafs_add_link_childs`, and of a link, with `lxafs_linkmaster_lookup` |
| `Link`, `LinkHangs` | `iod_link`, `lxafs_attach_linked_file`, whose `path_lookup` returns or hangs |
| `UnlinkLink`, `UnlinkHangs`, `UnlinkMaster`, `UnlinkOnly` | the three branches of `iod_unlink`, the first with the `path_lookup` of `lxafs_detach_linked_file` |
| `Rename` | `iod_rename`, `lxafs_rename`, `CMD_LXAFS_Rename` |
| `WriteInode` | `lxafs_write_inode`, `lxafs_rewrite_linklist` |
| `Prune` | the idle task shrinks the dentry cache (`ok_sched.c:1849`, `prune_dcache`) |
| `Restart` | `sys_sync` at shutdown, and the next start |

The idle task evicts any dentry without a count on each of its passes. Links are pinned,
masters are not: the inode of an evicted master lives on while a link has it, or until
it is written. `path_lookup` of an evicted master with the directory locked hangs, since
`real_lookup` (`lf_namei.c:365`) takes the semaphore that the VFS has taken for the call.

`orphaned` becomes true in four states the code does not recover from:

- a link becomes the master while its own name is not in the dentry cache; its next
  lookup makes a second inode (`oofl_dir.c:326`);
- an evicted master is looked up again while a link or the list of dirty inodes keeps its
  inode: the second inode (`oofl_dir.c:227`) reads an old list and does not learn of later
  links and renames, nor the first one of its own;
- a dirty inode loses its only name and is written later (`oofl_dir.c:352`);
- `iod_link` hangs after the link is on disk and before the list has it (`oofl_io.c:275`).

The properties say that names and lists are right until then, evictions included, and
nothing of what follows. `Next` renames masters only; `RenameSpec` also links.

## 4. Runs

The module of a run is `MCLxDaemon` for `Daemon...`, `MCLxafsDate` for `Date...`,
`MCLxafsLink` for `Link...`, `MCLxWaitOn` for `WaitList`, `MCLxSched` for `Task...`,
`MCLxThread` for `Threads` and `MCLxIrq` for `Irq`. Deadlock is not checked in the
`Daemon...` and `Date...` runs: the bounds stop the model, and a driver whose callers are
idle and whose daemon sleeps is allowed to do nothing.

| Run | Instance | Checks and shows |
|---|---|---|
| `DaemonFaults` | 2 callers, 2 daemons, SMP, 2 commands of 1 or 2 packets, all faults | `TypeOK`, `HandleUnique`, `BufferOwner`, `AtMostOnce`, `ReplyIsOwn`, `AnsweredMeansExecuted`, `DataFits`, `NoStrayWrite` with both daemons claiming, fetching and dying in any order; `ImplementsCall`: the channel implements `LxCall` |
| `DaemonLive` | 2 callers, 1 daemon, one processor, 3 commands of 1 or 2 packets; oomAdd, start-up | `NoMissedWakeup`, `NoReplyLost`, `ExecutedInOrder`, `EveryCallReturns`, with the move to the wait queues at any time |
| `DaemonSmpLive` | 2 callers, 1 daemon, SMP, 3 commands, kill, start-up | `NextCommandRecovers`: the wakeup missed between the unlocked test and `LX_WaitOn`, or taken by the move, delays a command only until the next one; `CloseAnswersQueued` |
| `WaitList` | 3 threads, 2 ids | `MigrationComplete`, `NoSpuriousReturn` while the scheduler comes up; `ReschedEnds`, `WakeEndsWait` under fairness |
| `Tasks` | idle, init, a kernel task, a visitor | `TypeOK`, `QueueExact`, `NothingFreed`; `WokenRuns` under fairness |
| `Threads` | 3 tasks, 1 of them a boot task | `TypeOK`, `OwnTask`, `RequestAlive`; `EveryTaskRuns`, `SoftirqRuns` under fairness |
| `Irq` | 3 drivers (2 share, 1 of these fast), 2 processors, depth up to 2 | `TypeOK`, `NoReentry`, `ActionsAlive`, `QuietAfterDisable`, `HookedWhileUsed`; `EveryInterruptHandled` under fairness |
| `Links` | 4 names, 2 files, `LX_MAX_LINKS` 5 | `TypeOK`, `NamesReachData`, `ListHoldsLinks`, with dentries evicted at any time |
| `DateFields` | all days of 1980-2037, 3 times of day, 5 hours west | `FieldsRight`, `DaysFollow` |
| `DateRoundTrip` | the same | violation of `RoundTrip`: `lxafs_date_unix2lx` counts the day of the month from 0 (`oofl_misc.c:76` has the `+1` that line 77 lacks), and `lxafs_date_lx2unix` reads the table one month too far (`oofl_misc.c:31` labels its first entry January) and takes double seconds for seconds |
| `LinkRename` | 3 names | violation of `ListHoldsLinks`: renaming a link makes its inode take the dummy file for the master (`oofl_fs.h:79`) |
| `TaskSignal` | the tasks of `Tasks`, with signals | violation of `CurrentQueued`: `LX_switch_to` ignores how its DevBlock ended (`oo_process.c:685`), so that a signal makes a task run that is not in the run queue, against `ok_sched.c:668-670` ("thread is always on the run-queue (except when the actual re-schedule is in progress)") |

Bounds. `HandleLimit` commands are queued in a behaviour and `QueueBound` at a
time. Two callers and two daemons are enough for each pairwise race (two claims,
a pop against a put-back, a close against an append); commands of two packets
against an initial packet of one exercise the put-back. Three commands let a
caller reuse its buffer while another command is in flight. Symmetry (callers,
daemons) is used in the safety runs of the channel, and that of names in the link runs. In `WaitList` three threads on two
ids allow two on one id and one on another, each at a different stage of the move;
nothing else is bounded there. The calendar ends where 32-bit seconds do.
In `Tasks` one task of each kind is enough for each pair of switches, wakeups and
deaths; tasks are created again and again, so that addresses are reused. `Threads` has one
task before and one after the two in the mailbox race, and `MaxThread` does not bind.
Two processors in `Irq` allow a handler to run against each call and against an
interrupt on the other; `MaxDepth` bounds nested disables. Four names in `Links` let a
master have three links, of which one is promoted and two must follow; `MaxFile` bounds
the files made, `MaxLinks` lets every name be a link, and the constraint `Explored`
stops at an orphaned inode, of which no property speaks.

Fairness. `FairSpec` assumes weak fairness of each caller that is inside
`LX_dmn_add_command` and of each daemon: the OS/2 scheduler runs every ready
thread, and `LX_dmn_get_result` looks at least once a second. Nothing obliges a
caller to call, a daemon to start or a fault to happen. The liveness runs leave
out what the code does not survive: a result lost to `kmalloc` or with a killed
daemon leaves its caller waiting for ever. What is left in is the wakeup that the move of
`LX_ReschedWaitOn` takes: `EveryCallReturns` has it as the one exception, and the caller
then polls until somebody queues another command. Neither `Available` nor `Resched` is
assumed to happen. `LxWaitOn`'s `FairSpec` assumes that a ready
thread gets the CPU and that the pause of `LX_ReschedWaitOn` ends; wakeups, timeouts
and calls are not assumed. `LxThread`: DevBlock of the service thread has a timeout
and ready threads run. `LxIrq`: an interrupt that has begun goes on, since nothing on
its processor runs before. `LxSched`: strong fairness of a task's `Resume` and `Schedule`,
since the processor is taken from a ready thread by others again and again but OS/2
gives it back (its dispatcher raises the priority of starved threads), and of the end of
the time slice of a task that is current again and again; a task in the kernel comes to
`schedule` sooner or later. Wakeups are not assumed.

## 5. Proofs

TLAPS checks every theorem for all values of the constants: any number of
callers and daemons, any faults (except where said), one processor or several.

| Theorem | Module | Says | Assumes |
|---|---|---|---|
| `TypeCorrect` | `LxDaemonProofs` | `[]TypeOK` | `ConstAssumption` only |
| `HandlesAreUnique`, `BuffersAreOwned` | `LxDaemonProofs` | `[]HandleUnique`, `[]BufferOwner` | the counter does not wrap: `HandleLimit < HandleMod` |
| `ExecutedAtMostOnce`, `RepliesAreOwn`, `RepliesAreReal`, `WritesAreAwaited` | `LxDaemonReplyProofs` | `[]AtMostOnce`, `[]ReplyIsOwn`, `[]AnsweredMeansExecuted`, `NoStrayWrite` | the same |
| `DataAlwaysFits` | `LxDaemonProofs` | `[]DataFits` | nothing |
| `ExecutionsInOrder` | `LxDaemonReplyProofs` | `ExecutedInOrder` | the counter does not wrap, at most one daemon |
| `NothingIsLost` | `LxDaemonReplyProofs` | `[]NoReplyLost` | the counter does not wrap, no "kill", no "oomDone" |
| `NobodySleepsOnWork` | `LxDaemonReplyProofs` | `[]NoMissedWakeup`, whose exception is the wakeup taken by the move | one processor, at most one daemon |
| `ChannelImplementsCall` | `LxDaemonReplyProofs` | `ImplementsCall` | the counter does not wrap |
| `NobodyStaysBehind`, `ReturnsAreDue` | `LxWaitOnProofs` | `[]MigrationComplete`, `NoSpuriousReturn` | nothing |
| `SchedTypeOK`, `QueueIsExact`, `NoFreedTaskIsUsed` | `LxSchedProofs` | `[]TypeOK`, `[]QueueExact`, `[]NothingFreed` | one processor; no signal ends the DevBlock of a switch (`Spec` has none) |
| `QueuedUnlessSignalled` | `LxSchedProofs` | `[]CurrentQueued`, of `SignalSpec` | `NoSignal`: the same, as a hypothesis of the theorem; without it the run `TaskSignal` refutes the conclusion |
| `ThreadTypeOK`, `RequestsAlive` | `LxThreadProofs` | `[]TypeOK`, `[]RequestAlive` | nothing |
| `ThreadsGetOwnTask` | `LxThreadProofs` | `[]OwnTask` | `~CreateFails`: `LXA_CreateThread` succeeds |
| `HandlersDoNotReenter`, `WalkedActionsAlive`, `QuietWhileDisabled` | `LxIrqProofs` | `[]NoReentry`, `[]ActionsAlive`, `[]QuietAfterDisable` | `Apart`: at most two processors, or one driver for the line |
| `IrqTypeOK`, `HookFollowsUsers` | `LxIrqProofs` | `[]TypeOK`, `[]HookedWhileUsed` | `~IrqSetFails`: DevIRQSet succeeds |
| `LinkTypeOK` | `LxafsLinkProofs` | `[](~orphaned => TypeOK)` | nothing |
| `NamesLeadToData`, `ListsAreComplete` | `LxafsLinkProofs` | `[]NamesReachData`, `[]ListHoldsLinks`, with evictions and hanging calls | nothing (both speak of `~orphaned`: see the four ways above) |
| `FieldsAreRight`, `DatesFollow` | `LxafsDateProofs` | `[]FieldsRight`, `DaysFollow` | `Range32`: from 1980, while the seconds fit in an int |

Every theorem also has the assumptions on the constants that its component's module
names (`ConstAssumption`, `SchedAssumption`, ...): sets are finite where the code counts
their members, and the values that stand for a null pointer differ from the others.

The command channel. Handles and buffers need each other: a result is found by handle,
so its buffer is the right one only if handles are unique; a handle is retired
only by the caller whose buffer the command names. `IInv` therefore joins
`HandleUnique` and `BufferOwner` with three facts that make them inductive:
`Fresh` (every handle in use is one the counter has passed, so the next one is
new: this is where the wrap is excluded), `HandWf` (a daemon holds a command
exactly between taking it off the queue and posting its result) and `OwnBlk` (a
caller lends its own buffer or none). Actions that move no command are covered by
the lemmas `DaemonMoves` and `ClientMoves`, those that lose one by `Drop`, and each
of the others has a lemma of its own.

`ExecInv` is inductive on top of `IInv`: a command on the queue has not been
executed, one being posted has, and the answer is in the buffer before the entry
is on the done list (`Posting`, `Posted`); a caller that returns takes these facts
with it (`Replies`). `Kept` strengthens `NoReplyLost` by "the command found is one
somebody waits for", since the others are dropped. `Awake` adds to
`NoMissedWakeup` what the daemon knows between its test and its sleep, and that a daemon
whose wakeup was taken is on its way to the wait queue or sleeps there.

The refinement adds `CallInv`, the channel seen from a caller: its handle is 0 until
its command is queued, its buffer holds its request or its own answer, no two
callers' last handles are equal, and a command nobody waits for is the last call
of a caller that does not wait (`AsyncOwner`), so that an execution is never that of
a call already answered. Every step then is one action of `LxCall` for one caller and
goes unnoticed by the others (`CallerRefines`, `DaemonRefines`).

`WInv` for the wait list says which flags a thread has in which place (`Flags`), that
a thread on its way out is marked to wait again or has a reason to return
(`Justified`), and that nobody is in a wait queue before the scheduler is up (`Early`).

`OrderInv` (for `ExecutionsInOrder`) says that the queue is sorted by handle, that the
command in the daemon's hands comes before the queue, and that what was executed comes
before both: `Enqueue` adds the highest handle at the end, `PushBack` returns the lowest
to the front. With two daemons it is false. `DataInv` (for `DataAlwaysFits`) says that
in CMDGET, after the verification of the data packet, `maxLen` is no more than
`bufLen`; a failed `Increase` breaks this in user mode, which is why the property needs an argument.

Tasks. `SchedInv` joins the properties with what makes them inductive: which tasks are
allocated in which place (`Memory`), that at most one thread is between the run queue
and DevBlock and whom it switches to (`Switching`), what each place says of a task's state
and of its membership in the queue (`Places`), the idle task (`Idle`), the count (`Counted`)
and the two pointers (`Pointers`). `AppendQueue`, `RemoveQueue` and `WithoutQueue` say what the
queue operations do to the set of queued tasks; every action is then set reasoning.

Threads. `RequestInv` says that a task is on the list at most once, and that its request
is allocated exactly while it is pending or its caller waits. `MailInv` follows the mailbox: list and
threads together are `order` (`InOrder`), only the last thread made still takes from the
mailbox (`Working`), whose fields are those of that thread's task (`Mailbox`), and what a
thread has taken is its own (`Fields`, `PrevKept`), until a boot task loses its prev.
With `CreateFails` the mailbox keeps the fields of a task that has no thread
(`oo_thread.c:85`), and the next thread takes them.

Interrupts. `IrqInv` says that the actions are one list, ordered by some rank (`List`,
`Ordered`), that the depth counts the disables (`Depth`), that there is at most one frame of `do_IRQ` and
`IRQ_INPROGRESS` is set while it exists (`OneFrame`), and that its walk stays within a set of
allocated actions that is closed under `next` (`Walk`): a freed action may still point into
the list, so the list alone is not enough. `Spinning` is where `Apart` comes in.
`setup_irq` clears `IRQ_INPROGRESS` for the first action of a line (`oak_irq.c:1011`): with three
processors a driver may request the line while the handler of its last user still runs and
`free_irq` waits for it. With two there is nobody left to make that call. `UseInv` adds for
`HookFollowsUsers` that the use count is the number of actions. `setup_irq` ignores a
DevIRQSet that fails, after which the action is on the list and the handler is not hooked.

Links. `LinkInv` is, until an inode is orphaned: for each name, what is on disk leads to
a master (`OnDisk`), an inode in memory has the master's name (`Cached`), and the list on disk
is complete unless the inode is yet to be written (`Written`); for each inode that is kept,
for a name or for the write-back alone, its name is a master's and its list holds exactly the links
on disk (`Serves`); no master has two inodes (`Single`), and `i_nlink` is at least the number of names
in memory (`Uses`). With evictions the facts about lists must be about inodes, not about names: the
master of an inode need not be in memory, and an inode may have no name left but still be
written. `Single` is what the second lookup of an evicted master would break, and where the
proof of `Lookup` uses that `orphaned` is still false. `Holds(s, S)` reduces the lists to the sets they
hold: `AttachHolds`, `DetachHolds` and `LastHolds` are the facts about the list operations.

Dates. `CalInv` gives the count of days in closed form: 3652 days to 1980, `Before(y)` for
the years and `DayOfYear` for the date. `TomorrowFollows` says that the calendar's next day adds one to
it. On the side of the code `YearFound` shows that the guess of the year is at most one too
many, `MonthFound` what the search of the table finds, and `MonthDayFound` that taking out the leap day
leaves the right month on both sides of it. No induction over data is needed. The theorem
holds for every second of the day and every time zone; the years stay below 2039, so the
rule of the centuries never matters.

Only model-checked: the liveness properties `EveryCallReturns`, `NextCommandRecovers`,
`CloseAnswersQueued`, `ReschedEnds`, `WakeEndsWait`, `WokenRuns`, `EveryTaskRuns`, `SoftirqRuns` and
`EveryInterruptHandled` (TLAPS does not do fairness). Once the handle counter has wrapped,
`HandleUnique` can fail: a caller whose result was lost waits for ever on a handle that is
given out again.

## 6. Not modelled

- Command channel: `LX_wait_for_daemon` (a restarted daemon leaves `lx_daemon_state` at
  GOING, `lxdaemon.c:119`) and `LX_daemon_shutdown`, whose only call is commented out in
  `lxstrategy.c`, as is the RESTART command; the contents of commands; the order of the
  done list; the LX_RunOn calls nobody depends on (the callers poll); data packets of
  64 KB and more, whose length is verified modulo 2^16 (`lxmemory.c:487`). The wrappers return
  `p.rc` unassigned when `LX_dmn_add_command` returns early (`lxdaemon.c:210,219`): this is in
  the model (`Uninitialised`), and 0 may be returned for a command that never ran.
- Threads: the end of the service thread at shutdown; `LXA_CreateThread` that fails, after
  which the mailbox stays full (`CreateFails`, `oo_thread.c:85`).
- Tasks: several processors; what follows an OS/2 signal to a task in a switch; the utility stacks of user-mode helpers
  (`LX_set_ti_for_pidtid` drops the first element of its list, `oo_process.c:454`); thread_info
  copies of `LX_enter_irq_current`.
- Interrupts: line 0 (the timer of OS/2), probing, APIC lines, and the controller: every
  interrupt is claimed and gets a second EOI, because `oo_irq.c:78` tests the address of
  `LX_irq_handled`.
- LXAFS: Dos calls that fail halfway, crashes between two writes, two calls in one
  directory at once (`oofl_dir.c:142` releases `i_sem`), subdirectories, symbolic links,
  data, sizes and modes, names.
- Start-up, devices, memory, resources, EA lists and the log: steps that run once or
  calls that hand a request to OS/2; `PROJECT.json` gives the reason for each.
- The Linux 2.6.5 sources beyond the files named above: third-party code.
