------------------------------- MODULE LxSched -------------------------------
(***************************************************************************)
(* Linux tasks on OS/2 threads: the run queue of os2/kernel/ok_sched.c and *)
(* the thread switch of os2/os2/oo_process.c.  Every Linux task has an     *)
(* OS/2 thread.  schedule() picks the next task and LX_switch_to runs its  *)
(* thread (DevRun) and blocks the own one (DevBlock) for as long as it     *)
(* takes; a wakeup runs the thread of the task directly.  So several tasks *)
(* can be awake at once, and rq->curr and lx_current_task need not be the  *)
(* task that runs.                                                         *)
(*                                                                         *)
(* The model is of one processor, where OS/2 does not take it from a       *)
(* thread in the driver: while a task is between the lock of the run queue *)
(* and its DevBlock only interrupts, which wake tasks and tick, come in.   *)
(* The tasks have one priority, and the active and the expired array of    *)
(* the run queue are one queue, with the expired tasks at its end.  In     *)
(* Spec no OS/2 signal ends the DevBlock of a switch; in SignalSpec one    *)
(* may, for an OS/2 thread that visits the driver.                         *)
(***************************************************************************)
EXTENDS Integers, Sequences

CONSTANTS
  Kernel,    \* kernel tasks: forked, with a thread of their own
  init,      \* lx_init_task, one of them
  Visitor,   \* OS/2 threads that enter the driver: a task for each visit
  idle,      \* rq->idle, which is lx_idle_task
  None

Task == Kernel \cup Visitor \cup {idle}

ASSUME SchedAssumption ==
  /\ Kernel \cap Visitor = {}
  /\ init \in Kernel
  /\ idle \notin Kernel \cup Visitor
  /\ None \notin Task

VARIABLES
  state,    \* p->state
  queue,    \* rq->active and rq->expired; p->array says that p is in it
  nr,       \* rq->nr_running
  curr,     \* rq->curr
  lx_current_task,
  need,     \* TIF_NEED_RESCHED of the idle task, the only one that asks for it
  pc,       \* where the thread of each task is
  to,       \* next, of the thread on its way through LX_switch_to
  alloc,    \* the tasks that are allocated
  exited    \* lx_exit_list

rqVars == <<queue, nr, curr, need>>
memVars == <<alloc, exited>>
vars == <<state, rqVars, lx_current_task, pc, to, memVars>>

In(q, t) == \E i \in DOMAIN q : q[i] = t
Queued(t) == In(queue, t)

\* The place of a task in the queue q: p->run_list.
Place(q, t) == CHOOSE i \in DOMAIN q : q[i] = t

\* dequeue_task: list_del, unless the task is in no queue.
Without(q, t) ==
  IF ~In(q, t) THEN q
  ELSE LET i == Place(q, t)
       IN  SubSeq(q, 1, i - 1) \o SubSeq(q, i + 1, Len(q))

\* Nobody else is between the run queue and DevBlock.
Turn(t) == \A s \in Task \ {t} : pc[s] # "switch"

Runs(t) == pc[t] = "run" /\ Turn(t)

\* DevRun of a task: its thread, if it is in DevBlock, gets ready.
DevRun(f, t) == IF f[t] = "blocked" THEN [f EXCEPT ![t] = "ready"] ELSE f

\* The init process runs, the boot thread has become the idle task.
Init ==
  /\ queue = <<init>>
  /\ alloc = {init, idle}
  /\ state = [t \in Task |-> "RUNNING"]
  /\ nr = 1
  /\ curr = idle
  /\ lx_current_task = None
  /\ need = TRUE
  /\ pc = [t \in Task |-> IF t \in alloc THEN "run" ELSE "none"]
  /\ to = None
  /\ exited = <<>>

-----------------------------------------------------------------------------
(* schedule.                                                               *)

\* set_current_state before a sleep.
SetSleeping(t) ==
  /\ Runs(t) /\ t # idle /\ state[t] = "RUNNING"
  /\ state' = [state EXCEPT ![t] = "SLEEPING"]
  /\ UNCHANGED <<rqVars, lx_current_task, pc, to, memVars>>

\* Under the lock of the run queue with the queue q and the count n: pick the
\* next task.  One that has been woken since it last ran (p->activated) goes to
\* the end of the queue for its new priority.  The task that has no other to go
\* to goes on after 10 ms.
Pick(t, q, n) ==
  LET next == IF n = 0 \/ q = <<>> THEN idle ELSE Head(q) IN
    /\ queue' \in {q} \cup IF next = idle THEN {} ELSE {Append(Tail(q), next)}
    /\ nr' = n
    /\ need' = (need /\ t # idle)
    /\ lx_current_task' = t
    /\ IF next # t
         THEN /\ curr' = next
              /\ to' = next
              /\ pc' = [pc EXCEPT ![t] = "switch"]
         ELSE UNCHANGED <<curr, to, pc>>
    /\ UNCHANGED <<state, memVars>>

\* deactivate_task, which counts also a task that is not in the queue, and
\* the choice of the next one.  A signal that keeps the task running is a wakeup
\* before this step.  The idle task looks every 10 ms, in default_idle, whether it
\* has to.
Schedule(t) ==
  /\ Runs(t) /\ (t = idle => need)
  /\ IF state[t] = "RUNNING" THEN Pick(t, queue, nr)
     ELSE Pick(t, Without(queue, t), nr - 1)

\* LX_free_unused_task_structs: one task of lx_exit_list goes.
FreeUnused(a, f, e) ==
  IF exited = <<>> THEN alloc' = a /\ pc' = f /\ exited' = e
  ELSE /\ alloc' = a \ {Head(exited)}
       /\ pc' = [f EXCEPT ![Head(exited)] = "none"]
       /\ exited' = e \o Tail(exited)

\* LX_switch_to of a task that lives on: run the next one, block.
Switch(t) ==
  /\ pc[t] = "switch" /\ state[t] # "ZOMBIE"
  /\ pc' = [DevRun(pc, to) EXCEPT ![t] = "blocked"]
  /\ to' = None
  /\ UNCHANGED <<state, rqVars, lx_current_task, memVars>>

\* What is left of a dying task, which has set lx_current_task to c: a kernel
\* task leaves its thread and waits in lx_exit_list, a visitor is freed by
\* LX_leave_current.
Dies(t, c) ==
  /\ pc[t] = "switch" /\ state[t] = "ZOMBIE"
  /\ lx_current_task' = c
  /\ LET f == DevRun(pc, to) IN
       IF t \in Kernel
         THEN FreeUnused(alloc, [f EXCEPT ![t] = "gone"], <<t>>)
         ELSE FreeUnused(alloc \ {t}, [f EXCEPT ![t] = "none"], <<>>)
  /\ to' = None
  /\ state' = [state EXCEPT ![t] = "RUNNING"]
  /\ UNCHANGED rqVars

\* Mutant: lx_current_task is set to the own task, as for one that lives on.
SwitchDeadOwn(t) == Dies(t, t)

\* LX_switch_to of a dying task: run the next one, which becomes current.
SwitchDead(t) == Dies(t, to)

\* The rest of LX_switch_to, after DevBlock.
Resume(t) ==
  /\ pc[t] = "ready" /\ Turn(t)
  /\ FreeUnused(alloc, [pc EXCEPT ![t] = "run"], <<>>)
  /\ lx_current_task' = t
  /\ UNCHANGED <<state, rqVars, to>>

-----------------------------------------------------------------------------
(* Wakeups and ticks, from interrupts and from other threads.              *)

Activate(t, n) ==
  /\ queue' = Append(queue, t)
  /\ nr' = n

\* A task that sleeps is made to run: if it has left the queue with activate,
\* which may ask the idle task to reschedule.  DevRun runs its thread.
Wakes(t, activate, resched) ==
  /\ state[t] = "SLEEPING"
  /\ IF Queued(t) \/ ~activate THEN UNCHANGED rqVars
     ELSE /\ Activate(t, nr + 1)
          /\ need' = (need \/ resched)
          /\ UNCHANGED curr
  /\ state' = [state EXCEPT ![t] = "RUNNING"]
  /\ pc' = DevRun(pc, t)
  /\ UNCHANGED <<lx_current_task, to, memVars>>

\* Mutants: a task between the run queue and DevBlock counts as active; nobody
\* is rescheduled.
TryToWakeUpLate(t) == Wakes(t, pc[t] # "switch", curr = idle)
TryToWakeUpAlone(t) == Wakes(t, TRUE, FALSE)

\* try_to_wake_up.
TryToWakeUp(t) == Wakes(t, TRUE, curr = idle)

\* scheduler_tick: the time slice of "current" is over.  In an interrupt that
\* is lx_current_task (LX_enter_irq_current).
SchedulerTick ==
  /\ lx_current_task # None /\ Queued(lx_current_task)
  /\ queue' = Append(Without(queue, lx_current_task), lx_current_task)
  /\ UNCHANGED <<state, nr, curr, need, lx_current_task, pc, to, memVars>>

\* An OS/2 signal ends the DevBlock of a visitor, which has flag 0 and may be
\* interrupted.  LX_Block hands the result on and LX_switch_to ignores it: the
\* thread goes on as if its task had been run.
Signal(v) ==
  /\ pc[v] = "blocked"
  /\ pc' = [pc EXCEPT ![v] = "ready"]
  /\ UNCHANGED <<state, rqVars, lx_current_task, to, memVars>>

-----------------------------------------------------------------------------
(* Tasks come and go.                                                      *)

\* wake_up_forked_process: the child goes before its parent.  It runs as soon
\* as the service thread has made a thread for it.
Fork(t, k) ==
  /\ Runs(t) /\ t # idle /\ Queued(t) /\ state[t] = "RUNNING"
  /\ pc[k] = "none"
  /\ LET i == Place(queue, t)
     IN  queue' = SubSeq(queue, 1, i - 1) \o <<k>>
                    \o SubSeq(queue, i, Len(queue))
  /\ nr' = nr + 1
  /\ state' = [state EXCEPT ![k] = "RUNNING"]
  /\ pc' = [pc EXCEPT ![k] = "run"]
  /\ alloc' = alloc \cup {k}
  /\ UNCHANGED <<curr, need, lx_current_task, to, exited>>

\* do_exit, which panics for the init process.
Exit(k) ==
  /\ Runs(k) /\ k # init /\ state[k] = "RUNNING"
  /\ state' = [state EXCEPT ![k] = "ZOMBIE"]
  /\ UNCHANGED <<rqVars, lx_current_task, pc, to, memVars>>

Enters(v, n) ==
  /\ pc[v] = "none" /\ Turn(v)
  /\ Activate(v, n)
  /\ state' = [state EXCEPT ![v] = "RUNNING"]
  /\ pc' = [pc EXCEPT ![v] = "run"]
  /\ alloc' = alloc \cup {v}
  /\ UNCHANGED <<curr, need, lx_current_task, to, exited>>

\* Mutant: nr_running_inc is forgotten.
EnterUncounted(v) == Enters(v, nr)

\* LX_enter_current: the visitor gets a task, and that goes into the queue.
Enter(v) == Enters(v, nr + 1)

\* LX_leave_current up to the schedule of LX_exit_current_exit.
Leave(v) ==
  /\ Runs(v) /\ state[v] = "RUNNING"
  /\ lx_current_task' = IF lx_current_task = v THEN None ELSE lx_current_task
  /\ state' = [state EXCEPT ![v] = "ZOMBIE"]
  /\ UNCHANGED <<rqVars, pc, to, memVars>>

-----------------------------------------------------------------------------
Next ==
  \/ \E t \in Task :
       \/ SetSleeping(t) \/ Schedule(t) \/ Switch(t) \/ SwitchDead(t)
       \/ Resume(t) \/ TryToWakeUp(t)
  \/ \E t \in Kernel : Exit(t) \/ \E s \in Task : Fork(s, t)
  \/ \E t \in Visitor : Enter(t) \/ Leave(t)
  \/ SchedulerTick

\* OS/2 gives every ready thread the processor again and again, a task in the
\* kernel calls schedule sooner or later, and the time slice of a task that is
\* current again and again ends.
Spec ==
  /\ Init /\ [][Next]_vars
  /\ \A t \in Task : /\ SF_vars(Resume(t) \/ Schedule(t))
                     /\ WF_vars(Switch(t) \/ SwitchDead(t))
                     /\ SF_vars(lx_current_task = t /\ SchedulerTick)

\* The scheduler with the signals that OS/2 may send to a visitor's thread.
SignalSpec == Init /\ [][Next \/ \E v \in Visitor : Signal(v)]_vars

-----------------------------------------------------------------------------
\* The values the variables of the scheduler take.
TypeOK ==
  /\ state \in [Task -> {"RUNNING", "SLEEPING", "ZOMBIE"}]
  /\ queue \in Seq(Task \ {idle})
  /\ nr \in Nat
  /\ curr \in Task
  /\ lx_current_task \in Task \cup {None}
  /\ need \in BOOLEAN
  /\ pc \in [Task -> {"none", "run", "switch", "blocked", "ready", "gone"}]
  /\ to \in Task \cup {None}
  /\ alloc \subseteq Task
  /\ exited \in Seq(Kernel)

\* What try_to_wake_up relies on, as the comment before it says: the task that
\* runs is in the run queue, except while it is being rescheduled.  A signal that
\* ends the DevBlock of a sleeping task breaks it; nothing else does.
CurrentQueued ==
  \A t \in Task \ {idle} : pc[t] = "run" => Queued(t)

\* The run queue holds every task that could run, once, and nr_running counts
\* them: schedule trusts it to find a task in the queue.
QueueExact ==
  /\ nr = Len(queue)
  /\ \A i, j \in DOMAIN queue : queue[i] = queue[j] => i = j
  /\ \A t \in Task \ {idle} :
       pc[t] \notin {"none", "gone"} /\ state[t] = "RUNNING" => Queued(t)

\* No pointer to a freed task is left: in the run queue, in rq->curr, in
\* lx_current_task (whose thread_info the next interrupt borrows), or in a
\* thread that still uses it.
NothingFreed ==
  /\ \A i \in DOMAIN queue : queue[i] \in alloc
  /\ {curr, lx_current_task} \subseteq alloc \cup {None}
  /\ \A t \in Task : pc[t] \notin {"none", "gone"} => t \in alloc

\* Every task that is woken gets to run: a wakeup between the run queue and
\* DevBlock finds no thread to run, but somebody switches to the task later.
WokenRuns ==
  \A t \in Task : Queued(t) /\ pc[t] = "blocked" ~> pc[t] # "blocked"
=============================================================================
