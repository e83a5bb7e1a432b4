------------------------------ MODULE LxThread ------------------------------
(***************************************************************************)
(* The service thread of os2/os2/oo_thread.c and the threads it makes.     *)
(* LX_StartNewTask queues the stack, entry point and previous task of a    *)
(* new Linux task; the service thread hands them, one task at a time, in   *)
(* the mailbox lx_started_task to an OS/2 thread that it creates, and runs *)
(* the softirqs interrupts have left.  The new thread takes the three      *)
(* fields one by one in LXA_TaskStub32 of Dev32/lxthreads.asm.             *)
(*                                                                         *)
(* The steps are those of several processors (the mailbox is read and      *)
(* exchanged with LOCK, the list has a spin lock).  Calls whose kmalloc    *)
(* fails change nothing and are not steps.                                 *)
(***************************************************************************)
EXTENDS Naturals, Sequences

CONSTANTS
  Task,        \* the tasks to start; their esp, eip and prev carry their name
  Boot,        \* those of oo_init.c, which pass 0 for prev
  MaxThread,   \* threads OS/2 can create
  CreateFails  \* may VDHCREATETHREAD fail?

ASSUME ThreadAssumption ==
  /\ Boot \subseteq Task
  /\ 0 \notin Task
  /\ MaxThread \in Nat
  /\ CreateFails \in BOOLEAN

VARIABLES
  call,      \* where the call of LX_StartNewTask for each task is
  list,      \* lx_task_to_start_list
  wait,      \* LX_STARTTASK_WAIT of p->flags
  started,   \* LX_STARTTASK_STARTED of p->flags
  tid,       \* p->tid
  alloc,     \* the tasks whose p is allocated
  rc,        \* what LX_StartNewTask has returned
  mail,      \* lx_started_task
  svc,       \* where the service thread is
  p,         \* p of LX_ServiceThread
  wakes,     \* is lx_softirq_wakes not 0?
  pending,   \* is a softirq pending?
  thread,    \* the threads made, in order: where they are and what they took
  order      \* history: the tasks in the order of their list_add_tail

callVars == <<call, wait, rc>>
mailVars == <<mail, thread>>
svcVars == <<svc, p, wakes, pending>>
vars == <<call, list, wait, started, tid, alloc, rc, mail, svc, p, wakes,
          pending, thread, order>>

Empty == [esp |-> 0, eip |-> 0, prev |-> 0]

\* What a task of this name puts into prev.
Prev(t) == IF t \in Boot THEN 0 ELSE t

Init ==
  /\ call = [t \in Task |-> "idle"]
  /\ list = <<>>
  /\ wait = [t \in Task |-> FALSE]
  /\ started = [t \in Task |-> FALSE]
  /\ tid = [t \in Task |-> 0]
  /\ alloc = {}
  /\ rc = [t \in Task |-> 0]
  /\ mail = Empty
  /\ svc = "blocked"
  /\ p = 0
  /\ wakes = FALSE
  /\ pending = FALSE
  /\ thread = <<>>
  /\ order = <<>>

-----------------------------------------------------------------------------
\* DevRun of the service thread: lost unless it is blocked.
DevRun == svc' = IF svc = "blocked" THEN "ready" ELSE svc

\* LX_StartNewTask up to the wait; in an interrupt it does not wait.
StartNewTask(t, w) ==
  /\ call[t] = "idle"
  /\ alloc' = alloc \cup {t}
  /\ wait' = [wait EXCEPT ![t] = w]
  /\ started' = [started EXCEPT ![t] = FALSE]
  /\ list' = Append(list, t)
  /\ order' = Append(order, t)
  /\ DevRun
  /\ call' = [call EXCEPT ![t] = IF w THEN "waiting" ELSE "done"]
  /\ UNCHANGED <<tid, rc, mail, p, wakes, pending, thread>>

\* The end of its loop, which looks every 10 ms: rc = p->tid, kfree(p).
StartReturns(t) ==
  /\ call[t] = "waiting" /\ started[t]
  /\ rc' = [rc EXCEPT ![t] = tid[t]]
  /\ alloc' = alloc \ {t}
  /\ call' = [call EXCEPT ![t] = "done"]
  /\ UNCHANGED <<list, wait, started, tid, mailVars, svcVars, order>>

\* Mutant: only a blocked service thread is told of the softirq.
WakeupSoftirqBlocked ==
  /\ pending' = TRUE
  /\ wakes' = (wakes \/ svc = "blocked")
  /\ DevRun
  /\ UNCHANGED <<callVars, list, started, tid, alloc, mailVars, p, order>>

\* irq_exit with a softirq pending: LX_wakeup_softirq.
WakeupSoftirq ==
  /\ pending' = TRUE
  /\ wakes' = TRUE
  /\ DevRun
  /\ UNCHANGED <<callVars, list, started, tid, alloc, mailVars, p, order>>

-----------------------------------------------------------------------------
(* LX_ServiceThread and the loop of its stub.                              *)

Goto(l) ==
  /\ svc' = l
  /\ UNCHANGED <<callVars, list, started, tid, alloc, mailVars, p, order>>

\* DevBlock of 10 ms or 10 s is over.
Timeout ==
  /\ svc = "blocked"
  /\ Goto("ready")
  /\ UNCHANGED <<wakes, pending>>

\* lx_softirq_wakes is reset before do_softirq runs what is pending.
Softirq ==
  /\ svc = "ready"
  /\ wakes' = FALSE
  /\ Goto(IF wakes THEN "softirq" ELSE "check")
  /\ UNCHANGED pending

DoSoftirq ==
  /\ svc = "softirq"
  /\ pending' = FALSE
  /\ Goto("check")
  /\ UNCHANGED wakes

\* Mutant: the mailbox counts as free once the entry point is taken.
BusyEip == mail.eip # 0

\* The mailbox still holds something of the last task.
Busy == mail # Empty

\* The next task of the list goes into the mailbox, if that is free.
Check ==
  /\ svc = "check"
  /\ IF Busy \/ list = <<>>
       THEN svc' = "blocked" /\ UNCHANGED <<list, mail, p>>
       ELSE /\ svc' = "create"
            /\ p' = Head(list)
            /\ list' = Tail(list)
            /\ mail' = [esp |-> Head(list), eip |-> Head(list),
                        prev |-> Prev(Head(list))]
  /\ UNCHANGED <<callVars, started, tid, alloc, wakes, pending, thread, order>>

\* The thread that is made, and the id stored for it.
Made(id) ==
  /\ svc = "create"
  /\ \E ok \in IF CreateFails THEN BOOLEAN ELSE {TRUE} :
       IF ok
         THEN /\ Len(thread) < MaxThread
              /\ thread' = Append(thread, [at |-> "stack", esp |-> 0,
                                           eip |-> 0, prev |-> 0])
              /\ tid' = [tid EXCEPT ![p] = id]
         ELSE UNCHANGED <<thread, tid>>
  /\ svc' = "finish"
  /\ UNCHANGED <<callVars, list, started, alloc, mail, p, wakes, pending, order>>

\* Mutant: the id of the next thread.
CreateNext == Made(Len(thread) + 2)

\* LXA_CreateThread, whose result nobody looks at.
Create == Made(Len(thread) + 1)

\* Mutant: p is freed although its owner waits for it.
FinishFrees ==
  /\ svc = "finish"
  /\ alloc' = alloc \ {p}
  /\ started' = [started EXCEPT ![p] = wait[p]]
  /\ svc' = "blocked"
  /\ UNCHANGED <<callVars, list, tid, mailVars, p, wakes, pending, order>>

\* Free p, or leave it to the owner that waits.
Finish ==
  /\ svc = "finish"
  /\ IF wait[p]
       THEN started' = [started EXCEPT ![p] = TRUE] /\ UNCHANGED alloc
       ELSE alloc' = alloc \ {p} /\ UNCHANGED started
  /\ svc' = "blocked"
  /\ UNCHANGED <<callVars, list, tid, mailVars, p, wakes, pending, order>>

-----------------------------------------------------------------------------
(* LXA_TaskStub32.                                                         *)

Take(n, from, field, to) ==
  /\ thread[n].at = from
  /\ thread' = [thread EXCEPT ![n][field] = mail[field], ![n].at = to]
  /\ mail' = [mail EXCEPT ![field] = 0]
  /\ UNCHANGED <<callVars, list, started, tid, alloc, svcVars, order>>

\* LXA_TaskStackAlloc, ...
TakeEsp(n) == Take(n, "stack", "esp", "entry")

\* ... the entry point, then LX_add_this_current, which may sleep in kmalloc, ...
TakeEip(n) == Take(n, "entry", "eip", "adding")

\* Mutant: prev is read and stays in the mailbox.
ReadPrev(n) ==
  /\ thread[n].at = "adding"
  /\ thread' = [thread EXCEPT ![n].prev = mail.prev, ![n].at = "running"]
  /\ UNCHANGED <<callVars, list, started, tid, alloc, mail, svcVars, order>>

\* ... and prev, with which the task runs.
TakePrev(n) == Take(n, "adding", "prev", "running")

-----------------------------------------------------------------------------
Service == Softirq \/ DoSoftirq \/ Check \/ Create \/ Finish
Stub(n) == TakeEsp(n) \/ TakeEip(n) \/ TakePrev(n)

Next ==
  \/ \E t \in Task : (\E w \in BOOLEAN : StartNewTask(t, w)) \/ StartReturns(t)
  \/ WakeupSoftirq
  \/ Timeout
  \/ Service
  \/ \E n \in 1 .. Len(thread) : Stub(n)

\* DevBlock always has a timeout, and a thread that is ready runs.
Spec ==
  /\ Init /\ [][Next]_vars
  /\ WF_vars(Timeout) /\ WF_vars(Service)
  /\ \A t \in Task : WF_vars(StartReturns(t))
  /\ \A n \in 1 .. MaxThread : WF_vars(n <= Len(thread) /\ Stub(n))

-----------------------------------------------------------------------------
\* The values the variables of the service thread take.
TypeOK ==
  /\ call \in [Task -> {"idle", "waiting", "done"}]
  /\ list \in Seq(Task) /\ order \in Seq(Task)
  /\ wait \in [Task -> BOOLEAN] /\ started \in [Task -> BOOLEAN]
  /\ tid \in [Task -> 0 .. MaxThread] /\ rc \in [Task -> 0 .. MaxThread]
  /\ alloc \subseteq Task
  /\ mail \in [esp : Task \cup {0}, eip : Task \cup {0}, prev : Task \cup {0}]
  /\ svc \in {"blocked", "ready", "softirq", "check", "create", "finish"}
  /\ p \in Task \cup {0}
  /\ wakes \in BOOLEAN /\ pending \in BOOLEAN
  /\ Len(thread) <= MaxThread
  /\ \A n \in 1 .. Len(thread) :
       /\ thread[n].at \in {"stack", "entry", "adding", "running"}
       /\ {thread[n].esp, thread[n].eip, thread[n].prev}
            \subseteq Task \cup {0}

\* The n-th thread made runs the n-th task queued, on its stack and with its
\* prev: no thread gets a field of another task from the mailbox.  That of prev
\* ends when a boot task gets one: it leaves prev 0, so the mailbox is free
\* before it has taken prev.  A caller that has waited knows the thread of its
\* own task.
OwnTask ==
  /\ \A n \in 1 .. Len(thread) : LET h == thread[n] IN
       /\ h.at # "stack" => h.esp = order[n]
       /\ h.at \in {"adding", "running"} => h.eip = order[n]
       /\ h.at = "running" /\ order[n] \notin Boot =>
            \/ h.prev = order[n]
            \/ \E m \in 1 .. n - 1 : order[m] \in Boot /\ thread[m].prev # 0
  /\ \A t \in Task : call[t] = "done" /\ wait[t] =>
       rc[t] \in 1 .. Len(thread) /\ order[rc[t]] = t

\* The service thread and a waiting caller use p only while it is allocated,
\* and it is freed when both are through.
RequestAlive ==
  /\ svc \in {"create", "finish"} => p \in alloc
  /\ \A t \in Task : call[t] = "waiting" => t \in alloc
  /\ \A i \in 1 .. Len(list) : list[i] \in alloc
  /\ (\A t \in Task : call[t] # "waiting") /\ list = <<>> /\ svc = "blocked"
       => alloc = {}

\* Every task queued runs.
EveryTaskRuns ==
  \A t \in Task : call[t] # "idle" ~>
    \E n \in 1 .. Len(thread) : thread[n].eip = t /\ thread[n].at = "running"

\* Every softirq an interrupt leaves behind runs.
SoftirqRuns == pending ~> ~pending
=============================================================================
