------------------------------ MODULE LxWaitOn ------------------------------
(***************************************************************************)
(* The wait list of Dev32/lxwaiton.c.  A thread waits on an id with        *)
(* LX_WaitOn until LX_RunOn of that id, its timeout or a signal.  Until    *)
(* the Linux scheduler is up (lx_current_available) it sleeps in DevBlock; *)
(* afterwards in a wait queue of its own.  Once, when the init process     *)
(* starts, LX_ReschedWaitOn moves the threads that sleep in DevBlock over: *)
(* it marks them LXWF_WAITCONTINUE and runs them, and goes on until none   *)
(* is left.                                                                *)
(*                                                                         *)
(* The model is of one processor (CONFIG_NR_CPUS is 1), where OS/2 does    *)
(* not preempt a thread in the driver.  A step is what a thread does       *)
(* between two points where it gives up the CPU: in DevBlock, in its wait  *)
(* queue, in schedule_timeout, or in the kmalloc of LX_enter_current.      *)
(***************************************************************************)
EXTENDS Naturals

CONSTANTS
  Waiter,   \* threads that call LX_WaitOn
  Id        \* what they wait on

VARIABLES
  lx_current_available,
  resched,   \* where LX_ReschedWaitOn is
  pc,        \* where each waiter is
  id,        \* wi.id
  timed,     \* is wi.timeout not negative?
  iswq,      \* LXWF_ISWQ of wi.flags
  cont,      \* LXWF_WAITCONTINUE of wi.flags
  prev,      \* prev_current_available
  due        \* history: has something ended the sleep it is in, or was in last?

wiVars == <<id, timed, iswq, cont, prev>>
vars == <<lx_current_available, resched, pc, wiVars, due>>

\* On lx_wait_list: between the list_add and the list_del of LX_WaitOn.
Listed(w) == pc[w] \in {"blocked", "ready", "moving", "queued", "awake"}

Goto(w, l) == pc' = [pc EXCEPT ![w] = l]

Init ==
  /\ lx_current_available = FALSE
  /\ resched = "off"
  /\ pc = [w \in Waiter |-> "idle"]
  /\ id \in [Waiter -> Id]
  /\ timed = [w \in Waiter |-> FALSE]
  /\ iswq = [w \in Waiter |-> FALSE]
  /\ cont = [w \in Waiter |-> FALSE]
  /\ prev = [w \in Waiter |-> FALSE]
  /\ due = [w \in Waiter |-> FALSE]

-----------------------------------------------------------------------------
(* LX_WaitOn.                                                              *)

\* The call: into DevBlock at once, or into LX_enter_current first.
WaitOn(w, i, t) ==
  /\ pc[w] = "idle"
  /\ id' = [id EXCEPT ![w] = i]
  /\ timed' = [timed EXCEPT ![w] = t]
  /\ prev' = [prev EXCEPT ![w] = lx_current_available]
  /\ iswq' = [iswq EXCEPT ![w] = lx_current_available]
  /\ cont' = [cont EXCEPT ![w] = FALSE]
  /\ due' = [due EXCEPT ![w] = FALSE]
  /\ Goto(w, IF lx_current_available THEN "entering" ELSE "blocked")
  /\ UNCHANGED <<lx_current_available, resched>>

\* LX_enter_current is over: onto the list and into the wait queue.
Register(w) ==
  /\ pc[w] = "entering"
  /\ Goto(w, "queued")
  /\ UNCHANGED <<lx_current_available, resched, wiVars, due>>

\* The end of the do loop: wait again without the mark, or leave the list.
Again(w, sleep) ==
  /\ Goto(w, IF cont[w] THEN sleep ELSE "idle")
  /\ cont' = [cont EXCEPT ![w] = FALSE]
  /\ due' = [due EXCEPT ![w] = @ /\ ~cont[w]]
  /\ UNCHANGED <<lx_current_available, resched, id, timed, iswq, prev>>

\* From DevBlock into LX_enter_current, to sleep in the wait queue from now on.
Switch(w, wq) ==
  /\ Goto(w, "moving")
  /\ iswq' = [iswq EXCEPT ![w] = wq]
  /\ prev' = [prev EXCEPT ![w] = TRUE]
  /\ UNCHANGED <<lx_current_available, resched, id, timed, cont, due>>

\* DevBlock has returned while the scheduler was still down, ...
Unblock(w) ==
  /\ pc[w] = "ready"
  /\ ~(lx_current_available /\ ~prev[w])
  /\ Again(w, "blocked")

\* ... or for the first time after it came up.
Moves(w, wq) ==
  /\ pc[w] = "ready"
  /\ lx_current_available /\ ~prev[w]
  /\ Switch(w, wq)

\* Mutant: LXWF_ISWQ is not set.
MoveNot(w) == Moves(w, FALSE)

Move(w) == Moves(w, TRUE)

\* Mutant: LXWF_WAITCONTINUE is not cleared before the thread sleeps again.
MovedMarked(w) ==
  /\ pc[w] = "moving"
  /\ Goto(w, IF cont[w] THEN (IF iswq[w] THEN "queued" ELSE "blocked")
             ELSE "idle")
  /\ due' = [due EXCEPT ![w] = @ /\ ~cont[w]]
  /\ UNCHANGED <<lx_current_available, resched, wiVars>>

\* LX_enter_current is over, the loop goes on or not.
Moved(w) ==
  /\ pc[w] = "moving"
  /\ Again(w, IF iswq[w] THEN "queued" ELSE "blocked")

\* sleep_on or sleep_on_timeout has returned.
Wake(w) ==
  /\ pc[w] = "awake"
  /\ Again(w, "queued")

-----------------------------------------------------------------------------
(* What ends a sleep.                                                      *)

\* The sleeps of the threads of B (in DevBlock) and Q (in wait queues) end.
Readied(B, Q) ==
  pc' = [w \in Waiter |-> IF w \in B THEN "ready"
                          ELSE IF w \in Q THEN "awake" ELSE pc[w]]

\* DevRun readies every thread that is blocked on the id, listed or not.
DevRun(i) == {w \in Waiter : pc[w] = "blocked" /\ id[w] = i}

\* wake_up_all of the wait queue of w.
WakeUp(w) == {v \in {w} : pc[v] = "queued"}

\* LX_RunOn: every entry of the list with this id.
RunOn(i) ==
  LET mine == {w \in Waiter : Listed(w) /\ id[w] = i}
      B == UNION {DevRun(id[w]) : w \in {v \in mine : ~iswq[v]}}
      Q == UNION {WakeUp(w) : w \in {v \in mine : iswq[v]}}
  IN  /\ Readied(B, Q)
      /\ due' = [w \in Waiter |-> due[w] \/ w \in B \cup Q]
      /\ UNCHANGED <<lx_current_available, resched, wiVars>>

\* The timeout passes.
Timeout(w) ==
  /\ timed[w]
  /\ pc[w] \in {"blocked", "queued"}
  /\ Goto(w, IF pc[w] = "blocked" THEN "ready" ELSE "awake")
  /\ due' = [due EXCEPT ![w] = TRUE]
  /\ UNCHANGED <<lx_current_available, resched, wiVars>>

\* A signal ends DevBlock, that of LX_WaitOn or the one in which LX_switch_to
\* leaves a thread that sleeps in its wait queue.
Interrupt(w) ==
  /\ pc[w] \in {"blocked", "queued"}
  /\ Goto(w, IF pc[w] = "blocked" THEN "ready" ELSE "awake")
  /\ due' = [due EXCEPT ![w] = TRUE]
  /\ UNCHANGED <<lx_current_available, resched, wiVars>>

-----------------------------------------------------------------------------
(* The change of schedulers.                                               *)

\* The init process enters the task list: atomic_set(&lx_current_available,1).
Available ==
  /\ ~lx_current_available
  /\ lx_current_available' = TRUE
  /\ UNCHANGED <<resched, pc, wiVars, due>>

\* init calls LX_ReschedWaitOn.
Resched ==
  /\ lx_current_available
  /\ resched = "off"
  /\ resched' = "scan"
  /\ UNCHANGED <<lx_current_available, pc, wiVars, due>>

\* The entries that have not moved yet.
Behind == {w \in Waiter : Listed(w) /\ ~iswq[w]}

\* The walk of the list: mark and run every entry that has not moved.
Scanned(marked, next) ==
  /\ resched = "scan"
  /\ cont' = [w \in Waiter |-> cont[w] \/ w \in marked]
  /\ Readied(UNION {DevRun(id[w]) : w \in Behind}, {})
  /\ resched' = next
  /\ UNCHANGED <<lx_current_available, id, timed, iswq, prev, due>>

\* Mutants: the entries are not marked; one walk is thought to be enough.
ScanUnmarked == Scanned({}, IF Behind = {} THEN "done" ELSE "pause")
ScanOnce == Scanned(Behind, "done")

Scan == Scanned(Behind, IF Behind = {} THEN "done" ELSE "pause")

\* schedule_timeout(100) is over: LX_ReschedWaitOn calls itself.
Rescan ==
  /\ resched = "pause"
  /\ resched' = "scan"
  /\ UNCHANGED <<lx_current_available, pc, wiVars, due>>

-----------------------------------------------------------------------------
WaiterStep(w) == Register(w) \/ Unblock(w) \/ Move(w) \/ Moved(w) \/ Wake(w)
ReschedStep == Scan \/ Rescan

Next ==
  \/ \E w \in Waiter, i \in Id, t \in BOOLEAN : WaitOn(w, i, t)
  \/ \E w \in Waiter : WaiterStep(w) \/ Timeout(w) \/ Interrupt(w)
  \/ \E i \in Id : RunOn(i)
  \/ Available \/ Resched \/ ReschedStep

Spec == Init /\ [][Next]_vars

(***************************************************************************)
(* A thread that is ready gets the CPU, and the pause of LX_ReschedWaitOn  *)
(* ends.  Nothing makes anybody wait, wake or start the scheduler.         *)
(***************************************************************************)
FairSpec == /\ Spec
            /\ \A w \in Waiter : WF_vars(WaiterStep(w))
            /\ WF_vars(ReschedStep)
-----------------------------------------------------------------------------
(* Properties.                                                             *)

\* The variables stay within their types.
TypeOK ==
  /\ lx_current_available \in BOOLEAN
  /\ resched \in {"off", "scan", "pause", "done"}
  /\ pc \in [Waiter -> {"idle", "entering", "blocked", "ready", "moving",
                        "queued", "awake"}]
  /\ id \in [Waiter -> Id]
  /\ timed \in [Waiter -> BOOLEAN]
  /\ iswq \in [Waiter -> BOOLEAN]
  /\ cont \in [Waiter -> BOOLEAN]
  /\ prev \in [Waiter -> BOOLEAN]
  /\ due \in [Waiter -> BOOLEAN]

\* When LX_ReschedWaitOn has returned no thread is in DevBlock any more, asleep
\* or about to return from it, and none goes there again.
MigrationComplete ==
  resched = "done" => \A w \in Waiter : pc[w] \notin {"blocked", "ready"}

\* LX_WaitOn returns because of an LX_RunOn of its id, its timeout or a signal,
\* and never because LX_ReschedWaitOn has run the thread.
NoSpuriousReturn ==
  [][\A w \in Waiter : pc[w] # "idle" /\ pc'[w] = "idle" => due[w]]_vars

\* LX_ReschedWaitOn, which calls itself as long as it finds a thread that has
\* not moved, comes to an end, whoever waits or is woken meanwhile.
ReschedEnds == resched = "scan" ~> resched = "done"

\* A thread that is woken in its wait queue returns: the mark with which it was
\* moved there does not swallow a later LX_RunOn.
WakeEndsWait == \A w \in Waiter : pc[w] = "awake" ~> pc[w] = "idle"
=============================================================================
