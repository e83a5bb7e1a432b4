------------------------------- MODULE LxIrq -------------------------------
(***************************************************************************)
(* One interrupt line (1, 3 .. 15) of os2/arch/kernel/oak_irq.c: drivers   *)
(* request, free, disable and enable it in threads while OS/2 delivers     *)
(* interrupts on any processor.  OS/2 calls the handler Dev32/lxdispatch.c *)
(* has set with DevIRQSet; oo_irq.c runs do_IRQ from it.                   *)
(*                                                                         *)
(* An OS/2 system masks nothing for this driver: under TARGET_OS2 the      *)
(* routines of the 8259A are empty, so ->ack, ->end, ->enable, ->disable,  *)
(* ->startup and ->shutdown leave the state alone.  A processor does not   *)
(* leave a thread in the driver for another thread, interrupts nest on it. *)
(* What runs under desc->lock is one step.  Calls that fail (-ENOMEM,      *)
(* -EBUSY, a dev_id that is not on the list) change nothing and are not    *)
(* steps.                                                                  *)
(***************************************************************************)
EXTENDS Integers, FiniteSets, Sequences

CONSTANTS
  Driver,     \* the drivers; also their irqactions, one for each
  Shirq,      \* the drivers that pass SA_SHIRQ
  Fast,       \* the drivers that pass SA_INTERRUPT
  Cpu,        \* the processors
  None,
  IrqSetFails,  \* may DevIRQSet fail, the line belonging to another driver?
  MaxDepth    \* bound on desc->depth

ASSUME IrqAssumption ==
  /\ IsFiniteSet(Driver)
  /\ Shirq \subseteq Driver /\ Fast \subseteq Driver
  /\ None \notin Driver
  /\ IrqSetFails \in BOOLEAN
  /\ MaxDepth \in Nat

VARIABLES
  action,     \* desc->action
  next,       \* action->next of every irqaction
  alloc,      \* the irqactions that are allocated
  status,     \* desc->status
  depth,      \* desc->depth
  use_count,  \* irq_states[irq].use_count
  hooked,     \* has OS/2 our handler for the line?
  inservice,  \* is an interrupt delivered and its EOI still to come?
  pc,         \* what the thread of each driver does
  cpu,        \* the thread that spins on each processor, or None
  stack,      \* the frames of do_IRQ on each processor, the last one on top
  held,       \* disables of each driver it has not undone
  quiet,      \* history: the drivers disable_irq has returned to
  missed      \* history: the drivers an enabled interrupt has yet to reach

descVars == <<action, next, alloc, status, depth, use_count, hooked>>
callVars == <<pc, cpu, held, quiet>>
irqVars == <<inservice, stack, missed>>
vars == <<descVars, callVars, irqVars>>

\* The drivers whose irqaction is on the list of desc->action.
Linked == {d \in Driver : pc[d] \in {"on", "disabling"}}

Flags == {"DISABLED", "INPROGRESS", "PENDING", "REPLAY"}

\* init_IRQ: every line is disabled and has no action.
Init ==
  /\ action = None
  /\ next = [d \in Driver |-> None]
  /\ alloc = {}
  /\ status = {"DISABLED"}
  /\ depth = 1
  /\ use_count = 0
  /\ hooked = FALSE
  /\ inservice = FALSE
  /\ pc = [d \in Driver |-> "off"]
  /\ cpu = [c \in Cpu |-> None]
  /\ stack = [c \in Cpu |-> <<>>]
  /\ held = [d \in Driver |-> 0]
  /\ quiet = {}
  /\ missed = {}

-----------------------------------------------------------------------------
(* The calls of the drivers.                                               *)

\* A processor on which no thread spins and no interrupt runs.
Idle(c) == cpu[c] = None /\ stack[c] = <<>>

\* LX_RequestIrq: the first user sets the handler, if OS/2 lets it.
LX_RequestIrq(ok) ==
  IF use_count = 0
    THEN /\ ok \/ IrqSetFails
         /\ hooked' = (hooked \/ ok)
         /\ use_count' = IF ok THEN 1 ELSE 0
    ELSE /\ ok
         /\ use_count' = use_count + 1
         /\ UNCHANGED hooked

\* Mutant: a handler for every user, removed with the first that goes.
LX_FreeIrqEager ==
  /\ use_count' = use_count - 1
  /\ hooked' = FALSE

\* LX_FreeIrq: the last user removes the handler.
LX_FreeIrq ==
  /\ use_count' = use_count - 1
  /\ hooked' = (hooked /\ use_count' # 0)

\* request_irq and setup_irq.
RequestIrq(d, c, ok) ==
  /\ Idle(c) /\ pc[d] = "off"
  /\ action # None => {action, d} \subseteq Shirq
  /\ alloc' = alloc \cup {d}
  /\ IF action = None
       THEN /\ action' = d
            /\ next' = [next EXCEPT ![d] = None]
            /\ depth' = 0
            /\ status' = status \ {"DISABLED", "INPROGRESS"}
       ELSE LET last == CHOOSE e \in Linked : next[e] = None
            IN  /\ next' = [next EXCEPT ![last] = d, ![d] = None]
                /\ UNCHANGED <<action, depth, status>>
  /\ LX_RequestIrq(ok)
  /\ pc' = [pc EXCEPT ![d] = "on"]
  /\ UNCHANGED <<cpu, held, quiet, irqVars>>

\* free_irq up to the unlock; then it spins in synchronize_irq.
FreeIrq(d, c) ==
  /\ Idle(c) /\ pc[d] = "on"
  /\ LX_FreeIrq
  /\ action' = IF action = d THEN next[d] ELSE action
  /\ next' = [e \in Driver |-> IF e \in Linked /\ next[e] = d
                                 THEN next[d] ELSE next[e]]
  /\ status' = IF action' = None THEN status \cup {"DISABLED"} ELSE status
  /\ pc' = [pc EXCEPT ![d] = "freeing"]
  /\ cpu' = [cpu EXCEPT ![c] = d]
  /\ held' = [held EXCEPT ![d] = 0]
  /\ quiet' = quiet \ {d}
  /\ missed' = missed \ {d}
  /\ UNCHANGED <<alloc, depth, inservice, stack>>

\* Mutant: nobody waits for the handlers that run.
SynchronizeNot == TRUE

\* The condition on which synchronize_irq ends.
Synchronized == "INPROGRESS" \notin status

\* The rest of free_irq: kfree(action).
Freed(d, c) ==
  /\ cpu[c] = d /\ stack[c] = <<>> /\ pc[d] = "freeing"
  /\ Synchronized
  /\ alloc' = alloc \ {d}
  /\ pc' = [pc EXCEPT ![d] = "off"]
  /\ cpu' = [cpu EXCEPT ![c] = None]
  /\ UNCHANGED <<action, next, status, depth, use_count, hooked, held, quiet,
                 irqVars>>

\* disable_irq_nosync under the lock.
Disable(d) ==
  /\ depth < MaxDepth
  /\ depth' = depth + 1
  /\ status' = IF depth = 0 THEN status \cup {"DISABLED"} ELSE status
  /\ held' = [held EXCEPT ![d] = @ + 1]

DisableIrqNosync(d, c) ==
  /\ Idle(c) /\ pc[d] = "on"
  /\ Disable(d)
  /\ UNCHANGED <<action, next, alloc, use_count, hooked, pc, cpu, quiet, irqVars>>

\* disable_irq: the line has an action, so it spins in synchronize_irq ...
DisableIrq(d, c) ==
  /\ Idle(c) /\ pc[d] = "on"
  /\ Disable(d)
  /\ pc' = [pc EXCEPT ![d] = "disabling"]
  /\ cpu' = [cpu EXCEPT ![c] = d]
  /\ UNCHANGED <<action, next, alloc, use_count, hooked, quiet, irqVars>>

\* ... and returns.
Disabled(d, c) ==
  /\ cpu[c] = d /\ stack[c] = <<>> /\ pc[d] = "disabling"
  /\ Synchronized
  /\ quiet' = quiet \cup {d}
  /\ pc' = [pc EXCEPT ![d] = "on"]
  /\ cpu' = [cpu EXCEPT ![c] = None]
  /\ UNCHANGED <<descVars, held, irqVars>>

\* Mutant: the first enable ends every disable.
EnableIrqAtOnce(d, c) ==
  /\ Idle(c) /\ pc[d] = "on" /\ held[d] > 0
  /\ depth' = 0
  /\ status' = status \ {"DISABLED"}
  /\ held' = [held EXCEPT ![d] = @ - 1]
  /\ quiet' = IF held[d] = 1 THEN quiet \ {d} ELSE quiet
  /\ UNCHANGED <<action, next, alloc, use_count, hooked, pc, cpu, irqVars>>

\* enable_irq, by a driver that undoes a disable of its own.  hw_resend_irq
\* sends nothing: no line of an 8259A is an IO_APIC_IRQ.
EnableIrq(d, c) ==
  /\ Idle(c) /\ pc[d] = "on" /\ held[d] > 0
  /\ depth > 0
  /\ depth' = depth - 1
  /\ status' = IF depth # 1 THEN status
               ELSE (status \ {"DISABLED"})
                    \cup (IF "PENDING" \in status THEN {"REPLAY"} ELSE {})
  /\ held' = [held EXCEPT ![d] = @ - 1]
  /\ quiet' = IF held[d] = 1 THEN quiet \ {d} ELSE quiet
  /\ UNCHANGED <<action, next, alloc, use_count, hooked, pc, cpu, irqVars>>

-----------------------------------------------------------------------------
(* The interrupts.                                                         *)

\* Mutant: do_IRQ does not look whether the line is handled already.
BlockedByDisable == {"DISABLED"}

\* What makes do_IRQ leave the interrupt to another time.
Blocked == {"DISABLED", "INPROGRESS"}

\* An interrupt nests in handle_IRQ_event after local_irq_enable.
Open(c) ==
  stack[c] # <<>> => stack[c][Len(stack[c])].head \notin Fast

\* LX_IRQEntry and do_IRQ up to the loop.  Without an action the interrupt is
\* over: IRQHandler16 always sends the EOI.
Interrupt(c) ==
  /\ hooked /\ ~inservice /\ Open(c)
  /\ LET taken == status \cap Blocked = {}
         pending == (status \ {"REPLAY"}) \cup {"PENDING"}
     IN  /\ status' = IF taken
                        THEN (pending \ {"PENDING"}) \cup {"INPROGRESS"}
                        ELSE pending
         /\ IF taken /\ action # None
              THEN /\ stack' = [stack EXCEPT ![c] = Append(@,
                        [head |-> action, cur |-> action, handled |-> FALSE])]
                   /\ inservice' = TRUE
                   /\ missed' = (missed \cup Linked) \ {action}
              ELSE /\ missed' = IF "DISABLED" \in status THEN missed
                                ELSE missed \cup Linked
                   /\ UNCHANGED <<stack, inservice>>
  /\ UNCHANGED <<action, next, alloc, depth, use_count, hooked, callVars>>

Top(c) == stack[c][Len(stack[c])]
SetTop(c, f) == stack' = [stack EXCEPT ![c][Len(stack[c])] = f]

\* handle_IRQ_event: a handler returns, the next one of the list is called.
\* The first that has handled the interrupt makes LX_set_irq_handled send the
\* EOI.
Handler(c, handled) ==
  /\ stack[c] # <<>> /\ Top(c).cur # None
  /\ LET f == Top(c) IN
       /\ SetTop(c, [f EXCEPT !.cur = next[f.cur],
                              !.handled = @ \/ handled])
       /\ inservice' = (inservice /\ ~(handled /\ ~f.handled))
       /\ missed' = missed \ {next[f.cur]}
  /\ UNCHANGED <<descVars, callVars>>

\* Mutant: the loop of do_IRQ ends after one pass.
EndOfListOnce(c) ==
  /\ stack[c] # <<>> /\ Top(c).cur = None
  /\ status' = status \ {"INPROGRESS"}
  /\ stack' = [stack EXCEPT ![c] = SubSeq(@, 1, Len(@) - 1)]
  /\ inservice' = FALSE
  /\ UNCHANGED <<action, next, alloc, depth, use_count, hooked, callVars, missed>>

\* The rest of the loop of do_IRQ: once more from the same action, or out and
\* back to IRQHandler16, which sends the EOI.
EndOfList(c) ==
  /\ stack[c] # <<>> /\ Top(c).cur = None
  /\ IF "PENDING" \in status
       THEN /\ status' = status \ {"PENDING"}
            /\ SetTop(c, [head |-> Top(c).head, cur |-> Top(c).head,
                          handled |-> FALSE])
            /\ missed' = missed \ {Top(c).head}
            /\ UNCHANGED inservice
       ELSE /\ status' = status \ {"INPROGRESS"}
            /\ stack' = [stack EXCEPT ![c] = SubSeq(@, 1, Len(@) - 1)]
            /\ inservice' = FALSE
            /\ UNCHANGED missed
  /\ UNCHANGED <<action, next, alloc, depth, use_count, hooked, callVars>>

-----------------------------------------------------------------------------
Call(d, c) ==
  \/ \E ok \in BOOLEAN : RequestIrq(d, c, ok)
  \/ FreeIrq(d, c)
  \/ Freed(d, c)
  \/ DisableIrqNosync(d, c)
  \/ DisableIrq(d, c)
  \/ Disabled(d, c)
  \/ EnableIrq(d, c)

Isr(c) == (\E h \in BOOLEAN : Handler(c, h)) \/ EndOfList(c)

Next == \E c \in Cpu : (\E d \in Driver : Call(d, c)) \/ Interrupt(c) \/ Isr(c)

\* An interrupt that has begun goes on: nothing on its processor runs before.
Spec == Init /\ [][Next]_vars /\ \A c \in Cpu : WF_vars(Isr(c))

-----------------------------------------------------------------------------
\* The values the variables of the line and its callers take.
TypeOK ==
  /\ action \in Driver \cup {None}
  /\ next \in [Driver -> Driver \cup {None}]
  /\ alloc \subseteq Driver
  /\ status \subseteq Flags
  /\ depth \in 0 .. MaxDepth \cup {1}
  /\ use_count \in 0 .. Cardinality(Driver)
  /\ hooked \in BOOLEAN
  /\ inservice \in BOOLEAN
  /\ pc \in [Driver -> {"off", "on", "freeing", "disabling"}]
  /\ cpu \in [Cpu -> Driver \cup {None}]
  /\ \A c \in Cpu : \A i \in DOMAIN stack[c] :
       stack[c][i] \in [head : Driver, cur : Driver \cup {None},
                        handled : BOOLEAN]
  /\ held \in [Driver -> 0 .. MaxDepth]
  /\ quiet \subseteq Driver
  /\ missed \subseteq Driver

\* IRQ_INPROGRESS keeps the handlers of a line from running twice at once, on
\* two processors or nested on one (do_IRQ).
NoReentry ==
  \A c, e \in Cpu : /\ Len(stack[c]) <= 1
                    /\ stack[c] # <<>> /\ stack[e] # <<>> => c = e

\* do_IRQ and handle_IRQ_event walk only irqactions that free_irq has not
\* given to kfree, although the list changes under them.
ActionsAlive ==
  \A c \in Cpu : \A i \in DOMAIN stack[c] :
    {stack[c][i].head, stack[c][i].cur} \subseteq alloc \cup {None}

\* Between the return of disable_irq and the matching enable_irq no handler of
\* the line runs.
QuietAfterDisable == quiet # {} => \A c \in Cpu : stack[c] = <<>>

\* OS/2 has our handler exactly while a driver has an action on the line: the
\* use count of lxdispatch.c follows the list of oak_irq.c.
HookedWhileUsed == hooked <=> action # None

\* An interrupt that arrives while the line is enabled reaches every handler on
\* the line, also when the handlers were already running: IRQ_PENDING makes
\* do_IRQ call them again.
EveryInterruptHandled == \A d \in Driver : d \in missed ~> d \notin missed
=============================================================================
