----------------------------- MODULE LxIrqProofs -----------------------------
(***************************************************************************)
(* Proofs about an interrupt line, for every set of drivers.               *)
(*                                                                         *)
(* What keeps the handlers of a line apart is IRQ_INPROGRESS, and setup_irq *)
(* clears it for the first action of a line: another driver may request a  *)
(* line whose last action was unlinked while its handler still runs.  On   *)
(* two processors, one of which runs the handler and the other of which    *)
(* spins in free_irq, there is no third one for that request, and with one *)
(* driver there is nobody to make it.  This is the hypothesis Apart.       *)
(***************************************************************************)
EXTENDS LxIrq, FiniteSetTheorems, SequenceTheorems, TLAPS

\* At most two processors, or one driver for the line.
Apart == \/ \A a, b, c \in Cpu : a = b \/ b = c \/ a = c
         \/ \A d, e \in Driver : d = e

-----------------------------------------------------------------------------
(* The inductive invariant.                                                *)

Frame == [head : Driver, cur : Driver \cup {None}, handled : BOOLEAN]

\* The types the steps need; those of the counters are sharper in TypeOK.
IrqTypes ==
  /\ action \in Driver \cup {None}
  /\ next \in [Driver -> Driver \cup {None}]
  /\ status \subseteq Flags
  /\ depth \in Nat
  /\ use_count \in Int
  /\ hooked \in BOOLEAN
  /\ inservice \in BOOLEAN
  /\ pc \in [Driver -> {"off", "on", "freeing", "disabling"}]
  /\ cpu \in [Cpu -> Driver \cup {None}]
  /\ stack \in [Cpu -> Seq(Frame)]
  /\ held \in [Driver -> Nat]
  /\ quiet \subseteq Driver
  /\ missed \subseteq Driver

\* An irqaction is allocated from request_irq to the end of free_irq.
Allocated == alloc = {d \in Driver : pc[d] # "off"}

\* The order of the list: r grows along next, and no action is left out.
Ordered(r) ==
  /\ \A d, e \in Linked : r[d] = r[e] => d = e
  /\ action # None => \A d \in Linked : r[action] <= r[d]
  /\ \A d, e \in Linked :
       IF next[d] = None THEN r[e] <= r[d]
       ELSE r[d] < r[next[d]] /\ (r[e] <= r[d] \/ r[next[d]] <= r[e])

\* The irqactions of the line form one list, from desc->action to a last one.
List ==
  /\ action \in Linked \cup {None}
  /\ action = None => Linked = {}
  /\ action # None => \E e \in Linked : next[e] = None
  /\ \A d \in Linked : next[d] \in Linked \cup {None}
  /\ \A d \in Linked \ {action} : \E e \in Linked : next[e] = d
  /\ \E r \in [Driver -> Nat] : Ordered(r)

\* The disables that drivers have not undone, numbered for each driver.
Holds == {h \in Driver \X (Nat \ {0}) : h[2] <= held[h[1]]}

\* desc->depth counts at least those, and a line with a depth or without an
\* action is disabled.
Depth ==
  /\ IsFiniteSet(Holds) /\ Cardinality(Holds) <= depth
  /\ depth > 0 \/ action = None => "DISABLED" \in status
  /\ \A d \in Driver : held[d] > 0 => d \in Linked
  /\ \A d \in Driver : pc[d] = "disabling" \/ d \in quiet => held[d] > 0

\* At most one do_IRQ runs, and it runs under IRQ_INPROGRESS.
OneFrame ==
  /\ NoReentry
  /\ \A c \in Cpu : stack[c] # <<>> => "INPROGRESS" \in status

\* While handlers of an empty line run, a free_irq spins on another processor.
Spinning ==
  \A c \in Cpu : action = None /\ stack[c] # <<>> =>
    \E e \in Cpu \ {c} : cpu[e] # None /\ pc[cpu[e]] = "freeing"

\* S is allocated, holds the list and what do_IRQ walks on processor c, and the
\* walk does not leave it.
Walks(c, S) ==
  /\ Linked \subseteq S /\ S \subseteq alloc
  /\ stack[c][1].head \in S /\ stack[c][1].cur \in S \cup {None}
  /\ \A d \in S : next[d] \in S \cup {None}

Walk == \A c \in Cpu : stack[c] # <<>> => \E S \in SUBSET Driver : Walks(c, S)

\* The inductive invariant.
IrqInv == /\ IrqTypes
          /\ Allocated
          /\ List
          /\ Depth
          /\ OneFrame
          /\ Spinning
          /\ Walk
          /\ QuietAfterDisable

-----------------------------------------------------------------------------
(* Facts about the steps.                                                  *)

\* A sequence of at most one element that is not empty has one.
LEMMA OneElement ==
  ASSUME NEW F, NEW s \in Seq(F), s # <<>>, Len(s) <= 1
  PROVE  Len(s) = 1 /\ s = <<s[1]>> /\ s[1] \in F
<1> DEFINE n == Len(s)
<1>1. n \in Nat /\ n # 0 /\ n <= 1
  BY EmptySeq
<1> HIDE DEF n
<1>2. n = 1
  BY <1>1
<1> QED
  BY <1>2 DEF n

\* A sequence that is not empty has a last element and a front.
LEMMA LastElement ==
  ASSUME NEW F, NEW s \in Seq(F), s # <<>>
  PROVE  /\ Len(s) \in 1 .. Len(s) /\ s[Len(s)] \in F
         /\ SubSeq(s, 1, Len(s) - 1) \in Seq(F)
<1> DEFINE n == Len(s)
<1>1. n \in Nat /\ n # 0
  BY EmptySeq
<1>2. \A i \in 1 .. n : s[i] \in F
  BY ElementOfSeq
<1> HIDE DEF n
<1>3. n \in 1 .. n /\ \A i \in 1 .. n - 1 : i \in 1 .. n
  BY <1>1
<1>4. SubSeq(s, 1, n - 1) \in Seq(F)
  BY <1>1, <1>2, <1>3, SubSeqProperties
<1> QED
  BY <1>2, <1>3, <1>4 DEF n

\* A stack with a frame has one frame, and Top is that frame.
LEMMA TopFrame ==
  ASSUME IrqTypes, NoReentry, NEW c \in Cpu, stack[c] # <<>>
  PROVE  /\ Len(stack[c]) = 1 /\ stack[c] = <<Top(c)>>
         /\ Top(c) = stack[c][1] /\ Top(c) \in Frame
<1>1. stack[c] \in Seq(Frame) /\ Len(stack[c]) <= 1
  BY DEF IrqTypes, NoReentry
<1> HIDE DEF Frame
<1>2. Len(stack[c]) = 1 /\ stack[c] = <<stack[c][1]>> /\ stack[c][1] \in Frame
  BY <1>1, OneElement
<1> QED
  BY <1>2 DEF Top

\* The last action is where request_irq looks for it.
LEMMA LastLinked ==
  ASSUME List, action # None
  PROVE  LET last == CHOOSE e \in Linked : next[e] = None
         IN  last \in Linked /\ next[last] = None
BY DEF List

\* Which actions are on the list after each call of a driver.
LEMMA LinkedStep ==
  ASSUME IrqTypes, NEW d \in Driver, NEW c \in Cpu
  PROVE  /\ \A ok \in BOOLEAN : RequestIrq(d, c, ok) =>
              d \notin Linked /\ Linked' = Linked \cup {d}
         /\ FreeIrq(d, c) => d \in Linked /\ Linked' = Linked \ {d}
         /\ Freed(d, c) \/ DisableIrqNosync(d, c) \/ DisableIrq(d, c)
              \/ Disabled(d, c) \/ EnableIrq(d, c) => Linked' = Linked
<1> USE DEF IrqTypes, Linked
<1>1. ASSUME NEW ok \in BOOLEAN, RequestIrq(d, c, ok)
      PROVE  d \notin Linked /\ Linked' = Linked \cup {d}
  BY <1>1 DEF RequestIrq
<1>2. ASSUME FreeIrq(d, c) PROVE d \in Linked /\ Linked' = Linked \ {d}
  BY <1>2 DEF FreeIrq
<1>3. ASSUME Freed(d, c) PROVE Linked' = Linked
  BY <1>3 DEF Freed
<1>4. ASSUME DisableIrqNosync(d, c) \/ EnableIrq(d, c) PROVE Linked' = Linked
  BY <1>4 DEF DisableIrqNosync, EnableIrq
<1>5. ASSUME DisableIrq(d, c) PROVE Linked' = Linked
  BY <1>5 DEF DisableIrq
<1>6. ASSUME Disabled(d, c) PROVE Linked' = Linked
  BY <1>6 DEF Disabled, descVars
<1> QED
  BY <1>1, <1>2, <1>3, <1>4, <1>5, <1>6

\* What the interrupts do to the stack of their processor: do_IRQ enters one
\* frame on an empty stack, handle_IRQ_event and the loop replace it, and its end
\* leaves the stack empty.
LEMMA StackStep ==
  ASSUME IrqInv, NEW c \in Cpu
  PROVE  /\ Interrupt(c) =>
              \/ /\ stack[c] = <<>> /\ action # None /\ "DISABLED" \notin status
                 /\ stack' = [stack EXCEPT ![c] = <<[head |-> action,
                                cur |-> action, handled |-> FALSE]>>]
                 /\ \A e \in Cpu : stack[e] = <<>>
                 /\ "INPROGRESS" \in status'
                 /\ inservice' = TRUE
                 /\ missed' = (missed \cup Linked) \ {action}
              \/ /\ stack' = stack /\ inservice' = inservice
                 /\ missed' \in {missed, missed \cup Linked}
                 /\ status \subseteq status'
                      \cup {"PENDING", "REPLAY"}
         /\ \A h \in BOOLEAN : Handler(c, h) =>
              /\ stack[c] # <<>> /\ Top(c).cur \in Driver
              /\ \E f \in Frame : /\ stack' = [stack EXCEPT ![c] = <<f>>]
                                  /\ f.head = Top(c).head
                                  /\ f.cur = next[Top(c).cur]
         /\ EndOfList(c) =>
              /\ stack[c] # <<>>
              /\ \/ /\ stack' = [stack EXCEPT ![c] = <<[head |-> Top(c).head,
                                   cur |-> Top(c).head, handled |-> FALSE]>>]
                    /\ status' = status \ {"PENDING"}
                 \/ /\ stack' = [stack EXCEPT ![c] = <<>>]
                    /\ status' = status \ {"INPROGRESS"}
<1>0. IrqTypes /\ NoReentry /\ stack \in [Cpu -> Seq(Frame)]
  BY DEF IrqInv, OneFrame, IrqTypes
<1>1. ASSUME Interrupt(c), status \cap Blocked = {}, action # None
      PROVE  /\ stack[c] = <<>> /\ action # None /\ "DISABLED" \notin status
             /\ stack' = [stack EXCEPT ![c] = <<[head |-> action,
                                cur |-> action, handled |-> FALSE]>>]
             /\ \A e \in Cpu : stack[e] = <<>>
             /\ "INPROGRESS" \in status'
             /\ inservice' = TRUE
             /\ missed' = (missed \cup Linked) \ {action}
  <2>1. \A e \in Cpu : stack[e] = <<>>
    BY <1>1 DEF IrqInv, OneFrame, Blocked
  <2> DEFINE f == [head |-> action, cur |-> action, handled |-> FALSE]
  <2>2. stack' = [stack EXCEPT ![c] = Append(@, f)]
    BY <1>1 DEF Interrupt
  <2> HIDE DEF f
  <2>3. stack[c] = <<>> /\ Append(<<>>, f) = <<f>>
    BY <2>1
  <2>4. stack' = [stack EXCEPT ![c] = <<f>>]
    BY <2>2, <2>3
  <2> QED
    BY <1>1, <2>1, <2>4 DEF f, Interrupt, Blocked
<1>2. ASSUME Interrupt(c), ~(status \cap Blocked = {} /\ action # None)
      PROVE  /\ stack' = stack /\ inservice' = inservice
             /\ missed' \in {missed, missed \cup Linked}
             /\ status \subseteq status' \cup {"PENDING", "REPLAY"}
  BY <1>2 DEF Interrupt
<1>3. ASSUME stack[c] # <<>>, NEW f, SetTop(c, f)
      PROVE  stack' = [stack EXCEPT ![c] = <<f>>]
  <2>1. Len(stack[c]) = 1 /\ stack[c] = <<Top(c)>>
    BY <1>0, <1>3, TopFrame
  <2>2. stack' = [stack EXCEPT ![c] = [stack[c] EXCEPT ![1] = f]]
    BY <1>3, <2>1 DEF SetTop
  <2>3. [<<Top(c)>> EXCEPT ![1] = f] = <<f>>
    OBVIOUS
  <2> QED
    BY <2>1, <2>2, <2>3
<1>4. ASSUME NEW h \in BOOLEAN, Handler(c, h)
      PROVE  /\ stack[c] # <<>> /\ Top(c).cur \in Driver
             /\ \E f \in Frame : /\ stack' = [stack EXCEPT ![c] = <<f>>]
                                 /\ f.head = Top(c).head
                                 /\ f.cur = next[Top(c).cur]
  <2>1. stack[c] # <<>> /\ Top(c).cur # None
    BY <1>4 DEF Handler
  <2>2. Top(c) \in Frame
    BY <1>0, <2>1, TopFrame
  <2>3. Top(c).cur \in Driver /\ next[Top(c).cur] \in Driver \cup {None}
    BY <1>0, <2>1, <2>2 DEF Frame, IrqTypes
  <2> DEFINE f == [Top(c) EXCEPT !.cur = next[Top(c).cur],
                                 !.handled = @ \/ h]
  <2>4. SetTop(c, f)
    BY <1>4 DEF Handler
  <2>5. f \in Frame /\ f.head = Top(c).head /\ f.cur = next[Top(c).cur]
    BY <2>2, <2>3 DEF Frame
  <2> HIDE DEF f
  <2>6. stack' = [stack EXCEPT ![c] = <<f>>]
    BY <1>3, <2>1, <2>4
  <2> QED
    BY <2>1, <2>3, <2>5, <2>6
<1>5. ASSUME EndOfList(c), "PENDING" \in status
      PROVE  /\ stack[c] # <<>>
             /\ stack' = [stack EXCEPT ![c] = <<[head |-> Top(c).head,
                            cur |-> Top(c).head, handled |-> FALSE]>>]
             /\ status' = status \ {"PENDING"}
  <2> DEFINE f == [head |-> Top(c).head, cur |-> Top(c).head, handled |-> FALSE]
  <2>1. stack[c] # <<>> /\ SetTop(c, f) /\ status' = status \ {"PENDING"}
    BY <1>5 DEF EndOfList
  <2> HIDE DEF f
  <2>2. stack' = [stack EXCEPT ![c] = <<f>>]
    BY <1>3, <2>1
  <2> QED
    BY <2>1, <2>2 DEF f
<1>6. ASSUME EndOfList(c), "PENDING" \notin status
      PROVE  /\ stack[c] # <<>>
             /\ stack' = [stack EXCEPT ![c] = <<>>]
             /\ status' = status \ {"INPROGRESS"}
  <2>1. /\ stack[c] # <<>> /\ status' = status \ {"INPROGRESS"}
        /\ stack' = [stack EXCEPT ![c] = SubSeq(stack[c], 1, Len(stack[c]) - 1)]
    BY <1>6 DEF EndOfList
  <2>2. Len(stack[c]) = 1 /\ stack[c] = <<Top(c)>>
    BY <1>0, <2>1, TopFrame
  <2>3. SubSeq(<<Top(c)>>, 1, 0) = <<>> /\ 1 - 1 = 0
    OBVIOUS
  <2>4. SubSeq(stack[c], 1, Len(stack[c]) - 1) = <<>>
    BY <2>2, <2>3, Zenon
  <2> QED
    BY <2>1, <2>4
<1> QED
  BY <1>1, <1>2, <1>4, <1>5, <1>6

-----------------------------------------------------------------------------
(* Each part of the invariant is kept by every step.                       *)

\* Every step keeps the types.
LEMMA TypesStep ==
  ASSUME IrqTypes, Next
  PROVE  IrqTypes'
<1> USE DEF IrqTypes, Flags
<1>1. ASSUME NEW d \in Driver, NEW c \in Cpu, NEW ok \in BOOLEAN,
             RequestIrq(d, c, ok)
      PROVE  IrqTypes'
  <2>0. ASSUME NEW last
        PROVE  /\ [next EXCEPT ![d] = None] \in [Driver -> Driver \cup {None}]
               /\ [next EXCEPT ![last] = d, ![d] = None]
                    \in [Driver -> Driver \cup {None}]
    OBVIOUS
  <2>1. /\ next' \in [Driver -> Driver \cup {None}]
        /\ action' \in Driver \cup {None} /\ depth' \in Nat
        /\ status' \subseteq Flags
    <3>1. CASE action = None
      <4>1. /\ action' = d /\ depth' = 0
            /\ next' = [next EXCEPT ![d] = None]
            /\ status' = status \ {"DISABLED", "INPROGRESS"}
        BY <1>1, <3>1 DEF RequestIrq
      <4> QED
        BY <2>0, <4>1
    <3>2. CASE action # None
      <4> DEFINE last == CHOOSE e \in Linked : next[e] = None
      <4>1. /\ next' = [next EXCEPT ![last] = d, ![d] = None]
            /\ UNCHANGED <<action, depth, status>>
        BY <1>1, <3>2 DEF RequestIrq
      <4> HIDE DEF last
      <4> QED
        BY <2>0, <4>1
    <3> QED
      BY <3>1, <3>2
  <2>2. use_count' \in Int /\ hooked' \in BOOLEAN
    BY <1>1 DEF RequestIrq, LX_RequestIrq
  <2> QED
    BY <1>1, <2>1, <2>2 DEF RequestIrq, irqVars
<1>2. ASSUME NEW d \in Driver, NEW c \in Cpu, FreeIrq(d, c)
      PROVE  IrqTypes'
  BY <1>2 DEF FreeIrq, LX_FreeIrq
<1>3. ASSUME NEW d \in Driver, NEW c \in Cpu, Freed(d, c) \/ Disabled(d, c)
      PROVE  IrqTypes'
  BY <1>3 DEF Freed, Disabled, descVars, irqVars
<1>4. ASSUME NEW d \in Driver, NEW c \in Cpu,
             DisableIrqNosync(d, c) \/ DisableIrq(d, c)
      PROVE  IrqTypes'
  <2>1. Disable(d)
    BY <1>4 DEF DisableIrqNosync, DisableIrq
  <2>2. depth' \in Nat /\ status' \subseteq Flags /\ held' \in [Driver -> Nat]
    BY <2>1 DEF Disable
  <2>3. /\ UNCHANGED <<action, next, use_count, hooked, quiet, irqVars>>
        /\ pc' = pc \/ pc' = [pc EXCEPT ![d] = "disabling"]
        /\ cpu' = cpu \/ cpu' = [cpu EXCEPT ![c] = d]
    BY <1>4 DEF DisableIrqNosync, DisableIrq
  <2>4. /\ pc' \in [Driver -> {"off", "on", "freeing", "disabling"}]
        /\ cpu' \in [Cpu -> Driver \cup {None}]
    <3>1. [pc EXCEPT ![d] = "disabling"]
            \in [Driver -> {"off", "on", "freeing", "disabling"}]
      BY SMT
    <3>2. [cpu EXCEPT ![c] = d] \in [Cpu -> Driver \cup {None}]
      BY SMT
    <3> QED
      BY <2>3, <3>1, <3>2, Zenon
  <2> QED
    BY <2>2, <2>3, <2>4 DEF irqVars
<1>5. ASSUME NEW d \in Driver, NEW c \in Cpu, EnableIrq(d, c)
      PROVE  IrqTypes'
  BY <1>5 DEF EnableIrq, irqVars
<1>6. ASSUME NEW c \in Cpu, Interrupt(c)
      PROVE  IrqTypes'
  <2>1. stack' \in [Cpu -> Seq(Frame)]
    <3>1. CASE status \cap Blocked = {} /\ action # None
      <4> DEFINE f == [head |-> action, cur |-> action, handled |-> FALSE]
      <4>1. f \in Frame
        BY <3>1 DEF Frame
      <4>2. stack' = [stack EXCEPT ![c] = Append(stack[c], f)]
        BY <1>6, <3>1 DEF Interrupt
      <4> HIDE DEF f, Frame
      <4>3. Append(stack[c], f) \in Seq(Frame)
        BY <4>1, AppendProperties
      <4> QED
        BY <4>2, <4>3
    <3>2. CASE ~(status \cap Blocked = {} /\ action # None)
      BY <1>6, <3>2 DEF Interrupt
    <3> QED
      BY <3>1, <3>2
  <2>2. missed' \subseteq Driver /\ inservice' \in BOOLEAN
    BY <1>6 DEF Interrupt, Linked
  <2> QED
    BY <1>6, <2>1, <2>2 DEF Interrupt, callVars
<1>7. ASSUME NEW c \in Cpu, stack[c] # <<>>, NEW f \in Frame, SetTop(c, f)
      PROVE  stack' \in [Cpu -> Seq(Frame)]
  <2> HIDE DEF Frame
  <2>1. [stack[c] EXCEPT ![Len(stack[c])] = f] \in Seq(Frame)
    BY <1>7, LastElement, ExceptSeq
  <2>2. stack' = [stack EXCEPT ![c] = [stack[c] EXCEPT ![Len(stack[c])] = f]]
    BY <1>7 DEF SetTop
  <2> QED
    BY <2>1, <2>2
<1>8. ASSUME NEW c \in Cpu, NEW h \in BOOLEAN, Handler(c, h)
      PROVE  IrqTypes'
  <2> DEFINE f == [Top(c) EXCEPT !.cur = next[Top(c).cur],
                                 !.handled = @ \/ h]
  <2>1. stack[c] # <<>> /\ Top(c).cur # None /\ SetTop(c, f)
    BY <1>8 DEF Handler
  <2>2. Top(c) \in Frame
    BY <2>1, LastElement DEF Top
  <2>3. f \in Frame
    BY <2>1, <2>2 DEF Frame
  <2> HIDE DEF f
  <2>4. stack' \in [Cpu -> Seq(Frame)]
    BY <1>7, <2>1, <2>3
  <2> QED
    BY <1>8, <2>4 DEF Handler, descVars, callVars
<1>9. ASSUME NEW c \in Cpu, EndOfList(c)
      PROVE  IrqTypes'
  <2> DEFINE f == [head |-> Top(c).head, cur |-> Top(c).head, handled |-> FALSE]
  <2>1. /\ stack[c] # <<>>
        /\ \/ SetTop(c, f)
           \/ stack' = [stack EXCEPT ![c] = SubSeq(stack[c], 1, Len(stack[c]) - 1)]
    BY <1>9 DEF EndOfList
  <2>2. Top(c) \in Frame
    BY <2>1, LastElement DEF Top
  <2>3. f \in Frame
    BY <2>2 DEF Frame
  <2> HIDE DEF f
  <2>4. SubSeq(stack[c], 1, Len(stack[c]) - 1) \in Seq(Frame)
    <3> HIDE DEF Frame
    <3> QED
      BY <2>1, LastElement
  <2>5. stack' \in [Cpu -> Seq(Frame)]
    BY <1>7, <2>1, <2>3, <2>4
  <2> QED
    BY <1>9, <2>5 DEF EndOfList, callVars
<1> QED
  BY <1>1, <1>2, <1>3, <1>4, <1>5, <1>6, <1>8, <1>9 DEF Next, Call, Isr

\* Every step keeps the allocated irqactions those that a driver uses.
LEMMA AllocatedStep ==
  ASSUME IrqTypes, Allocated, Next
  PROVE  Allocated'
<1> USE DEF IrqTypes, Allocated
<1>1. ASSUME NEW d \in Driver, NEW c \in Cpu, Call(d, c)
      PROVE  Allocated'
  BY <1>1 DEF Call, RequestIrq, FreeIrq, Freed, DisableIrqNosync, DisableIrq,
              Disabled, EnableIrq, descVars
<1>2. ASSUME NEW c \in Cpu, Interrupt(c) \/ Isr(c)
      PROVE  Allocated'
  BY <1>2 DEF Interrupt, Isr, Handler, EndOfList, descVars, callVars
<1> QED
  BY <1>1, <1>2 DEF Next

\* request_irq puts its action behind the last one, free_irq makes the action
\* before its own point behind it: what is left is one list.
LEMMA ListStep ==
  ASSUME IrqTypes, List, Next
  PROVE  List'
<1>0. IrqTypes /\ List /\ None \notin Driver /\ Linked \subseteq Driver
  BY IrqAssumption DEF Linked
<1>1. PICK r \in [Driver -> Nat] : Ordered(r)
  BY <1>0 DEF List
<1>2. ASSUME NEW d \in Driver, NEW c \in Cpu, NEW ok \in BOOLEAN,
             RequestIrq(d, c, ok), action = None
      PROVE  List'
  <2>1. /\ action' = d /\ next' = [next EXCEPT ![d] = None]
        /\ Linked' = {d}
    BY <1>0, <1>2, LinkedStep DEF RequestIrq, List
  <2>2. Ordered(r)'
    BY <1>0, <2>1 DEF Ordered, IrqTypes
  <2> QED
    BY <1>0, <2>1, <2>2 DEF List, IrqTypes
<1>3. ASSUME NEW d \in Driver, NEW c \in Cpu, NEW ok \in BOOLEAN,
             RequestIrq(d, c, ok), action # None
      PROVE  List'
  <2> DEFINE last == CHOOSE e \in Linked : next[e] = None
  <2>1. last \in Linked /\ next[last] = None
    BY <1>0, <1>3, LastLinked
  <2>2. /\ action' = action
        /\ next' = [next EXCEPT ![last] = d, ![d] = None]
        /\ d \notin Linked /\ Linked' = Linked \cup {d}
    BY <1>0, <1>3, LinkedStep DEF RequestIrq
  <2> HIDE DEF last
  <2>3. \A e \in Driver : next'[e] = IF e = d THEN None
                                     ELSE IF e = last THEN d ELSE next[e]
    BY <1>0, <2>1, <2>2 DEF IrqTypes
  <2>4. PICK q \in [Driver -> Nat] :
               q[d] = r[last] + 1 /\ \A e \in Driver : e # d => q[e] = r[e]
    <3>1. [r EXCEPT ![d] = r[last] + 1] \in [Driver -> Nat]
      BY <1>0, <2>1
    <3> QED
      BY <3>1
  <2>5. \A e \in Linked : r[e] <= r[last] /\ (r[e] = r[last] => e = last)
                          /\ r[e] \in Nat
    BY <1>0, <1>1, <2>1 DEF Ordered
  <2>6. \A e \in Linked : next[e] = None => e = last
    BY <1>0, <1>1, <2>1, <2>5 DEF Ordered
  <2>7. action \in Linked /\ action # d
    BY <1>0, <1>3, <2>2 DEF List
  <2>8. Ordered(q)'
    <3>1. \A e, f \in Linked' : q[e] = q[f] => e = f
      BY <1>0, <1>1, <2>1, <2>2, <2>4, <2>5 DEF Ordered
    <3>2. \A e \in Linked' : q[action'] <= q[e]
      BY <1>0, <1>1, <1>3, <2>1, <2>2, <2>4, <2>5, <2>7 DEF Ordered
    <3>3. ASSUME NEW e \in Linked', NEW f \in Linked'
          PROVE  IF next'[e] = None THEN q[f] <= q[e]
                 ELSE /\ q[e] < q[next'[e]]
                      /\ q[f] <= q[e] \/ q[next'[e]] <= q[f]
      <4>1. CASE e = d
        <5>1. next'[e] = None /\ q[e] = r[last] + 1 /\ r[last] \in Nat
          BY <1>0, <4>1, <2>1, <2>3, <2>4
        <5>2. q[f] <= r[last] + 1
          BY <1>0, <2>2, <2>4, <2>5, <5>1
        <5> QED
          BY <5>1, <5>2
      <4>2. CASE e = last
        <5>1. /\ next'[e] = d /\ q[d] = r[last] + 1 /\ q[e] = r[last]
              /\ r[last] \in Nat /\ d # None
          BY <1>0, <4>2, <2>1, <2>2, <2>3, <2>4
        <5>2. f = d \/ q[f] <= r[last]
          BY <1>0, <2>2, <2>4, <2>5
        <5> QED
          BY <5>1, <5>2
      <4>3. CASE e # d /\ e # last
        <5>1. e \in Linked /\ next'[e] = next[e] /\ next[e] # None
          BY <1>0, <4>3, <2>2, <2>3, <2>6
        <5>2. next[e] \in Linked /\ next[e] # d /\ q[next[e]] = r[next[e]]
              /\ q[e] = r[e]
          BY <1>0, <5>1, <2>2, <2>4 DEF List
        <5>3. CASE f = d
          BY <1>0, <1>1, <5>1, <5>2, <5>3, <2>1, <2>2, <2>4, <2>5 DEF Ordered
        <5>4. CASE f # d
          BY <1>0, <1>1, <5>1, <5>2, <5>4, <2>2, <2>4 DEF Ordered
        <5> QED
          BY <5>3, <5>4
      <4> QED
        BY <4>1, <4>2, <4>3
    <3> QED
      BY <3>1, <3>2, <3>3 DEF Ordered
  <2>9. \A e \in Linked' : next'[e] \in Linked' \cup {None}
    <3>1. \A e \in Linked : next[e] \in Linked \cup {None}
      BY <1>0 DEF List
    <3>2. ASSUME NEW e \in Linked' PROVE next'[e] \in Linked' \cup {None}
      <4>1. CASE e = d
        BY <1>0, <2>3, <4>1
      <4>2. CASE e = last /\ e # d
        <5>1. next'[e] = d
          BY <1>0, <2>1, <2>3, <4>2
        <5> QED
          BY <2>2, <5>1
      <4>3. CASE e # last /\ e # d
        <5>1. e \in Linked
          BY <2>2, <4>3
        <5>2. next'[e] = next[e]
          BY <1>0, <2>3, <4>3, <5>1
        <5> QED
          BY <2>2, <3>1, <5>1, <5>2
      <4> QED
        BY <4>1, <4>2, <4>3
    <3> QED
      BY <3>2
  <2>10. \A e \in Linked' \ {action'} : \E f \in Linked' : next'[f] = e
    <3> SUFFICES ASSUME NEW e \in Linked' \ {action'}
                 PROVE  \E f \in Linked' : next'[f] = e
      OBVIOUS
    <3>1. CASE e = d
      BY <1>0, <3>1, <2>1, <2>2, <2>3
    <3>2. CASE e # d
      <4>1. PICK f \in Linked : next[f] = e
        BY <1>0, <3>2, <2>2 DEF List
      <4>2. f # d /\ f # last
        BY <1>0, <4>1, <2>1, <2>2
      <4> QED
        BY <1>0, <4>1, <4>2, <2>2, <2>3
    <3> QED
      BY <3>1, <3>2
  <2>11. action' \in Linked' /\ action' # None
    BY <1>3, <2>2, <2>7
  <2>12. d \in Linked' /\ next'[d] = None
    BY <2>2, <2>3
  <2>13. \E z \in [Driver -> Nat] : Ordered(z)'
    BY <2>8
  <2> QED
    BY <2>9, <2>10, <2>11, <2>12, <2>13 DEF List
<1>4. ASSUME NEW d \in Driver, NEW c \in Cpu, FreeIrq(d, c)
      PROVE  List'
  <2>1. /\ action' = IF action = d THEN next[d] ELSE action
        /\ d \in Linked /\ Linked' = Linked \ {d}
        /\ \A e \in Driver : next'[e] = IF e \in Linked /\ next[e] = d
                                          THEN next[d] ELSE next[e]
    BY <1>0, <1>4, LinkedStep DEF FreeIrq
  <2>2. next[d] \in Linked \cup {None} /\ next[d] # d
    BY <1>0, <1>1, <2>1 DEF List, Ordered
  <2>3. action \in Linked
    BY <1>0, <2>1 DEF List
  <2>4. \A e \in Linked : e # d => next'[e] \in Linked' \cup {None}
    BY <1>0, <2>1, <2>2 DEF List
  <2>5. action' \in Linked' \cup {None}
    BY <1>0, <2>1, <2>2, <2>3
  <2>6. action' = None => Linked' = {}
    BY <1>0, <1>1, <2>1, <2>3 DEF Ordered
  <2>7. ASSUME action' # None
        PROVE  \E e \in Linked' : next'[e] = None
    <3>1. PICK e \in Linked : next[e] = None
      BY <1>0, <2>3 DEF List
    <3>2. CASE e # d
      BY <1>0, <3>1, <3>2, <2>1
    <3>3. CASE e = d
      <4>1. action # d
        BY <1>0, <2>1, <2>7, <3>1, <3>3
      <4>2. PICK f \in Linked : next[f] = d
        BY <1>0, <2>1, <4>1 DEF List
      <4> QED
        BY <1>0, <4>2, <2>1, <2>2, <3>1, <3>3
    <3> QED
      BY <3>2, <3>3
  <2>8. \A e \in Linked' \ {action'} : \E f \in Linked' : next'[f] = e
    <3> SUFFICES ASSUME NEW e \in Linked' \ {action'}
                 PROVE  \E f \in Linked' : next'[f] = e
      OBVIOUS
    <3>1. e # action /\ e \in Linked /\ e # d
      BY <1>0, <2>1
    <3>2. PICK f \in Linked : next[f] = e
      BY <1>0, <3>1 DEF List
    <3>3. CASE f # d
      BY <1>0, <3>1, <3>2, <3>3, <2>1
    <3>4. CASE f = d
      <4>1. action # d
        BY <1>0, <2>1, <3>2, <3>4
      <4>2. PICK g \in Linked : next[g] = d
        BY <1>0, <2>1, <4>1 DEF List
      <4> QED
        BY <1>0, <3>2, <3>4, <4>2, <2>1, <2>2
    <3> QED
      BY <3>3, <3>4
  <2>9. Ordered(r)'
    <3>1. \A e, f \in Linked' : r[e] = r[f] => e = f
      BY <1>1, <2>1 DEF Ordered
    <3>2. \A e \in Linked : r[e] \in Nat
      BY <1>0
    <3>3. action' # None => \A e \in Linked' : r[action'] <= r[e]
      <4>1. CASE action # d
        BY <1>0, <1>1, <2>1, <2>3, <4>1 DEF Ordered
      <4>2. CASE action = d /\ next[d] # None
        <5>1. next[d] \in Linked
          BY <2>2, <4>2
        <5>2. ASSUME NEW e \in Linked, e # d PROVE r[next[d]] <= r[e]
          <6>1. r[d] <= r[e] /\ r[d] # r[e]
            BY <1>0, <1>1, <2>1, <4>2, <5>2 DEF Ordered
          <6>2. r[e] <= r[d] \/ r[next[d]] <= r[e]
            BY <1>0, <1>1, <2>1, <4>2, <5>2 DEF Ordered
          <6> QED
            BY <3>2, <6>1, <6>2, <5>1, <5>2, <2>1
        <5> QED
          BY <5>2, <2>1, <4>2
      <4> QED
        BY <2>1, <4>1, <4>2
    <3>4. ASSUME NEW e \in Linked', NEW f \in Linked'
          PROVE  IF next'[e] = None THEN r[f] <= r[e]
                 ELSE /\ r[e] < r[next'[e]]
                      /\ r[f] <= r[e] \/ r[next'[e]] <= r[f]
      <4>1. e \in Linked /\ f \in Linked /\ e # d /\ f # d
        BY <2>1
      <4>2. CASE next[e] # d
        BY <1>0, <1>1, <2>1, <4>1, <4>2 DEF Ordered
      <4>3. CASE next[e] = d
        <5>1. next'[e] = next[d] /\ d # None
          BY <1>0, <2>1, <4>1, <4>3
        <5>2. /\ r[e] < r[d] /\ (r[f] <= r[e] \/ r[d] <= r[f]) /\ r[d] # r[f]
              /\ r[d] \in Nat /\ r[e] \in Nat /\ r[f] \in Nat
          BY <1>0, <1>1, <2>1, <4>1, <4>3, <5>1, <3>2 DEF Ordered
        <5>3. CASE next[d] = None
          <6>1. r[f] <= r[d]
            BY <1>1, <2>1, <4>1, <5>3 DEF Ordered
          <6> QED
            BY <6>1, <5>1, <5>2, <5>3
        <5>4. CASE next[d] # None
          <6>1. /\ r[d] < r[next[d]] /\ (r[f] <= r[d] \/ r[next[d]] <= r[f])
                /\ r[next[d]] \in Nat
            BY <1>1, <2>1, <2>2, <4>1, <5>4, <3>2 DEF Ordered
          <6> QED
            BY <6>1, <5>1, <5>2, <5>4
        <5> QED
          BY <5>3, <5>4
      <4> QED
        BY <4>2, <4>3
    <3> QED
      BY <3>1, <3>3, <3>4 DEF Ordered
  <2> QED
    BY <2>1, <2>4, <2>5, <2>6, <2>7, <2>8, <2>9 DEF List
<1>5. ASSUME UNCHANGED <<action, next, Linked>> PROVE List'
  BY <1>0, <1>5 DEF List, Ordered
<1>6. ASSUME NEW d \in Driver, NEW c \in Cpu,
             \/ Freed(d, c) \/ DisableIrqNosync(d, c) \/ DisableIrq(d, c)
             \/ Disabled(d, c) \/ EnableIrq(d, c)
      PROVE  UNCHANGED <<action, next, Linked>>
  BY <1>0, <1>6, LinkedStep DEF Freed, DisableIrqNosync, DisableIrq, Disabled,
                               EnableIrq, descVars
<1>7. ASSUME NEW c \in Cpu, Interrupt(c) \/ Isr(c)
      PROVE  UNCHANGED <<action, next, Linked>>
  BY <1>7 DEF Interrupt, Isr, Handler, EndOfList, descVars, callVars, Linked
<1> QED
  BY <1>2, <1>3, <1>4, <1>5, <1>6, <1>7 DEF Next, Call

\* A disable adds one hold, its enable takes that away, and the first request of
\* a line finds none: desc->depth stays above the holds.
LEMMA DepthStep ==
  ASSUME IrqTypes, List, Depth, Next
  PROVE  Depth'
<1>0. /\ IrqTypes /\ List /\ Depth /\ IrqTypes' /\ Linked \subseteq Driver
      /\ None \notin Driver
  BY TypesStep, IrqAssumption DEF Linked
<1>1. IsFiniteSet(Holds) /\ Cardinality(Holds) \in Nat
  BY <1>0, FS_CardinalityType DEF Depth
<1>2. ASSUME NEW d \in Driver, NEW c \in Cpu, NEW ok \in BOOLEAN,
             RequestIrq(d, c, ok)
      PROVE  Depth'
  <2>1. Linked' = Linked \cup {d} /\ held' = held /\ Holds' = Holds
    BY <1>0, <1>2, LinkedStep DEF RequestIrq, Holds
  <2>2. \A e \in Driver : pc'[e] = "disabling" \/ e \in quiet' => held'[e] > 0
    BY <1>0, <1>2 DEF RequestIrq, Depth, IrqTypes
  <2>3. \A e \in Driver : held'[e] > 0 => e \in Linked'
    BY <1>0, <2>1 DEF Depth
  <2>4. CASE action = None
    <3>1. action' = d /\ depth' = 0
      BY <1>2, <2>4 DEF RequestIrq
    <3>2. ASSUME NEW e \in Driver PROVE held[e] = 0
      <4>1. held[e] \in Nat /\ Linked = {}
        BY <1>0, <2>4 DEF List, IrqTypes
      <4>2. ~(held[e] > 0)
        BY <1>0, <4>1 DEF Depth
      <4> QED
        BY <4>1, <4>2
    <3>3. Holds = {}
      BY <3>2 DEF Holds
    <3> QED
      BY <1>0, <1>1, <2>1, <2>2, <2>3, <3>1, <3>3, FS_EmptySet DEF Depth
  <2>5. CASE action # None
    <3>1. UNCHANGED <<action, depth, status>>
      BY <1>2, <2>5 DEF RequestIrq
    <3> QED
      BY <1>0, <2>1, <2>2, <2>3, <3>1 DEF Depth
  <2> QED
    BY <2>4, <2>5
<1>3. ASSUME NEW d \in Driver, NEW c \in Cpu, FreeIrq(d, c)
      PROVE  Depth'
  <2>1. /\ Linked' = Linked \ {d} /\ held' = [held EXCEPT ![d] = 0]
        /\ quiet' = quiet \ {d} /\ pc' = [pc EXCEPT ![d] = "freeing"]
        /\ depth' = depth
    BY <1>0, <1>3, LinkedStep DEF FreeIrq
  <2>2. Holds' \in SUBSET Holds
    BY <1>0, <2>1 DEF Holds, IrqTypes
  <2>3. IsFiniteSet(Holds') /\ Cardinality(Holds') <= Cardinality(Holds)
        /\ Cardinality(Holds') \in Nat
    BY <1>1, <2>2, FS_Subset, FS_CardinalityType
  <2>4. depth' > 0 \/ action' = None => "DISABLED" \in status'
    BY <1>0, <1>3, <2>1 DEF FreeIrq, Depth
  <2>5. \A e \in Driver : /\ held'[e] > 0 => e \in Linked'
                          /\ pc'[e] = "disabling" \/ e \in quiet' => held'[e] > 0
    BY <1>0, <2>1 DEF Depth, IrqTypes
  <2>6. Cardinality(Holds') <= depth'
    BY <1>0, <1>1, <2>1, <2>3 DEF Depth, IrqTypes
  <2> QED
    BY <2>3, <2>4, <2>5, <2>6 DEF Depth
<1>4. ASSUME NEW d \in Driver, NEW c \in Cpu,
             DisableIrqNosync(d, c) \/ DisableIrq(d, c)
      PROVE  Depth'
  <2>1. /\ Disable(d) /\ pc[d] = "on" /\ UNCHANGED <<action, Linked, quiet>>
        /\ \A e \in Driver \ {d} : pc'[e] = pc[e]
    BY <1>0, <1>4, LinkedStep DEF DisableIrqNosync, DisableIrq, IrqTypes
  <2> DEFINE h == <<d, held[d] + 1>>
  <2>2. /\ depth' = depth + 1 /\ held' = [held EXCEPT ![d] = held[d] + 1]
        /\ status' = IF depth = 0 THEN status \cup {"DISABLED"} ELSE status
    BY <2>1 DEF Disable
  <2>3. Holds' = Holds \cup {h} /\ h \notin Holds
    BY <1>0, <2>2 DEF Holds, IrqTypes
  <2>4. IsFiniteSet(Holds') /\ Cardinality(Holds') = Cardinality(Holds) + 1
    BY <1>1, <2>3, FS_AddElement
  <2>5. depth' > 0 \/ action' = None => "DISABLED" \in status'
    BY <1>0, <2>1, <2>2 DEF Depth, IrqTypes
  <2>6. d \in Linked
    BY <2>1 DEF Linked
  <2>7. \A e \in Driver : /\ held'[e] > 0 => e \in Linked'
                          /\ pc'[e] = "disabling" \/ e \in quiet' => held'[e] > 0
    BY <1>0, <2>1, <2>2, <2>6 DEF Depth, IrqTypes
  <2>8. Cardinality(Holds') <= depth'
    BY <1>0, <1>1, <2>2, <2>4 DEF Depth, IrqTypes
  <2> QED
    BY <2>4, <2>5, <2>7, <2>8 DEF Depth
<1>5. ASSUME NEW d \in Driver, NEW c \in Cpu, EnableIrq(d, c)
      PROVE  Depth'
  <2> DEFINE h == <<d, held[d]>>
  <2>1. /\ Linked' = Linked /\ action' = action /\ pc' = pc /\ pc[d] = "on"
        /\ depth > 0 /\ depth' = depth - 1
        /\ held[d] > 0 /\ held' = [held EXCEPT ![d] = held[d] - 1]
        /\ quiet' = IF held[d] = 1 THEN quiet \ {d} ELSE quiet
        /\ status \subseteq status' \cup {"DISABLED"}
        /\ depth # 1 => status' = status
    BY <1>0, <1>5, LinkedStep DEF EnableIrq
  <2>2. action # None
    BY <1>0, <2>1 DEF Linked, List
  <2>3. Holds' = Holds \ {h} /\ h \in Holds
    BY <1>0, <2>1 DEF Holds, IrqTypes
  <2>4. IsFiniteSet(Holds') /\ Cardinality(Holds') = Cardinality(Holds) - 1
    BY <1>1, <2>3, FS_RemoveElement
  <2>5. depth' > 0 \/ action' = None => "DISABLED" \in status'
    BY <1>0, <2>1, <2>2 DEF Depth, IrqTypes
  <2>6. \A e \in Driver : /\ held'[e] > 0 => e \in Linked'
                          /\ pc'[e] = "disabling" \/ e \in quiet' => held'[e] > 0
    BY <1>0, <2>1 DEF Depth, IrqTypes
  <2>7. Cardinality(Holds') <= depth'
    BY <1>0, <1>1, <2>1, <2>4 DEF Depth, IrqTypes
  <2> QED
    BY <2>4, <2>5, <2>6, <2>7 DEF Depth
<1>6. ASSUME NEW d \in Driver, NEW c \in Cpu, Disabled(d, c)
      PROVE  Depth'
  <2>1. /\ UNCHANGED <<Linked, action, depth, held, status>> /\ pc[d] = "disabling"
        /\ pc' = [pc EXCEPT ![d] = "on"] /\ quiet' = quiet \cup {d}
    BY <1>0, <1>6, LinkedStep DEF Disabled, descVars
  <2>2. Holds' = Holds
    BY <2>1 DEF Holds
  <2> QED
    BY <1>0, <2>1, <2>2 DEF Depth, IrqTypes
<1>7. ASSUME NEW d \in Driver, NEW c \in Cpu, Freed(d, c)
      PROVE  Depth'
  <2>1. /\ UNCHANGED <<Linked, action, depth, held, status, quiet>>
        /\ pc' = [pc EXCEPT ![d] = "off"]
    BY <1>0, <1>7, LinkedStep DEF Freed
  <2>2. Holds' = Holds
    BY <2>1 DEF Holds
  <2> QED
    BY <1>0, <2>1, <2>2 DEF Depth, IrqTypes
<1>8. ASSUME NEW c \in Cpu, Interrupt(c) \/ Isr(c)
      PROVE  Depth'
  <2>1. /\ UNCHANGED <<Linked, action, depth, held, pc, quiet>>
        /\ "DISABLED" \in status => "DISABLED" \in status'
    BY <1>8 DEF Interrupt, Isr, Handler, EndOfList, descVars, callVars, Linked
  <2>2. Holds' = Holds
    BY <2>1 DEF Holds
  <2> QED
    BY <1>0, <2>1, <2>2 DEF Depth
<1> QED
  BY <1>2, <1>3, <1>4, <1>5, <1>6, <1>7, <1>8 DEF Next, Call

\* The first request of a line finds no handler of it running: this is where
\* the third processor, and the other driver, would do harm.
LEMMA NoHandlerAtFirstRequest ==
  ASSUME IrqInv, Apart, NEW d \in Driver, NEW c \in Cpu, NEW ok \in BOOLEAN,
         RequestIrq(d, c, ok), action = None
  PROVE  \A e \in Cpu : stack[e] = <<>>
<1> SUFFICES ASSUME NEW e \in Cpu, stack[e] # <<>> PROVE FALSE
  OBVIOUS
<1>1. PICK g \in Cpu \ {e} : cpu[g] # None /\ pc[cpu[g]] = "freeing"
  BY DEF IrqInv, Spinning
<1>2. cpu[c] = None /\ stack[c] = <<>> /\ pc[d] = "off"
  BY DEF RequestIrq, Idle
<1>3. c # e /\ c # g /\ g # e
  BY <1>1, <1>2
<1>4. cpu[g] \in Driver /\ cpu[g] # d
  BY <1>1, <1>2 DEF IrqInv, IrqTypes
<1> QED
  BY <1>3, <1>4 DEF Apart

\* What disable_irq has returned to is disabled.
LEMMA QuietDisabled ==
  ASSUME IrqInv, quiet # {}
  PROVE  "DISABLED" \in status
<1>0. IrqTypes /\ Depth
  BY DEF IrqInv
<1>1. PICK d \in quiet : d \in Driver
  BY <1>0 DEF IrqTypes
<1>2. held[d] \in Nat /\ held[d] > 0
  BY <1>0, <1>1 DEF IrqTypes, Depth
<1>3. <<d, 1>> \in Holds
  BY <1>1, <1>2 DEF Holds
<1>4. Cardinality(Holds) \in Nat /\ Cardinality(Holds) # 0
  BY <1>0, <1>3, FS_CardinalityType, FS_EmptySet DEF Depth
<1>5. depth > 0
  BY <1>0, <1>4 DEF Depth, IrqTypes
<1> QED
  BY <1>0, <1>5 DEF Depth

\* The calls of the drivers leave the stacks alone and, while a handler runs,
\* IRQ_INPROGRESS.
LEMMA CallFrames ==
  ASSUME IrqInv, Apart, NEW d \in Driver, NEW c \in Cpu, Call(d, c)
  PROVE  /\ stack' = stack
         /\ \A e \in Cpu : stack[e] # <<>> =>
              "INPROGRESS" \in status /\ "INPROGRESS" \in status'
<1>0. \A e \in Cpu : stack[e] # <<>> => "INPROGRESS" \in status
  BY DEF IrqInv, OneFrame
<1>1. ASSUME NEW ok \in BOOLEAN, RequestIrq(d, c, ok), action = None
      PROVE  /\ stack' = stack
             /\ \A e \in Cpu : stack[e] = <<>>
  BY <1>1, NoHandlerAtFirstRequest DEF RequestIrq, irqVars
<1>2. ASSUME NEW ok \in BOOLEAN, RequestIrq(d, c, ok), action # None
      PROVE  stack' = stack /\ status' = status
  BY <1>2 DEF RequestIrq, irqVars
<1>3. ASSUME FreeIrq(d, c)
      PROVE  stack' = stack /\ status \subseteq status'
  BY <1>3 DEF FreeIrq
<1>4. ASSUME Freed(d, c) \/ Disabled(d, c)
      PROVE  stack' = stack /\ status' = status
  BY <1>4 DEF Freed, Disabled, descVars, irqVars
<1>5. ASSUME DisableIrqNosync(d, c) \/ DisableIrq(d, c)
      PROVE  stack' = stack /\ status \subseteq status'
  BY <1>5 DEF DisableIrqNosync, DisableIrq, Disable, irqVars
<1>6. ASSUME EnableIrq(d, c)
      PROVE  stack' = stack /\ status \subseteq status' \cup {"DISABLED"}
  BY <1>6 DEF EnableIrq, irqVars
<1> QED
  BY <1>0, <1>1, <1>2, <1>3, <1>4, <1>5, <1>6 DEF Call

\* IRQ_INPROGRESS keeps do_IRQ alone: it enters when the flag is off, sets it,
\* and takes it away when it leaves.
LEMMA OneFrameStep ==
  ASSUME IrqInv, Apart, Next
  PROVE  OneFrame'
<1>0. IrqTypes /\ OneFrame
  BY DEF IrqInv
<1>1. ASSUME NEW d \in Driver, NEW c \in Cpu, Call(d, c)
      PROVE  OneFrame'
  BY <1>0, <1>1, CallFrames DEF OneFrame, NoReentry
<1>2. ASSUME NEW c \in Cpu, NEW f \in Frame, \A e \in Cpu \ {c} : stack[e] = <<>>,
             stack' = [stack EXCEPT ![c] = <<f>>], "INPROGRESS" \in status'
      PROVE  OneFrame'
  <2>1. \A e \in Cpu : stack'[e] = IF e = c THEN <<f>> ELSE <<>>
    BY <1>0, <1>2 DEF IrqTypes
  <2>2. Len(<<f>>) = 1 /\ Len(<<>>) = 0
    OBVIOUS
  <2>3. \A e \in Cpu : Len(stack'[e]) <= 1 /\ (stack'[e] # <<>> => e = c)
    <3>1. stack'[c] = <<f>> /\ \A e \in Cpu \ {c} : stack'[e] = <<>>
      BY <2>1
    <3>2. 1 <= 1 /\ 0 <= 1
      OBVIOUS
    <3>3. Len(stack'[c]) <= 1 /\ \A e \in Cpu \ {c} : Len(stack'[e]) <= 1
      BY <2>2, <3>1, <3>2, Zenon
    <3> QED
      BY <3>1, <3>3
  <2> QED
    BY <1>2, <2>3 DEF OneFrame, NoReentry
<1>3. ASSUME NEW c \in Cpu, Interrupt(c)
      PROVE  OneFrame'
  <2>1. CASE /\ stack' = [stack EXCEPT ![c] = <<[head |-> action,
                              cur |-> action, handled |-> FALSE]>>]
             /\ \A e \in Cpu : stack[e] = <<>>
             /\ "INPROGRESS" \in status' /\ action # None
    <3> DEFINE f == [head |-> action, cur |-> action, handled |-> FALSE]
    <3>1. f \in Frame
      BY <1>0, <2>1 DEF Frame, IrqTypes
    <3>2. stack' = [stack EXCEPT ![c] = <<f>>]
      BY <2>1
    <3> HIDE DEF f
    <3> QED
      BY <1>2, <2>1, <3>1, <3>2
  <2>2. CASE stack' = stack
             /\ status \subseteq status' \cup {"PENDING", "REPLAY"}
    BY <1>0, <2>2 DEF OneFrame, NoReentry
  <2> QED
    BY <1>3, <2>1, <2>2, StackStep
<1>4. ASSUME NEW c \in Cpu, stack[c] # <<>>
      PROVE  "INPROGRESS" \in status /\ \A e \in Cpu \ {c} : stack[e] = <<>>
  BY <1>0, <1>4 DEF OneFrame, NoReentry
<1>5. ASSUME NEW c \in Cpu, NEW h \in BOOLEAN, Handler(c, h)
      PROVE  OneFrame'
  <2>1. stack[c] # <<>> /\ status' = status
    BY <1>5 DEF Handler, descVars
  <2>2. PICK f \in Frame : stack' = [stack EXCEPT ![c] = <<f>>]
    BY <1>5, StackStep
  <2> QED
    BY <1>2, <1>4, <2>1, <2>2
<1>6. ASSUME NEW c \in Cpu, EndOfList(c)
      PROVE  OneFrame'
  <2>1. stack[c] # <<>> /\ Top(c) \in Frame
    BY <1>0, <1>6, TopFrame DEF EndOfList, OneFrame
  <2>2. CASE stack' = [stack EXCEPT ![c] = <<>>]
    <3>1. \A e \in Cpu : stack'[e] = <<>>
      BY <1>0, <1>4, <2>1, <2>2 DEF IrqTypes
    <3>2. Len(<<>>) = 0
      OBVIOUS
    <3> QED
      BY <3>1, <3>2 DEF OneFrame, NoReentry
  <2>3. CASE /\ stack' = [stack EXCEPT ![c] = <<[head |-> Top(c).head,
                            cur |-> Top(c).head, handled |-> FALSE]>>]
             /\ status' = status \ {"PENDING"}
    <3> DEFINE f == [head |-> Top(c).head, cur |-> Top(c).head,
                     handled |-> FALSE]
    <3>1. f \in Frame
      BY <2>1 DEF Frame
    <3>2. stack' = [stack EXCEPT ![c] = <<f>>]
      BY <2>3
    <3> HIDE DEF f
    <3> QED
      BY <1>2, <1>4, <2>1, <2>3, <3>1, <3>2
  <2> QED
    BY <1>6, <2>2, <2>3, StackStep
<1> QED
  BY <1>1, <1>3, <1>5, <1>6 DEF Next, Isr

\* Where a frame can be after a step of an interrupt.
LEMMA FrameComesFrom ==
  ASSUME IrqInv, NEW c \in Cpu, Interrupt(c) \/ Isr(c),
         NEW e \in Cpu, stack'[e] # <<>>
  PROVE  stack[e] # <<>> \/ (action # None /\ "DISABLED" \notin status)
<1>1. stack \in [Cpu -> Seq(Frame)]
  BY DEF IrqInv, IrqTypes
<1> QED
  BY <1>1, StackStep DEF Isr

\* disable_irq waits for the handlers that run, and no other one starts before
\* the enable.
LEMMA QuietStep ==
  ASSUME IrqInv, Apart, Next
  PROVE  QuietAfterDisable'
<1>0. QuietAfterDisable /\ IrqTypes
  BY DEF IrqInv
<1>1. ASSUME NEW d \in Driver, NEW c \in Cpu, Call(d, c), ~Disabled(d, c)
      PROVE  stack' = stack /\ quiet' \subseteq quiet
  <2>1. quiet' \subseteq quiet
    BY <1>1 DEF Call, RequestIrq, FreeIrq, Freed, DisableIrqNosync, DisableIrq,
                EnableIrq, irqVars
  <2> QED
    BY <1>1, <2>1, CallFrames
<1>2. ASSUME NEW d \in Driver, NEW c \in Cpu, Disabled(d, c)
      PROVE  \A e \in Cpu : stack'[e] = <<>>
  BY <1>2 DEF Disabled, Synchronized, IrqInv, OneFrame, irqVars
<1>3. ASSUME NEW c \in Cpu, Interrupt(c) \/ Isr(c)
      PROVE  QuietAfterDisable'
  <2>1. quiet' = quiet
    BY <1>3 DEF Interrupt, Isr, Handler, EndOfList, callVars
  <2> QED
    BY <1>0, <1>3, <2>1, FrameComesFrom, QuietDisabled DEF QuietAfterDisable
<1> QED
  BY <1>0, <1>1, <1>2, <1>3 DEF Next, QuietAfterDisable, Call

\* The free_irq that empties a line waits on its processor for the handlers.
LEMMA SpinningStep ==
  ASSUME IrqInv, Apart, Next
  PROVE  Spinning'
<1>0. IrqTypes /\ Spinning /\ OneFrame /\ List /\ None \notin Driver
  BY IrqAssumption DEF IrqInv
<1>1. ASSUME NEW d \in Driver, NEW c \in Cpu, NEW ok \in BOOLEAN,
             RequestIrq(d, c, ok)
      PROVE  Spinning'
  BY <1>0, <1>1 DEF RequestIrq, Spinning
<1>2. ASSUME NEW d \in Driver, NEW c \in Cpu, FreeIrq(d, c)
      PROVE  Spinning'
  <2>1. /\ stack[c] = <<>> /\ stack' = stack
        /\ cpu'[c] = d /\ pc'[d] = "freeing"
    BY <1>0, <1>2 DEF FreeIrq, Idle, IrqTypes
  <2> QED
    BY <1>0, <2>1 DEF Spinning
<1>3. ASSUME NEW d \in Driver, NEW c \in Cpu, Freed(d, c) \/ Disabled(d, c)
      PROVE  Spinning'
  <2>1. \A e \in Cpu : stack'[e] = <<>>
    BY <1>0, <1>3 DEF Freed, Disabled, Synchronized, OneFrame, irqVars
  <2> QED
    BY <2>1 DEF Spinning
<1>4. ASSUME NEW d \in Driver, NEW c \in Cpu,
             DisableIrqNosync(d, c) \/ DisableIrq(d, c) \/ EnableIrq(d, c)
      PROVE  Spinning'
  <2>1. action # None /\ action' = action
    BY <1>0, <1>4 DEF DisableIrqNosync, DisableIrq, EnableIrq, List, Linked
  <2> QED
    BY <2>1 DEF Spinning
<1>5. ASSUME NEW c \in Cpu, Interrupt(c) \/ Isr(c)
      PROVE  Spinning'
  <2>1. UNCHANGED <<action, cpu, pc>>
    BY <1>5 DEF Interrupt, Isr, Handler, EndOfList, descVars, callVars
  <2> QED
    BY <1>0, <1>5, <2>1, FrameComesFrom DEF Spinning
<1> QED
  BY <1>1, <1>2, <1>3, <1>4, <1>5 DEF Next, Call

\* The walk of handle_IRQ_event stays on allocated irqactions: unlinked ones
\* keep their next until the walk is over, and no one is freed before.
LEMMA WalkStep ==
  ASSUME IrqInv, Apart, Next
  PROVE  Walk'
<1>0. /\ IrqTypes /\ List /\ Walk /\ Allocated /\ None \notin Driver
      /\ Linked \subseteq Driver /\ OneFrame
  BY IrqAssumption DEF IrqInv, Linked
<1>1. ASSUME NEW d \in Driver, NEW c \in Cpu, NEW ok \in BOOLEAN,
             RequestIrq(d, c, ok), action = None
      PROVE  Walk'
  BY <1>1, NoHandlerAtFirstRequest DEF RequestIrq, irqVars, Walk
<1>2. ASSUME NEW d \in Driver, NEW c \in Cpu, NEW ok \in BOOLEAN,
             RequestIrq(d, c, ok), action # None
      PROVE  Walk'
  <2> SUFFICES ASSUME NEW e \in Cpu, stack'[e] # <<>>
               PROVE  \E S \in SUBSET Driver : Walks(e, S)'
    BY DEF Walk
  <2> DEFINE last == CHOOSE g \in Linked : next[g] = None
  <2>1. last \in Linked /\ next[last] = None
    BY <1>0, <1>2, LastLinked
  <2>2. /\ next' = [next EXCEPT ![last] = d, ![d] = None]
        /\ Linked' = Linked \cup {d} /\ stack' = stack
        /\ alloc' = alloc \cup {d}
    BY <1>0, <1>2, LinkedStep DEF RequestIrq, irqVars
  <2> HIDE DEF last
  <2>3. \A g \in Driver : next'[g] = IF g = d THEN None
                                     ELSE IF g = last THEN d ELSE next[g]
    BY <1>0, <2>1, <2>2 DEF IrqTypes
  <2>4. PICK S \in SUBSET Driver : Walks(e, S)
    BY <1>0, <2>2 DEF Walk
  <2>5. PICK T \in SUBSET Driver : T = S \cup {d}
    OBVIOUS
  <2>6. \A g \in T : next'[g] \in T \cup {None}
    <3> SUFFICES ASSUME NEW g \in T PROVE next'[g] \in T \cup {None}
      OBVIOUS
    <3>1. CASE g = d
      BY <2>3, <3>1
    <3>2. CASE g # d
      <4>1. g \in S /\ next[g] \in S \cup {None}
        BY <2>4, <2>5, <3>2 DEF Walks
      <4>2. next'[g] \in {d, next[g]}
        BY <2>3, <2>4, <4>1, <3>2
      <4> QED
        BY <2>5, <4>1, <4>2
    <3> QED
      BY <3>1, <3>2
  <2>7. /\ Linked' \subseteq T /\ T \subseteq alloc'
        /\ stack'[e][1].head \in T /\ stack'[e][1].cur \in T \cup {None}
    BY <2>2, <2>4, <2>5 DEF Walks
  <2>8. Walks(e, T)'
    BY <2>6, <2>7 DEF Walks
  <2> QED
    BY <2>8
<1>3. ASSUME NEW d \in Driver, NEW c \in Cpu, FreeIrq(d, c)
      PROVE  Walk'
  <2> SUFFICES ASSUME NEW e \in Cpu, stack'[e] # <<>>
               PROVE  \E S \in SUBSET Driver : Walks(e, S)'
    BY DEF Walk
  <2>1. /\ d \in Linked /\ Linked' = Linked \ {d}
        /\ \A g \in Driver : next'[g] \in {next[g], next[d]}
                             /\ (next[g] # d => next'[g] = next[g])
        /\ alloc' = alloc /\ stack' = stack
    BY <1>0, <1>3, LinkedStep DEF FreeIrq
  <2>2. PICK S \in SUBSET Driver : Walks(e, S)
    BY <1>0, <2>1 DEF Walk
  <2>3. \A g \in S : next'[g] \in S \cup {None}
    BY <2>1, <2>2 DEF Walks
  <2>4. Walks(e, S)'
    BY <2>1, <2>2, <2>3 DEF Walks
  <2> QED
    BY <2>4
<1>4. ASSUME NEW d \in Driver, NEW c \in Cpu, Freed(d, c) \/ Disabled(d, c)
      PROVE  Walk'
  <2>1. \A e \in Cpu : stack'[e] = <<>>
    BY <1>0, <1>4 DEF Freed, Disabled, Synchronized, OneFrame, irqVars
  <2> QED
    BY <2>1 DEF Walk
<1>5. ASSUME NEW d \in Driver, NEW c \in Cpu,
             DisableIrqNosync(d, c) \/ DisableIrq(d, c) \/ EnableIrq(d, c)
      PROVE  Walk'
  <2>1. UNCHANGED <<Linked, alloc, next, stack>>
    BY <1>0, <1>5, LinkedStep DEF DisableIrqNosync, DisableIrq, EnableIrq, irqVars
  <2> QED
    BY <1>0, <2>1 DEF Walk, Walks
<1>6. ASSUME NEW c \in Cpu, Interrupt(c) \/ Isr(c)
      PROVE  UNCHANGED <<Linked, alloc, next>>
  BY <1>6 DEF Interrupt, Isr, Handler, EndOfList, descVars, callVars, Linked
<1>7. ASSUME NEW c \in Cpu, NEW f \in Frame, NEW S \in SUBSET Driver,
             stack' = [stack EXCEPT ![c] = <<f>>],
             UNCHANGED <<Linked, alloc, next>>,
             \A e \in Cpu \ {c} : stack[e] = <<>>,
             Linked \subseteq S, S \subseteq alloc, f.head \in S,
             f.cur \in S \cup {None}, \A d \in S : next[d] \in S \cup {None}
      PROVE  Walk'
  <2>1. stack'[c] = <<f>> /\ \A e \in Cpu \ {c} : stack'[e] = <<>>
    BY <1>0, <1>7 DEF IrqTypes
  <2>2. stack'[c][1] = f
    <3>1. <<f>>[1] = f
      OBVIOUS
    <3> QED
      BY <2>1, <3>1
  <2>3. Walks(c, S)'
    BY <1>7, <2>2 DEF Walks
  <2> QED
    BY <2>1, <2>3 DEF Walk
<1>8. ASSUME NEW c \in Cpu, stack[c] # <<>>
      PROVE  \A e \in Cpu \ {c} : stack[e] = <<>>
  BY <1>0, <1>8 DEF OneFrame, NoReentry
<1>9. ASSUME NEW c \in Cpu, Interrupt(c)
      PROVE  Walk'
  <2>1. CASE /\ stack' = [stack EXCEPT ![c] = <<[head |-> action,
                              cur |-> action, handled |-> FALSE]>>]
             /\ \A e \in Cpu : stack[e] = <<>>
             /\ action # None
    <3> DEFINE f == [head |-> action, cur |-> action, handled |-> FALSE]
    <3>1. /\ f \in Frame /\ f.head = action /\ f.cur = action
          /\ stack' = [stack EXCEPT ![c] = <<f>>]
      BY <1>0, <2>1 DEF Frame, IrqTypes
    <3>2. /\ action \in Linked /\ Linked \subseteq alloc
          /\ \A d \in Linked : next[d] \in Linked \cup {None}
      BY <1>0, <2>1 DEF List, Allocated, Linked
    <3> HIDE DEF f
    <3>3. /\ UNCHANGED <<Linked, alloc, next>>
          /\ \A e \in Cpu \ {c} : stack[e] = <<>>
          /\ Linked \in SUBSET Driver
          /\ f.head \in Linked /\ f.cur \in Linked \cup {None}
      BY <1>0, <1>6, <1>9, <2>1, <3>1, <3>2
    <3> QED
      BY <1>7, <3>1, <3>2, <3>3
  <2>2. CASE stack' = stack
    BY <1>0, <1>6, <1>9, <2>2 DEF Walk, Walks
  <2> QED
    BY <1>9, <2>1, <2>2, StackStep
<1>10. ASSUME NEW c \in Cpu, NEW h \in BOOLEAN, Handler(c, h)
       PROVE  Walk'
  <2>1. stack[c] # <<>> /\ Top(c).cur \in Driver /\ Top(c) = stack[c][1]
    BY <1>0, <1>10, StackStep, TopFrame DEF OneFrame
  <2>2. PICK f \in Frame : /\ stack' = [stack EXCEPT ![c] = <<f>>]
                           /\ f.head = Top(c).head /\ f.cur = next[Top(c).cur]
    BY <1>10, StackStep
  <2>3. PICK S \in SUBSET Driver : Walks(c, S)
    BY <1>0, <2>1 DEF Walk
  <2>4. f.head \in S /\ f.cur \in S \cup {None}
    BY <1>0, <2>1, <2>2, <2>3 DEF Walks
  <2> QED
    BY <1>6, <1>7, <1>8, <1>10, <2>1, <2>2, <2>3, <2>4 DEF Walks, Isr
<1>11. ASSUME NEW c \in Cpu, EndOfList(c)
       PROVE  Walk'
  <2>1. /\ stack[c] # <<>> /\ Top(c) = stack[c][1] /\ Top(c) \in Frame
    BY <1>0, <1>11, StackStep, TopFrame DEF OneFrame
  <2>2. CASE stack' = [stack EXCEPT ![c] = <<>>]
    BY <1>0, <1>8, <2>1, <2>2 DEF IrqTypes, Walk
  <2>3. CASE stack' = [stack EXCEPT ![c] = <<[head |-> Top(c).head,
                         cur |-> Top(c).head, handled |-> FALSE]>>]
    <3> DEFINE f == [head |-> Top(c).head, cur |-> Top(c).head,
                     handled |-> FALSE]
    <3>1. /\ f \in Frame /\ f.head = Top(c).head /\ f.cur = Top(c).head
          /\ stack' = [stack EXCEPT ![c] = <<f>>]
      BY <2>1, <2>3 DEF Frame
    <3> HIDE DEF f
    <3>2. PICK S \in SUBSET Driver : Walks(c, S)
      BY <1>0, <2>1 DEF Walk
    <3>3. f.head \in S /\ f.cur \in S \cup {None}
      BY <2>1, <3>1, <3>2 DEF Walks
    <3> QED
      BY <1>6, <1>7, <1>8, <1>11, <2>1, <3>1, <3>2, <3>3 DEF Walks, Isr
  <2> QED
    BY <1>11, <2>2, <2>3, StackStep
<1> QED
  BY <1>1, <1>2, <1>3, <1>4, <1>5, <1>9, <1>10, <1>11 DEF Next, Call, Isr

-----------------------------------------------------------------------------
(* The theorems.                                                           *)

\* Initially nothing is requested.
LEMMA IrqInvInit == Init => IrqInv
<1> SUFFICES ASSUME Init PROVE IrqInv
  OBVIOUS
<1> USE DEF Init
<1>0. None \notin Driver
  BY IrqAssumption
<1>1. <<>> \in Seq(Frame) /\ Len(<<>>) = 0
  OBVIOUS
<1>2. \A c \in Cpu : stack[c] = <<>> /\ Len(stack[c]) = 0
  BY <1>1
<1>3. IrqTypes
  <2>1. stack \in [Cpu -> Seq(Frame)]
    BY <1>1
  <2>2. /\ next \in [Driver -> Driver \cup {None}]
        /\ pc \in [Driver -> {"off", "on", "freeing", "disabling"}]
        /\ cpu \in [Cpu -> Driver \cup {None}]
        /\ held \in [Driver -> Nat]
    OBVIOUS
  <2>3. /\ action \in Driver \cup {None} /\ status \subseteq Flags
        /\ hooked \in BOOLEAN /\ inservice \in BOOLEAN
        /\ quiet \subseteq Driver /\ missed \subseteq Driver
    BY DEF Flags
  <2>4. depth \in Nat /\ use_count \in Int
    OBVIOUS
  <2> QED
    BY <2>1, <2>2, <2>3, <2>4 DEF IrqTypes
<1>4. Linked = {}
  BY DEF Linked
<1>5. Holds = {}
  BY DEF Holds
<1>6. Depth
  BY <1>5, FS_EmptySet DEF Depth
<1>7. [d \in Driver |-> 0] \in [Driver -> Nat]
  OBVIOUS
<1>8. List
  BY <1>4, <1>7 DEF List, Ordered
<1>9. Allocated
  BY DEF Allocated
<1>10. OneFrame /\ Spinning /\ Walk /\ QuietAfterDisable
  BY <1>2 DEF OneFrame, NoReentry, Spinning, Walk, QuietAfterDisable
<1> QED
  BY <1>3, <1>6, <1>8, <1>9, <1>10 DEF IrqInv

\* A step that changes nothing keeps the invariant.
LEMMA IrqInvStutter == IrqInv /\ UNCHANGED vars => IrqInv'
<1> SUFFICES ASSUME IrqInv, UNCHANGED vars PROVE IrqInv'
  OBVIOUS
<1> USE DEF IrqInv, vars, descVars, callVars, irqVars
<1>1. Linked' = Linked /\ Holds' = Holds
  BY DEF Linked, Holds
<1>2. IrqTypes' /\ Allocated'
  BY DEF IrqTypes, Allocated
<1>3. List'
  BY <1>1 DEF List, Ordered
<1>4. Depth'
  BY <1>1 DEF Depth
<1>5. OneFrame' /\ Spinning' /\ QuietAfterDisable'
  BY DEF OneFrame, NoReentry, Spinning, QuietAfterDisable
<1>6. Walk'
  BY <1>1 DEF Walk, Walks
<1> QED
  BY <1>2, <1>3, <1>4, <1>5, <1>6

\* Every step keeps the invariant.
LEMMA IrqInvStep == Apart /\ IrqInv /\ [Next]_vars => IrqInv'
<1> SUFFICES ASSUME Apart, IrqInv, [Next]_vars PROVE IrqInv'
  OBVIOUS
<1>1. CASE Next
  <2>1. IrqTypes' /\ Allocated' /\ List' /\ Depth'
    BY <1>1, TypesStep, AllocatedStep, ListStep, DepthStep DEF IrqInv
  <2>2. OneFrame' /\ Spinning' /\ Walk' /\ QuietAfterDisable'
    BY <1>1, OneFrameStep, SpinningStep, WalkStep, QuietStep
  <2> QED
    BY <2>1, <2>2 DEF IrqInv
<1>2. CASE UNCHANGED vars
  BY <1>2, IrqInvStutter
<1> QED
  BY <1>1, <1>2

\* The invariant holds in every state of the line.
LEMMA IrqInvAlways == ASSUME Apart PROVE Spec => []IrqInv
BY IrqInvInit, IrqInvStep, PTL DEF Spec

\* IRQ_INPROGRESS keeps the handlers of a line from running twice at once, on
\* two processors or nested on one (do_IRQ).
THEOREM HandlersDoNotReenter == ASSUME Apart PROVE Spec => []NoReentry
<1>1. IrqInv => NoReentry
  BY DEF IrqInv, OneFrame
<1> QED
  BY <1>1, IrqInvAlways, PTL

\* do_IRQ and handle_IRQ_event never follow a pointer to an irqaction that
\* free_irq has given to kfree.
THEOREM WalkedActionsAlive == ASSUME Apart PROVE Spec => []ActionsAlive
<1>1. IrqInv => ActionsAlive
  <2> SUFFICES ASSUME IrqInv, NEW c \in Cpu, NEW i \in DOMAIN stack[c]
               PROVE  {stack[c][i].head, stack[c][i].cur} \subseteq alloc \cup {None}
    BY DEF ActionsAlive
  <2>1. stack[c] # <<>>
    OBVIOUS
  <2>2. Len(stack[c]) = 1 /\ stack[c] = <<Top(c)>>
    BY <2>1, TopFrame DEF IrqInv, OneFrame
  <2>3. i = 1
    BY <2>2
  <2>4. PICK S \in SUBSET Driver : Walks(c, S)
    BY <2>1 DEF IrqInv, Walk
  <2> QED
    BY <2>3, <2>4 DEF Walks
<1> QED
  BY <1>1, IrqInvAlways, PTL

\* Between the return of disable_irq and the matching enable_irq no handler of
\* the line runs.
THEOREM QuietWhileDisabled == ASSUME Apart PROVE Spec => []QuietAfterDisable
<1>1. IrqInv => QuietAfterDisable
  BY DEF IrqInv
<1> QED
  BY <1>1, IrqInvAlways, PTL

-----------------------------------------------------------------------------
(* The use count of lxdispatch.c and the bounds: on any number of          *)
(* processors, if DevIRQSet does not fail.                                 *)

\* Every action on the list is counted once, and the handler is set while
\* there is one.
Users == /\ use_count = Cardinality(Linked)
         /\ hooked <=> Linked # {}

\* The bounds of the counters.
Bounds == /\ depth \in 0 .. MaxDepth \cup {1}
          /\ held \in [Driver -> 0 .. MaxDepth]

\* The inductive invariant of the use count.
UseInv == IrqTypes /\ Allocated /\ List /\ Depth /\ Bounds /\ Users

\* No driver holds more disables than all drivers together.
LEMMA HeldBelow ==
  ASSUME IrqTypes, Depth, NEW d \in Driver
  PROVE  held[d] <= depth
<1>1. held[d] \in Nat /\ depth \in Nat
  BY DEF IrqTypes
<1>2. [i \in 1 .. held[d] |-> <<d, i>>] \in Injection(1 .. held[d], Holds)
  BY <1>1 DEF Injection, IsInjective, Holds
<1>3. Cardinality(1 .. held[d]) = held[d]
  BY <1>1, FS_Interval
<1>4. Cardinality(1 .. held[d]) <= Cardinality(Holds)
  BY <1>2, FS_Injection DEF Depth
<1>5. Cardinality(Holds) \in Nat /\ Cardinality(Holds) <= depth
  BY FS_CardinalityType DEF Depth
<1> QED
  BY <1>1, <1>3, <1>4, <1>5

\* desc->depth stays below MaxDepth, and so do the holds.
LEMMA BoundsStep ==
  ASSUME IrqTypes, Depth, Bounds, Next
  PROVE  Bounds'
<1>0. MaxDepth \in Nat /\ depth \in Nat /\ held \in [Driver -> Nat]
  BY IrqAssumption DEF IrqTypes
<1>1. ASSUME NEW d \in Driver, NEW c \in Cpu, NEW ok \in BOOLEAN,
             RequestIrq(d, c, ok)
      PROVE  Bounds'
  <2>1. held' = held /\ (depth' = 0 \/ depth' = depth)
    BY <1>1 DEF RequestIrq
  <2> QED
    BY <1>0, <2>1 DEF Bounds
<1>2. ASSUME NEW d \in Driver, NEW c \in Cpu, FreeIrq(d, c)
      PROVE  Bounds'
  <2>1. depth' = depth /\ held' = [held EXCEPT ![d] = 0]
    BY <1>2 DEF FreeIrq
  <2> QED
    BY <1>0, <2>1 DEF Bounds
<1>3. ASSUME NEW d \in Driver, NEW c \in Cpu,
             DisableIrqNosync(d, c) \/ DisableIrq(d, c)
      PROVE  Bounds'
  <2>1. /\ depth < MaxDepth /\ depth' = depth + 1
        /\ held' = [held EXCEPT ![d] = held[d] + 1]
    BY <1>3 DEF DisableIrqNosync, DisableIrq, Disable
  <2>2. held[d] \in Nat /\ held[d] <= depth
    BY <1>0, HeldBelow
  <2>3. held[d] + 1 \in 0 .. MaxDepth /\ depth + 1 \in 0 .. MaxDepth
    BY <1>0, <2>1, <2>2
  <2> QED
    BY <1>0, <2>1, <2>3 DEF Bounds
<1>4. ASSUME NEW d \in Driver, NEW c \in Cpu, EnableIrq(d, c)
      PROVE  Bounds'
  <2>1. /\ depth > 0 /\ depth' = depth - 1 /\ held[d] > 0
        /\ held' = [held EXCEPT ![d] = held[d] - 1]
    BY <1>4 DEF EnableIrq
  <2>2. held[d] \in 0 .. MaxDepth /\ held[d] - 1 \in 0 .. MaxDepth
    BY <1>0, <2>1 DEF Bounds
  <2>3. depth - 1 \in 0 .. MaxDepth
    BY <1>0, <2>1 DEF Bounds
  <2> QED
    BY <1>0, <2>1, <2>2, <2>3 DEF Bounds
<1>5. ASSUME UNCHANGED <<depth, held>> PROVE Bounds'
  BY <1>5 DEF Bounds
<1>6. ASSUME NEW d \in Driver, NEW c \in Cpu, Freed(d, c) \/ Disabled(d, c)
      PROVE  UNCHANGED <<depth, held>>
  BY <1>6 DEF Freed, Disabled, descVars
<1>7. ASSUME NEW c \in Cpu, Interrupt(c) \/ Isr(c)
      PROVE  UNCHANGED <<depth, held>>
  BY <1>7 DEF Interrupt, Isr, Handler, EndOfList, descVars, callVars
<1> QED
  BY <1>1, <1>2, <1>3, <1>4, <1>5, <1>6, <1>7 DEF Next, Call

\* request_irq and free_irq count what they put on the list and take from it.
LEMMA UsersStep ==
  ASSUME ~IrqSetFails, IrqTypes, Users, Next
  PROVE  Users'
<1>0. /\ IsFiniteSet(Linked) /\ Cardinality(Linked) \in Nat
      /\ Cardinality(Linked) = 0 <=> Linked = {}
  <2>1. Linked \in SUBSET Driver /\ IsFiniteSet(Driver)
    BY IrqAssumption DEF Linked
  <2> QED
    BY <2>1, FS_Subset, FS_CardinalityType, FS_EmptySet
<1>1. ASSUME NEW d \in Driver, NEW c \in Cpu, NEW ok \in BOOLEAN,
             RequestIrq(d, c, ok)
      PROVE  Users'
  <2>1. d \notin Linked /\ Linked' = Linked \cup {d}
    BY <1>1, LinkedStep
  <2>2. Cardinality(Linked') = Cardinality(Linked) + 1
    BY <1>0, <2>1, FS_AddElement
  <2>3. LX_RequestIrq(ok)
    BY <1>1 DEF RequestIrq
  <2>4. CASE use_count = 0
    BY <1>0, <2>1, <2>2, <2>3, <2>4 DEF LX_RequestIrq, Users
  <2>5. CASE use_count # 0
    BY <1>0, <2>1, <2>2, <2>3, <2>5 DEF LX_RequestIrq, Users
  <2> QED
    BY <2>4, <2>5
<1>2. ASSUME NEW d \in Driver, NEW c \in Cpu, FreeIrq(d, c)
      PROVE  Users'
  <2>1. d \in Linked /\ Linked' = Linked \ {d}
    BY <1>2, LinkedStep
  <2>2. /\ Cardinality(Linked') = Cardinality(Linked) - 1
        /\ IsFiniteSet(Linked')
    BY <1>0, <2>1, FS_RemoveElement
  <2>3. Cardinality(Linked') = 0 <=> Linked' = {}
    BY <2>2, FS_EmptySet
  <2>4. use_count' = use_count - 1 /\ hooked' = (hooked /\ use_count' # 0)
    BY <1>2 DEF FreeIrq, LX_FreeIrq
  <2>5. hooked
    BY <2>1 DEF Users
  <2>6. use_count' = Cardinality(Linked')
    BY <2>2, <2>4 DEF Users
  <2> QED
    BY <2>3, <2>4, <2>5, <2>6 DEF Users
<1>3. ASSUME UNCHANGED <<Linked, use_count, hooked>> PROVE Users'
  BY <1>3 DEF Users
<1>4. ASSUME NEW d \in Driver, NEW c \in Cpu,
             \/ Freed(d, c) \/ DisableIrqNosync(d, c) \/ DisableIrq(d, c)
             \/ Disabled(d, c) \/ EnableIrq(d, c)
      PROVE  UNCHANGED <<Linked, use_count, hooked>>
  BY <1>4, LinkedStep DEF Freed, DisableIrqNosync, DisableIrq, Disabled,
                          EnableIrq, descVars
<1>5. ASSUME NEW c \in Cpu, Interrupt(c) \/ Isr(c)
      PROVE  UNCHANGED <<Linked, use_count, hooked>>
  BY <1>5 DEF Interrupt, Isr, Handler, EndOfList, descVars, callVars, Linked
<1> QED
  BY <1>1, <1>2, <1>3, <1>4, <1>5 DEF Next, Call

\* The invariant of the use count holds in every state of the line.
LEMMA UseInvAlways == ASSUME ~IrqSetFails PROVE Spec => []UseInv
<1>1. Init => UseInv
  <2> SUFFICES ASSUME Init PROVE UseInv
    OBVIOUS
  <2>1. IrqTypes /\ Allocated /\ List /\ Depth
    BY IrqInvInit DEF IrqInv
  <2>2. Bounds
    BY IrqAssumption DEF Init, Bounds
  <2>3. Linked = {}
    BY DEF Init, Linked
  <2>4. Users
    BY <2>3, FS_EmptySet DEF Init, Users
  <2> QED
    BY <2>1, <2>2, <2>4 DEF UseInv
<1>2. UseInv /\ [Next]_vars => UseInv'
  <2> SUFFICES ASSUME UseInv, [Next]_vars PROVE UseInv'
    OBVIOUS
  <2>1. CASE Next
    BY <2>1, TypesStep, AllocatedStep, ListStep, DepthStep, BoundsStep,
       UsersStep DEF UseInv
  <2>2. CASE UNCHANGED vars
    <3> USE <2>2 DEF UseInv, vars, descVars, callVars, irqVars
    <3>1. Linked' = Linked /\ Holds' = Holds
      BY DEF Linked, Holds
    <3>2. IrqTypes' /\ Allocated' /\ Bounds'
      BY DEF IrqTypes, Allocated, Bounds
    <3>3. List' /\ Depth' /\ Users'
      BY <3>1 DEF List, Ordered, Depth, Users
    <3> QED
      BY <3>2, <3>3
  <2> QED
    BY <2>1, <2>2
<1> QED
  BY <1>1, <1>2, PTL DEF Spec

\* The variables of the line keep their types: the use count does not exceed
\* the drivers, and no disable takes desc->depth beyond its bound.
THEOREM IrqTypeOK == ASSUME ~IrqSetFails PROVE Spec => []TypeOK
<1>1. UseInv => TypeOK
  <2> SUFFICES ASSUME UseInv PROVE TypeOK
    OBVIOUS
  <2>1. Linked \in SUBSET Driver /\ IsFiniteSet(Driver)
    BY IrqAssumption DEF Linked
  <2>2. /\ Cardinality(Linked) <= Cardinality(Driver)
        /\ Cardinality(Linked) \in Nat /\ Cardinality(Driver) \in Nat
    BY <2>1, FS_Subset, FS_CardinalityType
  <2>3. use_count \in 0 .. Cardinality(Driver)
    BY <2>2 DEF UseInv, Users
  <2>4. alloc \subseteq Driver
    BY DEF UseInv, Allocated
  <2>5. ASSUME NEW c \in Cpu, NEW i \in DOMAIN stack[c]
        PROVE  stack[c][i] \in Frame
    <3>1. stack[c] \in Seq(Frame)
      BY DEF UseInv, IrqTypes
    <3> HIDE DEF Frame
    <3> QED
      BY <3>1, <2>5, ElementOfSeq, LenProperties
  <2> QED
    BY <2>3, <2>4, <2>5 DEF TypeOK, UseInv, IrqTypes, Bounds, Frame
<1> QED
  BY <1>1, UseInvAlways, PTL

\* OS/2 has our handler exactly while a driver has an action on the line: the
\* use count of lxdispatch.c follows the list of oak_irq.c.
THEOREM HookFollowsUsers == ASSUME ~IrqSetFails PROVE Spec => []HookedWhileUsed
<1>1. UseInv => HookedWhileUsed
  BY IrqAssumption DEF UseInv, Users, List, Linked, HookedWhileUsed
<1> QED
  BY <1>1, UseInvAlways, PTL

=============================================================================
