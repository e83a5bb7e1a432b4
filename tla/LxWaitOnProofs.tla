--------------------------- MODULE LxWaitOnProofs ---------------------------
(***************************************************************************)
(* Proofs about the wait list, for every number of threads and ids.        *)
(***************************************************************************)
EXTENDS LxWaitOn, TLAPS

\* Before the scheduler is up nobody is in, or on the way to, a wait queue and
\* no entry is marked.
Early ==
  ~lx_current_available =>
    /\ resched = "off"
    /\ \A w \in Waiter : pc[w] \in {"idle", "blocked", "ready"} /\ ~cont[w]

\* The flags of an entry agree with the place where its thread is.
Flags(w) ==
  /\ pc[w] \in {"blocked", "ready"} => ~iswq[w] /\ ~prev[w]
  /\ pc[w] \in {"entering", "moving", "queued", "awake"} => iswq[w]
  /\ pc[w] \in {"entering", "blocked", "queued", "awake"} => ~cont[w]

\* A thread that is not asleep is marked, or has a reason to return.
Justified(w) == pc[w] \in {"ready", "moving", "awake"} => cont[w] \/ due[w]

\* The inductive invariant.
WInv == /\ TypeOK
        /\ Early
        /\ \A w \in Waiter : Flags(w) /\ Justified(w)
        /\ MigrationComplete

\* Every step keeps the types.
LEMMA WaitTypeStep == TypeOK /\ [Next]_vars => TypeOK'
<1> SUFFICES ASSUME TypeOK, [Next]_vars PROVE TypeOK'
  OBVIOUS
<1> USE DEF TypeOK, Goto, wiVars
<1>1. ASSUME NEW w \in Waiter, NEW i \in Id, NEW t \in BOOLEAN, WaitOn(w, i, t)
      PROVE  TypeOK'
  BY <1>1 DEF WaitOn
<1>2. ASSUME NEW w \in Waiter, WaiterStep(w)
      PROVE  TypeOK'
  BY <1>2 DEF WaiterStep, Register, Unblock, Move, Moves, Switch, Moved, Wake,
              Again
<1>3. ASSUME NEW w \in Waiter, Timeout(w) \/ Interrupt(w)
      PROVE  TypeOK'
  BY <1>3 DEF Timeout, Interrupt
<1>4. ASSUME NEW i \in Id, RunOn(i)
      PROVE  TypeOK'
  BY <1>4 DEF RunOn, Readied
<1>5. CASE Available \/ Resched \/ Rescan
  BY <1>5 DEF Available, Resched, Rescan
<1>6. CASE Scan
  BY <1>6 DEF Scan, Scanned, Readied
<1>7. CASE UNCHANGED vars
  BY <1>7 DEF vars
<1> QED
  BY <1>1, <1>2, <1>3, <1>4, <1>5, <1>6, <1>7 DEF Next, ReschedStep

\* The threads that LX_RunOn or LX_ReschedWaitOn readies slept.
LEMMA DevRunBlocked ==
  ASSUME NEW S, S \subseteq Waiter
  PROVE  \A w \in UNION {DevRun(id[v]) : v \in S} :
           w \in Waiter /\ pc[w] = "blocked"
BY DEF DevRun

\* Every step keeps the invariant.
LEMMA WInvStep == WInv /\ [Next]_vars => WInv'
<1> SUFFICES ASSUME WInv, [Next]_vars PROVE WInv'
  OBVIOUS
<1>0. TypeOK /\ TypeOK'
  BY WaitTypeStep DEF WInv
<1> USE <1>0 DEF TypeOK, Goto, wiVars, WInv, Early, Flags, Justified,
                 MigrationComplete
<1>1. ASSUME NEW w \in Waiter, NEW i \in Id, NEW t \in BOOLEAN, WaitOn(w, i, t)
      PROVE  WInv'
  BY <1>1 DEF WaitOn
<1>2. ASSUME NEW w \in Waiter, Register(w)
      PROVE  WInv'
  BY <1>2 DEF Register
<1>3. ASSUME NEW w \in Waiter, Unblock(w)
      PROVE  WInv'
  BY <1>3 DEF Unblock, Again
<1>4. ASSUME NEW w \in Waiter, Move(w)
      PROVE  WInv'
  BY <1>4 DEF Move, Moves, Switch
<1>5. ASSUME NEW w \in Waiter, Moved(w) \/ Wake(w)
      PROVE  WInv'
  BY <1>5 DEF Moved, Wake, Again
<1>6. ASSUME NEW w \in Waiter, Timeout(w) \/ Interrupt(w)
      PROVE  WInv'
  BY <1>6 DEF Timeout, Interrupt
<1>7. ASSUME NEW i \in Id, RunOn(i)
      PROVE  WInv'
  <2> DEFINE mine == {w \in Waiter : Listed(w) /\ id[w] = i}
             B == UNION {DevRun(id[w]) : w \in {v \in mine : ~iswq[v]}}
             Q == UNION {WakeUp(w) : w \in {v \in mine : iswq[v]}}
  <2>1. \A w \in B : w \in Waiter /\ pc[w] = "blocked"
    BY DevRunBlocked
  <2>2. \A w \in Q : w \in Waiter /\ pc[w] = "queued"
    BY DEF WakeUp
  <2>3. /\ Readied(B, Q)
        /\ due' = [w \in Waiter |-> due[w] \/ w \in B \cup Q]
        /\ UNCHANGED <<lx_current_available, resched, wiVars>>
    BY <1>7 DEF RunOn
  <2> HIDE DEF B, Q
  <2> QED
    BY <2>1, <2>2, <2>3 DEF Readied
<1>8. CASE Available \/ Resched \/ Rescan
  BY <1>8 DEF Available, Resched, Rescan
<1>9. CASE Scan
  <2> DEFINE B == UNION {DevRun(id[w]) : w \in Behind}
  <2>1. \A w \in B : w \in Waiter /\ pc[w] = "blocked"
    BY DevRunBlocked DEF Behind
  <2>2. \A w \in Waiter : pc[w] = "blocked" => w \in B /\ w \in Behind
    BY DEF Behind, Listed, DevRun
  <2>3. \A w \in Waiter : w \in Behind <=> pc[w] \in {"blocked", "ready"}
    BY DEF Behind, Listed
  <2>4. /\ resched = "scan"
        /\ cont' = [w \in Waiter |-> cont[w] \/ w \in Behind]
        /\ pc' = [w \in Waiter |-> IF w \in B THEN "ready" ELSE pc[w]]
        /\ resched' = IF Behind = {} THEN "done" ELSE "pause"
        /\ UNCHANGED <<lx_current_available, id, timed, iswq, prev, due>>
    BY <1>9 DEF Scan, Scanned, Readied
  <2> HIDE DEF B
  <2>5. Early'
    BY <2>4
  <2>6. \A w \in Waiter : Flags(w)' /\ Justified(w)'
    BY <2>1, <2>2, <2>3, <2>4
  <2>7. MigrationComplete'
    BY <2>1, <2>2, <2>3, <2>4
  <2> QED
    BY <2>5, <2>6, <2>7
<1>10. CASE UNCHANGED vars
  BY <1>10 DEF vars
<1> QED
  BY <1>1, <1>2, <1>3, <1>4, <1>5, <1>6, <1>7, <1>8, <1>9, <1>10
     DEF Next, WaiterStep, ReschedStep

\* The invariant holds throughout.
LEMMA WInvAlways == Spec => []WInv
<1>1. Init => WInv
  BY DEF Init, WInv, TypeOK, Early, Flags, Justified, MigrationComplete
<1> QED
  BY <1>1, WInvStep, PTL DEF Spec

\* However many threads wait, on whatever, LX_ReschedWaitOn returns only when
\* all of them have left DevBlock, and none ever enters it again.
THEOREM NobodyStaysBehind == Spec => []MigrationComplete
<1>1. WInv => MigrationComplete
  BY DEF WInv
<1> QED
  BY <1>1, WInvAlways, PTL

\* The move to the wait queues never makes an LX_WaitOn return.
THEOREM ReturnsAreDue == Spec => NoSpuriousReturn
<1>1. ASSUME WInv, [Next]_vars
      PROVE  [\A w \in Waiter :
                pc[w] # "idle" /\ pc'[w] = "idle" => due[w]]_vars
  <2>a. pc \in [Waiter -> {"idle", "entering", "blocked", "ready", "moving",
                           "queued", "awake"}]
    BY <1>1 DEF WInv, TypeOK
  <2>1. ASSUME NEW w \in Waiter, Unblock(w) \/ Moved(w) \/ Wake(w),
               NEW v \in Waiter, pc[v] # "idle", pc'[v] = "idle"
        PROVE  due[v]
    <3>1. v = w /\ ~cont[w] /\ pc[w] \in {"ready", "moving", "awake"}
      BY <2>a, <2>1 DEF Unblock, Moved, Wake, Again, Goto
    <3> QED
      BY <1>1, <3>1 DEF WInv, Justified
  <2>2. ASSUME NEW w \in Waiter, NEW v \in Waiter,
               \/ \E i \in Id, t \in BOOLEAN : WaitOn(w, i, t)
               \/ Register(w) \/ Move(w) \/ Timeout(w) \/ Interrupt(w)
        PROVE  ~(pc[v] # "idle" /\ pc'[v] = "idle")
    BY <2>a, <2>2 DEF WaitOn, Register, Move, Moves, Switch, Timeout, Interrupt,
                      Goto
  <2>3. ASSUME NEW v \in Waiter,
               (\E i \in Id : RunOn(i)) \/ Available \/ Resched \/ Scan \/ Rescan
        PROVE  ~(pc[v] # "idle" /\ pc'[v] = "idle")
    BY <2>a, <2>3 DEF RunOn, Available, Resched, Scan, Scanned, Rescan, Readied
  <2> QED
    BY <1>1, <2>1, <2>2, <2>3 DEF Next, WaiterStep, ReschedStep
<1> QED
  BY <1>1, WInvAlways, PTL DEF Spec, NoSpuriousReturn
=============================================================================
