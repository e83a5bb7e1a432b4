--------------------------- MODULE LxDaemonProofs ---------------------------
(***************************************************************************)
(* Proofs about the command channel of LxDaemon, for every number of       *)
(* clients and daemons, every set of faults, one processor or several.     *)
(***************************************************************************)
EXTENDS LxDaemon, TLAPS

\* The handle NextHandle gives out is a handle, and never 0.
LEMMA NextHandleType ==
  ASSUME lx_daemon_cmdhandle \in Handle
  PROVE  NextHandle \in Handle /\ NextHandle # 0
BY ConstAssumption DEF NextHandle, Handle

\* NoEntry is an entry.
LEMMA NoEntryType == NoEntry \in Entry
BY ConstAssumption DEF NoEntry, Entry, Handle, RC

\* Every step, of a caller, a daemon or the environment, keeps TypeOK.
LEMMA TypeStep == TypeOK /\ [Next]_vars => TypeOK'
<1> SUFFICES ASSUME TypeOK, [Next]_vars PROVE TypeOK'
  OBVIOUS
<1> USE ConstAssumption, NoEntryType
        DEF Thread, ClientPc, DaemonPc, Goto, callVars, dataVars, idVars,
            waitVars, Uninitialized, Running, Going
<1>1. ASSUME NEW c \in Client, NEW b \in Client \cup {NoBlk}, AddCommand(c, b)
      PROVE  TypeOK'
  BY <1>1 DEF TypeOK, AddCommand, Handle, RC
<1>1a. ASSUME NEW c \in Client, NEW b \in Client \cup {NoBlk},
              AddCommandNoDaemon(c, b)
      PROVE  TypeOK'
  BY <1>1a DEF TypeOK, AddCommandNoDaemon, Uninitialised, Handle, RC
<1>2. ASSUME NEW c \in Client, AddCommandNoMem(c)
      PROVE  TypeOK'
  BY <1>2 DEF TypeOK, AddCommandNoMem, Uninitialised, RC
<1>3. ASSUME NEW c \in Client, Enqueue(c)
      PROVE  TypeOK'
  <2>1. NextHandle \in Handle
    BY NextHandleType DEF TypeOK
  <2>2. PICK l \in CmdLens :
          waiting' = Append(waiting,
                       [hcmd |-> NextHandle, blk |-> blk[c], len |-> l,
                        rc |-> "zero"])
    BY <1>3 DEF Enqueue
  <2>3. waiting' \in Seq(Entry)
    BY <2>1, <2>2 DEF TypeOK, Entry, RC
  <2> QED
    BY <1>3, <2>1, <2>3 DEF TypeOK, Enqueue, RC
<1>4. ASSUME NEW c \in Client, RunOn(c)
      PROVE  TypeOK'
  BY <1>4 DEF TypeOK, RunOn, Waking, Sleepers
<1>5. ASSUME NEW c \in Client, GetResult(c)
      PROVE  TypeOK'
  BY <1>5 DEF TypeOK, GetResult, Entry
<1>6. ASSUME NEW d \in Daemon, Start(d)
      PROVE  TypeOK'
  BY <1>6 DEF TypeOK, Start
<1>7. ASSUME NEW d \in Daemon, CmdGet(d)
      PROVE  TypeOK'
  BY <1>7 DEF TypeOK, CmdGet
<1>8. ASSUME NEW d \in Daemon, Claim(d)
      PROVE  TypeOK'
  BY <1>8 DEF TypeOK, Claim, ClaimState
<1>9. ASSUME NEW d \in Daemon, CheckEmpty(d)
      PROVE  TypeOK'
  BY <1>9 DEF TypeOK, CheckEmpty, GoOn
<1>10. ASSUME NEW d \in Daemon, Block(d)
      PROVE  TypeOK'
  BY <1>10 DEF TypeOK, Block
<1>11. ASSUME NEW d \in Daemon, Interrupt(d)
      PROVE  TypeOK'
  BY <1>11 DEF TypeOK, Interrupt
<1>11a. ASSUME NEW d \in Daemon, Moved(d)
      PROVE  TypeOK'
  BY <1>11a DEF TypeOK, Moved
<1>12. ASSUME NEW d \in Daemon, Pop(d)
      PROVE  TypeOK'
  <2>1. Head(waiting) \in Entry /\ Tail(waiting) \in Seq(Entry)
    BY <1>12 DEF TypeOK, Pop, Take
  <2> QED
    BY <1>12, <2>1 DEF TypeOK, Pop, Take
<1>12a. ASSUME NEW d \in Daemon, PopNone(d)
      PROVE  TypeOK'
  BY <1>12a DEF TypeOK, PopNone
<1>13. ASSUME NEW d \in Daemon, CopyOut(d)
      PROVE  TypeOK'
  BY <1>13 DEF TypeOK, CopyOut
<1>14. ASSUME NEW d \in Daemon, PushBack(d)
      PROVE  TypeOK'
  <2>1. <<hand[d]>> \o waiting \in Seq(Entry)
    BY DEF TypeOK
  <2> QED
    BY <1>14, <2>1 DEF TypeOK, PushBack, TooLong
<1>15. ASSUME NEW d \in Daemon, Increase(d)
      PROVE  TypeOK'
  BY <1>15 DEF TypeOK, Increase
<1>16. ASSUME NEW d \in Daemon, IncreaseNoMem(d)
      PROVE  TypeOK'
  BY <1>16 DEF TypeOK, IncreaseNoMem
<1>17. ASSUME NEW d \in Daemon, Execute(d)
      PROVE  TypeOK'
  <2>1. PICK r \in {"zero", "error"} : hand' = [hand EXCEPT ![d].rc = r]
    BY <1>17 DEF Execute
  <2>a. hand[d] \in Entry /\ r \in RC
    BY DEF TypeOK, RC
  <2>2. hand[d] \in Entry /\ [hand[d] EXCEPT !.rc = r] \in Entry
    BY <2>a DEF Entry
  <2>3. hand' = [hand EXCEPT ![d] = [hand[d] EXCEPT !.rc = r]]
    BY <2>1
  <2>4. hand' \in [Daemon -> Entry]
    BY <2>2, <2>3 DEF TypeOK
  <2> QED
    BY <1>17, <2>2, <2>4 DEF TypeOK, Execute, Entry
<1>17a. ASSUME NEW d \in Daemon, ExecuteAsync(d)
      PROVE  TypeOK'
  BY <1>17a DEF TypeOK, ExecuteAsync, Entry
<1>18. ASSUME NEW d \in Daemon, ResultsNoMem(d)
      PROVE  TypeOK'
  BY <1>18 DEF TypeOK, ResultsNoMem
<1>19. ASSUME NEW d \in Daemon, Results(d)
      PROVE  TypeOK'
  BY <1>19 DEF TypeOK, Results, Filled, Entry
<1>20. ASSUME NEW d \in Daemon, AppendDone(d)
      PROVE  TypeOK'
  BY <1>20 DEF TypeOK, AppendDone
<1>21. ASSUME NEW d \in Daemon, Exit(d)
      PROVE  TypeOK'
  BY <1>21 DEF TypeOK, Exit, Ends
<1>21a. ASSUME NEW d \in Daemon, ExitOther(d)
      PROVE  TypeOK'
  BY <1>21a DEF TypeOK, ExitOther, Ends
<1>22. ASSUME NEW d \in Daemon, Drain(d)
      PROVE  TypeOK'
  <2>1. \A i \in DOMAIN waiting : waiting[i] \in Entry
    BY DEF TypeOK
  <2>2. ASSUME NEW e \in Entry PROVE [e EXCEPT !.rc = "nochildren"] \in Entry
    BY DEF Entry, RC
  <2>3. Closed \subseteq Entry
    BY <2>1, <2>2 DEF TypeOK, Closed
  <2> QED
    BY <1>22, <2>3 DEF TypeOK, Drain, DrainTo
<1>23. CASE UNCHANGED vars
  BY <1>23 DEF TypeOK, vars
<1>24. CASE Available
  BY <1>24 DEF TypeOK, Available
<1>25. CASE Resched
  <2>1. pc' \in [Thread -> ClientPc \cup DaemonPc]
    BY <1>25 DEF TypeOK, Resched
  <2>2. /\ \A c \in Client : pc'[c] \in ClientPc
        /\ \A d \in Daemon : pc'[d] \in DaemonPc
    BY <1>25 DEF TypeOK, Resched, Behind
  <2>3. swallowed' \subseteq Daemon
    BY <1>25 DEF TypeOK, Resched, Behind
  <2> QED
    BY <1>25, <2>1, <2>2, <2>3 DEF TypeOK, Resched
<1> QED
  BY <1>1, <1>2, <1>3, <1>4, <1>5, <1>6, <1>7, <1>8, <1>9, <1>10, <1>11,
     <1>12, <1>13, <1>14, <1>15, <1>16, <1>17, <1>18, <1>19, <1>20, <1>21,
     <1>22, <1>23, <1>24, <1>25,
     <1>1a, <1>11a, <1>12a, <1>17a, <1>21a
     DEF Next, ClientStep, DaemonStep, CallAsync, CallSync, Call

\* LX_ioctl_dmn, LX_dmn_add_command and LX_daemon_closed never leave a
\* variable outside its type, whatever the interleaving and the faults.
THEOREM TypeCorrect == Spec => []TypeOK
<1>1. Init => TypeOK
  BY ConstAssumption, NoEntryType
     DEF Init, TypeOK, Thread, ClientPc, DaemonPc, Handle, RC, Uninitialized,
         Running, Going
<1> QED
  BY <1>1, TypeStep, PTL DEF Spec
-----------------------------------------------------------------------------
(* Handles and buffers.                                                    *)

\* A daemon holds a command exactly between taking it off the queue and
\* posting its result, and it posts results only for callers that wait.
HandPc == {"popped", "execute", "results", "append"}
HandWf ==
  \A d \in Daemon :
    /\ Holds(d) <=> pc[d] \in HandPc
    /\ ~Holds(d) => hand[d] = NoEntry
    /\ pc[d] \in {"results", "append"} => hand[d].blk # NoBlk

\* Until the counter wraps, every handle in use is one it has passed.
Fresh ==
  /\ \A i \in DOMAIN waiting : waiting[i].hcmd \in 1 .. lx_daemon_cmdhandle
  /\ \A d \in Daemon : hand[d].hcmd <= lx_daemon_cmdhandle
  /\ \A e \in done : e.hcmd \in 1 .. lx_daemon_cmdhandle
  /\ \A c \in Client : hcmd[c] <= lx_daemon_cmdhandle
  /\ \A c \in Client : Pending(c) => hcmd[c] # 0

\* A caller lends its own buffer or none.
OwnBlk == \A c \in Client : blk[c] \in {c, NoBlk}

\* The inductive invariant.
IInv == TypeOK /\ HandWf /\ Fresh /\ OwnBlk /\ HandleUnique /\ BufferOwner

\* The fields of an entry.
LEMMA EntryFields ==
  ASSUME NEW e \in Entry
  PROVE  e.hcmd \in Nat /\ e.hcmd \in Handle /\ e.blk \in Client \cup {NoBlk}
BY ConstAssumption DEF Entry, Handle

\* All the commands in the driver and in the daemons' hands are entries.
LEMMA AllEntries ==
  ASSUME TypeOK
  PROVE  /\ \A i \in DOMAIN waiting : waiting[i] \in Entry
         /\ \A d \in Daemon : hand[d] \in Entry
         /\ \A e \in done : e \in Entry
BY DEF TypeOK

\* What lx_current_available and LX_ReschedWaitOn leave alone: all but the place
\* where a daemon that waits is.
LEMMA SchedFrame ==
  ASSUME TypeOK, Available \/ Resched
  PROVE  /\ UNCHANGED <<idVars, lx_daemon_cmdhandle, waiting, done, callVars,
                        hand, dataVars, executed>>
         /\ \A c \in Client : pc'[c] = pc[c]
         /\ \A d \in Daemon : \/ pc'[d] = pc[d]
                              \/ /\ pc[d] \in {"asleep", "woken"}
                                 /\ pc'[d] = "moving"
BY ConstAssumption
   DEF TypeOK, Available, Resched, Behind, Thread, idVars, callVars, dataVars

\* What an action that moves no command and changes no handle has to show.
LEMMA Quiet ==
  ASSUME IInv, TypeOK',
         UNCHANGED <<lx_daemon_cmdhandle, waiting, done, hand, hcmd, blk>>,
         \A c \in Client : Pending(c)' <=> Pending(c),
         \A d \in Daemon : pc'[d] \in HandPc <=> pc[d] \in HandPc,
         \A d \in Daemon : pc'[d] \in {"results", "append"} => hand[d].blk # NoBlk
  PROVE  IInv'
<1>1. HandWf'
  BY DEF IInv, HandWf, Holds
<1>2. Fresh'
  BY DEF IInv, Fresh
<1>3. HandleUnique'
  BY DEF IInv, HandleUnique, QueueUnique, OthersUnique, CallersUnique, Holds
<1>4. ASSUME NEW e, e.blk \in Client \cup {NoBlk}, Owned(e)
      PROVE  Owned(e)'
  BY <1>4 DEF Owned
<1>5. BufferOwner'
  <2>1. /\ \A i \in DOMAIN waiting : waiting[i].blk \in Client \cup {NoBlk}
        /\ \A d \in Daemon : hand[d].blk \in Client \cup {NoBlk}
        /\ \A e \in done : e.blk \in Client \cup {NoBlk}
    BY AllEntries, EntryFields DEF IInv
  <2> QED
    BY <1>4, <2>1 DEF IInv, BufferOwner
<1> QED
  BY <1>1, <1>2, <1>3, <1>5 DEF IInv, OwnBlk

\* A daemon that moves without a command, or with the one it has.
LEMMA DaemonMoves ==
  ASSUME IInv, TypeOK', NEW d \in Daemon, NEW l \in DaemonPc, Goto(d, l),
         UNCHANGED <<lx_daemon_cmdhandle, waiting, done, hand, hcmd, blk>>,
         l \in HandPc <=> pc[d] \in HandPc,
         l \in {"results", "append"} => hand[d].blk # NoBlk
  PROVE  IInv'
<1>1. \A k \in Thread : pc'[k] = IF k = d THEN l ELSE pc[k]
  BY DEF IInv, TypeOK, Goto
<1>2. \A k \in Client : pc'[k] = pc[k]
  BY <1>1, ConstAssumption DEF Thread
<1>3. \A k \in Client : Pending(k)' <=> Pending(k)
  BY <1>2 DEF Pending
<1>4. \A k \in Daemon : pc'[k] \in HandPc <=> pc[k] \in HandPc
  BY <1>1 DEF Thread
<1>5. \A k \in Daemon :
        pc'[k] \in {"results", "append"} => hand[k].blk # NoBlk
  BY <1>1 DEF Thread, IInv, HandWf
<1> QED
  BY <1>3, <1>4, <1>5, Quiet

\* A caller that moves without being, or while remaining, Pending.
LEMMA ClientMoves ==
  ASSUME IInv, TypeOK', NEW c \in Client,
         UNCHANGED <<lx_daemon_cmdhandle, waiting, done, hand, hcmd, blk>>,
         \A k \in Client : Pending(k)' <=> Pending(k),
         \A d \in Daemon : pc'[d] \in HandPc <=> pc[d] \in HandPc,
         \A d \in Daemon : pc'[d] = pc[d] \/ pc'[d] = "woken"
  PROVE  IInv'
<1>1. \A d \in Daemon :
        pc'[d] \in {"results", "append"} => hand[d].blk # NoBlk
  BY DEF IInv, HandWf
<1> QED
  BY <1>1, Quiet

\* The actions that only move a caller or a daemon.
LEMMA QuietActions ==
  ASSUME IInv, TypeOK',
         \/ \E c \in Client : AddCommandNoMem(c) \/ RunOn(c)
         \/ \E d \in Daemon :
              \/ Start(d) \/ CmdGet(d) \/ Claim(d) \/ CheckEmpty(d) \/ Block(d)
              \/ Interrupt(d) \/ Moved(d) \/ PopNone(d) \/ CopyOut(d)
              \/ Increase(d) \/ IncreaseNoMem(d) \/ Results(d)
  PROVE  IInv'
<1> USE ConstAssumption DEF callVars, dataVars, idVars
<1>a. pc \in [Thread -> ClientPc \cup DaemonPc]
  BY DEF IInv, TypeOK
<1>1. ASSUME NEW c \in Client, AddCommandNoMem(c)
      PROVE  IInv'
  <2>1. \A k \in Client : Pending(k)' <=> Pending(k)
    BY <1>a, <1>1 DEF AddCommandNoMem, Pending, Goto, Thread
  <2>2. \A k \in Daemon : pc'[k] = pc[k]
    BY <1>a, <1>1 DEF AddCommandNoMem, Goto, Thread
  <2> QED
    BY <1>1, <2>1, <2>2, ClientMoves DEF AddCommandNoMem
<1>2. ASSUME NEW c \in Client, RunOn(c)
      PROVE  IInv'
  <2>1. \A k \in Client : Pending(k)' <=> Pending(k)
    BY <1>a, <1>2 DEF RunOn, Waking, Sleepers, Pending, Thread
  <2>2. \A k \in Daemon :
          pc'[k] = pc[k] \/ (pc[k] = "asleep" /\ pc'[k] = "woken")
    BY <1>a, <1>2 DEF RunOn, Waking, Sleepers, Thread
  <2>3. \A k \in Daemon : pc'[k] \in HandPc <=> pc[k] \in HandPc
    BY <2>2 DEF HandPc
  <2> QED
    BY <1>2, <2>1, <2>2, <2>3, ClientMoves DEF RunOn, Waking
<1>3. ASSUME NEW d \in Daemon, Start(d)
      PROVE  IInv'
  BY <1>3, DaemonMoves DEF Start, HandPc, DaemonPc
<1>4. ASSUME NEW d \in Daemon, CmdGet(d)
      PROVE  IInv'
  BY <1>4, DaemonMoves DEF CmdGet, HandPc, DaemonPc
<1>5. ASSUME NEW d \in Daemon, Claim(d)
      PROVE  IInv'
  BY <1>5, DaemonMoves DEF Claim, ClaimState, HandPc, DaemonPc
<1>6. ASSUME NEW d \in Daemon, CheckEmpty(d)
      PROVE  IInv'
  BY <1>6, DaemonMoves DEF CheckEmpty, GoOn, HandPc, DaemonPc
<1>7. ASSUME NEW d \in Daemon, Block(d)
      PROVE  IInv'
  BY <1>7, DaemonMoves DEF Block, HandPc, DaemonPc
<1>8. ASSUME NEW d \in Daemon, Interrupt(d)
      PROVE  IInv'
  BY <1>8, DaemonMoves DEF Interrupt, HandPc, DaemonPc
<1>8a. ASSUME NEW d \in Daemon, Moved(d)
      PROVE  IInv'
  BY <1>8a, DaemonMoves DEF Moved, HandPc, DaemonPc
<1>9. ASSUME NEW d \in Daemon, PopNone(d)
      PROVE  IInv'
  BY <1>9, DaemonMoves DEF PopNone, HandPc, DaemonPc
<1>10. ASSUME NEW d \in Daemon, CopyOut(d)
      PROVE  IInv'
  BY <1>10, DaemonMoves DEF CopyOut, HandPc, DaemonPc
<1>11. ASSUME NEW d \in Daemon, Increase(d)
      PROVE  IInv'
  BY <1>11, DaemonMoves DEF Increase, HandPc, DaemonPc
<1>12. ASSUME NEW d \in Daemon, IncreaseNoMem(d)
      PROVE  IInv'
  BY <1>12, DaemonMoves DEF IncreaseNoMem, HandPc, DaemonPc
<1>13. ASSUME NEW d \in Daemon, Results(d)
      PROVE  IInv'
  <2>1. pc[d] = "results" /\ hand[d].blk # NoBlk
    BY <1>13 DEF Results, Filled, IInv, HandWf
  <2> QED
    BY <1>13, <2>1, DaemonMoves DEF Results, Filled, HandPc, DaemonPc
<1> QED
  BY <1>1, <1>2, <1>3, <1>4, <1>5, <1>6, <1>7, <1>8, <1>8a, <1>9, <1>10, <1>11,
     <1>12, <1>13

\* A daemon drops its command: it is executed and nobody waits, its result
\* cannot be stored, or the process ends.
LEMMA Drop ==
  ASSUME IInv, TypeOK', NEW d \in Daemon, NEW l \in DaemonPc \ HandPc,
         Goto(d, l), hand' = [hand EXCEPT ![d] = NoEntry],
         UNCHANGED <<lx_daemon_cmdhandle, waiting, done, hcmd, blk>>
  PROVE  IInv'
<1> USE ConstAssumption
<1>a. /\ pc \in [Thread -> ClientPc \cup DaemonPc]
      /\ hand \in [Daemon -> Entry]
      /\ NoEntry.hcmd = 0 /\ NoEntry.blk = NoBlk
      /\ lx_daemon_cmdhandle \in Nat
  BY DEF IInv, TypeOK, NoEntry, Handle
<1>b. \A k \in Daemon : hand'[k] = IF k = d THEN NoEntry ELSE hand[k]
  BY <1>a
<1>c. \A k \in Thread : pc'[k] = IF k = d THEN l ELSE pc[k]
  BY <1>a DEF Goto
<1>d. \A k \in Client : Pending(k)' <=> Pending(k)
  BY <1>c DEF Pending, Thread
<1>1. HandWf'
  BY <1>a, <1>b, <1>c DEF IInv, HandWf, Holds, Thread, HandPc
<1>2. Fresh'
  BY <1>a, <1>b, <1>d DEF IInv, Fresh
<1>3. QueueUnique'
  <2>1. \A i \in DOMAIN waiting : waiting[i].hcmd # 0
    BY DEF IInv, Fresh
  <2> QED
    BY <1>a, <1>b, <2>1 DEF IInv, HandleUnique, QueueUnique
<1>4. OthersUnique'
  <2>1. \A e \in done : e.hcmd # 0
    BY DEF IInv, Fresh
  <2> QED
    BY <1>a, <1>b, <2>1 DEF IInv, HandleUnique, OthersUnique, Holds
<1>5. CallersUnique'
  BY <1>d DEF IInv, HandleUnique, CallersUnique
<1>6. BufferOwner'
  <2>1. ASSUME NEW e \in Entry, Owned(e)
        PROVE  Owned(e)'
    BY <1>d, <2>1, EntryFields DEF Owned
  <2>2. Owned(NoEntry)'
    BY <1>a DEF Owned
  <2> QED
    BY <1>b, <2>1, <2>2, AllEntries DEF IInv, BufferOwner
<1> QED
  BY <1>1, <1>2, <1>3, <1>4, <1>5, <1>6 DEF IInv, HandleUnique, OwnBlk

\* A caller enters LX_dmn_add_command: it was not Pending and is not yet.
LEMMA Enters ==
  ASSUME IInv, TypeOK', NEW c \in Client, NEW b \in {c, NoBlk},
         AddCommand(c, b) \/ AddCommandNoDaemon(c, b)
  PROVE  IInv'
<1> USE ConstAssumption
<1>a. /\ pc \in [Thread -> ClientPc \cup DaemonPc]
      /\ hcmd \in [Client -> Handle]
      /\ blk \in [Client -> Client \cup {NoBlk}]
      /\ lx_daemon_cmdhandle \in Nat
  BY SMTT(30) DEF IInv, TypeOK, Handle
<1>b. UNCHANGED <<lx_daemon_cmdhandle, waiting, done, hand>>
  BY DEF AddCommand, AddCommandNoDaemon, callVars, dataVars, idVars
<1>c. \A k \in Client : hcmd'[k] = IF k = c THEN 0 ELSE hcmd[k]
  BY <1>a DEF AddCommand, AddCommandNoDaemon
<1>d. \A k \in Daemon : pc'[k] = pc[k]
  BY <1>a DEF AddCommand, AddCommandNoDaemon, Goto, Thread
<1>e. ~Pending(c) /\ ~Pending(c)'
  BY <1>a DEF AddCommand, AddCommandNoDaemon, Goto, Thread, Pending
<1>f. \A k \in Client \ {c} : Pending(k)' <=> Pending(k)
  BY <1>a DEF AddCommand, AddCommandNoDaemon, Goto, Thread, Pending
<1>1. HandWf'
  BY <1>b, <1>d DEF IInv, HandWf, Holds
<1>2. Fresh'
  BY <1>a, <1>b, <1>c, <1>e, <1>f DEF IInv, Fresh
<1>3. QueueUnique' /\ OthersUnique'
  BY <1>b DEF IInv, HandleUnique, QueueUnique, OthersUnique, Holds
<1>4. CallersUnique'
  BY <1>c, <1>e, <1>f DEF IInv, HandleUnique, CallersUnique
<1>5. BufferOwner'
  <2>1. ASSUME NEW e \in Entry, Owned(e)
        PROVE  Owned(e)'
    BY <1>c, <1>e, <1>f, <2>1, EntryFields DEF Owned
  <2> QED
    BY <1>b, <2>1, AllEntries DEF IInv, BufferOwner
<1>6. OwnBlk'
  BY <1>a DEF IInv, OwnBlk, AddCommand, AddCommandNoDaemon
<1> QED
  BY <1>1, <1>2, <1>3, <1>4, <1>5, <1>6 DEF IInv, HandleUnique

\* A command is queued under a handle the counter has never had.
LEMMA Enqueues ==
  ASSUME HandleLimit < HandleMod, IInv, TypeOK', NEW c \in Client, Enqueue(c)
  PROVE  IInv'
<1> USE ConstAssumption
<1>a. /\ pc \in [Thread -> ClientPc \cup DaemonPc]
      /\ hcmd \in [Client -> Handle]
      /\ lx_daemon_cmdhandle \in Nat
      /\ waiting \in Seq(Entry)
      /\ blk[c] \in {c, NoBlk}
  BY SMTT(30) DEF IInv, TypeOK, Handle, OwnBlk
<1>b. NextHandle = lx_daemon_cmdhandle + 1
  BY <1>a DEF Enqueue, NextHandle
<1>c. PICK e : /\ e.hcmd = lx_daemon_cmdhandle + 1
               /\ e.blk = blk[c]
               /\ waiting' = Append(waiting, e)
  <2>1. PICK l \in CmdLens :
          waiting' = Append(waiting,
                       [hcmd |-> NextHandle, blk |-> blk[c], len |-> l,
                        rc |-> "zero"])
    BY DEF Enqueue
  <2> QED
    BY <1>b, <2>1
<1>d. /\ DOMAIN waiting' = DOMAIN waiting \cup {Len(waiting) + 1}
      /\ Len(waiting) + 1 \notin DOMAIN waiting
      /\ \A i \in DOMAIN waiting : waiting'[i] = waiting[i]
      /\ waiting'[Len(waiting) + 1] = e
  BY <1>a, <1>c
<1>e. UNCHANGED <<done, hand, blk>> /\ lx_daemon_cmdhandle' = lx_daemon_cmdhandle + 1
  BY <1>b DEF Enqueue, callVars, dataVars, idVars
<1>f. \A k \in Client :
        hcmd'[k] = IF k = c THEN lx_daemon_cmdhandle + 1 ELSE hcmd[k]
  BY <1>a, <1>b DEF Enqueue
<1>g. \A k \in Daemon : pc'[k] = pc[k]
  BY <1>a DEF Enqueue, Goto, Thread
<1>h. ~Pending(c) /\ (blk[c] # NoBlk => Pending(c)')
  BY <1>a, <1>e DEF Enqueue, Goto, Thread, Pending
<1>i. \A k \in Client \ {c} : Pending(k)' <=> Pending(k)
  BY <1>a, <1>e DEF Enqueue, Goto, Thread, Pending
<1>j. /\ \A i \in DOMAIN waiting : waiting[i].hcmd \in Nat
      /\ \A d \in Daemon : hand[d].hcmd \in Nat
      /\ \A f \in done : f.hcmd \in Nat
      /\ \A k \in Client : hcmd[k] \in Nat
  BY <1>a, AllEntries, EntryFields DEF IInv, Handle
<1>1. HandWf'
  BY <1>e, <1>g DEF IInv, HandWf, Holds
<1>2. Fresh'
  <2>1. \A i \in DOMAIN waiting' :
          waiting'[i].hcmd \in 1 .. (lx_daemon_cmdhandle + 1)
    BY <1>a, <1>c, <1>d, <1>j DEF IInv, Fresh
  <2>2. \A d \in Daemon : hand[d].hcmd <= lx_daemon_cmdhandle + 1
    BY <1>a, <1>j DEF IInv, Fresh
  <2>3. \A f \in done : f.hcmd \in 1 .. (lx_daemon_cmdhandle + 1)
    BY <1>a, <1>j DEF IInv, Fresh
  <2>4. \A k \in Client : hcmd'[k] <= lx_daemon_cmdhandle + 1
    BY <1>a, <1>f, <1>j DEF IInv, Fresh
  <2>5. \A k \in Client : Pending(k)' => hcmd'[k] # 0
    BY <1>a, <1>f, <1>i DEF IInv, Fresh
  <2> QED
    BY <1>e, <2>1, <2>2, <2>3, <2>4, <2>5 DEF Fresh
<1>k. /\ \A i \in DOMAIN waiting : waiting[i].hcmd # e.hcmd
      /\ \A d \in Daemon : hand[d].hcmd # e.hcmd
      /\ \A f \in done : f.hcmd # e.hcmd
      /\ \A k \in Client : hcmd[k] # e.hcmd
  BY <1>a, <1>c, <1>j DEF IInv, Fresh
<1>3. QueueUnique'
  BY <1>d, <1>e, <1>k DEF IInv, HandleUnique, QueueUnique
<1>4. OthersUnique'
  BY <1>e DEF IInv, HandleUnique, OthersUnique, Holds
<1>5. CallersUnique'
  BY <1>c, <1>f, <1>i, <1>k DEF IInv, HandleUnique, CallersUnique
<1>6. BufferOwner'
  <2>1. ASSUME NEW f \in Entry, Owned(f)
        PROVE  Owned(f)'
    BY <1>f, <1>h, <1>i, <2>1, EntryFields DEF Owned
  <2>2. Owned(e)'
    BY <1>a, <1>c, <1>f, <1>h DEF Owned
  <2>3. \A i \in DOMAIN waiting' : Owned(waiting[i])'
    BY <1>d, <2>1, <2>2, AllEntries DEF IInv, BufferOwner
  <2> QED
    BY <1>e, <2>1, <2>3, AllEntries DEF IInv, BufferOwner
<1> QED
  BY <1>e, <1>1, <1>2, <1>3, <1>4, <1>5, <1>6
     DEF IInv, HandleUnique, OwnBlk

\* A caller takes its result; no other command names its buffer.
LEMMA Returns ==
  ASSUME IInv, TypeOK', NEW c \in Client, GetResult(c)
  PROVE  IInv'
<1> USE ConstAssumption
<1>a. pc \in [Thread -> ClientPc \cup DaemonPc]
  BY DEF IInv, TypeOK
<1>b. PICK e \in done : e.hcmd = hcmd[c] /\ done' = done \ {e}
  BY DEF GetResult
<1>c. UNCHANGED <<lx_daemon_cmdhandle, waiting, hand, hcmd, blk>>
  BY DEF GetResult, callVars, dataVars, idVars
<1>d. \A k \in Daemon : pc'[k] = pc[k]
  BY <1>a DEF GetResult, Goto, Thread
<1>e. Pending(c) /\ ~Pending(c)'
  BY <1>a DEF GetResult, Goto, Thread, Pending
<1>f. \A k \in Client \ {c} : Pending(k)' <=> Pending(k)
  BY <1>a, <1>c DEF GetResult, Goto, Thread, Pending
<1>1. HandWf'
  BY <1>c, <1>d DEF IInv, HandWf, Holds
<1>2. Fresh'
  BY <1>b, <1>c, <1>e, <1>f DEF IInv, Fresh
<1>3. QueueUnique' /\ OthersUnique'
  BY <1>b, <1>c DEF IInv, HandleUnique, QueueUnique, OthersUnique, Holds
<1>4. CallersUnique'
  BY <1>c, <1>e, <1>f DEF IInv, HandleUnique, CallersUnique
<1>5. BufferOwner'
  <2>1. ASSUME NEW f \in Entry, Owned(f), f.hcmd # hcmd[c]
        PROVE  Owned(f)'
    BY <1>c, <1>f, <2>1, EntryFields DEF Owned
  <2>2. /\ \A i \in DOMAIN waiting : waiting[i].hcmd # hcmd[c]
        /\ \A d \in Daemon : hand[d].hcmd # hcmd[c]
        /\ \A f \in done' : f \in done /\ f.hcmd # hcmd[c]
    BY <1>b DEF IInv, HandleUnique, QueueUnique, OthersUnique
  <2> QED
    BY <1>c, <2>1, <2>2, AllEntries DEF IInv, BufferOwner
<1> QED
  BY <1>c, <1>1, <1>2, <1>3, <1>4, <1>5 DEF IInv, HandleUnique, OwnBlk

\* A daemon takes the first command off the queue.
LEMMA Pops ==
  ASSUME IInv, TypeOK', NEW d \in Daemon, Pop(d)
  PROVE  IInv'
<1> USE ConstAssumption
<1>a. /\ pc \in [Thread -> ClientPc \cup DaemonPc]
      /\ hand \in [Daemon -> Entry]
      /\ waiting \in Seq(Entry)
      /\ waiting # <<>>
  BY DEF IInv, TypeOK, Pop, Take
<1>b. UNCHANGED <<lx_daemon_cmdhandle, done, hcmd, blk>>
  BY DEF Pop, Take, callVars, dataVars, idVars
<1>c. /\ 1 \in DOMAIN waiting /\ Head(waiting) = waiting[1]
      /\ \A i \in DOMAIN waiting' :
           i + 1 \in DOMAIN waiting /\ i + 1 # 1 /\ waiting'[i] = waiting[i + 1]
      /\ \A i, j \in DOMAIN waiting' : i + 1 = j + 1 => i = j
  BY <1>a DEF Pop, Take
<1>d. \A k \in Daemon : hand'[k] = IF k = d THEN waiting[1] ELSE hand[k]
  BY <1>a, <1>c DEF Pop, Take
<1>e. \A k \in Thread : pc'[k] = IF k = d THEN "popped" ELSE pc[k]
  BY <1>a DEF Pop, Take, Goto
<1>f. \A k \in Client : Pending(k)' <=> Pending(k)
  BY <1>b, <1>e DEF Pending, Thread
<1>g. waiting[1].hcmd # 0
  BY <1>c DEF IInv, Fresh
<1>1. HandWf'
  BY <1>d, <1>e, <1>g DEF IInv, HandWf, Holds, Thread, HandPc
<1>2. Fresh'
  <2>1. \A i \in DOMAIN waiting' : waiting'[i].hcmd \in 1 .. lx_daemon_cmdhandle
    BY <1>c DEF IInv, Fresh
  <2>2. \A k \in Daemon : hand'[k].hcmd <= lx_daemon_cmdhandle
    BY <1>c, <1>d DEF IInv, Fresh
  <2> QED
    BY <1>b, <1>f, <2>1, <2>2 DEF IInv, Fresh
<1>3. QueueUnique'
  <2>1. \A i, j \in DOMAIN waiting' : waiting'[i].hcmd = waiting'[j].hcmd => i = j
    BY <1>c DEF IInv, HandleUnique, QueueUnique
  <2>2. \A i \in DOMAIN waiting', k \in Daemon : waiting'[i].hcmd # hand'[k].hcmd
    BY <1>c, <1>d DEF IInv, HandleUnique, QueueUnique
  <2>3. \A i \in DOMAIN waiting', e \in done : waiting'[i].hcmd # e.hcmd
    BY <1>c DEF IInv, HandleUnique, QueueUnique
  <2> QED
    BY <1>b, <2>1, <2>2, <2>3 DEF QueueUnique
<1>4. OthersUnique'
  BY <1>b, <1>c, <1>d DEF IInv, HandleUnique, OthersUnique, QueueUnique, Holds
<1>5. CallersUnique'
  BY <1>b, <1>f DEF IInv, HandleUnique, CallersUnique
<1>6. BufferOwner'
  <2>1. ASSUME NEW e \in Entry, Owned(e)
        PROVE  Owned(e)'
    BY <1>b, <1>f, <2>1, EntryFields DEF Owned
  <2>2. \A i \in DOMAIN waiting' : Owned(waiting[i])'
    BY <1>c, <2>1, AllEntries DEF IInv, BufferOwner
  <2>3. \A k \in Daemon : Owned(hand[k])'
    BY <1>c, <1>d, <2>1, AllEntries DEF IInv, BufferOwner
  <2> QED
    BY <1>b, <2>1, <2>2, <2>3, AllEntries DEF IInv, BufferOwner
<1> QED
  BY <1>b, <1>1, <1>2, <1>3, <1>4, <1>5, <1>6 DEF IInv, HandleUnique, OwnBlk

\* A command that is too long goes back to the head of the queue.
LEMMA PutsBack ==
  ASSUME IInv, TypeOK', NEW d \in Daemon, PushBack(d)
  PROVE  IInv'
<1> USE ConstAssumption
<1>a. /\ pc \in [Thread -> ClientPc \cup DaemonPc]
      /\ hand \in [Daemon -> Entry]
      /\ waiting \in Seq(Entry)
      /\ NoEntry.hcmd = 0 /\ NoEntry.blk = NoBlk
      /\ lx_daemon_cmdhandle \in Nat
  BY SMTT(30) DEF IInv, TypeOK, NoEntry, Handle
<1>b. UNCHANGED <<lx_daemon_cmdhandle, done, hcmd, blk>>
  BY DEF PushBack, TooLong, callVars, dataVars, idVars
<1>c. /\ waiting'[1] = hand[d]
      /\ \A i \in DOMAIN waiting' \ {1} :
           i - 1 \in DOMAIN waiting /\ waiting'[i] = waiting[i - 1]
      /\ \A i, j \in DOMAIN waiting' : i - 1 = j - 1 => i = j
  BY <1>a DEF PushBack, TooLong
<1>d. \A k \in Daemon : hand'[k] = IF k = d THEN NoEntry ELSE hand[k]
  BY <1>a DEF PushBack, TooLong
<1>e. \A k \in Thread : pc'[k] = IF k = d THEN "increase" ELSE pc[k]
  BY <1>a DEF PushBack, TooLong, Goto
<1>f. \A k \in Client : Pending(k)' <=> Pending(k)
  BY <1>b, <1>e DEF Pending, Thread
<1>g. Holds(d)
  BY DEF PushBack, TooLong, IInv, HandWf, HandPc
<1>h. hand[d].hcmd \in 1 .. lx_daemon_cmdhandle
  BY <1>a, <1>g, AllEntries, EntryFields DEF IInv, Fresh, Holds
<1>1. HandWf'
  BY <1>a, <1>d, <1>e DEF IInv, HandWf, Holds, Thread, HandPc
<1>2. Fresh'
  <2>1. \A i \in DOMAIN waiting' : waiting'[i].hcmd \in 1 .. lx_daemon_cmdhandle
    BY <1>c, <1>h DEF IInv, Fresh
  <2>2. \A k \in Daemon : hand'[k].hcmd <= lx_daemon_cmdhandle
    BY <1>a, <1>d DEF IInv, Fresh
  <2> QED
    BY <1>b, <1>f, <2>1, <2>2 DEF IInv, Fresh
<1>3. QueueUnique'
  <2>1. \A i, j \in DOMAIN waiting' : waiting'[i].hcmd = waiting'[j].hcmd => i = j
    BY <1>c DEF IInv, HandleUnique, QueueUnique
  <2>2. \A i \in DOMAIN waiting' : waiting'[i].hcmd # 0
    BY <1>c, <1>h DEF IInv, Fresh
  <2>3. \A i \in DOMAIN waiting', k \in Daemon : waiting'[i].hcmd # hand'[k].hcmd
    BY <1>a, <1>c, <1>d, <1>g, <2>2
       DEF IInv, HandleUnique, QueueUnique, OthersUnique
  <2>4. \A i \in DOMAIN waiting', e \in done : waiting'[i].hcmd # e.hcmd
    BY <1>c DEF IInv, HandleUnique, QueueUnique, OthersUnique
  <2> QED
    BY <1>b, <2>1, <2>3, <2>4 DEF QueueUnique
<1>4. OthersUnique'
  <2>1. \A e \in done : e.hcmd # 0
    BY DEF IInv, Fresh
  <2> QED
    BY <1>a, <1>b, <1>d, <2>1 DEF IInv, HandleUnique, OthersUnique, Holds
<1>5. CallersUnique'
  BY <1>b, <1>f DEF IInv, HandleUnique, CallersUnique
<1>6. BufferOwner'
  <2>1. ASSUME NEW e \in Entry, Owned(e)
        PROVE  Owned(e)'
    BY <1>b, <1>f, <2>1, EntryFields DEF Owned
  <2>2. Owned(NoEntry)'
    BY <1>a DEF Owned
  <2>3. \A i \in DOMAIN waiting' : Owned(waiting[i])'
    BY <1>c, <2>1, AllEntries DEF IInv, BufferOwner
  <2>4. \A k \in Daemon : Owned(hand[k])'
    BY <1>d, <2>1, <2>2, AllEntries DEF IInv, BufferOwner
  <2> QED
    BY <1>b, <2>1, <2>3, <2>4, AllEntries DEF IInv, BufferOwner
<1> QED
  BY <1>b, <1>1, <1>2, <1>3, <1>4, <1>5, <1>6 DEF IInv, HandleUnique, OwnBlk

\* What Execute does to the command in the daemon's hands.
LEMMA ExecuteKeeps ==
  ASSUME TypeOK, NEW d \in Daemon, Execute(d)
  PROVE  /\ \A k \in Daemon : /\ hand'[k].hcmd = hand[k].hcmd
                              /\ hand'[k].blk = hand[k].blk
         /\ \A k \in Daemon \ {d} : hand'[k] = hand[k]
<1>1. PICK r \in {"zero", "error"} : hand' = [hand EXCEPT ![d].rc = r]
  BY DEF Execute
<1>2. hand \in [Daemon -> Entry]
  BY DEF TypeOK
<1>3. ASSUME NEW e \in Entry
      PROVE  /\ [e EXCEPT !.rc = r].hcmd = e.hcmd
             /\ [e EXCEPT !.rc = r].blk = e.blk
  BY DEF Entry
<1>4. hand'[d] = [hand[d] EXCEPT !.rc = r]
  BY <1>1, <1>2
<1>5. \A k \in Daemon \ {d} : hand'[k] = hand[k]
  BY <1>1, <1>2
<1>6. hand'[d].hcmd = hand[d].hcmd /\ hand'[d].blk = hand[d].blk
  <2>1. hand[d] \in Entry
    BY <1>2
  <2> QED
    BY <1>3, <1>4, <2>1, Zenon
<1>7. ASSUME NEW k \in Daemon
      PROVE  hand'[k].hcmd = hand[k].hcmd /\ hand'[k].blk = hand[k].blk
  <2>1. CASE k = d
    BY <1>6, <2>1, Zenon
  <2>2. CASE k # d
    BY <1>5, <2>2, Zenon
  <2> QED
    BY <2>1, <2>2, Zenon
<1> QED
  BY <1>5, <1>7, Zenon

\* Execution changes the result in the daemon's hands and nothing else.
LEMMA Executes ==
  ASSUME IInv, TypeOK', NEW d \in Daemon, Execute(d)
  PROVE  IInv'
<1> USE ConstAssumption
<1>a. pc \in [Thread -> ClientPc \cup DaemonPc]
  BY DEF IInv, TypeOK
<1>b. UNCHANGED <<lx_daemon_cmdhandle, waiting, done, hcmd, blk>>
  BY DEF Execute, callVars, dataVars, idVars
<1>c. /\ \A k \in Daemon : /\ hand'[k].hcmd = hand[k].hcmd
                           /\ hand'[k].blk = hand[k].blk
      /\ \A k \in Daemon \ {d} : hand'[k] = hand[k]
  BY ExecuteKeeps DEF IInv
<1>d. \A k \in Thread : pc'[k] = IF k = d THEN "results" ELSE pc[k]
  BY <1>a DEF Execute, Goto
<1>e. \A k \in Client : Pending(k)' <=> Pending(k)
  BY <1>b, <1>d DEF Pending, Thread
<1>1. HandWf'
  <2>1. pc[d] = "execute" /\ hand[d].blk # NoBlk /\ Holds(d)
    BY DEF Execute, IInv, HandWf, HandPc
  <2> QED
    BY <1>c, <1>d, <2>1 DEF IInv, HandWf, Holds, Thread, HandPc
<1>2. Fresh'
  BY <1>b, <1>c, <1>e DEF IInv, Fresh
<1>3. HandleUnique'
  BY <1>b, <1>c, <1>e
     DEF IInv, HandleUnique, QueueUnique, OthersUnique, CallersUnique, Holds
<1>4. BufferOwner'
  <2>1. ASSUME NEW e \in Entry, Owned(e)
        PROVE  Owned(e)'
    BY <1>b, <1>e, <2>1, EntryFields DEF Owned
  <2>2. \A k \in Daemon : Owned(hand[k])'
    <3>1. ASSUME NEW k \in Daemon, hand[k].blk # NoBlk
          PROVE  /\ hand[k].blk \in Client
                 /\ Pending(hand[k].blk) /\ hcmd[hand[k].blk] = hand[k].hcmd
      BY <3>1, AllEntries, EntryFields DEF IInv, BufferOwner, Owned
    <3> QED
      BY <1>b, <1>c, <1>e, <3>1 DEF Owned
  <2> QED
    BY <1>b, <2>1, <2>2, AllEntries DEF IInv, BufferOwner
<1> QED
  BY <1>b, <1>1, <1>2, <1>3, <1>4 DEF IInv, OwnBlk

\* A result moves from the daemon's hands to the done list.
LEMMA Appends ==
  ASSUME IInv, TypeOK', NEW d \in Daemon, AppendDone(d)
  PROVE  IInv'
<1> USE ConstAssumption
<1>a. /\ pc \in [Thread -> ClientPc \cup DaemonPc]
      /\ hand \in [Daemon -> Entry]
      /\ NoEntry.hcmd = 0 /\ NoEntry.blk = NoBlk
      /\ lx_daemon_cmdhandle \in Nat
  BY SMTT(30) DEF IInv, TypeOK, NoEntry, Handle
<1>b. UNCHANGED <<lx_daemon_cmdhandle, waiting, hcmd, blk>>
  BY DEF AppendDone, callVars, dataVars, idVars
<1>c. done' = done \cup {hand[d]}
  BY DEF AppendDone
<1>d. \A k \in Daemon : hand'[k] = IF k = d THEN NoEntry ELSE hand[k]
  BY <1>a DEF AppendDone
<1>e. \A k \in Thread : pc'[k] = IF k = d THEN "user" ELSE pc[k]
  BY <1>a DEF AppendDone, Goto
<1>f. \A k \in Client : Pending(k)' <=> Pending(k)
  BY <1>b, <1>e DEF Pending, Thread
<1>g. Holds(d) /\ hand[d].blk # NoBlk
  BY DEF AppendDone, IInv, HandWf, HandPc
<1>h. hand[d].hcmd \in 1 .. lx_daemon_cmdhandle
  BY <1>a, <1>g, AllEntries, EntryFields DEF IInv, Fresh, Holds
<1>1. HandWf'
  BY <1>a, <1>d, <1>e DEF IInv, HandWf, Holds, Thread, HandPc
<1>2. Fresh'
  BY <1>a, <1>b, <1>c, <1>d, <1>f, <1>h DEF IInv, Fresh
<1>i. /\ \A i \in DOMAIN waiting : waiting[i].hcmd # 0
      /\ \A e \in done' : e.hcmd # 0
  BY <1>c, <1>h DEF IInv, Fresh
<1>3. QueueUnique'
  BY <1>a, <1>b, <1>c, <1>d, <1>i DEF IInv, HandleUnique, QueueUnique
<1>4. OthersUnique'
  <2>1. \A k, m \in Daemon :
          hand'[k].hcmd # 0 /\ hand'[k].hcmd = hand'[m].hcmd => k = m
    BY <1>a, <1>d DEF IInv, HandleUnique, OthersUnique, Holds
  <2>2. \A k \in Daemon, e \in done' : hand'[k].hcmd # e.hcmd
    BY <1>a, <1>c, <1>d, <1>g, <1>i DEF IInv, HandleUnique, OthersUnique
  <2>3. \A e, f \in done' : e.hcmd = f.hcmd => e = f
    BY <1>c DEF IInv, HandleUnique, OthersUnique
  <2> QED
    BY <2>1, <2>2, <2>3 DEF OthersUnique, Holds
<1>5. CallersUnique'
  BY <1>b, <1>f DEF IInv, HandleUnique, CallersUnique
<1>6. BufferOwner'
  <2>1. ASSUME NEW e \in Entry, Owned(e)
        PROVE  Owned(e)'
    BY <1>b, <1>f, <2>1, EntryFields DEF Owned
  <2>2. Owned(NoEntry)'
    BY <1>a DEF Owned
  <2>3. \A k \in Daemon : Owned(hand[k])'
    BY <1>d, <2>1, <2>2, AllEntries DEF IInv, BufferOwner
  <2>4. \A e \in done' : Owned(e)' /\ e.blk # NoBlk
    BY <1>c, <1>g, <2>1, AllEntries DEF IInv, BufferOwner
  <2> QED
    BY <1>b, <2>1, <2>3, <2>4, AllEntries DEF IInv, BufferOwner
<1> QED
  BY <1>b, <1>1, <1>2, <1>3, <1>4, <1>5, <1>6 DEF IInv, HandleUnique, OwnBlk

\* Where the results that LX_daemon_closed leaves behind come from.
LEMMA ClosedSource ==
  ASSUME TypeOK, NEW e \in Closed
  PROVE  \/ \E f \in done :
              e = [f EXCEPT !.rc = "nochildren"] /\ f \in Entry
              /\ e.hcmd = f.hcmd /\ e.blk = f.blk
         \/ \E i \in DOMAIN waiting :
              e = [waiting[i] EXCEPT !.rc = "nochildren"] /\ waiting[i] \in Entry
              /\ e.hcmd = waiting[i].hcmd /\ e.blk = waiting[i].blk
              /\ e.blk # NoBlk
<1>1. ASSUME NEW f \in Entry
      PROVE  /\ [f EXCEPT !.rc = "nochildren"].hcmd = f.hcmd
             /\ [f EXCEPT !.rc = "nochildren"].blk = f.blk
  BY DEF Entry
<1>2. PICK f \in done \cup {waiting[i] : i \in {j \in DOMAIN waiting :
                                              waiting[j].blk # NoBlk}} :
        e = [f EXCEPT !.rc = "nochildren"]
  BY DEF Closed
<1>3. CASE f \in done
  BY <1>1, <1>2, <1>3, AllEntries
<1>4. CASE \E i \in DOMAIN waiting : waiting[i].blk # NoBlk /\ f = waiting[i]
  BY <1>1, <1>2, <1>4, AllEntries
<1> QED
  BY <1>2, <1>3, <1>4

\* LX_daemon_closed moves the commands somebody waits for to the done list.
LEMMA Drains ==
  ASSUME IInv, TypeOK', NEW d \in Daemon, Drain(d)
  PROVE  IInv'
<1> USE ConstAssumption
<1>a. pc \in [Thread -> ClientPc \cup DaemonPc] /\ TypeOK
  BY DEF IInv, TypeOK
<1>b. UNCHANGED <<lx_daemon_cmdhandle, hand, hcmd, blk>> /\ waiting' = <<>>
  BY DEF Drain, DrainTo, callVars, dataVars, idVars
<1>c. DOMAIN waiting' = {}
  BY <1>b
<1>d. done' = Closed
  BY DEF Drain, DrainTo
<1>e. \A k \in Thread : pc'[k] = IF k = d THEN "off" ELSE pc[k]
  BY <1>a DEF Drain, DrainTo, Goto
<1>f. \A k \in Client : Pending(k)' <=> Pending(k)
  BY <1>b, <1>e DEF Pending, Thread
<1>1. HandWf'
  <2>1. pc[d] = "drain"
    BY DEF Drain, DrainTo
  <2> QED
    BY <1>b, <1>e, <2>1 DEF IInv, HandWf, Holds, Thread, HandPc
<1>2. Fresh'
  <2>1. \A e \in done' : e.hcmd \in 1 .. lx_daemon_cmdhandle
    BY <1>a, <1>d, ClosedSource DEF IInv, Fresh
  <2> QED
    BY <1>b, <1>c, <1>f, <2>1 DEF IInv, Fresh
<1>3. QueueUnique'
  BY <1>c DEF QueueUnique
<1>4. OthersUnique'
  <2>1. \A k \in Daemon, e \in done' : hand[k].hcmd # e.hcmd
    BY <1>a, <1>d, ClosedSource
       DEF IInv, HandleUnique, OthersUnique, QueueUnique
  <2>2. \A e, f \in done' : e.hcmd = f.hcmd => e = f
    BY <1>a, <1>d, ClosedSource
       DEF IInv, HandleUnique, OthersUnique, QueueUnique
  <2> QED
    BY <1>b, <2>1, <2>2 DEF IInv, HandleUnique, OthersUnique, Holds
<1>5. CallersUnique'
  BY <1>b, <1>f DEF IInv, HandleUnique, CallersUnique
<1>6. BufferOwner'
  <2>1. ASSUME NEW e \in Entry, Owned(e)
        PROVE  Owned(e)'
    BY <1>b, <1>f, <2>1, EntryFields DEF Owned
  <2>2. ASSUME NEW e \in done'
        PROVE  Owned(e)' /\ e.blk # NoBlk
    <3>1. PICK f \in Entry : /\ e.hcmd = f.hcmd /\ e.blk = f.blk
                             /\ Owned(f) /\ f.blk # NoBlk
      BY <1>a, <1>d, ClosedSource DEF IInv, BufferOwner
    <3>2. Pending(f.blk)' /\ hcmd'[f.blk] = f.hcmd
      BY <2>1, <3>1 DEF Owned
    <3> QED
      BY <3>1, <3>2 DEF Owned
  <2> QED
    BY <1>b, <1>c, <2>1, <2>2, AllEntries DEF IInv, BufferOwner
<1> QED
  BY <1>b, <1>1, <1>2, <1>3, <1>4, <1>5, <1>6 DEF IInv, HandleUnique, OwnBlk

\* Every step keeps the inductive invariant, as long as the counter does not wrap.
LEMMA IInvStep ==
  ASSUME HandleLimit < HandleMod, IInv, [Next]_vars
  PROVE  IInv'
<1>0. TypeOK'
  BY TypeStep DEF IInv
<1> USE <1>0
<1>1. ASSUME NEW c \in Client, CallAsync(c) \/ CallSync(c)
      PROVE  IInv'
  BY <1>1, Enters DEF CallAsync, CallSync, Call
<1>2. ASSUME NEW c \in Client, ClientStep(c) \/ AddCommandNoMem(c)
      PROVE  IInv'
  BY <1>2, Enqueues, Returns, QuietActions DEF ClientStep
<1>3. ASSUME NEW d \in Daemon, ExecuteAsync(d)
      PROVE  IInv'
  BY <1>3, Drop DEF ExecuteAsync, DaemonPc, HandPc, callVars
<1>4. ASSUME NEW d \in Daemon, ResultsNoMem(d)
      PROVE  IInv'
  BY <1>4, Drop DEF ResultsNoMem, DaemonPc, HandPc, callVars
<1>5. ASSUME NEW d \in Daemon, Exit(d)
      PROVE  IInv'
  BY <1>5, Drop DEF Exit, Ends, DaemonPc, HandPc, callVars
<1>6. ASSUME NEW d \in Daemon, ExitOther(d)
      PROVE  IInv'
  BY <1>6, Drop DEF ExitOther, Ends, DaemonPc, HandPc, callVars
<1>7. ASSUME NEW d \in Daemon, DaemonStep(d)
      PROVE  IInv'
  BY <1>3, <1>7, QuietActions, Pops, PutsBack, Executes, Appends, Drains
     DEF DaemonStep
<1>8. ASSUME NEW d \in Daemon, Start(d) \/ Interrupt(d) \/ IncreaseNoMem(d)
      PROVE  IInv'
  BY <1>8, QuietActions
<1>9. CASE UNCHANGED vars
  <2>1. \A k \in Client : Pending(k)' <=> Pending(k)
    BY <1>9 DEF vars, callVars, Pending
  <2>2. \A k \in Daemon : pc'[k] = pc[k]
    BY <1>9 DEF vars
  <2>3. \A k \in Daemon :
          pc'[k] \in {"results", "append"} => hand[k].blk # NoBlk
    BY <2>2 DEF IInv, HandWf
  <2> QED
    BY <1>9, <2>1, <2>2, <2>3, Quiet DEF vars, callVars
<1>10. CASE Available \/ Resched
  <2>1. /\ UNCHANGED <<lx_daemon_cmdhandle, waiting, done, hand, hcmd, blk>>
        /\ \A c \in Client : pc'[c] = pc[c]
        /\ \A d \in Daemon : \/ pc'[d] = pc[d]
                             \/ /\ pc[d] \in {"asleep", "woken"}
                                /\ pc'[d] = "moving"
    BY <1>10, SchedFrame DEF IInv, callVars
  <2>2. \A k \in Client : Pending(k)' <=> Pending(k)
    BY <2>1 DEF Pending
  <2>3. \A k \in Daemon : pc'[k] \in HandPc <=> pc[k] \in HandPc
    BY <2>1 DEF HandPc
  <2>4. \A k \in Daemon :
          pc'[k] \in {"results", "append"} => hand[k].blk # NoBlk
    BY <2>1 DEF IInv, HandWf
  <2> QED
    BY <2>1, <2>2, <2>3, <2>4, Quiet
<1> QED
  BY <1>1, <1>2, <1>4, <1>5, <1>6, <1>7, <1>8, <1>9, <1>10 DEF Next

\* The inductive invariant holds at the start.
LEMMA IInvInit == Init => IInv
<1> SUFFICES ASSUME Init PROVE IInv
  OBVIOUS
<1> USE ConstAssumption
<1>1. TypeOK
  BY NoEntryType
     DEF Init, TypeOK, Thread, ClientPc, DaemonPc, Handle, RC, Uninitialized,
         Running, Going
<1>2. DOMAIN waiting = {} /\ done = {} /\ lx_daemon_cmdhandle = 0
  BY DEF Init
<1>3. \A d \in Daemon : /\ hand[d] = NoEntry /\ hand[d].hcmd = 0
                        /\ hand[d].blk = NoBlk /\ pc[d] = "off"
  BY DEF Init, NoEntry, Thread
<1>4. \A c \in Client : hcmd[c] = 0 /\ ~Pending(c) /\ blk[c] = NoBlk
  BY DEF Init, Pending, Thread
<1>5. HandWf /\ Fresh /\ OwnBlk
  BY <1>2, <1>3, <1>4 DEF HandWf, HandPc, Fresh, OwnBlk, Holds
<1>6. HandleUnique
  BY <1>2, <1>3, <1>4
     DEF HandleUnique, QueueUnique, OthersUnique, CallersUnique, Holds
<1>7. BufferOwner
  BY <1>2, <1>3 DEF BufferOwner, Owned
<1> QED
  BY <1>1, <1>5, <1>6, <1>7 DEF IInv

\* The inductive invariant holds throughout.
LEMMA IInvAlways ==
  ASSUME HandleLimit < HandleMod
  PROVE  Spec => []IInv
<1>1. IInv /\ [Next]_vars => IInv'
  BY IInvStep
<1> QED
  BY <1>1, IInvInit, PTL DEF Spec

\* lx_daemon_cmdhandle is a "unique handle" until it wraps: with any number of
\* callers and daemons, killed or not, no two outstanding commands share one.
THEOREM HandlesAreUnique ==
  ASSUME HandleLimit < HandleMod
  PROVE  Spec => []HandleUnique
<1>1. IInv => HandleUnique
  BY DEF IInv
<1> QED
  BY <1>1, IInvAlways, PTL

\* A command that names a caller's buffer is the one that caller waits for, so
\* the memcpy of LX_dmn_add_done_command never touches a returned call's stack.
THEOREM BuffersAreOwned ==
  ASSUME HandleLimit < HandleMod
  PROVE  Spec => []BufferOwner
<1>1. IInv => BufferOwner
  BY DEF IInv
<1> QED
  BY <1>1, IInvAlways, PTL

-----------------------------------------------------------------------------
(* The daemon's data packet.                                               *)

\* The ioctl CMDGET, from the check of the data packet to the copy.
GetPc == {"claim", "check", "block", "asleep", "moving", "woken", "pop",
          "popped"}

\* A daemon inside CMDGET has said the truth about its memory: what verifying
\* the data packet has shown stays true until the command is copied.
DataInv ==
  \A d \in Daemon :
    /\ pc[d] \in GetPc => maxLen[d] <= bufLen[d]
    /\ pc[d] = "execute" => hand[d].len <= bufLen[d]

\* A step that changes only what concerns the daemon d.
LEMMA DataOfOne ==
  ASSUME TypeOK, TypeOK', DataInv, NEW d \in Daemon,
         \A k \in Daemon \ {d} :
           /\ pc'[k] = pc[k] /\ hand'[k] = hand[k]
           /\ maxLen'[k] = maxLen[k] /\ bufLen'[k] = bufLen[k],
         pc'[d] \in GetPc => maxLen'[d] <= bufLen'[d],
         pc'[d] = "execute" => hand'[d].len <= bufLen'[d]
  PROVE  DataInv'
BY DEF DataInv

\* Every step keeps it.
LEMMA DataStep == TypeOK /\ TypeOK' /\ DataInv /\ [Next]_vars => DataInv'
<1> SUFFICES ASSUME TypeOK, TypeOK', DataInv, [Next]_vars PROVE DataInv'
  OBVIOUS
<1>0. /\ pc \in [Thread -> ClientPc \cup DaemonPc]
      /\ hand \in [Daemon -> Entry]
      /\ maxLen \in [Daemon -> Nat] /\ bufLen \in [Daemon -> Nat]
      /\ \A k \in Daemon : k \in Thread /\ k \notin Client
  BY ConstAssumption DEF TypeOK, Thread
<1>1. ASSUME NEW c \in Client,
             CallAsync(c) \/ CallSync(c) \/ AddCommandNoMem(c) \/ ClientStep(c)
      PROVE  DataInv'
  <2>1. UNCHANGED <<hand, maxLen, bufLen>>
    BY <1>1 DEF CallAsync, CallSync, Call, AddCommand, AddCommandNoDaemon,
                AddCommandNoMem, ClientStep, Enqueue, RunOn, Waking, GetResult,
                dataVars
  <2>2. \A k \in Daemon : pc'[k] = pc[k] \/ (pc[k] = "asleep" /\ pc'[k] = "woken")
    BY <1>0, <1>1
       DEF CallAsync, CallSync, Call, AddCommand, AddCommandNoDaemon,
           AddCommandNoMem, ClientStep, Enqueue, RunOn, Waking, GetResult, Goto,
           Sleepers
  <2> QED
    BY <2>1, <2>2 DEF DataInv, GetPc
<1>2. ASSUME NEW d \in Daemon,
             \/ Start(d) \/ Interrupt(d) \/ IncreaseNoMem(d)
             \/ ResultsNoMem(d) \/ Exit(d) \/ ExitOther(d) \/ DaemonStep(d)
      PROVE  DataInv'
  <2>1. \A k \in Daemon \ {d} :
          /\ pc'[k] = pc[k] /\ hand'[k] = hand[k]
          /\ maxLen'[k] = maxLen[k] /\ bufLen'[k] = bufLen[k]
    <3>1. CASE Start(d) \/ Interrupt(d) \/ IncreaseNoMem(d) \/ ResultsNoMem(d)
      BY <1>0, <3>1 DEF Start, Interrupt, IncreaseNoMem, ResultsNoMem, Goto,
                        dataVars
    <3>2. CASE Exit(d) \/ ExitOther(d)
      BY <1>0, <3>2 DEF Exit, ExitOther, Ends, Goto
    <3>3. CASE DaemonStep(d)
      BY <1>0, <3>3
         DEF DaemonStep, CmdGet, Claim, ClaimState, CheckEmpty, GoOn, Block, Moved,
             Pop,
             Take, PopNone, CopyOut, PushBack, TooLong, Increase, Execute,
             ExecuteAsync, Results, Filled, AppendDone, Drain, DrainTo, Goto,
             dataVars
    <3> QED
      BY <1>2, <3>1, <3>2, <3>3
  <2>2. CASE pc[d] \in GetPc /\ pc'[d] \in GetPc
    <3>1. UNCHANGED <<maxLen, bufLen>>
      BY <1>0, <1>2, <2>2
         DEF Start, Interrupt, IncreaseNoMem, ResultsNoMem, Exit, ExitOther, Ends,
             DaemonStep, CmdGet, Claim, ClaimState, CheckEmpty, GoOn, Block, Moved,
             Pop,
             Take, PopNone, CopyOut, PushBack, TooLong, Increase, Execute,
             ExecuteAsync, Results, Filled, AppendDone, Drain, DrainTo, Goto,
             dataVars, GetPc
    <3> QED
      BY <2>1, <2>2, <3>1, DataOfOne DEF DataInv, GetPc
  <2>3. CASE CmdGet(d)
    <3>1. maxLen[d] <= bufLen[d] /\ UNCHANGED <<maxLen, bufLen, hand>>
          /\ pc'[d] \in GetPc
      BY <1>0, <2>3 DEF CmdGet, dataVars, Goto, GetPc
    <3> QED
      BY <2>1, <3>1, DataOfOne DEF GetPc
  <2>4. CASE CopyOut(d)
    <3>1. /\ pc[d] = "popped" /\ pc'[d] = "execute" /\ hand[d].len <= maxLen[d]
          /\ UNCHANGED <<maxLen, bufLen, hand>>
      BY <1>0, <2>4 DEF CopyOut, dataVars, Goto
    <3>2. hand[d].len \in Nat /\ maxLen[d] \in Nat /\ bufLen[d] \in Nat
      BY <1>0 DEF Entry
    <3>3. maxLen[d] <= bufLen[d]
      BY <3>1 DEF DataInv, GetPc
    <3>4. hand[d].len <= bufLen[d]
      BY <3>1, <3>2, <3>3
    <3> QED
      BY <2>1, <3>1, <3>4, DataOfOne DEF GetPc
  <2>5. CASE pc'[d] \notin GetPc \cup {"execute"}
    BY <2>1, <2>5, DataOfOne
  <2>6. \/ pc[d] \in GetPc /\ pc'[d] \in GetPc
        \/ CmdGet(d) \/ CopyOut(d)
        \/ pc'[d] \notin GetPc \cup {"execute"}
    <3>1. CASE \/ Start(d) \/ Interrupt(d) \/ IncreaseNoMem(d) \/ ResultsNoMem(d)
               \/ Exit(d) \/ ExitOther(d)
      BY <1>0, <3>1
         DEF Start, Interrupt, IncreaseNoMem, ResultsNoMem, Exit, ExitOther, Ends,
             Goto, GetPc
    <3>2. CASE DaemonStep(d)
      BY <1>0, <3>2
         DEF DaemonStep, Claim, ClaimState, CheckEmpty, GoOn, Block, Moved,
             Pop,
             Take, PopNone, PushBack, TooLong, Increase, Execute,
             ExecuteAsync, Results, Filled, AppendDone, Drain, DrainTo, Goto, GetPc
    <3> QED
      BY <1>2, <3>1, <3>2
  <2> QED
    BY <2>2, <2>3, <2>4, <2>5, <2>6
<1>3. CASE UNCHANGED vars
  BY <1>3 DEF vars, dataVars, DataInv
<1>4. CASE Available \/ Resched
  <2>1. /\ UNCHANGED <<hand, maxLen, bufLen>>
        /\ \A d \in Daemon : \/ pc'[d] = pc[d]
                             \/ /\ pc[d] \in {"asleep", "woken"}
                                /\ pc'[d] = "moving"
    BY <1>4, SchedFrame DEF dataVars
  <2> QED
    BY <2>1 DEF DataInv, GetPc
<1> QED
  BY <1>1, <1>2, <1>3, <1>4 DEF Next

\* LXAPID.EXE never executes a command whose data is longer than the memory it
\* has, although a failed increase leaves cbMaxDataLen too large: LX_ioctl_dmn
\* verifies the data packet before it copies anything.
THEOREM DataAlwaysFits == Spec => []DataFits
<1>1. Init => DataInv
  BY ConstAssumption DEF Init, DataInv, Thread, GetPc
<1>2. DataInv => DataFits
  BY DEF DataInv, DataFits
<1> QED
  BY <1>1, <1>2, TypeCorrect, DataStep, PTL DEF Spec

=============================================================================
