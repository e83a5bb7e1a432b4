------------------------------ MODULE LxDaemon ------------------------------
(***************************************************************************)
(* The command channel between LXAPI32.SYS and its user-mode daemon        *)
(* LXAPID.EXE: Dev32/lxdaemon.c on the driver side, the command loop of    *)
(* Daemon/lxapid.c on the daemon side.                                     *)
(*                                                                         *)
(* Driver threads (Client) call a wrapper such as LX_DOSOPEN, which packs  *)
(* its arguments and calls LX_dmn_add_command.  The command is queued on   *)
(* lx_waiting_command_list under a fresh handle; a daemon process fetches  *)
(* it with the CMDGET ioctl, executes it in user mode and posts the result *)
(* with CMDSETRESULTS on lx_done_command_list, where the caller, polling   *)
(* in LX_dmn_get_result, finds it by handle.  The answer's data is copied  *)
(* straight into the caller's buffer, whose address (cmdBlockID) travels   *)
(* with the command.                                                       *)
(*                                                                         *)
(* A step is a stretch of code between two points where another thread can *)
(* run: with Smp, any two of the accesses to shared state that no common   *)
(* lock joins; without it, only where the code blocks, sleeps in kmalloc   *)
(* or runs in user mode (see Turn).                                        *)
(*                                                                         *)
(* The daemon sleeps in LX_WaitOn (LxWaitOn has that list in full): in     *)
(* DevBlock, or, once the Linux scheduler is up, in a wait queue.  With    *)
(* Boot the driver may still be starting: LX_ReschedWaitOn then moves a    *)
(* daemon that sleeps in DevBlock over, and an LX_RunOn that comes while   *)
(* it moves is lost.                                                       *)
(***************************************************************************)
EXTENDS Naturals, Sequences

CONSTANTS
  Client,       \* driver threads that issue commands
  Daemon,       \* processes that run LXAPID.EXE
  NoBlk,        \* cmdBlockID 0: nobody waits for the command
  NoPid,        \* lx_daemon_pid 0: no daemon
  CmdLens,      \* cbCmdDataLen of the commands, in packets of 4096 bytes
  BufInit,      \* length of the daemon's data packet after main's first call
  HandleMod,    \* number of values of the handle counter (2^32 in the code)
  HandleLimit,  \* bound: no command is queued once the counter reaches it
  QueueBound,   \* bound: length of lx_waiting_command_list
  Faults,       \* what the environment may do: see the actions that use it
  Smp,          \* do driver threads run in parallel?
  Boot          \* is the Linux scheduler still down when the model starts?

ASSUME ConstAssumption ==
  /\ Client \cap Daemon = {}
  /\ NoBlk \notin Client
  /\ NoPid \notin Daemon
  /\ CmdLens \subseteq Nat
  /\ BufInit \in Nat
  /\ HandleMod \in Nat /\ HandleMod > 1
  /\ HandleLimit \in Nat
  /\ Smp \in BOOLEAN
  /\ Boot \in BOOLEAN

VARIABLES
  lx_daemon_pid, lx_daemon_state, lx_daemon_cmdhandle,
  waiting,   \* lx_waiting_command_list
  done,      \* lx_done_command_list: looked up by handle, its order is unused
  pc,        \* where each client and each daemon is
  blk,       \* the caller's cmdBlockID: itself, standing for its buffer, or NoBlk
  hcmd,      \* the caller's parameter packet: hcmd ...
  rc,        \* ... and rc
  how,       \* how the last LX_dmn_add_command of the caller returned
  buf,       \* the caller's buffer: 0 its request, h the answer to handle h
  hand,      \* the daemon's parameter packet, or pe while in the driver
  maxLen,    \* the daemon's param.cbMaxDataLen
  bufLen,    \* the size of the memory pData really points to
  executed,  \* history: the handles whose command the daemon has executed
  lx_current_available,
  indev,     \* the daemons whose last LX_WaitOn is without LXWF_ISWQ
  swallowed  \* history: the daemons that slept on through the last LX_RunOn

callVars == <<blk, hcmd, rc, how, buf>>
dataVars == <<maxLen, bufLen>>
idVars   == <<lx_daemon_pid, lx_daemon_state>>
waitVars == <<lx_current_available, indev, swallowed>>
vars == <<idVars, lx_daemon_cmdhandle, waiting, done, pc, callVars, hand,
          dataVars, executed, waitVars>>

Thread == Client \cup Daemon
Handle == 0 .. (HandleMod - 1)
RC     == {"zero", "error", "nochildren"}
Entry  == [hcmd : Handle, blk : Client \cup {NoBlk}, len : Nat, rc : RC]
NoEntry == [hcmd |-> 0, blk |-> NoBlk, len |-> 0, rc |-> "zero"]

\* lx_daemon_state: the values the code assigns.
Uninitialized == 0
Running == 2
Going == 3

ClientPc == {"idle", "alloc", "runon", "wait"}
DaemonPc == {"off", "user", "claim", "check", "block", "asleep", "moving",
             "woken", "pop", "popped", "increase", "execute", "results",
             "append", "drain"}

\* Inside the driver, between two points where the thread can lose the CPU.
NonBlocking == {"runon", "claim", "check", "block", "pop", "popped",
                "append", "drain"}

(***************************************************************************)
(* On one processor OS/2 does not preempt a thread inside the driver: it   *)
(* keeps the CPU until it blocks, sleeps in kmalloc or leaves ring 0.      *)
(***************************************************************************)
Turn(t) == Smp \/ \A u \in Thread \ {t} : pc[u] \notin NonBlocking

\* The same for a thread that is not one of Thread.
OtherTurn == Smp \/ \A u \in Thread : pc[u] \notin NonBlocking

Goto(t, l) == pc' = [pc EXCEPT ![t] = l]

Init ==
  /\ lx_daemon_pid = NoPid
  /\ lx_daemon_state = Uninitialized
  /\ lx_daemon_cmdhandle = 0
  /\ waiting = <<>>
  /\ done = {}
  /\ pc = [t \in Thread |-> IF t \in Client THEN "idle" ELSE "off"]
  /\ blk = [c \in Client |-> NoBlk]
  /\ hcmd = [c \in Client |-> 0]
  /\ rc = [c \in Client |-> "zero"]
  /\ how = [c \in Client |-> "none"]
  /\ buf = [c \in Client |-> 0]
  /\ hand = [d \in Daemon |-> NoEntry]
  /\ maxLen = [d \in Daemon |-> 0]
  /\ bufLen = [d \in Daemon |-> 0]
  /\ executed = {}
  /\ lx_current_available = ~Boot
  /\ indev = {}
  /\ swallowed = {}

-----------------------------------------------------------------------------
(* The callers: the wrappers and LX_dmn_add_command.                       *)

\* The parameter packet is an uninitialised local of the wrapper: where
\* LX_dmn_add_command returns early, its rc is whatever was on the stack.
Uninitialised(c) ==
  \E garbage \in {"zero", "error"} : rc' = [rc EXCEPT ![c] = garbage]

\* A wrapper fills its buffer and enters LX_dmn_add_command ...
AddCommand(c, b) ==
  /\ pc[c] = "idle"
  /\ Turn(c)
  /\ lx_daemon_pid # NoPid
  /\ blk' = [blk EXCEPT ![c] = b]
  /\ hcmd' = [hcmd EXCEPT ![c] = 0]
  /\ rc' = [rc EXCEPT ![c] = "zero"]
  /\ buf' = [buf EXCEPT ![c] = 0]
  /\ how' = [how EXCEPT ![c] = "none"]
  /\ Goto(c, "alloc")
  /\ UNCHANGED <<idVars, lx_daemon_cmdhandle, waiting, done, hand, dataVars,
                 executed, waitVars>>

\* ... which does nothing and returns 0 when there is no daemon.
AddCommandNoDaemon(c, b) ==
  /\ pc[c] = "idle"
  /\ Turn(c)
  /\ lx_daemon_pid = NoPid
  /\ blk' = [blk EXCEPT ![c] = b]
  /\ hcmd' = [hcmd EXCEPT ![c] = 0]
  /\ Uninitialised(c)
  /\ buf' = [buf EXCEPT ![c] = 0]
  /\ how' = [how EXCEPT ![c] = "nodaemon"]
  /\ UNCHANGED <<idVars, lx_daemon_cmdhandle, waiting, done, pc, hand,
                 dataVars, executed, waitVars>>

Call(c, b) == AddCommand(c, b) \/ AddCommandNoDaemon(c, b)

\* LX_DMN_LOG (with delayed_log) and LX_EADELETE: nobody waits.
CallAsync(c) == Call(c, NoBlk)

\* LX_DOSOPEN, LX_DOSREAD, LX_EAREADSTRING and all the others wait: their
\* buffer is cmdBlockID.
CallSync(c) == Call(c, c)

\* kmalloc fails: return -ENOMEM before the parameter packet is assigned.
AddCommandNoMem(c) ==
  /\ "oomAdd" \in Faults
  /\ pc[c] = "alloc"
  /\ Turn(c)
  /\ Goto(c, "idle")
  /\ how' = [how EXCEPT ![c] = "nomem"]
  /\ Uninitialised(c)
  /\ UNCHANGED <<idVars, lx_daemon_cmdhandle, waiting, done, blk, hcmd, buf,
                 hand, dataVars, executed, waitVars>>

\* The counter is incremented, and once more when that wraps it to 0.
NextHandle == IF lx_daemon_cmdhandle + 1 = HandleMod
              THEN 1 ELSE lx_daemon_cmdhandle + 1

\* Fill in the entry and, under lx_cmd_lock, give it a handle and queue it.
Enqueue(c) ==
  /\ pc[c] = "alloc"
  /\ Turn(c)
  /\ lx_daemon_cmdhandle < HandleLimit
  /\ Len(waiting) < QueueBound
  /\ lx_daemon_cmdhandle' = NextHandle
  /\ hcmd' = [hcmd EXCEPT ![c] = NextHandle]
  /\ rc' = [rc EXCEPT ![c] = "zero"]
  /\ \E l \in CmdLens :
       waiting' = Append(waiting,
                    [hcmd |-> NextHandle, blk |-> blk[c], len |-> l,
                     rc |-> "zero"])
  /\ executed' = executed \ {NextHandle}
  /\ Goto(c, "runon")
  /\ UNCHANGED <<idVars, done, blk, how, buf, hand, dataVars, waitVars>>

\* Wake the daemons of D, then wait for the result or return 0.  A daemon that
\* is being moved sleeps on: its LXWF_WAITCONTINUE takes the wakeup.
Waking(c, D) ==
  /\ pc[c] = "runon"
  /\ Turn(c)
  /\ pc' = [t \in Thread |->
              IF t = c THEN (IF blk[c] # NoBlk THEN "wait" ELSE "idle")
              ELSE IF t \in D THEN "woken" ELSE pc[t]]
  /\ how' = [how EXCEPT ![c] = IF blk[c] # NoBlk THEN "none" ELSE "queued"]
  /\ swallowed' = (swallowed \cup {d \in Daemon : pc[d] = "moving"}) \ D
  /\ UNCHANGED <<idVars, lx_daemon_cmdhandle, waiting, done, blk, hcmd, rc, buf,
                 hand, dataVars, executed, lx_current_available, indev>>

\* The daemons blocked in LX_get_next_command.
Sleepers == {d \in Daemon : pc[d] = "asleep"}

\* Mutants: nobody is woken, or only for the first command of a queue.
RunOnNobody(c) == Waking(c, {})
RunOnIfFirst(c) == Waking(c, IF Len(waiting) = 1 THEN Sleepers ELSE {})

\* LX_RunOn(&lx_waiting_command_list).
RunOn(c) == Waking(c, Sleepers)

\* Mutant: the caller gives up after one LX_WaitOn of a second.
GetResultGivesUp(c) ==
  /\ pc[c] = "wait"
  /\ Turn(c)
  /\ rc' = [rc EXCEPT ![c] = "error"]
  /\ Goto(c, "idle")
  /\ UNCHANGED <<idVars, lx_daemon_cmdhandle, waiting, done, blk, hcmd, how,
                 buf, hand, dataVars, executed, waitVars>>

(***************************************************************************)
(* One turn of LX_dmn_get_result that finds its handle.  Its LX_WaitOn     *)
(* ends after a second at the latest, so the lookup needs no wakeup; a     *)
(* turn that does not find the handle changes nothing.                     *)
(***************************************************************************)
GetResult(c) ==
  /\ pc[c] = "wait"
  /\ Turn(c)
  /\ \E e \in done :
       /\ e.hcmd = hcmd[c]
       /\ done' = done \ {e}
       /\ rc' = [rc EXCEPT ![c] = e.rc]
  /\ how' = [how EXCEPT ![c] = "answered"]
  /\ Goto(c, "idle")
  /\ UNCHANGED <<idVars, lx_daemon_cmdhandle, waiting, blk, hcmd, buf, hand,
                 dataVars, executed, waitVars>>

-----------------------------------------------------------------------------
(* The daemon: commandLoop of LXAPID.EXE and the ioctls it issues.         *)

\* main: allocate the data packet, open LXAPID$, enter commandLoop.
Start(d) ==
  /\ pc[d] = "off"
  /\ Turn(d)
  /\ Goto(d, "user")
  /\ maxLen' = [maxLen EXCEPT ![d] = BufInit]
  /\ bufLen' = [bufLen EXCEPT ![d] = BufInit]
  /\ UNCHANGED <<idVars, lx_daemon_cmdhandle, waiting, done, callVars, hand,
                 executed, waitVars>>

\* Mutant: the data packet is taken as it is.
CmdGetNoVerify(d) ==
  /\ pc[d] = "user"
  /\ Turn(d)
  /\ Goto(d, IF lx_daemon_pid = NoPid THEN "claim" ELSE "check")
  /\ UNCHANGED <<idVars, lx_daemon_cmdhandle, waiting, done, callVars, hand,
                 dataVars, executed, waitVars>>

(***************************************************************************)
(* CMDGET.  The ioctl first verifies the data packet over cbMaxDataLen     *)
(* bytes; when that is more than pData points to it fails, and commandLoop *)
(* goes round without effect.                                              *)
(***************************************************************************)
CmdGet(d) ==
  /\ pc[d] = "user"
  /\ Turn(d)
  /\ maxLen[d] <= bufLen[d]
  /\ Goto(d, IF lx_daemon_pid = NoPid THEN "claim" ELSE "check")
  /\ UNCHANGED <<idVars, lx_daemon_cmdhandle, waiting, done, callVars, hand,
                 dataVars, executed, waitVars>>

\* The first process to ask for commands becomes the daemon.
ClaimState(d, s) ==
  /\ pc[d] = "claim"
  /\ Turn(d)
  /\ lx_daemon_pid' = d
  /\ lx_daemon_state' = s
  /\ Goto(d, "check")
  /\ UNCHANGED <<lx_daemon_cmdhandle, waiting, done, callVars, hand, dataVars,
                 executed, waitVars>>

\* Mutant: the state is advanced by one, not set.
ClaimNext(d) == ClaimState(d, lx_daemon_state + 1)

\* lx_daemon_state only grows here: a restarted daemon leaves it at GOING.
Claim(d) == ClaimState(d, IF lx_daemon_state < Running THEN Running
                          ELSE lx_daemon_state)

\* LX_get_next_command: a daemon goes to sleep if asked to, or to the queue.
GoOn(d, sleep) ==
  /\ pc[d] = "check"
  /\ Turn(d)
  /\ Goto(d, IF sleep THEN "block" ELSE "pop")
  /\ UNCHANGED <<idVars, lx_daemon_cmdhandle, waiting, done, callVars, hand,
                 dataVars, executed, waitVars>>

\* Mutant: no test of the queue before LX_WaitOn.
CheckNothing(d) == GoOn(d, TRUE)

\* The test of the queue, which takes no lock ...
CheckEmpty(d) == GoOn(d, waiting = <<>>)

\* ... LX_WaitOn, for ever: from here on, and not before, a RunOn is seen ...
Block(d) ==
  /\ pc[d] = "block"
  /\ Turn(d)
  /\ indev' = IF lx_current_available THEN indev \ {d} ELSE indev \cup {d}
  /\ Goto(d, "asleep")
  /\ UNCHANGED <<idVars, lx_daemon_cmdhandle, waiting, done, callVars, hand,
                 dataVars, executed, lx_current_available, swallowed>>

\* ... which a signal to the process also ends, whether DevBlock is called by
\* LX_WaitOn or, under sleep_on, by LX_switch_to ...
Interrupt(d) ==
  /\ "signal" \in Faults
  /\ pc[d] = "asleep"
  /\ Turn(d)
  /\ Goto(d, "woken")
  /\ swallowed' = swallowed \ {d}
  /\ UNCHANGED <<idVars, lx_daemon_cmdhandle, waiting, done, callVars, hand,
                 dataVars, executed, lx_current_available, indev>>

\* ... or which goes on in the wait queue after the move: LX_WaitOn sets
\* LXWF_ISWQ, calls LX_enter_current and goes round its loop ...
Moved(d) ==
  /\ pc[d] = "moving"
  /\ Turn(d)
  /\ Goto(d, "asleep")
  /\ indev' = indev \ {d}
  /\ UNCHANGED <<idVars, lx_daemon_cmdhandle, waiting, done, callVars, hand,
                 dataVars, executed, lx_current_available, swallowed>>

\* ... and the second test, under lx_cmd_lock: take the first entry ...
Take(d, rest) ==
  /\ pc[d] \in {"woken", "pop"}
  /\ Turn(d)
  /\ waiting # <<>>
  /\ hand' = [hand EXCEPT ![d] = Head(waiting)]
  /\ waiting' = rest
  /\ Goto(d, "popped")
  /\ UNCHANGED <<idVars, lx_daemon_cmdhandle, done, callVars, dataVars,
                 executed, waitVars>>

\* Mutant: list_del is forgotten.
PopKeeps(d) == Take(d, waiting)

Pop(d) == Take(d, Tail(waiting))

\* ... or, if another daemon has been faster, start again.
PopNone(d) ==
  /\ pc[d] \in {"woken", "pop"}
  /\ Turn(d)
  /\ waiting = <<>>
  /\ Goto(d, "check")
  /\ UNCHANGED <<idVars, lx_daemon_cmdhandle, waiting, done, callVars, hand,
                 dataVars, executed, waitVars>>

\* Copy the command out to the daemon, with the data of the caller's buffer
\* or of the entry, and free the entry ...
CopyOut(d) ==
  /\ pc[d] = "popped"
  /\ Turn(d)
  /\ hand[d].len <= maxLen[d]
  /\ Goto(d, "execute")
  /\ UNCHANGED <<idVars, lx_daemon_cmdhandle, waiting, done, callVars, hand,
                 dataVars, executed, waitVars>>

\* ... or, if it is too long, answer LX_DMN_CMD_INC_DATAPACKETLEN ...
TooLong(d, queue) ==
  /\ pc[d] = "popped"
  /\ Turn(d)
  /\ hand[d].len > maxLen[d]
  /\ waiting' = queue
  /\ hand' = [hand EXCEPT ![d] = NoEntry]
  /\ Goto(d, "increase")
  /\ UNCHANGED <<idVars, lx_daemon_cmdhandle, done, callVars, dataVars,
                 executed, waitVars>>

\* Mutants: it is put back at the tail, or not at all.
PushBackTail(d) == TooLong(d, Append(waiting, hand[d]))
PushBackNot(d) == TooLong(d, waiting)

\* ... and put it back at the head.
PushBack(d) == TooLong(d, <<hand[d]>> \o waiting)

\* increaseDataPacketLength; the CMDSETRESULTS that follows has cmdBlockID 0.
Increase(d) ==
  /\ pc[d] = "increase"
  /\ Turn(d)
  /\ maxLen' = [maxLen EXCEPT ![d] = bufLen[d] + 1]
  /\ bufLen' = [bufLen EXCEPT ![d] = @ + 1]
  /\ Goto(d, "user")
  /\ UNCHANGED <<idVars, lx_daemon_cmdhandle, waiting, done, callVars, hand,
                 executed, waitVars>>

\* DosAllocMem fails: pData and dataLen are restored, cbMaxDataLen is not.
IncreaseNoMem(d) ==
  /\ "oomIncrease" \in Faults
  /\ pc[d] = "increase"
  /\ Turn(d)
  /\ maxLen' = [maxLen EXCEPT ![d] = bufLen[d] + 1]
  /\ Goto(d, "user")
  /\ UNCHANGED <<idVars, lx_daemon_cmdhandle, waiting, done, callVars, hand,
                 bufLen, executed, waitVars>>

\* executeNewCommand: the result goes into the parameter packet.
Execute(d) ==
  /\ pc[d] = "execute"
  /\ Turn(d)
  /\ hand[d].blk # NoBlk
  /\ executed' = executed \cup {hand[d].hcmd}
  /\ \E r \in {"zero", "error"} : hand' = [hand EXCEPT ![d].rc = r]
  /\ Goto(d, "results")
  /\ UNCHANGED <<idVars, lx_daemon_cmdhandle, waiting, done, callVars,
                 dataVars, waitVars>>

\* The same when nobody waits: CMDSETRESULTS ignores the result.
ExecuteAsync(d) ==
  /\ pc[d] = "execute"
  /\ Turn(d)
  /\ hand[d].blk = NoBlk
  /\ executed' = executed \cup {hand[d].hcmd}
  /\ hand' = [hand EXCEPT ![d] = NoEntry]
  /\ Goto(d, "user")
  /\ UNCHANGED <<idVars, lx_daemon_cmdhandle, waiting, done, callVars,
                 dataVars, waitVars>>

\* CMDSETRESULTS, LX_dmn_add_done_command: kmalloc fails, the result is lost.
ResultsNoMem(d) ==
  /\ "oomDone" \in Faults
  /\ pc[d] = "results"
  /\ Turn(d)
  /\ hand' = [hand EXCEPT ![d] = NoEntry]
  /\ Goto(d, "user")
  /\ UNCHANGED <<idVars, lx_daemon_cmdhandle, waiting, done, callVars,
                 dataVars, executed, waitVars>>

\* LX_dmn_add_done_command: the entry is made and filled in.
Filled(d, data) ==
  /\ pc[d] = "results"
  /\ Turn(d)
  /\ buf' = data
  /\ Goto(d, "append")
  /\ UNCHANGED <<idVars, lx_daemon_cmdhandle, waiting, done, blk, hcmd, rc,
                 how, hand, dataVars, executed, waitVars>>

\* Mutant: no data is copied.
ResultsNoCopy(d) == Filled(d, buf)

\* The answer is copied into the caller's buffer before lx_cmd_lock is taken ...
Results(d) == Filled(d, [buf EXCEPT ![hand[d].blk] = hand[d].hcmd])

\* ... and then the entry is put on the done list.
AppendDone(d) ==
  /\ pc[d] = "append"
  /\ Turn(d)
  /\ done' = done \cup {hand[d]}
  /\ hand' = [hand EXCEPT ![d] = NoEntry]
  /\ Goto(d, "user")
  /\ UNCHANGED <<idVars, lx_daemon_cmdhandle, waiting, callVars, dataVars,
                 executed, waitVars>>

(***************************************************************************)
(* A process that runs LXAPID.EXE ends, and the system closes LXAPID$ for  *)
(* it: LX_StratClose.  It ends only in user mode, before, while or after   *)
(* it executes the command it has, if any, which is lost with it.          *)
(***************************************************************************)
Ends(d) ==
  /\ "kill" \in Faults
  /\ pc[d] \in {"user", "increase", "execute", "results"}
  /\ Turn(d)
  /\ hand' = [hand EXCEPT ![d] = NoEntry]
  /\ maxLen' = [maxLen EXCEPT ![d] = 0]
  /\ bufLen' = [bufLen EXCEPT ![d] = 0]
  /\ UNCHANGED <<lx_daemon_cmdhandle, waiting, done, callVars, executed,
                 waitVars>>

\* If it is the daemon, LX_StratClose enters LX_daemon_closed ...
Exit(d) ==
  /\ Ends(d)
  /\ lx_daemon_pid = d
  /\ lx_daemon_pid' = NoPid
  /\ lx_daemon_state' = Going
  /\ Goto(d, "drain")

\* ... and if it is not, nothing else happens.
ExitOther(d) ==
  /\ Ends(d)
  /\ lx_daemon_pid # d
  /\ Goto(d, "off")
  /\ UNCHANGED idVars

\* Mutants: the queued commands are freed too; the results stay as they are.
ClosedForgets == {[e EXCEPT !.rc = "nochildren"] : e \in done}
ClosedKeepsRc ==
  done \cup {waiting[i] : i \in {j \in DOMAIN waiting : waiting[j].blk # NoBlk}}

\* What LX_daemon_closed leaves on the done list: the commands somebody waits
\* for join it, the others are freed, and every result becomes an error.
Closed ==
  LET moved == {i \in DOMAIN waiting : waiting[i].blk # NoBlk}
  IN  {[e EXCEPT !.rc = "nochildren"] :
         e \in done \cup {waiting[i] : i \in moved}}

\* The rest of LX_daemon_closed, under lx_cmd_lock.
DrainTo(d, queue) ==
  /\ pc[d] = "drain"
  /\ Turn(d)
  /\ done' = Closed
  /\ waiting' = queue
  /\ Goto(d, "off")
  /\ UNCHANGED <<idVars, lx_daemon_cmdhandle, callVars, hand, dataVars,
                 executed, waitVars>>

\* Mutant: the commands are added to the done list and stay on the queue.
DrainKeeps(d) == DrainTo(d, waiting)

Drain(d) == DrainTo(d, <<>>)

-----------------------------------------------------------------------------
(* The Linux scheduler comes up.                                           *)

\* The init process enters the task list: atomic_set(&lx_current_available,1).
Available ==
  /\ ~lx_current_available
  /\ OtherTurn
  /\ lx_current_available' = TRUE
  /\ UNCHANGED <<idVars, lx_daemon_cmdhandle, waiting, done, pc, callVars, hand,
                 dataVars, executed, indev, swallowed>>

\* The daemons in an LX_WaitOn that has no LXWF_ISWQ, woken from it or not.
Behind == {d \in Daemon : pc[d] \in {"asleep", "woken"} /\ d \in indev}

(***************************************************************************)
(* A walk of LX_ReschedWaitOn, which repeats it while it finds somebody:   *)
(* every entry that has not moved gets LXWF_WAITCONTINUE and DevRun.  A    *)
(* thread that an LX_RunOn has readied, but that has not had the CPU yet,  *)
(* is still on the list and gets the mark as well: it will sleep on.       *)
(***************************************************************************)
Resched ==
  /\ lx_current_available
  /\ OtherTurn
  /\ Behind # {}
  /\ pc' = [t \in Thread |-> IF t \in Behind THEN "moving" ELSE pc[t]]
  /\ swallowed' = swallowed \cup {d \in Behind : pc[d] = "woken"}
  /\ UNCHANGED <<idVars, lx_daemon_cmdhandle, waiting, done, callVars, hand,
                 dataVars, executed, lx_current_available, indev>>

-----------------------------------------------------------------------------
\* What a client does once it is inside LX_dmn_add_command.
ClientStep(c) == Enqueue(c) \/ RunOn(c) \/ GetResult(c)

\* What a daemon does of its own accord.
DaemonStep(d) ==
  \/ CmdGet(d) \/ Claim(d) \/ CheckEmpty(d) \/ Block(d) \/ Moved(d)
  \/ Pop(d) \/ PopNone(d) \/ CopyOut(d) \/ PushBack(d) \/ Increase(d)
  \/ Execute(d) \/ ExecuteAsync(d) \/ Results(d) \/ AppendDone(d) \/ Drain(d)

Next ==
  \/ \E c \in Client : CallAsync(c) \/ CallSync(c) \/ AddCommandNoMem(c)
                       \/ ClientStep(c)
  \/ \E d \in Daemon : Start(d) \/ Interrupt(d) \/ IncreaseNoMem(d)
                       \/ ResultsNoMem(d) \/ Exit(d) \/ ExitOther(d)
                       \/ DaemonStep(d)
  \/ Available
  \/ Resched

Spec == Init /\ [][Next]_vars

(***************************************************************************)
(* The scheduler runs every thread that can run, and a client that waits   *)
(* looks at the done list at least once a second.  Nothing makes a client  *)
(* call, a daemon start or a fault happen.                                 *)
(***************************************************************************)
Fairness == /\ \A c \in Client : WF_vars(ClientStep(c))
            /\ \A d \in Daemon : WF_vars(DaemonStep(d))

FairSpec == Spec /\ Fairness
-----------------------------------------------------------------------------
(* Properties.                                                             *)

\* The caller is inside LX_dmn_add_command and its buffer is on loan.
Pending(c) == pc[c] = "wait" \/ (pc[c] = "runon" /\ blk[c] # NoBlk)

Holds(d) == hand[d].hcmd # 0

\* The variables stay within their types.
TypeOK ==
  /\ lx_daemon_pid \in Daemon \cup {NoPid}
  /\ lx_daemon_state \in {Uninitialized, Running, Going}
  /\ lx_daemon_cmdhandle \in Handle
  /\ waiting \in Seq(Entry)
  /\ done \subseteq Entry
  /\ pc \in [Thread -> ClientPc \cup DaemonPc]
  /\ \A c \in Client : pc[c] \in ClientPc
  /\ \A d \in Daemon : pc[d] \in DaemonPc
  /\ blk \in [Client -> Client \cup {NoBlk}]
  /\ hcmd \in [Client -> Handle]
  /\ rc \in [Client -> RC]
  /\ how \in [Client -> {"none", "nodaemon", "nomem", "queued", "answered"}]
  /\ buf \in [Client -> Handle]
  /\ hand \in [Daemon -> Entry]
  /\ maxLen \in [Daemon -> Nat]
  /\ bufLen \in [Daemon -> Nat]
  /\ executed \subseteq Handle
  /\ lx_current_available \in BOOLEAN
  /\ indev \subseteq Daemon
  /\ swallowed \subseteq Daemon

\* "unique handle" (Include/lxdaemon.h): no two outstanding commands, queued,
\* in a daemon's hands or done, have the same hcmd, and no two callers wait for
\* the same one.  LX_dmn_get_result takes any result with its handle.
QueueUnique ==
  /\ \A i, j \in DOMAIN waiting : waiting[i].hcmd = waiting[j].hcmd => i = j
  /\ \A i \in DOMAIN waiting, d \in Daemon : waiting[i].hcmd # hand[d].hcmd
  /\ \A i \in DOMAIN waiting, e \in done : waiting[i].hcmd # e.hcmd
OthersUnique ==
  /\ \A d1, d2 \in Daemon :
       Holds(d1) /\ hand[d1].hcmd = hand[d2].hcmd => d1 = d2
  /\ \A d \in Daemon, e \in done : hand[d].hcmd # e.hcmd
  /\ \A e, f \in done : e.hcmd = f.hcmd => e = f
CallersUnique ==
  \A c1, c2 \in Client :
    Pending(c1) /\ Pending(c2) /\ hcmd[c1] = hcmd[c2] => c1 = c2
HandleUnique == QueueUnique /\ OthersUnique /\ CallersUnique

\* A command that names a caller's buffer is the one that caller waits for:
\* the daemon never reads or writes the buffer of a call that has returned.
Owned(e) == e.blk # NoBlk => Pending(e.blk) /\ hcmd[e.blk] = e.hcmd
BufferOwner ==
  /\ \A i \in DOMAIN waiting : Owned(waiting[i])
  /\ \A d \in Daemon : Owned(hand[d])
  /\ \A e \in done : Owned(e) /\ e.blk # NoBlk

\* A caller that was answered by the daemon finds the answer to its own command
\* in its buffer: the copy of LX_dmn_add_done_command is complete by then.
ReplyIsOwn ==
  \A c \in Client :
    pc[c] = "idle" /\ how[c] = "answered" /\ rc[c] # "nochildren"
      => buf[c] = hcmd[c]

\* A result that does not say the daemon has gone stands for an execution.
AnsweredMeansExecuted ==
  \A c \in Client :
    pc[c] = "idle" /\ how[c] = "answered" /\ rc[c] # "nochildren"
      => hcmd[c] \in executed

\* A command is executed at most once, put back or not, whichever daemon takes
\* it: what is still to be executed has not been.
AtMostOnce ==
  /\ \A i \in DOMAIN waiting : waiting[i].hcmd \notin executed
  /\ \A d \in Daemon :
       pc[d] \in {"popped", "execute"} => hand[d].hcmd \notin executed

\* The data of the command the daemon executes fits the memory it has, also
\* after a failed increase of the data packet.
DataFits == \A d \in Daemon : pc[d] = "execute" => hand[d].len <= bufLen[d]

\* Between its call and its return, and at no other time, a caller's buffer
\* changes into the answer to the command it waits for.
NoStrayWrite ==
  [][\A c \in Client : buf'[c] \notin {0, buf[c]}
                         => Pending(c) /\ buf'[c] = hcmd[c]]_vars

\* One daemon executes commands in the order in which they got their handles,
\* although LX_ioctl_dmn puts a command back and queues are dropped on close.
ExecutedInOrder ==
  [][\A h \in executed' \ executed, g \in executed : g < h]_executed

\* A caller that waits has its command in a list or in a daemon's hands: the
\* poll loop of LX_dmn_get_result has something to find.
Accounted(c) ==
  \/ \E i \in DOMAIN waiting : waiting[i].hcmd = hcmd[c]
  \/ \E d \in Daemon : hand[d].hcmd = hcmd[c]
  \/ \E e \in done : e.hcmd = hcmd[c]
NoReplyLost == \A c \in Client : Pending(c) => Accounted(c)

\* On one processor a daemon sleeps on a command only if LX_ReschedWaitOn has
\* taken its wakeup, which it cannot do again: the wait is in the wait queue by
\* then.  No LX_RunOn comes between the test of LX_get_next_command and its
\* LX_WaitOn.
NoMissedWakeup ==
  \A d \in Daemon : pc[d] = "asleep" =>
    \/ waiting = <<>>
    \/ \E c \in Client : pc[c] = "runon"
    \/ d \in swallowed \ indev

\* A daemon lies asleep on a command whose wakeup the move has taken.
Stranded ==
  waiting # <<>> /\ \E d \in Daemon : pc[d] = "asleep" /\ d \in swallowed

\* Every call returns, its command executed and its result picked up, unless
\* the move to the wait queues has taken the daemon's wakeup; LX_dmn_get_result
\* then polls until somebody else queues a command.
EveryCallReturns ==
  \A c \in Client : pc[c] = "wait" ~> (pc[c] = "idle" \/ Stranded)

\* LX_daemon_closed leaves nobody behind on the queue: a caller whose command
\* is still queued when the daemon goes gets its (error) result.
CloseAnswersQueued ==
  \A c \in Client :
    (/\ pc[c] = "wait"
     /\ \E i \in DOMAIN waiting : waiting[i].blk = c
     /\ \E d \in Daemon : pc[d] = "drain") ~> pc[c] = "idle"

\* A daemon that sleeps on a command, because on several processors the LX_RunOn
\* came between the test and the LX_WaitOn of LX_get_next_command, or because
\* the move to the wait queues has taken it, serves its caller when the next
\* command is queued, if it lives on and that wakeup is not taken by the move.
NextCommandRecovers ==
  \A c1, c2 \in Client, d \in Daemon :
    (/\ pc[c1] = "wait" /\ pc[c2] = "runon" /\ pc[d] = "asleep"
     /\ \E i \in DOMAIN waiting : waiting[i].blk = c1)
      ~> (pc[c1] = "idle" \/ pc[d] \in {"drain", "moving"})
=============================================================================
