------------------------ MODULE LxDaemonReplyProofs ------------------------
(***************************************************************************)
(* Proofs about the answers of the command channel: a command is executed  *)
(* at most once and by one daemon in order, a caller that returns with a   *)
(* result has the answer to its own command, no command that a caller      *)
(* waits for disappears while results can be stored and no daemon is       *)
(* killed, and on one processor the daemon does not sleep on a queued      *)
(* command.  They rest on the invariant IInv of LxDaemonProofs, which says *)
(* whose buffer a command names.  The last part proves that the command    *)
(* channel implements LxCall.                                              *)
(***************************************************************************)
EXTENDS LxDaemonProofs, LxDaemonCall

\* Only handles that were given out have been executed.
ExecFresh == \A h \in executed : h <= lx_daemon_cmdhandle

\* A daemon that posts a result has executed the command, and its answer is in
\* the caller's buffer before the entry goes on the done list.
Posting ==
  \A d \in Daemon :
    /\ pc[d] \in {"results", "append"} => hand[d].hcmd \in executed
    /\ pc[d] = "append" => buf[hand[d].blk] = hand[d].hcmd

\* So it is for the results on the done list that the daemon has posted.
Posted ==
  \A e \in done :
    e.rc # "nochildren" => e.hcmd \in executed /\ buf[e.blk] = e.hcmd

\* The caller has returned with a result of the daemon.
Replied(c) == pc[c] = "idle" /\ how[c] = "answered" /\ rc[c] # "nochildren"
Replies ==
  \A c \in Client : Replied(c) => hcmd[c] \in executed /\ buf[c] = hcmd[c]

\* The invariant about answers, inductive together with IInv.
ExecInv == ExecFresh /\ AtMostOnce /\ Posting /\ Posted /\ Replies

\* A daemon that moves: it takes the command it has to its execution, or it has
\* none, or none any more.
LEMMA DaemonCalm ==
  ASSUME TypeOK, ExecInv, NEW d \in Daemon, NEW l \in DaemonPc, Goto(d, l),
         UNCHANGED <<lx_daemon_cmdhandle, waiting, done, hcmd, rc, how, buf,
                     executed>>,
         \A k \in Daemon \ {d} : hand'[k] = hand[k],
         l \in HandPc => /\ l = "execute" /\ pc[d] = "popped"
                         /\ hand'[d] = hand[d]
  PROVE  ExecInv'
<1>1. \A k \in Thread : pc'[k] = IF k = d THEN l ELSE pc[k]
  BY DEF TypeOK, Goto
<1>2. ExecFresh' /\ Posted'
  BY DEF ExecInv, ExecFresh, Posted
<1>3. AtMostOnce'
  BY <1>1 DEF ExecInv, AtMostOnce, Thread, HandPc
<1>4. Posting'
  BY <1>1 DEF ExecInv, Posting, Thread, HandPc
<1>5. \A c \in Client : Replied(c)' <=> Replied(c)
  BY <1>1, ConstAssumption DEF Replied, Thread
<1>6. Replies'
  BY <1>5 DEF ExecInv, Replies
<1> QED
  BY <1>2, <1>3, <1>4, <1>6 DEF ExecInv

\* The daemon's and the environment's actions of which DaemonCalm speaks.
LEMMA CalmActions ==
  ASSUME TypeOK, ExecInv, NEW d \in Daemon,
         \/ Start(d) \/ CmdGet(d) \/ Claim(d) \/ CheckEmpty(d) \/ Block(d)
         \/ Interrupt(d) \/ Moved(d) \/ PopNone(d) \/ CopyOut(d) \/ Increase(d)
         \/ IncreaseNoMem(d) \/ ResultsNoMem(d) \/ Exit(d) \/ ExitOther(d)
  PROVE  ExecInv'
<1> USE DaemonCalm DEF callVars, DaemonPc, HandPc
<1>a. hand \in [Daemon -> Entry]
  BY DEF TypeOK
<1>1. CASE Start(d)
  BY <1>1 DEF Start
<1>2. CASE CmdGet(d)
  BY <1>2 DEF CmdGet
<1>3. CASE Claim(d)
  BY <1>3 DEF Claim, ClaimState
<1>4. CASE CheckEmpty(d)
  BY <1>4 DEF CheckEmpty, GoOn
<1>5. CASE Block(d)
  BY <1>5 DEF Block
<1>6. CASE Interrupt(d)
  BY <1>6 DEF Interrupt
<1>6a. CASE Moved(d)
  BY <1>6a DEF Moved
<1>7. CASE PopNone(d)
  BY <1>7 DEF PopNone
<1>8. CASE CopyOut(d)
  BY <1>8 DEF CopyOut
<1>9. CASE Increase(d)
  BY <1>9 DEF Increase
<1>10. CASE IncreaseNoMem(d)
  BY <1>10 DEF IncreaseNoMem
<1>11. CASE ResultsNoMem(d)
  BY <1>a, <1>11 DEF ResultsNoMem
<1>12. CASE Exit(d)
  BY <1>a, <1>12 DEF Exit, Ends
<1>13. CASE ExitOther(d)
  BY <1>a, <1>13 DEF ExitOther, Ends
<1> QED
  BY <1>1, <1>2, <1>3, <1>4, <1>5, <1>6, <1>6a, <1>7, <1>8, <1>9, <1>10, <1>11,
     <1>12, <1>13

\* A caller inside LX_dmn_add_command that queues nothing.
LEMMA CallerCalm ==
  ASSUME IInv, ExecInv, NEW c \in Client,
         \/ \E b \in {c, NoBlk} : AddCommand(c, b) \/ AddCommandNoDaemon(c, b)
         \/ AddCommandNoMem(c)
         \/ RunOn(c)
  PROVE  ExecInv'
<1> USE ConstAssumption
<1>a. /\ pc \in [Thread -> ClientPc \cup DaemonPc]
      /\ hcmd \in [Client -> Handle] /\ buf \in [Client -> Handle]
      /\ how \in [Client -> {"none", "nodaemon", "nomem", "queued", "answered"}]
      /\ rc \in [Client -> RC]
  BY DEF IInv, TypeOK
<1>b. UNCHANGED <<lx_daemon_cmdhandle, waiting, done, hand, executed>>
  BY DEF AddCommand, AddCommandNoDaemon, AddCommandNoMem, RunOn, Waking,
         dataVars, idVars
<1>c. \A k \in Daemon : pc'[k] = pc[k] \/ pc'[k] = "woken"
  BY <1>a DEF AddCommand, AddCommandNoDaemon, AddCommandNoMem, RunOn, Waking,
              Goto, Thread
<1>d. \A k \in Client \ {c} : buf'[k] = buf[k] /\ hcmd'[k] = hcmd[k]
  BY <1>a DEF AddCommand, AddCommandNoDaemon, AddCommandNoMem, RunOn, Waking
<1>e. Pending(c) => buf'[c] = buf[c]
  BY <1>a DEF AddCommand, AddCommandNoDaemon, AddCommandNoMem, RunOn, Waking,
              Pending
<1>f. ~Replied(c)'
  BY <1>a DEF AddCommand, AddCommandNoDaemon, AddCommandNoMem, RunOn, Waking,
              Replied, Goto, Thread
<1>g. \A k \in Client \ {c} : Replied(k)' <=> Replied(k)
  <2>1. CASE \E b \in {c, NoBlk} : AddCommand(c, b)
    BY <1>a, <2>1 DEF AddCommand, Replied, Goto, Thread
  <2>2. CASE \E b \in {c, NoBlk} : AddCommandNoDaemon(c, b)
    BY <1>a, <2>2 DEF AddCommandNoDaemon, Uninitialised, Replied
  <2>3. CASE AddCommandNoMem(c)
    BY <1>a, <2>3 DEF AddCommandNoMem, Uninitialised, Replied, Goto, Thread
  <2>4. CASE RunOn(c)
    BY <1>a, <2>4 DEF RunOn, Waking, Sleepers, Replied, Thread
  <2> QED
    BY <2>1, <2>2, <2>3, <2>4
<1>h. ASSUME NEW e \in Entry, e.blk # NoBlk, Owned(e)
      PROVE  buf'[e.blk] = buf[e.blk]
  BY <1>d, <1>e, <1>h, EntryFields DEF Owned
<1>1. ExecFresh'
  BY <1>b DEF ExecInv, ExecFresh
<1>2. AtMostOnce'
  BY <1>b, <1>c DEF ExecInv, AtMostOnce
<1>3. Posting'
  <2>1. \A k \in Daemon : pc[k] = "append" =>
          buf'[hand[k].blk] = buf[hand[k].blk]
    BY <1>h, AllEntries DEF IInv, BufferOwner, HandWf
  <2> QED
    BY <1>b, <1>c, <2>1 DEF ExecInv, Posting
<1>4. Posted'
  BY <1>b, <1>h, AllEntries DEF IInv, BufferOwner, ExecInv, Posted
<1>5. Replies'
  BY <1>b, <1>d, <1>f, <1>g DEF ExecInv, Replies
<1> QED
  BY <1>1, <1>2, <1>3, <1>4, <1>5 DEF ExecInv

\* A new command gets a handle that was never executed; nobody else's is lost.
LEMMA EnqueueExec ==
  ASSUME HandleLimit < HandleMod, IInv, ExecInv, NEW c \in Client, Enqueue(c)
  PROVE  ExecInv'
<1> USE ConstAssumption
<1>a. /\ pc \in [Thread -> ClientPc \cup DaemonPc]
      /\ hcmd \in [Client -> Handle] /\ rc \in [Client -> RC]
      /\ lx_daemon_cmdhandle \in Nat
      /\ waiting \in Seq(Entry)
      /\ executed \subseteq Nat
  BY DEF IInv, TypeOK, Handle
<1>b. NextHandle = lx_daemon_cmdhandle + 1
  BY <1>a DEF Enqueue, NextHandle
<1>c. UNCHANGED <<done, hand, how, buf>>
      /\ lx_daemon_cmdhandle' = lx_daemon_cmdhandle + 1
  BY <1>b DEF Enqueue
<1>d. executed' = executed
  <2>1. lx_daemon_cmdhandle + 1 \notin executed
    BY <1>a DEF ExecInv, ExecFresh
  <2> QED
    BY <1>b, <2>1 DEF Enqueue
<1>e. \A i \in DOMAIN waiting' : \/ i \in DOMAIN waiting /\ waiting'[i] = waiting[i]
                                 \/ waiting'[i].hcmd = lx_daemon_cmdhandle + 1
  BY <1>a, <1>b DEF Enqueue
<1>f. \A k \in Daemon : pc'[k] = pc[k]
  BY <1>a DEF Enqueue, Goto, Thread
<1>g. ~Replied(c)' /\ \A k \in Client \ {c} : Replied(k)' <=> Replied(k)
  BY <1>a DEF Enqueue, Goto, Thread, Replied
<1>h. \A k \in Client \ {c} : hcmd'[k] = hcmd[k]
  BY <1>a DEF Enqueue
<1>1. ExecFresh'
  BY <1>a, <1>c, <1>d DEF ExecInv, ExecFresh
<1>2. AtMostOnce'
  <2>1. \A i \in DOMAIN waiting' : waiting'[i].hcmd \notin executed
    BY <1>a, <1>e DEF ExecInv, AtMostOnce, ExecFresh
  <2> QED
    BY <1>c, <1>d, <1>f, <2>1 DEF ExecInv, AtMostOnce
<1>3. Posting' /\ Posted'
  BY <1>c, <1>d, <1>f DEF ExecInv, Posting, Posted
<1>4. Replies'
  BY <1>c, <1>d, <1>g, <1>h DEF ExecInv, Replies
<1> QED
  BY <1>1, <1>2, <1>3, <1>4 DEF ExecInv

\* The result a caller takes off the done list is its own.
LEMMA ReturnExec ==
  ASSUME IInv, ExecInv, NEW c \in Client, GetResult(c)
  PROVE  ExecInv'
<1> USE ConstAssumption
<1>a. /\ pc \in [Thread -> ClientPc \cup DaemonPc] /\ rc \in [Client -> RC]
      /\ how \in [Client -> {"none", "nodaemon", "nomem", "queued", "answered"}]
  BY DEF IInv, TypeOK
<1>b. PICK e \in done : /\ e.hcmd = hcmd[c] /\ done' = done \ {e}
                        /\ rc' = [rc EXCEPT ![c] = e.rc]
  BY DEF GetResult
<1>c. UNCHANGED <<lx_daemon_cmdhandle, waiting, hand, hcmd, buf, executed>>
  BY DEF GetResult
<1>d. \A k \in Daemon : pc'[k] = pc[k]
  BY <1>a DEF GetResult, Goto, Thread
<1>e. e.blk = c
  <2>1. Pending(c)
    BY DEF GetResult, Pending
  <2>2. e.blk \in Client /\ Pending(e.blk) /\ hcmd[e.blk] = e.hcmd
    BY AllEntries, EntryFields DEF IInv, BufferOwner, Owned
  <2> QED
    BY <1>b, <2>1, <2>2 DEF IInv, HandleUnique, CallersUnique
<1>f. \A k \in Client \ {c} : Replied(k)' <=> Replied(k)
  BY <1>a, <1>b DEF GetResult, Replied, Goto, Thread
<1>g. Replied(c)' => e.rc # "nochildren"
  BY <1>a, <1>b DEF Replied
<1>1. ExecFresh' /\ AtMostOnce' /\ Posting'
  BY <1>c, <1>d DEF ExecInv, ExecFresh, AtMostOnce, Posting
<1>2. Posted'
  BY <1>b, <1>c DEF ExecInv, Posted
<1>3. Replies'
  BY <1>b, <1>c, <1>e, <1>f, <1>g DEF ExecInv, Posted, Replies
<1> QED
  BY <1>1, <1>2, <1>3 DEF ExecInv

\* A command taken off the queue, or put back, has not been executed.
LEMMA QueueExec ==
  ASSUME IInv, ExecInv, NEW d \in Daemon, Pop(d) \/ PushBack(d)
  PROVE  ExecInv'
<1> USE ConstAssumption
<1>a. /\ pc \in [Thread -> ClientPc \cup DaemonPc]
      /\ hand \in [Daemon -> Entry]
      /\ waiting \in Seq(Entry)
  BY DEF IInv, TypeOK
<1>b. UNCHANGED <<lx_daemon_cmdhandle, done, hcmd, rc, how, buf, executed>>
  BY DEF Pop, Take, PushBack, TooLong, callVars
<1>c. PICK l \in {"popped", "increase"} :
        \A k \in Thread : pc'[k] = IF k = d THEN l ELSE pc[k]
  BY <1>a DEF Pop, Take, PushBack, TooLong, Goto
<1>d. \A k \in Daemon \ {d} : hand'[k] = hand[k]
  BY <1>a DEF Pop, Take, PushBack, TooLong
<1>e. \A k \in Client : Replied(k)' <=> Replied(k)
  BY <1>b, <1>c DEF Replied, Thread
<1>1. ExecFresh' /\ Posted' /\ Replies'
  BY <1>b, <1>e DEF ExecInv, ExecFresh, Posted, Replies
<1>2. Posting'
  BY <1>b, <1>c, <1>d DEF ExecInv, Posting, Thread
<1>3. AtMostOnce'
  <2>1. CASE Pop(d)
    <3>1. /\ 1 \in DOMAIN waiting /\ hand'[d] = waiting[1]
          /\ \A i \in DOMAIN waiting' :
               i + 1 \in DOMAIN waiting /\ waiting'[i] = waiting[i + 1]
      BY <1>a, <2>1 DEF Pop, Take
    <3> QED
      BY <1>b, <1>c, <1>d, <3>1 DEF ExecInv, AtMostOnce, Thread
  <2>2. CASE PushBack(d)
    <3>1. /\ waiting'[1] = hand[d] /\ pc[d] = "popped" /\ pc'[d] = "increase"
          /\ \A i \in DOMAIN waiting' \ {1} :
               i - 1 \in DOMAIN waiting /\ waiting'[i] = waiting[i - 1]
      BY <1>a, <2>2 DEF PushBack, TooLong, Goto, Thread
    <3>2. \A i \in DOMAIN waiting' : waiting'[i].hcmd \notin executed
      BY <3>1 DEF ExecInv, AtMostOnce
    <3> QED
      BY <1>b, <1>c, <1>d, <3>1, <3>2 DEF ExecInv, AtMostOnce, Thread
  <2> QED
    BY <2>1, <2>2
<1> QED
  BY <1>1, <1>2, <1>3 DEF ExecInv

\* An execution is the first of its command: no other place holds its handle.
LEMMA ExecuteExec ==
  ASSUME IInv, ExecInv, NEW d \in Daemon, Execute(d) \/ ExecuteAsync(d)
  PROVE  ExecInv'
<1> USE ConstAssumption
<1>a. /\ pc \in [Thread -> ClientPc \cup DaemonPc] /\ TypeOK
      /\ hand \in [Daemon -> Entry]
  BY DEF IInv, TypeOK
<1>b. /\ UNCHANGED <<lx_daemon_cmdhandle, waiting, done, hcmd, rc, how, buf>>
      /\ executed' = executed \cup {hand[d].hcmd}
      /\ pc[d] = "execute"
  BY DEF Execute, ExecuteAsync, callVars
<1>c. PICK l \in {"results", "user"} :
        /\ \A k \in Thread : pc'[k] = IF k = d THEN l ELSE pc[k]
        /\ l = "results" => hand'[d].hcmd = hand[d].hcmd
  BY <1>a, ExecuteKeeps DEF Execute, ExecuteAsync, Goto
<1>d. \A k \in Daemon \ {d} : hand'[k] = hand[k]
  BY <1>a, ExecuteKeeps DEF ExecuteAsync
<1>e. \A k \in Client : Replied(k)' <=> Replied(k)
  BY <1>b, <1>c DEF Replied, Thread
<1>f. Holds(d)
  BY <1>b DEF IInv, HandWf, HandPc
<1>1. ExecFresh'
  BY <1>b DEF IInv, Fresh, ExecInv, ExecFresh
<1>2. AtMostOnce'
  <2>1. \A i \in DOMAIN waiting : waiting[i].hcmd \notin executed'
    BY <1>b DEF IInv, HandleUnique, QueueUnique, ExecInv, AtMostOnce
  <2>2. ASSUME NEW k \in Daemon, pc'[k] \in {"popped", "execute"}
        PROVE  hand'[k].hcmd \notin executed'
    <3>1. k # d /\ pc[k] \in {"popped", "execute"} /\ hand'[k] = hand[k]
      BY <1>c, <1>d, <2>2 DEF Thread
    <3>2. hand[k].hcmd # hand[d].hcmd
      BY <1>f, <3>1 DEF IInv, HandleUnique, OthersUnique
    <3> QED
      BY <1>b, <3>1, <3>2 DEF ExecInv, AtMostOnce
  <2> QED
    BY <1>b, <2>1, <2>2 DEF AtMostOnce
<1>3. Posting'
  BY <1>b, <1>c, <1>d DEF ExecInv, Posting, Thread
<1>4. Posted' /\ Replies'
  BY <1>b, <1>e DEF ExecInv, Posted, Replies
<1> QED
  BY <1>1, <1>2, <1>3, <1>4 DEF ExecInv

\* The answer goes into the buffer of the caller that waits for it, and into
\* nobody else's.
LEMMA WrittenBuffer ==
  ASSUME IInv, NEW d \in Daemon, Results(d)
  PROVE  /\ hand[d].blk \in Client /\ Pending(hand[d].blk)
         /\ hcmd[hand[d].blk] = hand[d].hcmd
         /\ \A k \in Client :
              buf'[k] = IF k = hand[d].blk THEN hand[d].hcmd ELSE buf[k]
<1>1. hand[d].blk # NoBlk
  BY DEF Results, Filled, IInv, HandWf
<1>2. hand[d].blk \in Client
  BY <1>1, AllEntries, EntryFields DEF IInv
<1>3. Pending(hand[d].blk) /\ hcmd[hand[d].blk] = hand[d].hcmd
  BY <1>1 DEF IInv, BufferOwner, Owned
<1>4. \A k \in Client :
        buf'[k] = IF k = hand[d].blk THEN hand[d].hcmd ELSE buf[k]
  BY <1>2 DEF IInv, TypeOK, Results, Filled
<1> QED
  BY <1>2, <1>3, <1>4

\* The copy of LX_dmn_add_done_command leaves every other answer in place.
LEMMA ResultsExec ==
  ASSUME IInv, ExecInv, NEW d \in Daemon, Results(d)
  PROVE  ExecInv'
<1> USE ConstAssumption
<1>a. pc \in [Thread -> ClientPc \cup DaemonPc]
  BY DEF IInv, TypeOK
<1>b. /\ UNCHANGED <<lx_daemon_cmdhandle, waiting, done, hcmd, rc, how, hand,
                     executed>>
      /\ pc[d] = "results"
  BY DEF Results, Filled
<1>c. \A k \in Thread : pc'[k] = IF k = d THEN "append" ELSE pc[k]
  BY <1>a DEF Results, Filled, Goto
<1>d. Holds(d)
  BY <1>b DEF IInv, HandWf, HandPc
<1>e. ASSUME NEW e \in Entry, e.blk # NoBlk, Owned(e), e.hcmd # hand[d].hcmd
      PROVE  buf'[e.blk] = buf[e.blk]
  BY <1>e, WrittenBuffer, EntryFields DEF Owned
<1>f. \A k \in Client : Replied(k)' <=> Replied(k)
  BY <1>b, <1>c DEF Replied, Thread
<1>1. ExecFresh' /\ AtMostOnce'
  BY <1>b, <1>c DEF ExecInv, ExecFresh, AtMostOnce, Thread
<1>2. Posting'
  <2>1. ASSUME NEW k \in Daemon \ {d}, pc[k] = "append"
        PROVE  buf'[hand[k].blk] = hand[k].hcmd
    <3>1. hand[k].hcmd # hand[d].hcmd
      BY <1>d DEF IInv, HandleUnique, OthersUnique
    <3>2. hand[k] \in Entry /\ hand[k].blk # NoBlk /\ Owned(hand[k])
      BY <2>1, AllEntries DEF IInv, HandWf, BufferOwner
    <3> QED
      BY <1>e, <2>1, <3>1, <3>2 DEF ExecInv, Posting
  <2>2. buf'[hand[d].blk] = hand[d].hcmd
    BY WrittenBuffer
  <2> QED
    BY <1>b, <1>c, <2>1, <2>2 DEF ExecInv, Posting, Thread
<1>3. Posted'
  <2>1. \A e \in done : e.hcmd # hand[d].hcmd
    BY DEF IInv, HandleUnique, OthersUnique
  <2> QED
    BY <1>b, <1>e, <2>1, AllEntries DEF IInv, BufferOwner, ExecInv, Posted
<1>4. Replies'
  <2>1. ~Replied(hand[d].blk)
    BY WrittenBuffer DEF Pending, Replied
  <2> QED
    BY <1>b, <1>f, <2>1, WrittenBuffer DEF ExecInv, Replies
<1> QED
  BY <1>1, <1>2, <1>3, <1>4 DEF ExecInv

\* The entry goes on the done list with its answer complete.
LEMMA AppendExec ==
  ASSUME IInv, ExecInv, NEW d \in Daemon, AppendDone(d)
  PROVE  ExecInv'
<1> USE ConstAssumption
<1>a. /\ pc \in [Thread -> ClientPc \cup DaemonPc]
      /\ hand \in [Daemon -> Entry]
  BY DEF IInv, TypeOK
<1>b. /\ UNCHANGED <<lx_daemon_cmdhandle, waiting, hcmd, rc, how, buf, executed>>
      /\ done' = done \cup {hand[d]} /\ pc[d] = "append"
  BY DEF AppendDone, callVars
<1>c. \A k \in Thread : pc'[k] = IF k = d THEN "user" ELSE pc[k]
  BY <1>a DEF AppendDone, Goto
<1>d. \A k \in Daemon \ {d} : hand'[k] = hand[k]
  BY <1>a DEF AppendDone
<1>e. \A k \in Client : Replied(k)' <=> Replied(k)
  BY <1>b, <1>c DEF Replied, Thread
<1>1. ExecFresh' /\ Replies'
  BY <1>b, <1>e DEF ExecInv, ExecFresh, Replies
<1>2. AtMostOnce' /\ Posting'
  BY <1>b, <1>c, <1>d DEF ExecInv, AtMostOnce, Posting, Thread
<1>3. Posted'
  BY <1>b DEF ExecInv, Posting, Posted
<1> QED
  BY <1>1, <1>2, <1>3 DEF ExecInv

\* LX_daemon_closed makes every result an error, executed or not.
LEMMA DrainExec ==
  ASSUME IInv, ExecInv, NEW d \in Daemon, Drain(d)
  PROVE  ExecInv'
<1> USE ConstAssumption
<1>a. pc \in [Thread -> ClientPc \cup DaemonPc]
  BY DEF IInv, TypeOK
<1>b. /\ UNCHANGED <<lx_daemon_cmdhandle, hand, hcmd, rc, how, buf, executed>>
      /\ done' = Closed /\ DOMAIN waiting' = {}
  BY DEF Drain, DrainTo, callVars
<1>c. \A k \in Thread : pc'[k] = IF k = d THEN "off" ELSE pc[k]
  BY <1>a DEF Drain, DrainTo, Goto
<1>d. \A k \in Client : Replied(k)' <=> Replied(k)
  BY <1>b, <1>c DEF Replied, Thread
<1>1. ExecFresh' /\ Replies'
  BY <1>b, <1>d DEF ExecInv, ExecFresh, Replies
<1>2. AtMostOnce' /\ Posting'
  BY <1>b, <1>c DEF ExecInv, AtMostOnce, Posting, Thread
<1>3. Posted'
  <2>1. ASSUME NEW f \in Entry
        PROVE  [f EXCEPT !.rc = "nochildren"].rc = "nochildren"
    BY DEF Entry
  <2>2. \A e \in Closed : e.rc = "nochildren"
    <3>1. ASSUME NEW e \in Closed
          PROVE  \E f \in Entry : e = [f EXCEPT !.rc = "nochildren"]
      BY ClosedSource DEF IInv
    <3> QED
      BY <2>1, <3>1
  <2> QED
    BY <1>b, <2>2 DEF Posted
<1> QED
  BY <1>1, <1>2, <1>3 DEF ExecInv

\* Every step keeps the invariant about answers.
LEMMA ExecStep ==
  ASSUME HandleLimit < HandleMod, IInv, ExecInv, [Next]_vars
  PROVE  ExecInv'
<1>0. TypeOK
  BY DEF IInv
<1>1. ASSUME NEW c \in Client,
             CallAsync(c) \/ CallSync(c) \/ AddCommandNoMem(c) \/ ClientStep(c)
      PROVE  ExecInv'
  BY <1>1, CallerCalm, EnqueueExec, ReturnExec
     DEF CallAsync, CallSync, Call, ClientStep
<1>2. ASSUME NEW d \in Daemon,
             \/ Start(d) \/ Interrupt(d) \/ IncreaseNoMem(d)
             \/ ResultsNoMem(d) \/ Exit(d) \/ ExitOther(d)
      PROVE  ExecInv'
  BY <1>0, <1>2, CalmActions
<1>3. ASSUME NEW d \in Daemon, DaemonStep(d)
      PROVE  ExecInv'
  BY <1>0, <1>3, CalmActions, QueueExec, ExecuteExec, ResultsExec, AppendExec,
     DrainExec DEF DaemonStep
<1>4. CASE UNCHANGED vars
  BY <1>4 DEF vars, callVars, ExecInv, ExecFresh, AtMostOnce, Posting, Posted,
              Replies, Replied
<1>5. CASE Available \/ Resched
  <2>1. /\ UNCHANGED <<lx_daemon_cmdhandle, waiting, done, hand, executed>>
        /\ UNCHANGED <<hcmd, rc, how, buf>>
        /\ \A c \in Client : pc'[c] = pc[c]
        /\ \A d \in Daemon : pc'[d] = pc[d] \/ pc'[d] = "moving"
    BY <1>0, <1>5, SchedFrame DEF callVars
  <2>2. ExecFresh' /\ Posted' /\ AtMostOnce' /\ Posting'
    BY <2>1 DEF ExecInv, ExecFresh, Posted, AtMostOnce, Posting
  <2>3. Replies'
    BY <2>1 DEF ExecInv, Replies, Replied
  <2> QED
    BY <2>2, <2>3 DEF ExecInv
<1> QED
  BY <1>1, <1>2, <1>3, <1>4, <1>5 DEF Next

\* The invariant about answers holds throughout.
LEMMA ExecAlways ==
  ASSUME HandleLimit < HandleMod
  PROVE  Spec => []ExecInv
<1>1. Init => ExecInv
  BY ConstAssumption
     DEF Init, ExecInv, ExecFresh, AtMostOnce, Posting, Posted, Replies,
         Replied, Thread
<1>2. IInv /\ ExecInv /\ [Next]_vars => ExecInv'
  BY ExecStep
<1> QED
  BY <1>1, <1>2, IInvAlways, PTL DEF Spec

\* However often a command is put back and whichever daemon takes it, and
\* whichever dies, LXAPID.EXE executes it at most once.
THEOREM ExecutedAtMostOnce ==
  ASSUME HandleLimit < HandleMod
  PROVE  Spec => []AtMostOnce
<1>1. ExecInv => AtMostOnce
  BY DEF ExecInv
<1> QED
  BY <1>1, ExecAlways, PTL

\* A caller that LX_dmn_get_result lets go with a result of the daemon has the
\* whole answer to its own command in its buffer.
THEOREM RepliesAreOwn ==
  ASSUME HandleLimit < HandleMod
  PROVE  Spec => []ReplyIsOwn
<1>1. ExecInv => ReplyIsOwn
  BY DEF ExecInv, Replies, Replied, ReplyIsOwn
<1> QED
  BY <1>1, ExecAlways, PTL

\* A result other than the error LX_daemon_closed writes means the command was
\* executed.
THEOREM RepliesAreReal ==
  ASSUME HandleLimit < HandleMod
  PROVE  Spec => []AnsweredMeansExecuted
<1>1. ExecInv => AnsweredMeansExecuted
  BY DEF ExecInv, Replies, Replied, AnsweredMeansExecuted
<1> QED
  BY <1>1, ExecAlways, PTL

\* No step of a daemon writes into a buffer whose owner does not wait for
\* exactly that command.
THEOREM WritesAreAwaited ==
  ASSUME HandleLimit < HandleMod
  PROVE  Spec => NoStrayWrite
<1>1. ASSUME IInv, [Next]_vars
      PROVE  [\A c \in Client : buf'[c] \notin {0, buf[c]}
                => Pending(c) /\ buf'[c] = hcmd[c]]_vars
  <2>a. buf \in [Client -> Handle]
    BY <1>1 DEF IInv, TypeOK
  <2>1. ASSUME NEW c \in Client, CallAsync(c) \/ CallSync(c)
        PROVE  \A k \in Client : buf'[k] \in {0, buf[k]}
    BY <2>a, <2>1 DEF CallAsync, CallSync, Call, AddCommand, AddCommandNoDaemon
  <2>2. ASSUME NEW c \in Client, AddCommandNoMem(c) \/ ClientStep(c)
        PROVE  buf' = buf
    BY <2>2 DEF AddCommandNoMem, ClientStep, Enqueue, RunOn, Waking, GetResult
  <2>3. ASSUME NEW d \in Daemon,
               \/ Start(d) \/ Interrupt(d) \/ IncreaseNoMem(d)
               \/ ResultsNoMem(d) \/ Exit(d) \/ ExitOther(d)
        PROVE  buf' = buf
    BY <2>3 DEF Start, Interrupt, IncreaseNoMem, ResultsNoMem, Exit, ExitOther,
                Ends, callVars
  <2>4. ASSUME NEW d \in Daemon, DaemonStep(d), ~Results(d)
        PROVE  buf' = buf
    BY <2>4 DEF DaemonStep, CmdGet, Claim, ClaimState, CheckEmpty, GoOn, Block,
                Moved, Pop, Take, PopNone, CopyOut, PushBack, TooLong, Increase,
                Execute, ExecuteAsync, AppendDone, Drain, DrainTo, callVars
  <2>5. ASSUME NEW d \in Daemon, Results(d), NEW c \in Client,
               buf'[c] \notin {0, buf[c]}
        PROVE  Pending(c) /\ buf'[c] = hcmd[c]
    BY <1>1, <2>5, WrittenBuffer
  <2>6. ASSUME Available \/ Resched
        PROVE  buf' = buf
    BY <2>6 DEF Available, Resched, callVars
  <2> QED
    BY <1>1, <2>1, <2>2, <2>3, <2>4, <2>5, <2>6 DEF Next
<1> QED
  BY <1>1, IInvAlways, PTL DEF Spec, NoStrayWrite

-----------------------------------------------------------------------------
(* The order of the executions, with one daemon.                           *)

ToDo == {"popped", "execute"}

\* The queue is in the order of the handles, behind the command the daemon has
\* still to execute, and that behind those it has executed.
Sorted ==
  \A i, j \in DOMAIN waiting : i < j => waiting[i].hcmd < waiting[j].hcmd
HandFirst ==
  \A d \in Daemon, i \in DOMAIN waiting :
    pc[d] \in ToDo => hand[d].hcmd < waiting[i].hcmd
ExecFirst ==
  \A g \in executed :
    /\ \A i \in DOMAIN waiting : g < waiting[i].hcmd
    /\ \A d \in Daemon : pc[d] \in ToDo => g < hand[d].hcmd
OrderInv == Sorted /\ HandFirst /\ ExecFirst

\* A step that changes neither the queue nor what is executed, and gives the
\* daemon nothing to do.
LEMMA OrderQuiet ==
  ASSUME OrderInv, waiting' = waiting, executed' = executed,
         \A d \in Daemon :
           pc'[d] \in ToDo => pc[d] \in ToDo /\ hand'[d] = hand[d]
  PROVE  OrderInv'
<1>1. Sorted'
  BY DEF OrderInv, Sorted
<1>2. HandFirst'
  BY DEF OrderInv, HandFirst
<1>3. ExecFirst'
  BY DEF OrderInv, ExecFirst
<1> QED
  BY <1>1, <1>2, <1>3 DEF OrderInv

\* The handle of a new command is greater than any other.
LEMMA OrderEnqueue ==
  ASSUME HandleLimit < HandleMod, IInv, ExecInv, OrderInv,
         NEW c \in Client, Enqueue(c)
  PROVE  OrderInv' /\ executed' \subseteq executed
<1> USE ConstAssumption
<1>a. /\ pc \in [Thread -> ClientPc \cup DaemonPc]
      /\ lx_daemon_cmdhandle \in Nat
      /\ waiting \in Seq(Entry)
      /\ executed \subseteq Nat
      /\ \A d \in Daemon : hand[d] \in Entry
      /\ \A i \in DOMAIN waiting : waiting[i] \in Entry
  BY DEF IInv, TypeOK, Handle
<1>b. NextHandle = lx_daemon_cmdhandle + 1
  BY <1>a DEF Enqueue, NextHandle
<1>c. executed' \subseteq executed /\ hand' = hand
  BY DEF Enqueue
<1>d. \A i \in DOMAIN waiting' :
        \/ i \in DOMAIN waiting /\ waiting'[i] = waiting[i]
        \/ /\ \A j \in DOMAIN waiting' : j <= i
           /\ waiting'[i].hcmd = lx_daemon_cmdhandle + 1
  BY <1>a, <1>b DEF Enqueue
<1>e. \A k \in Daemon : pc'[k] = pc[k]
  BY <1>a DEF Enqueue, Goto, Thread
<1>f. /\ \A i \in DOMAIN waiting : waiting[i].hcmd < lx_daemon_cmdhandle + 1
      /\ \A d \in Daemon : hand[d].hcmd < lx_daemon_cmdhandle + 1
      /\ \A g \in executed : g < lx_daemon_cmdhandle + 1
  <2>1. \A i \in DOMAIN waiting : waiting[i].hcmd \in 1 .. lx_daemon_cmdhandle
    BY DEF IInv, Fresh
  <2>2. \A d \in Daemon : /\ hand[d].hcmd <= lx_daemon_cmdhandle
                          /\ hand[d].hcmd \in Nat
    BY <1>a, EntryFields DEF IInv, Fresh
  <2>3. \A g \in executed : g <= lx_daemon_cmdhandle /\ g \in Nat
    BY <1>a DEF ExecInv, ExecFresh
  <2> QED
    BY <1>a, <2>1, <2>2, <2>3
<1>g. \A i \in DOMAIN waiting' : i \in Nat
  <2>1. PICK e \in Entry : waiting' = Append(waiting, e)
    <3>1. NextHandle \in Handle /\ blk[c] \in Client \cup {NoBlk}
      BY NextHandleType DEF IInv, TypeOK
    <3> QED
      BY <3>1 DEF Enqueue, Entry, RC
  <2>2. waiting' \in Seq(Entry)
    BY <1>a, <2>1
  <2> QED
    BY <2>2
<1>1. Sorted'
  <2> SUFFICES ASSUME NEW i \in DOMAIN waiting', NEW j \in DOMAIN waiting', i < j
               PROVE  waiting'[i].hcmd < waiting'[j].hcmd
    BY DEF Sorted
  <2>1. i \in DOMAIN waiting /\ waiting'[i] = waiting[i]
    BY <1>d, <1>g
  <2> QED
    BY <1>d, <1>f, <2>1 DEF OrderInv, Sorted
<1>2. HandFirst'
  BY <1>c, <1>d, <1>e, <1>f DEF OrderInv, HandFirst
<1>3. ExecFirst'
  BY <1>c, <1>d, <1>e, <1>f DEF OrderInv, ExecFirst
<1> QED
  BY <1>1, <1>2, <1>3, <1>c DEF OrderInv

\* The first command is taken off the queue, or put back in front of it, or the
\* whole queue is dropped.
LEMMA OrderQueue ==
  ASSUME \A d1, d2 \in Daemon : d1 = d2, IInv, OrderInv, NEW d \in Daemon,
         Pop(d) \/ PushBack(d) \/ Drain(d)
  PROVE  OrderInv' /\ executed' = executed
<1> USE ConstAssumption
<1>a. /\ pc \in [Thread -> ClientPc \cup DaemonPc] /\ d \in Thread
      /\ hand \in [Daemon -> Entry]
      /\ waiting \in Seq(Entry)
      /\ \A k \in Daemon : k = d
  BY DEF IInv, TypeOK, Thread
<1>b. executed' = executed
  BY DEF Pop, Take, PushBack, TooLong, Drain, DrainTo
<1>1. CASE Pop(d)
  <2>1. /\ 1 \in DOMAIN waiting /\ hand'[d] = waiting[1]
        /\ \A i \in DOMAIN waiting' :
             i \in Nat /\ i > 0
             /\ i + 1 \in DOMAIN waiting /\ waiting'[i] = waiting[i + 1]
    BY <1>a, <1>1 DEF Pop, Take
  <2>2. Sorted'
    <3> SUFFICES ASSUME NEW i \in DOMAIN waiting', NEW j \in DOMAIN waiting', i < j
                 PROVE  waiting'[i].hcmd < waiting'[j].hcmd
      BY DEF Sorted
    <3>1. i + 1 < j + 1
      BY <2>1
    <3> QED
      BY <2>1, <3>1 DEF OrderInv, Sorted
  <2>3. HandFirst'
    <3> SUFFICES ASSUME NEW i \in DOMAIN waiting'
                 PROVE  hand'[d].hcmd < waiting'[i].hcmd
      BY <1>a DEF HandFirst
    <3>1. 1 < i + 1
      BY <2>1
    <3> QED
      BY <2>1, <3>1 DEF OrderInv, Sorted
  <2>4. ExecFirst'
    BY <1>a, <1>b, <2>1 DEF OrderInv, ExecFirst
  <2> QED
    BY <1>b, <2>2, <2>3, <2>4 DEF OrderInv
<1>2. CASE PushBack(d)
  <2>1. /\ pc[d] = "popped" /\ pc'[d] = "increase" /\ waiting'[1] = hand[d]
        /\ \A i \in DOMAIN waiting' : i \in Nat /\ i > 0
        /\ \A i \in DOMAIN waiting' \ {1} :
             i - 1 \in DOMAIN waiting /\ waiting'[i] = waiting[i - 1]
    BY <1>a, <1>2 DEF PushBack, TooLong, Goto
  <2>2. Sorted'
    <3> SUFFICES ASSUME NEW i \in DOMAIN waiting', NEW j \in DOMAIN waiting', i < j
                 PROVE  waiting'[i].hcmd < waiting'[j].hcmd
      BY DEF Sorted
    <3>1. j # 1 /\ i - 1 < j - 1
      BY <2>1
    <3>2. CASE i = 1
      BY <2>1, <3>1, <3>2 DEF OrderInv, HandFirst, ToDo
    <3>3. CASE i # 1
      BY <2>1, <3>1, <3>3 DEF OrderInv, Sorted
    <3> QED
      BY <3>2, <3>3
  <2>3. HandFirst'
    BY <1>a, <2>1 DEF HandFirst, ToDo
  <2>4. ExecFirst'
    <3>1. ASSUME NEW g \in executed, NEW i \in DOMAIN waiting'
          PROVE  g < waiting'[i].hcmd
      BY <2>1 DEF OrderInv, ExecFirst, ToDo
    <3> QED
      BY <1>a, <1>b, <2>1, <3>1 DEF ExecFirst, ToDo
  <2> QED
    BY <1>b, <2>2, <2>3, <2>4 DEF OrderInv
<1>3. CASE Drain(d)
  <2>1. DOMAIN waiting' = {} /\ pc'[d] = "off"
    BY <1>a, <1>3 DEF Drain, DrainTo, Goto
  <2> QED
    BY <1>a, <1>b, <2>1 DEF OrderInv, Sorted, HandFirst, ExecFirst, ToDo
<1> QED
  BY <1>1, <1>2, <1>3

\* The command executed is the next one.
LEMMA OrderExecute ==
  ASSUME \A d1, d2 \in Daemon : d1 = d2, IInv, OrderInv, NEW d \in Daemon,
         Execute(d) \/ ExecuteAsync(d)
  PROVE  /\ OrderInv'
         /\ \A h \in executed' \ executed, g \in executed : g < h
<1> USE ConstAssumption
<1>a. /\ pc \in [Thread -> ClientPc \cup DaemonPc] /\ d \in Thread
      /\ \A k \in Daemon : k = d
  BY DEF IInv, TypeOK, Thread
<1>b. /\ waiting' = waiting
      /\ executed' = executed \cup {hand[d].hcmd}
      /\ pc[d] = "execute" /\ pc'[d] \notin ToDo
  BY <1>a DEF Execute, ExecuteAsync, Goto, ToDo
<1>1. Sorted' /\ HandFirst'
  BY <1>a, <1>b DEF OrderInv, Sorted, HandFirst
<1>2. ExecFirst'
  BY <1>a, <1>b DEF OrderInv, ExecFirst, HandFirst, ToDo
<1>3. \A g \in executed : g < hand[d].hcmd
  BY <1>b DEF OrderInv, ExecFirst, ToDo
<1> QED
  BY <1>1, <1>2, <1>3, <1>b DEF OrderInv

\* Every step keeps the order and executes a command with a greater handle, if
\* any.
LEMMA OrderStep ==
  ASSUME HandleLimit < HandleMod, \A d1, d2 \in Daemon : d1 = d2,
         IInv, ExecInv, OrderInv, [Next]_vars
  PROVE  /\ OrderInv'
         /\ \A h \in executed' \ executed, g \in executed : g < h
<1>a. /\ pc \in [Thread -> ClientPc \cup DaemonPc]
      /\ \A k \in Daemon : k \in Thread /\ k \notin Client
  BY ConstAssumption DEF IInv, TypeOK, Thread
<1>1. ASSUME NEW c \in Client,
             \/ CallAsync(c) \/ CallSync(c) \/ AddCommandNoMem(c)
             \/ RunOn(c) \/ GetResult(c)
      PROVE  OrderInv' /\ executed' = executed
  <2>1. UNCHANGED <<waiting, executed, hand>>
    BY <1>1 DEF CallAsync, CallSync, Call, AddCommand, AddCommandNoDaemon,
                AddCommandNoMem, RunOn, Waking, GetResult
  <2>2. \A k \in Daemon : pc'[k] = pc[k] \/ pc'[k] = "woken"
    BY <1>a, <1>1 DEF CallAsync, CallSync, Call, AddCommand, AddCommandNoDaemon,
                      AddCommandNoMem, RunOn, Waking, GetResult, Goto
  <2> QED
    BY <2>1, <2>2, OrderQuiet DEF ToDo
<1>2. ASSUME NEW d \in Daemon,
             \/ Start(d) \/ Interrupt(d) \/ IncreaseNoMem(d)
             \/ ResultsNoMem(d) \/ Exit(d) \/ ExitOther(d)
             \/ CmdGet(d) \/ Claim(d) \/ CheckEmpty(d) \/ Block(d)
             \/ Moved(d) \/ PopNone(d) \/ CopyOut(d) \/ Increase(d)
             \/ Results(d) \/ AppendDone(d)
      PROVE  OrderInv' /\ executed' = executed
  <2>1. UNCHANGED <<waiting, executed>>
    BY <1>2 DEF Start, Interrupt, IncreaseNoMem, ResultsNoMem, Exit, ExitOther,
                Ends, CmdGet, Claim, ClaimState, CheckEmpty, GoOn, Block, Moved,
           PopNone,
                CopyOut, Increase, Results, Filled, AppendDone
  <2>2. \A k \in Daemon : k = d
    OBVIOUS
  <2>3. pc'[d] \in ToDo => pc[d] \in ToDo /\ hand'[d] = hand[d]
    BY <1>a, <1>2
       DEF Start, Interrupt, IncreaseNoMem, ResultsNoMem, Exit, ExitOther,
           Ends, CmdGet, Claim, ClaimState, CheckEmpty, GoOn, Block, Moved,
           PopNone,
           CopyOut, Increase, Results, Filled, AppendDone, Goto, ToDo
  <2> QED
    BY <2>1, <2>2, <2>3, OrderQuiet
<1>3. CASE UNCHANGED vars
  <2>1. UNCHANGED <<waiting, executed, pc, hand>>
    BY <1>3 DEF vars
  <2> QED
    BY <2>1, OrderQuiet
<1>4. ASSUME NEW c \in Client, Enqueue(c)
      PROVE  OrderInv' /\ executed' \subseteq executed
  BY <1>4, OrderEnqueue
<1>5. ASSUME NEW d \in Daemon, Pop(d) \/ PushBack(d) \/ Drain(d)
      PROVE  OrderInv' /\ executed' = executed
  BY <1>5, OrderQueue
<1>6. ASSUME NEW d \in Daemon, Execute(d) \/ ExecuteAsync(d)
      PROVE  /\ OrderInv'
             /\ \A h \in executed' \ executed, g \in executed : g < h
  BY <1>6, OrderExecute
<1>7. CASE Available \/ Resched
  <2>1. /\ UNCHANGED <<waiting, executed, hand>>
        /\ \A k \in Daemon : pc'[k] = pc[k] \/ pc'[k] = "moving"
    BY <1>7, SchedFrame DEF IInv
  <2> QED
    BY <2>1, OrderQuiet DEF ToDo
<1> QED
  BY <1>1, <1>2, <1>3, <1>4, <1>5, <1>6, <1>7
     DEF Next, ClientStep, DaemonStep

\* One LXAPID.EXE executes the commands in the order in which LX_dmn_add_command
\* queued them, however often it has to put one back for want of memory, and
\* whatever LX_daemon_closed drops in between.  With two daemons each takes its
\* own command and the order is lost.
THEOREM ExecutionsInOrder ==
  ASSUME HandleLimit < HandleMod, \A d1, d2 \in Daemon : d1 = d2
  PROVE  Spec => ExecutedInOrder
<1>1. Init => OrderInv
  BY DEF Init, OrderInv, Sorted, HandFirst, ExecFirst
<1>2. IInv /\ ExecInv /\ OrderInv /\ [Next]_vars =>
        /\ OrderInv'
        /\ [\A h \in executed' \ executed, g \in executed : g < h]_executed
  BY OrderStep
<1> QED
  BY <1>1, <1>2, IInvAlways, ExecAlways, PTL DEF Spec, ExecutedInOrder

-----------------------------------------------------------------------------
(* Waiting.                                                                *)

\* A command with the handle h that somebody waits for is on a list or in the
\* hands of a daemon.
Located(h) ==
  \/ \E i \in DOMAIN waiting : waiting[i].hcmd = h /\ waiting[i].blk # NoBlk
  \/ \E d \in Daemon : hand[d].hcmd = h /\ hand[d].blk # NoBlk
  \/ \E e \in done : e.hcmd = h /\ e.blk # NoBlk

\* NoReplyLost, with the fact that makes it inductive: commands nobody waits
\* for are dropped, so the command found must be one somebody waits for.
Kept == \A c \in Client : Pending(c) => Located(hcmd[c])

\* What a step has to show that concerns no caller.
LEMMA KeptByDaemon ==
  ASSUME TypeOK, Kept, NEW d \in Daemon, NEW l, Goto(d, l),
         UNCHANGED <<hcmd, blk>>,
         \A h \in Handle : Located(h) => Located(h)'
  PROVE  Kept'
<1>1. \A k \in Client : pc'[k] = pc[k] /\ hcmd[k] \in Handle
  BY ConstAssumption DEF TypeOK, Goto, Thread
<1>2. \A k \in Client : Pending(k)' <=> Pending(k)
  BY <1>1 DEF Pending
<1> QED
  BY <1>1, <1>2 DEF Kept

\* The steps of daemons that leave every command where it is.
LEMMA KeptInPlace ==
  ASSUME TypeOK, Kept, NEW d \in Daemon,
         \/ Start(d) \/ CmdGet(d) \/ Claim(d) \/ CheckEmpty(d) \/ Block(d)
         \/ Interrupt(d) \/ Moved(d) \/ PopNone(d) \/ CopyOut(d) \/ Increase(d)
         \/ IncreaseNoMem(d) \/ Results(d)
  PROVE  Kept'
<1>1. UNCHANGED <<waiting, done, hand, hcmd, blk>>
  BY DEF Start, CmdGet, Claim, ClaimState, CheckEmpty, GoOn, Block, Moved,
         Interrupt, PopNone, CopyOut, Increase, IncreaseNoMem, Results, Filled, callVars
<1>2. \E l : Goto(d, l)
  BY DEF Start, CmdGet, Claim, ClaimState, CheckEmpty, GoOn, Block, Moved,
         Interrupt, PopNone, CopyOut, Increase, IncreaseNoMem, Results, Filled
<1>3. \A h \in Handle : Located(h) => Located(h)'
  BY <1>1 DEF Located
<1> QED
  BY <1>1, <1>2, <1>3, KeptByDaemon

\* The steps that move a command from one place to the next.
LEMMA KeptOnTheWay ==
  ASSUME IInv, Kept, NEW d \in Daemon,
         \/ Pop(d) \/ PushBack(d) \/ Execute(d) \/ ExecuteAsync(d)
         \/ AppendDone(d) \/ Drain(d)
  PROVE  Kept'
<1>a. /\ TypeOK /\ hand \in [Daemon -> Entry] /\ waiting \in Seq(Entry)
      /\ NoEntry.blk = NoBlk
  BY DEF IInv, TypeOK, NoEntry
<1>1. CASE Pop(d)
  <2>1. hand[d].blk = NoBlk
    BY <1>a, <1>1 DEF Pop, Take, IInv, HandWf, HandPc
  <2>2. /\ hand'[d] = waiting[1]
        /\ \A k \in Daemon \ {d} : hand'[k] = hand[k]
        /\ \A i \in DOMAIN waiting \ {1} :
             i - 1 \in DOMAIN waiting' /\ waiting'[i - 1] = waiting[i]
    BY <1>a, <1>1 DEF Pop, Take
  <2>3. done' = done
    BY <1>1 DEF Pop, Take
  <2>4. \A h \in Handle : Located(h) => Located(h)'
    <3> SUFFICES ASSUME NEW h \in Handle, Located(h) PROVE Located(h)'
      OBVIOUS
    <3>1. ASSUME NEW i \in DOMAIN waiting,
                 waiting[i].hcmd = h, waiting[i].blk # NoBlk
          PROVE  Located(h)'
      BY <2>2, <3>1 DEF Located
    <3> QED
      BY <2>1, <2>2, <2>3, <3>1 DEF Located
  <2> QED
    BY <1>a, <1>1, <2>4, KeptByDaemon DEF Pop, Take, callVars
<1>2. CASE PushBack(d)
  <2>1. /\ 1 \in DOMAIN waiting' /\ waiting'[1] = hand[d]
        /\ \A k \in Daemon \ {d} : hand'[k] = hand[k]
        /\ \A i \in DOMAIN waiting :
             i + 1 \in DOMAIN waiting' /\ waiting'[i + 1] = waiting[i]
    BY <1>a, <1>2 DEF PushBack, TooLong
  <2>2. done' = done
    BY <1>2 DEF PushBack, TooLong
  <2>3. \A h \in Handle : Located(h) => Located(h)'
    <3> SUFFICES ASSUME NEW h \in Handle, Located(h) PROVE Located(h)'
      OBVIOUS
    <3>1. ASSUME NEW i \in DOMAIN waiting,
                 waiting[i].hcmd = h, waiting[i].blk # NoBlk
          PROVE  Located(h)'
      BY <2>1, <3>1 DEF Located
    <3> QED
      BY <2>1, <2>2, <3>1 DEF Located
  <2> QED
    BY <1>a, <1>2, <2>3, KeptByDaemon DEF PushBack, TooLong, callVars
<1>3. CASE Execute(d)
  <2>1. \A h \in Handle : Located(h) => Located(h)'
    BY <1>a, <1>3, ExecuteKeeps DEF Execute, Located
  <2> QED
    BY <1>a, <1>3, <2>1, KeptByDaemon DEF Execute, callVars
<1>4. CASE ExecuteAsync(d)
  <2>1. hand[d].blk = NoBlk /\ \A k \in Daemon \ {d} : hand'[k] = hand[k]
    BY <1>a, <1>4 DEF ExecuteAsync
  <2>2. \A h \in Handle : Located(h) => Located(h)'
    BY <1>4, <2>1 DEF ExecuteAsync, Located
  <2> QED
    BY <1>a, <1>4, <2>2, KeptByDaemon DEF ExecuteAsync, callVars
<1>5. CASE AppendDone(d)
  <2>1. hand[d] \in done' /\ \A k \in Daemon \ {d} : hand'[k] = hand[k]
    BY <1>a, <1>5 DEF AppendDone
  <2>2. \A h \in Handle : Located(h) => Located(h)'
    BY <1>5, <2>1 DEF AppendDone, Located
  <2> QED
    BY <1>a, <1>5, <2>2, KeptByDaemon DEF AppendDone, callVars
<1>6. CASE Drain(d)
  <2>1. ASSUME NEW e \in Entry
        PROVE  /\ [e EXCEPT !.rc = "nochildren"].hcmd = e.hcmd
               /\ [e EXCEPT !.rc = "nochildren"].blk = e.blk
    BY DEF Entry
  <2>2. /\ \A e \in done : [e EXCEPT !.rc = "nochildren"] \in Closed
        /\ \A i \in DOMAIN waiting : waiting[i].blk # NoBlk =>
             [waiting[i] EXCEPT !.rc = "nochildren"] \in Closed
    BY DEF Closed
  <2>3. done' = Closed /\ hand' = hand
    BY <1>6 DEF Drain, DrainTo
  <2>4. \A h \in Handle : Located(h) => Located(h)'
    <3> SUFFICES ASSUME NEW h \in Handle, Located(h) PROVE Located(h)'
      OBVIOUS
    <3>1. ASSUME NEW i \in DOMAIN waiting,
                 waiting[i].hcmd = h, waiting[i].blk # NoBlk
          PROVE  Located(h)'
      <4>1. waiting[i] \in Entry
        BY <1>a, AllEntries
      <4> QED
        BY <2>1, <2>2, <2>3, <3>1, <4>1 DEF Located
    <3>2. ASSUME NEW e \in done, e.hcmd = h, e.blk # NoBlk
          PROVE  Located(h)'
      <4>1. e \in Entry
        BY <1>a, AllEntries
      <4> QED
        BY <2>1, <2>2, <2>3, <3>2, <4>1 DEF Located
    <3> QED
      BY <2>3, <3>1, <3>2 DEF Located
  <2> QED
    BY <1>a, <1>6, <2>4, KeptByDaemon DEF Drain, DrainTo, callVars
<1> QED
  BY <1>1, <1>2, <1>3, <1>4, <1>5, <1>6

\* The steps of callers.
LEMMA KeptByClient ==
  ASSUME HandleLimit < HandleMod, IInv, Kept, NEW c \in Client,
         CallAsync(c) \/ CallSync(c) \/ AddCommandNoMem(c) \/ ClientStep(c)
  PROVE  Kept'
<1> USE ConstAssumption
<1>a. /\ pc \in [Thread -> ClientPc \cup DaemonPc]
      /\ hcmd \in [Client -> Handle]
      /\ blk \in [Client -> Client \cup {NoBlk}]
      /\ waiting \in Seq(Entry)
  BY DEF IInv, TypeOK
<1>1. CASE CallAsync(c) \/ CallSync(c)
  <2>1. /\ UNCHANGED <<waiting, done, hand>> /\ ~Pending(c)'
        /\ \A k \in Client \ {c} : hcmd'[k] = hcmd[k] /\ (Pending(k)' <=> Pending(k))
    <3>1. PICK b \in {c, NoBlk} : AddCommand(c, b) \/ AddCommandNoDaemon(c, b)
      BY <1>1 DEF CallAsync, CallSync, Call
    <3>2. UNCHANGED <<waiting, done, hand>>
      BY <3>1 DEF AddCommand, AddCommandNoDaemon
    <3>3. /\ pc'[c] # "wait" /\ pc'[c] # "runon"
          /\ \A k \in Client \ {c} : /\ pc'[k] = pc[k] /\ blk'[k] = blk[k]
                                    /\ hcmd'[k] = hcmd[k]
      BY <1>a, <3>1 DEF AddCommand, AddCommandNoDaemon, Goto, Thread
    <3> QED
      BY <3>2, <3>3 DEF Pending
  <2> QED
    BY <2>1 DEF Kept, Located
<1>2. CASE AddCommandNoMem(c) \/ RunOn(c)
  <2>1. /\ UNCHANGED <<waiting, done, hand, hcmd>>
        /\ \A k \in Client : Pending(k)' <=> Pending(k)
    BY <1>a, <1>2 DEF AddCommandNoMem, RunOn, Waking, Sleepers, Goto, Thread,
                      Pending
  <2> QED
    BY <2>1 DEF Kept, Located
<1>3. CASE Enqueue(c)
  <2>1. PICK e : /\ e.hcmd = NextHandle /\ e.blk = blk[c]
                 /\ waiting' = Append(waiting, e)
    BY <1>3 DEF Enqueue
  <2>2. /\ UNCHANGED <<done, hand, blk>> /\ hcmd'[c] = NextHandle
        /\ \A k \in Client \ {c} : hcmd'[k] = hcmd[k] /\ (Pending(k)' <=> Pending(k))
        /\ Pending(c)' => blk[c] # NoBlk
    BY <1>a, <1>3 DEF Enqueue, Goto, Thread, Pending
  <2>3. /\ \A i \in DOMAIN waiting : i \in DOMAIN waiting' /\ waiting'[i] = waiting[i]
        /\ Len(waiting) + 1 \in DOMAIN waiting' /\ waiting'[Len(waiting) + 1] = e
    BY <1>a, <2>1
  <2>4. \A h : Located(h) => Located(h)'
    BY <2>2, <2>3 DEF Located
  <2>5. Pending(c)' => Located(hcmd[c])'
    BY <2>1, <2>2, <2>3 DEF Located
  <2> QED
    BY <2>2, <2>4, <2>5 DEF Kept
<1>4. CASE GetResult(c)
  <2>1. PICK e \in done : e.hcmd = hcmd[c] /\ done' = done \ {e}
    BY <1>4 DEF GetResult
  <2>2. /\ UNCHANGED <<waiting, hand, hcmd>> /\ Pending(c) /\ ~Pending(c)'
        /\ \A k \in Client \ {c} : Pending(k)' <=> Pending(k)
    BY <1>a, <1>4 DEF GetResult, Goto, Thread, Pending
  <2>3. \A k \in Client \ {c} : Pending(k) => hcmd[k] # e.hcmd
    BY <2>1, <2>2 DEF IInv, HandleUnique, CallersUnique
  <2>4. \A h : Located(h) /\ h # e.hcmd => Located(h)'
    BY <2>1, <2>2 DEF Located
  <2> QED
    BY <2>2, <2>3, <2>4 DEF Kept
<1> QED
  BY <1>1, <1>2, <1>3, <1>4 DEF ClientStep

\* While no daemon is killed and kmalloc does not fail in CMDSETRESULTS, the
\* poll loop of LX_dmn_get_result always has something to find.
THEOREM NothingIsLost ==
  ASSUME HandleLimit < HandleMod, "kill" \notin Faults, "oomDone" \notin Faults
  PROVE  Spec => []NoReplyLost
<1>1. Init => Kept
  BY ConstAssumption DEF Init, Kept, Pending, Thread
<1>2. ASSUME IInv, Kept, [Next]_vars
      PROVE  Kept'
  <2>1. CASE UNCHANGED vars
    BY <1>2, <2>1 DEF vars, callVars, Kept, Located, Pending
  <2>2. ASSUME NEW c \in Client,
               CallAsync(c) \/ CallSync(c) \/ AddCommandNoMem(c) \/ ClientStep(c)
        PROVE  Kept'
    BY <1>2, <2>2, KeptByClient
  <2>3. ASSUME NEW d \in Daemon,
               \/ Start(d) \/ Interrupt(d) \/ IncreaseNoMem(d)
               \/ ResultsNoMem(d) \/ Exit(d) \/ ExitOther(d)
        PROVE  Kept'
    BY <1>2, <2>3, KeptInPlace DEF IInv, ResultsNoMem, Exit, ExitOther, Ends
  <2>4. ASSUME NEW d \in Daemon, DaemonStep(d)
        PROVE  Kept'
    BY <1>2, <2>4, KeptInPlace, KeptOnTheWay DEF IInv, DaemonStep
  <2>5. CASE Available \/ Resched
    <3>1. /\ UNCHANGED <<waiting, done, hand, hcmd, blk>>
          /\ \A c \in Client : pc'[c] = pc[c]
      BY <1>2, <2>5, SchedFrame DEF IInv, callVars
    <3> QED
      BY <1>2, <3>1 DEF Kept, Located, Pending
  <2> QED
    BY <1>2, <2>1, <2>2, <2>3, <2>4, <2>5 DEF Next
<1>3. Kept => NoReplyLost
  BY DEF Kept, Located, NoReplyLost, Accounted
<1> QED
  BY <1>1, <1>2, <1>3, IInvAlways, PTL DEF Spec
-----------------------------------------------------------------------------
\* NoMissedWakeup, with what the daemon knows between its test and its sleep,
\* and while it is being moved.
NeedsNoWakeup(d) ==
  waiting = <<>> \/ (\E c \in Client : pc[c] = "runon") \/ d \in swallowed
Awake ==
  /\ \A d \in Daemon : pc[d] \in {"asleep", "moving"} => NeedsNoWakeup(d)
  /\ \A d \in Daemon : pc[d] = "block" => waiting = <<>>
  /\ \A d \in swallowed :
       pc[d] \in {"asleep", "moving"} /\ (pc[d] = "asleep" => d \notin indev)

\* On one processor the test of LX_get_next_command and its LX_WaitOn are one
\* step for everybody else, and a wakeup is lost only while LX_ReschedWaitOn
\* moves the daemon from DevBlock to its wait queue, once: in no other case does
\* a single daemon sleep on a queued command.
THEOREM NobodySleepsOnWork ==
  ASSUME Smp = FALSE, \A d1, d2 \in Daemon : d1 = d2
  PROVE  Spec => []NoMissedWakeup
<1> USE ConstAssumption
<1>1. Init => Awake
  BY DEF Init, Awake, Thread
<1>2. ASSUME TypeOK, Awake, [Next]_vars
      PROVE  Awake'
  <2>a. /\ pc \in [Thread -> ClientPc \cup DaemonPc]
        /\ swallowed \subseteq Daemon
        /\ \A k \in Daemon : k \in Thread /\ k \notin Client
    BY <1>2 DEF TypeOK, Thread
  <2>1. CASE UNCHANGED vars
    BY <1>2, <2>1 DEF vars, waitVars, Awake, NeedsNoWakeup
  <2>2. ASSUME NEW c \in Client,
               \/ CallAsync(c) \/ CallSync(c) \/ AddCommandNoMem(c)
               \/ GetResult(c)
        PROVE  Awake'
    <3>1. /\ waiting' = waiting /\ pc[c] # "runon"
          /\ UNCHANGED waitVars
          /\ \A t \in Thread \ {c} : pc'[t] = pc[t]
      BY <2>a, <2>2 DEF CallAsync, CallSync, Call, AddCommand,
                        AddCommandNoDaemon, AddCommandNoMem, GetResult, Goto
    <3> QED
      BY <1>2, <2>a, <3>1 DEF Awake, NeedsNoWakeup, Thread, waitVars
  <2>3. ASSUME NEW c \in Client, Enqueue(c)
        PROVE  Awake'
    <3>1. /\ pc'[c] = "runon" /\ \A t \in Thread \ {c} : pc'[t] = pc[t]
          /\ UNCHANGED waitVars
      BY <2>a, <2>3 DEF Enqueue, Goto, Thread
    <3>2. \A d \in Daemon : pc[d] # "block"
      BY <2>3 DEF Enqueue, Turn, NonBlocking, Thread
    <3> QED
      BY <1>2, <2>a, <3>1, <3>2 DEF Awake, NeedsNoWakeup, Thread, waitVars
  <2>4. ASSUME NEW c \in Client, RunOn(c)
        PROVE  Awake'
    <3>1. /\ waiting' = waiting /\ indev' = indev
          /\ swallowed' = (swallowed \cup {d \in Daemon : pc[d] = "moving"})
                            \ Sleepers
          /\ \A d \in Daemon : pc'[d] = IF pc[d] = "asleep" THEN "woken" ELSE pc[d]
      BY <2>a, <2>4 DEF RunOn, Waking, Sleepers
    <3> QED
      BY <1>2, <2>a, <3>1 DEF Awake, NeedsNoWakeup, Sleepers
  <2>5. ASSUME NEW d \in Daemon, NEW l, Goto(d, l),
               pc[d] \notin {"asleep", "moving"},
               l \notin {"asleep", "moving", "block"}, UNCHANGED waitVars
        PROVE  Awake'
    <3>1. \A k \in Daemon : pc'[k] = l
      BY <2>a, <2>5 DEF Goto
    <3>2. swallowed = {}
      BY <1>2, <2>a, <2>5 DEF Awake
    <3> QED
      BY <2>a, <2>5, <3>1, <3>2 DEF Awake, waitVars
  <2>6. ASSUME NEW d \in Daemon, CheckEmpty(d)
        PROVE  Awake'
    <3>1. /\ \A k \in Daemon : /\ pc[k] = "check"
                               /\ pc'[k] \notin {"asleep", "moving"}
                               /\ pc'[k] = "block" => waiting' = <<>>
          /\ UNCHANGED waitVars
      BY <2>a, <2>6 DEF CheckEmpty, GoOn, Goto
    <3>2. swallowed = {}
      BY <1>2, <2>a, <3>1 DEF Awake
    <3> QED
      BY <3>1, <3>2 DEF Awake, waitVars
  <2>7. ASSUME NEW d \in Daemon, Block(d)
        PROVE  Awake'
    <3>1. /\ waiting' = <<>> /\ swallowed' = swallowed
          /\ \A k \in Daemon : pc[k] = "block" /\ pc'[k] = "asleep"
      BY <1>2, <2>a, <2>7 DEF Block, Awake, Goto
    <3>2. swallowed = {}
      BY <1>2, <2>a, <3>1 DEF Awake
    <3> QED
      BY <3>1, <3>2 DEF Awake, NeedsNoWakeup
  <2>8. ASSUME NEW d \in Daemon, Interrupt(d)
        PROVE  Awake'
    <3>1. /\ swallowed' = swallowed \ {d}
          /\ \A k \in Daemon : k = d /\ pc'[k] = "woken"
      BY <2>a, <2>8 DEF Interrupt, Goto
    <3> QED
      BY <2>a, <3>1 DEF Awake
  <2>9. ASSUME NEW d \in Daemon, Moved(d)
        PROVE  Awake'
    <3>1. /\ waiting' = waiting /\ swallowed' = swallowed
          /\ indev' = indev \ {d}
          /\ \A k \in Daemon : k = d /\ pc[k] = "moving" /\ pc'[k] = "asleep"
          /\ \A c \in Client : pc'[c] = pc[c]
      BY <2>a, <2>9 DEF Moved, Goto, Thread
    <3> QED
      BY <1>2, <2>a, <3>1 DEF Awake, NeedsNoWakeup
  <2>10. ASSUME NEW d \in Daemon,
                \/ Start(d) \/ IncreaseNoMem(d) \/ ResultsNoMem(d)
                \/ Exit(d) \/ ExitOther(d)
         PROVE  Awake'
    BY <2>5, <2>10 DEF Start, IncreaseNoMem, ResultsNoMem, Exit, ExitOther, Ends
  <2>11. ASSUME NEW d \in Daemon, DaemonStep(d),
                ~CheckEmpty(d), ~Block(d), ~Moved(d)
         PROVE  Awake'
    BY <2>5, <2>11 DEF DaemonStep, CmdGet, Claim, ClaimState, Pop, Take,
                       PopNone, CopyOut, PushBack, TooLong, Increase, Execute,
                       ExecuteAsync, Results, Filled, AppendDone, Drain, DrainTo
  <2>12. CASE Available
    BY <1>2, <2>12 DEF Available, Awake, NeedsNoWakeup
  <2>13. CASE Resched
    <3>1. /\ waiting' = waiting /\ indev' = indev
          /\ swallowed' = swallowed \cup {d \in Behind : pc[d] = "woken"}
          /\ \A k \in Daemon : pc'[k] = IF k \in Behind THEN "moving" ELSE pc[k]
          /\ \A c \in Client : pc'[c] = pc[c]
      BY <2>a, <2>13 DEF Resched, Behind, Thread
    <3> QED
      BY <1>2, <2>a, <3>1 DEF Awake, NeedsNoWakeup, Behind
  <2> QED
    BY <1>2, <2>1, <2>2, <2>3, <2>4, <2>6, <2>7, <2>8, <2>9, <2>10, <2>11,
       <2>12, <2>13
       DEF Next, ClientStep
<1>3. Awake => NoMissedWakeup
  BY DEF Awake, NeedsNoWakeup, NoMissedWakeup
<1> QED
  BY <1>1, <1>2, <1>3, TypeCorrect, PTL DEF Spec

-----------------------------------------------------------------------------
(* The command channel implements LxCall.  Besides IInv and ExecInv this   *)
(* needs what a caller looks like from its own side: which of its          *)
(* variables agree in which place of LX_dmn_add_command, and that the      *)
(* command of a caller that does not wait is that caller's last.           *)

\* A caller: its handle is 0 until its command is queued, its buffer holds its
\* request or its own answer, and it has returned at once if it lent no buffer.
CallerWf(c) ==
  /\ pc[c] = "alloc" => hcmd[c] = 0
  /\ pc[c] # "idle" => how[c] = "none"
  /\ buf[c] \in {0, hcmd[c]}
  /\ blk[c] = NoBlk => buf[c] = 0 /\ pc[c] # "wait"
  /\ blk[c] = NoBlk /\ hcmd[c] # 0 /\ pc[c] = "idle" => how[c] = "queued"

\* No two callers have had the same handle in their last calls.
LastUnique ==
  \A c1, c2 \in Client : hcmd[c1] # 0 /\ hcmd[c1] = hcmd[c2] => c1 = c2

\* A command for which nobody waits is nobody's, or the last call of a caller
\* that does not wait.
Unowned(e) ==
  \A c \in Client :
    e.hcmd # 0 /\ e.hcmd = hcmd[c] /\ e.blk = NoBlk => blk[c] = NoBlk
AsyncOwner ==
  /\ \A i \in DOMAIN waiting : Unowned(waiting[i])
  /\ \A d \in Daemon : Unowned(hand[d])

\* The invariant about callers, inductive together with IInv and ExecInv.
CallInv ==
  /\ \A c \in Client : CallerWf(c)
  /\ LastUnique
  /\ AsyncOwner
  /\ 0 \notin executed

\* A step of a daemon or of its environment.
DaemonNext(d) ==
  \/ Start(d) \/ Interrupt(d) \/ IncreaseNoMem(d) \/ ResultsNoMem(d)
  \/ Exit(d) \/ ExitOther(d) \/ DaemonStep(d)

\* It leaves the callers where they are.
LEMMA DaemonFrame ==
  ASSUME TypeOK, NEW d \in Daemon, DaemonNext(d)
  PROVE  /\ UNCHANGED <<hcmd, blk, how, rc, lx_daemon_cmdhandle>>
         /\ \A c \in Client : pc'[c] = pc[c]
         /\ ~Results(d) => buf' = buf
         /\ ~Execute(d) /\ ~ExecuteAsync(d) => executed' = executed
<1> USE DEF callVars
<1>1. UNCHANGED <<hcmd, blk, how, rc, lx_daemon_cmdhandle>>
  BY DEF DaemonNext, DaemonStep, Start, Interrupt, IncreaseNoMem, ResultsNoMem,
         Exit, ExitOther, Ends, CmdGet, Claim, ClaimState, CheckEmpty, GoOn,
         Block, Moved, Pop, Take, PopNone, CopyOut, PushBack, TooLong, Increase,
         Execute, ExecuteAsync, Results, Filled, AppendDone, Drain, DrainTo
<1>2. \E l \in DaemonPc : Goto(d, l)
  BY DEF DaemonNext, DaemonStep, Start, Interrupt, IncreaseNoMem, ResultsNoMem,
         Exit, ExitOther, CmdGet, Claim, ClaimState, CheckEmpty, GoOn,
         Block, Moved, Pop, Take, PopNone, CopyOut, PushBack, TooLong, Increase,
         Execute, ExecuteAsync, Results, Filled, AppendDone, Drain, DrainTo,
         DaemonPc
<1>3. \A c \in Client : pc'[c] = pc[c]
  BY <1>2, ConstAssumption DEF Goto, TypeOK, Thread
<1>4. ~Results(d) => buf' = buf
  BY DEF DaemonNext, DaemonStep, Start, Interrupt, IncreaseNoMem, ResultsNoMem,
         Exit, ExitOther, Ends, CmdGet, Claim, ClaimState, CheckEmpty, GoOn,
         Block, Moved, Pop, Take, PopNone, CopyOut, PushBack, TooLong, Increase,
         Execute, ExecuteAsync, AppendDone, Drain, DrainTo
<1>5. ~Execute(d) /\ ~ExecuteAsync(d) => executed' = executed
  BY DEF DaemonNext, DaemonStep, Start, Interrupt, IncreaseNoMem, ResultsNoMem,
         Exit, ExitOther, Ends, CmdGet, Claim, ClaimState, CheckEmpty, GoOn,
         Block, Moved, Pop, Take, PopNone, CopyOut, PushBack, TooLong, Increase,
         Results, Filled, AppendDone, Drain, DrainTo
<1> QED
  BY <1>1, <1>3, <1>4, <1>5

\* The commands after a daemon's step are commands from before it.
LEMMA DaemonEntries ==
  ASSUME TypeOK, AsyncOwner, NEW d \in Daemon, DaemonNext(d)
  PROVE  AsyncOwner'
<1> USE ConstAssumption DEF callVars
<1>a. /\ hand \in [Daemon -> Entry] /\ waiting \in Seq(Entry)
      /\ hcmd' = hcmd /\ blk' = blk
  BY DaemonFrame DEF TypeOK
<1>b. NoEntry.hcmd = 0
  BY DEF NoEntry
<1>c. Unowned(NoEntry)'
  BY <1>b DEF Unowned
<1>d. ASSUME NEW e, Unowned(e) PROVE Unowned(e)'
  BY <1>a, <1>d DEF Unowned
<1>1. CASE Pop(d)
  <2>1. /\ 1 \in DOMAIN waiting /\ hand'[d] = waiting[1]
        /\ \A k \in Daemon \ {d} : hand'[k] = hand[k]
        /\ \A i \in DOMAIN waiting' :
             i + 1 \in DOMAIN waiting /\ waiting'[i] = waiting[i + 1]
    BY <1>1, <1>a DEF Pop, Take
  <2> QED
    BY <1>a, <2>1 DEF AsyncOwner, Unowned
<1>2. CASE PushBack(d)
  <2>1. /\ waiting'[1] = hand[d]
        /\ \A i \in DOMAIN waiting' \ {1} :
             i - 1 \in DOMAIN waiting /\ waiting'[i] = waiting[i - 1]
        /\ \A k \in Daemon : hand'[k] \in {hand[k], NoEntry}
    BY <1>2, <1>a DEF PushBack, TooLong
  <2> QED
    BY <1>a, <1>c, <2>1 DEF AsyncOwner, Unowned
<1>3. CASE Execute(d)
  <2>1. waiting' = waiting
    BY <1>3 DEF Execute
  <2> QED
    BY <1>3, <1>a, <2>1, ExecuteKeeps DEF AsyncOwner, Unowned
<1>4. CASE Drain(d)
  <2>1. DOMAIN waiting' = {} /\ hand' = hand
    BY <1>4 DEF Drain, DrainTo
  <2> QED
    BY <1>a, <2>1 DEF AsyncOwner, Unowned
<1>5. ASSUME ~Pop(d), ~PushBack(d), ~Execute(d), ~Drain(d)
      PROVE  AsyncOwner'
  <2>1. waiting' = waiting
    BY <1>5
       DEF DaemonNext, DaemonStep, Start, Interrupt, IncreaseNoMem, ResultsNoMem,
           Exit, ExitOther, Ends, CmdGet, Claim, ClaimState, CheckEmpty, GoOn,
           Block, Moved, PopNone, CopyOut, Increase, ExecuteAsync, Results,
           Filled, AppendDone
  <2>2. \A k \in Daemon : hand'[k] \in {hand[k], NoEntry}
    BY <1>a, <1>5
       DEF DaemonNext, DaemonStep, Start, Interrupt, IncreaseNoMem, ResultsNoMem,
           Exit, ExitOther, Ends, CmdGet, Claim, ClaimState, CheckEmpty, GoOn,
           Block, Moved, PopNone, CopyOut, Increase, ExecuteAsync, Results,
           Filled, AppendDone
  <2> QED
    BY <1>a, <1>c, <2>1, <2>2 DEF AsyncOwner, Unowned
<1> QED
  BY <1>1, <1>2, <1>3, <1>4, <1>5

\* A daemon executes the command of a caller that waits, or of one that did
\* not want to: nobody that has been answered.
LEMMA RunsForCaller ==
  ASSUME IInv, CallInv, NEW d \in Daemon, pc[d] = "execute", NEW c \in Client,
         hcmd[c] = hand[d].hcmd
  PROVE  pc[c] # "idle" \/ how[c] = "queued"
<1>1. hand[d].hcmd # 0
  BY DEF IInv, HandWf, HandPc, Holds
<1>2. CASE hand[d].blk = NoBlk
  BY <1>1, <1>2 DEF CallInv, AsyncOwner, Unowned, CallerWf
<1>3. CASE hand[d].blk # NoBlk
  <2>1. Pending(hand[d].blk) /\ hcmd[hand[d].blk] = hand[d].hcmd
    BY <1>3 DEF IInv, BufferOwner, Owned
  <2>2. hand[d].blk \in Client
    BY <1>3, AllEntries, EntryFields DEF IInv
  <2>3. hand[d].blk = c
    BY <1>1, <2>1, <2>2 DEF CallInv, LastUnique
  <2> QED
    BY <2>1, <2>3 DEF Pending
<1> QED
  BY <1>2, <1>3

\* A step of a daemon keeps the invariant about callers.
LEMMA CallInvDaemon ==
  ASSUME IInv, CallInv, NEW d \in Daemon, DaemonNext(d)
  PROVE  CallInv'
<1>a. TypeOK /\ AsyncOwner
  BY DEF IInv, CallInv
<1>b. /\ UNCHANGED <<hcmd, blk, how>>
      /\ \A c \in Client : pc'[c] = pc[c]
  BY <1>a, DaemonFrame
<1>1. AsyncOwner'
  BY <1>a, DaemonEntries
<1>2. LastUnique'
  BY <1>b DEF CallInv, LastUnique
<1>3. 0 \notin executed'
  <2>1. CASE Execute(d) \/ ExecuteAsync(d)
    BY <2>1 DEF Execute, ExecuteAsync, CallInv, IInv, HandWf, HandPc, Holds
  <2> QED
    BY <1>a, <2>1, DaemonFrame DEF CallInv
<1>4. ASSUME NEW c \in Client PROVE CallerWf(c)'
  <2>1. CASE Results(d)
    <3>1. buf'[c] = buf[c] \/ (buf'[c] = hcmd[c] /\ blk[c] # NoBlk)
      <4>1. Pending(c) => blk[c] # NoBlk
        BY DEF Pending, CallInv, CallerWf
      <4> QED
        BY <2>1, <4>1, WrittenBuffer
    <3> QED
      BY <1>b, <3>1 DEF CallInv, CallerWf
  <2>2. CASE buf' = buf
    BY <1>b, <2>2 DEF CallInv, CallerWf
  <2> QED
    BY <1>a, <2>1, <2>2, DaemonFrame
<1> QED
  BY <1>1, <1>2, <1>3, <1>4 DEF CallInv

\* A step of a caller.
CallerStep(c) == CallAsync(c) \/ CallSync(c) \/ AddCommandNoMem(c) \/ ClientStep(c)

\* It leaves the other callers alone.
LEMMA CallerFrame ==
  ASSUME TypeOK, NEW c \in Client, CallerStep(c)
  PROVE  \A k \in Client \ {c} :
           /\ pc'[k] = pc[k] /\ hcmd'[k] = hcmd[k] /\ blk'[k] = blk[k]
           /\ how'[k] = how[k] /\ rc'[k] = rc[k] /\ buf'[k] = buf[k]
<1> USE ConstAssumption DEF TypeOK, Thread, Goto
<1>1. CASE \E b \in {c, NoBlk} : AddCommand(c, b)
  BY <1>1 DEF AddCommand
<1>2. CASE \E b \in {c, NoBlk} : AddCommandNoDaemon(c, b)
  BY <1>2 DEF AddCommandNoDaemon, Uninitialised
<1>3. CASE AddCommandNoMem(c)
  BY <1>3 DEF AddCommandNoMem, Uninitialised
<1>4. CASE Enqueue(c)
  BY <1>4 DEF Enqueue
<1>5. CASE RunOn(c)
  BY <1>5 DEF RunOn, Waking, Sleepers
<1>6. CASE GetResult(c)
  BY <1>6 DEF GetResult
<1> QED
  BY <1>1, <1>2, <1>3, <1>4, <1>5, <1>6
     DEF CallerStep, CallAsync, CallSync, Call, ClientStep

\* A step of a caller keeps the invariant about callers.
LEMMA CallInvCaller ==
  ASSUME HandleLimit < HandleMod, IInv, ExecInv, CallInv, NEW c \in Client,
         CallerStep(c)
  PROVE  CallInv'
<1> USE ConstAssumption
<1>a. /\ TypeOK /\ pc \in [Thread -> ClientPc \cup DaemonPc] /\ c \in Thread
      /\ hcmd \in [Client -> Handle] /\ blk \in [Client -> Client \cup {NoBlk}]
      /\ buf \in [Client -> Handle] /\ executed \subseteq Nat
      /\ how \in [Client -> {"none", "nodaemon", "nomem", "queued", "answered"}]
      /\ waiting \in Seq(Entry) /\ lx_daemon_cmdhandle \in Nat
  BY SMTT(30) DEF IInv, TypeOK, Thread, Handle
<1>b. \A k \in Client \ {c} : CallerWf(k)'
  BY <1>a, CallerFrame DEF CallInv, CallerWf
<1>1. CASE ~Enqueue(c)
  <2>1. /\ UNCHANGED <<waiting, hand, executed>>
        /\ hcmd'[c] = 0 \/ (hcmd'[c] = hcmd[c] /\ blk'[c] = blk[c])
    BY <1>a, <1>1
       DEF CallerStep, CallAsync, CallSync, Call, ClientStep, AddCommand,
           AddCommandNoDaemon, AddCommandNoMem, RunOn, Waking, GetResult
  <2>2. LastUnique' /\ AsyncOwner'
    BY <1>a, <2>1, CallerFrame DEF CallInv, LastUnique, AsyncOwner, Unowned
  <2>3. CallerWf(c)'
    <3>1. CASE CallAsync(c) \/ CallSync(c)
      BY <1>a, <3>1 DEF CallAsync, CallSync, Call, AddCommand,
                        AddCommandNoDaemon, CallerWf, Goto, Thread
    <3>2. CASE AddCommandNoMem(c)
      BY <1>a, <3>2 DEF AddCommandNoMem, CallInv, CallerWf, Goto, Thread
    <3>3. CASE RunOn(c)
      BY <1>a, <3>3 DEF RunOn, Waking, CallInv, CallerWf, Thread
    <3>4. CASE GetResult(c)
      BY <1>a, <3>4 DEF GetResult, CallInv, CallerWf, Goto, Thread
    <3> QED
      BY <1>1, <3>1, <3>2, <3>3, <3>4 DEF CallerStep, ClientStep
  <2> QED
    BY <1>b, <2>1, <2>2, <2>3 DEF CallInv
<1>2. CASE Enqueue(c)
  <2>a. NextHandle = lx_daemon_cmdhandle + 1
    BY <1>a, <1>2 DEF Enqueue, NextHandle
  <2>b. /\ hcmd' = [hcmd EXCEPT ![c] = lx_daemon_cmdhandle + 1]
        /\ pc[c] = "alloc" /\ pc'[c] = "runon"
        /\ UNCHANGED <<blk, how, buf, hand>>
        /\ executed' \subseteq executed
    BY <1>a, <1>2, <2>a DEF Enqueue, Goto
  <2>c. \A i \in DOMAIN waiting' :
          \/ i \in DOMAIN waiting /\ waiting'[i] = waiting[i]
          \/ /\ waiting'[i].hcmd = lx_daemon_cmdhandle + 1
             /\ waiting'[i].blk = blk[c]
    BY <1>a, <1>2, <2>a DEF Enqueue
  <2>d. \A k \in Client : hcmd[k] \in Nat /\ hcmd[k] <= lx_daemon_cmdhandle
    BY <1>a DEF IInv, Fresh, Handle
  <2>e. \A k \in Client \ {c} :
          hcmd'[k] = hcmd[k] /\ hcmd'[k] # lx_daemon_cmdhandle + 1
    BY <1>a, <2>b, <2>d
  <2>f. hcmd'[c] = lx_daemon_cmdhandle + 1
    BY <1>a, <2>b
  <2>1. LastUnique'
    BY <2>e, <2>f DEF CallInv, LastUnique
  <2>2. ASSUME NEW e, Unowned(e), e.hcmd # lx_daemon_cmdhandle + 1
        PROVE  Unowned(e)'
    BY <2>2, <2>b, <2>e, <2>f DEF Unowned
  <2>3. AsyncOwner'
    <3>1. \A i \in DOMAIN waiting : waiting[i].hcmd # lx_daemon_cmdhandle + 1
      BY <1>a DEF IInv, Fresh
    <3>2. \A d \in Daemon : hand[d].hcmd # lx_daemon_cmdhandle + 1
      BY <1>a, AllEntries, EntryFields DEF IInv, Fresh
    <3>3. ASSUME NEW i \in DOMAIN waiting' PROVE Unowned(waiting[i])'
      <4>1. CASE i \in DOMAIN waiting /\ waiting'[i] = waiting[i]
        BY <2>b, <2>e, <2>f, <3>1, <4>1 DEF CallInv, AsyncOwner, Unowned
      <4>2. CASE /\ waiting'[i].hcmd = lx_daemon_cmdhandle + 1
                 /\ waiting'[i].blk = blk[c]
        BY <2>b, <2>e, <4>2 DEF Unowned
      <4> QED
        BY <2>c, <4>1, <4>2
    <3>4. \A d \in Daemon : Unowned(hand[d])'
      BY <2>b, <2>e, <2>f, <3>2 DEF CallInv, AsyncOwner, Unowned
    <3> QED
      BY <3>3, <3>4 DEF AsyncOwner
  <2>4. CallerWf(c)'
    BY <2>b, <2>f DEF CallInv, CallerWf
  <2> QED
    BY <1>b, <2>1, <2>3, <2>4, <2>b DEF CallInv
<1> QED
  BY <1>1, <1>2

\* The invariant about callers holds throughout.
LEMMA CallAlways ==
  ASSUME HandleLimit < HandleMod
  PROVE  Spec => []CallInv
<1>1. Init => CallInv
  BY ConstAssumption
     DEF Init, CallInv, CallerWf, LastUnique, AsyncOwner, Unowned, NoEntry,
         Thread
<1>2. IInv /\ ExecInv /\ CallInv /\ [Next]_vars => CallInv'
  <2> SUFFICES ASSUME IInv, ExecInv, CallInv, [Next]_vars PROVE CallInv'
    OBVIOUS
  <2>1. CASE UNCHANGED vars
    BY <2>1 DEF vars, callVars, CallInv, CallerWf, LastUnique, AsyncOwner,
                Unowned
  <2>2. CASE Available \/ Resched
    <3>1. /\ UNCHANGED <<waiting, hand, executed, hcmd, blk, how, buf>>
          /\ \A c \in Client : pc'[c] = pc[c]
      BY <2>2, SchedFrame DEF IInv, callVars
    <3> QED
      BY <3>1 DEF CallInv, CallerWf, LastUnique, AsyncOwner, Unowned
  <2>3. CASE Next
    BY <2>2, <2>3, CallInvCaller, CallInvDaemon DEF Next, CallerStep, DaemonNext
  <2> QED
    BY <2>1, <2>3
<1> QED
  BY <1>1, <1>2, IInvAlways, ExecAlways, PTL DEF Spec

-----------------------------------------------------------------------------
(* The refinement.                                                         *)

\* A step that a caller does not notice.
Same(c) == /\ PhaseOf(c)' = PhaseOf(c) /\ RanOf(c)' = RanOf(c)
           /\ DataOf(c)' = DataOf(c) /\ OutcomeOf(c)' = OutcomeOf(c)

\* If no caller notices a step, it is a stuttering step of LxCall.
LEMMA Stutter ==
  ASSUME \A c \in Client : Same(c)
  PROVE  UNCHANGED Abs!vars
BY DEF Same, Abs!vars

\* A caller's step changes nothing for the others.
LEMMA OthersSame ==
  ASSUME HandleLimit < HandleMod, IInv, ExecInv, NEW c \in Client, CallerStep(c)
  PROVE  executed' = executed /\ \A k \in Client \ {c} : Same(k)
<1>1. executed' = executed
  <2>1. CASE Enqueue(c)
    <3>1. /\ lx_daemon_cmdhandle \in Nat /\ executed \subseteq Nat
          /\ NextHandle = lx_daemon_cmdhandle + 1
      BY <2>1, ConstAssumption DEF IInv, TypeOK, Handle, Enqueue, NextHandle
    <3>2. NextHandle \notin executed
      BY <3>1 DEF ExecInv, ExecFresh
    <3> QED
      BY <2>1, <3>2 DEF Enqueue
  <2>2. CASE ~Enqueue(c)
    BY <2>2 DEF CallerStep, CallAsync, CallSync, Call, ClientStep, AddCommand,
                AddCommandNoDaemon, AddCommandNoMem, RunOn, Waking, GetResult
  <2> QED
    BY <2>1, <2>2
<1> QED
  BY <1>1, CallerFrame
     DEF IInv, Same, PhaseOf, RanOf, DataOf, OutcomeOf

\* Each action of a caller is one of LxCall's, or goes unnoticed.
LEMMA CallerRefines ==
  ASSUME HandleLimit < HandleMod, IInv, ExecInv, CallInv, NEW c \in Client,
         CallerStep(c)
  PROVE  [Abs!Next]_(Abs!vars)
<1> USE ConstAssumption
<1>a. /\ pc \in [Thread -> ClientPc \cup DaemonPc] /\ c \in Thread
      /\ hcmd \in [Client -> Handle] /\ buf \in [Client -> Handle]
      /\ rc \in [Client -> RC]
      /\ how \in [Client -> {"none", "nodaemon", "nomem", "queued", "answered"}]
  BY DEF IInv, TypeOK, Thread
<1>b. executed' = executed /\ \A k \in Client \ {c} : Same(k)
  BY OthersSame
<1>c. CallerWf(c) /\ 0 \notin executed
  BY DEF CallInv
<1>1. CASE \E b \in {c, NoBlk} : AddCommand(c, b)
  <2>1. /\ PhaseOf(c) = "out" /\ PhaseOf(c)' = "in" /\ RanOf(c)' = FALSE
        /\ DataOf(c)' = "request" /\ OutcomeOf(c)' = "none"
    BY <1>1, <1>a, <1>b, <1>c
       DEF AddCommand, Goto, PhaseOf, RanOf, DataOf, OutcomeOf
  <2>2. Abs!Enter(c)
    BY <1>b, <2>1 DEF Abs!Enter, Abs!Begin, Same
  <2> QED
    BY <2>2 DEF Abs!Next, Abs!CallerNext
<1>2. CASE \E b \in {c, NoBlk} : AddCommandNoDaemon(c, b)
  <2>1. /\ PhaseOf(c) = "out" /\ PhaseOf(c)' = "out" /\ RanOf(c)' = FALSE
        /\ DataOf(c)' = "request" /\ OutcomeOf(c)' = "nodaemon"
    BY <1>2, <1>a, <1>b, <1>c
       DEF AddCommandNoDaemon, PhaseOf, RanOf, DataOf, OutcomeOf
  <2>2. Abs!RefusedNoDaemon(c)
    BY <1>b, <2>1 DEF Abs!RefusedNoDaemon, Abs!Begin, Same
  <2> QED
    BY <2>2 DEF Abs!Next, Abs!CallerNext
<1>3. CASE AddCommandNoMem(c)
  <2>1. /\ PhaseOf(c) = "in" /\ PhaseOf(c)' = "out"
        /\ ~RanOf(c) /\ RanOf(c)' = RanOf(c)
        /\ DataOf(c) = "request" /\ DataOf(c)' = DataOf(c)
        /\ OutcomeOf(c)' = "nomem"
    BY <1>3, <1>a, <1>b, <1>c
       DEF AddCommandNoMem, Goto, CallerWf, PhaseOf, RanOf, DataOf, OutcomeOf
  <2>2. Abs!RefusedNoMem(c)
    BY <1>b, <2>1 DEF Abs!RefusedNoMem, Abs!Leave, Same
  <2> QED
    BY <2>2 DEF Abs!Next, Abs!CallerNext
<1>4. CASE Enqueue(c)
  <2>1. hcmd[c] = 0 /\ buf[c] = 0 /\ how[c] = "none" /\ how' = how
        /\ buf' = buf /\ pc[c] = "alloc" /\ pc'[c] = "runon"
    BY <1>4, <1>a, <1>c DEF Enqueue, Goto, CallerWf
  <2>2. hcmd'[c] \notin executed
    <3>1. hcmd'[c] = NextHandle /\ executed' = executed \ {NextHandle}
      BY <1>4, <1>a DEF Enqueue
    <3> QED
      BY <1>b, <3>1
  <2>3. Same(c)
    BY <1>b, <1>c, <2>1, <2>2
       DEF Same, PhaseOf, RanOf, DataOf, OutcomeOf
  <2> QED
    BY <1>b, <2>3, Stutter
<1>5. CASE RunOn(c)
  <2>1. /\ pc[c] = "runon" /\ UNCHANGED <<hcmd, rc, buf, blk>>
        /\ pc'[c] = IF blk[c] # NoBlk THEN "wait" ELSE "idle"
        /\ how'[c] = IF blk[c] # NoBlk THEN "none" ELSE "queued"
    BY <1>5, <1>a DEF RunOn, Waking
  <2>2. how[c] = "none"
    BY <1>c, <2>1 DEF CallerWf
  <2>3. CASE blk[c] # NoBlk
    <3>1. Same(c)
      BY <1>b, <2>1, <2>2, <2>3 DEF Same, PhaseOf, RanOf, DataOf, OutcomeOf
    <3> QED
      BY <1>b, <3>1, Stutter
  <2>4. CASE blk[c] = NoBlk
    <3>1. /\ PhaseOf(c) = "in" /\ PhaseOf(c)' = "out"
          /\ RanOf(c)' = RanOf(c)
          /\ DataOf(c) = "request" /\ DataOf(c)' = DataOf(c)
          /\ OutcomeOf(c)' = "queued"
      BY <1>b, <1>c, <2>1, <2>4
         DEF CallerWf, PhaseOf, RanOf, DataOf, OutcomeOf
    <3>2. Abs!Queued(c)
      BY <1>b, <3>1 DEF Abs!Queued, Abs!Leave, Same
    <3> QED
      BY <3>2 DEF Abs!Next, Abs!CallerNext
  <2> QED
    BY <2>3, <2>4
<1>6. CASE GetResult(c)
  <2>1. PICK e \in done : e.hcmd = hcmd[c] /\ rc' = [rc EXCEPT ![c] = e.rc]
    BY <1>6 DEF GetResult
  <2>2. /\ pc[c] = "wait" /\ pc'[c] = "idle" /\ how'[c] = "answered"
        /\ rc'[c] = e.rc /\ UNCHANGED <<hcmd, buf>>
    BY <1>6, <1>a, <2>1 DEF GetResult, Goto
  <2>3. /\ PhaseOf(c) = "in" /\ PhaseOf(c)' = "out"
        /\ RanOf(c)' = RanOf(c) /\ DataOf(c)' = DataOf(c)
    BY <1>b, <2>2 DEF PhaseOf, RanOf, DataOf
  <2>4. CASE e.rc = "nochildren"
    <3>1. OutcomeOf(c)' = "gone"
      BY <2>2, <2>4 DEF OutcomeOf
    <3>2. Abs!Gone(c)
      BY <1>b, <2>3, <3>1 DEF Abs!Gone, Abs!Leave, Same
    <3> QED
      BY <3>2 DEF Abs!Next, Abs!CallerNext
  <2>5. CASE e.rc # "nochildren"
    <3>1. OutcomeOf(c)' = "answered"
      BY <2>2, <2>5 DEF OutcomeOf
    <3>2. e.blk = c
      <4>1. e.blk \in Client /\ Pending(e.blk) /\ hcmd[e.blk] = e.hcmd
        BY AllEntries, EntryFields DEF IInv, BufferOwner, Owned
      <4>2. Pending(c)
        BY <2>2 DEF Pending
      <4> QED
        BY <2>1, <4>1, <4>2 DEF IInv, HandleUnique, CallersUnique
    <3>3. e.hcmd \in executed /\ buf[c] = hcmd[c]
      BY <2>1, <2>5, <3>2 DEF ExecInv, Posted
    <3>4. RanOf(c) /\ DataOf(c) = "answer"
      BY <1>c, <2>1, <3>3 DEF RanOf, DataOf
    <3>5. Abs!Answered(c)
      BY <1>b, <2>3, <3>1, <3>4 DEF Abs!Answered, Abs!Leave, Same
    <3> QED
      BY <3>5 DEF Abs!Next, Abs!CallerNext
  <2> QED
    BY <2>4, <2>5
<1> QED
  BY <1>1, <1>2, <1>3, <1>4, <1>5, <1>6
     DEF CallerStep, CallAsync, CallSync, Call, ClientStep

\* A daemon executes and delivers, or its step goes unnoticed by every caller.
LEMMA DaemonRefines ==
  ASSUME IInv, ExecInv, CallInv, NEW d \in Daemon, DaemonNext(d)
  PROVE  [Abs!Next]_(Abs!vars)
<1>a. /\ TypeOK /\ UNCHANGED <<hcmd, blk, how, rc>>
      /\ \A c \in Client : pc'[c] = pc[c]
  BY DaemonFrame DEF IInv
<1>1. CASE Execute(d) \/ ExecuteAsync(d)
  <2>1. /\ pc[d] = "execute" /\ executed' = executed \cup {hand[d].hcmd}
        /\ buf' = buf
    BY <1>1 DEF Execute, ExecuteAsync, callVars
  <2>2. \A c \in Client : hcmd[c] # hand[d].hcmd => Same(c)
    BY <1>a, <2>1 DEF Same, PhaseOf, RanOf, DataOf, OutcomeOf
  <2>3. CASE \E c \in Client : hcmd[c] = hand[d].hcmd
    <3>1. PICK c \in Client : hcmd[c] = hand[d].hcmd
      BY <2>3
    <3>2. hand[d].hcmd # 0 /\ hand[d].hcmd \notin executed
      BY <2>1 DEF IInv, HandWf, HandPc, Holds, ExecInv, AtMostOnce
    <3>3. \A k \in Client \ {c} : Same(k)
      BY <2>2, <3>1, <3>2 DEF CallInv, LastUnique
    <3>4. pc[c] # "idle" \/ how[c] = "queued"
      BY <2>1, <3>1, RunsForCaller
    <3>5. /\ PhaseOf(c) = "in" \/ OutcomeOf(c) = "queued"
          /\ ~RanOf(c) /\ RanOf(c)' = TRUE
          /\ PhaseOf(c)' = PhaseOf(c) /\ DataOf(c)' = DataOf(c)
          /\ OutcomeOf(c)' = OutcomeOf(c)
      BY <1>a, <2>1, <3>1, <3>2, <3>4 DEF PhaseOf, RanOf, DataOf, OutcomeOf
    <3>6. Abs!Run(c)
      BY <3>3, <3>5 DEF Abs!Run, Same
    <3> QED
      BY <3>6 DEF Abs!Next, Abs!CallerNext
  <2> QED
    BY <2>2, <2>3, Stutter
<1>2. CASE Results(d)
  <2>1. executed' = executed /\ pc[d] = "results"
    BY <1>2 DEF Results, Filled
  <2>2. PICK c \in Client :
          /\ c = hand[d].blk /\ Pending(c) /\ hcmd[c] = hand[d].hcmd
          /\ \A k \in Client :
               buf'[k] = IF k = c THEN hand[d].hcmd ELSE buf[k]
    BY <1>2, WrittenBuffer
  <2>4. \A k \in Client \ {c} : Same(k)
    BY <1>a, <2>1, <2>2 DEF Same, PhaseOf, RanOf, DataOf, OutcomeOf
  <2>5. hand[d].hcmd # 0 /\ hand[d].hcmd \in executed
    BY <2>1 DEF IInv, HandWf, HandPc, Holds, ExecInv, Posting
  <2>6. CASE buf[c] = 0
    <3>1. /\ PhaseOf(c) = "in" /\ PhaseOf(c)' = PhaseOf(c)
          /\ RanOf(c) /\ RanOf(c)' = RanOf(c)
          /\ DataOf(c) = "request" /\ DataOf(c)' = "answer"
          /\ OutcomeOf(c)' = OutcomeOf(c)
      BY <1>a, <2>1, <2>2, <2>5, <2>6
         DEF Pending, PhaseOf, RanOf, DataOf, OutcomeOf
    <3>2. Abs!Deliver(c)
      BY <2>2, <2>4, <3>1 DEF Abs!Deliver, Same
    <3> QED
      BY <2>2, <3>2 DEF Abs!Next, Abs!CallerNext
  <2>7. CASE buf[c] # 0
    <3>1. buf[c] = hand[d].hcmd
      BY <2>2, <2>7 DEF CallInv, CallerWf
    <3>2. Same(c)
      BY <1>a, <2>1, <2>2, <3>1
         DEF Same, PhaseOf, RanOf, DataOf, OutcomeOf
    <3> QED
      BY <2>4, <3>2, Stutter
  <2> QED
    BY <2>6, <2>7
<1>3. CASE ~Execute(d) /\ ~ExecuteAsync(d) /\ ~Results(d)
  <2>1. executed' = executed /\ buf' = buf
    BY <1>3, <1>a, DaemonFrame
  <2>2. \A c \in Client : Same(c)
    BY <1>a, <2>1 DEF Same, PhaseOf, RanOf, DataOf, OutcomeOf
  <2> QED
    BY <2>2, Stutter
<1> QED
  BY <1>1, <1>2, <1>3

\* The lists, handles and daemons of lxdaemon.c implement the calls of LxCall,
\* for any number of callers and daemons and with every fault, as long as the
\* handle counter does not wrap.
THEOREM ChannelImplementsCall ==
  ASSUME HandleLimit < HandleMod
  PROVE  Spec => ImplementsCall
<1>1. Init => Abs!Init
  <2> SUFFICES ASSUME Init PROVE Abs!Init
    OBVIOUS
  <2>1. \A c \in Client : /\ PhaseOf(c) = "out" /\ RanOf(c) = FALSE
                          /\ DataOf(c) = "request" /\ OutcomeOf(c) = "none"
    <3>1. \A c \in Client : pc[c] = "idle" /\ buf[c] = 0 /\ how[c] = "none"
      BY DEF Init, Thread
    <3>2. ASSUME NEW c \in Client PROVE (hcmd[c] \in executed) = FALSE
      <4>1. hcmd[c] \notin executed
        BY DEF Init
      <4> QED
        BY <4>1
    <3> QED
      BY <3>1, <3>2 DEF PhaseOf, RanOf, DataOf, OutcomeOf
  <2>2. /\ [c \in Client |-> PhaseOf(c)] = [c \in Client |-> "out"]
        /\ [c \in Client |-> RanOf(c)] = [c \in Client |-> FALSE]
        /\ [c \in Client |-> DataOf(c)] = [c \in Client |-> "request"]
        /\ [c \in Client |-> OutcomeOf(c)] = [c \in Client |-> "none"]
    BY <2>1
  <2> QED
    BY <2>2 DEF Abs!Init
<1>2. IInv /\ ExecInv /\ CallInv /\ [Next]_vars => [Abs!Next]_(Abs!vars)
  <2> SUFFICES ASSUME IInv, ExecInv, CallInv, [Next]_vars
               PROVE  [Abs!Next]_(Abs!vars)
    OBVIOUS
  <2>1. CASE UNCHANGED vars
    <3>1. \A c \in Client : Same(c)
      BY <2>1 DEF vars, callVars, Same, PhaseOf, RanOf, DataOf, OutcomeOf
    <3> QED
      BY <3>1, Stutter
  <2>2. CASE Available \/ Resched
    <3>1. /\ UNCHANGED <<executed, hcmd, rc, how, buf>>
          /\ \A c \in Client : pc'[c] = pc[c]
      BY <2>2, SchedFrame DEF IInv, callVars
    <3>2. \A c \in Client : Same(c)
      BY <3>1 DEF Same, PhaseOf, RanOf, DataOf, OutcomeOf
    <3> QED
      BY <3>2, Stutter
  <2>3. CASE Next
    BY <2>2, <2>3, CallerRefines, DaemonRefines DEF Next, CallerStep, DaemonNext
  <2> QED
    BY <2>1, <2>3
<1> QED
  BY <1>1, <1>2, IInvAlways, ExecAlways, CallAlways, PTL
     DEF Spec, ImplementsCall, Abs!Spec
=============================================================================
