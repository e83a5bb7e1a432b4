---------------------------- MODULE LxDaemonCall ----------------------------
(***************************************************************************)
(* The command channel implements the calls of LxCall.  The refinement     *)
(* mapping looks at the caller alone: where it is, whether the daemon has  *)
(* executed the command with its handle, what is in its buffer and how     *)
(* LX_dmn_add_command returned.                                            *)
(***************************************************************************)
EXTENDS LxDaemon

PhaseOf(c) == IF pc[c] = "idle" THEN "out" ELSE "in"

RanOf(c) == hcmd[c] \in executed

\* A buffer with the answer to another command is neither of LxCall's two.
DataOf(c) == IF buf[c] = 0 THEN "request"
             ELSE IF buf[c] = hcmd[c] THEN "answer" ELSE "foreign"

OutcomeOf(c) == IF how[c] = "answered" /\ rc[c] = "nochildren"
                THEN "gone" ELSE how[c]

Abs == INSTANCE LxCall
         WITH Caller  <- Client,
              phase   <- [c \in Client |-> PhaseOf(c)],
              ran     <- [c \in Client |-> RanOf(c)],
              data    <- [c \in Client |-> DataOf(c)],
              outcome <- [c \in Client |-> OutcomeOf(c)]

\* Every behaviour of lxdaemon.c and its daemons is one of LxCall: a call's
\* command runs at most once, its answer reaches its caller and nobody else,
\* before the caller returns and not after.
ImplementsCall == Abs!Spec
=============================================================================
