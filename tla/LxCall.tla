------------------------------- MODULE LxCall -------------------------------
(***************************************************************************)
(* What the command channel promises the driver thread that calls a        *)
(* wrapper such as LX_DOSOPEN, whatever lists, handles and daemons are     *)
(* behind it.  Between its call and its return the command is executed at  *)
(* most once; its buffer is written only then, and only with the answer of *)
(* its own command; it returns with a result only when the answer is       *)
(* there, unless it is told that the daemon has gone.  A call that nobody  *)
(* waits for (LX_DMN_LOG, LX_EADELETE) may be executed after its return; a *)
(* call that is refused is never executed.                                 *)
(***************************************************************************)
CONSTANT Caller

VARIABLES
  phase,    \* is the caller inside the wrapper?
  ran,      \* has the command of its last call been executed?
  data,     \* what its buffer holds: its request or the answer
  outcome   \* how its last call returned

vars == <<phase, ran, data, outcome>>

Init ==
  /\ phase = [c \in Caller |-> "out"]
  /\ ran = [c \in Caller |-> FALSE]
  /\ data = [c \in Caller |-> "request"]
  /\ outcome = [c \in Caller |-> "none"]

\* A call starts anew, and goes on inside the wrapper ...
Begin(c, p, o) ==
  /\ phase[c] = "out"
  /\ phase' = [phase EXCEPT ![c] = p]
  /\ ran' = [ran EXCEPT ![c] = FALSE]
  /\ data' = [data EXCEPT ![c] = "request"]
  /\ outcome' = [outcome EXCEPT ![c] = o]

\* The caller leaves the wrapper.
Leave(c, o) ==
  /\ phase[c] = "in"
  /\ phase' = [phase EXCEPT ![c] = "out"]
  /\ outcome' = [outcome EXCEPT ![c] = o]
  /\ UNCHANGED <<ran, data>>

Enter(c) == Begin(c, "in", "none")

\* ... or is refused: at once without a daemon, later without memory.
RefusedNoDaemon(c) == Begin(c, "out", "nodaemon")
RefusedNoMem(c) == ~ran[c] /\ data[c] = "request" /\ Leave(c, "nomem")

\* The command is executed, for the first time.
Run(c) ==
  /\ phase[c] = "in" \/ outcome[c] = "queued"
  /\ ~ran[c]
  /\ ran' = [ran EXCEPT ![c] = TRUE]
  /\ UNCHANGED <<phase, data, outcome>>

\* The answer of the executed command reaches the buffer, before the return.
Deliver(c) ==
  /\ phase[c] = "in"
  /\ ran[c]
  /\ data[c] = "request"
  /\ data' = [data EXCEPT ![c] = "answer"]
  /\ UNCHANGED <<phase, ran, outcome>>

\* The caller does not wait, or has its answer, or learns of the daemon's end.
Queued(c) == data[c] = "request" /\ Leave(c, "queued")
Answered(c) == ran[c] /\ data[c] = "answer" /\ Leave(c, "answered")
Gone(c) == Leave(c, "gone")

CallerNext(c) ==
  \/ Enter(c) \/ RefusedNoDaemon(c) \/ RefusedNoMem(c) \/ Run(c) \/ Deliver(c)
  \/ Queued(c) \/ Answered(c) \/ Gone(c)

Next == \E c \in Caller : CallerNext(c)

Spec == Init /\ [][Next]_vars
=============================================================================
