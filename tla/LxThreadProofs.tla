--------------------------- MODULE LxThreadProofs ---------------------------
(***************************************************************************)
(* Proofs about the service thread, for every set of tasks.                *)
(***************************************************************************)
EXTENDS LxThread, SequenceTheorems, TLAPS

-----------------------------------------------------------------------------
(* Types.                                                                  *)

Value == Task \cup {0}
Record == [at : {"stack", "entry", "adding", "running"},
           esp : Value, eip : Value, prev : Value]

\* The values of the variables, and the task the service thread works on.
ThreadTypes ==
  /\ call \in [Task -> {"idle", "waiting", "done"}]
  /\ list \in Seq(Task) /\ order \in Seq(Task)
  /\ wait \in [Task -> BOOLEAN] /\ started \in [Task -> BOOLEAN]
  /\ tid \in [Task -> 0 .. MaxThread] /\ rc \in [Task -> 0 .. MaxThread]
  /\ alloc \subseteq Task
  /\ mail \in [esp : Value, eip : Value, prev : Value]
  /\ svc \in {"blocked", "ready", "softirq", "check", "create", "finish"}
  /\ p \in Value
  /\ wakes \in BOOLEAN /\ pending \in BOOLEAN
  /\ thread \in Seq(Record)
  /\ Len(thread) <= MaxThread
  /\ svc \in {"create", "finish"} => p \in Task

\* What a step of LXA_TaskStub32 does to its thread and to the mailbox.
LEMMA TakeStep ==
  ASSUME thread \in Seq(Record), NEW n \in 1 .. Len(thread),
         mail \in [esp : Value, eip : Value, prev : Value]
  PROVE  /\ TakeEsp(n) => \E r \in Record :
              /\ thread[n].at = "stack"
              /\ r.at = "entry" /\ r.esp = mail.esp /\ r.eip = thread[n].eip
              /\ r.prev = thread[n].prev
              /\ thread' = [thread EXCEPT ![n] = r]
              /\ mail' = [mail EXCEPT !.esp = 0]
         /\ TakeEip(n) => \E r \in Record :
              /\ thread[n].at = "entry"
              /\ r.at = "adding" /\ r.esp = thread[n].esp /\ r.eip = mail.eip
              /\ r.prev = thread[n].prev
              /\ thread' = [thread EXCEPT ![n] = r]
              /\ mail' = [mail EXCEPT !.eip = 0]
         /\ TakePrev(n) => \E r \in Record :
              /\ thread[n].at = "adding"
              /\ r.at = "running" /\ r.esp = thread[n].esp
              /\ r.eip = thread[n].eip /\ r.prev = mail.prev
              /\ thread' = [thread EXCEPT ![n] = r]
              /\ mail' = [mail EXCEPT !.prev = 0]
<1>0. thread[n] \in Record
  BY ElementOfSeq
<1>1. ASSUME TakeEsp(n)
      PROVE  \E r \in Record :
               /\ thread[n].at = "stack"
               /\ r.at = "entry" /\ r.esp = mail.esp /\ r.eip = thread[n].eip
               /\ r.prev = thread[n].prev
               /\ thread' = [thread EXCEPT ![n] = r]
               /\ mail' = [mail EXCEPT !.esp = 0]
  <2> DEFINE r == [thread[n] EXCEPT !.esp = mail.esp, !.at = "entry"]
  <2>1. /\ thread[n].at = "stack"
        /\ thread' = [thread EXCEPT ![n] = r]
        /\ mail' = [mail EXCEPT !.esp = 0]
    BY <1>1 DEF TakeEsp, Take
  <2>2. /\ r \in Record /\ r.at = "entry" /\ r.esp = mail.esp
        /\ r.eip = thread[n].eip /\ r.prev = thread[n].prev
    BY <1>0 DEF Record
  <2> QED
    BY <2>1, <2>2
<1>2. ASSUME TakeEip(n)
      PROVE  \E r \in Record :
               /\ thread[n].at = "entry"
               /\ r.at = "adding" /\ r.esp = thread[n].esp /\ r.eip = mail.eip
               /\ r.prev = thread[n].prev
               /\ thread' = [thread EXCEPT ![n] = r]
               /\ mail' = [mail EXCEPT !.eip = 0]
  <2> DEFINE r == [thread[n] EXCEPT !.eip = mail.eip, !.at = "adding"]
  <2>1. /\ thread[n].at = "entry"
        /\ thread' = [thread EXCEPT ![n] = r]
        /\ mail' = [mail EXCEPT !.eip = 0]
    BY <1>2 DEF TakeEip, Take
  <2>2. /\ r \in Record /\ r.at = "adding" /\ r.eip = mail.eip
        /\ r.esp = thread[n].esp /\ r.prev = thread[n].prev
    BY <1>0 DEF Record
  <2> QED
    BY <2>1, <2>2
<1>3. ASSUME TakePrev(n)
      PROVE  \E r \in Record :
               /\ thread[n].at = "adding"
               /\ r.at = "running" /\ r.esp = thread[n].esp
               /\ r.eip = thread[n].eip /\ r.prev = mail.prev
               /\ thread' = [thread EXCEPT ![n] = r]
               /\ mail' = [mail EXCEPT !.prev = 0]
  <2> DEFINE r == [thread[n] EXCEPT !.prev = mail.prev, !.at = "running"]
  <2>1. /\ thread[n].at = "adding"
        /\ thread' = [thread EXCEPT ![n] = r]
        /\ mail' = [mail EXCEPT !.prev = 0]
    BY <1>3 DEF TakePrev, Take
  <2>2. /\ r \in Record /\ r.at = "running" /\ r.prev = mail.prev
        /\ r.esp = thread[n].esp /\ r.eip = thread[n].eip
    BY <1>0 DEF Record
  <2> QED
    BY <2>1, <2>2
<1> QED
  BY <1>1, <1>2, <1>3

\* A thread that takes a field leaves the threads their number and their types.
LEMMA TakeTypes ==
  ASSUME ThreadTypes, NEW n \in 1 .. Len(thread), Stub(n)
  PROVE  /\ thread' \in Seq(Record) /\ Len(thread') = Len(thread)
         /\ mail' \in [esp : Value, eip : Value, prev : Value]
<1>0. /\ thread \in Seq(Record)
      /\ mail \in [esp : Value, eip : Value, prev : Value]
  BY DEF ThreadTypes
<1>1. PICK r \in Record : thread' = [thread EXCEPT ![n] = r]
  BY <1>0, TakeStep DEF Stub
<1>2. thread' \in Seq(Record) /\ Len(thread') = Len(thread)
  <2> HIDE DEF Record
  <2> QED
    BY <1>0, <1>1, ExceptSeq
<1>3. mail' \in [esp : Value, eip : Value, prev : Value]
  BY <1>0, TakeStep DEF Stub, Value
<1> QED
  BY <1>2, <1>3

\* Every step keeps the types.
LEMMA ThreadTypesStep == ThreadTypes /\ [Next]_vars => ThreadTypes'
<1> SUFFICES ASSUME ThreadTypes, [Next]_vars PROVE ThreadTypes'
  OBVIOUS
<1> USE DEF ThreadTypes, callVars, mailVars, svcVars
<1>1. ASSUME NEW t \in Task, NEW w \in BOOLEAN, StartNewTask(t, w)
      PROVE  ThreadTypes'
  <2>1. /\ list' \in Seq(Task) /\ order' \in Seq(Task)
    BY <1>1 DEF StartNewTask
  <2>2. /\ call' \in [Task -> {"idle", "waiting", "done"}]
        /\ wait' \in [Task -> BOOLEAN] /\ started' \in [Task -> BOOLEAN]
        /\ alloc' \subseteq Task
    BY <1>1 DEF StartNewTask
  <2>3. /\ svc' \in {"blocked", "ready", "softirq", "check", "create", "finish"}
        /\ svc' \in {"create", "finish"} => p \in Task
    BY <1>1 DEF StartNewTask, DevRun
  <2> QED
    BY <1>1, <2>1, <2>2, <2>3 DEF StartNewTask
<1>2. ASSUME NEW t \in Task, StartReturns(t)
      PROVE  ThreadTypes'
  BY <1>2 DEF StartReturns
<1>3. CASE WakeupSoftirq
  BY <1>3 DEF WakeupSoftirq, DevRun
<1>4. CASE Timeout \/ Softirq \/ DoSoftirq
  BY <1>4 DEF Timeout, Softirq, DoSoftirq, Goto
<1>5. CASE Check
  <2>1. CASE Busy \/ list = <<>>
    BY <1>5, <2>1 DEF Check
  <2>2. CASE ~(Busy \/ list = <<>>)
    <3>1. Head(list) \in Task /\ Tail(list) \in Seq(Task)
      BY <2>2, HeadTailProperties
    <3>2. /\ p' = Head(list) /\ list' = Tail(list) /\ svc' = "create"
          /\ mail' = [esp |-> Head(list), eip |-> Head(list),
                      prev |-> Prev(Head(list))]
      BY <1>5, <2>2 DEF Check
    <3>3. /\ mail' \in [esp : Value, eip : Value, prev : Value]
          /\ p' \in Task /\ list' \in Seq(Task) /\ p' \in Value
      BY <3>1, <3>2 DEF Value, Prev
    <3> QED
      BY <1>5, <3>2, <3>3 DEF Check
  <2> QED
    BY <2>1, <2>2
<1>6. CASE Create
  <2>0. MaxThread \in Nat
    BY ThreadAssumption
  <2> DEFINE new == [at |-> "stack", esp |-> 0, eip |-> 0, prev |-> 0]
             n == Len(thread)
  <2>1. CASE /\ n < MaxThread
             /\ thread' = Append(thread, new)
             /\ tid' = [tid EXCEPT ![p] = n + 1]
    <3>1. new \in Record
      BY DEF Record, Value
    <3> HIDE DEF Record, new
    <3>2. n \in Nat
      BY LenProperties
    <3>3. thread' \in Seq(Record) /\ Len(thread') = n + 1
      BY <2>1, <3>1, AppendProperties
    <3> HIDE DEF n
    <3>4. n + 1 <= MaxThread /\ n + 1 \in 0 .. MaxThread
      BY <2>0, <2>1, <3>2
    <3>5. Len(thread') <= MaxThread
      BY <3>3, <3>4
    <3>6. tid' \in [Task -> 0 .. MaxThread]
      BY <2>1, <3>4
    <3> QED
      BY <1>6, <3>3, <3>5, <3>6 DEF Create, Made
  <2>2. CASE UNCHANGED <<thread, tid>>
    BY <1>6, <2>2 DEF Create, Made
  <2> QED
    BY <1>6, <2>1, <2>2 DEF Create, Made
<1>7. CASE Finish
  BY <1>7 DEF Finish
<1>8. ASSUME NEW n \in 1 .. Len(thread), Stub(n)
      PROVE  ThreadTypes'
  <2>1. /\ thread' \in Seq(Record) /\ Len(thread') <= MaxThread
        /\ mail' \in [esp : Value, eip : Value, prev : Value]
    BY <1>8, TakeTypes
  <2> QED
    BY <1>8, <2>1 DEF Stub, TakeEsp, TakeEip, TakePrev, Take
<1>9. CASE UNCHANGED vars
  BY <1>9 DEF vars
<1> QED
  BY <1>1, <1>2, <1>3, <1>4, <1>5, <1>6, <1>7, <1>8, <1>9 DEF Next, Service

\* The initial values have the types.
LEMMA ThreadTypesInit == Init => ThreadTypes
<1> SUFFICES ASSUME Init PROVE ThreadTypes
  OBVIOUS
<1>0. MaxThread \in Nat
  BY ThreadAssumption
<1>1. /\ list \in Seq(Task) /\ order \in Seq(Task) /\ thread \in Seq(Record)
      /\ Len(thread) = 0
  BY DEF Init
<1>2. Len(thread) <= MaxThread
  BY <1>0, <1>1
<1>3. /\ mail \in [esp : Value, eip : Value, prev : Value] /\ p \in Value
  BY DEF Init, Empty, Value
<1>4. /\ tid \in [Task -> 0 .. MaxThread] /\ rc \in [Task -> 0 .. MaxThread]
  BY <1>0 DEF Init
<1> QED
  BY <1>1, <1>2, <1>3, <1>4 DEF Init, ThreadTypes

\* The variables of the service thread keep their types, also when a thread
\* cannot be created.
THEOREM ThreadTypeOK == Spec => []TypeOK
<1>1. ThreadTypes => TypeOK
  <2> SUFFICES ASSUME ThreadTypes PROVE TypeOK
    OBVIOUS
  <2>1. \A n \in 1 .. Len(thread) : thread[n] \in Record
    BY ElementOfSeq DEF ThreadTypes
  <2> QED
    BY <2>1 DEF ThreadTypes, TypeOK, Record, Value
<1> QED
  BY <1>1, ThreadTypesInit, ThreadTypesStep, PTL DEF Spec

-----------------------------------------------------------------------------
(* The requests: p of LX_StartNewTask, shared by its caller and the        *)
(* service thread.                                                         *)

\* The service thread has the request of t before it, or works on it.
Pending(t) == \/ \E i \in 1 .. Len(list) : list[i] = t
              \/ svc \in {"create", "finish"} /\ p = t

\* Every request is queued once.
QueuedOnce ==
  /\ \A i, j \in 1 .. Len(list) : list[i] = list[j] => i = j
  /\ svc \in {"create", "finish"} => \A i \in 1 .. Len(list) : list[i] # p

\* The flags of a request and the place of its caller agree.
CallerWaits ==
  \A t \in Task :
    /\ Pending(t) => /\ call[t] # "idle" /\ ~started[t]
                     /\ wait[t] => call[t] = "waiting"
    /\ call[t] = "waiting" => wait[t]

\* A request is allocated while the service thread or its caller needs it.
AllocExact == \A t \in Task : t \in alloc <=> Pending(t) \/ call[t] = "waiting"

\* The inductive invariant of the requests.
RequestInv == ThreadTypes /\ QueuedOnce /\ CallerWaits /\ AllocExact

\* A step that leaves the list and the service thread where they are for the
\* requests leaves the pending ones pending.
LEMMA PendingSame ==
  ASSUME list' = list,
         \/ svc' = svc /\ p' = p
         \/ svc \notin {"create", "finish"} /\ svc' \notin {"create", "finish"}
         \/ svc = "create" /\ svc' = "finish" /\ p' = p
  PROVE  /\ \A t : Pending(t)' <=> Pending(t)
         /\ QueuedOnce => QueuedOnce'
BY DEF Pending, QueuedOnce

\* Every step keeps the invariant of the requests.
LEMMA RequestInvStep == RequestInv /\ [Next]_vars => RequestInv'
<1> SUFFICES ASSUME RequestInv, [Next]_vars PROVE RequestInv'
  OBVIOUS
<1>0. ThreadTypes /\ ThreadTypes'
  BY ThreadTypesStep DEF RequestInv
<1>1. ASSUME NEW t \in Task, NEW w \in BOOLEAN, StartNewTask(t, w)
      PROVE  RequestInv'
  <2>1. /\ call[t] = "idle" /\ alloc' = alloc \cup {t} /\ p' = p
        /\ wait' = [wait EXCEPT ![t] = w]
        /\ started' = [started EXCEPT ![t] = FALSE]
        /\ list' = Append(list, t)
        /\ call' = [call EXCEPT ![t] = IF w THEN "waiting" ELSE "done"]
    BY <1>1 DEF StartNewTask
  <2>2. svc' = svc \/ (svc = "blocked" /\ svc' = "ready")
    BY <1>1 DEF StartNewTask, DevRun
  <2> DEFINE n == Len(list)
  <2>3. /\ n \in Nat /\ Len(list') = n + 1 /\ list'[n + 1] = t
        /\ \A i \in 1 .. n : list'[i] = list[i] /\ list[i] \in Task
    BY <1>0, <2>1, AppendProperties, LenProperties, ElementOfSeq DEF ThreadTypes
  <2>4. ~Pending(t)
    BY <2>1 DEF RequestInv, CallerWaits
  <2>5. (\A i \in 1 .. n : list[i] # t) /\ (svc \in {"create", "finish"} => p # t)
    BY <2>4 DEF Pending
  <2>6. \A u \in Task : Pending(u) <=> \/ \E i \in 1 .. n : list[i] = u
                                       \/ svc \in {"create", "finish"} /\ p = u
    BY DEF Pending
  <2>7. \A u \in Task : Pending(u)' <=> \/ \E i \in 1 .. n + 1 : list'[i] = u
                                        \/ svc' \in {"create", "finish"} /\ p = u
    BY <2>1, <2>3 DEF Pending
  <2>8. QueuedOnce => \A i, j \in 1 .. n : list[i] = list[j] => i = j
    BY DEF QueuedOnce
  <2>9. QueuedOnce /\ svc \in {"create", "finish"} =>
          \A i \in 1 .. n : list[i] # p
    BY DEF QueuedOnce
  <2> HIDE DEF n
  <2>10. \A i \in 1 .. n + 1 : i \in 1 .. n \/ i = n + 1
    BY <2>3
  <2>11. \A u \in Task : Pending(u)' <=> Pending(u) \/ u = t
    BY <2>2, <2>3, <2>6, <2>7, <2>10
  <2>12. QueuedOnce'
    <3>1. \A i, j \in 1 .. n + 1 : list'[i] = list'[j] => i = j
      BY <2>3, <2>5, <2>8, <2>10 DEF RequestInv
    <3>2. svc' \in {"create", "finish"} => \A i \in 1 .. n + 1 : list'[i] # p'
      BY <2>1, <2>2, <2>3, <2>5, <2>9, <2>10 DEF RequestInv
    <3> QED
      BY <2>3, <3>1, <3>2 DEF QueuedOnce
  <2>13. CallerWaits' /\ AllocExact'
    BY <1>0, <2>1, <2>11, ZenonT(60) DEF RequestInv, CallerWaits, AllocExact, ThreadTypes
  <2> QED
    BY <1>0, <2>12, <2>13 DEF RequestInv
<1>2. ASSUME NEW t \in Task, StartReturns(t)
      PROVE  RequestInv'
  <2>1. /\ call[t] = "waiting" /\ started[t] /\ alloc' = alloc \ {t}
        /\ call' = [call EXCEPT ![t] = "done"]
        /\ UNCHANGED <<list, wait, started, svc, p>>
    BY <1>2 DEF StartReturns, svcVars
  <2>2. (\A u : Pending(u)' <=> Pending(u)) /\ QueuedOnce'
    BY <2>1, PendingSame DEF RequestInv
  <2>3. ~Pending(t)
    BY <2>1 DEF RequestInv, CallerWaits
  <2> QED
    BY <1>0, <2>1, <2>2, <2>3, SMTT(60) DEF RequestInv, CallerWaits, AllocExact, ThreadTypes
<1>3. ASSUME UNCHANGED <<call, started, wait, alloc, list>>,
             \/ svc' = svc /\ p' = p
             \/ svc \notin {"create", "finish"} /\ svc' \notin {"create", "finish"}
             \/ svc = "create" /\ svc' = "finish" /\ p' = p
      PROVE  RequestInv'
  <2>1. (\A u : Pending(u)' <=> Pending(u)) /\ QueuedOnce'
    BY <1>3, PendingSame DEF RequestInv
  <2> QED
    BY <1>0, <1>3, <2>1 DEF RequestInv, CallerWaits, AllocExact
<1>4. CASE WakeupSoftirq
  BY <1>3, <1>4 DEF WakeupSoftirq, DevRun, callVars
<1>5. CASE Timeout \/ Softirq \/ DoSoftirq
  BY <1>3, <1>5 DEF Timeout, Softirq, DoSoftirq, Goto, callVars
<1>6. CASE Check
  <2>1. CASE Busy \/ list = <<>>
    BY <1>3, <1>6, <2>1 DEF Check, callVars
  <2>2. CASE ~(Busy \/ list = <<>>)
    <3>1. /\ p' = Head(list) /\ list' = Tail(list) /\ svc' = "create"
          /\ svc = "check" /\ UNCHANGED <<call, started, wait, alloc>>
      BY <1>6, <2>2 DEF Check, callVars
    <3> DEFINE n == Len(list)
    <3>2. /\ n \in Nat /\ n # 0 /\ Len(list') = n - 1 /\ p' = list[1]
          /\ \A i \in 1 .. n - 1 : list'[i] = list[i + 1]
      BY <1>0, <2>2, <3>1, HeadTailProperties, EmptySeq DEF ThreadTypes
    <3>3. \A u \in Task : Pending(u) <=> \E i \in 1 .. n : list[i] = u
      BY <3>1 DEF Pending
    <3>4. \A u \in Task : Pending(u)' <=>
            (\E i \in 1 .. n - 1 : list'[i] = u) \/ list[1] = u
      BY <3>1, <3>2 DEF Pending
    <3>5. \A i, j \in 1 .. n : list[i] = list[j] => i = j
      BY DEF RequestInv, QueuedOnce
    <3> HIDE DEF n
    <3>6. /\ \A i \in 1 .. n : i = 1 \/ i - 1 \in 1 .. n - 1
          /\ \A i \in 1 .. n - 1 : i + 1 \in 1 .. n /\ i + 1 # 1
          /\ 1 \in 1 .. n
      BY <3>2
    <3>7. ASSUME NEW u \in Task PROVE Pending(u)' <=> Pending(u)
      <4>1. ASSUME NEW i \in 1 .. n, list[i] = u, i # 1
            PROVE  \E j \in 1 .. n - 1 : list'[j] = u
        <5>1. i - 1 \in 1 .. n - 1 /\ (i - 1) + 1 = i
          BY <3>2, <3>6, <4>1
        <5> QED
          BY <3>2, <4>1, <5>1
      <4>2. ASSUME NEW i \in 1 .. n - 1, list'[i] = u
            PROVE  \E j \in 1 .. n : list[j] = u
        BY <3>2, <3>6, <4>2
      <4> QED
        BY <3>3, <3>4, <3>6, <4>1, <4>2
    <3>8. QueuedOnce'
      <4>1. \A i, j \in 1 .. n - 1 : list'[i] = list'[j] => i = j
        <5> SUFFICES ASSUME NEW i \in 1 .. n - 1, NEW j \in 1 .. n - 1,
                            list'[i] = list'[j]
                     PROVE  i = j
          OBVIOUS
        <5>1. list[i + 1] = list[j + 1] /\ i + 1 \in 1 .. n /\ j + 1 \in 1 .. n
          BY <3>2, <3>6
        <5>2. i + 1 = j + 1
          BY <3>5, <5>1
        <5> QED
          BY <5>2, <3>2
      <4>2. \A i \in 1 .. n - 1 : list'[i] # p'
        BY <3>2, <3>5, <3>6
      <4> QED
        BY <3>2, <4>1, <4>2 DEF QueuedOnce
    <3> QED
      BY <1>0, <3>1, <3>7, <3>8 DEF RequestInv, CallerWaits, AllocExact
  <2> QED
    BY <2>1, <2>2
<1>7. CASE Create
  BY <1>3, <1>7 DEF Create, Made, callVars
<1>8. CASE Finish
  <2>1. /\ svc = "finish" /\ svc' = "blocked" /\ p' = p /\ p \in Task
        /\ UNCHANGED <<call, wait, list>>
        /\ wait[p] => started' = [started EXCEPT ![p] = TRUE] /\ alloc' = alloc
        /\ ~wait[p] => alloc' = alloc \ {p} /\ started' = started
    BY <1>0, <1>8 DEF Finish, callVars, ThreadTypes
  <2>2. Pending(p) /\ \A i \in 1 .. Len(list) : list[i] # p
    BY <2>1 DEF Pending, RequestInv, QueuedOnce
  <2>3. \A u \in Task : Pending(u)' <=> Pending(u) /\ u # p
    BY <2>1, <2>2 DEF Pending
  <2>4. QueuedOnce'
    BY <2>1 DEF RequestInv, QueuedOnce
  <2>5. CASE wait[p]
    BY <1>0, <2>1, <2>2, <2>3, <2>4, <2>5
       DEF RequestInv, CallerWaits, AllocExact, ThreadTypes
  <2>6. CASE ~wait[p]
    BY <1>0, <2>1, <2>2, <2>3, <2>4, <2>6
       DEF RequestInv, CallerWaits, AllocExact, ThreadTypes
  <2> QED
    BY <2>5, <2>6
<1>9. ASSUME NEW n \in 1 .. Len(thread), Stub(n)
      PROVE  RequestInv'
  BY <1>3, <1>9 DEF Stub, TakeEsp, TakeEip, TakePrev, Take, callVars, svcVars
<1>10. CASE UNCHANGED vars
  BY <1>3, <1>10 DEF vars
<1> QED
  BY <1>1, <1>2, <1>4, <1>5, <1>6, <1>7, <1>8, <1>9, <1>10 DEF Next, Service

\* The service thread and a waiting caller use a request only while it is
\* allocated, and it is freed when both are through, also when a thread cannot be
\* created.
THEOREM RequestsAlive == Spec => []RequestAlive
<1>1. Init => RequestInv
  <2> SUFFICES ASSUME Init PROVE RequestInv
    OBVIOUS
  <2>1. Len(list) = 0
    BY DEF Init
  <2>2. 1 .. Len(list) = {}
    BY <2>1
  <2> QED
    BY <2>2, ThreadTypesInit
       DEF Init, RequestInv, QueuedOnce, CallerWaits, AllocExact, Pending
<1>2. RequestInv => RequestAlive
  <2> SUFFICES ASSUME RequestInv PROVE RequestAlive
    OBVIOUS
  <2>1. ThreadTypes /\ \A i \in 1 .. Len(list) : list[i] \in Task
    BY ElementOfSeq DEF RequestInv, ThreadTypes
  <2>2. list = <<>> => 1 .. Len(list) = {}
    <3>1. Len(<<>>) = 0 /\ 1 .. 0 = {}
      OBVIOUS
    <3> QED
      BY <3>1
  <2>3. ASSUME \A t \in Task : call[t] # "waiting", list = <<>>, svc = "blocked"
        PROVE  alloc = {}
    <3>1. \A t \in Task : ~Pending(t)
      BY <2>2, <2>3 DEF Pending
    <3> QED
      BY <2>1, <2>3, <3>1 DEF RequestInv, AllocExact, ThreadTypes
  <2> QED
    BY <2>1, <2>3 DEF RequestInv, AllocExact, Pending, RequestAlive, ThreadTypes
<1> QED
  BY <1>1, <1>2, RequestInvStep, PTL DEF Spec

-----------------------------------------------------------------------------
(* The mailbox.                                                            *)

\* The tasks that have left the list.
Taken == IF svc = "create" THEN Len(thread) + 1 ELSE Len(thread)

\* The list is what is left of the tasks queued, each of them once.
InOrder ==
  /\ Len(order) = Taken + Len(list)
  /\ \A i \in 1 .. Len(list) : list[i] = order[Taken + i]
  /\ \A i, j \in 1 .. Len(order) : order[i] = order[j] => i = j
  /\ \A t \in Task : call[t] = "idle" => \A i \in 1 .. Len(order) : order[i] # t

\* The service thread works on the last task taken and notes its thread.
Working ==
  /\ svc \in {"create", "finish"} => Taken > 0 /\ p = order[Taken]
  /\ svc = "finish" => tid[p] = Taken

\* The mailbox holds fields of the last task taken, until its thread takes
\* them; the other threads have their stack and their entry point.
Mailbox ==
  /\ \A n \in 1 .. Len(thread) :
       n < Taken => thread[n].at \in {"adding", "running"}
  /\ svc = "create" => mail.esp = order[Taken] /\ mail.eip = order[Taken]
  /\ svc # "create" /\ Taken > 0 =>
       /\ mail.esp = IF thread[Taken].at = "stack" THEN order[Taken] ELSE 0
       /\ mail.eip = IF thread[Taken].at \in {"stack", "entry"}
                       THEN order[Taken] ELSE 0
  /\ mail.prev # 0 => Taken > 0 /\ mail.prev = order[Taken]

\* A thread has the fields of its own task.
Fields ==
  \A n \in 1 .. Len(thread) :
    /\ thread[n].at # "stack" => thread[n].esp = order[n]
    /\ thread[n].at \in {"adding", "running"} => thread[n].eip = order[n]
    /\ thread[n].at # "running" => thread[n].prev = 0

\* The n-th thread is made and has taken prev.
RunsNow(n) == n <= Len(thread) /\ thread[n].at = "running"

\* A boot task before the n-th has taken a prev that was not its own.
Stolen(n) ==
  \E m \in 1 .. n - 1 :
    m <= Len(thread) /\ order[m] \in Boot /\ thread[m].prev # 0

\* The prev of a task is in the mailbox or with its thread, or was stolen.
PrevKept ==
  \A n \in 1 .. Taken : order[n] \notin Boot =>
    \/ Stolen(n)
    \/ IF RunsNow(n) THEN thread[n].prev = order[n] ELSE mail.prev = order[n]

\* The caller learns the thread of its own task.
Known ==
  \A t \in Task :
    /\ started[t] => tid[t] \in 1 .. Len(thread) /\ order[tid[t]] = t
    /\ call[t] = "done" /\ wait[t] =>
         rc[t] \in 1 .. Len(thread) /\ order[rc[t]] = t

\* The inductive invariant of the mailbox.
MailInv == /\ ThreadTypes
           /\ InOrder /\ Working /\ Mailbox /\ Fields /\ PrevKept /\ Known

\* The lengths are naturals, and every thread made is of a task taken.
LEMMA Lengths ==
  ASSUME MailInv
  PROVE  /\ Len(thread) \in Nat /\ Len(order) \in Nat /\ Len(list) \in Nat
         /\ Taken \in Nat /\ Len(thread) <= Taken /\ Taken <= Len(order)
         /\ svc # "create" => Taken = Len(thread)
         /\ svc = "create" => Taken = Len(thread) + 1
         /\ \A i \in 1 .. Len(order) : order[i] \in Task /\ order[i] # 0
         /\ 0 \notin Task
<1> DEFINE n == Len(thread)  m == Len(order)  l == Len(list)
<1>1. n \in Nat /\ m \in Nat /\ l \in Nat
  BY LenProperties DEF MailInv, ThreadTypes
<1>2. Taken = IF svc = "create" THEN n + 1 ELSE n
  BY DEF Taken
<1>3. m = Taken + l
  BY DEF MailInv, InOrder
<1>4. 0 \notin Task /\ \A i \in 1 .. m : order[i] \in Task
  BY ElementOfSeq, ThreadAssumption DEF MailInv, ThreadTypes
<1> HIDE DEF n, m, l
<1>5. /\ Taken \in Nat /\ n <= Taken /\ Taken <= m
  BY <1>1, <1>2, <1>3
<1> QED
  BY <1>1, <1>2, <1>4, <1>5 DEF n, m, l

\* LX_StartNewTask appends to the list and to the order alike.
LEMMA MailStart ==
  ASSUME MailInv, ThreadTypes', NEW t \in Task, NEW w \in BOOLEAN,
         StartNewTask(t, w)
  PROVE  MailInv'
<1>1. /\ call[t] = "idle"
      /\ wait' = [wait EXCEPT ![t] = w]
      /\ started' = [started EXCEPT ![t] = FALSE]
      /\ list' = Append(list, t) /\ order' = Append(order, t)
      /\ call' = [call EXCEPT ![t] = IF w THEN "waiting" ELSE "done"]
      /\ UNCHANGED <<tid, rc, mail, p, thread>>
  BY DEF StartNewTask
<1>2. svc' = svc \/ (svc = "blocked" /\ svc' = "ready")
  BY DEF StartNewTask, DevRun
<1>3. Taken' = Taken
  BY <1>1, <1>2 DEF Taken
<1>4. ThreadTypes /\ InOrder /\ Working /\ Mailbox /\ Fields /\ PrevKept /\ Known
  BY DEF MailInv
<1> DEFINE n == Len(thread)  m == Len(order)  l == Len(list)
<1>5. /\ n \in Nat /\ m \in Nat /\ l \in Nat /\ Taken \in Nat
      /\ n <= Taken /\ Taken <= m
  BY Lengths
<1>6. /\ Len(order') = m + 1 /\ order'[m + 1] = t
      /\ \A i \in 1 .. m : order'[i] = order[i]
  BY <1>1, <1>4, AppendProperties DEF ThreadTypes
<1>7. /\ Len(list') = l + 1 /\ list'[l + 1] = t
      /\ \A i \in 1 .. l : list'[i] = list[i]
  BY <1>1, <1>4, AppendProperties DEF ThreadTypes
<1>8. /\ m = Taken + l
      /\ \A i \in 1 .. l : list[i] = order[Taken + i]
      /\ \A i, j \in 1 .. m : order[i] = order[j] => i = j
      /\ \A u \in Task : call[u] = "idle" => \A i \in 1 .. m : order[i] # u
  BY <1>4 DEF InOrder
<1>9. InOrder'
  <2> HIDE DEF n, m, l
  <2>1. m + 1 = Taken + (l + 1)
    BY <1>5, <1>8
  <2>2. ASSUME NEW i \in 1 .. l + 1 PROVE list'[i] = order'[Taken + i]
    <3>1. CASE i = l + 1
      <4>1. Taken + i = m + 1
        BY <2>1, <3>1
      <4> QED
        BY <1>6, <1>7, <3>1, <4>1
    <3>2. CASE i # l + 1
      <4>1. i \in 1 .. l /\ Taken + i \in 1 .. m
        BY <1>5, <1>8, <3>2
      <4> QED
        BY <1>6, <1>7, <1>8, <4>1
    <3> QED
      BY <3>1, <3>2
  <2>3. \A i \in 1 .. m + 1 : i \in 1 .. m \/ i = m + 1
    BY <1>5
  <2>4. \A i, j \in 1 .. m + 1 : order'[i] = order'[j] => i = j
    BY <1>1, <1>6, <1>8, <2>3
  <2>5. \A u \in Task : call'[u] = "idle" =>
          \A i \in 1 .. m + 1 : order'[i] # u
    BY <1>1, <1>4, <1>6, <1>8, <2>3 DEF ThreadTypes
  <2>6. Len(order') = Taken' + Len(list')
    BY <1>3, <1>6, <1>7, <2>1
  <2> QED
    BY <1>3, <1>6, <1>7, <2>2, <2>4, <2>5, <2>6 DEF InOrder
<1>10. /\ Working' /\ Mailbox'
  <2>1. Taken > 0 => order'[Taken] = order[Taken]
    <3> HIDE DEF n, m, l
    <3>1. Taken > 0 => Taken \in 1 .. m
      BY <1>5
    <3> QED
      BY <1>6, <3>1
  <2> QED
    BY <1>1, <1>2, <1>3, <1>4, <1>5, <2>1 DEF Working, Mailbox
<1>11. \A i \in 1 .. n : i \in 1 .. m /\ order'[i] = order[i]
  <2> HIDE DEF n, m, l
  <2> QED
    BY <1>5, <1>6
<1>12. Fields'
  BY <1>1, <1>4, <1>11 DEF Fields
<1>13. PrevKept'
  <2>1. \A i \in 1 .. Taken : order'[i] = order[i]
    <3> HIDE DEF n, m, l
    <3> QED
      BY <1>5, <1>6
  <2>2. ASSUME NEW i \in 1 .. Taken, Stolen(i) PROVE Stolen(i)'
    <3>1. PICK k \in 1 .. i - 1 :
            k <= n /\ order[k] \in Boot /\ thread[k].prev # 0
      BY <2>2 DEF Stolen
    <3>2. k \in 1 .. Taken
      BY <1>5, <3>1
    <3> QED
      BY <1>1, <2>1, <3>1, <3>2 DEF Stolen
  <2> QED
    BY <1>1, <1>3, <1>4, <2>1, <2>2 DEF PrevKept, RunsNow
<1>14. Known'
  BY <1>1, <1>4, <1>11 DEF Known, ThreadTypes
<1> QED
  BY <1>9, <1>10, <1>12, <1>13, <1>14 DEF MailInv

\* A step that leaves the mailbox, the threads and the lists alone.
LEMMA MailSame ==
  ASSUME MailInv, ThreadTypes',
         UNCHANGED <<call, wait, started, tid, rc, list, order, mail, thread, p>>,
         \/ svc' = svc
         \/ svc \notin {"create", "finish"} /\ svc' \notin {"create", "finish"}
  PROVE  MailInv'
<1>1. Taken' = Taken
  BY DEF Taken
<1> USE <1>1 DEF MailInv
<1>2. InOrder' /\ Working' /\ Mailbox'
  BY DEF InOrder, Working, Mailbox
<1>3. Fields' /\ Known'
  BY DEF Fields, Known
<1>4. PrevKept'
  BY DEF PrevKept, Stolen, RunsNow
<1> QED
  BY <1>2, <1>3, <1>4

\* The next task goes into the mailbox only when the last thread has taken all
\* of the task before.
LEMMA MailCheck ==
  ASSUME MailInv, ThreadTypes', Check, ~(Busy \/ list = <<>>)
  PROVE  MailInv'
<1>1. /\ p' = Head(list) /\ list' = Tail(list) /\ svc = "check" /\ svc' = "create"
      /\ mail' = [esp |-> Head(list), eip |-> Head(list),
                  prev |-> Prev(Head(list))]
      /\ mail = Empty
      /\ UNCHANGED <<call, wait, started, tid, rc, order, thread>>
  BY DEF Check, Busy, callVars
<1>2. ThreadTypes /\ InOrder /\ Working /\ Mailbox /\ Fields /\ PrevKept /\ Known
  BY DEF MailInv
<1> DEFINE n == Len(thread)  m == Len(order)  l == Len(list)
<1>3. /\ n \in Nat /\ m \in Nat /\ l \in Nat /\ Taken = n
      /\ \A i \in 1 .. m : order[i] \in Task /\ order[i] # 0
  BY <1>1, Lengths
<1>4. Taken' = n + 1
  BY <1>1 DEF Taken
<1>5. /\ l # 0 /\ Len(list') = l - 1 /\ Head(list) = list[1]
      /\ \A i \in 1 .. l - 1 : list'[i] = list[i + 1]
  BY <1>1, <1>2, HeadTailProperties, EmptySeq DEF ThreadTypes
<1>6. /\ m = n + l
      /\ \A i \in 1 .. l : list[i] = order[n + i]
  BY <1>2, <1>3 DEF InOrder
<1>7. mail.esp = 0 /\ mail.eip = 0 /\ mail.prev = 0
  BY <1>1 DEF Empty
<1>8. \A i \in 1 .. n : thread[i].at \in {"adding", "running"}
  <2>1. \A i \in 1 .. n : thread[i] \in Record
    BY <1>2, ElementOfSeq DEF ThreadTypes
  <2>2. \A i \in 1 .. n : i < n => thread[i].at \in {"adding", "running"}
    BY <1>2, <1>3 DEF Mailbox
  <2>3. n > 0 => /\ mail.esp = IF thread[n].at = "stack" THEN order[n] ELSE 0
                 /\ mail.eip = IF thread[n].at \in {"stack", "entry"}
                                 THEN order[n] ELSE 0
    BY <1>1, <1>2, <1>3 DEF Mailbox
  <2> HIDE DEF n, m, l
  <2>4. n > 0 => n \in 1 .. m /\ n \in 1 .. n
    BY <1>3, <1>6
  <2>5. n > 0 => thread[n].at \in {"adding", "running"}
    BY <1>3, <1>7, <2>1, <2>3, <2>4 DEF Record
  <2>6. \A i \in 1 .. n : i < n \/ (i = n /\ n > 0)
    BY <1>3
  <2> QED
    BY <2>2, <2>5, <2>6
<1>9. Head(list) = order[n + 1] /\ n + 1 \in 1 .. m /\ order[n + 1] # 0
  <2> HIDE DEF n, m, l
  <2>1. 1 \in 1 .. l /\ n + 1 \in 1 .. m
    BY <1>3, <1>5, <1>6
  <2> QED
    BY <1>3, <1>5, <1>6, <2>1
<1>10. InOrder'
  <2>1. /\ \A i, j \in 1 .. m : order[i] = order[j] => i = j
        /\ \A u \in Task : call[u] = "idle" => \A i \in 1 .. m : order[i] # u
    BY <1>2 DEF InOrder
  <2>2. m = (n + 1) + (l - 1)
        /\ \A i \in 1 .. l - 1 : list'[i] = order[(n + 1) + i]
    <3> HIDE DEF n, m, l
    <3>1. m = (n + 1) + (l - 1)
      BY <1>3, <1>6
    <3>2. ASSUME NEW i \in 1 .. l - 1 PROVE list'[i] = order[(n + 1) + i]
      <4>1. i + 1 \in 1 .. l /\ n + (i + 1) = (n + 1) + i
        BY <1>3
      <4> QED
        BY <1>5, <1>6, <4>1
    <3> QED
      BY <3>1, <3>2
  <2> QED
    BY <1>1, <1>4, <1>5, <2>1, <2>2 DEF InOrder
<1>11. Working'
  BY <1>1, <1>3, <1>4, <1>9 DEF Working
<1>12. Mailbox'
  <2>1. /\ mail'.esp = order[n + 1] /\ mail'.eip = order[n + 1]
        /\ mail'.prev # 0 => mail'.prev = order[n + 1]
    BY <1>1, <1>9 DEF Prev
  <2> QED
    BY <1>1, <1>3, <1>4, <1>8, <2>1 DEF Mailbox
<1>13. Fields' /\ Known'
  BY <1>1, <1>2 DEF Fields, Known
<1>14. PrevKept'
  <2> SUFFICES ASSUME NEW i \in 1 .. n + 1, order[i] \notin Boot
               PROVE  Stolen(i)' \/ IF RunsNow(i)' THEN thread[i].prev = order[i]
                                    ELSE mail'.prev = order[i]
    BY <1>1, <1>4 DEF PrevKept
  <2>1. CASE i = n + 1
    <3>1. mail'.prev = order[i]
      BY <1>1, <1>9, <2>1 DEF Prev
    <3>2. ~RunsNow(i)'
      <4>1. ~(i <= n)
        BY <1>3, <2>1
      <4> QED
        BY <1>1, <4>1 DEF RunsNow
    <3> QED
      BY <3>1, <3>2
  <2>2. CASE i # n + 1
    <3>1. i \in 1 .. n /\ i \in 1 .. m
      <4> HIDE DEF n, m, l
      <4> QED
        BY <1>3, <1>6, <2>2
    <3>2. Stolen(i) => Stolen(i)'
      BY <1>1 DEF Stolen
    <3>3. RunsNow(i)' <=> RunsNow(i)
      BY <1>1 DEF RunsNow
    <3>4. mail.prev # order[i]
      BY <1>3, <1>7, <3>1
    <3> QED
      BY <1>1, <1>2, <1>3, <3>1, <3>2, <3>3, <3>4 DEF PrevKept
  <2> QED
    BY <2>1, <2>2
<1> QED
  BY <1>10, <1>11, <1>12, <1>13, <1>14 DEF MailInv

\* The thread made is that of the task in the mailbox.
LEMMA MailCreate ==
  ASSUME ~CreateFails, MailInv, ThreadTypes', Create
  PROVE  MailInv'
<1> DEFINE new == [at |-> "stack", esp |-> 0, eip |-> 0, prev |-> 0]
           n == Len(thread)  m == Len(order)
<1>1. /\ svc = "create" /\ svc' = "finish"
      /\ thread' = Append(thread, new)
      /\ tid' = [tid EXCEPT ![p] = n + 1]
      /\ UNCHANGED <<call, wait, started, rc, list, order, mail, p>>
  BY DEF Create, Made, callVars
<1>2. ThreadTypes /\ InOrder /\ Working /\ Mailbox /\ Fields /\ PrevKept /\ Known
  BY DEF MailInv
<1>3. /\ n \in Nat /\ m \in Nat /\ Taken = n + 1 /\ Taken <= m
      /\ p \in Task /\ p = order[n + 1]
  BY <1>1, <1>2, Lengths DEF ThreadTypes, Working
<1>4. new \in Record /\ new.at = "stack" /\ new.prev = 0
  BY DEF Record, Value
<1> HIDE DEF new
<1>5. /\ Len(thread') = n + 1 /\ thread'[n + 1] = new
      /\ \A i \in 1 .. n : thread'[i] = thread[i]
  <2> HIDE DEF Record
  <2> QED
    BY <1>1, <1>2, <1>4, AppendProperties DEF ThreadTypes
<1>6. Taken' = n + 1
  BY <1>1, <1>5 DEF Taken
<1>7. \A i \in 1 .. n + 1 : i \in 1 .. n \/ i = n + 1
  <2> HIDE DEF n
  <2> QED
    BY <1>3
<1>8. InOrder'
  BY <1>1, <1>2, <1>3, <1>6 DEF InOrder
<1>9. Working'
  BY <1>1, <1>2, <1>3, <1>6 DEF Working, ThreadTypes
<1>10. Mailbox'
  <2>1. ASSUME NEW i \in 1 .. n + 1, i < n + 1
        PROVE  thread'[i].at \in {"adding", "running"}
    <3>1. i \in 1 .. n /\ i < Taken
      BY <1>3, <2>1
    <3> QED
      BY <1>2, <1>5, <3>1 DEF Mailbox
  <2>2. /\ mail'.esp = order[n + 1] /\ mail'.eip = order[n + 1]
        /\ mail'.prev # 0 => mail'.prev = order[n + 1]
        /\ thread'[n + 1].at = "stack"
    BY <1>1, <1>2, <1>3, <1>4, <1>5 DEF Mailbox
  <2> QED
    BY <1>1, <1>3, <1>5, <1>6, <2>1, <2>2 DEF Mailbox
<1>11. Fields'
  <2> SUFFICES ASSUME NEW i \in 1 .. n + 1
               PROVE  LET h == thread'[i] IN
                      /\ h.at # "stack" => h.esp = order[i]
                      /\ h.at \in {"adding", "running"} => h.eip = order[i]
                      /\ h.at # "running" => h.prev = 0
    BY <1>1, <1>5 DEF Fields
  <2>1. CASE i = n + 1
    BY <1>4, <1>5, <2>1
  <2>2. CASE i \in 1 .. n
    BY <1>2, <1>5, <2>2 DEF Fields
  <2> QED
    BY <1>7, <2>1, <2>2
<1>12. PrevKept'
  <2> SUFFICES ASSUME NEW i \in 1 .. n + 1, order[i] \notin Boot
               PROVE  Stolen(i)' \/ IF RunsNow(i)' THEN thread'[i].prev = order[i]
                                    ELSE mail.prev = order[i]
    BY <1>1, <1>6 DEF PrevKept
  <2>1. Stolen(i) => Stolen(i)'
    <3> SUFFICES ASSUME NEW k \in 1 .. i - 1, k <= n, order[k] \in Boot,
                        thread[k].prev # 0
                 PROVE  Stolen(i)'
      BY DEF Stolen
    <3>1. k \in 1 .. n /\ k <= n + 1
      BY <1>3
    <3> QED
      BY <1>1, <1>5, <3>1 DEF Stolen
  <2>2. RunsNow(i)' => RunsNow(i) /\ thread'[i] = thread[i]
    <3> SUFFICES ASSUME thread'[i].at = "running"
                 PROVE  i <= n /\ thread'[i] = thread[i]
      BY DEF RunsNow
    <3>1. i # n + 1
      BY <1>4, <1>5
    <3>2. i \in 1 .. n
      BY <1>7, <3>1
    <3> QED
      BY <1>3, <1>5, <3>2
  <2>3. RunsNow(i) => RunsNow(i)'
    <3> SUFFICES ASSUME i <= n, thread[i].at = "running" PROVE RunsNow(i)'
      BY DEF RunsNow
    <3>1. i \in 1 .. n /\ i <= n + 1
      BY <1>3
    <3> QED
      BY <1>5, <3>1 DEF RunsNow
  <2> QED
    BY <1>2, <1>3, <2>1, <2>2, <2>3 DEF PrevKept
<1>13. Known'
  <2>1. \A i \in 1 .. n : i \in 1 .. n + 1
    <3> HIDE DEF n
    <3> QED
      BY <1>3
  <2>2. n + 1 \in 1 .. n + 1
    BY <1>3
  <2> QED
    BY <1>1, <1>2, <1>3, <1>5, <2>1, <2>2 DEF Known, ThreadTypes
<1> QED
  BY <1>8, <1>9, <1>10, <1>11, <1>12, <1>13 DEF MailInv

\* The caller is told of a thread that is made, and learns its id.
LEMMA MailReturn ==
  ASSUME MailInv, ThreadTypes', Finish \/ \E t \in Task : StartReturns(t)
  PROVE  MailInv'
<1>1. ThreadTypes /\ InOrder /\ Working /\ Mailbox /\ Fields /\ PrevKept /\ Known
  BY DEF MailInv
<1>2. /\ UNCHANGED <<list, order, tid, mail, thread, p>>
      /\ svc' = "create" <=> svc = "create"
      /\ svc' = "finish" => svc = "finish"
  BY DEF Finish, StartReturns, mailVars, svcVars
<1>3. Taken' = Taken
  BY <1>2 DEF Taken
<1>4. \A t \in Task : call'[t] = "idle" => call[t] = "idle"
  BY <1>1 DEF Finish, StartReturns, callVars, ThreadTypes
<1>5. InOrder' /\ Working' /\ Mailbox' /\ Fields'
  BY <1>1, <1>2, <1>3, <1>4 DEF InOrder, Working, Mailbox, Fields
<1>6. PrevKept'
  BY <1>1, <1>2, <1>3 DEF PrevKept, Stolen, RunsNow
<1>7. CASE Finish
  <2>1. /\ svc = "finish" /\ p \in Task /\ UNCHANGED <<call, wait, rc>>
        /\ started' = started \/ started' = [started EXCEPT ![p] = TRUE]
    BY <1>1, <1>7 DEF Finish, callVars, ThreadTypes
  <2>2. tid[p] \in 1 .. Len(thread) /\ order[tid[p]] = p
    <3>1. Taken \in Nat /\ Taken = Len(thread)
      BY <2>1, Lengths
    <3>2. Taken > 0 /\ p = order[Taken] /\ tid[p] = Taken
      BY <1>1, <2>1 DEF Working
    <3>3. Taken \in 1 .. Taken
      BY <3>1, <3>2
    <3> QED
      BY <3>1, <3>2, <3>3
  <2>3. Known'
    BY <1>1, <1>2, <2>1, <2>2 DEF Known, ThreadTypes
  <2> QED
    BY <1>5, <1>6, <2>3 DEF MailInv
<1>8. ASSUME NEW t \in Task, StartReturns(t)
      PROVE  MailInv'
  <2>1. /\ started[t] /\ rc' = [rc EXCEPT ![t] = tid[t]]
        /\ call' = [call EXCEPT ![t] = "done"] /\ UNCHANGED <<wait, started>>
    BY <1>8 DEF StartReturns
  <2>2. Known'
    BY <1>1, <1>2, <2>1 DEF Known, ThreadTypes
  <2> QED
    BY <1>5, <1>6, <2>2 DEF MailInv
<1> QED
  BY <1>7, <1>8

\* A thread that takes a field has that field, and the mailbox no longer has it;
\* the other threads and all the rest stay as they are.
LEMMA MailTake ==
  ASSUME MailInv, ThreadTypes', NEW k \in 1 .. Len(thread), Stub(k)
  PROVE  MailInv'
<1>1. ThreadTypes /\ InOrder /\ Working /\ Mailbox /\ Fields /\ PrevKept /\ Known
  BY DEF MailInv
<1>2. UNCHANGED <<call, wait, rc, list, started, tid, order, svc, p>>
  BY DEF Stub, TakeEsp, TakeEip, TakePrev, Take, callVars, svcVars
<1>3. PICK r \in Record :
        /\ thread' = [thread EXCEPT ![k] = r]
        /\ \/ /\ thread[k].at = "stack"
              /\ r.at = "entry" /\ r.esp = mail.esp /\ r.eip = thread[k].eip
              /\ r.prev = thread[k].prev
              /\ mail' = [mail EXCEPT !.esp = 0]
           \/ /\ thread[k].at = "entry"
              /\ r.at = "adding" /\ r.esp = thread[k].esp /\ r.eip = mail.eip
              /\ r.prev = thread[k].prev
              /\ mail' = [mail EXCEPT !.eip = 0]
           \/ /\ thread[k].at = "adding"
              /\ r.at = "running" /\ r.esp = thread[k].esp
              /\ r.eip = thread[k].eip /\ r.prev = mail.prev
              /\ mail' = [mail EXCEPT !.prev = 0]
  <2>0. /\ thread \in Seq(Record)
        /\ mail \in [esp : Value, eip : Value, prev : Value]
    BY <1>1 DEF ThreadTypes
  <2> HIDE DEF Record
  <2>1. CASE TakeEsp(k)
    BY <2>0, <2>1, TakeStep
  <2>2. CASE TakeEip(k)
    BY <2>0, <2>2, TakeStep
  <2>3. CASE TakePrev(k)
    BY <2>0, <2>3, TakeStep
  <2> QED
    BY <2>1, <2>2, <2>3 DEF Stub
<1>4. mail \in [esp : Value, eip : Value, prev : Value]
  BY <1>1 DEF ThreadTypes
<1> DEFINE n == Len(thread)  m == Len(order)
<1>5. /\ Len(thread') = n /\ thread'[k] = r
      /\ \A i \in 1 .. n : i # k => thread'[i] = thread[i]
  <2>1. Len(thread') = n
    BY TakeTypes, <1>1
  <2> HIDE DEF Record
  <2> QED
    BY <1>1, <1>3, <2>1, ExceptSeq DEF ThreadTypes
<1>6. Taken' = Taken
  BY <1>2, <1>5 DEF Taken
<1>7. /\ n \in Nat /\ m \in Nat /\ Taken \in Nat /\ n <= Taken /\ Taken <= m
      /\ svc # "create" => Taken = n
      /\ svc = "create" => Taken = n + 1
      /\ \A i \in 1 .. m : order[i] # 0
  BY Lengths
<1>8. /\ \A i, j \in 1 .. m : order[i] = order[j] => i = j
      /\ \A i \in 1 .. n : i < Taken => thread[i].at \in {"adding", "running"}
      /\ svc = "create" => mail.esp = order[Taken] /\ mail.eip = order[Taken]
      /\ svc # "create" /\ Taken > 0 =>
           /\ mail.esp = IF thread[Taken].at = "stack" THEN order[Taken] ELSE 0
           /\ mail.eip = IF thread[Taken].at \in {"stack", "entry"}
                           THEN order[Taken] ELSE 0
      /\ mail.prev # 0 => Taken > 0 /\ mail.prev = order[Taken]
  BY <1>1 DEF InOrder, Mailbox
<1> HIDE DEF n, m
<1>9. /\ k \in 1 .. n /\ k \in Nat /\ k > 0 /\ k <= Taken /\ k \in 1 .. Taken
      /\ k \in 1 .. m
      /\ \A i \in 1 .. Taken : i \in 1 .. m
  BY <1>7 DEF n
<1>10. thread[k].at \in {"stack", "entry"} => k = Taken /\ svc # "create"
  <2>1. ~(k < Taken) => k = Taken
    BY <1>7, <1>9
  <2>2. k = Taken => svc # "create"
    BY <1>7, <1>9
  <2> QED
    BY <1>8, <1>9, <2>1, <2>2
<1>11. InOrder' /\ Working'
  BY <1>1, <1>2, <1>6 DEF InOrder, Working
<1>12. Mailbox'
  <2>1. ASSUME NEW i \in 1 .. n, i < Taken
        PROVE  thread'[i].at \in {"adding", "running"}
    BY <1>3, <1>5, <1>8, <1>10, <2>1
  <2>2. svc = "create" => mail'.esp = order[Taken] /\ mail'.eip = order[Taken]
    BY <1>3, <1>4, <1>8, <1>10
  <2>3. ASSUME svc # "create", Taken > 0
        PROVE  /\ mail'.esp = IF thread'[Taken].at = "stack"
                                THEN order[Taken] ELSE 0
               /\ mail'.eip = IF thread'[Taken].at \in {"stack", "entry"}
                                THEN order[Taken] ELSE 0
    <3>1. CASE k = Taken
      BY <1>3, <1>4, <1>5, <1>8, <2>3, <3>1
    <3>2. CASE k # Taken
      <4>1. Taken \in 1 .. n
        BY <1>7, <2>3
      <4>2. thread'[Taken] = thread[Taken]
        BY <1>5, <3>2, <4>1
      <4>3. mail'.esp = mail.esp /\ mail'.eip = mail.eip
        BY <1>3, <1>4, <1>10, <3>2
      <4> QED
        BY <1>8, <2>3, <4>2, <4>3
    <3> QED
      BY <3>1, <3>2
  <2>4. mail'.prev # 0 => Taken > 0 /\ mail'.prev = order[Taken]
    BY <1>3, <1>4, <1>8
  <2> QED
    BY <1>2, <1>5, <1>6, <2>1, <2>2, <2>3, <2>4 DEF Mailbox, n
<1>13. Fields'
  <2> SUFFICES ASSUME NEW i \in 1 .. n
               PROVE  LET h == thread'[i] IN
                      /\ h.at # "stack" => h.esp = order[i]
                      /\ h.at \in {"adding", "running"} => h.eip = order[i]
                      /\ h.at # "running" => h.prev = 0
    BY <1>2, <1>5 DEF Fields, n
  <2>1. /\ thread[i].at # "stack" => thread[i].esp = order[i]
        /\ thread[i].at \in {"adding", "running"} => thread[i].eip = order[i]
        /\ thread[i].at # "running" => thread[i].prev = 0
    BY <1>1 DEF Fields, n
  <2>2. CASE i = k
    <3>1. thread[k].at \in {"stack", "entry"} => mail.eip = order[k]
      BY <1>8, <1>9, <1>10
    <3>2. thread[k].at = "stack" => mail.esp = order[k]
      BY <1>8, <1>9, <1>10
    <3> QED
      BY <1>3, <1>5, <2>1, <2>2, <3>1, <3>2
  <2>3. CASE i # k
    BY <1>5, <2>1, <2>3
  <2> QED
    BY <2>2, <2>3
<1>14. PrevKept'
  <2> SUFFICES ASSUME NEW i \in 1 .. Taken, order[i] \notin Boot, ~Stolen(i)'
               PROVE  IF RunsNow(i)' THEN thread'[i].prev = order[i]
                      ELSE mail'.prev = order[i]
    BY <1>2, <1>6 DEF PrevKept
  <2>1. ~(\E j \in 1 .. i - 1 :
            j <= n /\ order[j] \in Boot /\ thread'[j].prev # 0)
    BY <1>2, <1>5 DEF Stolen
  <2>2. thread[k].prev = 0
    BY <1>1, <1>3 DEF Fields, n
  <2>3. ~Stolen(i)
    <3> SUFFICES ASSUME NEW j \in 1 .. i - 1, j <= n, order[j] \in Boot,
                        thread[j].prev # 0
                 PROVE  FALSE
      BY DEF Stolen, n
    <3>1. j \in 1 .. n /\ j # k
      BY <1>7, <2>2
    <3> QED
      BY <1>5, <2>1, <3>1
  <2>4. IF RunsNow(i) THEN thread[i].prev = order[i] ELSE mail.prev = order[i]
    BY <1>1, <2>3 DEF PrevKept
  <2>5. CASE i # k
    <3>1. (RunsNow(i)' <=> RunsNow(i)) /\ (RunsNow(i) => thread'[i] = thread[i])
      <4>1. i <= n => i \in 1 .. n
        BY <1>7
      <4> QED
        BY <1>5, <2>5, <4>1 DEF RunsNow, n
    <3>2. CASE RunsNow(i)
      BY <2>4, <3>1, <3>2
    <3>3. CASE ~RunsNow(i)
      <4>1. mail.prev = order[i] /\ order[i] # 0 /\ i = Taken
        <5>1. mail.prev = order[i] /\ order[i] # 0 /\ Taken \in 1 .. m
          BY <1>7, <1>9, <2>4, <3>3
        <5> QED
          BY <1>8, <1>9, <5>1
      <4>2. thread[k].at # "adding"
        <5> SUFFICES ASSUME thread[k].at = "adding" PROVE FALSE
          OBVIOUS
        <5>1. thread'[k].prev # 0
          BY <1>3, <1>5, <4>1
        <5>2. k \in 1 .. i - 1 /\ k <= n
          BY <1>7, <1>9, <2>5, <4>1
        <5>3. order[k] \notin Boot
          BY <2>1, <5>1, <5>2
        <5>4. Stolen(k) \/ mail.prev = order[k]
          BY <1>1, <1>9, <5>3 DEF PrevKept, RunsNow
        <5>5. mail.prev # order[k]
          BY <1>8, <1>9, <2>5, <4>1
        <5>6. PICK j \in 1 .. k - 1 :
                j <= n /\ order[j] \in Boot /\ thread[j].prev # 0
          BY <5>4, <5>5 DEF Stolen, n
        <5>7. j \in 1 .. i - 1
          BY <1>9, <5>2
        <5> QED
          BY <2>3, <5>6, <5>7 DEF Stolen, n
      <4>3. mail'.prev = mail.prev
        BY <1>3, <1>4, <4>2
      <4> QED
        BY <3>1, <3>3, <4>1, <4>3
    <3> QED
      BY <3>2, <3>3
  <2>6. CASE i = k
    <3>1. ~RunsNow(k) /\ mail.prev = order[k]
      BY <1>3, <2>4, <2>6 DEF RunsNow
    <3>2. RunsNow(k)' <=> r.at = "running"
      BY <1>5, <1>7, <1>9 DEF RunsNow
    <3> QED
      BY <1>3, <1>4, <1>5, <2>6, <3>1, <3>2
  <2> QED
    BY <2>5, <2>6
<1>15. Known'
  BY <1>1, <1>2, <1>5 DEF Known, n
<1> QED
  BY <1>11, <1>12, <1>13, <1>14, <1>15 DEF MailInv

\* The mailbox is empty at first.
LEMMA MailInvInit == Init => MailInv
<1> SUFFICES ASSUME Init PROVE MailInv
  OBVIOUS
<1>1. ThreadTypes
  BY ThreadTypesInit
<1>2. Len(thread) = 0 /\ Len(list) = 0 /\ Len(order) = 0 /\ Taken = 0
  BY DEF Init, Taken
<1>3. InOrder /\ Working
  BY <1>2 DEF Init, InOrder, Working
<1>4. Mailbox /\ Fields
  BY <1>2 DEF Init, Mailbox, Fields, Empty
<1>5. PrevKept /\ Known
  BY <1>2 DEF Init, PrevKept, Known
<1> QED
  BY <1>1, <1>3, <1>4, <1>5 DEF MailInv

\* Every step keeps the mailbox in order, as long as the threads can be made.
LEMMA MailInvStep ==
  ASSUME ~CreateFails PROVE MailInv /\ [Next]_vars => MailInv'
<1> SUFFICES ASSUME MailInv, [Next]_vars PROVE MailInv'
  OBVIOUS
<1>0. ThreadTypes'
  BY ThreadTypesStep DEF MailInv
<1>1. ASSUME NEW t \in Task, NEW w \in BOOLEAN, StartNewTask(t, w)
      PROVE  MailInv'
  BY <1>0, <1>1, MailStart
<1>2. ASSUME NEW t \in Task, StartReturns(t) PROVE MailInv'
  BY <1>0, <1>2, MailReturn
<1>3. CASE WakeupSoftirq
  BY <1>0, <1>3, MailSame DEF WakeupSoftirq, DevRun, callVars, mailVars
<1>4. CASE Timeout
  BY <1>0, <1>4, MailSame DEF Timeout, Goto, callVars, mailVars
<1>5. CASE Softirq
  BY <1>0, <1>5, MailSame DEF Softirq, Goto, callVars, mailVars
<1>6. CASE DoSoftirq
  BY <1>0, <1>6, MailSame DEF DoSoftirq, Goto, callVars, mailVars
<1>7. CASE Check
  <2>1. CASE Busy \/ list = <<>>
    BY <1>0, <1>7, <2>1, MailSame DEF Check, callVars
  <2>2. CASE ~(Busy \/ list = <<>>)
    BY <1>0, <1>7, <2>2, MailCheck
  <2> QED
    BY <2>1, <2>2
<1>8. CASE Create
  BY <1>0, <1>8, MailCreate
<1>9. CASE Finish
  BY <1>0, <1>9, MailReturn
<1>10. ASSUME NEW n \in 1 .. Len(thread), Stub(n) PROVE MailInv'
  BY <1>0, <1>10, MailTake
<1>11. CASE UNCHANGED vars
  BY <1>0, <1>11, MailSame DEF vars
<1> QED
  BY <1>1, <1>2, <1>3, <1>4, <1>5, <1>6, <1>7, <1>8, <1>9, <1>10, <1>11
     DEF Next, Service

\* As long as VDHCREATETHREAD does not fail, the n-th thread made runs the n-th
\* task queued: lx_started_task never mixes up the fields of two tasks, except
\* for the prev a boot task takes, and LX_StartNewTask returns the thread of the
\* task it was called for.  The hypothesis is needed: after a failure the next
\* thread takes the fields of the task that got none.
THEOREM ThreadsGetOwnTask ==
  ASSUME ~CreateFails PROVE Spec => []OwnTask
<1>1. ASSUME MailInv PROVE OwnTask
  <2>1. Fields /\ PrevKept /\ Known
    BY <1>1 DEF MailInv
  <2>2. Len(thread) \in Nat /\ Taken \in Nat /\ Len(thread) <= Taken
    BY <1>1, Lengths
  <2>3. \A n \in 1 .. Len(thread) : n \in 1 .. Taken
    <3> DEFINE l == Len(thread)
    <3>1. l \in Nat /\ Taken \in Nat /\ l <= Taken
      BY <2>2
    <3> HIDE DEF l
    <3>2. \A n \in 1 .. l : n \in 1 .. Taken
      BY <3>1
    <3> QED
      BY <3>2 DEF l
  <2>4. ASSUME NEW n \in 1 .. Len(thread), thread[n].at = "running",
               order[n] \notin Boot
        PROVE  \/ thread[n].prev = order[n]
               \/ \E m \in 1 .. n - 1 : order[m] \in Boot /\ thread[m].prev # 0
    <3>1. RunsNow(n)
      BY <2>2, <2>4 DEF RunsNow
    <3> QED
      BY <2>1, <2>3, <2>4, <3>1 DEF PrevKept, Stolen
  <2> QED
    BY <2>1, <2>4 DEF OwnTask, Fields, Known
<1> QED
  BY <1>1, MailInvInit, MailInvStep, PTL DEF Spec

=============================================================================
