---------------------------- MODULE LxSchedProofs ----------------------------
(***************************************************************************)
(* Proofs about the tasks of the driver and the run queue, for every set   *)
(* of kernel tasks and of OS/2 threads that enter it.                      *)
(***************************************************************************)
EXTENDS LxSched, SequenceTheorems, TLAPS

-----------------------------------------------------------------------------
(* The queue operations.                                                   *)

\* A queue has a task once.
Distinct(q) == \A i, j \in DOMAIN q : q[i] = q[j] => i = j

\* A task that is put at the end of the queue.
LEMMA AppendQueue ==
  ASSUME NEW S, NEW q \in Seq(S), NEW t \in S, Distinct(q), ~In(q, t)
  PROVE  /\ Append(q, t) \in Seq(S) /\ Len(Append(q, t)) = Len(q) + 1
         /\ Distinct(Append(q, t))
         /\ \A s : In(Append(q, t), s) <=> In(q, s) \/ s = t
<1> DEFINE a == Append(q, t)  n == Len(q)
<1>1. /\ n \in Nat /\ DOMAIN q = 1 .. n
      /\ a \in Seq(S) /\ Len(a) = n + 1
      /\ \A i \in 1 .. n : a[i] = q[i]
      /\ a[n + 1] = t
  BY AppendProperties, LenProperties
<1>2. DOMAIN a = 1 .. n + 1
  BY <1>1, LenProperties
<1> HIDE DEF a, n
<1>3. /\ n + 1 \in 1 .. n + 1
      /\ \A i \in 1 .. n + 1 : i \in 1 .. n \/ i = n + 1
      /\ \A i \in 1 .. n : i \in 1 .. n + 1 /\ i # n + 1
  BY <1>1
<1>4. Distinct(a)
  BY <1>1, <1>2, <1>3 DEF Distinct, In
<1>5. ASSUME NEW s PROVE In(a, s) <=> In(q, s) \/ s = t
  <2>1. In(a, s) => In(q, s) \/ s = t
    BY <1>1, <1>2, <1>3 DEF In
  <2>2. In(q, s) => In(a, s)
    <3> SUFFICES ASSUME NEW i \in 1 .. n, q[i] = s PROVE In(a, s)
      BY <1>1 DEF In
    <3>1. i \in DOMAIN a /\ a[i] = s
      BY <1>1, <1>2, <1>3
    <3> QED
      BY <3>1 DEF In
  <2>3. s = t => In(a, s)
    BY <1>1, <1>2, <1>3 DEF In
  <2> QED
    BY <2>1, <2>2, <2>3
<1> QED
  BY <1>1, <1>4, <1>5 DEF a, n

\* An entry that is taken out of the queue.
LEMMA RemoveQueue ==
  ASSUME NEW S, NEW q \in Seq(S), Distinct(q), NEW k \in DOMAIN q
  PROVE  LET w == SubSeq(q, 1, k - 1) \o SubSeq(q, k + 1, Len(q))
         IN  /\ w \in Seq(S) /\ Len(w) = Len(q) - 1
             /\ Distinct(w)
             /\ \A s : In(w, s) <=> In(q, s) /\ s # q[k]
<1> DEFINE n == Len(q)
           a == SubSeq(q, 1, k - 1)
           b == SubSeq(q, k + 1, n)
           w == a \o b
<1>1. n \in Nat /\ DOMAIN q = 1 .. n /\ \A i \in 1 .. n : q[i] \in S
  BY LenProperties, ElementOfSeq
<1> HIDE DEF n, a, b, w
<1>2. k \in Int /\ k >= 1 /\ k <= n
  BY <1>1
<1>3. /\ a \in Seq(S) /\ Len(a) = k - 1
      /\ \A i \in 1 .. k - 1 : a[i] = q[i]
  <2>1. \A i \in 1 .. k - 1 : q[i] \in S
    BY <1>1, <1>2
  <2>2. /\ a \in Seq(S) /\ Len(a) = IF 1 <= k - 1 THEN (k - 1) - 1 + 1 ELSE 0
        /\ \A i \in 1 .. (k - 1) - 1 + 1 : a[i] = q[1 + i - 1]
    BY <1>2, <2>1, SubSeqProperties DEF a
  <2> QED
    BY <1>2, <2>2
<1>4. /\ b \in Seq(S) /\ Len(b) = n - k
      /\ \A i \in 1 .. n - k : b[i] = q[k + i]
  <2>1. \A i \in k + 1 .. n : q[i] \in S
    BY <1>1, <1>2
  <2>2. /\ b \in Seq(S) /\ Len(b) = IF k + 1 <= n THEN n - (k + 1) + 1 ELSE 0
        /\ \A i \in 1 .. n - (k + 1) + 1 : b[i] = q[(k + 1) + i - 1]
    BY <1>1, <1>2, <2>1, SubSeqProperties DEF b
  <2>3. /\ n - (k + 1) + 1 = n - k
        /\ \A i \in 1 .. n - k : (k + 1) + i - 1 = k + i
    BY <1>1, <1>2
  <2>4. Len(b) = n - k
    BY <1>1, <1>2, <2>2
  <2> QED
    BY <2>2, <2>3, <2>4
<1>5. /\ w \in Seq(S) /\ Len(w) = n - 1 /\ DOMAIN w = 1 .. n - 1
      /\ \A i \in 1 .. n - 1 : w[i] = IF i < k THEN q[i] ELSE q[i + 1]
  <2>1. /\ w \in Seq(S) /\ Len(w) = Len(a) + Len(b)
        /\ \A i \in 1 .. Len(a) + Len(b) :
             w[i] = IF i <= Len(a) THEN a[i] ELSE b[i - Len(a)]
    BY <1>3, <1>4, ConcatProperties DEF w
  <2>2. Len(a) + Len(b) = n - 1
    BY <1>1, <1>2, <1>3, <1>4
  <2>3. DOMAIN w = 1 .. n - 1
    BY <2>1, <2>2, LenProperties
  <2>4. ASSUME NEW i \in 1 .. n - 1
        PROVE  w[i] = IF i < k THEN q[i] ELSE q[i + 1]
    <3>1. w[i] = IF i <= k - 1 THEN a[i] ELSE b[i - (k - 1)]
      BY <1>3, <2>1, <2>2
    <3>2. CASE i < k
      <4>1. i \in 1 .. k - 1 /\ i <= k - 1
        BY <1>2, <3>2
      <4> QED
        BY <1>3, <3>1, <3>2, <4>1
    <3>3. CASE ~(i < k)
      <4>1. ~(i <= k - 1) /\ i - (k - 1) \in 1 .. n - k
            /\ k + (i - (k - 1)) = i + 1
        BY <1>1, <1>2, <3>3
      <4> QED
        BY <1>4, <3>1, <3>3, <4>1
    <3> QED
      BY <3>2, <3>3
  <2> QED
    BY <2>1, <2>2, <2>3, <2>4
<1>6. Distinct(w)
  <2> SUFFICES ASSUME NEW i \in 1 .. n - 1, NEW j \in 1 .. n - 1, w[i] = w[j]
               PROVE  i = j
    BY <1>5 DEF Distinct
  <2>1. /\ i \in 1 .. n /\ i + 1 \in 1 .. n /\ j \in 1 .. n /\ j + 1 \in 1 .. n
    BY <1>1
  <2>2. /\ w[i] = IF i < k THEN q[i] ELSE q[i + 1]
        /\ w[j] = IF j < k THEN q[j] ELSE q[j + 1]
    BY <1>5
  <2>3. (IF i < k THEN i ELSE i + 1) = (IF j < k THEN j ELSE j + 1)
    BY <1>1, <2>1, <2>2 DEF Distinct
  <2> QED
    BY <1>2, <2>3
<1>7. ASSUME NEW s PROVE In(w, s) <=> In(q, s) /\ s # q[k]
  <2>1. ASSUME In(w, s) PROVE In(q, s) /\ s # q[k]
    <3>1. PICK i \in 1 .. n - 1 : w[i] = s
      BY <1>5, <2>1 DEF In
    <3> DEFINE j == IF i < k THEN i ELSE i + 1
    <3>2. j \in 1 .. n /\ j # k
      BY <1>1, <1>2
    <3>3. q[j] = s
      BY <1>5, <3>1
    <3> HIDE DEF j
    <3> QED
      BY <1>1, <1>2, <3>2, <3>3 DEF In, Distinct
  <2>2. ASSUME In(q, s), s # q[k] PROVE In(w, s)
    <3>1. PICK j \in 1 .. n : q[j] = s
      BY <1>1, <2>2 DEF In
    <3> DEFINE i == IF j < k THEN j ELSE j - 1
    <3>2. j # k
      BY <2>2, <3>1
    <3>3. /\ i \in 1 .. n - 1
          /\ i < k => i = j
          /\ ~(i < k) => i + 1 = j
      BY <1>1, <1>2, <3>2
    <3> HIDE DEF i
    <3>4. w[i] = s
      BY <1>5, <3>1, <3>3
    <3> QED
      BY <1>5, <3>3, <3>4 DEF In
  <2> QED
    BY <2>1, <2>2
<1> QED
  BY <1>5, <1>6, <1>7 DEF a, b, w, n

\* The place of a task in the queue.
LEMMA PlaceOf ==
  ASSUME NEW q, NEW t, In(q, t)
  PROVE  Place(q, t) \in DOMAIN q /\ q[Place(q, t)] = t
BY DEF Place, In

\* dequeue_task of a task.
LEMMA WithoutQueue ==
  ASSUME NEW S, NEW q \in Seq(S), NEW t, Distinct(q), In(q, t)
  PROVE  /\ Without(q, t) \in Seq(S) /\ Len(Without(q, t)) = Len(q) - 1
         /\ Distinct(Without(q, t))
         /\ \A s : In(Without(q, t), s) <=> In(q, s) /\ s # t
<1>1. PICK k \in DOMAIN q : k = Place(q, t) /\ q[k] = t
  BY PlaceOf
<1> DEFINE w == SubSeq(q, 1, k - 1) \o SubSeq(q, k + 1, Len(q))
<1>2. Without(q, t) = w
  BY <1>1 DEF Without
<1>3. /\ w \in Seq(S) /\ Len(w) = Len(q) - 1 /\ Distinct(w)
      /\ \A s : In(w, s) <=> In(q, s) /\ s # q[k]
  BY RemoveQueue
<1> HIDE DEF w
<1> QED
  BY <1>1, <1>2, <1>3

\* The first task of the queue goes to its end.
LEMMA RotateQueue ==
  ASSUME NEW S, NEW q \in Seq(S), Distinct(q), q # <<>>
  PROVE  LET a == Append(Tail(q), Head(q))
         IN  /\ Head(q) \in S /\ In(q, Head(q))
             /\ a \in Seq(S) /\ Len(a) = Len(q)
             /\ Distinct(a)
             /\ \A s : In(a, s) <=> In(q, s)
<1> DEFINE n == Len(q)  w == Tail(q)
<1>1. /\ n \in Nat /\ DOMAIN q = 1 .. n /\ n # 0
      /\ Head(q) \in S /\ Head(q) = q[1] /\ w \in Seq(S)
      /\ w = SubSeq(q, 2, n)
  BY LenProperties, EmptySeq, HeadTailProperties, TailIsSubSeq
<1>2. 1 \in DOMAIN q
  <2> HIDE DEF n
  <2> QED
    BY <1>1
<1>3. SubSeq(q, 1, 1 - 1) \o SubSeq(q, 1 + 1, n) = w
  <2>1. SubSeq(q, 1, 1 - 1) = <<>>
    BY SubSeqEmpty
  <2>2. 1 + 1 = 2
    OBVIOUS
  <2>3. <<>> \o w = w
    BY <1>1, ConcatEmptySeq
  <2> HIDE DEF w, n
  <2> QED
    BY <1>1, <2>1, <2>2, <2>3
<1> DEFINE u == SubSeq(q, 1, 1 - 1) \o SubSeq(q, 1 + 1, n)
<1>4. /\ u \in Seq(S) /\ Len(u) = n - 1 /\ Distinct(u)
      /\ \A s : In(u, s) <=> In(q, s) /\ s # q[1]
  BY <1>2, RemoveQueue
<1>5. u = w
  BY <1>3
<1> HIDE DEF u, w
<1>6. /\ Len(w) = n - 1 /\ Distinct(w) /\ w \in Seq(S)
      /\ \A s : In(w, s) <=> In(q, s) /\ s # Head(q)
  BY <1>1, <1>4, <1>5
<1>7. In(q, Head(q)) /\ ~In(w, Head(q))
  BY <1>1, <1>2, <1>6 DEF In
<1> DEFINE a == Append(w, Head(q))
<1>8. /\ a \in Seq(S) /\ Len(a) = Len(w) + 1 /\ Distinct(a)
      /\ \A s : In(a, s) <=> In(w, s) \/ s = Head(q)
  <2>1. Head(q) \in S /\ w \in Seq(S) /\ Distinct(w) /\ ~In(w, Head(q))
    BY <1>1, <1>6, <1>7
  <2> QED
    BY <2>1, AppendQueue
<1>9. Len(a) = n
  <2> HIDE DEF n, a
  <2> QED
    BY <1>1, <1>6, <1>8
<1>10. \A s : In(a, s) <=> In(q, s)
  <2> HIDE DEF a
  <2> QED
    BY <1>6, <1>7, <1>8
<1> QED
  BY <1>1, <1>7, <1>8, <1>9, <1>10 DEF w

\* A task that is put before another one.
LEMMA InsertQueue ==
  ASSUME NEW S, NEW q \in Seq(S), NEW t \in S, NEW k \in DOMAIN q,
         Distinct(q), ~In(q, t)
  PROVE  LET w == SubSeq(q, 1, k - 1) \o <<t>> \o SubSeq(q, k, Len(q))
         IN  /\ w \in Seq(S) /\ Len(w) = Len(q) + 1
             /\ Distinct(w)
             /\ \A s : In(w, s) <=> In(q, s) \/ s = t
<1> DEFINE n == Len(q)
           a == SubSeq(q, 1, k - 1)
           b == SubSeq(q, k, n)
           c == a \o <<t>>
           w == c \o b
<1>1. n \in Nat /\ DOMAIN q = 1 .. n /\ \A i \in 1 .. n : q[i] \in S
  BY LenProperties, ElementOfSeq
<1> HIDE DEF n, a, b, c, w
<1>2. k \in Int /\ k >= 1 /\ k <= n
  BY <1>1
<1>3. /\ a \in Seq(S) /\ Len(a) = k - 1
      /\ \A i \in 1 .. k - 1 : a[i] = q[i]
  <2>1. \A i \in 1 .. k - 1 : q[i] \in S
    BY <1>1, <1>2
  <2>2. /\ a \in Seq(S) /\ Len(a) = IF 1 <= k - 1 THEN (k - 1) - 1 + 1 ELSE 0
        /\ \A i \in 1 .. (k - 1) - 1 + 1 : a[i] = q[1 + i - 1]
    BY <1>2, <2>1, SubSeqProperties DEF a
  <2> QED
    BY <1>2, <2>2
<1>4. /\ b \in Seq(S) /\ Len(b) = n - k + 1
      /\ \A i \in 1 .. n - k + 1 : b[i] = q[k + i - 1]
  <2>1. \A i \in k .. n : q[i] \in S
    BY <1>1, <1>2
  <2>2. /\ b \in Seq(S) /\ Len(b) = IF k <= n THEN n - k + 1 ELSE 0
        /\ \A i \in 1 .. n - k + 1 : b[i] = q[k + i - 1]
    BY <1>1, <1>2, <2>1, SubSeqProperties DEF b
  <2> QED
    BY <1>2, <2>2
<1>5. /\ c \in Seq(S) /\ Len(c) = k
      /\ \A i \in 1 .. k : c[i] = IF i = k THEN t ELSE q[i]
  <2>1. c = Append(a, t)
    BY <1>3, AppendIsConcat DEF c
  <2>2. /\ c \in Seq(S) /\ Len(c) = Len(a) + 1
        /\ \A i \in 1 .. Len(a) : c[i] = a[i]
        /\ c[Len(a) + 1] = t
    BY <1>3, <2>1, AppendProperties
  <2>3. k - 1 + 1 = k /\ \A i \in 1 .. k : i # k => i \in 1 .. k - 1
    BY <1>2
  <2> QED
    BY <1>3, <2>2, <2>3
<1>6. /\ w \in Seq(S) /\ Len(w) = n + 1 /\ DOMAIN w = 1 .. n + 1
      /\ \A i \in 1 .. n + 1 :
           w[i] = IF i < k THEN q[i] ELSE IF i = k THEN t ELSE q[i - 1]
  <2>1. /\ w \in Seq(S) /\ Len(w) = Len(c) + Len(b)
        /\ \A i \in 1 .. Len(c) + Len(b) :
             w[i] = IF i <= Len(c) THEN c[i] ELSE b[i - Len(c)]
    BY <1>4, <1>5, ConcatProperties DEF w
  <2>2. Len(c) + Len(b) = n + 1
    BY <1>1, <1>2, <1>4, <1>5
  <2>3. DOMAIN w = 1 .. n + 1
    BY <2>1, <2>2, LenProperties
  <2>4. ASSUME NEW i \in 1 .. n + 1
        PROVE  w[i] = IF i < k THEN q[i] ELSE IF i = k THEN t ELSE q[i - 1]
    <3>1. w[i] = IF i <= k THEN c[i] ELSE b[i - k]
      BY <1>5, <2>1, <2>2
    <3>2. CASE i <= k
      <4>1. i \in 1 .. k /\ (i < k <=> i # k)
        BY <1>2, <3>2
      <4> QED
        BY <1>5, <3>1, <3>2, <4>1
    <3>3. CASE ~(i <= k)
      <4>1. ~(i < k) /\ i # k /\ i - k \in 1 .. n - k + 1
            /\ k + (i - k) - 1 = i - 1
        BY <1>1, <1>2, <3>3
      <4> QED
        BY <1>4, <3>1, <3>3, <4>1
    <3> QED
      BY <3>2, <3>3
  <2> QED
    BY <2>1, <2>2, <2>3, <2>4
<1>7. \A i \in 1 .. n : q[i] # t
  BY <1>1 DEF In
<1>8. Distinct(w)
  <2> SUFFICES ASSUME NEW i \in 1 .. n + 1, NEW j \in 1 .. n + 1, w[i] = w[j]
               PROVE  i = j
    BY <1>6 DEF Distinct
  <2>1. /\ w[i] = IF i < k THEN q[i] ELSE IF i = k THEN t ELSE q[i - 1]
        /\ w[j] = IF j < k THEN q[j] ELSE IF j = k THEN t ELSE q[j - 1]
    BY <1>6
  <2>2. /\ i < k => i \in 1 .. n
        /\ i > k => i - 1 \in 1 .. n
        /\ j < k => j \in 1 .. n
        /\ j > k => j - 1 \in 1 .. n
        /\ i < k \/ i = k \/ i > k
        /\ j < k \/ j = k \/ j > k
    BY <1>1, <1>2
  <2>3. CASE i = k
    <3>1. w[j] = t
      BY <1>2, <2>1, <2>3
    <3>2. ~(j < k) /\ ~(j > k)
      BY <1>2, <1>7, <2>1, <2>2, <3>1
    <3> QED
      BY <2>2, <2>3, <3>2
  <2>4. CASE j = k
    <3>1. w[i] = t
      <4>1. ~(j < k)
        BY <1>2, <2>4
      <4>2. w[j] = t
        BY <1>6, <2>4, <4>1
      <4> QED
        BY <4>2
    <3>2. ~(i < k) /\ ~(i > k)
      BY <1>2, <1>7, <2>1, <2>2, <3>1
    <3> QED
      BY <2>2, <2>4, <3>2
  <2>5. CASE i # k /\ j # k
    <3>1. (IF i < k THEN i ELSE i - 1) = (IF j < k THEN j ELSE j - 1)
      BY <1>1, <1>2, <2>1, <2>2, <2>5 DEF Distinct
    <3> QED
      BY <1>2, <2>5, <3>1
  <2> QED
    BY <2>3, <2>4, <2>5
<1>9. ASSUME NEW s PROVE In(w, s) <=> In(q, s) \/ s = t
  <2>1. ASSUME In(w, s), s # t PROVE In(q, s)
    <3>1. PICK i \in 1 .. n + 1 : w[i] = s
      BY <1>6, <2>1 DEF In
    <3>2. i # k
      BY <1>2, <1>6, <2>1, <3>1
    <3> DEFINE j == IF i < k THEN i ELSE i - 1
    <3>3. j \in 1 .. n
      BY <1>1, <1>2, <3>2
    <3>4. q[j] = s
      BY <1>6, <3>1, <3>2
    <3> HIDE DEF j
    <3> QED
      BY <1>1, <3>3, <3>4 DEF In
  <2>2. ASSUME In(q, s) PROVE In(w, s)
    <3>1. PICK j \in 1 .. n : q[j] = s
      BY <1>1, <2>2 DEF In
    <3> DEFINE i == IF j < k THEN j ELSE j + 1
    <3>2. /\ i \in 1 .. n + 1 /\ i # k
          /\ i < k => i = j
          /\ ~(i < k) => i - 1 = j
      BY <1>1, <1>2
    <3> HIDE DEF i
    <3>3. w[i] = s
      BY <1>6, <3>1, <3>2
    <3> QED
      BY <1>6, <3>2, <3>3 DEF In
  <2>3. In(w, t)
    <3>1. k \in 1 .. n + 1 /\ ~(k < k)
      BY <1>1, <1>2
    <3>2. w[k] = t
      BY <1>6, <3>1
    <3> QED
      BY <1>6, <3>1, <3>2 DEF In
  <2> QED
    BY <2>1, <2>2, <2>3
<1> QED
  BY <1>6, <1>8, <1>9 DEF a, b, c, w, n

-----------------------------------------------------------------------------
(* The inductive invariant.                                                *)

PC == {"none", "run", "switch", "blocked", "ready", "gone"}

\* The task has a thread, or is about to get one, that uses it.
Alive(t) == pc[t] \notin {"none", "gone"}

\* A task is allocated until it is freed, and lx_exit_list holds the kernel task
\* that has left its thread: at most one, as every exit frees the one before.
Memory ==
  /\ \A t \in Task : t \in alloc <=> pc[t] # "none"
  /\ Len(exited) <= 1
  /\ \A t \in Task : pc[t] = "gone" <=> exited = <<t>>

\* Only one thread is between the run queue and DevBlock, and the one it
\* switches to is rq->curr, can run and is another.
Switching ==
  /\ \A s, t \in Task : pc[s] = "switch" /\ pc[t] = "switch" => s = t
  /\ \A t \in Task : pc[t] = "switch" =>
       to = curr /\ to # t /\ (to = idle \/ Queued(to))

\* Who is in the run queue: the one that runs or is about to, and of those that
\* are on their way to DevBlock or in it the ones that do not sleep.
Places ==
  \A t \in Task \ {idle} :
    /\ pc[t] \in {"run", "ready"} => Queued(t)
    /\ pc[t] \in {"switch", "blocked", "ready"} =>
         (Queued(t) <=> state[t] = "RUNNING")
    /\ ~Alive(t) => ~Queued(t) /\ state[t] = "RUNNING"
    /\ state[t] = "ZOMBIE" => pc[t] \in {"run", "switch"}

\* The idle task never sleeps and never ends.
Idle == Alive(idle) /\ state[idle] = "RUNNING"

\* The queue has a task once and is counted.
Counted == nr = Len(queue) /\ Distinct(queue)

\* rq->curr and lx_current_task are of threads that live.
Pointers ==
  /\ Alive(curr)
  /\ lx_current_task # None => Alive(lx_current_task)

\* The inductive invariant of the scheduler.
SchedInv == /\ TypeOK
            /\ Memory /\ Switching /\ Places /\ Idle /\ Counted /\ Pointers

\* The invariant contains what the runs check.
LEMMA SchedInvImplies ==
  ASSUME SchedInv
  PROVE  TypeOK /\ CurrentQueued /\ QueueExact /\ NothingFreed
<1>1. TypeOK /\ Memory /\ Places /\ Counted /\ Pointers
  BY DEF SchedInv
<1>2. CurrentQueued
  BY <1>1 DEF CurrentQueued, Places
<1>3. QueueExact
  <2>1. ASSUME NEW t \in Task \ {idle}, Alive(t), state[t] = "RUNNING"
        PROVE  Queued(t)
    <3>1. pc[t] \in {"run", "switch", "blocked", "ready"}
      BY <1>1, <2>1 DEF TypeOK, Alive
    <3> QED
      BY <1>1, <2>1, <3>1 DEF Places
  <2> QED
    BY <1>1, <2>1 DEF QueueExact, Counted, Distinct, Alive
<1>4. NothingFreed
  <2>1. \A i \in DOMAIN queue : queue[i] \in Task \ {idle} /\ Queued(queue[i])
    <3>1. queue \in Seq(Task \ {idle})
      BY <1>1 DEF TypeOK
    <3>2. \A i \in DOMAIN queue : queue[i] \in Task \ {idle}
      BY <3>1, LenProperties, ElementOfSeq
    <3> QED
      BY <3>2 DEF Queued, In
  <2>2. \A i \in DOMAIN queue : Alive(queue[i])
    BY <1>1, <2>1 DEF Places
  <2>3. \A t \in Task : Alive(t) => t \in alloc
    BY <1>1 DEF Memory, Alive
  <2>4. curr \in Task /\ lx_current_task \in Task \cup {None}
    BY <1>1 DEF TypeOK
  <2>5. {curr, lx_current_task} \subseteq alloc \cup {None}
    BY <1>1, <2>3, <2>4 DEF Pointers
  <2> QED
    BY <2>1, <2>2, <2>3, <2>5 DEF NothingFreed, Alive
<1> QED
  BY <1>1, <1>2, <1>3, <1>4

\* The init process runs and is in the queue.
LEMMA SchedInvInit == Init => SchedInv
<1> SUFFICES ASSUME Init PROVE SchedInv
  OBVIOUS
<1>1. /\ init \in Task /\ idle \in Task /\ init # idle /\ None \notin Task
      /\ init \in Task \ {idle}
  BY SchedAssumption DEF Task
<1>2. \A t \in Task : pc[t] = IF t \in {init, idle} THEN "run" ELSE "none"
  BY DEF Init
<1>3. /\ queue \in Seq(Task \ {idle}) /\ Len(queue) = 1
      /\ DOMAIN queue = {1} /\ queue[1] = init
  BY <1>1 DEF Init
<1>4. \A t : Queued(t) <=> t = init
  BY <1>3 DEF Queued, In
<1>5. TypeOK
  <2>1. pc \in [Task -> PC]
    BY DEF Init, PC
  <2>2. exited \in Seq(Kernel)
    BY EmptySeq DEF Init
  <2>3. state \in [Task -> {"RUNNING", "SLEEPING", "ZOMBIE"}]
    BY DEF Init
  <2> QED
    BY <1>1, <1>3, <2>1, <2>2, <2>3 DEF Init, TypeOK, PC
<1>6. Memory
  <2>1. exited = <<>> /\ Len(exited) = 0
    BY DEF Init
  <2>2. \A t : exited # <<t>>
    BY <2>1
  <2> QED
    BY <1>2, <2>1, <2>2 DEF Init, Memory
<1>7. Switching
  BY <1>2 DEF Switching
<1>8. Places /\ Idle
  BY <1>1, <1>2, <1>4 DEF Init, Places, Idle, Alive
<1>9. Counted
  BY <1>3 DEF Init, Counted, Distinct
<1>10. Pointers
  BY <1>1, <1>2 DEF Init, Pointers, Alive
<1> QED
  BY <1>5, <1>6, <1>7, <1>8, <1>9, <1>10 DEF SchedInv

\* What DevRun does to the thread of a task.
LEMMA DevRunThread ==
  ASSUME NEW f \in [Task -> PC], NEW t \in Task
  PROVE  /\ DevRun(f, t) \in [Task -> PC]
         /\ \A s \in Task : DevRun(f, t)[s] =
              IF s = t /\ f[s] = "blocked" THEN "ready" ELSE f[s]
BY DEF DevRun, PC

\* FreeUnused frees the task of lx_exit_list, if there is one.
LEMMA FreedTask ==
  ASSUME TypeOK, Memory, NEW a, NEW f \in [Task -> PC], NEW e \in Seq(Kernel),
         FreeUnused(a, f, e)
  PROVE  /\ exited' = e
         /\ pc' \in [Task -> PC]
         /\ \A t \in Task : pc'[t] = IF exited = <<t>> THEN "none" ELSE f[t]
         /\ \A t \in Task : t \in alloc' <=> t \in a /\ exited # <<t>>
         /\ alloc' \subseteq a
<1>1. exited \in Seq(Kernel) /\ Len(exited) <= 1
  BY DEF TypeOK, Memory
<1>2. CASE exited = <<>>
  <2>1. \A t : exited # <<t>>
    BY <1>2
  <2> QED
    BY <1>2, <2>1 DEF FreeUnused
<1>3. CASE exited # <<>>
  <2>1. PICK h \in Kernel : exited = <<h>>
    <3> DEFINE n == Len(exited)
    <3>1. n \in Nat /\ n # 0 /\ n <= 1
      BY <1>1, <1>3, EmptySeq, LenProperties
    <3>2. n = 1
      <4> HIDE DEF n
      <4> QED
        BY <3>1
    <3>3. exited[1] \in Kernel
      <4>1. 1 \in 1 .. Len(exited)
        BY <3>2
      <4> QED
        BY <1>1, <4>1, ElementOfSeq
    <3>4. exited = <<exited[1]>>
      BY <1>1, <3>2
    <3> QED
      BY <3>3, <3>4
  <2>2. Head(exited) = h /\ Tail(exited) = <<>>
    BY <2>1
  <2>3. exited' = e /\ alloc' = a \ {h} /\ pc' = [f EXCEPT ![h] = "none"]
    BY <1>3, <2>2, ConcatEmptySeq DEF FreeUnused
  <2>4. h \in Task
    BY DEF Task
  <2>5. \A t : exited = <<t>> <=> t = h
    BY <2>1
  <2> QED
    BY <2>3, <2>4, <2>5 DEF PC
<1> QED
  BY <1>2, <1>3

-----------------------------------------------------------------------------
(* One lemma per action.                                                   *)

\* A task that runs and only changes its state stays in the queue.
LEMMA StateStep ==
  ASSUME SchedInv, NEW t \in Task, SetSleeping(t) \/ Exit(t) \/ Leave(t),
         t # idle
  PROVE  SchedInv'
<1>1. TypeOK /\ Memory /\ Switching /\ Places /\ Idle /\ Counted /\ Pointers
  BY DEF SchedInv
<1>2. /\ pc[t] = "run" /\ UNCHANGED <<queue, nr, curr, need, pc, to, alloc, exited>>
      /\ \/ state' = [state EXCEPT ![t] = "SLEEPING"]
         \/ state' = [state EXCEPT ![t] = "ZOMBIE"]
      /\ lx_current_task' \in {None, lx_current_task}
  BY DEF SetSleeping, Exit, Leave, Runs, rqVars, memVars
<1>3. TypeOK'
  BY <1>1, <1>2 DEF TypeOK
<1>4. Memory' /\ Switching' /\ Counted'
  BY <1>1, <1>2 DEF Memory, Switching, Counted, Queued
<1>5. Places'
  BY <1>1, <1>2 DEF Places, Alive, Queued, TypeOK
<1>6. Idle'
  BY <1>1, <1>2 DEF Idle, Alive, TypeOK, Task
<1>7. Pointers'
  BY <1>1, <1>2 DEF Pointers, Alive
<1> QED
  BY <1>3, <1>4, <1>5, <1>6, <1>7 DEF SchedInv

\* schedule under the lock: the queue q has lost the task if it does not go on
\* running, and what it picks from the queue lives.
LEMMA PickStep ==
  ASSUME SchedInv, NEW t \in Task, Runs(t), NEW q \in Seq(Task \ {idle}),
         Distinct(q),
         \A s : In(q, s) <=> Queued(s) /\ (state[t] = "RUNNING" \/ s # t),
         Pick(t, q, Len(q))
  PROVE  SchedInv'
<1>1. TypeOK /\ Memory /\ Switching /\ Places /\ Idle /\ Counted /\ Pointers
  BY DEF SchedInv
<1> DEFINE next == IF Len(q) = 0 \/ q = <<>> THEN idle ELSE Head(q)
<1>2. /\ next \in Task
      /\ next # idle => In(q, next) /\ Queued(next) /\ q # <<>>
  <2>1. CASE q = <<>>
    BY <2>1 DEF Task
  <2>2. CASE q # <<>>
    <3>1. Head(q) \in Task \ {idle} /\ In(q, Head(q))
      BY <2>2, RotateQueue
    <3> QED
      BY <2>2, <3>1 DEF Task
  <2> QED
    BY <2>1, <2>2
<1>3. /\ queue' = q \/ (next # idle /\ queue' = Append(Tail(q), Head(q)))
      /\ nr' = Len(q) /\ need' = (need /\ t # idle) /\ lx_current_task' = t
      /\ UNCHANGED <<state, alloc, exited>>
      /\ \/ /\ next # t /\ curr' = next /\ to' = next
            /\ pc' = [pc EXCEPT ![t] = "switch"]
         \/ next = t /\ UNCHANGED <<curr, to, pc>>
  <2>1. next # idle => next = Head(q)
    OBVIOUS
  <2> QED
    BY <2>1 DEF Pick, memVars
<1> HIDE DEF next
<1>4. /\ queue' \in Seq(Task \ {idle}) /\ Len(queue') = Len(q)
      /\ Distinct(queue')
      /\ \A s : In(queue', s) <=> In(q, s)
  <2>1. CASE queue' = q
    BY <2>1
  <2>2. CASE queue' # q
    <3> DEFINE a == Append(Tail(q), Head(q))
    <3>1. q # <<>> /\ queue' = a
      BY <1>2, <1>3, <2>2
    <3>2. /\ a \in Seq(Task \ {idle}) /\ Len(a) = Len(q) /\ Distinct(a)
          /\ \A s : In(a, s) <=> In(q, s)
      BY <3>1, RotateQueue
    <3> HIDE DEF a
    <3> QED
      BY <3>1, <3>2
  <2> QED
    BY <2>1, <2>2
<1>5. \A s : Queued(s)' <=> Queued(s) /\ (state[t] = "RUNNING" \/ s # t)
  BY <1>4 DEF Queued
<1>6. pc[t] = "run" /\ \A s \in Task : pc[s] # "switch"
  BY DEF Runs, Turn
<1>7. TypeOK'
  <2>1. Len(q) \in Nat
    BY LenProperties
  <2>2. /\ need' \in BOOLEAN /\ curr' \in Task /\ to' \in Task \cup {None}
        /\ pc' \in [Task -> PC]
    BY <1>1, <1>2, <1>3 DEF TypeOK, PC
  <2> QED
    BY <1>1, <1>3, <1>4, <2>1, <2>2 DEF TypeOK, PC
<1>8. /\ \A s \in Task : s # t => pc'[s] = pc[s]
      /\ pc'[t] = IF next # t THEN "switch" ELSE "run"
  BY <1>1, <1>3, <1>6 DEF TypeOK
<1>9. Memory'
  BY <1>1, <1>3, <1>6, <1>8 DEF Memory
<1>10. Switching'
  BY <1>2, <1>3, <1>5, <1>6, <1>8 DEF Switching
<1>11. Places'
  <2> SUFFICES ASSUME NEW s \in Task \ {idle}
               PROVE  /\ pc'[s] \in {"run", "ready"} => Queued(s)'
                      /\ pc'[s] \in {"switch", "blocked", "ready"} =>
                           (Queued(s)' <=> state[s] = "RUNNING")
                      /\ ~Alive(s)' => ~Queued(s)' /\ state[s] = "RUNNING"
                      /\ state[s] = "ZOMBIE" => pc'[s] \in {"run", "switch"}
    BY <1>3 DEF Places
  <2>1. CASE s # t
    BY <1>1, <1>5, <1>8, <2>1 DEF Places, Alive
  <2>2. CASE s = t
    <3>1. Queued(t)
      BY <1>1, <1>6, <2>2 DEF Places
    <3>2. Queued(t)' <=> state[t] = "RUNNING"
      BY <1>5, <3>1
    <3>3. next = t => Queued(t)'
      BY <1>2, <1>4, <2>2 DEF Queued
    <3> QED
      BY <1>8, <2>2, <3>2, <3>3 DEF Alive
  <2> QED
    BY <2>1, <2>2
<1>12. Idle'
  BY <1>1, <1>3, <1>8 DEF Idle, Alive, Task
<1>13. Counted'
  BY <1>3, <1>4 DEF Counted
<1>14. Pointers'
  <2>1. Alive(next)
    BY <1>1, <1>2 DEF Places, Idle
  <2>2. Alive(t)'
    BY <1>8 DEF Alive
  <2>3. Alive(curr)'
    <3>1. CASE curr' = next
      BY <1>2, <1>8, <2>1, <3>1 DEF Alive
    <3>2. CASE curr' = curr /\ pc' = pc
      BY <1>1, <3>2 DEF Pointers, Alive
    <3> QED
      BY <1>3, <3>1, <3>2
  <2> QED
    BY <1>3, <2>2, <2>3 DEF Pointers, Alive
<1> QED
  BY <1>7, <1>9, <1>10, <1>11, <1>12, <1>13, <1>14 DEF SchedInv

\* schedule: a task that does not go on running is in the queue, as it runs, and
\* leaves it; nr_running counts that.
LEMMA ScheduleStep ==
  ASSUME SchedInv, NEW t \in Task, Schedule(t)
  PROVE  SchedInv'
<1>1. /\ Runs(t) /\ pc[t] = "run" /\ nr = Len(queue) /\ Distinct(queue)
      /\ queue \in Seq(Task \ {idle})
  BY DEF Schedule, Runs, SchedInv, Counted, TypeOK
<1>2. CASE state[t] = "RUNNING"
  BY <1>1, <1>2, PickStep DEF Schedule, Queued
<1>3. CASE state[t] # "RUNNING"
  <2>1. Queued(t)
    BY <1>1, <1>3 DEF SchedInv, Idle, Places
  <2>2. PICK w : w = Without(queue, t)
    OBVIOUS
  <2>3. /\ w \in Seq(Task \ {idle}) /\ Len(w) = nr - 1 /\ Distinct(w)
        /\ \A s : In(w, s) <=> Queued(s) /\ s # t
    BY <1>1, <2>1, <2>2, WithoutQueue DEF Queued
  <2>4. Pick(t, w, Len(w))
    BY <1>3, <2>2, <2>3 DEF Schedule
  <2> QED
    BY <1>1, <1>3, <2>3, <2>4, PickStep
<1> QED
  BY <1>2, <1>3

\* LX_switch_to of a task that lives on: the task whose thread it runs is in the
\* queue, so it may go on, and the own one is in it if it has been woken.
LEMMA SwitchStep ==
  ASSUME SchedInv, NEW t \in Task, Switch(t)
  PROVE  SchedInv'
<1>1. TypeOK /\ Memory /\ Switching /\ Places /\ Idle /\ Counted /\ Pointers
  BY DEF SchedInv
<1>2. /\ pc[t] = "switch" /\ state[t] # "ZOMBIE"
      /\ pc' = [DevRun(pc, to) EXCEPT ![t] = "blocked"] /\ to' = None
      /\ UNCHANGED <<state, queue, nr, curr, need, lx_current_task, alloc, exited>>
  BY DEF Switch, rqVars, memVars
<1>3. /\ to = curr /\ to \in Task /\ to # t /\ (to = idle \/ Queued(to))
      /\ \A s \in Task : s # t => pc[s] # "switch"
      /\ pc \in [Task -> PC]
  BY <1>1, <1>2 DEF Switching, TypeOK, PC
<1>4. /\ pc' \in [Task -> PC] /\ pc'[t] = "blocked"
      /\ \A s \in Task : s # t => pc'[s] =
           IF s = to /\ pc[s] = "blocked" THEN "ready" ELSE pc[s]
  BY <1>2, <1>3, DevRunThread DEF PC
<1>5. \A s \in Task : Alive(s)' <=> Alive(s)
  BY <1>2, <1>4 DEF Alive
<1>6. TypeOK'
  BY <1>1, <1>2, <1>4 DEF TypeOK, PC
<1>7. Memory'
  BY <1>1, <1>2, <1>3, <1>4 DEF Memory
<1>8. Switching'
  BY <1>3, <1>4 DEF Switching
<1>9. \A s : Queued(s)' <=> Queued(s)
  BY <1>2 DEF Queued
<1>10. Places'
  <2> SUFFICES ASSUME NEW s \in Task \ {idle}
               PROVE  /\ pc'[s] \in {"run", "ready"} => Queued(s)
                      /\ pc'[s] \in {"switch", "blocked", "ready"} =>
                           (Queued(s) <=> state[s] = "RUNNING")
                      /\ ~Alive(s)' => ~Queued(s) /\ state[s] = "RUNNING"
                      /\ state[s] = "ZOMBIE" => pc'[s] \in {"run", "switch"}
    BY <1>2, <1>9 DEF Places
  <2>1. CASE s = t
    BY <1>1, <1>2, <1>4, <2>1 DEF Places, Alive
  <2>2. CASE s # t
    BY <1>1, <1>3, <1>4, <2>2 DEF Places, Alive
  <2> QED
    BY <2>1, <2>2
<1>11. Idle' /\ Counted'
  BY <1>1, <1>2, <1>5 DEF Idle, Counted, Task
<1>12. Pointers'
  <2>1. curr \in Task /\ (lx_current_task # None => lx_current_task \in Task)
    BY <1>1 DEF TypeOK
  <2> QED
    BY <1>1, <1>2, <1>4, <2>1 DEF Pointers, Alive
<1> QED
  BY <1>6, <1>7, <1>8, <1>10, <1>11, <1>12 DEF SchedInv

\* LX_switch_to of a dying task: it is not in the queue, rq->curr is another, and
\* what it frees is the task that died before it.
LEMMA SwitchDeadStep ==
  ASSUME SchedInv, NEW t \in Task, SwitchDead(t)
  PROVE  SchedInv'
<1>1. TypeOK /\ Memory /\ Switching /\ Places /\ Idle /\ Counted /\ Pointers
  BY DEF SchedInv
<1> DEFINE f == DevRun(pc, to)
<1>2. /\ pc[t] = "switch" /\ state[t] = "ZOMBIE"
      /\ lx_current_task' = to /\ to' = None
      /\ state' = [state EXCEPT ![t] = "RUNNING"]
      /\ UNCHANGED <<queue, nr, curr, need>>
      /\ t \in Kernel => FreeUnused(alloc, [f EXCEPT ![t] = "gone"], <<t>>)
      /\ t \notin Kernel =>
           FreeUnused(alloc \ {t}, [f EXCEPT ![t] = "none"], <<>>)
  BY DEF SwitchDead, Dies, rqVars
<1>3. /\ to = curr /\ to \in Task /\ to # t /\ (to = idle \/ Queued(to))
      /\ \A s \in Task : s # t => pc[s] # "switch"
      /\ pc \in [Task -> PC] /\ t # idle /\ alloc \subseteq Task
  BY <1>1, <1>2 DEF Switching, TypeOK, PC, Idle
<1>4. /\ f \in [Task -> PC]
      /\ \A s \in Task : f[s] =
           IF s = to /\ pc[s] = "blocked" THEN "ready" ELSE pc[s]
  BY <1>3, DevRunThread
<1> HIDE DEF f
<1>5. \A s \in Task : pc[s] = "gone" <=> exited = <<s>>
  BY <1>1 DEF Memory
<1>6. /\ pc' \in [Task -> PC] /\ exited' \in Seq(Kernel) /\ alloc' \subseteq Task
      /\ exited' = IF t \in Kernel THEN <<t>> ELSE <<>>
      /\ \A s \in Task : pc'[s] =
           IF s = t THEN (IF t \in Kernel THEN "gone" ELSE "none")
           ELSE IF pc[s] = "gone" THEN "none" ELSE f[s]
      /\ \A s \in Task : s \in alloc' <=>
           s \in alloc /\ pc[s] # "gone" /\ (s = t => t \in Kernel)
  <2>1. CASE t \in Kernel
    <3> DEFINE g == [f EXCEPT ![t] = "gone"]
    <3>1. /\ g \in [Task -> PC]
          /\ \A s \in Task : g[s] = IF s = t THEN "gone" ELSE f[s]
      BY <1>4 DEF PC
    <3> HIDE DEF g
    <3>2. <<t>> \in Seq(Kernel)
      BY <2>1
    <3>3. FreeUnused(alloc, g, <<t>>)
      BY <1>2, <2>1 DEF g
    <3>4. /\ exited' = <<t>> /\ pc' \in [Task -> PC]
          /\ \A s \in Task : pc'[s] = IF exited = <<s>> THEN "none" ELSE g[s]
          /\ \A s \in Task : s \in alloc' <=> s \in alloc /\ exited # <<s>>
          /\ alloc' \subseteq alloc
      BY <1>1, <3>1, <3>2, <3>3, FreedTask
    <3>5. exited # <<t>>
      BY <1>2, <1>5
    <3> QED
      BY <1>3, <1>5, <2>1, <3>1, <3>2, <3>4, <3>5
  <2>2. CASE t \notin Kernel
    <3> DEFINE g == [f EXCEPT ![t] = "none"]
               a == alloc \ {t}
    <3>1. /\ g \in [Task -> PC]
          /\ \A s \in Task : g[s] = IF s = t THEN "none" ELSE f[s]
      BY <1>4 DEF PC
    <3> HIDE DEF g
    <3>2. <<>> \in Seq(Kernel)
      BY EmptySeq
    <3>3. FreeUnused(a, g, <<>>)
      BY <1>2, <2>2 DEF g
    <3>4. /\ exited' = <<>> /\ pc' \in [Task -> PC]
          /\ \A s \in Task : pc'[s] = IF exited = <<s>> THEN "none" ELSE g[s]
          /\ \A s \in Task : s \in alloc' <=> s \in a /\ exited # <<s>>
          /\ alloc' \subseteq a
      BY <1>1, <3>1, <3>2, <3>3, FreedTask
    <3>5. exited # <<t>>
      BY <1>2, <1>5
    <3> QED
      BY <1>3, <1>5, <2>2, <3>1, <3>2, <3>4, <3>5
  <2> QED
    BY <2>1, <2>2
<1>7. TypeOK'
  BY <1>1, <1>2, <1>3, <1>6 DEF TypeOK, PC
<1>8. Memory'
  <2>1. \A s \in Task : s \in alloc' <=> pc'[s] # "none"
    BY <1>1, <1>2, <1>4, <1>6 DEF Memory
  <2>2. Len(exited') <= 1
    BY <1>6
  <2>3. \A s \in Task : exited' = <<s>> <=> (s = t /\ t \in Kernel)
    BY <1>6
  <2>4. \A s \in Task : pc'[s] = "gone" <=> (s = t /\ t \in Kernel)
    BY <1>4, <1>6
  <2> QED
    BY <2>1, <2>2, <2>3, <2>4 DEF Memory
<1>9. Switching'
  BY <1>3, <1>4, <1>6 DEF Switching
<1>10. \A s : Queued(s)' <=> Queued(s)
  BY <1>2 DEF Queued
<1>11. Places'
  <2> SUFFICES ASSUME NEW s \in Task \ {idle}
               PROVE  /\ pc'[s] \in {"run", "ready"} => Queued(s)
                      /\ pc'[s] \in {"switch", "blocked", "ready"} =>
                           (Queued(s) <=> state'[s] = "RUNNING")
                      /\ ~Alive(s)' => ~Queued(s) /\ state'[s] = "RUNNING"
                      /\ state'[s] = "ZOMBIE" => pc'[s] \in {"run", "switch"}
    BY <1>10 DEF Places
  <2>1. CASE s = t
    <3>1. state'[t] = "RUNNING" /\ pc'[t] \in {"gone", "none"}
      BY <1>1, <1>2, <1>6 DEF TypeOK
    <3>2. ~Queued(t)
      BY <1>1, <1>2, <1>3 DEF Places
    <3> QED
      BY <2>1, <3>1, <3>2
  <2>2. CASE s # t
    <3>1. state'[s] = state[s]
      BY <1>1, <1>2, <2>2 DEF TypeOK
    <3> QED
      BY <1>1, <1>3, <1>4, <1>6, <2>2, <3>1 DEF Places, Alive
  <2> QED
    BY <2>1, <2>2
<1>12. Idle'
  BY <1>1, <1>2, <1>3, <1>4, <1>6 DEF Idle, Alive, Task, TypeOK
<1>13. Counted'
  BY <1>1, <1>2 DEF Counted
<1>14. Pointers'
  <2>1. Alive(to)
    BY <1>1, <1>3 DEF Pointers
  <2>2. pc'[to] \notin {"none", "gone"}
    BY <1>3, <1>4, <1>6, <2>1 DEF Alive
  <2> QED
    BY <1>2, <1>3, <2>2 DEF Pointers, Alive
<1> QED
  BY <1>7, <1>8, <1>9, <1>11, <1>12, <1>13, <1>14 DEF SchedInv

\* The rest of LX_switch_to: the task that goes on is in the queue, and what it
\* frees has left its thread.
LEMMA ResumeStep ==
  ASSUME SchedInv, NEW t \in Task, Resume(t)
  PROVE  SchedInv'
<1>1. TypeOK /\ Memory /\ Switching /\ Places /\ Idle /\ Counted /\ Pointers
  BY DEF SchedInv
<1> DEFINE g == [pc EXCEPT ![t] = "run"]
<1>2. /\ pc[t] = "ready" /\ \A s \in Task \ {t} : pc[s] # "switch"
      /\ FreeUnused(alloc, g, <<>>)
      /\ lx_current_task' = t /\ UNCHANGED <<state, queue, nr, curr, need, to>>
  BY DEF Resume, Turn, rqVars
<1>3. /\ g \in [Task -> PC]
      /\ \A s \in Task : g[s] = IF s = t THEN "run" ELSE pc[s]
  BY <1>1 DEF TypeOK, PC
<1> HIDE DEF g
<1>4. \A s \in Task : pc[s] = "gone" <=> exited = <<s>>
  BY <1>1 DEF Memory
<1>5. /\ exited' = <<>> /\ <<>> \in Seq(Kernel) /\ pc' \in [Task -> PC]
      /\ alloc' \subseteq alloc
      /\ \A s \in Task : pc'[s] = IF pc[s] = "gone" THEN "none" ELSE g[s]
      /\ \A s \in Task : s \in alloc' <=> s \in alloc /\ pc[s] # "gone"
  <2>1. <<>> \in Seq(Kernel)
    BY EmptySeq
  <2>2. /\ exited' = <<>> /\ pc' \in [Task -> PC]
        /\ \A s \in Task : pc'[s] = IF exited = <<s>> THEN "none" ELSE g[s]
        /\ \A s \in Task : s \in alloc' <=> s \in alloc /\ exited # <<s>>
        /\ alloc' \subseteq alloc
    BY <1>1, <1>2, <1>3, <2>1, FreedTask
  <2> QED
    BY <1>4, <2>1, <2>2
<1>6. TypeOK'
  BY <1>1, <1>2, <1>5 DEF TypeOK, PC
<1>7. Memory'
  <2>1. Len(exited') <= 1 /\ \A s : exited' # <<s>>
    BY <1>5
  <2>2. \A s \in Task : pc'[s] # "gone"
    BY <1>3, <1>5
  <2>3. \A s \in Task : s \in alloc' <=> pc'[s] # "none"
    BY <1>1, <1>2, <1>3, <1>5 DEF Memory
  <2> QED
    BY <2>1, <2>2, <2>3 DEF Memory
<1>8. Switching'
  BY <1>2, <1>3, <1>5 DEF Switching
<1>9. \A s : Queued(s)' <=> Queued(s)
  BY <1>2 DEF Queued
<1>10. Places'
  <2> SUFFICES ASSUME NEW s \in Task \ {idle}
               PROVE  /\ pc'[s] \in {"run", "ready"} => Queued(s)
                      /\ pc'[s] \in {"switch", "blocked", "ready"} =>
                           (Queued(s) <=> state[s] = "RUNNING")
                      /\ ~Alive(s)' => ~Queued(s) /\ state[s] = "RUNNING"
                      /\ state[s] = "ZOMBIE" => pc'[s] \in {"run", "switch"}
    BY <1>2, <1>9 DEF Places
  <2>1. CASE s = t
    BY <1>1, <1>2, <1>3, <1>5, <2>1 DEF Places, Alive
  <2>2. CASE s # t
    BY <1>1, <1>2, <1>3, <1>5, <2>2 DEF Places, Alive
  <2> QED
    BY <2>1, <2>2
<1>11. Idle' /\ Counted'
  BY <1>1, <1>2, <1>3, <1>5 DEF Idle, Counted, Alive, Task
<1>12. Pointers'
  <2>1. curr \in Task
    BY <1>1 DEF TypeOK
  <2> QED
    BY <1>1, <1>2, <1>3, <1>5, <2>1 DEF Pointers, Alive
<1> QED
  BY <1>6, <1>7, <1>8, <1>10, <1>11, <1>12 DEF SchedInv

\* try_to_wake_up: a task that sleeps and has left the queue goes back into it
\* before its thread can run.
LEMMA WakeStep ==
  ASSUME SchedInv, NEW t \in Task, TryToWakeUp(t)
  PROVE  SchedInv'
<1>1. TypeOK /\ Memory /\ Switching /\ Places /\ Idle /\ Counted /\ Pointers
  BY DEF SchedInv
<1>2. /\ state[t] = "SLEEPING" /\ state' = [state EXCEPT ![t] = "RUNNING"]
      /\ pc' = DevRun(pc, t)
      /\ UNCHANGED <<curr, lx_current_task, to, alloc, exited>>
      /\ IF Queued(t) THEN UNCHANGED <<queue, nr, need>>
         ELSE /\ queue' = Append(queue, t) /\ nr' = nr + 1
              /\ need' = (need \/ curr = idle)
  BY DEF TryToWakeUp, Wakes, Activate, rqVars, memVars
<1>3. /\ t # idle /\ pc \in [Task -> PC] /\ Alive(t)
  BY <1>1, <1>2 DEF Idle, Places, TypeOK, PC
<1>4. /\ pc' \in [Task -> PC]
      /\ \A s \in Task : pc'[s] =
           IF s = t /\ pc[s] = "blocked" THEN "ready" ELSE pc[s]
  BY <1>2, <1>3, DevRunThread
<1>5. /\ queue' \in Seq(Task \ {idle}) /\ nr' = Len(queue') /\ Distinct(queue')
      /\ \A s : Queued(s)' <=> Queued(s) \/ s = t
  <2>1. /\ queue \in Seq(Task \ {idle}) /\ nr = Len(queue) /\ Distinct(queue)
    BY <1>1 DEF TypeOK, Counted
  <2>2. CASE Queued(t)
    BY <1>2, <2>1, <2>2 DEF Queued
  <2>3. CASE ~Queued(t)
    <3> DEFINE a == Append(queue, t)
    <3>1. queue' = a /\ nr' = nr + 1
      BY <1>2, <2>3
    <3>2. t \in Task \ {idle} /\ ~In(queue, t)
      BY <1>3, <2>3 DEF Queued
    <3>3. /\ a \in Seq(Task \ {idle}) /\ Len(a) = Len(queue) + 1 /\ Distinct(a)
          /\ \A s : In(a, s) <=> In(queue, s) \/ s = t
      BY <2>1, <3>2, AppendQueue
    <3> HIDE DEF a
    <3> QED
      BY <2>1, <3>1, <3>3 DEF Queued
  <2> QED
    BY <2>2, <2>3
<1>6. TypeOK'
  <2>1. need' \in BOOLEAN
    BY <1>1, <1>2 DEF TypeOK
  <2>2. nr' \in Nat
    BY <1>5, LenProperties
  <2> QED
    BY <1>1, <1>2, <1>4, <1>5, <2>1, <2>2 DEF TypeOK, PC
<1>7. Memory'
  BY <1>1, <1>2, <1>4 DEF Memory
<1>8. Switching'
  BY <1>1, <1>2, <1>4, <1>5 DEF Switching
<1>9. Places'
  <2> SUFFICES ASSUME NEW s \in Task \ {idle}
               PROVE  /\ pc'[s] \in {"run", "ready"} => Queued(s)'
                      /\ pc'[s] \in {"switch", "blocked", "ready"} =>
                           (Queued(s)' <=> state'[s] = "RUNNING")
                      /\ ~Alive(s)' => ~Queued(s)' /\ state'[s] = "RUNNING"
                      /\ state'[s] = "ZOMBIE" => pc'[s] \in {"run", "switch"}
    BY DEF Places
  <2>1. CASE s = t
    <3>1. state'[t] = "RUNNING"
      BY <1>1, <1>2 DEF TypeOK
    <3> QED
      BY <1>3, <1>4, <1>5, <2>1, <3>1 DEF Alive
  <2>2. CASE s # t
    <3>1. state'[s] = state[s]
      BY <1>1, <1>2, <2>2 DEF TypeOK
    <3> QED
      BY <1>1, <1>4, <1>5, <2>2, <3>1 DEF Places, Alive
  <2> QED
    BY <2>1, <2>2
<1>10. Idle'
  BY <1>1, <1>2, <1>3, <1>4 DEF Idle, Alive, Task, TypeOK
<1>11. Counted'
  BY <1>5 DEF Counted
<1>12. Pointers'
  <2>1. curr \in Task /\ (lx_current_task # None => lx_current_task \in Task)
    BY <1>1 DEF TypeOK
  <2> QED
    BY <1>1, <1>2, <1>4, <2>1 DEF Pointers, Alive
<1> QED
  BY <1>6, <1>7, <1>8, <1>9, <1>10, <1>11, <1>12 DEF SchedInv

\* A step that leaves the threads alone and keeps who is in the queue.
LEMMA SameTasks ==
  ASSUME SchedInv,
         UNCHANGED <<state, curr, need, lx_current_task, pc, to, alloc, exited>>,
         queue' \in Seq(Task \ {idle}), nr' = Len(queue'), Distinct(queue'),
         \A s : In(queue', s) <=> In(queue, s)
  PROVE  SchedInv'
<1>1. TypeOK /\ Memory /\ Switching /\ Places /\ Idle /\ Counted /\ Pointers
  BY DEF SchedInv
<1>2. \A s : Queued(s)' <=> Queued(s)
  BY DEF Queued
<1>3. nr' \in Nat
  BY LenProperties
<1>4. TypeOK'
  BY <1>1, <1>3 DEF TypeOK
<1>5. Memory' /\ Idle' /\ Pointers' /\ Counted'
  BY <1>1 DEF Memory, Idle, Pointers, Counted, Alive
<1>6. Switching' /\ Places'
  BY <1>1, <1>2 DEF Switching, Places, Alive
<1> QED
  BY <1>4, <1>5, <1>6 DEF SchedInv

\* scheduler_tick: a task whose time slice is over goes to the end of the queue.
LEMMA TickStep == ASSUME SchedInv, SchedulerTick PROVE SchedInv'
<1>1. /\ queue \in Seq(Task \ {idle}) /\ nr = Len(queue) /\ Distinct(queue)
      /\ nr \in Nat
  BY DEF SchedInv, TypeOK, Counted
<1>2. PICK t : t = lx_current_task
  OBVIOUS
<1>3. PICK w : w = Without(queue, t)
  OBVIOUS
<1>4. /\ In(queue, t) /\ queue' = Append(w, t)
      /\ UNCHANGED <<state, nr, curr, need, lx_current_task, pc, to, alloc, exited>>
  BY <1>2, <1>3 DEF SchedulerTick, Queued, memVars
<1>5. /\ w \in Seq(Task \ {idle}) /\ Len(w) = nr - 1 /\ Distinct(w)
      /\ \A s : In(w, s) <=> In(queue, s) /\ s # t
  BY <1>1, <1>3, <1>4, WithoutQueue
<1>6. t \in Task \ {idle}
  BY <1>1, <1>4, LenProperties, ElementOfSeq DEF In
<1>7. /\ queue' \in Seq(Task \ {idle}) /\ Len(queue') = Len(w) + 1
      /\ Distinct(queue')
      /\ \A s : In(queue', s) <=> In(w, s) \/ s = t
  <2>1. ~In(w, t)
    BY <1>5
  <2>2. PICK S : S = Task \ {idle}
    OBVIOUS
  <2>3. t \in S /\ w \in Seq(S)
    BY <1>5, <1>6, <2>2
  <2> QED
    BY <1>4, <1>5, <2>1, <2>2, <2>3, AppendQueue
<1>8. nr' = Len(queue')
  BY <1>1, <1>4, <1>5, <1>7
<1>9. \A s : In(queue', s) <=> In(queue, s)
  BY <1>4, <1>5, <1>7
<1> QED
  BY <1>4, <1>7, <1>8, <1>9, SameTasks

\* A task that comes: it was in no queue, and it is in it when its thread runs.
LEMMA ComesStep ==
  ASSUME SchedInv, NEW k \in Task \ {idle}, pc[k] = "none",
         queue' \in Seq(Task \ {idle}), Distinct(queue'), nr' = Len(queue'),
         \A s : In(queue', s) <=> In(queue, s) \/ s = k,
         state' = [state EXCEPT ![k] = "RUNNING"],
         pc' = [pc EXCEPT ![k] = "run"],
         alloc' = alloc \cup {k},
         UNCHANGED <<curr, need, lx_current_task, to, exited>>
  PROVE  SchedInv'
<1>1. TypeOK /\ Memory /\ Switching /\ Places /\ Idle /\ Counted /\ Pointers
  BY DEF SchedInv
<1>2. \A s : Queued(s)' <=> Queued(s) \/ s = k
  BY DEF Queued
<1>3. nr' \in Nat
  BY LenProperties
<1>4. TypeOK'
  <2>1. pc' \in [Task -> PC] /\ alloc' \subseteq Task
    BY <1>1 DEF TypeOK, PC
  <2> QED
    BY <1>1, <1>3, <2>1 DEF TypeOK, PC
<1>5. /\ \A s \in Task : pc'[s] = IF s = k THEN "run" ELSE pc[s]
      /\ \A s \in Task : state'[s] = IF s = k THEN "RUNNING" ELSE state[s]
  BY <1>1 DEF TypeOK
<1>6. Memory'
  BY <1>1, <1>5 DEF Memory
<1>7. Switching'
  BY <1>1, <1>2, <1>5 DEF Switching
<1>8. Places'
  <2> SUFFICES ASSUME NEW s \in Task \ {idle}
               PROVE  /\ pc'[s] \in {"run", "ready"} => Queued(s)'
                      /\ pc'[s] \in {"switch", "blocked", "ready"} =>
                           (Queued(s)' <=> state'[s] = "RUNNING")
                      /\ ~Alive(s)' => ~Queued(s)' /\ state'[s] = "RUNNING"
                      /\ state'[s] = "ZOMBIE" => pc'[s] \in {"run", "switch"}
    BY DEF Places
  <2>1. CASE s = k
    BY <1>2, <1>5, <2>1 DEF Alive
  <2>2. CASE s # k
    BY <1>1, <1>2, <1>5, <2>2 DEF Places, Alive
  <2> QED
    BY <2>1, <2>2
<1>9. Idle'
  BY <1>1, <1>5 DEF Idle, Alive, Task
<1>10. Counted'
  BY DEF Counted
<1>11. Pointers'
  <2>1. curr \in Task /\ (lx_current_task # None => lx_current_task \in Task)
    BY <1>1 DEF TypeOK
  <2> QED
    BY <1>1, <1>5, <2>1 DEF Pointers, Alive
<1> QED
  BY <1>4, <1>6, <1>7, <1>8, <1>9, <1>10, <1>11 DEF SchedInv

\* wake_up_forked_process and LX_enter_current.
LEMMA ForkEnterStep ==
  ASSUME SchedInv, NEW k \in Task \ {idle},
         Enter(k) \/ \E t \in Task : Fork(t, k)
  PROVE  SchedInv'
<1>1. /\ pc[k] = "none"
      /\ state' = [state EXCEPT ![k] = "RUNNING"]
      /\ pc' = [pc EXCEPT ![k] = "run"]
      /\ alloc' = alloc \cup {k}
      /\ nr' = nr + 1
      /\ UNCHANGED <<curr, need, lx_current_task, to, exited>>
  BY DEF Enter, Enters, Fork, Activate
<1>2. /\ queue \in Seq(Task \ {idle}) /\ nr = Len(queue) /\ Distinct(queue)
      /\ ~In(queue, k)
  BY <1>1 DEF SchedInv, TypeOK, Counted, Places, Alive, Queued
<1>3. /\ queue' \in Seq(Task \ {idle}) /\ Len(queue') = Len(queue) + 1
      /\ Distinct(queue')
      /\ \A s : In(queue', s) <=> In(queue, s) \/ s = k
  <2>1. CASE Enter(k)
    <3>1. queue' = Append(queue, k)
      BY <2>1 DEF Enter, Enters, Activate
    <3> QED
      BY <1>2, <3>1, AppendQueue
  <2>2. ASSUME NEW t \in Task, Fork(t, k)
        PROVE  /\ queue' \in Seq(Task \ {idle}) /\ Len(queue') = Len(queue) + 1
               /\ Distinct(queue')
               /\ \A s : In(queue', s) <=> In(queue, s) \/ s = k
    <3>1. In(queue, t)
      BY <2>2 DEF Fork, Queued
    <3>2. PICK i \in DOMAIN queue : i = Place(queue, t)
      BY <3>1, PlaceOf, SMTT(30)
    <3> DEFINE w == SubSeq(queue, 1, i - 1) \o <<k>>
                      \o SubSeq(queue, i, Len(queue))
    <3>3. queue' = w
      BY <2>2, <3>2 DEF Fork
    <3>4. /\ w \in Seq(Task \ {idle}) /\ Len(w) = Len(queue) + 1 /\ Distinct(w)
          /\ \A s : In(w, s) <=> In(queue, s) \/ s = k
      BY <1>2, InsertQueue
    <3> HIDE DEF w
    <3> QED
      BY <3>3, <3>4, SMTT(30)
  <2> QED
    BY <2>1, <2>2
<1>4. nr' = Len(queue')
  BY <1>1, <1>2, <1>3
<1> QED
  BY <1>1, <1>3, <1>4, ComesStep

\* Every step keeps the invariant.
LEMMA SchedInvStep == SchedInv /\ [Next]_vars => SchedInv'
<1> SUFFICES ASSUME SchedInv, [Next]_vars PROVE SchedInv'
  OBVIOUS
<1>0. \A t \in Kernel \cup Visitor : t \in Task \ {idle}
  BY SchedAssumption DEF Task
<1>1. ASSUME NEW t \in Task, SetSleeping(t) PROVE SchedInv'
  <2>1. t # idle
    BY <1>1 DEF SetSleeping
  <2> QED
    BY <1>1, <2>1, StateStep
<1>2. ASSUME NEW t \in Task, Schedule(t) PROVE SchedInv'
  BY <1>2, ScheduleStep
<1>3. ASSUME NEW t \in Task, Switch(t) PROVE SchedInv'
  BY <1>3, SwitchStep
<1>4. ASSUME NEW t \in Task, SwitchDead(t) PROVE SchedInv'
  BY <1>4, SwitchDeadStep
<1>5. ASSUME NEW t \in Task, Resume(t) PROVE SchedInv'
  BY <1>5, ResumeStep
<1>6. ASSUME NEW t \in Task, TryToWakeUp(t) PROVE SchedInv'
  BY <1>6, WakeStep
<1>7. ASSUME NEW t \in Kernel, Exit(t) PROVE SchedInv'
  BY <1>0, <1>7, StateStep
<1>8. ASSUME NEW t \in Kernel, NEW s \in Task, Fork(s, t) PROVE SchedInv'
  BY <1>0, <1>8, ForkEnterStep
<1>9. ASSUME NEW t \in Visitor, Enter(t) PROVE SchedInv'
  BY <1>0, <1>9, ForkEnterStep
<1>10. ASSUME NEW t \in Visitor, Leave(t) PROVE SchedInv'
  BY <1>0, <1>10, StateStep
<1>11. CASE SchedulerTick
  BY <1>11, TickStep
<1>12. CASE UNCHANGED vars
  <2>1. UNCHANGED <<state, queue, nr, curr, need, lx_current_task, pc, to, alloc,
                    exited>>
    BY <1>12 DEF vars, rqVars, memVars
  <2>2. /\ queue \in Seq(Task \ {idle}) /\ nr = Len(queue) /\ Distinct(queue)
    BY DEF SchedInv, TypeOK, Counted
  <2>3. /\ queue' \in Seq(Task \ {idle}) /\ nr' = Len(queue') /\ Distinct(queue')
        /\ \A s : In(queue', s) <=> In(queue, s)
    BY <2>1, <2>2
  <2> QED
    BY <2>1, <2>3, SameTasks
<1> QED
  BY <1>1, <1>2, <1>3, <1>4, <1>5, <1>6, <1>7, <1>8, <1>9, <1>10, <1>11, <1>12
     DEF Next

-----------------------------------------------------------------------------
(* The theorems.                                                           *)

\* The variables of the scheduler have their types: nr_running never goes below
\* zero, whichever tasks are taken out of the queue.
THEOREM SchedTypeOK == Spec => []TypeOK
BY SchedInvInit, SchedInvStep, SchedInvImplies, PTL DEF Spec

\* No step is that of an OS/2 signal which ends the DevBlock of a switch.
NoSignal == [][~ \E v \in Visitor : Signal(v)]_vars

\* With the signals of OS/2 in the specification, a task that runs is in the run
\* queue as long as none has come: whether it was woken in DevBlock, before it,
\* or only picked by another task, no other step of the scheduler can break what
\* try_to_wake_up relies on.
THEOREM QueuedUnlessSignalled == SignalSpec /\ NoSignal => []CurrentQueued
<1>1. [Next \/ \E v \in Visitor : Signal(v)]_vars
        /\ [~ \E v \in Visitor : Signal(v)]_vars => [Next]_vars
  OBVIOUS
<1>2. QED
  BY <1>1, SchedInvInit, SchedInvStep, SchedInvImplies, PTL
     DEF SignalSpec, NoSignal

\* The run queue holds every task that could run, once, and nr_running counts
\* them.
THEOREM QueueIsExact == Spec => []QueueExact
BY SchedInvInit, SchedInvStep, SchedInvImplies, PTL DEF Spec

\* No pointer to a freed task is left in the run queue, in rq->curr, in
\* lx_current_task or in a thread.
THEOREM NoFreedTaskIsUsed == Spec => []NothingFreed
BY SchedInvInit, SchedInvStep, SchedInvImplies, PTL DEF Spec

=============================================================================
