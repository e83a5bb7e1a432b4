--------------------------- MODULE LxafsLinkProofs ---------------------------
(***************************************************************************)
(* Proofs about the hard links of LXAFS, for every directory, number of    *)
(* files and LX_MAX_LINKS.                                                 *)
(***************************************************************************)
EXTENDS LxafsLink, Integers, SequenceTheorems, FiniteSetTheorems, TLAPS

-----------------------------------------------------------------------------
(* The lists of links.                                                     *)

\* A list has a name once.
Distinct(s) == \A j, k \in DOMAIN s : s[j] = s[k] => j = k

\* The list s holds the names of S, each once.
Holds(s, S) == s \in Seq(Name) /\ Distinct(s) /\ In(s) = S

\* The empty list.
LEMMA EmptyHolds == Holds(<<>>, {}) /\ \A S : Holds(<<>>, S) => S = {}
<1>1. <<>> \in Seq(Name) /\ DOMAIN <<>> = {}
  BY EmptySeq, LenProperties
<1> QED
  BY <1>1 DEF Holds, Distinct, In

\* A list is as long as the set of names it holds is large.
LEMMA HoldsCount ==
  ASSUME NEW s, NEW S, Holds(s, S)
  PROVE  Cardinality(S) = Len(s)
<1> DEFINE n == Len(s)
<1>1. s \in Seq(Name) /\ n \in Nat /\ DOMAIN s = 1 .. n
  BY LenProperties DEF Holds
<1> HIDE DEF n
<1>2. IsFiniteSet(1 .. n) /\ Cardinality(1 .. n) = n
  BY <1>1, FS_Interval
<1>3. ExistsBijection(1 .. n, S)
  <2>1. s \in [1 .. n -> S]
    <3>1. s = [k \in 1 .. n |-> s[k]]
      BY <1>1
    <3>2. \A k \in 1 .. n : s[k] \in S
      BY <1>1 DEF Holds, In
    <3> QED
      BY <3>1, <3>2
  <2>2. \A t \in S : \E k \in 1 .. n : s[k] = t
    BY <1>1 DEF Holds, In
  <2>3. \A j, k \in 1 .. n : s[j] = s[k] => j = k
    BY <1>1 DEF Holds, Distinct
  <2>4. s \in Bijection(1 .. n, S)
    BY <2>1, <2>2, <2>3 DEF Bijection, Injection, Surjection, IsInjective
  <2> QED
    BY <2>4 DEF ExistsBijection
<1> QED
  BY <1>2, <1>3, FS_Bijection DEF n

\* An entry that is taken out of a list.
LEMMA RemoveEntry ==
  ASSUME NEW S, NEW q \in Seq(S), Distinct(q), NEW k \in DOMAIN q
  PROVE  LET w == SubSeq(q, 1, k - 1) \o SubSeq(q, k + 1, Len(q))
         IN  /\ w \in Seq(S) /\ Len(w) = Len(q) - 1
             /\ Distinct(w)
             /\ \A s : s \in In(w) <=> s \in In(q) /\ s # q[k]
<1> DEFINE n == Len(q)
           a == SubSeq(q, 1, k - 1)
           b == SubSeq(q, k + 1, n)
           w == a \o b
<1>1. n \in Nat /\ DOMAIN q = 1 .. n /\ \A i \in 1 .. n : q[i] \in S
  BY LenProperties, ElementOfSeq
<1> HIDE DEF n, a, b, w
<1>2. k \in Int /\ k >= 1 /\ k <= n
  BY <1>1
<1>3. /\ a \in Seq(S) /\ Len(a) = k - 1
      /\ \A i \in 1 .. k - 1 : a[i] = q[i]
  <2>1. \A i \in 1 .. k - 1 : q[i] \in S
    BY <1>1, <1>2
  <2>2. /\ a \in Seq(S) /\ Len(a) = IF 1 <= k - 1 THEN (k - 1) - 1 + 1 ELSE 0
        /\ \A i \in 1 .. (k - 1) - 1 + 1 : a[i] = q[1 + i - 1]
    BY <1>2, <2>1, SubSeqProperties DEF a
  <2> QED
    BY <1>2, <2>2
<1>4. /\ b \in Seq(S) /\ Len(b) = n - k
      /\ \A i \in 1 .. n - k : b[i] = q[k + i]
  <2>1. \A i \in k + 1 .. n : q[i] \in S
    BY <1>1, <1>2
  <2>2. /\ b \in Seq(S) /\ Len(b) = IF k + 1 <= n THEN n - (k + 1) + 1 ELSE 0
        /\ \A i \in 1 .. n - (k + 1) + 1 : b[i] = q[(k + 1) + i - 1]
    BY <1>1, <1>2, <2>1, SubSeqProperties DEF b
  <2>3. /\ n - (k + 1) + 1 = n - k
        /\ \A i \in 1 .. n - k : (k + 1) + i - 1 = k + i
    BY <1>1, <1>2
  <2>4. Len(b) = n - k
    BY <1>1, <1>2, <2>2
  <2> QED
    BY <2>2, <2>3, <2>4
<1>5. /\ w \in Seq(S) /\ Len(w) = n - 1 /\ DOMAIN w = 1 .. n - 1
      /\ \A i \in 1 .. n - 1 : w[i] = IF i < k THEN q[i] ELSE q[i + 1]
  <2>1. /\ w \in Seq(S) /\ Len(w) = Len(a) + Len(b)
        /\ \A i \in 1 .. Len(a) + Len(b) :
             w[i] = IF i <= Len(a) THEN a[i] ELSE b[i - Len(a)]
    BY <1>3, <1>4, ConcatProperties DEF w
  <2>2. Len(a) + Len(b) = n - 1
    BY <1>1, <1>2, <1>3, <1>4
  <2>3. DOMAIN w = 1 .. n - 1
    BY <2>1, <2>2, LenProperties
  <2>4. ASSUME NEW i \in 1 .. n - 1
        PROVE  w[i] = IF i < k THEN q[i] ELSE q[i + 1]
    <3>1. w[i] = IF i <= k - 1 THEN a[i] ELSE b[i - (k - 1)]
      BY <1>3, <2>1, <2>2
    <3>2. CASE i < k
      <4>1. i \in 1 .. k - 1 /\ i <= k - 1
        BY <1>2, <3>2
      <4> QED
        BY <1>3, <3>1, <3>2, <4>1
    <3>3. CASE ~(i < k)
      <4>1. ~(i <= k - 1) /\ i - (k - 1) \in 1 .. n - k
            /\ k + (i - (k - 1)) = i + 1
        BY <1>1, <1>2, <3>3
      <4> QED
        BY <1>4, <3>1, <3>3, <4>1
    <3> QED
      BY <3>2, <3>3
  <2> QED
    BY <2>1, <2>2, <2>3, <2>4
<1>6. Distinct(w)
  <2> SUFFICES ASSUME NEW i \in 1 .. n - 1, NEW j \in 1 .. n - 1, w[i] = w[j]
               PROVE  i = j
    BY <1>5 DEF Distinct
  <2>1. /\ i \in 1 .. n /\ i + 1 \in 1 .. n /\ j \in 1 .. n /\ j + 1 \in 1 .. n
    BY <1>1
  <2>2. /\ w[i] = IF i < k THEN q[i] ELSE q[i + 1]
        /\ w[j] = IF j < k THEN q[j] ELSE q[j + 1]
    BY <1>5
  <2>3. (IF i < k THEN i ELSE i + 1) = (IF j < k THEN j ELSE j + 1)
    BY <1>1, <2>1, <2>2 DEF Distinct
  <2> QED
    BY <1>2, <2>3
<1>7. ASSUME NEW s PROVE s \in In(w) <=> s \in In(q) /\ s # q[k]
  <2>1. ASSUME s \in In(w) PROVE s \in In(q) /\ s # q[k]
    <3>1. PICK i \in 1 .. n - 1 : w[i] = s
      BY <1>5, <2>1 DEF In
    <3> DEFINE j == IF i < k THEN i ELSE i + 1
    <3>2. j \in 1 .. n /\ j # k
      BY <1>1, <1>2
    <3>3. q[j] = s
      BY <1>5, <3>1
    <3> HIDE DEF j
    <3> QED
      BY <1>1, <1>2, <3>2, <3>3 DEF In, Distinct
  <2>2. ASSUME s \in In(q), s # q[k] PROVE s \in In(w)
    <3>1. PICK j \in 1 .. n : q[j] = s
      BY <1>1, <2>2 DEF In
    <3> DEFINE i == IF j < k THEN j ELSE j - 1
    <3>2. j # k
      BY <2>2, <3>1
    <3>3. /\ i \in 1 .. n - 1
          /\ i < k => i = j
          /\ ~(i < k) => i + 1 = j
      BY <1>1, <1>2, <3>2
    <3> HIDE DEF i
    <3>4. w[i] = s
      BY <1>5, <3>1, <3>3
    <3> QED
      BY <1>5, <3>3, <3>4 DEF In
  <2> QED
    BY <2>1, <2>2
<1> QED
  BY <1>5, <1>6, <1>7 DEF a, b, w, n

\* lxafs_detach_linked_file of a name in the list.
LEMMA DetachHolds ==
  ASSUME NEW s, NEW S, NEW n \in S, Holds(s, S)
  PROVE  Holds(Detach(s, n), S \ {n})
<1>1. s \in Seq(Name) /\ Distinct(s) /\ In(s) = S
  BY DEF Holds
<1>2. \E k \in DOMAIN s : s[k] = n /\ \A l \in 1 .. k - 1 : s[l] # n
  <2>1. PICK k \in DOMAIN s : s[k] = n
    BY <1>1 DEF In
  <2>2. DOMAIN s = 1 .. Len(s) /\ Len(s) \in Nat
    BY <1>1, LenProperties
  <2>3. \A l \in 1 .. k - 1 : l \in DOMAIN s /\ l # k
    <3> DEFINE m == Len(s)
    <3> HIDE DEF m
    <3>1. DOMAIN s = 1 .. m /\ m \in Nat /\ k \in 1 .. m
      BY <2>1, <2>2 DEF m
    <3> QED
      BY <3>1
  <2> QED
    BY <1>1, <2>1, <2>3 DEF Distinct
<1>3. PICK k \in DOMAIN s :
        /\ k = CHOOSE l \in DOMAIN s : s[l] = n /\ \A j \in 1 .. l - 1 : s[j] # n
        /\ s[k] = n
  BY <1>2
<1> DEFINE w == SubSeq(s, 1, k - 1) \o SubSeq(s, k + 1, Len(s))
<1>4. Detach(s, n) = w
  BY <1>3 DEF Detach
<1>5. /\ w \in Seq(Name) /\ Distinct(w)
      /\ \A x : x \in In(w) <=> x \in In(s) /\ x # s[k]
  BY <1>1, RemoveEntry
<1> HIDE DEF w
<1>6. In(w) = S \ {n}
  BY <1>1, <1>3, <1>5
<1> QED
  BY <1>4, <1>5, <1>6 DEF Holds

\* The last name of a list, and the names before it.
LEMMA LastHolds ==
  ASSUME NEW s, NEW S, Holds(s, S), s # <<>>
  PROVE  /\ s[Len(s)] \in S
         /\ Holds(SubSeq(s, 1, Len(s) - 1), S \ {s[Len(s)]})
<1>1. s \in Seq(Name) /\ Distinct(s) /\ In(s) = S
  BY DEF Holds
<1>2. PICK n \in Nat : n = Len(s) /\ DOMAIN s = 1 .. n /\ n # 0
  BY <1>1, LenProperties, EmptySeq
<1>3. n \in DOMAIN s
  BY <1>2
<1> DEFINE u == SubSeq(s, 1, n - 1)
           w == u \o SubSeq(s, n + 1, n)
<1>4. \A i \in 1 .. n - 1 : s[i] \in Name
  BY <1>1, <1>2, ElementOfSeq
<1>5. u \in Seq(Name)
  BY <1>2, <1>4, SubSeqProperties
<1>6. w = u
  <2>1. SubSeq(s, n + 1, n) = <<>>
    BY <1>2, SubSeqEmpty
  <2> QED
    BY <1>5, <2>1, ConcatEmptySeq
<1>7. /\ w \in Seq(Name) /\ Distinct(w)
      /\ \A x : x \in In(w) <=> x \in In(s) /\ x # s[n]
  <2> HIDE DEF w
  <2>1. w = SubSeq(s, 1, n - 1) \o SubSeq(s, n + 1, Len(s))
    BY <1>2 DEF w
  <2> QED
    BY <1>1, <1>3, <2>1, RemoveEntry
<1> HIDE DEF u, w
<1>8. s[n] \in S /\ In(u) = S \ {s[n]}
  BY <1>1, <1>3, <1>6, <1>7 DEF In
<1> QED
  BY <1>2, <1>6, <1>7, <1>8 DEF Holds, u

\* lxafs_attach_linked_file of a name that is not in the list.
LEMMA AttachHolds ==
  ASSUME NEW s, NEW S, NEW n \in Name \ S, Holds(s, S)
  PROVE  Holds(Attach(s, n), S \cup {n})
<1>1. s \in Seq(Name) /\ Distinct(s) /\ In(s) = S
  BY DEF Holds
<1> DEFINE w == <<n>> \o s
<1>2. Attach(s, n) = w
  BY <1>1 DEF Attach
<1>3. PICK m \in Nat : m = Len(s) /\ DOMAIN s = 1 .. m
  BY <1>1, LenProperties
<1>4. /\ <<n>> \in Seq(Name) /\ Len(<<n>>) = 1 /\ <<n>>[1] = n
  OBVIOUS
<1>5. /\ w \in Seq(Name) /\ Len(w) = 1 + m
      /\ \A i \in 1 .. 1 + m : w[i] = IF i <= 1 THEN <<n>>[i] ELSE s[i - 1]
  BY <1>1, <1>3, <1>4, ConcatProperties
<1>6. DOMAIN w = 1 .. 1 + m
  BY <1>5, LenProperties
<1> HIDE DEF w
<1>7. /\ 1 \in 1 .. 1 + m /\ w[1] = n
      /\ \A i \in 1 .. 1 + m : i # 1 => i - 1 \in 1 .. m /\ w[i] = s[i - 1]
      /\ \A i \in 1 .. m : i + 1 \in 1 .. 1 + m /\ i + 1 # 1
                           /\ (i + 1) - 1 = i
  BY <1>3, <1>4, <1>5
<1>8. \A i \in 1 .. m : s[i] # n
  BY <1>1, <1>3 DEF In
<1>9. Distinct(w)
  <2> SUFFICES ASSUME NEW i \in 1 .. 1 + m, NEW j \in 1 .. 1 + m, w[i] = w[j]
               PROVE  i = j
    BY <1>6 DEF Distinct
  <2>1. i = 1 <=> j = 1
    BY <1>7, <1>8
  <2>2. i # 1 => i - 1 = j - 1
    BY <1>1, <1>3, <1>7, <2>1, ZenonT(60) DEF Distinct
  <2> QED
    BY <2>1, <2>2
<1>10. ASSUME NEW x PROVE x \in In(w) <=> x \in S \cup {n}
  <2>1. x \in In(w) => x \in S \cup {n}
    BY <1>1, <1>3, <1>6, <1>7 DEF In
  <2>2. ASSUME x \in S PROVE x \in In(w)
    <3>1. PICK i \in 1 .. m : s[i] = x
      BY <1>1, <1>3, <2>2 DEF In
    <3>2. i + 1 \in DOMAIN w /\ w[i + 1] = x
      BY <1>6, <1>7, <3>1
    <3> QED
      BY <3>2 DEF In
  <2>3. n \in In(w)
    BY <1>6, <1>7 DEF In
  <2> QED
    BY <2>1, <2>2, <2>3
<1>11. In(w) = S \cup {n}
  BY <1>10
<1> QED
  BY <1>2, <1>5, <1>9, <1>11 DEF Holds

-----------------------------------------------------------------------------
(* The invariant.                                                          *)

FileRec == [data : 0 .. MaxFile, to : Name \cup {None}, by : Seq(Name)]
InodeRec == [name : Name \cup {None}, list : Seq(Name), nlink : Int,
             dirty : SUBSET Dirty]

\* The names on disk that are linked to m, and those in memory with inode i.
Kids(m) == {x \in Name : Exists(x) /\ file[x].to = m}
Users(i) == {x \in Name : dentry[x] = i}

\* iput has not freed the inode; the inode of n is yet to be written.
InUse(i) == inode[i].dirty # {} \/ \E x \in Name : dentry[x] = i
Unwritten(n) == \E i \in Ino : inode[i].name = n /\ inode[i].dirty # {}

\* The values of the variables.
LinkTypes ==
  /\ file \in [Name -> FileRec \cup {None}]
  /\ dentry \in [Name -> Ino \cup {None}]
  /\ pinned \in SUBSET Name
  /\ inode \in [Ino -> InodeRec]
  /\ link \in [Name -> (1 .. MaxFile) \cup {None}]
  /\ made \in 0 .. MaxFile

\* A file on disk is a master with the data of its name, or is linked to a
\* master that stands for the same file.
OnDisk(n) == Exists(n) =>
  \/ file[n].to = None /\ file[n].data = link[n]
  \/ /\ file[n].to \in Name /\ Exists(file[n].to)
     /\ file[file[n].to].to = None /\ link[n] = link[file[n].to]

\* A name in memory has an inode of its master, which need not be in memory.
Cached(n) == dentry[n] # None =>
  LET m == inode[dentry[n]].name
  IN  Exists(n) /\ (n = m \/ file[n].to = m)

\* The file of a master lists all its links, unless its inode is yet to be
\* written.
Written(n) == Exists(n) /\ file[n].to = None /\ ~Unwritten(n) =>
  Holds(file[n].by, Kids(n))

Sound(n) == OnDisk(n) /\ Cached(n) /\ Written(n)

\* An inode that is kept, for a name or for the write-back alone, names a
\* master and lists all its links.
Serves(i) == InUse(i) =>
  LET m == inode[i].name
  IN  /\ m \in Name /\ Exists(m) /\ file[m].to = None
      /\ Holds(inode[i].list, Kids(m))

\* No master has two inodes: the eviction of its dentry has not led to a second.
Single ==
  \A i, j \in Ino :
    InUse(i) /\ InUse(j) /\ inode[i].name = inode[j].name => i = j

\* i_nlink counts the names in memory at least.
Uses == \A i \in Ino : Cardinality(Users(i)) <= inode[i].nlink

Good ==
  /\ LinkTypes
  /\ \A n \in Name : Sound(n)
  /\ \A i \in Ino : Serves(i)
  /\ Single /\ Uses

\* Nothing is promised once an inode has been orphaned.
LinkInv == orphaned \in BOOLEAN /\ hung \in BOOLEAN /\ (~orphaned => Good)

\* A file or an inode is not None.
LEMMA NoneIsNothing ==
  /\ None \notin Name /\ None \notin FileRec /\ None \notin Ino
  /\ Ino \subseteq Nat /\ IsFiniteSet(Name) /\ MaxFile \in Nat
  /\ Cardinality(Name) \in Nat
<1>1. Cardinality(Name) \in Nat
  BY LinkAssumption, FS_CardinalityType
<1>2. Ino \subseteq Nat
  BY <1>1 DEF Ino
<1> QED
  BY <1>1, <1>2, LinkAssumption DEF FileRec

\* The names of an inode are finitely many.
LEMMA UsersFinite ==
  ASSUME NEW i PROVE IsFiniteSet(Users(i)) /\ Cardinality(Users(i)) \in Nat
<1>1. Users(i) \in SUBSET Name
  BY DEF Users
<1> QED
  BY <1>1, NoneIsNothing, FS_Subset, FS_CardinalityType

\* Init establishes the invariant.
LEMMA LinkInit == Init => LinkInv
<1> SUFFICES ASSUME Init PROVE orphaned \in BOOLEAN /\ hung \in BOOLEAN /\ Good
  BY DEF LinkInv
<1> USE NoneIsNothing
<1>1. LinkTypes
  <2>1. inode \in [Ino -> InodeRec]
    <3>1. Unused \in InodeRec
      BY EmptySeq DEF Unused, InodeRec
    <3> QED
      BY <3>1 DEF Init
  <2>2. 0 \in 0 .. MaxFile
    OBVIOUS
  <2> QED
    BY <2>1, <2>2 DEF Init, LinkTypes
<1>2. \A n \in Name : Sound(n)
  BY DEF Init, Sound, OnDisk, Cached, Written, Exists
<1>3. \A i \in Ino : ~InUse(i)
  BY DEF Init, InUse, Unused
<1>4. (\A i \in Ino : Serves(i)) /\ Single
  BY <1>3 DEF Serves, Single
<1>5. Uses
  <2> SUFFICES ASSUME NEW i \in Ino PROVE Cardinality(Users(i)) <= inode[i].nlink
    BY DEF Uses
  <2>1. Users(i) = {}
    BY DEF Users, Init
  <2>2. inode[i].nlink = 0
    BY DEF Init, Unused
  <2> QED
    BY <2>1, <2>2, FS_EmptySet
<1> QED
  BY <1>1, <1>2, <1>4, <1>5 DEF Good, Init

-----------------------------------------------------------------------------
(* What a step must show.                                                  *)

\* An inode is free or in use.
LEMMA FreeOrInUse == \A i \in Ino : i \in Free <=> ~InUse(i)
BY DEF Free, InUse

\* CHOOSE finds a free inode.
LEMMA FreeInode ==
  ASSUME Free # {}
  PROVE  \E i \in Ino : i = (CHOOSE j \in Free : TRUE) /\ ~InUse(i)
<1>1. (CHOOSE j \in Free : TRUE) \in Free
  OBVIOUS
<1> QED
  BY <1>1, FreeOrInUse DEF Free

\* An inode in use has a master, and no other inode has it.
LEMMA InodeOf ==
  ASSUME Good, NEW i \in Ino, InUse(i)
  PROVE  \E m \in Name :
           /\ inode[i].name = m /\ Exists(m) /\ file[m].to = None
           /\ file[m] \in FileRec /\ inode[i] \in InodeRec
           /\ file[m].data = link[m]
           /\ Holds(inode[i].list, Kids(m))
           /\ \A j \in Ino : InUse(j) /\ inode[j].name = m => j = i
<1>1. PICK m \in Name :
        /\ inode[i].name = m /\ Exists(m) /\ file[m].to = None
        /\ Holds(inode[i].list, Kids(m))
  BY DEF Good, Serves
<1>2. file[m] \in FileRec /\ inode[i] \in InodeRec
  BY <1>1 DEF Good, LinkTypes, Exists
<1>3. file[m].data = link[m]
  BY <1>1, NoneIsNothing DEF Good, Sound, OnDisk
<1>4. \A j \in Ino : InUse(j) /\ inode[j].name = m => j = i
  BY <1>1 DEF Good, Single
<1> QED
  BY <1>1, <1>2, <1>3, <1>4

\* The master of a name in memory.
LEMMA MasterOf ==
  ASSUME Good, NEW x \in Name, dentry[x] # None
  PROVE  \E i \in Ino, m \in Name :
           /\ dentry[x] = i /\ inode[i].name = m /\ InUse(i)
           /\ Exists(x) /\ Exists(m) /\ file[m].to = None
           /\ x = m \/ file[x].to = m
           /\ file[m] \in FileRec /\ inode[i] \in InodeRec
           /\ link[x] = link[m] /\ file[m].data = link[m]
           /\ Holds(inode[i].list, Kids(m))
           /\ \A j \in Ino : InUse(j) /\ inode[j].name = m => j = i
<1> USE NoneIsNothing
<1>1. LinkTypes /\ Sound(x)
  BY DEF Good
<1>2. PICK i \in Ino : dentry[x] = i /\ InUse(i)
  BY <1>1 DEF LinkTypes, InUse
<1>3. PICK m \in Name :
        /\ inode[i].name = m /\ Exists(m) /\ file[m].to = None
        /\ file[m] \in FileRec /\ inode[i] \in InodeRec
        /\ file[m].data = link[m]
        /\ Holds(inode[i].list, Kids(m))
        /\ \A j \in Ino : InUse(j) /\ inode[j].name = m => j = i
  BY <1>2, InodeOf
<1>4. Exists(x) /\ (x = m \/ file[x].to = m)
  BY <1>1, <1>2, <1>3 DEF Sound, Cached
<1>5. link[x] = link[m]
  BY <1>1, <1>3, <1>4 DEF Sound, OnDisk
<1> QED
  BY <1>2, <1>3, <1>4, <1>5

\* What is known of a name stays true if the name does not change, its master
\* remains one, and what was to be written for it still is or has been.
LEMMA SoundKept ==
  ASSUME NEW x \in Name, Sound(x),
         file'[x] = file[x], link'[x] = link[x],
         dentry'[x] = dentry[x] \/ dentry'[x] = None,
         dentry[x] # None =>
           inode'[dentry[x]].name = inode[dentry[x]].name,
         \A y \in Name : Exists(x) /\ y = file[x].to =>
           file'[y] # None /\ file'[y].to = None /\ link'[y] = link[y],
         Exists(x) /\ file[x].to = None =>
           /\ Kids(x)' = Kids(x)
           /\ Unwritten(x) => Unwritten(x)' \/ Holds(file[x].by, Kids(x))
  PROVE  Sound(x)'
<1>1. OnDisk(x)'
  BY DEF Sound, OnDisk, Exists
<1>2. Cached(x)'
  BY DEF Sound, Cached, Exists
<1>3. Written(x)'
  <2> SUFFICES ASSUME file'[x] # None, file'[x].to = None, ~Unwritten(x)'
               PROVE  Holds(file'[x].by, Kids(x)')
    BY DEF Written, Holds, Exists
  <2>1. Exists(x) /\ file[x].to = None
    BY DEF Exists
  <2>2. Holds(file[x].by, Kids(x))
    BY <2>1 DEF Sound, Written
  <2> QED
    BY <2>1, <2>2
<1> QED
  BY <1>1, <1>2, <1>3 DEF Sound

\* What a step must make of a link, ...
LEMMA LinkSound ==
  ASSUME NEW x \in Name, NEW m \in Name,
         file'[x] # None, file'[x].to = m, file'[m] # None, file'[m].to = None,
         link'[x] = link'[m],
         dentry'[x] # None => inode'[dentry'[x]].name = m
  PROVE  Sound(x)'
<1>1. m # None
  BY NoneIsNothing
<1>2. OnDisk(x)' /\ Cached(x)'
  BY <1>1 DEF OnDisk, Cached, Exists
<1>3. Written(x)'
  BY <1>1 DEF Written
<1> QED
  BY <1>2, <1>3 DEF Sound

\* ... of a master, ...
LEMMA MasterSound ==
  ASSUME NEW m \in Name,
         file'[m] # None, file'[m].to = None, file'[m].data = link'[m],
         dentry'[m] # None => inode'[dentry'[m]].name = m,
         Unwritten(m)' \/ Holds(file'[m].by, Kids(m)')
  PROVE  Sound(m)'
<1>1. OnDisk(m)' /\ Cached(m)'
  BY DEF OnDisk, Cached, Exists
<1>2. Written(m)'
  BY DEF Written, Holds
<1> QED
  BY <1>1, <1>2 DEF Sound

\* ... of a name that is not in use, ...
LEMMA AbsentSound ==
  ASSUME NEW x \in Name, file'[x] = None, dentry'[x] = None
  PROVE  Sound(x)'
BY DEF Sound, OnDisk, Cached, Written, Exists

\* ... and of an inode.
LEMMA InodeServes ==
  ASSUME NEW i, NEW m \in Name, inode'[i].name = m,
         file'[m] # None, file'[m].to = None, Holds(inode'[i].list, Kids(m)')
  PROVE  Serves(i)'
BY DEF Serves, Exists, Holds

\* An inode that does not change serves its master, if that remains one.
LEMMA ServesKept ==
  ASSUME NEW j \in Ino, Serves(j), InUse(j)' => InUse(j),
         inode'[j].name = inode[j].name, inode'[j].list = inode[j].list,
         \A m \in Name : InUse(j) /\ m = inode[j].name =>
           file'[m] # None /\ file'[m].to = None /\ Kids(m)' = Kids(m)
  PROVE  Serves(j)'
<1> SUFFICES ASSUME InUse(j)' PROVE Serves(j)'
  BY DEF Serves
<1>1. PICK m \in Name : m = inode[j].name /\ Holds(inode[j].list, Kids(m))
  BY DEF Serves
<1>2. /\ file'[m] # None /\ file'[m].to = None /\ inode'[j].name = m
      /\ Holds(inode'[j].list, Kids(m)')
  BY <1>1
<1> QED
  BY <1>2, InodeServes

\* The other inodes do not have the master that inode i gets or keeps.
LEMMA SingleKept ==
  ASSUME Good, NEW i \in Ino, NEW m, inode'[i].name = m,
         \A j \in Ino : j # i =>
           (InUse(j)' => InUse(j)) /\ inode'[j].name = inode[j].name,
         \A j \in Ino : InUse(j) /\ inode[j].name = m => j = i
  PROVE  Single'
BY DEF Good, Single

\* No inode gets another master.
LEMMA SingleSame ==
  ASSUME Good,
         \A j \in Ino :
           (InUse(j)' => InUse(j)) /\ inode'[j].name = inode[j].name
  PROVE  Single'
BY DEF Good, Single

\* i_nlink counts a name that is added to an inode.
LEMMA UsesAdd ==
  ASSUME Good, NEW j \in Ino, NEW n \in Name, n \notin Users(j),
         Users(j)' = Users(j) \cup {n}, inode'[j].nlink = inode[j].nlink + 1
  PROVE  Cardinality(Users(j)') <= inode'[j].nlink
<1>1. Cardinality(Users(j)') = Cardinality(Users(j)) + 1
  BY FS_AddElement, UsersFinite
<1> DEFINE a == Cardinality(Users(j))
           b == inode[j].nlink
<1>2. a \in Nat /\ b \in Int /\ a <= b
  BY UsersFinite DEF Good, Uses, LinkTypes, InodeRec
<1> HIDE DEF a, b
<1>3. a + 1 <= b + 1
  BY <1>2
<1> QED
  BY <1>1, <1>3 DEF a, b

\* iod_unlink takes a name off an inode and counts it.
LEMMA UsesDrop ==
  ASSUME Good, NEW j \in Ino, NEW n \in Users(j),
         Users(j)' = Users(j) \ {n}, inode'[j].nlink = inode[j].nlink - 1
  PROVE  Cardinality(Users(j)') <= inode'[j].nlink
<1>1. Cardinality(Users(j)') = Cardinality(Users(j)) - 1
  BY FS_RemoveElement, UsersFinite, Zenon
<1> DEFINE a == Cardinality(Users(j))
           b == inode[j].nlink
<1>2. a \in Nat /\ b \in Int /\ a <= b
  BY UsersFinite DEF Good, Uses, LinkTypes, InodeRec
<1> HIDE DEF a, b
<1>3. a - 1 <= b - 1
  BY <1>2
<1> QED
  BY <1>1, <1>3 DEF a, b

\* An inode may lose names without being counted.
LEMMA UsesFewer ==
  ASSUME Good, NEW j \in Ino, Users(j)' \in SUBSET Users(j),
         inode'[j].nlink = inode[j].nlink
  PROVE  Cardinality(Users(j)') <= inode'[j].nlink
<1> DEFINE a == Cardinality(Users(j))
           b == inode[j].nlink
           c == Cardinality(Users(j)')
<1>1. c \in Nat /\ c <= a
  BY FS_Subset, UsersFinite, FS_CardinalityType
<1>2. a \in Nat /\ b \in Int /\ a <= b
  BY UsersFinite DEF Good, Uses, LinkTypes, InodeRec
<1> HIDE DEF a, b, c
<1>3. c <= b
  BY <1>1, <1>2
<1> QED
  BY <1>3 DEF b, c

\* An inode whose name is changed is still counted.
LEMMA UsesSwap ==
  ASSUME Good, NEW j \in Ino, NEW o \in Users(j), NEW n \in Name,
         n \notin Users(j), Users(j)' = (Users(j) \ {o}) \cup {n},
         inode'[j].nlink = inode[j].nlink
  PROVE  Cardinality(Users(j)') <= inode'[j].nlink
<1> DEFINE T == Users(j) \ {o}
<1>1. IsFiniteSet(T) /\ Cardinality(T) = Cardinality(Users(j)) - 1
  BY FS_RemoveElement, UsersFinite
<1>2. n \notin T
  OBVIOUS
<1>3. Cardinality(T \cup {n}) = Cardinality(T) + 1
  <2> HIDE DEF T
  <2> QED
    BY <1>1, <1>2, FS_AddElement
<1> DEFINE a == Cardinality(Users(j))
<1>4. a \in Nat
  BY UsersFinite
<1>5. Cardinality(Users(j)') = a
  <2> HIDE DEF T, a
  <2>1. Cardinality(Users(j)') = a - 1 + 1
    BY <1>1, <1>3 DEF T, a
  <2> QED
    BY <1>4, <2>1
<1> QED
  BY <1>5 DEF Good, Uses

-----------------------------------------------------------------------------
(* Each operation preserves the invariant.                                 *)

\* iod_create.
LEMMA CreateStep ==
  ASSUME Good, NEW n \in Name, Create(n)
  PROVE  Good'
<1> USE NoneIsNothing
<1>1. PICK i \in Ino : i = (CHOOSE j \in Free : TRUE) /\ ~InUse(i)
  BY FreeInode DEF Create
<1>2. PICK d \in SUBSET Dirty :
        /\ inode' = [inode EXCEPT ![i] =
             [name |-> n, list |-> <<>>, nlink |-> 1, dirty |-> d]]
        /\ dentry' = [dentry EXCEPT ![n] = i]
  BY <1>1 DEF Create
<1> DEFINE r == [data |-> made + 1, to |-> None, by |-> <<>>]
           u == [name |-> n, list |-> <<>>, nlink |-> 1, dirty |-> d]
<1>3. /\ LinkTypes /\ ~Exists(n) /\ dentry[n] = None
      /\ made + 1 \in 1 .. MaxFile /\ made + 1 \in 0 .. MaxFile
  BY DEF Create, Good, LinkTypes
<1>4. r \in FileRec /\ u \in InodeRec
  BY <1>3, EmptySeq DEF FileRec, InodeRec
<1>5. /\ file' = [file EXCEPT ![n] = r] /\ inode' = [inode EXCEPT ![i] = u]
      /\ link' = [link EXCEPT ![n] = made + 1] /\ made' = made + 1
      /\ pinned' = pinned
  BY <1>2 DEF Create
<1>6. /\ r.to = None /\ r.data = made + 1 /\ r.by = <<>>
      /\ u.name = n /\ u.list = <<>> /\ u.nlink = 1
  OBVIOUS
<1> HIDE DEF r, u
<1>7. LinkTypes'
  BY <1>2, <1>3, <1>4, <1>5 DEF LinkTypes
<1>8. /\ \A x \in Name : file'[x] = IF x = n THEN r ELSE file[x]
      /\ \A x \in Name : dentry'[x] = IF x = n THEN i ELSE dentry[x]
      /\ \A x \in Name : link'[x] = IF x = n THEN made + 1 ELSE link[x]
      /\ \A j \in Ino : inode'[j] = IF j = i THEN u ELSE inode[j]
      /\ \A x \in Name : dentry[x] # None => dentry[x] \in Ino \ {i}
      /\ r # None /\ i # None
  BY <1>1, <1>2, <1>3, <1>4, <1>5 DEF LinkTypes, InUse
<1>9. \A m \in Name : Kids(m)' = Kids(m)
  BY <1>3, <1>6, <1>8 DEF Kids, Exists
<1>10. Kids(n) = {}
  BY <1>3 DEF Kids, Good, Sound, OnDisk
<1>11. \A j \in Ino : j # i => (InUse(j)' => InUse(j)) /\ inode'[j] = inode[j]
  BY <1>8 DEF InUse
<1>12. ASSUME NEW x \in Name PROVE Sound(x)'
  <2>1. CASE x = n
    <3>1. /\ dentry'[n] = i /\ inode'[i] = u /\ file'[n] = r
          /\ link'[n] = made + 1
      BY <1>8
    <3>2. Holds(file'[n].by, Kids(n)')
      BY <1>6, <1>9, <1>10, <3>1, EmptyHolds
    <3> QED
      BY <1>6, <1>8, <2>1, <3>1, <3>2, MasterSound
  <2>2. CASE x # n
    <3>1. Sound(x) /\ OnDisk(x)
      BY DEF Good, Sound
    <3>2. \A y \in Name : Exists(x) /\ y = file[x].to =>
            file'[y] # None /\ file'[y].to = None /\ link'[y] = link[y]
      BY <1>3, <1>8, <3>1 DEF OnDisk, Exists
    <3>3. dentry[x] # None => inode'[dentry[x]] = inode[dentry[x]]
      BY <1>8
    <3>4. file'[x] = file[x] /\ dentry'[x] = dentry[x] /\ link'[x] = link[x]
      BY <1>8, <2>2
    <3>5. Unwritten(x) => Unwritten(x)'
      BY <1>1, <1>11 DEF Unwritten, InUse
    <3> QED
      BY <1>9, <3>1, <3>2, <3>3, <3>4, <3>5, SoundKept
  <2> QED
    BY <2>1, <2>2
<1>13. ASSUME NEW j \in Ino PROVE Serves(j)'
  <2>1. CASE j = i
    <3>1. inode'[i].name = n /\ file'[n] # None /\ file'[n].to = None
      BY <1>6, <1>8
    <3>2. inode'[i].list = <<>> /\ Kids(n)' = {}
      BY <1>6, <1>8, <1>9, <1>10
    <3>3. Holds(inode'[i].list, Kids(n)')
      BY <3>2, EmptyHolds
    <3> QED
      BY <2>1, <3>1, <3>3, InodeServes
  <2>2. CASE j # i
    <3>1. Serves(j)
      BY DEF Good
    <3>2. \A m \in Name : InUse(j) /\ m = inode[j].name =>
            file'[m] # None /\ file'[m].to = None /\ Kids(m)' = Kids(m)
      BY <1>3, <1>8, <1>9, <3>1 DEF Serves, Exists
    <3> QED
      BY <1>11, <2>2, <3>1, <3>2, ServesKept
  <2> QED
    BY <2>1, <2>2
<1>14. Single'
  <2>1. \A j \in Ino : InUse(j) /\ inode[j].name = n => j = i
    BY <1>3 DEF Good, Serves
  <2>2. inode'[i].name = n
    BY <1>6, <1>8
  <2> QED
    BY <1>11, <2>1, <2>2, SingleKept
<1>15. Uses'
  <2> SUFFICES ASSUME NEW j \in Ino PROVE Cardinality(Users(j)') <= inode'[j].nlink
    BY DEF Uses
  <2>1. CASE j = i
    <3>1. Users(j)' = {n}
      BY <1>8, <2>1 DEF Users
    <3>2. Cardinality(Users(j)') = 1
      BY <3>1, FS_Singleton
    <3>3. inode'[j].nlink = 1
      BY <1>6, <1>8, <2>1
    <3> QED
      BY <3>2, <3>3
  <2>2. CASE j # i
    <3>1. Users(j)' = Users(j)
      BY <1>3, <1>8, <2>2 DEF Users
    <3> QED
      BY <1>8, <2>2, <3>1 DEF Good, Uses
  <2> QED
    BY <2>1, <2>2
<1> QED
  BY <1>7, <1>12, <1>13, <1>14, <1>15, Zenon DEF Good

\* iod_lookup of a master that has no inode yet.
LEMMA LookupStep ==
  ASSUME Good, NEW n \in Name, Lookup(n), ~orphaned'
  PROVE  Good'
<1> USE NoneIsNothing
<1>1. PICK i \in Ino : i = (CHOOSE j \in Free : TRUE) /\ ~InUse(i)
  BY FreeInode DEF Lookup
<1>2. /\ Exists(n) /\ dentry[n] = None /\ file[n] \in FileRec
      /\ LinkTypes /\ Sound(n)
  BY DEF Lookup, Good, LinkTypes, Exists
<1>3. \A j \in Ino : InUse(j) => inode[j].name # n
  BY FreeOrInUse DEF Lookup
<1>4. file[n].to = None /\ file[n].data = link[n]
  BY <1>2 DEF Lookup, Sound, OnDisk, LinkName
<1> DEFINE s == file[n].by
<1>5. s \in Seq(Name) /\ Holds(s, Kids(n))
  <2>1. ~Unwritten(n)
    BY <1>3 DEF Unwritten, InUse
  <2> QED
    BY <1>2, <1>4, <2>1 DEF Sound, Written, Holds
<1>6. Existing(s) = s
  <2>1. \A m \in In(s) : Exists(m)
    BY <1>5 DEF Holds, Kids
  <2> QED
    BY <2>1 DEF Existing
<1>7. PICK e \in SUBSET Dirty :
        /\ inode' = [inode EXCEPT ![i] =
             [name |-> n, list |-> s, nlink |-> 1, dirty |-> e]]
        /\ dentry' = [dentry EXCEPT ![n] = i]
  <2>1. PICK d \in SUBSET Dirty :
          /\ inode' = [inode EXCEPT ![i] =
               [name |-> n, list |-> s, nlink |-> 1,
                dirty |-> IF s = <<>> THEN d ELSE d \cup {"LINKLIST"}]]
          /\ dentry' = [dentry EXCEPT ![n] = i]
    BY <1>1, <1>6 DEF Lookup
  <2>2. (IF s = <<>> THEN d ELSE d \cup {"LINKLIST"}) \in SUBSET Dirty
    BY DEF Dirty
  <2> QED
    BY <2>1, <2>2
<1> DEFINE u == [name |-> n, list |-> s, nlink |-> 1, dirty |-> e]
<1>8. u \in InodeRec /\ inode' = [inode EXCEPT ![i] = u]
  BY <1>5, <1>7 DEF InodeRec
<1>9. u.name = n /\ u.list = s /\ u.nlink = 1
  OBVIOUS
<1> HIDE DEF s, u
<1>10. UNCHANGED <<file, link, made, pinned>>
  BY DEF Lookup
<1>11. LinkTypes'
  BY <1>2, <1>7, <1>8, <1>10 DEF LinkTypes
<1>12. /\ \A x \in Name : dentry'[x] = IF x = n THEN i ELSE dentry[x]
       /\ \A j \in Ino : inode'[j] = IF j = i THEN u ELSE inode[j]
       /\ \A x \in Name : dentry[x] # None => dentry[x] \in Ino \ {i}
       /\ i # None
  BY <1>1, <1>2, <1>7, <1>8 DEF LinkTypes, InUse
<1>13. \A m \in Name : Kids(m)' = Kids(m)
  BY <1>10 DEF Kids, Exists
<1>14. \A j \in Ino : j # i => (InUse(j)' => InUse(j)) /\ inode'[j] = inode[j]
  BY <1>12 DEF InUse
<1>15. ASSUME NEW x \in Name PROVE Sound(x)'
  <2>1. CASE x = n
    <3>1. /\ dentry'[n] = i /\ inode'[i] = u /\ file'[n] # None
          /\ file'[n].to = None /\ file'[n].data = link'[n] /\ file'[n].by = s
      BY <1>2, <1>4, <1>10, <1>12 DEF Exists, s
    <3>2. Holds(file'[n].by, Kids(n)')
      BY <1>5, <1>13, <3>1
    <3> QED
      BY <1>9, <2>1, <3>1, <3>2, MasterSound
  <2>2. CASE x # n
    <3>1. Sound(x) /\ OnDisk(x)
      BY DEF Good, Sound
    <3>2. \A y \in Name : Exists(x) /\ y = file[x].to =>
            file'[y] # None /\ file'[y].to = None /\ link'[y] = link[y]
      BY <1>10, <3>1 DEF OnDisk, Exists
    <3>3. dentry[x] # None => inode'[dentry[x]] = inode[dentry[x]]
      BY <1>12
    <3>4. file'[x] = file[x] /\ dentry'[x] = dentry[x] /\ link'[x] = link[x]
      BY <1>10, <1>12, <2>2
    <3>5. Unwritten(x) => Unwritten(x)'
      BY <1>1, <1>14 DEF Unwritten, InUse
    <3> QED
      BY <1>13, <3>1, <3>2, <3>3, <3>4, <3>5, SoundKept
  <2> QED
    BY <2>1, <2>2
<1>16. ASSUME NEW j \in Ino PROVE Serves(j)'
  <2>1. CASE j = i
    <3>1. inode'[i].name = n /\ file'[n] # None /\ file'[n].to = None
      BY <1>2, <1>4, <1>9, <1>10, <1>12 DEF Exists
    <3>2. Holds(inode'[i].list, Kids(n)')
      BY <1>5, <1>9, <1>12, <1>13
    <3> QED
      BY <2>1, <3>1, <3>2, InodeServes
  <2>2. CASE j # i
    <3>1. Serves(j)
      BY DEF Good
    <3>2. \A m \in Name : InUse(j) /\ m = inode[j].name =>
            file'[m] # None /\ file'[m].to = None /\ Kids(m)' = Kids(m)
      BY <1>10, <1>13, <3>1 DEF Serves, Exists
    <3> QED
      BY <1>14, <2>2, <3>1, <3>2, ServesKept
  <2> QED
    BY <2>1, <2>2
<1>17. Single'
  <2>1. inode'[i].name = n
    BY <1>9, <1>12
  <2>2. \A j \in Ino : j # i =>
          (InUse(j)' => InUse(j)) /\ inode'[j].name = inode[j].name
    BY <1>14
  <2> QED
    BY <1>3, <2>1, <2>2 DEF Good, Single
<1>18. Uses'
  <2> SUFFICES ASSUME NEW j \in Ino PROVE Cardinality(Users(j)') <= inode'[j].nlink
    BY DEF Uses
  <2>1. CASE j = i
    <3>1. Users(j)' = {n}
      BY <1>12, <2>1 DEF Users
    <3>2. Cardinality(Users(j)') = 1
      BY <3>1, FS_Singleton
    <3>3. inode'[j].nlink = 1
      BY <1>9, <1>12, <2>1
    <3> QED
      BY <3>2, <3>3
  <2>2. CASE j # i
    <3>1. Users(j)' = Users(j)
      BY <1>2, <1>12, <2>2 DEF Users
    <3> QED
      BY <1>12, <2>2, <3>1 DEF Good, Uses
  <2> QED
    BY <2>1, <2>2
<1> QED
  BY <1>11, <1>15, <1>16, <1>17, <1>18, Zenon DEF Good

\* iod_lookup of a link.
LEMMA LookupLinkStep ==
  ASSUME Good, NEW n \in Name, LookupLink(n)
  PROVE  Good'
<1> USE NoneIsNothing
<1>1. /\ Exists(n) /\ dentry[n] = None /\ LinkTypes /\ Sound(n)
  BY Zenon DEF LookupLink, Good
<1>2. PICK m \in Name :
        /\ m = LinkName(n) /\ file[n].to = m /\ Exists(m) /\ file[m].to = None
        /\ link[n] = link[m] /\ dentry[m] # None
  BY <1>1 DEF LookupLink, LinkName, Sound, OnDisk
<1>3. PICK i \in Ino : /\ dentry[m] = i /\ inode[i].name = m
                       /\ inode[i] \in InodeRec /\ InUse(i)
                       /\ \A j \in Ino : InUse(j) /\ inode[j].name = m => j = i
  BY <1>2, MasterOf
<1>4. /\ dentry' = [dentry EXCEPT ![n] = i]
      /\ inode' = [inode EXCEPT ![i].nlink = @ + 1]
      /\ pinned' = pinned \cup {n}
      /\ UNCHANGED <<file, link, made>>
  BY <1>2, <1>3 DEF LookupLink
<1>5. /\ inode[i].nlink \in Int
      /\ \A x \in Name : dentry'[x] = IF x = n THEN i ELSE dentry[x]
      /\ \A j \in Ino : /\ inode'[j].name = inode[j].name
                        /\ inode'[j].list = inode[j].list
                        /\ inode'[j].dirty = inode[j].dirty
                        /\ inode'[j].nlink = IF j = i THEN inode[j].nlink + 1
                                             ELSE inode[j].nlink
      /\ \A x \in Name : dentry[x] # None => dentry[x] \in Ino
  BY <1>1, <1>3, <1>4 DEF LinkTypes, InodeRec
<1>6. LinkTypes'
  <2>1. [inode[i] EXCEPT !.nlink = @ + 1] \in InodeRec
    BY <1>3, <1>5 DEF InodeRec
  <2>2. inode' \in [Ino -> InodeRec]
    BY <1>1, <1>4, <2>1 DEF LinkTypes
  <2> QED
    BY <1>1, <1>4, <2>2 DEF LinkTypes
<1>7. \A y \in Name : Kids(y)' = Kids(y)
  BY <1>4 DEF Kids, Exists
<1>8. \A j \in Ino : InUse(j)' => InUse(j)
  BY <1>3, <1>5 DEF InUse
<1>9. ASSUME NEW x \in Name PROVE Sound(x)'
  <2>1. CASE x = n
    <3>1. inode'[dentry'[n]].name = m
      BY <1>3, <1>5
    <3>2. /\ file'[n] # None /\ file'[n].to = m /\ file'[m] # None
          /\ file'[m].to = None /\ link'[n] = link'[m]
      BY <1>1, <1>2, <1>4 DEF Exists
    <3> QED
      BY <2>1, <3>1, <3>2, LinkSound
  <2>2. CASE x # n
    <3>1. Sound(x) /\ OnDisk(x)
      BY DEF Good, Sound
    <3>2. \A y \in Name : Exists(x) /\ y = file[x].to =>
            file'[y] # None /\ file'[y].to = None /\ link'[y] = link[y]
      BY <1>4, <3>1 DEF OnDisk, Exists
    <3>3. /\ file'[x] = file[x] /\ dentry'[x] = dentry[x] /\ link'[x] = link[x]
          /\ dentry[x] # None => inode'[dentry[x]].name = inode[dentry[x]].name
      BY <1>4, <1>5, <2>2
    <3>4. Unwritten(x) => Unwritten(x)'
      BY <1>5 DEF Unwritten
    <3> QED
      BY <1>7, <3>1, <3>2, <3>3, <3>4, SoundKept
  <2> QED
    BY <2>1, <2>2
<1>10. ASSUME NEW j \in Ino PROVE Serves(j)'
  <2>1. Serves(j)
    BY DEF Good
  <2>2. \A y \in Name : InUse(j) /\ y = inode[j].name =>
          file'[y] # None /\ file'[y].to = None /\ Kids(y)' = Kids(y)
    BY <1>4, <1>7, <2>1 DEF Serves, Exists
  <2> QED
    BY <1>5, <1>8, <2>1, <2>2, ServesKept
<1>11. Single'
  BY <1>5, <1>8, SingleSame
<1>12. Uses'
  <2> SUFFICES ASSUME NEW j \in Ino PROVE Cardinality(Users(j)') <= inode'[j].nlink
    BY DEF Uses
  <2>1. Cardinality(Users(j)) <= inode[j].nlink
    BY DEF Good, Uses
  <2>2. CASE j = i
    <3>1. Users(j)' = Users(j) \cup {n} /\ n \notin Users(j)
      BY <1>1, <1>5, <2>2 DEF Users
    <3>2. inode'[j].nlink = inode[j].nlink + 1
      BY <1>5, <2>2
    <3> QED
      BY <3>1, <3>2, UsesAdd
  <2>3. CASE j # i
    <3>1. Users(j)' = Users(j)
      BY <1>1, <1>5, <2>3 DEF Users
    <3> QED
      BY <1>5, <2>1, <2>3, <3>1
  <2> QED
    BY <2>2, <2>3
<1> QED
  BY <1>6, <1>9, <1>10, <1>11, <1>12, Zenon DEF Good

\* iod_link to a file whose master is in memory.
LEMMA LinkStep ==
  ASSUME Good, NEW o \in Name, NEW n \in Name, Link(o, n)
  PROVE  Good'
<1> USE NoneIsNothing
<1>1. /\ dentry[o] # None /\ ~Exists(n) /\ dentry[n] = None /\ LinkTypes
  BY Zenon DEF Link, LinkTo, NewLink, Good
<1>2. PICK i \in Ino, m \in Name :
        /\ dentry[o] = i /\ inode[i].name = m /\ InUse(i)
        /\ Exists(m) /\ file[m].to = None
        /\ file[m] \in FileRec /\ inode[i] \in InodeRec
        /\ link[o] = link[m] /\ file[m].data = link[m]
        /\ Holds(inode[i].list, Kids(m))
        /\ \A j \in Ino : InUse(j) /\ inode[j].name = m => j = i
  BY <1>1, MasterOf
<1>3. dentry[m] = i
  <2>1. dentry[m] # None
    BY <1>2 DEF Link, LinkTo, MasterFound
  <2> QED
    BY <1>2, <2>1, MasterOf
<1> DEFINE r == [data |-> 0, to |-> m, by |-> <<>>]
           s == Attach(inode[i].list, n)
           e == inode[i].dirty \cup {"LINKLIST"}
<1>4. /\ file' = [file EXCEPT ![n] = r]
      /\ inode' = [inode EXCEPT ![i].nlink = @ + 1,
                                ![i].list = Attach(@, n),
                                ![i].dirty = @ \cup {"LINKLIST"}]
      /\ dentry' = [dentry EXCEPT ![n] = i]
      /\ pinned' = pinned \cup {n}
      /\ link' = [link EXCEPT ![n] = link[o]]
      /\ made' = made
  BY <1>1, <1>2, <1>3 DEF Link, LinkTo, NewLink
<1>5. n \notin Kids(m) /\ n # m
  BY <1>1, <1>2 DEF Kids
<1>6. Holds(s, Kids(m) \cup {n}) /\ s \in Seq(Name)
  <2>1. Holds(s, Kids(m) \cup {n})
    BY <1>2, <1>5, AttachHolds
  <2> QED
    BY <2>1 DEF Holds
<1>7. r \in FileRec /\ r.to = m /\ e \subseteq Dirty /\ e # {}
  BY <1>2, EmptySeq DEF FileRec, InodeRec, Dirty
<1> DEFINE u == [inode[i] EXCEPT !.nlink = @ + 1, !.list = s, !.dirty = e]
<1>8. /\ inode' = [inode EXCEPT ![i] = u] /\ u \in InodeRec
      /\ u.name = m /\ u.list = s /\ u.dirty = e /\ u.nlink = inode[i].nlink + 1
  <2>1. inode' = [inode EXCEPT ![i] = u]
    BY <1>4
  <2> HIDE DEF s, e
  <2>2. u \in InodeRec
    <3>1. inode[i].nlink + 1 \in Int /\ e \in SUBSET Dirty
      BY <1>2, <1>7 DEF InodeRec
    <3> QED
      BY <1>2, <1>6, <3>1 DEF InodeRec
  <2> QED
    BY <1>2, <2>1, <2>2 DEF InodeRec
<1> HIDE DEF r, s, e, u
<1>9. LinkTypes'
  <2>1. inode' \in [Ino -> InodeRec]
    BY <1>1, <1>8 DEF LinkTypes
  <2>2. /\ file' \in [Name -> FileRec \cup {None}]
        /\ dentry' \in [Name -> Ino \cup {None}]
        /\ pinned' \in SUBSET Name
        /\ link' \in [Name -> (1 .. MaxFile) \cup {None}]
    BY <1>1, <1>4, <1>7 DEF LinkTypes
  <2> QED
    BY <1>1, <1>4, <2>1, <2>2 DEF LinkTypes
<1>10. /\ \A x \in Name : file'[x] = IF x = n THEN r ELSE file[x]
       /\ \A x \in Name : dentry'[x] = IF x = n THEN i ELSE dentry[x]
       /\ \A x \in Name : link'[x] = IF x = n THEN link[m] ELSE link[x]
       /\ \A j \in Ino : inode'[j] = IF j = i THEN u ELSE inode[j]
       /\ \A x \in Name : dentry[x] # None => dentry[x] \in Ino
       /\ r # None
  <2>1. inode' = [inode EXCEPT ![i] = u] /\ link' = [link EXCEPT ![n] = link[m]]
    BY <1>2, <1>4, <1>8
  <2>2. /\ file \in [Name -> FileRec \cup {None}] /\ r # None
        /\ dentry \in [Name -> Ino \cup {None}]
        /\ inode \in [Ino -> InodeRec]
        /\ link \in [Name -> (1 .. MaxFile) \cup {None}]
    BY <1>1, <1>7 DEF LinkTypes
  <2> QED
    BY <1>4, <2>1, <2>2
<1>11. Kids(m)' = Kids(m) \cup {n} /\ \A y \in Name \ {m} : Kids(y)' = Kids(y)
  BY <1>1, <1>7, <1>10 DEF Kids, Exists
<1>12. \A j \in Ino :
         (InUse(j)' => InUse(j)) /\ inode'[j].name = inode[j].name
  BY <1>2, <1>8, <1>10 DEF InUse
<1>13. ASSUME NEW x \in Name PROVE Sound(x)'
  <2>1. CASE x = n
    <3>1. inode'[dentry'[n]].name = m
      BY <1>8, <1>10
    <3>2. /\ file'[n] # None /\ file'[n].to = m /\ file'[m] # None
          /\ file'[m].to = None /\ link'[n] = link'[m]
      BY <1>2, <1>5, <1>7, <1>10 DEF Exists
    <3> QED
      BY <2>1, <3>1, <3>2, LinkSound
  <2>2. CASE x = m
    <3>1. /\ file'[m] # None /\ file'[m].to = None /\ file'[m].data = link'[m]
          /\ dentry'[m] = i /\ inode'[i].name = m
      BY <1>2, <1>3, <1>5, <1>8, <1>10 DEF Exists
    <3>2. Unwritten(m)'
      BY <1>7, <1>8, <1>10 DEF Unwritten
    <3> QED
      BY <2>2, <3>1, <3>2, MasterSound
  <2>3. CASE x # n /\ x # m
    <3>1. Sound(x) /\ OnDisk(x)
      BY DEF Good, Sound
    <3>2. \A y \in Name : Exists(x) /\ y = file[x].to =>
            file'[y] # None /\ file'[y].to = None /\ link'[y] = link[y]
      BY <1>1, <1>10, <3>1 DEF OnDisk, Exists
    <3>3. file'[x] = file[x] /\ dentry'[x] = dentry[x] /\ link'[x] = link[x]
      BY <1>10, <2>3
    <3>4. dentry[x] # None => inode'[dentry[x]].name = inode[dentry[x]].name
      BY <1>10, <1>12
    <3>5. Kids(x)' = Kids(x)
      BY <1>11, <2>3
    <3>6. Unwritten(x) => Unwritten(x)'
      BY <1>2, <1>10, <2>3 DEF Unwritten
    <3> QED
      BY <3>1, <3>2, <3>3, <3>4, <3>5, <3>6, SoundKept
  <2> QED
    BY <2>1, <2>2, <2>3
<1>14. ASSUME NEW j \in Ino PROVE Serves(j)'
  <2>1. CASE j = i
    <3>1. /\ inode'[i].name = m /\ inode'[i].list = s
          /\ file'[m] # None /\ file'[m].to = None
      BY <1>2, <1>5, <1>8, <1>10 DEF Exists
    <3>2. Holds(inode'[i].list, Kids(m)')
      BY <1>6, <1>11, <3>1
    <3> QED
      BY <2>1, <3>1, <3>2, InodeServes
  <2>2. CASE j # i
    <3>1. Serves(j)
      BY DEF Good
    <3>2. \A y \in Name : InUse(j) /\ y = inode[j].name =>
            file'[y] # None /\ file'[y].to = None /\ Kids(y)' = Kids(y)
      BY <1>1, <1>2, <1>10, <1>11, <2>2, <3>1 DEF Serves, Exists
    <3>3. inode'[j] = inode[j]
      BY <1>10, <2>2
    <3> QED
      BY <1>12, <3>1, <3>2, <3>3, ServesKept
  <2> QED
    BY <2>1, <2>2
<1>15. Single'
  BY <1>12, SingleSame
<1>16. Uses'
  <2> SUFFICES ASSUME NEW j \in Ino PROVE Cardinality(Users(j)') <= inode'[j].nlink
    BY DEF Uses
  <2>1. CASE j = i
    <3>1. Users(j)' = Users(j) \cup {n} /\ n \notin Users(j)
      BY <1>1, <1>10, <2>1 DEF Users
    <3>2. inode'[j].nlink = inode[j].nlink + 1
      BY <1>8, <1>10, <2>1
    <3> QED
      BY <3>1, <3>2, UsesAdd
  <2>2. CASE j # i
    <3>1. Users(j)' = Users(j)
      BY <1>1, <1>10, <2>2 DEF Users
    <3> QED
      BY <1>10, <2>2, <3>1 DEF Good, Uses
  <2> QED
    BY <2>1, <2>2
<1> QED
  BY <1>9, <1>13, <1>14, <1>15, <1>16, Zenon DEF Good

\* iod_unlink of a link whose master is in memory.
LEMMA UnlinkLinkStep ==
  ASSUME Good, NEW n \in Name, UnlinkLink(n)
  PROVE  Good'
<1> USE NoneIsNothing
<1>1. dentry[n] # None /\ LinkTypes /\ inode[dentry[n]].name # n
  BY Zenon DEF UnlinkLink, Good
<1>2. PICK i \in Ino, m \in Name :
        /\ dentry[n] = i /\ inode[i].name = m /\ InUse(i)
        /\ Exists(n) /\ Exists(m) /\ file[m].to = None
        /\ n = m \/ file[n].to = m
        /\ file[m] \in FileRec /\ inode[i] \in InodeRec
        /\ file[m].data = link[m]
        /\ Holds(inode[i].list, Kids(m))
        /\ \A j \in Ino : InUse(j) /\ inode[j].name = m => j = i
  BY <1>1, MasterOf
<1>3. n # m /\ file[n].to = m /\ n \in Kids(m) /\ n \in In(inode[i].list)
  BY <1>1, <1>2 DEF Kids, Holds
<1>4. dentry[m] = i
  <2>1. dentry[m] # None
    BY <1>2 DEF UnlinkLink, MasterFound
  <2> QED
    BY <1>2, <2>1, MasterOf
<1> DEFINE s == Detach(inode[i].list, n)
           e == inode[i].dirty \cup {"LINKLIST"}
           u == [inode[i] EXCEPT !.nlink = @ - 1, !.list = s, !.dirty = e]
<1>5. /\ file' = [file EXCEPT ![n] = None]
      /\ inode' = [inode EXCEPT ![i].nlink = @ - 1,
                                ![i].list = Detach(@, n),
                                ![i].dirty = @ \cup {"LINKLIST"}]
      /\ dentry' = [dentry EXCEPT ![n] = None]
      /\ pinned' = (pinned \ {n}) \cup {m}
      /\ link' = [link EXCEPT ![n] = None]
      /\ made' = made
  BY <1>2, <1>3, <1>4 DEF UnlinkLink
<1>6. Holds(s, Kids(m) \ {n}) /\ s \in Seq(Name)
  <2>1. Holds(s, Kids(m) \ {n})
    BY <1>2, <1>3, DetachHolds
  <2> QED
    BY <2>1 DEF Holds
<1>7. e \in SUBSET Dirty /\ e # {} /\ inode[i].nlink - 1 \in Int
  BY <1>2 DEF InodeRec, Dirty
<1>8. /\ inode' = [inode EXCEPT ![i] = u] /\ u \in InodeRec
      /\ u.name = m /\ u.list = s /\ u.dirty = e /\ u.nlink = inode[i].nlink - 1
  <2>1. inode' = [inode EXCEPT ![i] = u]
    BY <1>5
  <2> HIDE DEF s, e
  <2>2. u \in InodeRec
    BY <1>2, <1>6, <1>7 DEF InodeRec
  <2> QED
    BY <1>2, <2>1, <2>2 DEF InodeRec
<1> HIDE DEF s, e, u
<1>9. LinkTypes'
  <2>1. inode' \in [Ino -> InodeRec]
    BY <1>1, <1>8 DEF LinkTypes
  <2>2. /\ file' \in [Name -> FileRec \cup {None}]
        /\ dentry' \in [Name -> Ino \cup {None}]
        /\ pinned' \in SUBSET Name
        /\ link' \in [Name -> (1 .. MaxFile) \cup {None}]
    BY <1>1, <1>5 DEF LinkTypes
  <2> QED
    BY <1>1, <1>5, <2>1, <2>2 DEF LinkTypes
<1>10. /\ \A x \in Name : file'[x] = IF x = n THEN None ELSE file[x]
       /\ \A x \in Name : dentry'[x] = IF x = n THEN None ELSE dentry[x]
       /\ \A x \in Name : x # n => link'[x] = link[x]
       /\ \A j \in Ino : inode'[j] = IF j = i THEN u ELSE inode[j]
       /\ \A x \in Name : dentry[x] # None => dentry[x] \in Ino
  <2>1. inode' = [inode EXCEPT ![i] = u]
    BY <1>8
  <2> QED
    BY <1>1, <1>5, <2>1 DEF LinkTypes
<1>11. Kids(m)' = Kids(m) \ {n} /\ \A y \in Name \ {m} : Kids(y)' = Kids(y)
  BY <1>3, <1>10 DEF Kids, Exists
<1>12. \A j \in Ino :
         (InUse(j)' => InUse(j)) /\ inode'[j].name = inode[j].name
  BY <1>2, <1>8, <1>10 DEF InUse
<1>13. ASSUME NEW x \in Name PROVE Sound(x)'
  <2>1. CASE x = n
    BY <1>10, <2>1, AbsentSound
  <2>2. CASE x = m
    <3>1. /\ file'[m] # None /\ file'[m].to = None /\ file'[m].data = link'[m]
          /\ dentry'[m] = i /\ inode'[i].name = m
      BY <1>2, <1>3, <1>4, <1>8, <1>10 DEF Exists
    <3>2. Unwritten(m)'
      BY <1>7, <1>8, <1>10 DEF Unwritten
    <3> QED
      BY <2>2, <3>1, <3>2, MasterSound
  <2>3. CASE x # n /\ x # m
    <3>1. Sound(x) /\ OnDisk(x)
      BY DEF Good, Sound
    <3>2. \A y \in Name : Exists(x) /\ y = file[x].to =>
            file'[y] # None /\ file'[y].to = None /\ link'[y] = link[y]
      BY <1>3, <1>10, <3>1 DEF OnDisk, Exists
    <3>3. file'[x] = file[x] /\ dentry'[x] = dentry[x] /\ link'[x] = link[x]
      BY <1>10, <2>3
    <3>4. dentry[x] # None => inode'[dentry[x]].name = inode[dentry[x]].name
      BY <1>10, <1>12
    <3>5. Kids(x)' = Kids(x)
      BY <1>11, <2>3
    <3>6. Unwritten(x) => Unwritten(x)'
      BY <1>2, <1>10, <2>3 DEF Unwritten
    <3> QED
      BY <3>1, <3>2, <3>3, <3>4, <3>5, <3>6, SoundKept
  <2> QED
    BY <2>1, <2>2, <2>3
<1>14. ASSUME NEW j \in Ino PROVE Serves(j)'
  <2>1. CASE j = i
    <3>1. /\ inode'[i].name = m /\ inode'[i].list = s
          /\ file'[m] # None /\ file'[m].to = None
      BY <1>2, <1>3, <1>8, <1>10 DEF Exists
    <3>2. Holds(inode'[i].list, Kids(m)')
      BY <1>6, <1>11, <3>1
    <3> QED
      BY <2>1, <3>1, <3>2, InodeServes
  <2>2. CASE j # i
    <3>1. Serves(j)
      BY DEF Good
    <3>2. \A y \in Name : InUse(j) /\ y = inode[j].name =>
            file'[y] # None /\ file'[y].to = None /\ Kids(y)' = Kids(y)
      BY <1>2, <1>3, <1>10, <1>11, <2>2, <3>1 DEF Serves, Exists
    <3>3. inode'[j] = inode[j]
      BY <1>10, <2>2
    <3> QED
      BY <1>12, <3>1, <3>2, <3>3, ServesKept
  <2> QED
    BY <2>1, <2>2
<1>15. Single'
  BY <1>12, SingleSame
<1>16. Uses'
  <2> SUFFICES ASSUME NEW j \in Ino PROVE Cardinality(Users(j)') <= inode'[j].nlink
    BY DEF Uses
  <2>1. CASE j = i
    <3>1. Users(j)' = Users(j) \ {n} /\ n \in Users(j)
      BY <1>2, <1>10, <2>1 DEF Users
    <3>2. inode'[j].nlink = inode[j].nlink - 1
      BY <1>8, <1>10, <2>1
    <3> QED
      BY <3>1, <3>2, UsesDrop
  <2>2. CASE j # i
    <3>1. Users(j)' = Users(j)
      BY <1>2, <1>10, <2>2 DEF Users
    <3> QED
      BY <1>10, <2>2, <3>1 DEF Good, Uses
  <2> QED
    BY <2>1, <2>2
<1> QED
  BY <1>9, <1>13, <1>14, <1>15, <1>16, Zenon DEF Good

\* iod_unlink of a master whose last link is in memory.
LEMMA UnlinkMasterStep ==
  ASSUME Good, NEW n \in Name, UnlinkMaster(n), ~orphaned'
  PROVE  Good'
<1> USE NoneIsNothing
<1>1. dentry[n] # None /\ LinkTypes /\ inode[dentry[n]].name = n
  BY DEF UnlinkMaster, UnlinkTo, Good
<1>2. PICK i \in Ino :
        /\ dentry[n] = i /\ inode[i].name = n /\ InUse(i)
        /\ Exists(n) /\ file[n].to = None
        /\ file[n] \in FileRec /\ inode[i] \in InodeRec
        /\ file[n].data = link[n]
        /\ Holds(inode[i].list, Kids(n))
        /\ \A j \in Ino : InUse(j) /\ inode[j].name = n => j = i
  BY <1>1, MasterOf
<1>3. inode[i].list # <<>>
  BY <1>2 DEF UnlinkMaster, UnlinkTo
<1>4. PICK last, rest :
        /\ last = inode[i].list[Len(inode[i].list)]
        /\ rest = SubSeq(inode[i].list, 1, Len(inode[i].list) - 1)
  OBVIOUS
<1>5. last \in Kids(n) /\ Holds(rest, Kids(n) \ {last})
  BY <1>2, <1>3, <1>4, LastHolds
<1> DEFINE K == Kids(n) \ {last}
           g == [file[n] EXCEPT !.to = None]
           c == [data |-> 0, to |-> last, by |-> <<>>]
           e == inode[i].dirty \cup {"LINKLIST"}
           u == [inode[i] EXCEPT !.name = last, !.list = rest, !.dirty = e]
           moved == [file EXCEPT ![last] = g, ![n] = None]
<1>6. /\ last \in Name /\ last # n /\ Exists(last) /\ file[last].to = n
      /\ K \subseteq Name /\ n \notin K /\ last \notin K /\ In(rest) = K
      /\ rest \in Seq(Name)
      /\ \A x \in K : file[x].to = n /\ Exists(x)
  BY <1>2, <1>5 DEF Kids, Holds
<1>7. /\ file' = WriteLinkchildInfo(moved, In(rest), last)
      /\ inode' = [inode EXCEPT ![i].name = last, ![i].list = rest,
                                ![i].dirty = @ \cup {"LINKLIST"}]
      /\ dentry[last] = i
      /\ dentry' = [dentry EXCEPT ![n] = None]
      /\ pinned' = pinned \ {n}
      /\ link' = [link EXCEPT ![n] = None]
      /\ made' = made
  BY <1>2, <1>4, <1>6 DEF UnlinkMaster, UnlinkTo
<1>8. /\ g \in FileRec /\ g.to = None /\ g.data = link[n]
      /\ c \in FileRec /\ c.to = last
      /\ e \in SUBSET Dirty /\ e # {}
  BY <1>2, <1>6, EmptySeq DEF FileRec, InodeRec, Dirty
<1>9. /\ inode' = [inode EXCEPT ![i] = u] /\ u \in InodeRec
      /\ u.name = last /\ u.list = rest /\ u.dirty = e
      /\ u.nlink = inode[i].nlink
  <2>1. inode' = [inode EXCEPT ![i] = u]
    BY <1>7
  <2> HIDE DEF e
  <2>2. u \in InodeRec
    BY <1>2, <1>6, <1>8 DEF InodeRec
  <2> QED
    BY <1>2, <2>1, <2>2 DEF InodeRec
<1> HIDE DEF g, e, u
<1>10. \A x \in Name :
         file'[x] = IF x = n THEN None ELSE IF x = last THEN g
                    ELSE IF x \in K THEN c ELSE file[x]
  <2> SUFFICES ASSUME NEW x \in Name
               PROVE  file'[x] = IF x = n THEN None ELSE IF x = last THEN g
                                 ELSE IF x \in K THEN c ELSE file[x]
    OBVIOUS
  <2>1. file'[x] = IF x \in K /\ moved[x] # None THEN c ELSE moved[x]
    BY <1>6, <1>7 DEF WriteLinkchildInfo
  <2>2. moved[x] = IF x = n THEN None ELSE IF x = last THEN g ELSE file[x]
    BY <1>1, <1>6 DEF LinkTypes
  <2>3. x \in K => moved[x] # None
    BY <1>6, <2>2 DEF Exists
  <2> HIDE DEF K, c, moved
  <2> QED
    BY <1>6, <2>1, <2>2, <2>3
<1> HIDE DEF K, c, moved
<1>11. LinkTypes'
  <2>1. inode' \in [Ino -> InodeRec]
    BY <1>1, <1>9 DEF LinkTypes
  <2>2. /\ dentry' \in [Name -> Ino \cup {None}]
        /\ pinned' \in SUBSET Name
        /\ link' \in [Name -> (1 .. MaxFile) \cup {None}]
    BY <1>1, <1>7 DEF LinkTypes
  <2>3. file' \in [Name -> FileRec \cup {None}]
    <3>1. file' = [x \in Name |-> file'[x]]
      BY <1>7 DEF WriteLinkchildInfo
    <3>2. \A x \in Name : file'[x] \in FileRec \cup {None}
      BY <1>1, <1>8, <1>10 DEF LinkTypes
    <3> QED
      BY <3>1, <3>2
  <2> QED
    BY <1>1, <1>7, <2>1, <2>2, <2>3 DEF LinkTypes
<1>12. /\ \A x \in Name : dentry'[x] = IF x = n THEN None ELSE dentry[x]
       /\ \A x \in Name : x # n => link'[x] = link[x]
       /\ \A j \in Ino : inode'[j] = IF j = i THEN u ELSE inode[j]
       /\ \A x \in Name : dentry[x] # None => dentry[x] \in Ino
  <2>1. inode' = [inode EXCEPT ![i] = u]
    BY <1>9
  <2>2. /\ dentry \in [Name -> Ino \cup {None}]
        /\ inode \in [Ino -> InodeRec]
        /\ link \in [Name -> (1 .. MaxFile) \cup {None}]
    BY <1>1 DEF LinkTypes
  <2> QED
    BY <1>7, <2>1, <2>2, ZenonT(60)
<1>13. \A x \in Name : Exists(x) /\ file[x].to = n => x = last \/ x \in K
  BY DEF Kids, K
<1>14. /\ Kids(last)' = K
       /\ \A y \in Name \ {last, n} : Kids(y)' = Kids(y)
  <2>1. Kids(last)' = K
    <3>1. \A x \in Name : Exists(x) => file[x].to # last
      BY <1>6 DEF Good, Sound, OnDisk
    <3> QED
      BY <1>6, <1>8, <1>10, <3>1 DEF Kids, Exists
  <2>2. ASSUME NEW y \in Name \ {last, n} PROVE Kids(y)' = Kids(y)
    BY <1>2, <1>6, <1>8, <1>10 DEF Kids, Exists
  <2> QED
    BY <2>1, <2>2
<1>15. \A x \in Name : Exists(x) /\ file[x].to = n => link[x] = link[n]
  BY DEF Good, Sound, OnDisk
<1>16. \A j \in Ino :
         j # i => (InUse(j)' => InUse(j)) /\ inode'[j] = inode[j]
  BY <1>12 DEF InUse
<1>17. ASSUME NEW x \in Name PROVE Sound(x)'
  <2>1. CASE x = n
    BY <1>10, <1>12, <2>1, AbsentSound
  <2>2. CASE x = last
    <3>1. /\ file'[last] # None /\ file'[last].to = None
          /\ file'[last].data = link'[last]
          /\ dentry'[last] = i /\ inode'[i].name = last
      <4>1. file'[last] = g /\ link'[last] = link[last] /\ g # None
        BY <1>6, <1>8, <1>10, <1>12
      <4>2. link[last] = link[n]
        BY <1>6, <1>15
      <4>3. dentry'[last] = i /\ inode'[i] = u
        BY <1>6, <1>7, <1>12
      <4> QED
        BY <1>8, <1>9, <4>1, <4>2, <4>3
    <3>2. Unwritten(last)'
      BY <1>8, <1>9, <1>12 DEF Unwritten
    <3> QED
      BY <1>6, <2>2, <3>1, <3>2, MasterSound
  <2>3. CASE x \in K
    <3>1. dentry[x] # None => dentry[x] = i
      BY <1>2, <1>6, <2>3, MasterOf
    <3>2. dentry'[x] # None => inode'[dentry'[x]].name = last
      <4>1. dentry'[x] = dentry[x] /\ inode'[i] = u
        BY <1>6, <1>12, <2>3
      <4> QED
        BY <1>9, <3>1, <4>1
    <3>3. /\ file'[x] # None /\ file'[x].to = last /\ file'[last] # None
          /\ file'[last].to = None /\ link'[x] = link'[last]
      BY <1>6, <1>8, <1>10, <1>12, <1>15, <2>3
    <3> QED
      BY <1>6, <3>2, <3>3, LinkSound
  <2>4. CASE x # n /\ x # last /\ x \notin K
    <3>1. Sound(x) /\ OnDisk(x)
      BY DEF Good, Sound
    <3>2. Exists(x) => file[x].to # n
      BY <1>13, <2>4
    <3>3. \A y \in Name : Exists(x) /\ y = file[x].to =>
            file'[y] # None /\ file'[y].to = None /\ link'[y] = link[y]
      BY <1>6, <1>10, <1>12, <3>1, <3>2 DEF OnDisk, Exists
    <3>4. file'[x] = file[x] /\ dentry'[x] = dentry[x] /\ link'[x] = link[x]
      BY <1>10, <1>12, <2>4
    <3>5. dentry[x] # None => inode'[dentry[x]] = inode[dentry[x]]
      <4>1. dentry[x] # i
        BY <1>2, <2>4, <3>2, MasterOf
      <4> QED
        BY <1>12, <4>1
    <3>6. Kids(x)' = Kids(x)
      BY <1>14, <2>4
    <3>7. Unwritten(x) => Unwritten(x)'
      BY <1>2, <1>16, <2>4 DEF Unwritten
    <3> QED
      BY <3>1, <3>3, <3>4, <3>5, <3>6, <3>7, SoundKept
  <2> QED
    BY <2>1, <2>2, <2>3, <2>4
<1>18. ASSUME NEW j \in Ino PROVE Serves(j)'
  <2>1. CASE j = i
    <3>1. /\ inode'[i].name = last /\ inode'[i].list = rest
          /\ file'[last] # None /\ file'[last].to = None
      BY <1>6, <1>8, <1>9, <1>10, <1>12
    <3>2. Holds(inode'[i].list, Kids(last)')
      BY <1>5, <1>14, <3>1 DEF K
    <3> QED
      BY <1>6, <2>1, <3>1, <3>2, InodeServes
  <2>2. CASE j # i
    <3>1. Serves(j)
      BY DEF Good
    <3>2. InUse(j) => inode[j].name # n /\ inode[j].name # last
      BY <1>2, <1>6, <2>2, <3>1 DEF Serves
    <3>3. \A y \in Name : InUse(j) /\ y = inode[j].name =>
            file'[y] # None /\ file'[y].to = None /\ Kids(y)' = Kids(y)
      <4> SUFFICES ASSUME NEW y \in Name, InUse(j), y = inode[j].name
                   PROVE  /\ file'[y] # None /\ file'[y].to = None
                          /\ Kids(y)' = Kids(y)
        OBVIOUS
      <4>1. y # n /\ y # last /\ file[y] # None /\ file[y].to = None
        BY <3>1, <3>2 DEF Serves, Exists
      <4>2. y \notin K
        BY <1>6, <4>1
      <4> QED
        BY <1>10, <1>14, <4>1, <4>2
    <3> QED
      BY <1>16, <2>2, <3>1, <3>3, ServesKept
  <2> QED
    BY <2>1, <2>2
<1>19. Single'
  <2>1. \A j \in Ino : InUse(j) /\ inode[j].name = last => j = i
    BY <1>6 DEF Good, Serves
  <2>2. inode'[i].name = last
    BY <1>9, <1>12
  <2> QED
    BY <1>16, <2>1, <2>2, SingleKept
<1>20. Uses'
  <2> SUFFICES ASSUME NEW j \in Ino PROVE Cardinality(Users(j)') <= inode'[j].nlink
    BY DEF Uses
  <2>1. Users(j)' \in SUBSET Users(j)
    BY <1>12 DEF Users
  <2>2. inode'[j].nlink = inode[j].nlink
    BY <1>9, <1>12
  <2> QED
    BY <2>1, <2>2, UsesFewer
<1> QED
  BY <1>11, <1>17, <1>18, <1>19, <1>20, Zenon DEF Good

\* iod_unlink of the only name of a file that has been written.
LEMMA UnlinkOnlyStep ==
  ASSUME Good, NEW n \in Name, UnlinkOnly(n), ~orphaned'
  PROVE  Good'
<1> USE NoneIsNothing
<1>1. dentry[n] # None /\ LinkTypes
  BY DEF UnlinkOnly, Good
<1>2. /\ inode[dentry[n]].name = n /\ inode[dentry[n]].list = <<>>
      /\ inode[dentry[n]].dirty = {}
      /\ file' = [file EXCEPT ![n] = None]
      /\ dentry' = [dentry EXCEPT ![n] = None]
      /\ pinned' = pinned \ {n}
      /\ link' = [link EXCEPT ![n] = None]
      /\ UNCHANGED <<inode, made>>
  BY DEF UnlinkOnly
<1>3. PICK i \in Ino : /\ dentry[n] = i /\ Exists(n) /\ file[n].to = None
                       /\ inode[i].name = n
                       /\ Holds(inode[i].list, Kids(n))
                       /\ \A j \in Ino : InUse(j) /\ inode[j].name = n => j = i
  BY <1>1, <1>2, MasterOf
<1>4. Kids(n) = {}
  BY <1>2, <1>3, EmptyHolds
<1>5. LinkTypes'
  BY <1>1, <1>2 DEF LinkTypes
<1>6. /\ \A x \in Name : file'[x] = IF x = n THEN None ELSE file[x]
      /\ \A x \in Name : dentry'[x] = IF x = n THEN None ELSE dentry[x]
      /\ \A x \in Name : x # n => link'[x] = link[x]
      /\ inode' = inode
  BY <1>1, <1>2 DEF LinkTypes
<1>7. \A y \in Name : Kids(y)' = Kids(y)
  BY <1>3, <1>6 DEF Kids, Exists
<1>8. \A j \in Ino : InUse(j)' => InUse(j)
  BY <1>6 DEF InUse
<1>9. ~InUse(i)'
  <2>1. \A x \in Name : x # n => dentry[x] # i
    <3> SUFFICES ASSUME NEW x \in Name, x # n, dentry[x] = i PROVE FALSE
      OBVIOUS
    <3>1. Exists(x) /\ file[x].to = n
      BY <1>1, <1>3, MasterOf
    <3> QED
      BY <1>4, <3>1 DEF Kids
  <2> QED
    BY <1>2, <1>3, <1>6, <2>1 DEF InUse
<1>10. ASSUME NEW x \in Name PROVE Sound(x)'
  <2>1. CASE x = n
    BY <1>6, <2>1, AbsentSound
  <2>2. CASE x # n
    <3>1. Sound(x) /\ OnDisk(x)
      BY DEF Good, Sound
    <3>2. Exists(x) => file[x].to # n
      BY <1>4 DEF Kids
    <3>3. \A y \in Name : Exists(x) /\ y = file[x].to =>
            file'[y] # None /\ file'[y].to = None /\ link'[y] = link[y]
      BY <1>6, <3>1, <3>2 DEF OnDisk, Exists
    <3>4. file'[x] = file[x] /\ dentry'[x] = dentry[x] /\ link'[x] = link[x]
      BY <1>6, <2>2
    <3>5. Unwritten(x) => Unwritten(x)'
      BY <1>6 DEF Unwritten
    <3> QED
      BY <1>6, <1>7, <3>1, <3>3, <3>4, <3>5, SoundKept
  <2> QED
    BY <2>1, <2>2
<1>11. ASSUME NEW j \in Ino PROVE Serves(j)'
  <2>1. CASE j = i
    BY <1>9, <2>1 DEF Serves
  <2>2. CASE j # i
    <3>1. Serves(j)
      BY DEF Good
    <3>2. \A y \in Name : InUse(j) /\ y = inode[j].name =>
            file'[y] # None /\ file'[y].to = None /\ Kids(y)' = Kids(y)
      BY <1>3, <1>6, <1>7, <2>2, <3>1 DEF Serves, Exists
    <3> QED
      BY <1>6, <1>8, <3>1, <3>2, ServesKept
  <2> QED
    BY <2>1, <2>2
<1>12. Single'
  BY <1>6, <1>8, SingleSame
<1>13. Uses'
  <2> SUFFICES ASSUME NEW j \in Ino PROVE Cardinality(Users(j)') <= inode'[j].nlink
    BY DEF Uses
  <2>1. Users(j)' \in SUBSET Users(j)
    BY <1>6 DEF Users
  <2> QED
    BY <1>6, <2>1, UsesFewer
<1> QED
  BY <1>5, <1>10, <1>11, <1>12, <1>13, Zenon DEF Good

\* lxafs_write_inode.
LEMMA WriteInodeStep ==
  ASSUME Good, NEW i \in Ino, WriteInode(i)
  PROVE  Good'
<1> USE NoneIsNothing
<1>1. /\ LinkTypes /\ inode[i].dirty # {} /\ InUse(i)
      /\ file' = RewriteLinklist(file, inode[i])
      /\ inode' = [inode EXCEPT ![i].dirty = {}]
      /\ UNCHANGED <<dentry, pinned, link, made>>
  BY DEF WriteInode, Good, InUse
<1>2. PICK m \in Name :
        /\ inode[i].name = m /\ Exists(m) /\ file[m].to = None
        /\ file[m] \in FileRec /\ inode[i] \in InodeRec
        /\ file[m].data = link[m]
        /\ Holds(inode[i].list, Kids(m))
        /\ \A j \in Ino : InUse(j) /\ inode[j].name = m => j = i
  BY <1>1, InodeOf
<1> DEFINE s == inode[i].list
           K == Kids(m)
           g == [file[m] EXCEPT !.by = s]
           c == [data |-> 0, to |-> m, by |-> <<>>]
           u == [inode[i] EXCEPT !.dirty = {}]
           h == [file EXCEPT ![m].by = s]
<1>3. /\ K \subseteq Name /\ m \notin K /\ In(s) = K /\ s \in Seq(Name)
      /\ \A x \in K : file[x].to = m /\ Exists(x)
  BY <1>2 DEF Kids, Holds
<1>4. /\ g \in FileRec /\ g.to = None /\ g.data = link[m] /\ g.by = s
      /\ c \in FileRec /\ c.to = m
  BY <1>2, <1>3, EmptySeq DEF FileRec
<1>5. /\ inode' = [inode EXCEPT ![i] = u] /\ u \in InodeRec
      /\ u.name = m /\ u.list = s /\ u.dirty = {} /\ u.nlink = inode[i].nlink
  BY <1>1, <1>2 DEF InodeRec
<1>6. h = [file EXCEPT ![m] = g]
  OBVIOUS
<1>7. file' = IF "LINKCHILDS" \in inode[i].dirty
                THEN WriteLinkchildInfo(h, In(s), m) ELSE h
  BY <1>1, <1>2 DEF RewriteLinklist, Exists
<1> HIDE DEF s, K, g, c, u, h
<1>8. \A x \in Name : h[x] = IF x = m THEN g ELSE file[x]
  BY <1>1, <1>6 DEF LinkTypes
<1>9. \A x \in Name : /\ x = m => file'[x] = g
                      /\ x \in K => file'[x] \in {c, file[x]}
                      /\ x # m /\ x \notin K => file'[x] = file[x]
  <2> SUFFICES ASSUME NEW x \in Name
               PROVE  /\ x = m => file'[x] = g
                      /\ x \in K => file'[x] \in {c, file[x]}
                      /\ x # m /\ x \notin K => file'[x] = file[x]
    OBVIOUS
  <2>1. file'[x] = h[x] \/ (x \in K /\ file'[x] = c)
    BY <1>3, <1>7 DEF WriteLinkchildInfo, c
  <2> QED
    BY <1>3, <1>8, <2>1
<1>10. LinkTypes'
  <2>1. inode' \in [Ino -> InodeRec]
    BY <1>1, <1>5 DEF LinkTypes
  <2>2. file' \in [Name -> FileRec \cup {None}]
    <3>1. h = [x \in Name |-> h[x]]
      BY <1>1, <1>6 DEF LinkTypes
    <3>2. file' = [x \in Name |-> file'[x]]
      BY <1>7, <3>1 DEF WriteLinkchildInfo
    <3>3. \A x \in Name : file'[x] \in FileRec \cup {None}
      BY <1>1, <1>4, <1>9 DEF LinkTypes
    <3> QED
      BY <3>2, <3>3
  <2> QED
    BY <1>1, <2>1, <2>2 DEF LinkTypes
<1>11. /\ \A j \in Ino : inode'[j] = IF j = i THEN u ELSE inode[j]
       /\ \A x \in Name : dentry[x] # None => dentry[x] \in Ino
       /\ dentry' = dentry /\ link' = link
  <2>1. inode' = [inode EXCEPT ![i] = u]
    BY <1>5
  <2> QED
    BY <1>1, <2>1 DEF LinkTypes
<1>12. \A x \in Name : /\ file'[x] # None <=> Exists(x)
                       /\ Exists(x) => file'[x].to = file[x].to
  BY <1>2, <1>3, <1>4, <1>9 DEF Exists
<1>13. \A y \in Name : Kids(y)' = Kids(y)
  BY <1>12 DEF Kids, Exists
<1>14. \A j \in Ino : /\ InUse(j)' => InUse(j)
                      /\ inode'[j].name = inode[j].name
                      /\ inode'[j].list = inode[j].list
                      /\ inode'[j].nlink = inode[j].nlink
  BY <1>1, <1>2, <1>5, <1>11 DEF InUse, s
<1>15. ASSUME NEW x \in Name PROVE Sound(x)'
  <2>1. CASE x = m
    <3>1. /\ file'[m] # None /\ file'[m].to = None /\ file'[m].data = link'[m]
          /\ file'[m].by = s
      BY <1>2, <1>4, <1>9, <1>11
    <3>2. Holds(file'[m].by, Kids(m)')
      BY <1>2, <1>13, <3>1 DEF s
    <3>3. dentry'[m] # None => inode'[dentry'[m]].name = m
      <4> SUFFICES ASSUME dentry[m] # None PROVE inode'[dentry[m]].name = m
        BY <1>11
      <4>1. inode[dentry[m]].name = m /\ dentry[m] \in Ino
        BY <1>2, MasterOf
      <4> QED
        BY <1>14, <4>1
    <3> QED
      BY <2>1, <3>1, <3>2, <3>3, MasterSound
  <2>2. CASE x \in K
    <3>1. dentry'[x] # None => inode'[dentry'[x]].name = m
      <4> SUFFICES ASSUME dentry[x] # None PROVE inode'[dentry[x]].name = m
        BY <1>11
      <4>1. inode[dentry[x]].name = m /\ dentry[x] \in Ino
        BY <1>3, <2>2, MasterOf
      <4> QED
        BY <1>14, <4>1
    <3>2. /\ file'[x] # None /\ file'[x].to = m /\ file'[m] # None
          /\ file'[m].to = None
      BY <1>2, <1>3, <1>12, <2>2
    <3>3. link'[x] = link'[m]
      BY <1>3, <1>11, <2>2 DEF Good, Sound, OnDisk
    <3> QED
      BY <3>1, <3>2, <3>3, LinkSound
  <2>3. CASE x # m /\ x \notin K
    <3>1. Sound(x) /\ OnDisk(x)
      BY DEF Good, Sound
    <3>2. \A y \in Name : Exists(x) /\ y = file[x].to =>
            file'[y] # None /\ file'[y].to = None /\ link'[y] = link[y]
      BY <1>11, <1>12, <3>1 DEF OnDisk
    <3>3. file'[x] = file[x] /\ dentry'[x] = dentry[x] /\ link'[x] = link[x]
      BY <1>9, <1>11, <2>3
    <3>4. dentry[x] # None => inode'[dentry[x]].name = inode[dentry[x]].name
      BY <1>11, <1>14
    <3>5. Unwritten(x) => Unwritten(x)'
      BY <1>2, <1>11, <2>3 DEF Unwritten
    <3> QED
      BY <1>13, <3>1, <3>2, <3>3, <3>4, <3>5, SoundKept
  <2> QED
    BY <2>1, <2>2, <2>3
<1>16. ASSUME NEW j \in Ino PROVE Serves(j)'
  <2>1. Serves(j)
    BY DEF Good
  <2>2. \A y \in Name : InUse(j) /\ y = inode[j].name =>
          file'[y] # None /\ file'[y].to = None /\ Kids(y)' = Kids(y)
    BY <1>12, <1>13, <2>1 DEF Serves
  <2> QED
    BY <1>14, <2>1, <2>2, ServesKept
<1>17. Single'
  BY <1>14, SingleSame
<1>18. Uses'
  <2> SUFFICES ASSUME NEW j \in Ino PROVE Cardinality(Users(j)') <= inode'[j].nlink
    BY DEF Uses
  <2>1. Users(j)' \in SUBSET Users(j)
    BY <1>11 DEF Users
  <2> QED
    BY <1>14, <2>1, UsesFewer
<1> QED
  BY <1>10, <1>15, <1>16, <1>17, <1>18, Zenon DEF Good

\* A dentry is evicted, be it pinned or not.
LEMMA PruneStep ==
  ASSUME Good, NEW n \in Name, Prune(n)
  PROVE  Good'
<1> USE NoneIsNothing
<1>1. /\ dentry[n] # None /\ LinkTypes
      /\ dentry' = [dentry EXCEPT ![n] = None]
      /\ UNCHANGED <<file, pinned, link, made>>
  BY DEF Prune, Good
<1>2. PICK i \in Ino, m \in Name :
        /\ dentry[n] = i /\ inode[i].name = m
        /\ Exists(m) /\ inode[i] \in InodeRec
        /\ Holds(inode[i].list, Kids(m))
        /\ \A j \in Ino : InUse(j) /\ inode[j].name = m => j = i
  BY <1>1, MasterOf
<1>3. \/ inode' = inode
      \/ /\ inode[i].list = <<>> /\ file[m].by = <<>>
         /\ inode' = [inode EXCEPT ![i].dirty = {}]
  BY <1>2 DEF Prune
<1>4. /\ \A x \in Name : dentry'[x] = IF x = n THEN None ELSE dentry[x]
      /\ \A x \in Name : dentry[x] # None => dentry[x] \in Ino
      /\ \A j \in Ino : /\ inode'[j].name = inode[j].name
                        /\ inode'[j].list = inode[j].list
                        /\ inode'[j].nlink = inode[j].nlink
                        /\ \/ inode'[j].dirty = inode[j].dirty
                           \/ /\ j = i /\ inode'[j].dirty = {}
                              /\ inode[i].list = <<>> /\ file[m].by = <<>>
  <2>1. /\ \A x \in Name : dentry'[x] = IF x = n THEN None ELSE dentry[x]
        /\ \A x \in Name : dentry[x] # None => dentry[x] \in Ino
    BY <1>1 DEF LinkTypes
  <2>2. CASE inode' = inode
    BY <2>1, <2>2
  <2>3. CASE /\ inode[i].list = <<>> /\ file[m].by = <<>>
             /\ inode' = [inode EXCEPT ![i].dirty = {}]
    <3> DEFINE u == [inode[i] EXCEPT !.dirty = {}]
    <3>1. /\ u.name = inode[i].name /\ u.list = inode[i].list
          /\ u.nlink = inode[i].nlink /\ u.dirty = {}
      BY <1>2 DEF InodeRec
    <3>2. inode' = [inode EXCEPT ![i] = u]
      BY <2>3
    <3> HIDE DEF u
    <3>3. \A j \in Ino : inode'[j] = IF j = i THEN u ELSE inode[j]
      BY <1>1, <3>2 DEF LinkTypes
    <3> QED
      BY <2>1, <2>3, <3>1, <3>3
  <2> QED
    BY <1>3, <2>2, <2>3
<1>5. LinkTypes'
  <2>1. [inode[i] EXCEPT !.dirty = {}] \in InodeRec
    BY <1>2 DEF InodeRec
  <2>2. inode' \in [Ino -> InodeRec]
    BY <1>1, <1>3, <2>1 DEF LinkTypes
  <2> QED
    BY <1>1, <2>2 DEF LinkTypes
<1>6. \A y \in Name : Kids(y)' = Kids(y)
  BY <1>1 DEF Kids, Exists
<1>7. \A j \in Ino : InUse(j)' => InUse(j)
  BY <1>4 DEF InUse
<1>8. ASSUME NEW x \in Name PROVE Sound(x)'
  <2>1. Sound(x) /\ OnDisk(x)
    BY DEF Good, Sound
  <2>2. \A y \in Name : Exists(x) /\ y = file[x].to =>
          file'[y] # None /\ file'[y].to = None /\ link'[y] = link[y]
    BY <1>1, <2>1 DEF OnDisk, Exists
  <2>3. /\ file'[x] = file[x] /\ link'[x] = link[x]
        /\ dentry'[x] = dentry[x] \/ dentry'[x] = None
        /\ dentry[x] # None => inode'[dentry[x]].name = inode[dentry[x]].name
    BY <1>1, <1>4
  <2>4. Unwritten(x) => Unwritten(x)' \/ Holds(file[x].by, Kids(x))
    <3> SUFFICES ASSUME NEW j \in Ino, inode[j].name = x, inode[j].dirty # {}
                 PROVE  Unwritten(x)' \/ Holds(file[x].by, Kids(x))
      BY DEF Unwritten
    <3>1. CASE inode'[j].dirty = inode[j].dirty
      BY <1>4, <3>1 DEF Unwritten
    <3>2. CASE j = i /\ inode[i].list = <<>> /\ file[m].by = <<>>
      BY <1>2, <3>2
    <3> QED
      BY <1>4, <3>1, <3>2
  <2> QED
    BY <1>6, <2>1, <2>2, <2>3, <2>4, SoundKept
<1>9. ASSUME NEW j \in Ino PROVE Serves(j)'
  <2>1. Serves(j)
    BY DEF Good
  <2>2. \A y \in Name : InUse(j) /\ y = inode[j].name =>
          file'[y] # None /\ file'[y].to = None /\ Kids(y)' = Kids(y)
    BY <1>1, <1>6, <2>1 DEF Serves, Exists
  <2> QED
    BY <1>4, <1>7, <2>1, <2>2, ServesKept
<1>10. Single'
  BY <1>4, <1>7, SingleSame
<1>11. Uses'
  <2> SUFFICES ASSUME NEW j \in Ino PROVE Cardinality(Users(j)') <= inode'[j].nlink
    BY DEF Uses
  <2>1. Users(j)' \in SUBSET Users(j)
    BY <1>4 DEF Users
  <2> QED
    BY <1>4, <2>1, UsesFewer
<1> QED
  BY <1>5, <1>8, <1>9, <1>10, <1>11, Zenon DEF Good

\* sys_sync has written every inode; the next start reads the disk.
LEMMA RestartStep ==
  ASSUME Good, Restart
  PROVE  Good'
<1> USE NoneIsNothing
<1>1. /\ \A i \in Ino : inode[i].dirty = {}
      /\ dentry' = [n \in Name |-> None] /\ inode' = [i \in Ino |-> Unused]
      /\ pinned' = {}
      /\ UNCHANGED <<file, link, made>> /\ LinkTypes
  BY DEF Restart, Good
<1>2. Unused \in InodeRec /\ Unused.dirty = {} /\ Unused.nlink = 0
  BY EmptySeq DEF Unused, InodeRec
<1>3. LinkTypes'
  BY <1>1, <1>2 DEF LinkTypes
<1>4. \A y \in Name : Kids(y)' = Kids(y)
  BY <1>1 DEF Kids, Exists
<1>5. ASSUME NEW x \in Name PROVE Sound(x)'
  <2>1. Sound(x)
    BY DEF Good
  <2>2. OnDisk(x)' /\ Cached(x)'
    BY <1>1, <2>1 DEF Sound, OnDisk, Cached, Exists
  <2>3. ~Unwritten(x)
    BY <1>1 DEF Unwritten
  <2>4. Written(x)'
    BY <1>1, <1>4, <2>1, <2>3 DEF Sound, Written, Exists, Holds
  <2> QED
    BY <2>2, <2>4 DEF Sound
<1>6. \A j \in Ino : ~InUse(j)'
  BY <1>1, <1>2 DEF InUse
<1>7. (\A j \in Ino : Serves(j)') /\ Single'
  BY <1>6 DEF Serves, Single
<1>8. Uses'
  <2> SUFFICES ASSUME NEW j \in Ino PROVE Cardinality(Users(j)') <= inode'[j].nlink
    BY DEF Uses
  <2>1. Users(j)' = {}
    BY <1>1 DEF Users
  <2>2. inode'[j].nlink = 0 /\ Cardinality(Users(j)') = 0
    BY <1>1, <1>2, <2>1, FS_EmptySet
  <2> QED
    BY <2>2
<1> QED
  BY <1>3, <1>5, <1>7, <1>8, Zenon DEF Good

\* iod_rename of a master.
LEMMA RenameStep ==
  ASSUME Good, NEW o \in Name, NEW n \in Name, Rename(o, n),
         dentry[o] # None => inode[dentry[o]].name = o
  PROVE  Good'
<1> USE NoneIsNothing
<1>1. /\ dentry[o] # None /\ ~Exists(n) /\ dentry[n] = None /\ LinkTypes
      /\ inode[dentry[o]].name = o
  BY DEF Rename, Good
<1>2. PICK i \in Ino :
        /\ dentry[o] = i /\ inode[i].name = o /\ InUse(i)
        /\ Exists(o) /\ file[o].to = None
        /\ file[o] \in FileRec /\ inode[i] \in InodeRec
        /\ file[o].data = link[o]
        /\ Holds(inode[i].list, Kids(o))
        /\ \A j \in Ino : InUse(j) /\ inode[j].name = o => j = i
  BY <1>1, MasterOf
<1> DEFINE s == inode[i].list
           K == Kids(o)
           g == [file[o] EXCEPT !.by = s]
           c == [data |-> 0, to |-> n, by |-> <<>>]
           u == [inode[i] EXCEPT !.name = n, !.dirty = {}]
           named == [inode[i] EXCEPT !.name = n, !.dirty = Dirty]
           moved == [file EXCEPT ![n] = file[o], ![o] = None]
           h == [file EXCEPT ![n] = g, ![o] = None]
<1>3. /\ file' = RewriteLinklist(moved, named)
      /\ inode' = [inode EXCEPT ![i] = [named EXCEPT !.dirty = {}]]
      /\ dentry' = [dentry EXCEPT ![n] = i, ![o] = None]
      /\ pinned' = {IF x = o THEN n ELSE x : x \in pinned}
      /\ link' = [link EXCEPT ![n] = link[o], ![o] = None]
      /\ made' = made
  BY <1>2 DEF Rename
<1>4. /\ o # n /\ K \subseteq Name /\ o \notin K /\ n \notin K /\ In(s) = K
      /\ s \in Seq(Name)
      /\ \A x \in K : file[x].to = o /\ Exists(x)
  BY <1>1, <1>2 DEF Kids, Holds
<1>5. /\ g \in FileRec /\ g.to = None /\ g.data = link[o] /\ g.by = s
      /\ c \in FileRec /\ c.to = n
  BY <1>2, <1>4, EmptySeq DEF FileRec
<1>6. /\ named.name = n /\ named.list = s /\ named.dirty = Dirty
      /\ [named EXCEPT !.dirty = {}] = u
      /\ u \in InodeRec
      /\ u.name = n /\ u.list = s /\ u.dirty = {} /\ u.nlink = inode[i].nlink
  BY <1>2 DEF InodeRec
<1>7. inode' = [inode EXCEPT ![i] = u]
  BY <1>3, <1>6
<1>8. moved[n] = file[o] /\ moved[n] # None
  BY <1>1, <1>2, <1>4 DEF LinkTypes, Exists
<1>9. [moved EXCEPT ![n].by = s] = h
  <2>1. [moved EXCEPT ![n].by = s] = [moved EXCEPT ![n] = g]
    BY <1>8
  <2>2. [moved EXCEPT ![n] = g] = h
    BY <1>1, <1>4 DEF LinkTypes
  <2> QED
    BY <2>1, <2>2
<1>10. file' = WriteLinkchildInfo(h, K, n)
  <2>1. "LINKCHILDS" \in Dirty
    BY DEF Dirty
  <2> HIDE DEF moved, named, h, s, K
  <2> QED
    BY <1>3, <1>4, <1>6, <1>8, <1>9, <2>1 DEF RewriteLinklist
<1> HIDE DEF s, g, u
<1>11. \A x \in Name :
         file'[x] = IF x = o THEN None ELSE IF x = n THEN g
                    ELSE IF x \in K THEN c ELSE file[x]
  <2> SUFFICES ASSUME NEW x \in Name
               PROVE  file'[x] = IF x = o THEN None ELSE IF x = n THEN g
                                 ELSE IF x \in K THEN c ELSE file[x]
    OBVIOUS
  <2>1. file'[x] = IF x \in K /\ h[x] # None THEN c ELSE h[x]
    BY <1>10 DEF WriteLinkchildInfo
  <2>2. h[x] = IF x = o THEN None ELSE IF x = n THEN g ELSE file[x]
    BY <1>1, <1>4 DEF LinkTypes
  <2>3. x \in K => h[x] # None
    BY <1>4, <2>2 DEF Exists
  <2> HIDE DEF K, c, h
  <2> QED
    BY <1>4, <2>1, <2>2, <2>3
<1> HIDE DEF K, c, h, moved, named
<1>12. LinkTypes'
  <2>1. inode' \in [Ino -> InodeRec]
    BY <1>1, <1>6, <1>7 DEF LinkTypes
  <2>2. /\ dentry' \in [Name -> Ino \cup {None}]
        /\ pinned' \in SUBSET Name
        /\ link' \in [Name -> (1 .. MaxFile) \cup {None}]
    BY <1>1, <1>3 DEF LinkTypes
  <2>3. file' \in [Name -> FileRec \cup {None}]
    <3>1. file' = [x \in Name |-> file'[x]]
      BY <1>10 DEF WriteLinkchildInfo
    <3>2. \A x \in Name : file'[x] \in FileRec \cup {None}
      BY <1>1, <1>5, <1>11 DEF LinkTypes
    <3> QED
      BY <3>1, <3>2
  <2> QED
    BY <1>1, <1>3, <2>1, <2>2, <2>3 DEF LinkTypes
<1>13. /\ \A x \in Name : dentry'[x] = IF x = o THEN None ELSE IF x = n THEN i
                                       ELSE dentry[x]
       /\ link'[n] = link[o]
       /\ \A x \in Name : x # o /\ x # n => link'[x] = link[x]
       /\ \A j \in Ino : inode'[j] = IF j = i THEN u ELSE inode[j]
       /\ \A x \in Name : dentry[x] # None => dentry[x] \in Ino
  BY <1>1, <1>3, <1>4, <1>7 DEF LinkTypes
<1>14. \A x \in Name : Exists(x) => file[x].to # n
  BY <1>1 DEF Good, Sound, OnDisk
<1>15. Kids(n)' = K /\ \A y \in Name \ {o, n} : Kids(y)' = Kids(y)
  <2>1. Kids(n)' = K
    BY <1>4, <1>5, <1>11, <1>14 DEF Kids, Exists
  <2>2. ASSUME NEW y \in Name \ {o, n} PROVE Kids(y)' = Kids(y)
    BY <1>1, <1>2, <1>4, <1>5, <1>11 DEF Kids, Exists
  <2> QED
    BY <2>1, <2>2
<1>16. \A x \in K : link[x] = link[o]
  BY <1>4 DEF Good, Sound, OnDisk
<1>17. \A j \in Ino :
         j # i => (InUse(j)' => InUse(j)) /\ inode'[j] = inode[j]
  BY <1>13 DEF InUse
<1>18. ASSUME NEW x \in Name PROVE Sound(x)'
  <2>1. CASE x = o
    BY <1>11, <1>13, <2>1, AbsentSound
  <2>2. CASE x = n
    <3>1. /\ file'[n] # None /\ file'[n].to = None /\ file'[n].data = link'[n]
          /\ dentry'[n] = i /\ inode'[i].name = n
          /\ file'[n].by = s
      <4>1. file'[n] = g /\ g # None /\ dentry'[n] = i /\ inode'[i] = u
        BY <1>4, <1>5, <1>11, <1>13
      <4> QED
        BY <1>5, <1>6, <1>13, <4>1
    <3>2. Holds(file'[n].by, Kids(n)')
      BY <1>2, <1>15, <3>1 DEF s, K
    <3> QED
      BY <2>2, <3>1, <3>2, MasterSound
  <2>3. CASE x \in K
    <3>1. dentry[x] # None => dentry[x] = i
      BY <1>2, <1>4, <2>3, MasterOf
    <3>2. dentry'[x] # None => inode'[dentry'[x]].name = n
      <4>1. dentry'[x] = dentry[x] /\ inode'[i] = u
        BY <1>4, <1>13, <2>3
      <4> QED
        BY <1>6, <3>1, <4>1
    <3>3. /\ file'[x] # None /\ file'[x].to = n /\ file'[n] # None
          /\ file'[n].to = None /\ link'[x] = link'[n]
      BY <1>4, <1>5, <1>11, <1>13, <1>16, <2>3
    <3> QED
      BY <3>2, <3>3, LinkSound
  <2>4. CASE x # o /\ x # n /\ x \notin K
    <3>1. Sound(x) /\ OnDisk(x)
      BY DEF Good, Sound
    <3>2. Exists(x) => file[x].to # o
      BY <2>4 DEF K, Kids
    <3>3. \A y \in Name : Exists(x) /\ y = file[x].to =>
            file'[y] # None /\ file'[y].to = None /\ link'[y] = link[y]
      BY <1>4, <1>11, <1>13, <1>14, <3>1, <3>2 DEF OnDisk, Exists
    <3>4. file'[x] = file[x] /\ dentry'[x] = dentry[x] /\ link'[x] = link[x]
      BY <1>11, <1>13, <2>4
    <3>5. dentry[x] # None => inode'[dentry[x]] = inode[dentry[x]]
      <4>1. dentry[x] # i
        BY <1>2, <2>4, <3>2, MasterOf
      <4> QED
        BY <1>13, <4>1
    <3>6. Kids(x)' = Kids(x)
      BY <1>15, <2>4
    <3>7. Unwritten(x) => Unwritten(x)'
      BY <1>2, <1>17, <2>4 DEF Unwritten
    <3> QED
      BY <3>1, <3>3, <3>4, <3>5, <3>6, <3>7, SoundKept
  <2> QED
    BY <2>1, <2>2, <2>3, <2>4
<1>19. ASSUME NEW j \in Ino PROVE Serves(j)'
  <2>1. CASE j = i
    <3>1. /\ inode'[i].name = n /\ inode'[i].list = s
          /\ file'[n] # None /\ file'[n].to = None
      BY <1>4, <1>5, <1>6, <1>11, <1>13
    <3>2. Holds(inode'[i].list, Kids(n)')
      BY <1>2, <1>15, <3>1 DEF s, K
    <3> QED
      BY <2>1, <3>1, <3>2, InodeServes
  <2>2. CASE j # i
    <3>1. Serves(j)
      BY DEF Good
    <3>2. \A y \in Name : InUse(j) /\ y = inode[j].name =>
            file'[y] # None /\ file'[y].to = None /\ Kids(y)' = Kids(y)
      <4> SUFFICES ASSUME NEW y \in Name, InUse(j), y = inode[j].name
                   PROVE  /\ file'[y] # None /\ file'[y].to = None
                          /\ Kids(y)' = Kids(y)
        OBVIOUS
      <4>1. y # o /\ file[y] # None /\ file[y].to = None
        BY <1>2, <2>2, <3>1 DEF Serves, Exists
      <4>2. y # n /\ y \notin K
        BY <1>1, <1>4, <4>1 DEF Exists
      <4> QED
        BY <1>11, <1>15, <4>1, <4>2
    <3> QED
      BY <1>17, <2>2, <3>1, <3>2, ServesKept
  <2> QED
    BY <2>1, <2>2
<1>20. Single'
  <2>1. \A j \in Ino : InUse(j) /\ inode[j].name = n => j = i
    BY <1>1 DEF Good, Serves
  <2>2. inode'[i].name = n
    BY <1>6, <1>13
  <2> QED
    BY <1>17, <2>1, <2>2, SingleKept
<1>21. Uses'
  <2> SUFFICES ASSUME NEW j \in Ino PROVE Cardinality(Users(j)') <= inode'[j].nlink
    BY DEF Uses
  <2>1. CASE j = i
    <3>1. /\ Users(j)' = (Users(j) \ {o}) \cup {n}
          /\ o \in Users(j) /\ n \notin Users(j)
      BY <1>1, <1>2, <1>4, <1>13, <2>1 DEF Users
    <3>2. inode'[j].nlink = inode[j].nlink
      BY <1>6, <1>13, <2>1
    <3> QED
      BY <3>1, <3>2, UsesSwap
  <2>2. CASE j # i
    <3>1. Users(j)' = Users(j)
      BY <1>1, <1>2, <1>13, <2>2 DEF Users
    <3> QED
      BY <1>13, <2>2, <3>1 DEF Good, Uses
  <2> QED
    BY <2>1, <2>2
<1> QED
  BY <1>12, <1>18, <1>19, <1>20, <1>21, Zenon DEF Good

-----------------------------------------------------------------------------
(* The theorems.                                                           *)

\* A step that changes neither the disk nor the caches.
LEMMA GoodKept ==
  ASSUME UNCHANGED <<file, dentry, pinned, inode, link, made>>, Good
  PROVE  Good'
<1>1. LinkTypes'
  BY DEF Good, LinkTypes
<1>2. \A y \in Name : Kids(y)' = Kids(y) /\ (Unwritten(y)' <=> Unwritten(y))
  BY DEF Kids, Exists, Unwritten
<1>3. ASSUME NEW x \in Name PROVE Sound(x)'
  <2>1. Sound(x)
    BY DEF Good
  <2>2. OnDisk(x)' /\ Cached(x)'
    BY <2>1 DEF Sound, OnDisk, Cached, Exists
  <2>3. Written(x)'
    BY <1>2, <2>1 DEF Sound, Written, Exists, Holds
  <2> QED
    BY <2>2, <2>3 DEF Sound
<1>4. ASSUME NEW j \in Ino PROVE (InUse(j)' <=> InUse(j)) /\ Serves(j)'
  <2>1. Serves(j)
    BY DEF Good
  <2>2. InUse(j)' <=> InUse(j)
    BY DEF InUse
  <2> QED
    BY <1>2, <2>1, <2>2 DEF Serves, Exists, Holds
<1>5. Single'
  BY <1>4 DEF Good, Single
<1>6. Uses'
  BY ZenonT(60) DEF Good, Uses, Users
<1> QED
  BY <1>1, <1>3, <1>4, <1>5, <1>6, Zenon DEF Good

\* Every step preserves the invariant.
LEMMA LinkNext == LinkInv /\ [Next]_vars => LinkInv'
<1> SUFFICES ASSUME LinkInv, [Next]_vars PROVE LinkInv'
  OBVIOUS
<1>1. ASSUME UNCHANGED vars PROVE LinkInv'
  <2>1. /\ UNCHANGED <<file, dentry, pinned, inode, link, made>>
        /\ orphaned' = orphaned /\ hung' = hung
    BY <1>1 DEF vars
  <2> QED
    BY <2>1, GoodKept DEF LinkInv
<1>2. ASSUME Next
      PROVE  /\ orphaned' \in BOOLEAN /\ hung' \in BOOLEAN
             /\ orphaned => orphaned'
  BY <1>2, ZenonT(60)
     DEF LinkInv, Next, Other, Create, Lookup, LookupLink, Link, LinkTo,
         LinkHangs, NewLink, Unlink, UnlinkLink, UnlinkHangs, UnlinkMaster,
         UnlinkTo, UnlinkOnly, Rename, WriteInode, Prune, Restart
<1>3. ASSUME Next, ~orphaned' PROVE Good'
  <2>1. Good
    BY <1>2, <1>3 DEF LinkInv
  <2>2. ASSUME NEW n \in Name, Create(n) PROVE Good'
    BY <2>1, <2>2, CreateStep
  <2>3. ASSUME NEW n \in Name, Lookup(n) PROVE Good'
    BY <1>3, <2>1, <2>3, LookupStep
  <2>4. ASSUME NEW n \in Name, LookupLink(n) PROVE Good'
    BY <2>1, <2>4, LookupLinkStep
  <2>5. ASSUME NEW n \in Name, UnlinkLink(n) PROVE Good'
    BY <2>1, <2>5, UnlinkLinkStep
  <2>6. ASSUME NEW n \in Name, UnlinkMaster(n) PROVE Good'
    BY <1>3, <2>1, <2>6, UnlinkMasterStep
  <2>7. ASSUME NEW n \in Name, UnlinkOnly(n) PROVE Good'
    BY <1>3, <2>1, <2>7, UnlinkOnlyStep
  <2>8. ASSUME NEW o \in Name, NEW n \in Name, Link(o, n) PROVE Good'
    BY <2>1, <2>8, LinkStep
  <2>9. ASSUME NEW i \in Ino, WriteInode(i) PROVE Good'
    BY <2>1, <2>9, WriteInodeStep
  <2>10. ASSUME Restart PROVE Good'
    BY <2>1, <2>10, RestartStep
  <2>11. ASSUME NEW o \in Name, NEW n \in Name, Rename(o, n),
                dentry[o] # None => inode[dentry[o]].name = o
         PROVE  Good'
    BY <2>1, <2>11, RenameStep
  <2>12. ASSUME NEW n \in Name, Prune(n) PROVE Good'
    BY <2>1, <2>12, PruneStep
  <2>13. ASSUME NEW n \in Name, UnlinkHangs(n) PROVE Good'
    BY <2>1, <2>13, GoodKept DEF UnlinkHangs
  <2>14. ASSUME NEW o \in Name, NEW n \in Name, LinkHangs(o, n) PROVE Good'
    BY <1>3, <2>14 DEF LinkHangs
  <2> QED
    BY <1>3, <2>2, <2>3, <2>4, <2>5, <2>6, <2>7, <2>8, <2>9, <2>10, <2>11,
       <2>12, <2>13, <2>14 DEF Next, Other, Unlink
<1> QED
  BY <1>1, <1>2, <1>3 DEF LinkInv

\* The invariant holds.
LEMMA LinkInvariant == Spec => []LinkInv
<1> QED
  BY LinkInit, LinkNext, PTL DEF Spec

\* Until an inode is orphaned the variables of the links have their types; in
\* particular i_nlink, which iod_unlink counts down, does not become negative.
THEOREM LinkTypeOK == Spec => [](~orphaned => TypeOK)
<1>1. LinkInv => (~orphaned => TypeOK)
  <2> SUFFICES ASSUME LinkInv, ~orphaned PROVE TypeOK
    OBVIOUS
  <2>1. LinkTypes /\ Uses
    BY DEF LinkInv, Good
  <2>2. \A n \in Name : Exists(n) => /\ file[n].data \in 0 .. MaxFile
                                     /\ file[n].to \in Name \cup {None}
                                     /\ file[n].by \in Seq(Name)
    BY <2>1 DEF LinkTypes, FileRec, Exists
  <2>3. ASSUME NEW i \in Ino
        PROVE  /\ inode[i].name \in Name \cup {None}
               /\ inode[i].list \in Seq(Name)
               /\ inode[i].nlink \in Nat
               /\ inode[i].dirty \subseteq Dirty
    <3>1. inode[i] \in InodeRec /\ Cardinality(Users(i)) <= inode[i].nlink
      BY <2>1 DEF LinkTypes, Uses
    <3> DEFINE a == Cardinality(Users(i))
               b == inode[i].nlink
    <3>2. a \in Nat /\ b \in Int /\ a <= b
      BY <3>1, UsersFinite DEF InodeRec
    <3> HIDE DEF a, b
    <3>3. b \in Nat
      BY <3>2
    <3> QED
      BY <3>1, <3>3 DEF InodeRec, b
  <2> QED
    BY <2>1, <2>2, <2>3 DEF TypeOK, LinkTypes, LinkInv
<1> QED
  BY <1>1, LinkInvariant, PTL

\* Through creations, lookups, links, unlinks, renames of masters, write-backs,
\* evictions of dentries, calls that hang and restarts every name leads to the
\* data of its file, in memory through the linkinfo of its inode, on disk through
\* LX_LT: unless, as NamesReachData says, an inode has been orphaned.
THEOREM NamesLeadToData == Spec => []NamesReachData
<1>1. LinkInv => NamesReachData
  <2> SUFFICES ASSUME LinkInv, ~orphaned, NEW n \in Name
               PROVE  /\ dentry[n] # None =>
                           LET m == inode[dentry[n]].name
                           IN  Exists(m) /\ file[m].data = link[n]
                      /\ Exists(n) =>
                           LET m == IF LinkName(n) = None THEN n ELSE LinkName(n)
                           IN  file[m].data = link[n]
    BY DEF NamesReachData
  <2>1. Good
    BY DEF LinkInv
  <2>2. ASSUME dentry[n] # None
        PROVE  LET m == inode[dentry[n]].name
               IN  Exists(m) /\ file[m].data = link[n]
    BY <2>1, <2>2, MasterOf
  <2>3. ASSUME Exists(n)
        PROVE  LET m == IF LinkName(n) = None THEN n ELSE LinkName(n)
               IN  file[m].data = link[n]
    <3>1. Sound(n)
      BY <2>1 DEF Good
    <3>2. CASE file[n].to = None
      <4>1. LinkName(n) = None
        BY <3>2, NoneIsNothing DEF LinkName
      <4> QED
        BY <2>3, <3>1, <3>2, <4>1, NoneIsNothing DEF Sound, OnDisk
    <3>3. CASE file[n].to # None
      <4>1. PICK y \in Name : /\ file[n].to = y /\ Exists(y) /\ file[y].to = None
                              /\ link[n] = link[y]
        BY <2>3, <3>1, <3>3 DEF Sound, OnDisk
      <4>2. LinkName(n) = y /\ y # None
        BY <4>1, NoneIsNothing DEF LinkName
      <4>3. file[y].data = link[y]
        BY <2>1, <4>1, NoneIsNothing DEF Good, Sound, OnDisk
      <4> QED
        BY <4>1, <4>2, <4>3
    <3> QED
      BY <3>2, <3>3
  <2> QED
    BY <2>2, <2>3
<1> QED
  BY <1>1, LinkInvariant, PTL

\* The linkinfo of an inode with a name in memory is what oofl_fs.h says, also
\* while its master is evicted: its name is a master, its list holds all links to
\* it, each once, unless an inode has been orphaned.
THEOREM ListsAreComplete == Spec => []ListHoldsLinks
<1>1. LinkInv => ListHoldsLinks
  <2> SUFFICES ASSUME LinkInv, ~orphaned, NEW n \in Name, dentry[n] # None
               PROVE  LET i == dentry[n]
                          s == inode[i].list
                      IN  /\ Exists(inode[i].name)
                          /\ file[inode[i].name].to = None
                          /\ In(s) = {x \in Name : Exists(x)
                                         /\ file[x].to = inode[i].name}
                          /\ Cardinality(In(s)) = Len(s)
    BY DEF ListHoldsLinks
  <2>1. PICK i \in Ino, m \in Name :
          /\ dentry[n] = i /\ inode[i].name = m
          /\ Exists(m) /\ file[m].to = None
          /\ Holds(inode[i].list, Kids(m))
    BY MasterOf DEF LinkInv
  <2>2. In(inode[i].list) = Kids(m)
    BY <2>1 DEF Holds
  <2>3. Cardinality(In(inode[i].list)) = Len(inode[i].list)
    BY <2>1, <2>2, HoldsCount
  <2> QED
    BY <2>1, <2>2, <2>3 DEF Kids
<1> QED
  BY <1>1, LinkInvariant, PTL

=============================================================================
