----------------------------- MODULE LxafsLink -----------------------------
(***************************************************************************)
(* Hard links of LXAFS (os2/os2/fs/lxafs), which OS/2 file systems do not  *)
(* have.  One name of a file, the master, holds its data; the others are   *)
(* dummy files whose extended attribute LX_LT names the master.  The       *)
(* attributes LX_LC and LX_LB_n of the master list them.  In memory all    *)
(* names of a file share an inode, which knows the master's name and the   *)
(* list of the others and writes the list when it is written back.         *)
(*                                                                         *)
(* The model is of the files of the root directory, one call at a time.    *)
(* Calls that OS/2 refuses before they have changed anything are not       *)
(* steps.  iod_lookup of a link looks its master up first, with the        *)
(* directory unlocked: a Lookup step before it.  The path_lookup of the    *)
(* master in iod_link and iod_unlink has the directory locked and hangs if *)
(* the master is not in the dentry cache.  Deleting, copying and writing   *)
(* files succeeds.                                                         *)
(***************************************************************************)
EXTENDS Naturals, Sequences, FiniteSets

CONSTANTS
  Name,       \* the names in the directory
  None,
  MaxFile,    \* bound on the files created; their data is their number
  MaxLinks    \* LX_MAX_LINKS

ASSUME LinkAssumption ==
  /\ IsFiniteSet(Name) /\ None \notin Name
  /\ MaxFile \in Nat
  /\ MaxLinks \in Nat \ {0}
  /\ None \notin Nat
  /\ None \notin [data : 0 .. MaxFile, to : Name \cup {None}, by : Seq(Name)]

VARIABLES
  file,     \* the directory on disk: data (0 in a dummy), LX_LT and LX_LB_n
  dentry,   \* the inode of every name in the dentry cache, or None
  pinned,   \* the names whose dentry has a count that nobody gives back
  inode,    \* the inodes: linkinfo, i_nlink, dirty_flag
  hung,     \* does a call wait for the i_sem of the directory that it holds?
  link,     \* history: the file each name stands for
  made,     \* history: files created
  orphaned  \* history: is there an inode that its name does not lead to?

vars == <<file, dentry, pinned, inode, hung, link, made, orphaned>>

\* Bound on the inodes in memory at once.
Ino == 1 .. (Cardinality(Name) + 1)
Dirty == {"LINKLIST", "LINKCHILDS"}
Unused == [name |-> None, list |-> <<>>, nlink |-> 0, dirty |-> {}]

Exists(n) == file[n] # None
In(s) == {s[k] : k \in DOMAIN s}

\* iput keeps an inode until it is written.
Free == {i \in Ino : inode[i].dirty = {} /\ \A n \in Name : dentry[n] # i}

Init ==
  /\ file = [n \in Name |-> None]
  /\ dentry = [n \in Name |-> None]
  /\ pinned = {}
  /\ hung = FALSE
  /\ inode = [i \in Ino |-> Unused]
  /\ link = [n \in Name |-> None]
  /\ made = 0
  /\ orphaned = FALSE

-----------------------------------------------------------------------------
(* Helpers of oofl_io.c and oofl_misc.c.                                   *)

\* lxafs_write_linkchild_info of every name of S that there is.
WriteLinkchildInfo(f, S, master) ==
  [n \in Name |-> IF n \in S /\ f[n] # None
                    THEN [data |-> 0, to |-> master, by |-> <<>>] ELSE f[n]]

\* lxafs_rewrite_linklist of inode i, which writes to the file of its name.
RewriteLinklist(f, i) ==
  LET g == IF f[i.name] = None THEN f ELSE [f EXCEPT ![i.name].by = i.list]
  IN  IF "LINKCHILDS" \in i.dirty
        THEN WriteLinkchildInfo(g, In(i.list), i.name) ELSE g

\* CMD_GetFileInfo: the master n is linked to, unless that is gone.
LinkName(n) ==
  LET m == file[n].to
  IN  IF m \in Name \ {n} /\ Exists(m) THEN m ELSE None

\* lxafs_attach_linked_file adds n in front ...
Attach(s, n) == IF n \in In(s) THEN s ELSE <<n>> \o s

\* ... and lxafs_detach_linked_file removes the first entry for it.
Detach(s, n) ==
  LET k == CHOOSE k \in DOMAIN s : s[k] = n /\ \A l \in 1 .. k - 1 : s[l] # n
  IN  SubSeq(s, 1, k - 1) \o SubSeq(s, k + 1, Len(s))

\* lxafs_add_link_childs takes the listed names that exist, which is all of
\* them unless a link has gone behind the back of its master.
Existing(s) ==
  IF \A m \in In(s) : Exists(m) THEN s
  ELSE SelectSeq(s, LAMBDA m : Exists(m))

\* path_lookup of the master of inode i returns: its dentry is in memory, or
\* there is no such file and its negative dentry is.
MasterFound(i) ==
  LET m == inode[i].name IN Exists(m) => dentry[m] # None

-----------------------------------------------------------------------------
(* The operations of oofl_dir.c.  Each needs the i_sem of the directory.   *)

\* iod_create.  dirty_flag of a new inode is not initialised.
Create(n) ==
  /\ ~hung /\ ~Exists(n) /\ dentry[n] = None
  /\ made < MaxFile /\ Free # {}
  /\ \E d \in SUBSET Dirty :
       LET i == CHOOSE i \in Free : TRUE
       IN  /\ inode' = [inode EXCEPT ![i] =
                [name |-> n, list |-> <<>>, nlink |-> 1, dirty |-> d]]
           /\ dentry' = [dentry EXCEPT ![n] = i]
  /\ file' = [file EXCEPT ![n] = [data |-> made + 1, to |-> None, by |-> <<>>]]
  /\ link' = [link EXCEPT ![n] = made + 1]
  /\ made' = made + 1
  /\ UNCHANGED <<pinned, hung, orphaned>>

\* iod_lookup of a file that is no link: a new inode, with the links listed in
\* its attributes that still exist.  It is the second one if the dentry has been
\* evicted while a link, or the list of dirty inodes, kept the first.
Lookup(n) ==
  /\ ~hung /\ Exists(n) /\ dentry[n] = None /\ LinkName(n) = None
  /\ Free # {}
  /\ LET i == CHOOSE i \in Free : TRUE
     IN  /\ \E d \in SUBSET Dirty :
              inode' = [inode EXCEPT ![i] =
                [name |-> n, list |-> Existing(file[n].by), nlink |-> 1,
                 dirty |-> IF file[n].by = <<>> THEN d
                           ELSE d \cup {"LINKLIST"}]]
         /\ dentry' = [dentry EXCEPT ![n] = i]
  /\ orphaned' = (orphaned \/ \E i \in Ino \ Free : inode[i].name = n)
  /\ UNCHANGED <<file, pinned, hung, link, made>>

\* iod_lookup of a link: the inode of its master.  simple_link takes a count of
\* the dentry for good.
LookupLink(n) ==
  /\ ~hung /\ Exists(n) /\ dentry[n] = None
  /\ LET m == LinkName(n) IN
       /\ m # None /\ dentry[m] # None
       /\ dentry' = [dentry EXCEPT ![n] = dentry[m]]
       /\ inode' = [inode EXCEPT ![dentry[m]].nlink = @ + 1]
  /\ pinned' = pinned \cup {n}
  /\ UNCHANGED <<file, hung, link, made, orphaned>>

\* iod_link of the new name n to the old name o, up to the list of the master.
NewLink(o, n) ==
  /\ ~hung /\ dentry[o] # None /\ ~Exists(n) /\ dentry[n] = None
  /\ LET i == dentry[o] IN
       /\ inode[i].nlink <= MaxLinks - 1
       /\ file' = [file EXCEPT ![n] =
                      [data |-> 0, to |-> inode[i].name, by |-> <<>>]]
       /\ dentry' = [dentry EXCEPT ![n] = i]
  /\ pinned' = pinned \cup {n}
  /\ link' = [link EXCEPT ![n] = link[o]]
  /\ UNCHANGED made

\* The rest of iod_link; count is added to i_nlink.
LinkTo(o, n, count) ==
  /\ NewLink(o, n)
  /\ LET i == dentry[o]
         j == dentry[inode[i].name]
         counted == [inode EXCEPT ![i].nlink = @ + count]
     IN  /\ MasterFound(i)
         /\ inode' = IF j = None THEN counted
                     ELSE [counted EXCEPT ![j].list = Attach(@, n),
                                          ![j].dirty = @ \cup {"LINKLIST"}]
  /\ UNCHANGED <<hung, orphaned>>

\* Mutant: simple_link does not count the name.
LinkUncounted(o, n) == LinkTo(o, n, 0)

Link(o, n) == LinkTo(o, n, 1)

\* iod_link whose master is not in memory: the link is on disk and in memory
\* when path_lookup, with the directory locked, calls iod_lookup.
LinkHangs(o, n) ==
  /\ NewLink(o, n)
  /\ dentry[inode[dentry[o]].name] = None
  /\ inode' = [inode EXCEPT ![dentry[o]].nlink = @ + 1]
  /\ hung' = TRUE
  /\ orphaned' = TRUE

\* iod_unlink of a link.  lxafs_detach_linked_file does not give back the dentry
\* of the master that its path_lookup took.
UnlinkLink(n) ==
  /\ ~hung /\ dentry[n] # None
  /\ LET i == dentry[n]
         j == dentry[inode[i].name]
         counted == [inode EXCEPT ![i].nlink = @ - 1]
     IN  /\ inode[i].name # n
         /\ MasterFound(i)
         /\ inode' = IF j = None \/ n \notin In(inode[j].list) THEN counted
                     ELSE [counted EXCEPT ![j].list = Detach(@, n),
                                          ![j].dirty = @ \cup {"LINKLIST"}]
         /\ pinned' = (pinned \ {n})
                        \cup IF j = None THEN {} ELSE {inode[i].name}
  /\ file' = [file EXCEPT ![n] = None]
  /\ dentry' = [dentry EXCEPT ![n] = None]
  /\ link' = [link EXCEPT ![n] = None]
  /\ UNCHANGED <<hung, made, orphaned>>

\* iod_unlink of a link whose master is not in memory: path_lookup has the
\* directory locked and calls iod_lookup.
UnlinkHangs(n) ==
  /\ ~hung /\ dentry[n] # None
  /\ inode[dentry[n]].name # n
  /\ dentry[inode[dentry[n]].name] = None
  /\ hung' = TRUE
  /\ UNCHANGED <<file, dentry, pinned, inode, link, made, orphaned>>

\* iod_unlink of the name n of an inode that has links: the last of them takes
\* the place of n.  LX_DOSCOPY copies the attributes as well, so that it lists
\* itself until the inode is written; copying a file to itself fails.
UnlinkTo(n, rewrite) ==
  /\ ~hung /\ dentry[n] # None
  /\ LET i == dentry[n]
         s == inode[i].list
         last == s[Len(s)]
         rest == SubSeq(s, 1, Len(s) - 1)
         moved == IF last = n THEN [file EXCEPT ![n] = None]
                  ELSE [file EXCEPT ![last] = [file[n] EXCEPT !.to = None],
                                    ![n] = None]
     IN  /\ inode[i].name = n /\ s # <<>>
         /\ file' = IF rewrite THEN WriteLinkchildInfo(moved, In(rest), last)
                    ELSE moved
         /\ inode' = [inode EXCEPT ![i].name = last, ![i].list = rest,
                                   ![i].dirty = @ \cup {"LINKLIST"}]
         /\ orphaned' = (orphaned \/ dentry[last] # i)
  /\ dentry' = [dentry EXCEPT ![n] = None]
  /\ pinned' = pinned \ {n}
  /\ link' = [link EXCEPT ![n] = None]
  /\ UNCHANGED <<hung, made>>

\* Mutant: the other links keep the old master's name.
UnlinkMasterForgets(n) == UnlinkTo(n, FALSE)

UnlinkMaster(n) == UnlinkTo(n, TRUE)

\* iod_unlink of the only name.  i_nlink stays 1, so that the inode is kept
\* and, if it is dirty, written later.
UnlinkOnly(n) ==
  /\ ~hung /\ dentry[n] # None
  /\ inode[dentry[n]].name = n /\ inode[dentry[n]].list = <<>>
  /\ file' = [file EXCEPT ![n] = None]
  /\ dentry' = [dentry EXCEPT ![n] = None]
  /\ link' = [link EXCEPT ![n] = None]
  /\ pinned' = pinned \ {n}
  /\ orphaned' = (orphaned \/ inode[dentry[n]].dirty # {})
  /\ UNCHANGED <<inode, hung, made>>

\* iod_rename: DosMove of o to n, which must not exist.  The inode gets the
\* new name, whichever of its names was renamed, and is written at once; then
\* the VFS moves the dentry.
Rename(o, n) ==
  /\ ~hung /\ dentry[o] # None /\ ~Exists(n) /\ dentry[n] = None
  /\ LET i == dentry[o]
         moved == [file EXCEPT ![n] = file[o], ![o] = None]
         named == [inode[i] EXCEPT !.name = n, !.dirty = Dirty]
     IN  /\ file' = RewriteLinklist(moved, named)
         /\ inode' = [inode EXCEPT ![i] = [named EXCEPT !.dirty = {}]]
         /\ dentry' = [dentry EXCEPT ![n] = i, ![o] = None]
  /\ pinned' = {IF x = o THEN n ELSE x : x \in pinned}
  /\ link' = [link EXCEPT ![n] = link[o], ![o] = None]
  /\ UNCHANGED <<hung, made, orphaned>>

-----------------------------------------------------------------------------
\* Mutant: the links are written in no attribute.
WriteInodeClean(i) ==
  /\ inode[i].dirty # {}
  /\ inode' = [inode EXCEPT ![i].dirty = {}]
  /\ UNCHANGED <<file, dentry, pinned, hung, link, made, orphaned>>

\* lxafs_write_inode of an inode the VFS has marked dirty.
WriteInode(i) ==
  /\ inode[i].dirty # {}
  /\ file' = RewriteLinklist(file, inode[i])
  /\ inode' = [inode EXCEPT ![i].dirty = {}]
  /\ UNCHANGED <<dentry, pinned, hung, link, made, orphaned>>

\* The idle task shrinks the dentry cache.  iput keeps the inode while it has
\* other names or is on the list of dirty inodes; a dirty_flag that has its value
\* by chance does not put it there.
Prune(n) ==
  /\ dentry[n] # None /\ n \notin pinned
  /\ dentry' = [dentry EXCEPT ![n] = None]
  /\ LET i == dentry[n]
         m == inode[i].name
     IN  \/ UNCHANGED inode
         \/ /\ inode[i].list = <<>>
            /\ Exists(m) => file[m].by = <<>>
            /\ inode' = [inode EXCEPT ![i].dirty = {}]
  /\ UNCHANGED <<file, pinned, hung, link, made, orphaned>>

\* LX_StratShutdown has called sys_sync; the system starts again.
Restart ==
  /\ \A i \in Ino : inode[i].dirty = {}
  /\ dentry' = [n \in Name |-> None]
  /\ pinned' = {}
  /\ hung' = FALSE
  /\ inode' = [i \in Ino |-> Unused]
  /\ UNCHANGED <<file, link, made, orphaned>>

-----------------------------------------------------------------------------
Unlink(n) ==
  UnlinkLink(n) \/ UnlinkHangs(n) \/ UnlinkMaster(n) \/ UnlinkOnly(n)

Other ==
  \/ \E n \in Name : \/ Create(n) \/ Lookup(n) \/ LookupLink(n)
                      \/ Unlink(n) \/ Prune(n)
  \/ \E o, n \in Name : Link(o, n) \/ LinkHangs(o, n)
  \/ \E i \in Ino : WriteInode(i)
  \/ Restart

\* Only masters are renamed.
Next ==
  \/ Other
  \/ \E o, n \in Name : /\ dentry[o] # None => inode[dentry[o]].name = o
                        /\ Rename(o, n)

Spec == Init /\ [][Next]_vars

\* Any name is renamed.
RenameSpec == Init /\ [][Other \/ \E o, n \in Name : Rename(o, n)]_vars

-----------------------------------------------------------------------------
\* The values the variables of the links take.
TypeOK ==
  /\ \A n \in Name : Exists(n) =>
       /\ file[n].data \in 0 .. MaxFile
       /\ file[n].to \in Name \cup {None}
       /\ file[n].by \in Seq(Name)
  /\ dentry \in [Name -> Ino \cup {None}]
  /\ pinned \subseteq Name
  /\ hung \in BOOLEAN
  /\ \A i \in Ino : /\ inode[i].name \in Name \cup {None}
                    /\ inode[i].list \in Seq(Name)
                    /\ inode[i].nlink \in Nat
                    /\ inode[i].dirty \subseteq Dirty
  /\ link \in [Name -> 1 .. MaxFile \cup {None}]
  /\ made \in 0 .. MaxFile
  /\ orphaned \in BOOLEAN

\* A name in memory leads to the data of its file: the inode opens the file
\* linkinfo.name, through links, unlinks and renames of the other names and the
\* eviction of masters.  So does a name on disk after the next restart, through
\* LX_LT.  Not so once an inode has been orphaned, in one of four ways: a link
\* becomes the master while its dentry is not in memory; a dirty inode loses its
\* last name; an evicted master is looked up again while a link or the list of
\* dirty inodes keeps its inode; iod_link hangs before the list has the link.
NamesReachData ==
  ~orphaned => \A n \in Name :
    /\ dentry[n] # None =>
         LET m == inode[dentry[n]].name IN Exists(m) /\ file[m].data = link[n]
    /\ Exists(n) =>
         LET m == IF LinkName(n) = None THEN n ELSE LinkName(n)
         IN  file[m].data = link[n]

\* What oofl_fs.h says of the linkinfo of an inode: its name is the master's,
\* its list holds all links, each once, also while the dentry of the master is
\* evicted.  Not so once an inode has been orphaned.
ListHoldsLinks ==
  ~orphaned => \A i \in {dentry[n] : n \in Name} \ {None} :
    LET s == inode[i].list IN
      /\ Exists(inode[i].name) /\ file[inode[i].name].to = None
      /\ In(s) = {n \in Name : Exists(n) /\ file[n].to = inode[i].name}
      /\ Cardinality(In(s)) = Len(s)
=============================================================================
