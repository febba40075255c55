---------------------------- MODULE PlatformFile ----------------------------
(***************************************************************************)
(* The file functions (File/PlatformFile.cpp, the branches for Linux):     *)
(* PFMakeDirectory and PFMakeParentDirectory, PFRemoveFile, GetFileInfo    *)
(* and FreeFileInfo, called by several threads or processes that share     *)
(* nothing but the disk.  Every system call that looks at the disk or      *)
(* changes it is a step.                                                   *)
(*                                                                         *)
(* The recursion of the search and of the removal is unfolded into a stack *)
(* of open directories.  The call for the path itself, which the code      *)
(* treats apart, is a directory Top that holds just that path.             *)
(***************************************************************************)
EXTENDS Integers, FiniteSetsExt, SequencesExt

CONSTANTS
  Callers,     \* the threads
  Paths,       \* what can be on the disk
  Top,         \* the directory that relative paths start in: the empty path
  Parent,      \* the directory each path is in
  Linked,      \* the directory a symbolic link leads to
  TooLong,     \* the paths longer than PATH_MAX_LEN
  StSize,      \* st_size of each
  Name, Time,  \* its place in the order of strcmp, and its st_ctime
  Disks,       \* what may be on the disk at first, and of its directories those
               \* without permissions (denied) and those in use (busy)
  Calls        \* the calls each thread may make: op, path and sortMode

ASSUME PlatformFileAssumption ==
  /\ IsFiniteSet(Paths) /\ Top \notin Paths /\ Linked \in Paths
  /\ Parent \in [Paths -> Paths \cup {Top}]
  \* Every set of paths has one that is in none of the others: a tree.
  /\ \A S \in SUBSET Paths : S # {} => \E e \in S : Parent[e] \notin S
  /\ TooLong \subseteq Paths
  /\ StSize \in [Paths -> Nat] /\ Name \in [Paths -> Nat] /\ Time \in [Paths -> Nat]
  /\ \A d \in Disks : /\ d.tree \in [Paths -> {"none", "file", "dir", "link"}]
                      /\ d.denied \subseteq Paths /\ d.busy \subseteq Paths
                      /\ \A x \in Paths :
                           d.tree[x] # "none" /\ Parent[x] # Top =>
                             d.tree[Parent[x]] = "dir"
                      \* mkdir would follow a link in the middle of a path;
                      \* here no path goes through one.
                      /\ \A x \in Paths : Parent[x] # Top => d.tree[Parent[x]] # "link"
  /\ Calls \in [Callers -> SUBSET [op : {"make", "parent", "remove", "search"},
                                     path : Paths \cup {Top},
                                     sortMode : {"none", "name", "time", "unknown"}]]

VARIABLES
  disk,        \* what each path is
  disk0,       \* what it was at first
  fault,       \* the directories that cannot be opened or entered (denied),
               \* and those that cannot be removed, mount points say (busy)
  call,        \* the call each thread makes
  pc,          \* where it is
  ok,          \* what the call will return
  steps,       \* the directories PFMakeDirectory has yet to make
  stack,       \* the open directories, the innermost one last
  anew,        \* what was made in them since they were opened
  at,          \* the entry the innermost loop is at
  size,        \* the nodes a search has allocated, with their sizes
  read,        \* the nodes of each directory in the order they were read,
  child        \* and in the order of SortList

env   == <<disk0, fault>>
tree  == <<size, read, child>>
local == <<call, pc, ok, steps, stack, anew, at, tree>>
vars  == <<disk, env, local>>

NoCall == [op |-> "none"]

\* The directories a path is in, without Top.
Above[e \in Paths] ==
  IF Parent[e] = Top THEN {} ELSE {Parent[e]} \cup Above[Parent[e]]

Under(e) == {x \in Paths : x = e \/ e \in Above[x]}

Exists(e)  == disk[e] # "none"
Visible(e) == Above[e] \cap fault.denied = {}
Lstat(e)   == Visible(e) /\ Exists(e)

ChildrenOf(d) == {x \in Paths : Parent[x] = d}

\* readdir: a link is followed, if a link is ever opened.
Listing(d) == {x \in ChildrenOf(IF disk[d] = "link" THEN Linked ELSE d) : Exists(x)}

\* A faulty variant: stat in the place of lstat.
IsDirThroughLink(e) == disk[e] \in {"dir", "link"}

IsDir(e) == disk[e] = "dir"

-----------------------------------------------------------------------------
(***************************************************************************)
(* The sort: a merge sort of the list of a directory's nodes.              *)
(***************************************************************************)
\* A faulty variant: the greater goes first.
Greater(mode, l, r) == CASE mode = "name" -> Name[l] > Name[r]
                         [] mode = "time" -> Time[l] > Time[r]
                         [] OTHER         -> TRUE

\* Of an unknown mode it says so in the log, and takes the left one.
Less(mode, l, r) == CASE mode = "name" -> Name[l] < Name[r]
                      [] mode = "time" -> Time[l] < Time[r]
                      [] OTHER         -> TRUE

\* A faulty variant: what is left of one list when the other ends is lost.
MergeOnlyWhileBoth(mode, left, right) ==
  LET Merge[p \in Seq(Paths) \X Seq(Paths)] ==
        IF p[1] = <<>> \/ p[2] = <<>> THEN <<>>
        ELSE IF Less(mode, Head(p[1]), Head(p[2]))
             THEN <<Head(p[1])>> \o Merge[<<Tail(p[1]), p[2]>>]
             ELSE <<Head(p[2])>> \o Merge[<<p[1], Tail(p[2])>>]
  IN Merge[<<left, right>>]

MergeTwoList(mode, left, right) ==
  LET Merge[p \in Seq(Paths) \X Seq(Paths)] ==
        IF p[1] = <<>> THEN p[2]
        ELSE IF p[2] = <<>> THEN p[1]
        ELSE IF Less(mode, Head(p[1]), Head(p[2]))
             THEN <<Head(p[1])>> \o Merge[<<Tail(p[1]), p[2]>>]
             ELSE <<Head(p[2])>> \o Merge[<<p[1], Tail(p[2])>>]
  IN Merge[<<left, right>>]

\* slow goes one node at a time and fast, one ahead, two.
Middle(list) == (Len(list) + 1) \div 2

SortList(mode, nodes) ==
  LET Sort[list \in Seq(Paths)] ==
        IF mode = "none" \/ Len(list) <= 1 THEN list
        ELSE MergeTwoList(mode, Sort[SubSeq(list, 1, Middle(list))],
                                Sort[SubSeq(list, Middle(list) + 1, Len(list))])
  IN Sort[nodes]

-----------------------------------------------------------------------------
Init == /\ \E d \in Disks : /\ disk = d.tree /\ disk0 = d.tree
                           /\ fault = [denied |-> d.denied, busy |-> d.busy]
        /\ call = [c \in Callers |-> NoCall]
        /\ pc = [c \in Callers |-> "idle"]
        /\ ok = [c \in Callers |-> TRUE]
        /\ steps = [c \in Callers |-> <<>>]
        /\ stack = [c \in Callers |-> <<>>]
        /\ anew = [c \in Callers |-> {}]
        /\ at = [c \in Callers |-> Top]
        /\ size = [c \in Callers |-> <<>>]
        /\ read = [c \in Callers |-> <<>>]
        /\ child = [c \in Callers |-> <<>>]

Set(f, c, value) == [f EXCEPT ![c] = value]

\* f with e added, or with another value at e.
With(f, e, value) ==
  [x \in DOMAIN f \cup {e} |-> IF x = e THEN value ELSE f[x]]

\* Nothing, or an empty path, is asked for.
StartNothing(c) ==
  /\ pc[c] = "idle"
  /\ \E k \in Calls[c] : k.path = Top /\ call' = Set(call, c, k)
  /\ pc' = Set(pc, c, "done")
  /\ UNCHANGED <<disk, env, ok, steps, stack, anew, at, tree>>

-----------------------------------------------------------------------------
(***************************************************************************)
(* PFMakeDirectory and PFMakeParentDirectory.                              *)
(***************************************************************************)
\* The directories that are made for a path, the outermost one first.
Chain[e \in Paths] ==
  IF Parent[e] = Top THEN <<e>> ELSE Append(Chain[Parent[e]], e)

DirsToMake(k) == IF k.op = "parent" THEN Front(Chain[k.path]) ELSE Chain[k.path]

StartMake(c) ==
  /\ pc[c] = "idle"
  /\ \E k \in Calls[c] :
       /\ k.op \in {"make", "parent"} /\ k.path # Top
       /\ call' = Set(call, c, k)
       /\ IF k.path \in TooLong
          THEN /\ ok' = Set(ok, c, FALSE)
               /\ pc' = Set(pc, c, "done")
               /\ UNCHANGED steps
          ELSE /\ steps' = Set(steps, c, DirsToMake(k))
               /\ pc' = Set(pc, c, "mkdir")
               /\ UNCHANGED ok
  /\ UNCHANGED <<disk, env, stack, anew, at, tree>>

\* The directory that a new entry goes to is there and can be written.
CanHold(e) == Visible(e) /\ (Parent[e] # Top => disk[Parent[e]] = "dir")

Fail(c) == ok' = Set(ok, c, FALSE) /\ pc' = Set(pc, c, "done")

Opened(c) == {stack[c][i].dir : i \in DOMAIN stack[c]}

\* A directory is made; walks that have the one it is in open may notice.
Makes(e) ==
  /\ disk' = [disk EXCEPT ![e] = "dir"]
  /\ anew' = [c \in Callers |-> IF Parent[e] \in Opened(c) THEN anew[c] \cup {e} ELSE anew[c]]

\* A faulty variant: a directory that is there is a failure.
MakeStepOnlyNew(c) ==
  /\ pc[c] = "mkdir" /\ steps[c] # <<>>
  /\ LET e == Head(steps[c]) IN
     \/ /\ ~Exists(e) /\ CanHold(e)
        /\ Makes(e)
        /\ UNCHANGED <<ok, pc>>
     \/ /\ Exists(e) \/ ~CanHold(e)
        /\ Fail(c)
        /\ UNCHANGED <<disk, anew>>
  /\ steps' = Set(steps, c, Tail(steps[c]))
  /\ UNCHANGED <<env, call, stack, at, tree>>

\* mkdir: of EEXIST, whatever it is that exists, the loop takes no notice.
MakeStep(c) ==
  /\ pc[c] = "mkdir" /\ steps[c] # <<>>
  /\ LET e == Head(steps[c]) IN
     \/ /\ Lstat(e)
        /\ UNCHANGED <<disk, anew, ok, pc>>
     \/ /\ ~Exists(e) /\ CanHold(e)
        /\ Makes(e)
        /\ UNCHANGED <<ok, pc>>
     \/ /\ ~Lstat(e) /\ ~CanHold(e)
        /\ Fail(c)
        /\ UNCHANGED <<disk, anew>>
  /\ steps' = Set(steps, c, Tail(steps[c]))
  /\ UNCHANGED <<env, call, stack, at, tree>>

MakeDone(c) ==
  /\ pc[c] = "mkdir" /\ steps[c] = <<>>
  /\ pc' = Set(pc, c, "done")
  /\ UNCHANGED <<disk, env, call, ok, steps, stack, anew, at, tree>>

-----------------------------------------------------------------------------
(***************************************************************************)
(* PFRemoveFile and GetFileInfo: the walk.  readdir returns every entry    *)
(* that was there when the directory was opened, unless it went in the     *)
(* meantime, and may return what came in the meantime: also a directory    *)
(* that it returned before, when that one was removed and made again.      *)
(*                                                                         *)
(* Paths stand for files, so that a directory removed and made again under *)
(* a walk that has it open counts as the same, and a search, whose nodes   *)
(* are paths, is not given the same one twice.                             *)
(***************************************************************************)
Frame(d, entries, present) ==
  [dir |-> d, unread |-> entries, present |-> present, list |-> <<>>]

StartWalk(c) ==
  /\ pc[c] = "idle"
  /\ \E k \in Calls[c] :
       /\ k.op \in {"remove", "search"} /\ k.path # Top
       /\ call' = Set(call, c, k)
       /\ stack' = Set(stack, c, <<Frame(Top, {k.path}, {k.path})>>)
  /\ pc' = Set(pc, c, "read")
  /\ UNCHANGED <<disk, env, ok, steps, anew, at, tree>>

Removing(c)  == call[c].op = "remove"
Searching(c) == call[c].op = "search"
Inner(c)     == Last(stack[c])
AtRoot(c)    == Len(stack[c]) = 1

\* What came, or came again, since the innermost directory was opened.
Anew(c) == IF AtRoot(c) THEN {} ELSE anew[c] \cap ChildrenOf(Inner(c).dir)

\* What readdir may return next.
Returned(c) ==
  {e \in Inner(c).unread : e \in Inner(c).present \/ Exists(e)}
  \cup (IF Removing(c) THEN Anew(c) ELSE {})

\* A faulty variant: the entry is returned again.
ReadsAgain(c, e, list) ==
  /\ stack' = Set(stack, c, Append(Front(stack[c]), [Inner(c) EXCEPT !.list = list]))
  /\ UNCHANGED anew

\* The next entry is read; list is what the nodes of the directory are then.
\* Of one that was there at the opening, the one made since is yet to come.
Reads(c, e, list) ==
  /\ stack' = Set(stack, c, Append(Front(stack[c]),
               [Inner(c) EXCEPT !.unread = @ \ {e}, !.list = list]))
  /\ anew' = IF e \in Inner(c).unread \cap Inner(c).present THEN anew
             ELSE [anew EXCEPT ![c] = @ \ {e}]

\* The entry is gone, or cannot be looked at: a removal says so, unless it is
\* the path itself; a search leaves it out.
ReadGone(c) ==
  /\ pc[c] = "read"
  /\ \E e \in Returned(c) :
       /\ ~Lstat(e)
       /\ Reads(c, e, Inner(c).list)
       /\ ok' = Set(ok, c, ok[c] /\ (AtRoot(c) \/ Searching(c)))
  /\ UNCHANGED <<disk, env, call, pc, steps, at, tree>>

ReadToRemove(c) ==
  /\ pc[c] = "read" /\ Removing(c)
  /\ \E e \in Returned(c) :
       /\ Lstat(e)
       /\ Reads(c, e, Inner(c).list)
       /\ at' = Set(at, c, e)
       /\ pc' = Set(pc, c, IF IsDir(e) THEN "enter" ELSE "remove")
  /\ UNCHANGED <<disk, env, call, ok, steps, tree>>

\* A new node at the end of the list.
ReadToSearch(c) ==
  /\ pc[c] = "read" /\ Searching(c)
  /\ \E e \in Returned(c) :
       /\ Lstat(e)
       /\ Reads(c, e, Append(Inner(c).list, e))
       /\ size' = [size EXCEPT ![c] = With(@, e, StSize[e])]
       /\ read' = [read EXCEPT ![c] = With(@, e, <<>>)]
       /\ child' = [child EXCEPT ![c] = With(@, e, <<>>)]
       /\ at' = Set(at, c, e)
       /\ pc' = Set(pc, c, IF IsDir(e) THEN "enter" ELSE "read")
  /\ UNCHANGED <<disk, env, call, ok, steps>>

\* The call of the function for a directory: its own lstat, and opendir.
EnterOpens(c) ==
  LET d == at[c] IN
  /\ pc[c] = "enter"
  /\ Lstat(d) /\ d \notin fault.denied
  /\ stack' = Set(stack, c, Append(stack[c],
                Frame(d, ChildrenOf(IF disk[d] = "link" THEN Linked ELSE d), Listing(d))))
  /\ anew' = [anew EXCEPT ![c] = @ \ ChildrenOf(d)]
  /\ pc' = Set(pc, c, "read")
  /\ UNCHANGED <<disk, env, call, ok, steps, at, tree>>

\* The directory went in the meantime, which only opendir minds, or it cannot
\* be opened.
EnterFails(c) ==
  /\ pc[c] = "enter"
  /\ ~Lstat(at[c]) \/ at[c] \in fault.denied
  /\ \/ /\ Removing(c)
        /\ \E lstatFailed \in BOOLEAN :
             /\ lstatFailed => ~Lstat(at[c])
             /\ ok' = Set(ok, c, ok[c] /\ lstatFailed)
        /\ pc' = Set(pc, c, "rmdir")
     \/ /\ Searching(c)
        /\ pc' = Set(pc, c, "read")
        /\ UNCHANGED ok
  /\ UNCHANGED <<disk, env, call, steps, stack, anew, at, tree>>

\* A faulty variant: a directory is read until it is empty.
NothingLeft(c) == \A e \in ChildrenOf(Inner(c).dir) : ~Exists(e)

\* All that was there at the opening and has been since has been read.
ReadAll(c) == \A e \in (Inner(c).unread \cap Inner(c).present) \ Anew(c) : ~Exists(e)

\* The end of the directory in a removal: back to the call that removes it.
RemoveFrameEnds(c) ==
  /\ pc[c] = "read" /\ Removing(c) /\ ReadAll(c)
  /\ stack' = Set(stack, c, Front(stack[c]))
  /\ at' = Set(at, c, Inner(c).dir)
  /\ pc' = Set(pc, c, IF AtRoot(c) THEN "done" ELSE "rmdir")
  /\ UNCHANGED <<disk, env, call, ok, steps, anew, tree>>

\* A faulty variant: what is below the entries of a directory does not count.
TotalOfEntries(c) == MapThenSumSet(LAMBDA e : StSize[e], ToSet(Inner(c).list))

\* totalSize: the sizes of the nodes, which hold those of what is below them.
TotalSize(c) == MapThenSumSet(LAMBDA e : size[c][e], ToSet(Inner(c).list))

\* The end of the directory in a search: the list is sorted, and is the
\* children of the directory's node, or what GetFileInfo returns.
SearchFrameEnds(c) ==
  /\ pc[c] = "read" /\ Searching(c) /\ ReadAll(c)
  /\ stack' = Set(stack, c, Front(stack[c]))
  /\ LET d == Inner(c).dir
         sorted == SortList(call[c].sortMode, Inner(c).list)
     IN /\ read' = [read EXCEPT ![c] = With(@, d, Inner(c).list)]
        /\ child' = [child EXCEPT ![c] = With(@, d, sorted)]
        /\ size' = IF AtRoot(c) THEN size ELSE [size EXCEPT ![c][d] = @ + TotalSize(c)]
  /\ pc' = Set(pc, c, IF AtRoot(c) THEN "found" ELSE "read")
  /\ UNCHANGED <<disk, env, call, ok, steps, anew, at>>

\* remove and rmdir fail for what is gone, cannot be got at, or is not empty.
CanRemove(e) == Lstat(e) /\ e \notin fault.busy /\ \A x \in ChildrenOf(e) : ~Exists(x)

Removed(c, can) ==
  /\ disk' = IF can THEN [disk EXCEPT ![at[c]] = "none"] ELSE disk
  /\ ok' = Set(ok, c, ok[c] /\ can)
  /\ pc' = Set(pc, c, "read")
  /\ UNCHANGED <<env, call, steps, stack, anew, at, tree>>

RemoveEntry(c) == pc[c] = "remove" /\ Removed(c, CanRemove(at[c]))

\* A faulty variant: the result of rmdir is not looked at.
RemoveDirUnseen(c) ==
  /\ pc[c] = "rmdir"
  /\ LET can == CanRemove(at[c]) /\ disk[at[c]] = "dir" IN
     disk' = IF can THEN [disk EXCEPT ![at[c]] = "none"] ELSE disk
  /\ pc' = Set(pc, c, "read")
  /\ UNCHANGED <<env, call, ok, steps, stack, anew, at, tree>>

RemoveDir(c) ==
  pc[c] = "rmdir" /\ Removed(c, CanRemove(at[c]) /\ disk[at[c]] = "dir")

-----------------------------------------------------------------------------
(***************************************************************************)
(* FreeFileInfo: a node's children, then what follows it, then itself.     *)
(***************************************************************************)
\* A faulty variant: only the first child, and not what follows it.
FreedFirst(children) ==
  LET Freed[list \in Seq(DOMAIN children \ {Top})] ==
        IF list = <<>> THEN <<>> ELSE Append(Freed[children[Head(list)]], Head(list))
  IN Freed[children[Top]]

FreedNodes(children) ==
  LET Freed[list \in Seq(DOMAIN children \ {Top})] ==
        IF list = <<>> THEN <<>>
        ELSE Append(Freed[children[Head(list)]] \o Freed[Tail(list)], Head(list))
  IN Freed[children[Top]]

FreeFileInfo(c) ==
  /\ pc[c] = "found"
  /\ LET freed == ToSet(FreedNodes(child[c])) IN
     size' = [size EXCEPT ![c] = Restrict(@, DOMAIN @ \ freed)]
  /\ pc' = Set(pc, c, "done")
  /\ UNCHANGED <<disk, env, call, ok, steps, stack, anew, at, read, child>>

-----------------------------------------------------------------------------
Step(c) == \/ MakeStep(c) \/ MakeDone(c)
           \/ ReadGone(c) \/ ReadToRemove(c) \/ ReadToSearch(c)
           \/ EnterOpens(c) \/ EnterFails(c)
           \/ RemoveFrameEnds(c) \/ SearchFrameEnds(c)
           \/ RemoveEntry(c) \/ RemoveDir(c)
           \/ FreeFileInfo(c)

Next == \E c \in Callers :
          StartNothing(c) \/ StartMake(c) \/ StartWalk(c) \/ Step(c)

\* A thread that made a call is scheduled.
Spec == Init /\ [][Next]_vars /\ \A c \in Callers : WF_vars(Step(c))

-----------------------------------------------------------------------------
Kinds == {"none", "file", "dir", "link"}

(***************************************************************************)
(* The type of the state, with the form of the walk: no list of a search   *)
(* has an entry twice, every entry of it has its node, and a directory is  *)
(* open only after its entry was read.                                     *)
(***************************************************************************)
TypeOK ==
  /\ disk \in [Paths -> Kinds] /\ disk0 \in [Paths -> Kinds]
  /\ fault \in [denied : SUBSET Paths, busy : SUBSET Paths]
  /\ \A c \in Callers : call[c] \in Calls[c] \cup {NoCall}
  /\ pc \in [Callers -> {"idle", "mkdir", "read", "enter", "remove", "rmdir", "found", "done"}]
  /\ ok \in [Callers -> BOOLEAN]
  /\ at \in [Callers -> Paths \cup {Top}]
  /\ anew \in [Callers -> SUBSET Paths]
  /\ \A c \in Callers :
       /\ ToSet(steps[c]) \subseteq Paths
       /\ DOMAIN size[c] \subseteq Paths
       /\ \A i \in DOMAIN stack[c] :
            LET f == stack[c][i] IN
            /\ IsInjective(f.list)
            /\ Searching(c) => ToSet(f.list) \subseteq DOMAIN size[c]
            /\ ToSet(f.list) \cap f.unread = {}
            /\ i > 1 => f.dir \notin stack[c][i - 1].unread

\* Neither makes nor removes anything.
Others(c, ops) == \E o \in Callers \ {c} : call[o].op \in ops

Alone(c) == ~Others(c, {"make", "parent", "remove"})

Done(c, ops) == pc[c] = "done" /\ call[c].op \in ops /\ call[c].path # Top

(***************************************************************************)
(* PFRemoveFile returns 0 only when nothing is left of what could be seen, *)
(* whoever else removes the same or a part of it, unless somebody makes    *)
(* directories there; and it does return 0 when nobody and nothing is in   *)
(* its way, whatever the order in which readdir returns the entries.       *)
(***************************************************************************)
RemoveOkMeansGone ==
  \A c \in Callers :
    Done(c, {"remove"}) =>
      /\ ok[c] /\ Visible(call[c].path) /\ ~Others(c, {"make", "parent"})
           => \A x \in Under(call[c].path) : ~Exists(x)
      /\ Alone(c) /\ fault.denied = {} /\ fault.busy = {} => ok[c]

\* No part of the path but the last is something else than a directory, and
\* every part can be got at.
NothingInTheWay(k) ==
  /\ k.path \notin TooLong
  /\ \A x \in ToSet(DirsToMake(k)) :
       Visible(x) /\ (Parent[x] = Top \/ disk0[Parent[x]] \in {"none", "dir"})

(***************************************************************************)
(* PFMakeDirectory returns 0 exactly when nothing is in the way: threads   *)
(* that make the same directories do not disturb each other (EEXIST is no  *)
(* failure).  Everything on the path exists then, the last part as         *)
(* whatever it was, and PFMakeParentDirectory has not made the path.       *)
(***************************************************************************)
MakeOkMeansMade ==
  \A c \in Callers :
    Done(c, {"make", "parent"}) /\ ~Others(c, {"remove"}) =>
      /\ ok[c] <=> NothingInTheWay(call[c])
      /\ ok[c] => \A x \in ToSet(DirsToMake(call[c])) :
                   Exists(x) /\ (Parent[x] = Top \/ disk[Parent[x]] = "dir")
      /\ call[c].op = "parent" /\ Alone(c) => disk[call[c].path] = disk0[call[c].path]

(***************************************************************************)
(* A removal leaves alone, and a search leaves out, what is not below the  *)
(* path, also where a symbolic link below it leads.                        *)
(***************************************************************************)
OthersSpared ==
  /\ \A x \in Paths :
       disk0[x] # "none" /\ ~Exists(x) =>
         \E c \in Callers : Removing(c) /\ x \in Under(call[c].path)
  /\ \A c \in Callers : Searching(c) => DOMAIN size[c] \subseteq Under(call[c].path)

\* The nodes that can be reached from what GetFileInfo returned.
Reached(c) ==
  LET Below[list \in Seq(DOMAIN child[c] \ {Top})] ==
        IF list = <<>> THEN {}
        ELSE {Head(list)} \cup Below[child[c][Head(list)]] \cup Below[Tail(list)]
  IN Below[child[c][Top]]

(***************************************************************************)
(* The search finds all there is that can be seen, when nobody changes it  *)
(* meanwhile: neither the merge of the sort nor a directory that cannot be *)
(* opened loses what comes after it.                                       *)
(***************************************************************************)
SearchFindsAll ==
  \A c \in Callers :
    pc[c] = "found" /\ Alone(c) =>
      Reached(c) = {x \in Under(call[c].path) : Lstat(x)}

(***************************************************************************)
(* The size of a node is its own and that of all nodes below it, the size  *)
(* the clearing of the logs counts on, also when the disk changes during   *)
(* the search.                                                             *)
(***************************************************************************)
SizesAddUp ==
  \A c \in Callers : pc[c] = "found" =>
    \A e \in DOMAIN size[c] :
      size[c][e] = MapThenSumSet(LAMBDA x : StSize[x], DOMAIN size[c] \cap Under(e))

(***************************************************************************)
(* Every list is in the order asked for, the nodes that are equal in the   *)
(* reverse of the order in which they were read; of a mode that is unknown *)
(* or none it is as it was read.                                           *)
(***************************************************************************)
ListSorted(mode, before, after) ==
  LET Place(e) == CHOOSE i \in DOMAIN before : before[i] = e
      Key(e) == IF mode = "name" THEN Name[e] ELSE Time[e]
  IN /\ ToSet(after) = ToSet(before) /\ Len(after) = Len(before)
     /\ mode \notin {"name", "time"} => after = before
     /\ mode \in {"name", "time"} => \A i, j \in DOMAIN after :
          i < j => \/ Key(after[i]) < Key(after[j])
                   \/ /\ Key(after[i]) = Key(after[j])
                      /\ Place(after[i]) > Place(after[j])

ListsSorted ==
  \A c \in Callers : pc[c] = "found" =>
    \A d \in DOMAIN child[c] : ListSorted(call[c].sortMode, read[c][d], child[c][d])

(***************************************************************************)
(* FreeFileInfo frees every node of a search, and none of them twice.      *)
(***************************************************************************)
AllNodesFreed ==
  \A c \in Callers :
    /\ pc[c] = "done" => size[c] = <<>>
    /\ pc[c] = "found" => IsInjective(FreedNodes(child[c]))

(***************************************************************************)
(* Every call returns, whatever the others do to the disk meanwhile.       *)
(***************************************************************************)
CallsReturn == \A c \in Callers : pc[c] # "idle" ~> pc[c] = "done"
=============================================================================
