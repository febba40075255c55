------------------------------ MODULE LogClear ------------------------------
(***************************************************************************)
(* The periodic clearing of the log directory (Log/PlatformLog.cpp, DoClear*)
(* and ClearLog), run by the work thread between two batches with its own  *)
(* file closed.                                                            *)
(*                                                                         *)
(* GetFileInfo gives a tree of entries, the children of a directory sorted *)
(* from the least to the most recently modified, the size of a directory   *)
(* being its own and that of all it holds.  ClearLog walks the tree:       *)
(* whatever is smaller than what is still to be cleared is removed, a      *)
(* directory that is not is entered.  Its recursion is unfolded into the   *)
(* list of entries still to be visited.                                    *)
(***************************************************************************)
EXTENDS Integers, Sequences, FiniteSetsExt, SequencesExt

CONSTANTS Entries,   \* the files and directories under _logPath, and itself
          Dirs,      \* the directories among them
          Root,      \* _logPath
          Parent,    \* the directory each other entry is in
          Sizes,     \* what st_size may be
          MaxSize    \* _maxSize, in the unit of Sizes

ASSUME LogClearAssumption ==
  /\ IsFiniteSet(Entries)
  /\ Dirs \subseteq Entries
  /\ Root \in Dirs
  /\ Parent \in [Entries \ {Root} -> Dirs]
  \* Every set of entries has one that is in none of the others: a tree.
  /\ \A S \in SUBSET (Entries \ {Root}) : S # {} => \E e \in S : Parent[e] \notin S
  /\ Sizes \subseteq Nat
  /\ MaxSize \in Nat

VARIABLES stSize,     \* st_size of each entry
          order,      \* the children of each directory, least recent first
          onDisk,     \* the entries that exist
          todo,       \* the nodes ClearLog has yet to visit, next one first
          clearSize,  \* clearSize, passed by reference down the recursion
          freed,      \* what was subtracted from clearSize so far
          removed,    \* the nodes PFRemoveFile was called for
          failed,     \* those of them that did not go entirely
          pc          \* "start", "clear" or "done"

disk == <<stSize, order>>
vars == <<disk, onDisk, todo, clearSize, freed, removed, failed, pc>>

\* The directories an entry is in, with the entry itself.
Path[e \in Entries] == IF e = Root THEN {e} ELSE {e} \cup Path[Parent[e]]

Under(e) == {x \in Entries : e \in Path[x]}

\* SPlatformFileInfo.size, as SearchFileInfo adds it up.
Size(e) == MapThenSumSet(LAMBDA x : stSize[x], Under(e))

SizeOnDisk == MapThenSumSet(LAMBDA x : stSize[x], onDisk)

ChildrenOf(d) == {x \in Entries \ {Root} : Parent[x] = d}

-----------------------------------------------------------------------------
Init == /\ stSize \in [Entries -> Sizes]
        /\ order \in {o \in [Dirs -> UNION {SetToSeqs(ChildrenOf(d)) : d \in Dirs}] :
                        \A d \in Dirs : ToSet(o[d]) = ChildrenOf(d)}
        /\ onDisk = Entries
        /\ todo = <<>>
        /\ clearSize = 0
        /\ freed = 0
        /\ removed = {} /\ failed = {}
        /\ pc = "start"

\* A faulty variant: clears down to one tenth of the maximum.
ExcessOverTenth == Size(Root) - MaxSize \div 10

\* What is to be cleared when there is more than _maxSize: down to 8/10.
Excess == Size(Root) - (MaxSize \div 10) * 8

DoClear ==
  /\ pc = "start"
  /\ \/ /\ Size(Root) > MaxSize
        /\ clearSize' = Excess
        /\ todo' = <<Root>>
        /\ pc' = "clear"
     \/ /\ pc' = "done"      \* small enough, or GetFileInfo failed
        /\ UNCHANGED <<clearSize, todo>>
  /\ UNCHANGED <<disk, onDisk, freed, removed, failed>>

\* A faulty variant: an entry that is as large as what is left goes too.
FitsExactly(e) == Size(e) <= clearSize

Fits(e) == Size(e) < clearSize

\* A faulty variant: the most recent children are visited first.
NewestFirst(d) == Reverse(order[d])

\* A faulty variant: the last child of a directory is not visited.
AllButLast(d) == Front(order[d])

Children(d) == order[d]

\* PFRemoveFile: all goes, or some of it stays; with a directory or file that
\* stays, so do the directories it is in.
RemoveFile(e) ==
  \/ /\ onDisk' = onDisk \ Under(e)
     /\ UNCHANGED failed
  \/ \E stays \in SUBSET Under(e) :
       /\ stays # {}
       /\ \A x \in stays : Path[x] \cap Under(e) \subseteq stays
       /\ onDisk' = (onDisk \ Under(e)) \cup stays
       /\ failed' = failed \cup {e}

\* The result of PFRemoveFile is not looked at: the size counts as cleared.
ClearRemove ==
  /\ pc = "clear" /\ todo # <<>>
  /\ LET e == Head(todo) IN
     /\ Fits(e)
     /\ RemoveFile(e)
     /\ removed' = removed \cup {e}
     /\ clearSize' = clearSize - Size(e)
     /\ freed' = freed + Size(e)
  /\ todo' = Tail(todo)
  /\ UNCHANGED <<disk, pc>>

ClearEnter ==
  /\ pc = "clear" /\ todo # <<>>
  /\ Head(todo) \in Dirs
  /\ ~Fits(Head(todo))
  /\ todo' = Children(Head(todo)) \o Tail(todo)
  /\ UNCHANGED <<disk, onDisk, clearSize, freed, removed, failed, pc>>

\* A faulty variant: the walk does not go on to the next entry.
ClearPassStays ==
  /\ pc = "clear" /\ todo # <<>>
  /\ Head(todo) \notin Dirs
  /\ ~Fits(Head(todo))
  /\ UNCHANGED vars

ClearPass ==
  /\ pc = "clear" /\ todo # <<>>
  /\ Head(todo) \notin Dirs
  /\ ~Fits(Head(todo))
  /\ todo' = Tail(todo)
  /\ UNCHANGED <<disk, onDisk, clearSize, freed, removed, failed, pc>>

ClearDone ==
  /\ pc = "clear" /\ todo = <<>>
  /\ pc' = "done"
  /\ UNCHANGED <<disk, onDisk, todo, clearSize, freed, removed, failed>>

Next == DoClear \/ ClearRemove \/ ClearEnter \/ ClearPass \/ ClearDone

Spec == Init /\ [][Next]_vars /\ WF_vars(Next)

-----------------------------------------------------------------------------
(***************************************************************************)
(* clearSize, a size_t that is decremented, never passes below zero, and   *)
(* never gets to zero: the clearing always leaves more than 8/10 of        *)
(* _maxSize on the disk, whatever the sizes and the order of the entries.  *)
(***************************************************************************)
ClearSizePositive ==
  /\ pc = "clear" => clearSize > 0
  /\ SizeOnDisk < Size(Root) => SizeOnDisk > (MaxSize \div 10) * 8

(***************************************************************************)
(* The clearing is as complete as its target lets it be: no entry that is  *)
(* left would still have been small enough to go.                          *)
(***************************************************************************)
NothingLeftFits ==
  pc = "done" /\ removed # {} /\ failed = {} =>
    \A e \in onDisk : Size(e) >= clearSize

(***************************************************************************)
(* A more recent entry goes before an older one of the same directory only *)
(* when it is smaller than the older one that stays.                       *)
(***************************************************************************)
NewerGoesOnlyIfSmaller ==
  \A d \in Dirs : \A i, j \in DOMAIN order[d] :
    /\ pc = "done"
    /\ i < j
    /\ order[d][j] \in removed
    /\ d \in onDisk
    => order[d][i] \in removed \/ Size(order[d][i]) > Size(order[d][j])

(***************************************************************************)
(* The walk over the tree ends.                                            *)
(***************************************************************************)
ClearEnds == <>(pc = "done")
=============================================================================
