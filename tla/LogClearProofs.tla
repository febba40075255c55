--------------------------- MODULE LogClearProofs ---------------------------
(***************************************************************************)
(* The clearing of the log directory, for every directory tree, all sizes  *)
(* and orders of its entries, every _maxSize, and removals that fail.      *)
(***************************************************************************)
EXTENDS LogClear, RecursionLemmas, SequenceTheorems

-----------------------------------------------------------------------------
(* The inductive invariant. *)

Typed ==
  /\ stSize \in [Entries -> Nat]
  /\ \A d \in Dirs : /\ order[d] \in Seq(Entries)
                     /\ ToSet(order[d]) = ChildrenOf(d)
                     /\ IsInjective(order[d])
  /\ onDisk \subseteq Entries
  /\ todo \in Seq(Entries)
  /\ clearSize \in Nat /\ freed \in Nat
  /\ removed \subseteq Entries /\ failed \subseteq Entries
  /\ pc \in {"start", "clear", "done"}
  /\ pc # "clear" => todo = <<>>
  /\ pc = "start" => removed = {} /\ freed = 0

\* What went is accounted for, and comes off what is to be cleared.
Accounted ==
  /\ Size(Root) <= SizeOnDisk + freed
  /\ freed > 0 \/ pc = "clear" => clearSize > 0 /\ freed + clearSize = Excess

\* No entry is yet to be visited twice, on its own or with a directory.
VisitedOnce ==
  \A p, q \in DOMAIN todo : p # q => todo[p] \notin Under(todo[q])

\* The entries of a directory are yet to be visited in their order ...
InOrder ==
  \A p, q \in DOMAIN todo : \A d \in Dirs : \A i, j \in DOMAIN order[d] :
    todo[p] = order[d][i] /\ todo[q] = order[d][j] /\ i < j => p < q

\* ... and all of them together.
WithSiblings ==
  \A c, e \in Entries \ {Root} :
    Parent[c] = Parent[e] /\ c \in ToSet(todo) \cup removed =>
      e \in ToSet(todo) \cup removed \/ Size(e) >= clearSize

\* Whatever is left is yet to be visited, or too large.
Covered ==
  failed = {} /\ (removed # {} \/ pc = "clear") =>
    \A e \in onDisk : \/ \E p \in DOMAIN todo : e \in Under(todo[p])
                      \/ Size(e) >= clearSize

\* NewerGoesOnlyIfSmaller, at every moment of the walk.
OlderFirst ==
  \A d \in Dirs : \A i, j \in DOMAIN order[d] :
    i < j /\ order[d][j] \in removed =>
      order[d][i] \in removed \/ Size(order[d][i]) > Size(order[d][j])

ClearInv == /\ Typed /\ Accounted /\ VisitedOnce /\ InOrder
            /\ WithSiblings /\ Covered /\ OlderFirst

-----------------------------------------------------------------------------
(* The tree. *)

\* Induction from the root to the leaves.
LEMMA TreeInduction ==
  ASSUME NEW T, Root \in T,
         \A e \in Entries \ {Root} : Parent[e] \in T => e \in T
  PROVE  Entries \subseteq T
<1> DEFINE S == (Entries \ {Root}) \ T
<1> SUFFICES ASSUME S # {} PROVE FALSE
  OBVIOUS
<1>1. PICK e \in S : Parent[e] \notin S
  BY LogClearAssumption
<1>2. Parent[e] \in Entries
  BY LogClearAssumption
<1> QED
  BY <1>1, <1>2

\* What Path says of itself: it is the least set with e that is closed under
\* going to the parent.
LEMMA PathDefined ==
  /\ Path[Root] = {Root}
  /\ \A e \in Entries \ {Root} : Path[e] = {e} \cup Path[Parent[e]]
<1> DEFINE Up(S) == \A y \in S \ {Root} : Parent[y] \in S
           Least(e) == {x \in Entries : \A S \in SUBSET Entries : e \in S /\ Up(S) => x \in S}
           g == [e \in Entries |-> Least(e)]
<1>1. Least(Root) = {Root}
  <2>1. {Root} \in SUBSET Entries /\ Up({Root})
    BY LogClearAssumption
  <2> QED
    BY <2>1, LogClearAssumption
<1>2. ASSUME NEW e \in Entries \ {Root}
      PROVE  Least(e) = {e} \cup Least(Parent[e])
  <2>1. Parent[e] \in Entries
    BY LogClearAssumption
  <2>2. ASSUME NEW S \in SUBSET Entries, e \in S, Up(S)
        PROVE  Parent[e] \in S
    BY <2>2
  <2>3. ASSUME NEW S \in SUBSET Entries, Parent[e] \in S, Up(S)
        PROVE  S \cup {e} \in SUBSET Entries /\ Up(S \cup {e})
    BY <2>3
  <2>4. Least(e) \subseteq {e} \cup Least(Parent[e])
    BY <2>3
  <2>5. {e} \cup Least(Parent[e]) \subseteq Least(e)
    BY <2>2
  <2> QED
    BY <2>4, <2>5
<1>3. g = [e \in Entries |-> IF e = Root THEN {e} ELSE {e} \cup g[Parent[e]]]
  <2> HIDE DEF Least
  <2>1. \A e \in Entries \ {Root} : Parent[e] \in Entries
    BY LogClearAssumption
  <2> QED
    BY <1>1, <1>2, <2>1
<1> HIDE DEF g
<1>4. Path = [e \in Entries |-> IF e = Root THEN {e} ELSE {e} \cup Path[Parent[e]]]
  BY <1>3 DEF Path
<1> QED
  BY <1>4, LogClearAssumption

LEMMA PathTyped ==
  \A e \in Entries : /\ Path[e] \subseteq Entries
                     /\ e \in Path[e] /\ Root \in Path[e]
<1> DEFINE T == {e \in Entries : Path[e] \subseteq Entries /\ e \in Path[e] /\ Root \in Path[e]}
<1>1. Root \in T
  BY PathDefined, LogClearAssumption
<1>2. \A e \in Entries \ {Root} : Parent[e] \in T => e \in T
  BY PathDefined
<1> HIDE DEF T
<1>3. Entries \subseteq T
  BY <1>1, <1>2, TreeInduction
<1> QED
  BY <1>3 DEF T

LEMMA PathTransitive ==
  \A x \in Entries : \A y \in Path[x] : Path[y] \subseteq Path[x]
<1> DEFINE T == {x \in Entries : \A y \in Path[x] : Path[y] \subseteq Path[x]}
<1>1. Root \in T
  BY PathDefined, LogClearAssumption
<1>2. \A e \in Entries \ {Root} : Parent[e] \in T => e \in T
  BY PathDefined
<1> HIDE DEF T
<1>3. Entries \subseteq T
  BY <1>1, <1>2, TreeInduction
<1> QED
  BY <1>3 DEF T

\* No directory is in itself.
LEMMA PathAcyclic ==
  \A e \in Entries \ {Root} : e \notin Path[Parent[e]]
<1> SUFFICES ASSUME NEW e \in Entries \ {Root}, e \in Path[Parent[e]]
             PROVE  FALSE
  OBVIOUS
<1> DEFINE S == {z \in Path[e] : e \in Path[z]}
<1>1. e \in S /\ S \subseteq Entries /\ Root \notin S
  BY PathTyped, PathDefined
<1>2. ASSUME NEW z \in S
      PROVE  Parent[z] \in S
  <2>1. z \in Entries \ {Root} /\ Parent[z] \in Entries
    BY <1>1, LogClearAssumption
  <2>2. Parent[z] \in Path[z] /\ Path[z] \subseteq Path[e]
    BY <1>2, <2>1, PathTyped, PathDefined, PathTransitive
  <2>3. e \in Path[Parent[z]]
    BY <2>1, PathDefined
  <2> QED
    BY <2>2, <2>3
<1> HIDE DEF S
<1>3. S \in SUBSET (Entries \ {Root}) /\ S # {}
  BY <1>1
<1>4. \E z \in S : Parent[z] \notin S
  BY <1>3, LogClearAssumption
<1> QED
  BY <1>2, <1>4

LEMMA PathAntisymmetric ==
  \A x, y \in Entries : x \in Path[y] /\ y \in Path[x] => x = y
<1> SUFFICES ASSUME NEW x \in Entries, NEW y \in Entries,
                    x \in Path[y], y \in Path[x], x # y
             PROVE  FALSE
  OBVIOUS
<1>1. y # Root /\ Parent[y] \in Entries
  BY PathDefined, LogClearAssumption
<1>2. x \in Path[Parent[y]]
  BY <1>1, PathDefined
<1>3. y \in Path[Parent[y]]
  BY <1>1, <1>2, PathTransitive
<1> QED
  BY <1>1, <1>3, PathAcyclic

\* Of two directories an entry is in, one is in the other.
LEMMA PathLinear ==
  \A x \in Entries : \A y, z \in Path[x] : y \in Path[z] \/ z \in Path[y]
<1> DEFINE T == {x \in Entries : \A y, z \in Path[x] : y \in Path[z] \/ z \in Path[y]}
<1>1. Root \in T
  BY PathDefined, LogClearAssumption
<1>2. \A e \in Entries \ {Root} : Parent[e] \in T => e \in T
  BY PathDefined, PathTyped
<1> HIDE DEF T
<1>3. Entries \subseteq T
  BY <1>1, <1>2, TreeInduction
<1> QED
  BY <1>3 DEF T

\* What is in a directory is in one of its entries.
LEMMA UnderChild ==
  ASSUME NEW d \in Entries, NEW x \in Under(d), x # d
  PROVE  \E c \in ChildrenOf(d) : x \in Under(c)
<1> DEFINE T == {y \in Entries : \/ y = d \/ d \notin Path[y]
                                 \/ \E c \in ChildrenOf(d) : c \in Path[y]}
<1>1. Root \in T
  BY PathDefined, LogClearAssumption
<1>2. ASSUME NEW e \in Entries \ {Root}, Parent[e] \in T
      PROVE  e \in T
  <2>1. Path[e] = {e} \cup Path[Parent[e]]
    BY PathDefined
  <2>2. CASE Parent[e] = d
    BY <2>1, <2>2 DEF ChildrenOf
  <2>3. CASE Parent[e] # d
    BY <1>2, <2>1, <2>3
  <2> QED
    BY <2>2, <2>3
<1> HIDE DEF T
<1>3. Entries \subseteq T
  BY <1>1, <1>2, TreeInduction
<1> QED
  BY <1>3 DEF T, Under

LEMMA ChildUnder ==
  ASSUME NEW d \in Entries, NEW c \in ChildrenOf(d)
  PROVE  /\ c \in Entries \ {Root} /\ Parent[c] = d
         /\ Path[c] = {c} \cup Path[d]
         /\ c # d /\ c \in Under(d) /\ Under(c) \subseteq Under(d)
<1>1. c \in Entries \ {Root} /\ Parent[c] = d
  BY DEF ChildrenOf
<1>2. Path[c] = {c} \cup Path[d]
  BY <1>1, PathDefined
<1>3. c # d /\ d \in Path[d]
  BY <1>1, PathAcyclic, PathTyped
<1>4. c \in Under(d)
  BY <1>1, <1>2, <1>3 DEF Under
<1>5. Under(c) \subseteq Under(d)
  BY <1>1, <1>2, <1>3, PathTransitive DEF Under
<1> QED
  BY <1>1, <1>2, <1>3, <1>4, <1>5

LEMMA AllUnderRoot ==
  Under(Root) = Entries
  BY PathTyped DEF Under

-----------------------------------------------------------------------------
(* The sizes. *)

LEMMA SizesAreSums ==
  ASSUME Typed
  PROVE  /\ \A e \in Entries : Size(e) = Sum(stSize, Under(e)) /\ Size(e) \in Nat
         /\ SizeOnDisk = Sum(stSize, onDisk) /\ SizeOnDisk \in Nat
<1>1. \A S \in SUBSET Entries : Sum(stSize, S) \in Nat
  <2> TAKE S \in SUBSET Entries
  <2>1. IsFiniteSet(S) /\ \A x \in S : stSize[x] \in Nat
    BY LogClearAssumption, FS_Subset DEF Typed
  <2> QED
    BY <2>1, SumTyped
<1>2. \A e \in Entries : Under(e) \in SUBSET Entries
  BY DEF Under
<1> QED
  BY <1>1, <1>2 DEF Size, SizeOnDisk, Sum, Typed

LEMMA SizesUnchanged ==
  ASSUME UNCHANGED disk
  PROVE  \A e : Size(e)' = Size(e)
  BY DEF disk, Size, MapThenSumSet, MapThenFoldSet

LEMMA DiskLosesAtMost ==
  ASSUME Typed, Typed', UNCHANGED disk, NEW e \in Entries, RemoveFile(e)
  PROVE  /\ SizeOnDisk \in Nat /\ SizeOnDisk' \in Nat
         /\ SizeOnDisk <= SizeOnDisk' + Size(e)
<1>1. onDisk \in SUBSET (onDisk' \cup Under(e))
  BY DEF RemoveFile
<1>2. IsFiniteSet(onDisk') /\ IsFiniteSet(Under(e))
  BY LogClearAssumption, FS_Subset DEF Typed, Under
<1>3. \A x \in onDisk' \cup Under(e) : stSize[x] \in Nat
  BY DEF Typed, Under
<1>4. Sum(stSize, onDisk) <= Sum(stSize, onDisk') + Sum(stSize, Under(e))
  BY <1>1, <1>2, <1>3, SumOfCover
<1>5. SizeOnDisk' = Sum(stSize, onDisk')
  BY DEF SizeOnDisk, Sum, disk, MapThenSumSet, MapThenFoldSet
<1>6. Sum(stSize, onDisk') \in Nat
  BY <1>2, SumTyped DEF Typed, disk
<1> QED
  BY <1>4, <1>5, <1>6, SizesAreSums

-----------------------------------------------------------------------------
(* The steps. *)

LEMMA ClearInit ==
  ASSUME Init
  PROVE  ClearInv
<1>1. ASSUME NEW d \in Dirs
      PROVE  order[d] \in Seq(Entries) /\ IsInjective(order[d])
  <2>1. PICK d2 \in Dirs : order[d] \in SetToSeqs(ChildrenOf(d2))
    BY <1>1 DEF Init
  <2>2. Cardinality(ChildrenOf(d2)) \in Nat /\ ChildrenOf(d2) \subseteq Entries
    BY LogClearAssumption, FS_Subset, FS_CardinalityType DEF ChildrenOf
  <2>3. order[d] \in [1 .. Cardinality(ChildrenOf(d2)) -> Entries]
    BY <2>1, <2>2 DEF SetToSeqs
  <2>4. order[d] \in Seq(Entries)
    BY <2>2, <2>3, SeqDef
  <2>5. IsInjective(order[d])
    BY <2>1 DEF SetToSeqs, IsInjective
  <2> QED
    BY <2>4, <2>5
<1>2. stSize \in [Entries -> Nat]
  BY LogClearAssumption DEF Init
<1>3. Typed
  BY <1>1, <1>2, EmptySeq DEF Init, Typed
<1>4. Size(Root) = SizeOnDisk
  BY <1>3, SizesAreSums, AllUnderRoot, LogClearAssumption DEF Init
<1>5. Accounted
  BY <1>3, <1>4, SizesAreSums DEF Init, Accounted
<1> QED
  BY <1>3, <1>5, EmptySeq
     DEF Init, ClearInv, VisitedOnce, InOrder, WithSiblings, Covered, OlderFirst, ToSet

LEMMA DoClearKeeps ==
  ASSUME ClearInv, DoClear
  PROVE  ClearInv'
<1>1. UNCHANGED <<disk, stSize, order, onDisk, freed, removed, failed>>
      /\ todo = <<>> /\ pc = "start"
  BY DEF DoClear, disk, ClearInv, Typed
<1>2. (\A e : Size(e)' = Size(e)) /\ SizeOnDisk' = SizeOnDisk
  BY <1>1, SizesUnchanged DEF SizeOnDisk, disk, MapThenSumSet, MapThenFoldSet
<1>3. Size(Root) \in Nat /\ SizeOnDisk \in Nat /\ Root \in Entries
  BY SizesAreSums, LogClearAssumption DEF ClearInv
<1>4. MaxSize \in Nat /\ MaxSize \div 10 \in Nat /\ (MaxSize \div 10) * 8 <= MaxSize
  BY LogClearAssumption
<1>5. CASE pc' = "done" /\ UNCHANGED <<clearSize, todo>>
  <2>1. Typed' /\ Accounted'
    BY <1>1, <1>2, <1>5 DEF ClearInv, Typed, Accounted, Excess, ChildrenOf
  <2>2. VisitedOnce' /\ InOrder' /\ WithSiblings' /\ OlderFirst'
    BY <1>1, <1>2, <1>5
       DEF ClearInv, VisitedOnce, InOrder, WithSiblings, OlderFirst, Under
  <2>3. Covered'
    BY <1>1, <1>2, <1>5 DEF ClearInv, Covered, Under
  <2> QED
    BY <2>1, <2>2, <2>3 DEF ClearInv
<1>6. CASE Size(Root) > MaxSize /\ clearSize' = Excess /\ todo' = <<Root>> /\ pc' = "clear"
  <2>1. clearSize' \in Nat /\ clearSize' > 0
    BY <1>3, <1>4, <1>6 DEF Excess
  <2>2. todo' \in Seq(Entries) /\ DOMAIN todo' = {1} /\ todo'[1] = Root
    BY <1>3, <1>6
  <2>3. removed = {} /\ freed = 0
    BY <1>1 DEF ClearInv, Typed
  <2>4. Typed'
    BY <1>1, <1>6, <2>1, <2>2 DEF ClearInv, Typed, ChildrenOf
  <2>5. Accounted'
    BY <1>1, <1>2, <1>3, <1>4, <1>6, <2>1, <2>3 DEF ClearInv, Accounted, Excess
  <2>6. ToSet(todo') = {Root}
    BY <2>2 DEF ToSet
  <2>7. VisitedOnce' /\ OlderFirst'
    BY <1>1, <2>2, <2>3 DEF VisitedOnce, OlderFirst
  <2>8. InOrder'
    <3>1. \A d \in Dirs : \A i \in DOMAIN order[d] : order[d][i] # Root
      <4>1. ASSUME NEW d \in Dirs, NEW i \in DOMAIN order[d]
            PROVE  order[d][i] \in ChildrenOf(d)
        BY DEF ClearInv, Typed, ToSet
      <4> QED
        BY <4>1 DEF ChildrenOf
    <3> QED
      BY <1>1, <2>2, <3>1 DEF InOrder
  <2>9. WithSiblings'
    BY <1>1, <2>3, <2>6 DEF WithSiblings
  <2>10. Covered'
    BY <1>1, <2>2, AllUnderRoot DEF Covered, ClearInv, Typed, Under
  <2> QED
    BY <2>4, <2>5, <2>7, <2>8, <2>9, <2>10 DEF ClearInv
<1> QED
  BY <1>5, <1>6 DEF DoClear

\* Once the head is visited, what is left of the walk is as before.
LEMMA TailOfWalk ==
  ASSUME Typed, todo # <<>>, todo' = Tail(todo)
  PROVE  /\ Head(todo) \in Entries /\ Head(todo) = todo[1] /\ 1 \in DOMAIN todo
         /\ todo' \in Seq(Entries)
         /\ \A p \in DOMAIN todo' : p \in Nat \ {0} /\ p + 1 \in DOMAIN todo
                                    /\ todo'[p] = todo[p + 1]
         /\ ToSet(todo) = {Head(todo)} \cup ToSet(todo')
<1>1. todo \in Seq(Entries) /\ Len(todo) \in Nat \ {0} /\ DOMAIN todo = 1 .. Len(todo)
  BY EmptySeq DEF Typed
<1>2. /\ todo' \in Seq(Entries) /\ Len(todo') = Len(todo) - 1
      /\ \A p \in 1 .. Len(todo') : todo'[p] = todo[p + 1]
      /\ Head(todo) = todo[1] /\ Head(todo) \in Entries
  BY <1>1, HeadTailProperties
<1>3. DOMAIN todo' = 1 .. Len(todo) - 1
  BY <1>2, LenProperties
<1>4. ToSet(todo) \subseteq {Head(todo)} \cup ToSet(todo')
  <2> SUFFICES ASSUME NEW p \in DOMAIN todo, p # 1
               PROVE  todo[p] \in ToSet(todo')
    BY <1>2 DEF ToSet
  <2>1. p - 1 \in DOMAIN todo' /\ todo'[p - 1] = todo[p]
    BY <1>1, <1>2, <1>3
  <2> QED
    BY <2>1 DEF ToSet
<1>5. {Head(todo)} \cup ToSet(todo') \subseteq ToSet(todo)
  BY <1>1, <1>2, <1>3 DEF ToSet
<1> QED
  BY <1>1, <1>2, <1>3, <1>4, <1>5

LEMMA TailInOrder ==
  ASSUME ClearInv, todo # <<>>, todo' = Tail(todo), UNCHANGED disk
  PROVE  VisitedOnce' /\ InOrder'
<1>1. \A p \in DOMAIN todo' : p \in Nat /\ p + 1 \in DOMAIN todo /\ todo'[p] = todo[p + 1]
  BY TailOfWalk DEF ClearInv
<1>2. VisitedOnce'
  <2> SUFFICES ASSUME NEW p \in DOMAIN todo', NEW q \in DOMAIN todo', p # q
               PROVE  todo'[p] \notin Under(todo'[q])
    BY DEF VisitedOnce, Under
  <2>1. p + 1 # q + 1
    BY <1>1
  <2> QED
    BY <1>1, <2>1 DEF ClearInv, VisitedOnce
<1>3. InOrder'
  <2> SUFFICES ASSUME NEW p \in DOMAIN todo', NEW q \in DOMAIN todo',
                      NEW d \in Dirs, NEW i \in DOMAIN order[d], NEW j \in DOMAIN order[d],
                      todo'[p] = order[d][i], todo'[q] = order[d][j], i < j
               PROVE  p < q
    BY DEF InOrder, disk
  <2>1. p + 1 < q + 1
    BY <1>1 DEF ClearInv, InOrder
  <2> QED
    BY <1>1, <2>1
<1> QED
  BY <1>2, <1>3

LEMMA PassKeeps ==
  ASSUME ClearInv, ClearPass
  PROVE  ClearInv'
<1>1. /\ UNCHANGED <<disk, stSize, order, onDisk, clearSize, freed, removed, failed, pc>>
      /\ todo # <<>> /\ todo' = Tail(todo) /\ pc = "clear"
      /\ Head(todo) \notin Dirs /\ ~(Size(Head(todo)) < clearSize)
  BY DEF ClearPass, Fits, disk
<1>2. (\A e : Size(e)' = Size(e)) /\ SizeOnDisk' = SizeOnDisk
  BY <1>1, SizesUnchanged DEF SizeOnDisk, disk, MapThenSumSet, MapThenFoldSet
<1> DEFINE h == Head(todo)
<1>3. /\ h \in Entries /\ todo' \in Seq(Entries)
      /\ ToSet(todo) = {h} \cup ToSet(todo')
  BY <1>1, TailOfWalk DEF ClearInv
<1>4. Size(h) >= clearSize
  BY <1>1, <1>3, SizesAreSums DEF ClearInv, Typed
<1>5. Typed' /\ Accounted' /\ OlderFirst'
  BY <1>1, <1>2, <1>3 DEF ClearInv, Typed, Accounted, Excess, ChildrenOf, OlderFirst
<1>6. VisitedOnce' /\ InOrder'
  BY <1>1, TailInOrder
<1>7. WithSiblings'
  BY <1>1, <1>2, <1>3, <1>4 DEF ClearInv, WithSiblings
<1>8. Covered'
  <2> SUFFICES ASSUME failed = {}, NEW e \in onDisk, ~(Size(e) >= clearSize)
               PROVE  \E p \in DOMAIN todo' : e \in Under(todo'[p])
    BY <1>1, <1>2 DEF Covered, Under
  <2>1. PICK p \in DOMAIN todo : e \in Under(todo[p])
    BY <1>1 DEF ClearInv, Covered
  <2>2. todo[p] # h
    <3> SUFFICES ASSUME todo[p] = h PROVE FALSE
      OBVIOUS
    <3>1. e \in Under(h) /\ e # h
      BY <1>4, <2>1
    <3>2. ChildrenOf(h) = {}
      BY <1>1, LogClearAssumption DEF ChildrenOf
    <3> QED
      BY <1>3, <3>1, <3>2, UnderChild
  <2>3. PICK q \in DOMAIN todo' : todo'[q] = todo[p]
    BY <1>3, <2>2 DEF ToSet
  <2> QED
    BY <2>1, <2>3
<1> QED
  BY <1>5, <1>6, <1>7, <1>8 DEF ClearInv

LEMMA DoneKeeps ==
  ASSUME ClearInv, ClearDone \/ UNCHANGED vars
  PROVE  ClearInv'
<1>1. UNCHANGED <<disk, stSize, order, onDisk, todo, clearSize, freed, removed, failed>>
  BY DEF ClearDone, disk, vars
<1>2. (\A e : Size(e)' = Size(e)) /\ SizeOnDisk' = SizeOnDisk
  BY <1>1, SizesUnchanged DEF SizeOnDisk, disk, MapThenSumSet, MapThenFoldSet
<1>3. pc' = pc \/ (pc = "clear" /\ todo = <<>> /\ pc' = "done")
  BY DEF ClearDone, vars
<1>4. Typed' /\ Accounted' /\ OlderFirst'
  BY <1>1, <1>2, <1>3 DEF ClearInv, Typed, Accounted, Excess, ChildrenOf, OlderFirst
<1>5. VisitedOnce' /\ InOrder' /\ WithSiblings' /\ Covered'
  BY <1>1, <1>2, <1>3
     DEF ClearInv, VisitedOnce, InOrder, WithSiblings, Covered, Under
<1> QED
  BY <1>4, <1>5 DEF ClearInv

LEMMA RemoveKeeps ==
  ASSUME ClearInv, ClearRemove
  PROVE  ClearInv'
<1> DEFINE h == Head(todo)
<1>1. /\ UNCHANGED <<disk, stSize, order, pc>>
      /\ todo # <<>> /\ todo' = Tail(todo) /\ pc = "clear"
      /\ Size(h) < clearSize /\ RemoveFile(h) /\ removed' = removed \cup {h}
      /\ clearSize' = clearSize - Size(h) /\ freed' = freed + Size(h)
  BY DEF ClearRemove, Fits, disk
<1>2. \A e : Size(e)' = Size(e)
  BY <1>1, SizesUnchanged
<1>3. /\ h \in Entries /\ h = todo[1] /\ 1 \in DOMAIN todo /\ todo' \in Seq(Entries)
      /\ ToSet(todo) = {h} \cup ToSet(todo')
  BY <1>1, TailOfWalk DEF ClearInv
<1>4. \A e \in Entries : Size(e) \in Nat
  BY SizesAreSums DEF ClearInv
<1>5. clearSize' \in Nat /\ clearSize' > 0 /\ clearSize' <= clearSize /\ freed' \in Nat
  BY <1>1, <1>3, <1>4 DEF ClearInv, Typed
<1>6. Typed'
  <2>1. onDisk' \subseteq Entries /\ failed' \subseteq Entries
    BY <1>1, <1>3 DEF RemoveFile, Under, ClearInv, Typed
  <2> QED
    BY <1>1, <1>3, <1>5, <2>1 DEF ClearInv, Typed, ChildrenOf
<1>7. Accounted'
  <2>1. SizeOnDisk <= SizeOnDisk' + Size(h)
    BY <1>1, <1>3, <1>6, DiskLosesAtMost DEF ClearInv
  <2>2. SizeOnDisk \in Nat /\ SizeOnDisk' \in Nat
    BY <1>1, <1>3, <1>6, DiskLosesAtMost DEF ClearInv
  <2>3. Size(Root) <= SizeOnDisk + freed /\ freed + clearSize = Excess
    BY <1>1 DEF ClearInv, Accounted
  <2>4. Root \in Entries /\ Size(Root) \in Nat /\ freed \in Nat /\ clearSize \in Nat
    BY <1>4, LogClearAssumption DEF ClearInv, Typed
  <2>5. Size(Root) <= SizeOnDisk' + freed'
    <3>1. \A a, b, b1, f, g, r \in Nat : a <= b + f /\ b <= b1 + g /\ r = f + g => a <= b1 + r
      OBVIOUS
    <3>2. Size(h) \in Nat /\ freed + Size(h) \in Nat /\ freed' = freed + Size(h)
      BY <1>1, <1>3, <1>4, <2>4
    <3> QED
      BY <2>1, <2>2, <2>3, <2>4, <3>1, <3>2
  <2>6. Excess' = Excess /\ freed' + clearSize' = Excess
    BY <1>1, <1>2, <1>3, <1>4, <2>3, <2>4 DEF Excess
  <2> QED
    BY <1>2, <1>5, <2>5, <2>6 DEF Accounted
<1>8. VisitedOnce' /\ InOrder'
  BY <1>1, TailInOrder
<1>9. WithSiblings'
  <2>1. ToSet(todo') \cup removed' = ToSet(todo) \cup removed
    BY <1>1, <1>3
  <2>2. \A e \in Entries : Size(e) >= clearSize => Size(e) >= clearSize'
    BY <1>4, <1>5 DEF ClearInv, Typed
  <2> QED
    BY <1>2, <2>1, <2>2 DEF ClearInv, WithSiblings
<1>10. Covered'
  <2> SUFFICES ASSUME failed' = {}, NEW e \in onDisk', ~(Size(e) >= clearSize')
               PROVE  \E p \in DOMAIN todo' : e \in Under(todo'[p])
    BY <1>2 DEF Covered, Under
  <2>1. failed = {} /\ e \in onDisk /\ e \notin Under(h)
    BY <1>1 DEF RemoveFile
  <2>2. ~(Size(e) >= clearSize)
    BY <1>4, <1>5, <2>1 DEF ClearInv, Typed
  <2>3. PICK p \in DOMAIN todo : e \in Under(todo[p])
    BY <1>1, <2>1, <2>2 DEF ClearInv, Covered
  <2>4. PICK q \in DOMAIN todo' : todo'[q] = todo[p]
    BY <1>3, <2>1, <2>3 DEF ToSet
  <2> QED
    BY <2>3, <2>4
<1>11. OlderFirst'
  <2> SUFFICES ASSUME NEW d \in Dirs, NEW i \in DOMAIN order[d], NEW j \in DOMAIN order[d],
                      i < j, order[d][j] = h
               PROVE  order[d][i] \in removed \/ Size(order[d][i]) > Size(h)
    BY <1>1, <1>2 DEF ClearInv, OlderFirst
  <2> DEFINE s == order[d][i]
  <2>1. s \in ChildrenOf(d) /\ h \in ChildrenOf(d)
    BY DEF ClearInv, Typed, ToSet
  <2>2. s \in Entries \ {Root} /\ h \in Entries \ {Root} /\ Parent[h] = Parent[s]
    BY <2>1 DEF ChildrenOf
  <2>3. i \in Nat /\ j \in Nat /\ s # h
    <3>1. order[d] \in Seq(Entries) /\ IsInjective(order[d])
      BY DEF ClearInv, Typed
    <3>2. DOMAIN order[d] = 1 .. Len(order[d]) /\ Len(order[d]) \in Nat
      BY <3>1, LenProperties
    <3>3. i \in Nat /\ j \in Nat /\ i # j
      BY <3>2
    <3> QED
      BY <3>1, <3>3 DEF IsInjective
  <2>4. s \in ToSet(todo) \cup removed \/ Size(s) >= clearSize
    BY <1>3, <2>2 DEF ClearInv, WithSiblings
  <2>5. s \notin ToSet(todo)
    <3> SUFFICES ASSUME NEW q \in DOMAIN todo, todo[q] = s PROVE FALSE
      BY DEF ToSet
    <3>1. q < 1
      BY <1>3 DEF ClearInv, InOrder
    <3> QED
      BY <3>1, LenProperties DEF ClearInv, Typed
  <2>6. Size(s) >= clearSize => Size(s) > Size(h)
    BY <1>1, <1>3, <1>4, <2>2 DEF ClearInv, Typed
  <2> QED
    BY <2>4, <2>5, <2>6
<1> QED
  BY <1>6, <1>7, <1>8, <1>9, <1>10, <1>11 DEF ClearInv

\* When a directory is entered, its entries come before the rest: w is k with
\* all but the first of s after it.
Entered(s, k, w) ==
  /\ 1 \in DOMAIN s /\ s[1] = Head(s)
  /\ \A p \in DOMAIN w :
       /\ p \in Nat
       /\ \/ p \in DOMAIN k /\ p <= Len(k) /\ w[p] = k[p]
          \/ /\ p > Len(k) /\ p - Len(k) + 1 \in DOMAIN s \ {1}
             /\ w[p] = s[p - Len(k) + 1]
  /\ ToSet(s) \cup ToSet(k) = ToSet(w) \cup {Head(s)}

LEMMA ConcatWalk ==
  ASSUME NEW S, NEW k \in Seq(S), NEW s \in Seq(S), s # <<>>,
         NEW w, w = k \o Tail(s)
  PROVE  w \in Seq(S) /\ Entered(s, k, w)
<1> DEFINE t == Tail(s)
           n == Len(k)
           m == Len(s)
<1>1. m \in Nat \ {0} /\ DOMAIN s = 1 .. m
  BY EmptySeq, LenProperties
<1>2. /\ t \in Seq(S) /\ Len(t) = m - 1
      /\ \A p \in 1 .. m - 1 : t[p] = s[p + 1]
      /\ s[1] = Head(s)
  BY HeadTailProperties
<1>3. n \in Nat /\ DOMAIN k = 1 .. n
  BY LenProperties
<1> HIDE DEF t
<1>4. /\ k \o t \in Seq(S) /\ Len(k \o t) = n + Len(t)
      /\ \A p \in 1 .. n + Len(t) : (k \o t)[p] = IF p <= n THEN k[p] ELSE t[p - n]
  BY <1>2, ConcatProperties
<1> HIDE DEF n, m
<1>5. w \in Seq(S) /\ Len(w) = n + m - 1
  BY <1>1, <1>2, <1>3, <1>4 DEF t
<1>6. DOMAIN w = 1 .. n + m - 1
  BY <1>5, LenProperties
<1>7. \A p \in 1 .. n : p \in DOMAIN w /\ w[p] = k[p]
  BY <1>1, <1>2, <1>3, <1>4, <1>6 DEF t
<1>8. \A p \in DOMAIN w : p > n => p - n + 1 \in (1 .. m) \ {1} /\ w[p] = s[p - n + 1]
  <2> SUFFICES ASSUME NEW p \in DOMAIN w, p > n
               PROVE  p - n + 1 \in (1 .. m) \ {1} /\ w[p] = s[p - n + 1]
    OBVIOUS
  <2>1. p \in Nat /\ p - n \in 1 .. m - 1
    BY <1>1, <1>3, <1>6
  <2>2. w[p] = t[p - n]
    BY <1>1, <1>2, <1>3, <1>4, <1>6, <2>1 DEF t
  <2> PICK i : i = p - n
    OBVIOUS
  <2>3. i \in 1 .. m - 1 /\ m \in Nat
    BY <1>1, <2>1
  <2>4. t[i] = s[i + 1] /\ i + 1 \in (1 .. m) \ {1}
    BY <1>2, <2>3 DEF t
  <2> QED
    BY <2>2, <2>4
<1>9. \A p \in 1 .. m : p # 1 => n + p - 1 \in DOMAIN w /\ w[n + p - 1] = s[p]
  <2> SUFFICES ASSUME NEW p \in 1 .. m, p # 1
               PROVE  n + p - 1 \in DOMAIN w /\ w[n + p - 1] = s[p]
    OBVIOUS
  <2>1. n + p - 1 \in DOMAIN w /\ n + p - 1 > n /\ (n + p - 1) - n + 1 = p
    BY <1>1, <1>3, <1>6
  <2> QED
    BY <1>8, <2>1
<1>10. ToSet(s) = {s[p] : p \in 1 .. m} /\ ToSet(k) = {k[p] : p \in 1 .. n}
       /\ ToSet(w) = {w[p] : p \in DOMAIN w}
  BY <1>1, <1>3 DEF ToSet
<1>11. ToSet(s) \cup ToSet(k) \subseteq ToSet(w) \cup {Head(s)}
  <2>1. ToSet(k) \subseteq ToSet(w)
    BY <1>7, <1>10
  <2>2. ASSUME NEW p \in 1 .. m, p # 1
        PROVE  s[p] \in ToSet(w)
    BY <1>9, <1>10, <2>2
  <2>3. ToSet(s) \subseteq ToSet(w) \cup {s[1]}
    BY <1>10, <2>2
  <2> QED
    BY <1>2, <2>1, <2>3
<1>12. ToSet(w) \subseteq ToSet(s) \cup ToSet(k)
  <2> SUFFICES ASSUME NEW p \in DOMAIN w
               PROVE  w[p] \in ToSet(s) \cup ToSet(k)
    BY <1>10
  <2>1. CASE p > n
    BY <1>8, <1>10, <2>1
  <2>2. CASE ~(p > n)
    <3>1. p \in 1 .. n
      BY <1>1, <1>3, <1>6, <2>2
    <3> QED
      BY <1>7, <1>10, <3>1
  <2> QED
    BY <2>1, <2>2
<1>13. Head(s) \in ToSet(s) /\ 1 \in DOMAIN s
  BY <1>1, <1>2, <1>10
<1>14. ASSUME NEW p \in DOMAIN w
       PROVE  /\ p \in Nat
              /\ \/ p \in DOMAIN k /\ p <= n /\ w[p] = k[p]
                 \/ p > n /\ p - n + 1 \in DOMAIN s \ {1} /\ w[p] = s[p - n + 1]
  <2>1. CASE p > n
    BY <1>1, <1>3, <1>6, <1>8, <2>1
  <2>2. CASE ~(p > n)
    <3>1. p \in 1 .. n
      BY <1>1, <1>3, <1>6, <2>2
    <3> QED
      BY <1>3, <1>7, <3>1
  <2> QED
    BY <2>1, <2>2
<1>15. ToSet(s) \cup ToSet(k) = ToSet(w) \cup {Head(s)}
  BY <1>11, <1>12, <1>13, Zenon
<1> QED
  BY <1>2, <1>5, <1>13, <1>14, <1>15 DEF n, Entered

LEMMA EnterKeeps ==
  ASSUME ClearInv, ClearEnter
  PROVE  ClearInv'
<1> DEFINE d == Head(todo)
           n == Len(order[d])
           Old(p) == p - n + 1
<1>1. /\ UNCHANGED <<disk, stSize, order, onDisk, clearSize, freed, removed, failed, pc>>
      /\ todo # <<>> /\ d \in Dirs /\ pc = "clear"
      /\ todo' = order[d] \o Tail(todo) /\ ~(Size(d) < clearSize)
  BY DEF ClearEnter, Fits, Children, disk
<1>2. (\A e : Size(e)' = Size(e)) /\ SizeOnDisk' = SizeOnDisk
  BY <1>1, SizesUnchanged DEF SizeOnDisk, disk, MapThenSumSet, MapThenFoldSet
<1>3. /\ 1 \in DOMAIN todo /\ todo[1] = d /\ todo' \in Seq(Entries)
      /\ \A p \in DOMAIN todo' :
           /\ p \in Nat
           /\ \/ p \in DOMAIN order[d] /\ p <= n /\ todo'[p] = order[d][p]
              \/ p > n /\ Old(p) \in DOMAIN todo \ {1} /\ todo'[p] = todo[Old(p)]
      /\ ToSet(todo) \cup ChildrenOf(d) = ToSet(todo') \cup {d}
  <2> DEFINE k == order[d]
             w == todo'
  <2>1. todo \in Seq(Entries) /\ k \in Seq(Entries) /\ ToSet(k) = ChildrenOf(d)
        /\ todo # <<>> /\ w = k \o Tail(todo)
    BY <1>1 DEF ClearInv, Typed
  <2> HIDE DEF k, w, Old, n, d
  <2>2. w \in Seq(Entries) /\ Entered(todo, k, w)
    BY <2>1, ConcatWalk
  <2> QED
    BY <2>1, <2>2, Zenon DEF k, w, d, n, Old, Entered
<1>4. d \in Entries /\ order[d] \in Seq(Entries) /\ n \in Nat /\ Size(d) >= clearSize
      /\ ToSet(order[d]) = ChildrenOf(d) /\ IsInjective(order[d])
  <2>1. d \in Dirs /\ d \in Entries /\ Size(d) \in Nat
    BY <1>1, LogClearAssumption, SizesAreSums DEF ClearInv
  <2>2. /\ order[d] \in Seq(Entries) /\ ToSet(order[d]) = ChildrenOf(d)
        /\ IsInjective(order[d]) /\ clearSize \in Nat
    BY <2>1 DEF ClearInv, Typed
  <2>3. n \in Nat
    BY <2>2, LenProperties
  <2> QED
    BY <1>1, <2>1, <2>2, <2>3
<1>5. \A p \in DOMAIN order[d] : order[d][p] \in ChildrenOf(d)
  BY <1>4 DEF ToSet
<1>6. \A p \in DOMAIN todo : todo[p] \in Entries
  BY ElementOfSeq, LenProperties DEF ClearInv, Typed
<1>7. \A p \in DOMAIN todo \ {1} : d \notin Under(todo[p]) /\ todo[p] \notin Under(d)
  BY <1>3 DEF ClearInv, VisitedOnce
<1> HIDE DEF d, n
<1>8. Typed' /\ Accounted' /\ OlderFirst'
  BY <1>1, <1>2, <1>3 DEF ClearInv, Typed, Accounted, Excess, ChildrenOf, OlderFirst
<1>9. VisitedOnce'
  <2> SUFFICES ASSUME NEW p \in DOMAIN todo', NEW q \in DOMAIN todo', p # q,
                      todo'[q] \in Path[todo'[p]]
               PROVE  FALSE
    BY DEF VisitedOnce, Under
  <2>1. CASE p \in DOMAIN order[d] /\ todo'[p] = order[d][p]
             /\ q \in DOMAIN order[d] /\ todo'[q] = order[d][q]
    <3> DEFINE c == order[d][p]
               b == order[d][q]
    <3>1. c # b /\ c \in ChildrenOf(d) /\ b \in ChildrenOf(d) /\ b \in Path[c]
      BY <1>4, <1>5, <2>1 DEF IsInjective
    <3> HIDE DEF c, b
    <3>2. b \in Path[d] /\ d \in Path[b] /\ b # d /\ b \in Entries
      BY <1>4, <3>1, ChildUnder DEF Under
    <3> QED
      BY <1>4, <3>2, PathAntisymmetric
  <2>2. CASE p \in DOMAIN order[d] /\ todo'[p] = order[d][p]
             /\ Old(q) \in DOMAIN todo \ {1} /\ todo'[q] = todo[Old(q)]
    <3> DEFINE c == order[d][p]
               b == todo[Old(q)]
    <3>1. c \in ChildrenOf(d) /\ b \in Path[c] /\ b \in Entries
          /\ d \notin Under(b) /\ b \notin Under(d)
      BY <1>5, <1>6, <1>7, <2>2
    <3> HIDE DEF c, b
    <3>2. (b = c \/ b \in Path[d]) /\ c \in Under(d)
      BY <1>4, <3>1, ChildUnder
    <3> QED
      BY <1>4, <3>1, <3>2 DEF Under
  <2>3. CASE Old(p) \in DOMAIN todo \ {1} /\ todo'[p] = todo[Old(p)]
             /\ q \in DOMAIN order[d] /\ todo'[q] = order[d][q]
    <3> DEFINE c == order[d][q]
               b == todo[Old(p)]
    <3>1. c \in ChildrenOf(d) /\ c \in Path[b] /\ b \in Entries /\ b \notin Under(d)
      BY <1>5, <1>6, <1>7, <2>3
    <3> HIDE DEF c, b
    <3>2. b \in Under(c) /\ Under(c) \subseteq Under(d)
      BY <1>4, <3>1, ChildUnder DEF Under
    <3> QED
      BY <3>1, <3>2
  <2>4. CASE Old(p) \in DOMAIN todo \ {1} /\ todo'[p] = todo[Old(p)]
             /\ Old(q) \in DOMAIN todo \ {1} /\ todo'[q] = todo[Old(q)]
    <3>1. Old(p) # Old(q)
      BY <1>3, <1>4
    <3>2. todo[Old(p)] \in Under(todo[Old(q)])
      BY <1>6, <2>4 DEF Under
    <3> HIDE DEF Old
    <3> QED
      BY <2>4, <3>1, <3>2 DEF ClearInv, VisitedOnce
  <2> HIDE DEF Old
  <2> QED
    BY <1>3, <2>1, <2>2, <2>3, <2>4
<1>10. InOrder'
  <2> SUFFICES ASSUME NEW p \in DOMAIN todo', NEW q \in DOMAIN todo',
                      NEW e \in Dirs, NEW i \in DOMAIN order[e], NEW j \in DOMAIN order[e],
                      todo'[p] = order[e][i], todo'[q] = order[e][j], i < j
               PROVE  p < q
    <3>1. order' = order
      BY <1>1
    <3> QED
      BY <3>1 DEF InOrder
  <2>1. order[e][i] \in ChildrenOf(e) /\ order[e][j] \in ChildrenOf(e)
    BY DEF ClearInv, Typed, ToSet
  <2>2. CASE q \in DOMAIN order[d] /\ todo'[q] = order[d][q]
    <3>1. e = d
      BY <1>5, <2>1, <2>2 DEF ChildrenOf
    <3>2. q = j
      BY <1>4, <2>2, <3>1 DEF IsInjective
    <3>3. CASE p \in DOMAIN order[d] /\ todo'[p] = order[d][p]
      <4>1. p = i
        BY <1>4, <3>1, <3>3 DEF IsInjective
      <4> QED
        BY <3>2, <4>1
    <3>4. CASE Old(p) \in DOMAIN todo \ {1} /\ todo'[p] = todo[Old(p)]
      <4>1. todo[Old(p)] \in Under(d)
        BY <1>4, <2>1, <3>1, <3>4, ChildUnder
      <4> QED
        BY <1>7, <3>4, <4>1
    <3> HIDE DEF Old
    <3> QED
      BY <1>3, <3>3, <3>4
  <2>3. CASE q > n /\ Old(q) \in DOMAIN todo \ {1} /\ todo'[q] = todo[Old(q)]
    <3>1. CASE p <= n
      BY <1>3, <1>4, <2>3, <3>1
    <3>2. CASE Old(p) \in DOMAIN todo \ {1} /\ todo'[p] = todo[Old(p)]
      <4> HIDE DEF Old
      <4>1. Old(p) < Old(q)
        BY <2>3, <3>2 DEF ClearInv, InOrder
      <4> QED
        BY <1>3, <1>4, <2>3, <4>1 DEF Old
    <3> HIDE DEF Old
    <3> QED
      BY <1>3, <3>1, <3>2
  <2> HIDE DEF Old
  <2> QED
    BY <1>3, <2>2, <2>3
<1>11. WithSiblings'
  <2> SUFFICES ASSUME NEW c \in Entries \ {Root}, NEW e \in Entries \ {Root},
                      Parent[c] = Parent[e], c \in ToSet(todo') \cup removed
               PROVE  e \in ToSet(todo') \cup removed \/ Size(e) >= clearSize
    BY <1>1, <1>2 DEF WithSiblings
  <2>1. ChildrenOf(d) \subseteq ToSet(todo')
    BY <1>3, <1>4, ChildUnder
  <2>2. CASE c \in ToSet(todo) \cup removed
    BY <1>3, <1>4, <2>2 DEF ClearInv, WithSiblings
  <2>3. CASE c \in ChildrenOf(d)
    BY <2>1, <2>3 DEF ChildrenOf
  <2> QED
    BY <1>3, <2>2, <2>3
<1>12. Covered'
  <2> SUFFICES ASSUME failed = {}, NEW e \in onDisk, ~(Size(e) >= clearSize)
               PROVE  \E p \in DOMAIN todo' : e \in Under(todo'[p])
    BY <1>1, <1>2 DEF Covered, Under
  <2>1. PICK p \in DOMAIN todo : e \in Under(todo[p])
    BY <1>1 DEF ClearInv, Covered
  <2>2. \E c \in ToSet(todo') : e \in Under(c)
    <3>1. CASE todo[p] = d
      <4>1. PICK c \in ChildrenOf(d) : e \in Under(c)
        BY <1>4, <2>1, <3>1, UnderChild
      <4> QED
        BY <1>3, <1>4, <4>1, ChildUnder
    <3>2. CASE todo[p] # d
      BY <1>3, <2>1, <3>2 DEF ToSet
    <3> QED
      BY <3>1, <3>2
  <2> QED
    BY <2>2 DEF ToSet
<1> QED
  BY <1>8, <1>9, <1>10, <1>11, <1>12 DEF ClearInv

THEOREM ClearInvariant == Spec => []ClearInv
<1>1. ClearInv /\ [Next]_vars => ClearInv'
  BY DoClearKeeps, RemoveKeeps, EnterKeeps, PassKeeps, DoneKeeps DEF Next
<1> QED
  BY ClearInit, <1>1, PTL DEF Spec

-----------------------------------------------------------------------------
(***************************************************************************)
(* Whatever the sizes and the order of the entries, and whichever removals *)
(* fail, clearSize, a size_t that ClearLog decrements, never wraps around, *)
(* and more than 8/10 of _maxSize stays on the disk.                       *)
(***************************************************************************)
THEOREM ClearingNeverWraps == Spec => []ClearSizePositive
<1>1. ClearInv => ClearSizePositive
  <2> SUFFICES ASSUME ClearInv PROVE ClearSizePositive
    OBVIOUS
  <2>1. /\ Size(Root) \in Nat /\ SizeOnDisk \in Nat /\ freed \in Nat /\ clearSize \in Nat
        /\ MaxSize \div 10 \in Nat
    BY SizesAreSums, LogClearAssumption DEF ClearInv, Typed
  <2>2. /\ Size(Root) <= SizeOnDisk + freed
        /\ freed > 0 \/ pc = "clear" => clearSize > 0 /\ freed + clearSize = Excess
    BY DEF ClearInv, Accounted
  <2> QED
    BY <2>1, <2>2 DEF ClearSizePositive, Excess
<1> QED
  BY <1>1, ClearInvariant, PTL

(***************************************************************************)
(* When the walk of ClearLog is over and nothing failed to go, nothing on  *)
(* the disk is small enough to be removed still.                           *)
(***************************************************************************)
THEOREM ClearingIsComplete == Spec => []NothingLeftFits
<1>1. ClearInv => NothingLeftFits
  <2> SUFFICES ASSUME ClearInv, pc = "done", removed # {}, failed = {}, NEW e \in onDisk
               PROVE  Size(e) >= clearSize
    BY DEF NothingLeftFits
  <2>1. todo = <<>> /\ DOMAIN <<>> = {}
    BY DEF ClearInv, Typed
  <2> QED
    BY <2>1 DEF ClearInv, Covered
<1> QED
  BY <1>1, ClearInvariant, PTL

(***************************************************************************)
(* ClearLog removes an entry before an older one of the same directory     *)
(* only when the older one is larger.                                      *)
(***************************************************************************)
THEOREM OldestGoFirst == Spec => []NewerGoesOnlyIfSmaller
<1>1. ClearInv => NewerGoesOnlyIfSmaller
  BY DEF ClearInv, OlderFirst, NewerGoesOnlyIfSmaller
<1> QED
  BY <1>1, ClearInvariant, PTL
=============================================================================
