------------------------- MODULE PlatformFileProofs -------------------------
(***************************************************************************)
(* The file functions, for any number of threads, every disk that is a     *)
(* tree, all calls, and directories that are denied or busy.               *)
(***************************************************************************)
EXTENDS PlatformFile, RecursionLemmas, SequenceTheorems

-----------------------------------------------------------------------------
(* The invariant of the walk. *)

Frames == [dir : Paths \cup {Top}, unread : SUBSET Paths,
           present : SUBSET Paths, list : Seq(Paths)]

Nodes == UNION {[D -> Nat] : D \in SUBSET Paths}

\* The calls there are.
AnyCall == (UNION {Calls[c] : c \in Callers}) \cup {NoCall}

DiskTyped ==
  /\ disk \in [Paths -> Kinds] /\ disk0 \in [Paths -> Kinds]
  /\ fault \in [denied : SUBSET Paths, busy : SUBSET Paths]

LocalTyped ==
  /\ call \in [Callers -> AnyCall]
  /\ \A c \in Callers : call[c] \in Calls[c] \cup {NoCall}
  /\ pc \in [Callers -> {"idle", "mkdir", "read", "enter", "remove", "rmdir", "found", "done"}]
  /\ ok \in [Callers -> BOOLEAN]
  /\ steps \in [Callers -> Seq(Paths)]
  /\ stack \in [Callers -> Seq(Frames)]
  /\ at \in [Callers -> Paths \cup {Top}]
  /\ size \in [Callers -> Nodes]
  /\ DOMAIN read = Callers /\ DOMAIN child = Callers

Typed == DiskTyped /\ LocalTyped

\* Which call a thread at one of these places makes.
Placed(c) ==
  /\ pc[c] = "idle" => call[c] = NoCall /\ ok[c]
  /\ pc[c] = "mkdir" => call[c].op \in {"make", "parent"} /\ call[c].path \in Paths
  /\ pc[c] \in {"read", "enter"} => call[c].op \in {"remove", "search"}
  /\ pc[c] \in {"remove", "rmdir"} => Removing(c)
  /\ pc[c] = "found" => Searching(c)
  /\ pc[c] \in {"read", "enter", "remove", "rmdir", "found"} => call[c].path \in Paths
  /\ pc[c] \in {"read", "enter", "remove", "rmdir"} <=> stack[c] # <<>>
  /\ pc[c] \in {"idle", "mkdir"} => DOMAIN size[c] = {}

\* What the directory d holds, where Top holds the path itself.
EntriesOf(c, d) == IF d = Top THEN {call[c].path} ELSE ChildrenOf(d)

FrameOk(c, f) ==
  /\ f.dir = Top \/ f.dir \in Under(call[c].path)
  /\ f.unread \subseteq EntriesOf(c, f.dir)
  /\ f.present \subseteq EntriesOf(c, f.dir)
  /\ f.dir = Top => f.present = {call[c].path}
  /\ ToSet(f.list) \subseteq EntriesOf(c, f.dir) \ f.unread
  /\ IsInjective(f.list)
  /\ Searching(c) => ToSet(f.list) \subseteq DOMAIN size[c]

\* e is an entry of f that was read.
ReadFrom(c, f, e) == e \in EntriesOf(c, f.dir) \ f.unread

StackOk(c) ==
  \A i \in DOMAIN stack[c] :
    /\ FrameOk(c, stack[c][i])
    /\ i = 1 <=> stack[c][i].dir = Top
    /\ i > 1 => ReadFrom(c, stack[c][i - 1], stack[c][i].dir)

Walk(c) ==
  /\ StackOk(c)
  /\ pc[c] \in {"enter", "remove", "rmdir"} =>
       at[c] \in Paths /\ ReadFrom(c, stack[c][Len(stack[c])], at[c])
  /\ pc[c] = "enter" => disk[at[c]] \in {"none", "dir"}
  /\ Searching(c) => DOMAIN size[c] \subseteq Under(call[c].path)

\* Only a thread that others make directories beside has any to notice.
AnewOk ==
  /\ anew \in [Callers -> SUBSET Paths]
  /\ \A c \in Callers : anew[c] = {} \/ Others(c, {"make", "parent"})

WalkInv == Typed /\ AnewOk /\ \A c \in Callers : Placed(c) /\ Walk(c)

-----------------------------------------------------------------------------
(* What is on the disk. *)

\* What is in a directory goes before it.
DiskIsTree ==
  \A x \in Paths : Exists(x) /\ Parent[x] # Top => disk[Parent[x]] = "dir"

Spared ==
  \A x \in Paths :
    disk0[x] # "none" /\ ~Exists(x) =>
      \E c \in Callers : Removing(c) /\ x \in Under(call[c].path)

DiskInv == DiskIsTree /\ Spared

-----------------------------------------------------------------------------
(* The removal. *)

\* The path itself is gone once it was seen to.
PathGone(c) ==
  /\ Removing(c) /\ call[c].path \in Paths
  /\ ok[c] /\ Visible(call[c].path) /\ ~Others(c, {"make", "parent"})
  /\ \/ pc[c] = "read" /\ Len(stack[c]) = 1 /\ call[c].path \notin stack[c][1].unread
     \/ pc[c] = "done"
  => ~Exists(call[c].path)

Undisturbed(c) ==
  Removing(c) /\ Alone(c) /\ fault.denied = {} /\ fault.busy = {}

\* The entry the walk is at or in, seen from the frame i.
Current(c, i) ==
  IF i < Len(stack[c]) THEN {stack[c][i + 1].dir}
  ELSE IF pc[c] \in {"enter", "remove", "rmdir"} THEN {at[c]} ELSE {}

\* Nothing fails in a removal that is alone.
NothingFails(c) ==
  Undisturbed(c) =>
    /\ ok[c]
    /\ pc[c] \in {"enter", "rmdir"} => disk[at[c]] = "dir"
    /\ pc[c] = "remove" => disk[at[c]] \in {"file", "link"}
    /\ pc[c] = "rmdir" => \A x \in ChildrenOf(at[c]) : ~Exists(x)
    /\ \A i \in DOMAIN stack[c] : i > 1 =>
         /\ disk[stack[c][i].dir] = "dir"
         /\ \A x \in stack[c][i].unread \cap stack[c][i].present : Exists(x)
         /\ \A x \in ChildrenOf(stack[c][i].dir) \ Current(c, i) :
              Exists(x) => x \in stack[c][i].unread \cap stack[c][i].present

RemoveInv == \A c \in Callers : PathGone(c) /\ NothingFails(c)

-----------------------------------------------------------------------------
(* The search: nodes and their sizes. *)

Found(c) == DOMAIN size[c]

\* The directories whose nodes have only their own size yet.
Open(c) == {stack[c][i].dir : i \in 2 .. Len(stack[c])}

SearchInv(c) ==
  Searching(c) /\ pc[c] \in {"read", "enter", "found"} =>
    /\ \A x \in Found(c) : x = call[c].path \/ Parent[x] \in Found(c)
    /\ \A i \in DOMAIN stack[c] :
         /\ ToSet(stack[c][i].list) = Found(c) \cap EntriesOf(c, stack[c][i].dir)
         /\ i > 1 => stack[c][i].dir \in Found(c)
    /\ pc[c] = "enter" => /\ at[c] \in Found(c) \ Open(c)
                         /\ Found(c) \cap Under(at[c]) = {at[c]}
    /\ \A e \in Found(c) :
         size[c][e] = IF e \in Open(c) THEN StSize[e]
                      ELSE Sum(StSize, Found(c) \cap Under(e))

SizeInv == \A c \in Callers : SearchInv(c)

-----------------------------------------------------------------------------
(* The making of directories. *)

\* Without a removal, directories are all that the disk gains.
OnlyGrows ==
  (\A c \in Callers : ~Removing(c)) =>
    \A x \in Paths : disk[x] # disk0[x] => disk0[x] = "none" /\ disk[x] = "dir"

\* Nor does it gain anything without a making.
Untouched ==
  (\A c \in Callers : call[c].op \notin {"make", "parent", "remove"}) => disk = disk0

Made(x) == Visible(x) /\ Exists(x) /\ (Parent[x] = Top \/ disk[Parent[x]] = "dir")

Making(c) == call[c].op \in {"make", "parent"} /\ call[c].path \in Paths

MakeWay(c) ==
  Making(c) /\ ~Others(c, {"remove"}) =>
    /\ pc[c] = "mkdir" =>
         /\ ok[c] /\ call[c].path \notin TooLong
         /\ ToSet(steps[c]) \subseteq ToSet(DirsToMake(call[c]))
         /\ \A x \in ToSet(DirsToMake(call[c])) : x \in ToSet(steps[c]) \/ Made(x)
         /\ \A i \in DOMAIN steps[c] :
              \/ Parent[steps[c][i]] = Top
              \/ i > 1 /\ Parent[steps[c][i]] = steps[c][i - 1]
              \/ i = 1 /\ Exists(Parent[steps[c][i]])
    /\ pc[c] = "done" /\ ok[c] =>
         /\ call[c].path \notin TooLong
         /\ \A x \in ToSet(DirsToMake(call[c])) : Made(x)
    /\ pc[c] = "done" /\ ~ok[c] => ~NothingInTheWay(call[c])

PathNotMade(c) ==
  call[c].op = "parent" /\ call[c].path \in Paths /\ Alone(c) =>
    disk[call[c].path] = disk0[call[c].path]

MakeInv == OnlyGrows /\ Untouched /\ \A c \in Callers : MakeWay(c) /\ PathNotMade(c)

-----------------------------------------------------------------------------
(* The tree. *)

LEMMA ParentTyped ==
  Top \notin Paths /\ \A e \in Paths : Parent[e] \in Paths \cup {Top}
  BY PlatformFileAssumption

\* Induction from the top to the leaves.
LEMMA TreeInduction ==
  ASSUME NEW T, \A e \in Paths : Parent[e] = Top \/ Parent[e] \in T => e \in T
  PROVE  Paths \subseteq T
<1> SUFFICES ASSUME Paths \ T # {} PROVE FALSE
  OBVIOUS
<1>1. PICK e \in Paths \ T : Parent[e] \notin Paths \ T
  BY PlatformFileAssumption
<1> QED
  BY <1>1, PlatformFileAssumption

\* What Above says of itself: it is the least set with the parent that is
\* closed under going to the parent.
LEMMA AboveDefined ==
  \A e \in Paths :
    Above[e] = IF Parent[e] = Top THEN {} ELSE {Parent[e]} \cup Above[Parent[e]]
<1> DEFINE Up(S) == \A y \in S : Parent[y] \in S \cup {Top}
           Least(e) == {x \in Paths : \A S \in SUBSET Paths :
                          Parent[e] \in S \cup {Top} /\ Up(S) => x \in S}
           g == [e \in Paths |-> Least(e)]
<1>1. ASSUME NEW e \in Paths, Parent[e] = Top
      PROVE  Least(e) = {}
  <2>1. {} \in SUBSET Paths /\ Up({}) /\ Parent[e] \in {} \cup {Top}
    BY <1>1
  <2> QED
    BY <2>1
<1>2. ASSUME NEW e \in Paths, Parent[e] # Top
      PROVE  Least(e) = {Parent[e]} \cup Least(Parent[e])
  <2> DEFINE d == Parent[e]
  <2>1. d \in Paths /\ d # Top
    BY <1>2, ParentTyped
  <2>2. ASSUME NEW S \in SUBSET Paths, d \in S, Up(S)
        PROVE  Parent[d] \in S \cup {Top}
    BY <2>2
  <2>3. ASSUME NEW S \in SUBSET Paths, Parent[d] \in S \cup {Top}, Up(S)
        PROVE  S \cup {d} \in SUBSET Paths /\ Up(S \cup {d})
    BY <2>1, <2>3
  <2>4. Least(e) \subseteq {d} \cup Least(d)
    BY <2>3
  <2>5. {d} \cup Least(d) \subseteq Least(e)
    BY <2>1, <2>2
  <2> QED
    BY <2>4, <2>5
<1>3. g = [e \in Paths |-> IF Parent[e] = Top THEN {} ELSE {Parent[e]} \cup g[Parent[e]]]
  <2> HIDE DEF Least
  <2>1. \A e \in Paths : Parent[e] # Top => Parent[e] \in Paths
    BY ParentTyped
  <2> QED
    BY <1>1, <1>2, <2>1
<1> HIDE DEF g
<1>4. Above = [e \in Paths |-> IF Parent[e] = Top THEN {}
                               ELSE {Parent[e]} \cup Above[Parent[e]]]
  BY <1>3 DEF Above
<1> QED
  BY <1>4

LEMMA AboveTyped ==
  \A e \in Paths : Above[e] \subseteq Paths
<1> DEFINE T == {e \in Paths : Above[e] \subseteq Paths}
<1>1. \A e \in Paths : Parent[e] = Top \/ Parent[e] \in T => e \in T
  BY AboveDefined, ParentTyped
<1> HIDE DEF T
<1>2. Paths \subseteq T
  BY <1>1, TreeInduction
<1> QED
  BY <1>2 DEF T

LEMMA AboveTransitive ==
  \A x \in Paths : \A y \in Above[x] : Above[y] \subseteq Above[x]
<1> DEFINE T == {x \in Paths : \A y \in Above[x] : Above[y] \subseteq Above[x]}
<1>1. ASSUME NEW e \in Paths, Parent[e] = Top \/ Parent[e] \in T
      PROVE  \A y \in Above[e] : Above[y] \subseteq Above[e]
  <2>1. CASE Parent[e] = Top
    BY <2>1, AboveDefined
  <2>2. CASE Parent[e] # Top
    <3>1. Above[e] = {Parent[e]} \cup Above[Parent[e]]
      BY <2>2, AboveDefined
    <3>2. \A y \in Above[Parent[e]] : Above[y] \subseteq Above[Parent[e]]
      BY <1>1, <2>2
    <3> QED
      BY <3>1, <3>2
  <2> QED
    BY <2>1, <2>2
<1> HIDE DEF T
<1>2. Paths \subseteq T
  <2>1. \A e \in Paths : Parent[e] = Top \/ Parent[e] \in T => e \in T
    BY <1>1 DEF T
  <2> QED
    BY <2>1, TreeInduction
<1> QED
  BY <1>2 DEF T

\* No directory is in itself.
LEMMA AboveAcyclic ==
  \A e \in Paths : e \notin Above[e]
<1> SUFFICES ASSUME NEW e \in Paths, e \in Above[e]
             PROVE  FALSE
  OBVIOUS
<1> DEFINE S == {z \in Above[e] : e \in Above[z]}
<1>1. e \in S /\ S \subseteq Paths
  BY AboveTyped
<1>2. ASSUME NEW z \in S
      PROVE  Parent[z] \in S
  <2>1. Parent[z] \in Paths /\ Above[z] = {Parent[z]} \cup Above[Parent[z]]
    BY <1>1, AboveDefined, ParentTyped
  <2>2. Parent[z] \in Above[e]
    BY <1>1, <2>1, AboveTransitive
  <2>3. e \in Above[Parent[z]]
    BY <2>1
  <2> QED
    BY <2>2, <2>3
<1> HIDE DEF S
<1>3. \E z \in S : Parent[z] \notin S
  BY <1>1, PlatformFileAssumption
<1> QED
  BY <1>2, <1>3

\* An entry below the path is the path, or in a directory that is the path or
\* below it.
LEMMA UnderByParent ==
  ASSUME NEW p \in Paths
  PROVE  /\ p \in Under(p) /\ Under(p) \subseteq Paths
         /\ \A x \in Paths : Parent[x] \in Under(p) => x \in Under(p)
         /\ \A x \in Under(p) : x # p => Parent[x] \in Under(p)
<1>1. p \in Under(p) /\ Under(p) \subseteq Paths
  BY DEF Under
<1>2. ASSUME NEW x \in Paths, Parent[x] \in Under(p)
      PROVE  x \in Under(p)
  <2>1. Parent[x] # Top
    BY <1>2, ParentTyped DEF Under
  <2> QED
    BY <1>2, <2>1, AboveDefined DEF Under
<1>3. ASSUME NEW x \in Under(p), x # p
      PROVE  Parent[x] \in Under(p)
  <2>1. p \in Above[x] /\ x \in Paths
    BY <1>3 DEF Under
  <2>2. Parent[x] # Top /\ p \in {Parent[x]} \cup Above[Parent[x]]
    BY <2>1, AboveDefined
  <2> QED
    BY <2>1, <2>2, ParentTyped DEF Under
<1> QED
  BY <1>1, <1>2, <1>3

\* What a directory below the path holds is below the path.
LEMMA EntriesUnder ==
  ASSUME NEW c, call[c].path \in Paths, NEW d,
         d = Top \/ d \in Under(call[c].path)
  PROVE  EntriesOf(c, d) \subseteq Under(call[c].path)
<1>1. CASE d = Top
  BY <1>1, UnderByParent DEF EntriesOf
<1>2. CASE d # Top
  BY <1>2, UnderByParent DEF EntriesOf, ChildrenOf
<1> QED
  BY <1>1, <1>2

-----------------------------------------------------------------------------
(* The stack. *)

LEMMA LastAndFront ==
  ASSUME NEW S, NEW s \in Seq(S), s # <<>>
  PROVE  /\ Len(s) \in Nat \ {0} /\ DOMAIN s = 1 .. Len(s) /\ Last(s) = s[Len(s)]
         /\ Last(s) \in S
         /\ Front(s) \in Seq(S) /\ Len(Front(s)) = Len(s) - 1
         /\ DOMAIN Front(s) = 1 .. Len(s) - 1
         /\ \A i \in 1 .. Len(s) - 1 : Front(s)[i] = s[i]
<1>1. Len(s) \in Nat \ {0} /\ DOMAIN s = 1 .. Len(s) /\ \A i \in DOMAIN s : s[i] \in S
  BY EmptySeq, LenProperties, ElementOfSeq
<1>2. /\ SubSeq(s, 1, Len(s) - 1) \in Seq(S)
      /\ Len(SubSeq(s, 1, Len(s) - 1)) = Len(s) - 1
      /\ \A i \in 1 .. Len(s) - 1 : SubSeq(s, 1, Len(s) - 1)[i] = s[i]
  <2> DEFINE n == Len(s) - 1
  <2>1. n \in Nat /\ \A i \in 1 .. n : s[i] \in S
    BY <1>1
  <2>2. Len(s) = n + 1
    BY <1>1
  <2> HIDE DEF n
  <2>3. /\ SubSeq(s, 1, n) \in Seq(S)
        /\ Len(SubSeq(s, 1, n)) = IF 1 <= n THEN n - 1 + 1 ELSE 0
        /\ \A i \in 1 .. n - 1 + 1 : SubSeq(s, 1, n)[i] = s[1 + i - 1]
    BY <2>1, SubSeqProperties
  <2>4. /\ Len(SubSeq(s, 1, n)) = n
        /\ \A i \in 1 .. n : SubSeq(s, 1, n)[i] = s[i]
    BY <2>1, <2>3
  <2> QED
    BY <2>3, <2>4 DEF n
<1>3. Front(s) = SubSeq(s, 1, Len(s) - 1) /\ Last(s) = s[Len(s)]
  BY DEF Front, Last
<1>4. DOMAIN Front(s) = 1 .. Len(s) - 1
  BY <1>1, <1>2, <1>3, LenProperties
<1> QED
  BY <1>1, <1>2, <1>3, <1>4

\* The innermost frame is replaced.
LEMMA InnermostReplaced ==
  ASSUME NEW S, NEW s \in Seq(S), s # <<>>, NEW f \in S
  PROVE  LET t == Append(Front(s), f) IN
         /\ t \in Seq(S) /\ t # <<>> /\ Len(t) = Len(s) /\ DOMAIN t = DOMAIN s
         /\ Last(t) = f /\ t[Len(s)] = f
         /\ \A i \in 1 .. Len(s) - 1 : t[i] = s[i]
<1> DEFINE r == Front(s)
           t == Append(r, f)
<1>1. /\ Len(s) \in Nat \ {0} /\ DOMAIN s = 1 .. Len(s)
      /\ r \in Seq(S) /\ Len(r) = Len(s) - 1
      /\ \A i \in 1 .. Len(s) - 1 : r[i] = s[i]
  BY LastAndFront
<1> HIDE DEF r
<1>2. /\ t \in Seq(S) /\ t # <<>> /\ Len(t) = Len(r) + 1
      /\ \A i \in 1 .. Len(r) : t[i] = r[i]
      /\ t[Len(r) + 1] = f
  <2>1. r \in Seq(S) /\ t = Append(r, f)
    BY <1>1
  <2> HIDE DEF t
  <2> QED
    BY <2>1, AppendProperties
<1> HIDE DEF t
<1>3. Len(t) = Len(s) /\ t[Len(s)] = f /\ \A i \in 1 .. Len(s) - 1 : t[i] = s[i]
  BY <1>1, <1>2
<1>4. DOMAIN t = 1 .. Len(s)
  BY <1>2, <1>3, LenProperties
<1>5. Last(t) = f
  BY <1>3 DEF Last
<1> QED
  BY <1>1, <1>2, <1>3, <1>4, <1>5 DEF t, r

LEMMA FramePushed ==
  ASSUME NEW S, NEW s \in Seq(S), NEW f \in S, NEW t, t = Append(s, f)
  PROVE  /\ t \in Seq(S) /\ t # <<>> /\ Len(t) = Len(s) + 1 /\ Len(s) \in Nat
         /\ DOMAIN t = 1 .. Len(s) + 1 /\ DOMAIN s = 1 .. Len(s)
         /\ \A i \in DOMAIN s : t[i] = s[i]
         /\ t[Len(s) + 1] = f /\ Last(t) = f
<1>1. Len(s) \in Nat /\ DOMAIN s = 1 .. Len(s)
  BY LenProperties
<1>2. /\ t \in Seq(S) /\ t # <<>> /\ Len(t) = Len(s) + 1
      /\ \A i \in 1 .. Len(s) : t[i] = s[i]
      /\ t[Len(s) + 1] = f
  BY AppendProperties
<1>3. DOMAIN t = 1 .. Len(s) + 1 /\ Last(t) = f
  BY <1>1, <1>2, LenProperties DEF Last
<1> QED
  BY <1>1, <1>2, <1>3

-----------------------------------------------------------------------------
(* The directories that are made. *)

LEMMA ChainDefined ==
  \A e \in Paths :
    /\ Chain[e] \in Seq(Paths)
    /\ Chain[e] = IF Parent[e] = Top THEN <<e>> ELSE Append(Chain[Parent[e]], e)
<1> DEFINE V == Seq(Paths)
           m == [e \in Paths |-> Cardinality(Above[e])]
           F == [x \in Paths |-> [g \in [Paths -> V] |->
                   IF Parent[x] = Top THEN <<x>> ELSE Append(g[Parent[x]], x)]]
<1>1. \A e \in Paths : IsFiniteSet(Above[e]) /\ Cardinality(Above[e]) \in Nat
  BY AboveTyped, PlatformFileAssumption, FS_Subset, FS_CardinalityType
<1>2. m \in [Paths -> Nat]
  BY <1>1
<1>3. <<>> \in V
  BY EmptySeq
<1>4. F \in [Paths -> [[Paths -> V] -> V]]
  <2>1. ASSUME NEW x \in Paths, NEW g \in [Paths -> V]
        PROVE  (IF Parent[x] = Top THEN <<x>> ELSE Append(g[Parent[x]], x)) \in V
    BY ParentTyped
  <2> QED
    BY <2>1
<1>5. ASSUME NEW x \in Paths, Parent[x] # Top
      PROVE  Parent[x] \in Paths /\ m[Parent[x]] < m[x]
  <2> DEFINE p == Parent[x]
  <2>1. p \in Paths /\ Above[x] = {p} \cup Above[p] /\ p \notin Above[p]
    BY <1>5, ParentTyped, AboveDefined, AboveAcyclic
  <2> HIDE DEF p
  <2>2. IsFiniteSet(Above[p]) /\ Cardinality(Above[p]) \in Nat
    BY <1>1, <2>1
  <2>3. Cardinality(Above[p] \cup {p}) = Cardinality(Above[p]) + 1
    BY <2>1, <2>2, FS_AddElement
  <2>4. Above[x] = Above[p] \cup {p}
    BY <2>1
  <2>5. m[p] = Cardinality(Above[p]) /\ m[x] = Cardinality(Above[x])
    BY <2>1
  <2> HIDE DEF m
  <2>6. m[p] < m[x]
    BY <2>2, <2>3, <2>4, <2>5
  <2> QED
    BY <2>1, <2>6 DEF p
<1>6. IsRecursion(Paths, m, V, F)
  <2> SUFFICES ASSUME NEW x \in Paths, NEW g \in [Paths -> V], NEW h \in [Paths -> V],
                      \A y \in Paths : m[y] < m[x] => g[y] = h[y]
               PROVE  F[x][g] = F[x][h]
    BY <1>2, <1>3, <1>4 DEF IsRecursion
  <2>1. CASE Parent[x] = Top
    BY <2>1
  <2>2. CASE Parent[x] # Top
    <3>1. g[Parent[x]] = h[Parent[x]]
      BY <1>5, <2>2
    <3> QED
      BY <2>2, <3>1
  <2> QED
    BY <2>1, <2>2
<1> HIDE DEF m
<1>7. PICK f \in [Paths -> V] : \A x \in Paths : f[x] = F[x][f]
  <2> HIDE DEF V, F
  <2> QED
    BY <1>6, RecursionExists
<1>8. f = [e \in Paths |-> IF Parent[e] = Top THEN <<e>> ELSE Append(f[Parent[e]], e)]
  BY <1>7
<1>9. Chain = [e \in Paths |-> IF Parent[e] = Top THEN <<e>> ELSE Append(Chain[Parent[e]], e)]
  <2> HIDE DEF F
  <2> QED
    BY <1>8 DEF Chain
<1> DEFINE T == {e \in Paths : Chain[e] \in Seq(Paths)}
<1>10. ASSUME NEW e \in Paths, Parent[e] = Top \/ Parent[e] \in T
       PROVE  e \in T
  <2>1. Chain[e] = IF Parent[e] = Top THEN <<e>> ELSE Append(Chain[Parent[e]], e)
    BY <1>9
  <2>2. Parent[e] # Top => Chain[Parent[e]] \in Seq(Paths)
    BY <1>10
  <2>3. CASE Parent[e] = Top
    <3>1. <<e>> \in Seq(Paths)
      OBVIOUS
    <3> QED
      BY <2>1, <2>3, <3>1
  <2>4. CASE Parent[e] # Top
    <3> DEFINE s == Chain[Parent[e]]
    <3>1. Chain[e] = Append(s, e) /\ s \in Seq(Paths)
      BY <2>1, <2>2, <2>4
    <3> HIDE DEF s
    <3>2. Append(s, e) \in Seq(Paths)
      BY <3>1, AppendProperties
    <3> QED
      BY <3>1, <3>2
  <2> QED
    BY <2>3, <2>4
<1> HIDE DEF T, F
<1>11. Paths \subseteq T
  BY <1>10, TreeInduction
<1> QED
  BY <1>9, <1>11 DEF T

\* The outermost first, each in the one before it, the path itself last.
InChain(s) ==
  \A i \in DOMAIN s : Parent[s[i]] = Top \/ (i > 1 /\ Parent[s[i]] = s[i - 1])

LEMMA ChainInOrder ==
  \A e \in Paths : /\ Chain[e] # <<>> /\ InChain(Chain[e])
                   /\ ToSet(Chain[e]) = {e} \cup Above[e]
                   /\ Chain[e][Len(Chain[e])] = e
<1> DEFINE Ok(s, e) == /\ s # <<>> /\ InChain(s)
                       /\ ToSet(s) = {e} \cup Above[e] /\ s[Len(s)] = e
           T == {e \in Paths : Ok(Chain[e], e)}
<1>1. ASSUME NEW e \in Paths, Parent[e] = Top \/ Parent[e] \in T
      PROVE  e \in T
  <2>1. CASE Parent[e] = Top
    <3>1. Chain[e] = <<e>> /\ Above[e] = {}
      BY <2>1, ChainDefined, AboveDefined
    <3>2. DOMAIN <<e>> = {1} /\ <<e>>[1] = e /\ Len(<<e>>) = 1
      OBVIOUS
    <3> QED
      BY <2>1, <3>1, <3>2 DEF InChain, ToSet
  <2>2. CASE Parent[e] # Top
    <3> DEFINE p == Parent[e]
               s == Chain[p]
               t == Append(s, e)
    <3>1. p \in Paths /\ s \in Seq(Paths) /\ Ok(s, p) /\ Chain[e] = t
          /\ Above[e] = {p} \cup Above[p]
      BY <1>1, <2>2, ChainDefined, AboveDefined, ParentTyped
    <3> HIDE DEF s
    <3>2. /\ t # <<>> /\ Len(t) = Len(s) + 1 /\ Len(s) \in Nat
          /\ DOMAIN t = 1 .. Len(s) + 1 /\ DOMAIN s = 1 .. Len(s)
          /\ \A i \in DOMAIN s : t[i] = s[i]
          /\ t[Len(s) + 1] = e
      BY <3>1, FramePushed
    <3> HIDE DEF t
    <3>3. Len(s) > 0
      BY <3>1, EmptySeq
    <3>4. InChain(t)
      <4> SUFFICES ASSUME NEW i \in DOMAIN t
                   PROVE  Parent[t[i]] = Top \/ (i > 1 /\ Parent[t[i]] = t[i - 1])
        BY DEF InChain
      <4>1. CASE i = Len(s) + 1
        BY <3>1, <3>2, <3>3, <4>1
      <4>2. CASE i # Len(s) + 1
        <5>1. i \in DOMAIN s /\ (i > 1 => i - 1 \in DOMAIN s)
          BY <3>2, <4>2
        <5> QED
          BY <3>1, <3>2, <5>1 DEF InChain
      <4> QED
        BY <4>1, <4>2
    <3>5. ToSet(t) = ToSet(s) \cup {e}
      <4>1. ASSUME NEW i \in DOMAIN t
            PROVE  t[i] \in ToSet(s) \cup {e}
        <5>1. i = Len(s) + 1 \/ i \in DOMAIN s
          BY <3>2
        <5> QED
          BY <3>2, <5>1 DEF ToSet
      <4>2. ToSet(s) \cup {e} \subseteq ToSet(t)
        BY <3>2 DEF ToSet
      <4> QED
        BY <4>1, <4>2 DEF ToSet
    <3> QED
      BY <3>1, <3>2, <3>4, <3>5
  <2> QED
    BY <2>1, <2>2
<1> HIDE DEF T
<1>2. Paths \subseteq T
  BY <1>1, TreeInduction
<1> QED
  BY <1>2 DEF T

LEMMA DirsInOrder ==
  ASSUME NEW k, k.path \in Paths
  PROVE  /\ DirsToMake(k) \in Seq(Paths) /\ InChain(DirsToMake(k))
         /\ k.op = "parent" => k.path \notin ToSet(DirsToMake(k))
<1> DEFINE e == k.path
           s == Chain[e]
           r == Front(s)
<1>1. s \in Seq(Paths) /\ s # <<>> /\ InChain(s) /\ s[Len(s)] = e
  BY ChainDefined, ChainInOrder
<1> HIDE DEF s
<1>2. /\ Len(s) \in Nat \ {0} /\ DOMAIN s = 1 .. Len(s)
      /\ r \in Seq(Paths) /\ DOMAIN r = 1 .. Len(s) - 1
      /\ \A i \in 1 .. Len(s) - 1 : r[i] = s[i]
  BY <1>1, LastAndFront
<1> HIDE DEF r
<1>3. InChain(r)
  <2> SUFFICES ASSUME NEW i \in DOMAIN r
               PROVE  Parent[r[i]] = Top \/ (i > 1 /\ Parent[r[i]] = r[i - 1])
    BY DEF InChain
  <2>1. i \in DOMAIN s /\ r[i] = s[i] /\ (i > 1 => r[i - 1] = s[i - 1])
    BY <1>2
  <2> QED
    BY <1>1, <2>1 DEF InChain
<1>4. e \notin ToSet(r)
  <2>1. CASE Parent[e] = Top
    <3>1. s = <<e>>
      BY <2>1, ChainDefined DEF s
    <3>2. DOMAIN r = {}
      BY <1>2, <3>1
    <3> QED
      BY <3>2 DEF ToSet
  <2>2. CASE Parent[e] # Top
    <3> DEFINE p == Parent[e]
               q == Chain[p]
    <3>1. p \in Paths /\ q \in Seq(Paths) /\ s = Append(q, e)
      BY <2>2, ChainDefined, ParentTyped DEF s
    <3>2. ToSet(q) = {p} \cup Above[p] /\ Above[e] = {p} \cup Above[p]
      BY <2>2, <3>1, ChainInOrder, AboveDefined
    <3>3. e \notin ToSet(q)
      BY <3>2, AboveAcyclic
    <3> HIDE DEF q
    <3>4. Len(s) = Len(q) + 1 /\ Len(q) \in Nat /\ DOMAIN q = 1 .. Len(q)
          /\ \A i \in DOMAIN q : s[i] = q[i]
      BY <3>1, FramePushed
    <3>5. \A i \in DOMAIN r : i \in DOMAIN q /\ r[i] = q[i]
      BY <1>2, <3>4
    <3> QED
      BY <3>3, <3>5 DEF ToSet
  <2> QED
    BY <2>1, <2>2
<1> QED
  BY <1>1, <1>2, <1>3, <1>4 DEF DirsToMake, s, r

-----------------------------------------------------------------------------
(* One thread steps at a time. *)

Acts(c) == StartNothing(c) \/ StartMake(c) \/ StartWalk(c) \/ Step(c)

LEMMA ThreadsAct ==
  ASSUME [Next]_vars
  PROVE  (\E c \in Callers : Acts(c)) \/ UNCHANGED vars
  BY DEF Next, Acts

\* Nothing of a thread has changed.
Still(o) ==
  /\ call'[o] = call[o] /\ pc'[o] = pc[o] /\ ok'[o] = ok[o] /\ steps'[o] = steps[o]
  /\ stack'[o] = stack[o] /\ at'[o] = at[o]
  /\ size'[o] = size[o] /\ read'[o] = read[o] /\ child'[o] = child[o]

MakesDir(c) ==
  /\ pc[c] = "mkdir" /\ steps[c] # <<>>
  /\ ~Exists(Head(steps[c])) /\ CanHold(Head(steps[c]))
  /\ disk' = [disk EXCEPT ![Head(steps[c])] = "dir"]

RemovesEntry(c) ==
  /\ pc[c] \in {"remove", "rmdir"} /\ CanRemove(at[c])
  /\ disk' = [disk EXCEPT ![at[c]] = "none"]

LEMMA OneThreadSteps ==
  ASSUME Typed, NEW c \in Callers, Acts(c)
  PROVE  /\ UNCHANGED env
         /\ \A o \in Callers \ {c} : Still(o)
         /\ disk' = disk \/ MakesDir(c) \/ RemovesEntry(c)
<1>1. CASE StartNothing(c)
  BY <1>1 DEF StartNothing, Typed, DiskTyped, LocalTyped, Still, Set, tree
<1>2. CASE StartMake(c)
  BY <1>2 DEF StartMake, Typed, DiskTyped, LocalTyped, Still, Set, tree
<1>3. CASE StartWalk(c)
  BY <1>3 DEF StartWalk, Typed, DiskTyped, LocalTyped, Still, Set, tree
<1>4. CASE MakeStep(c)
  BY <1>4 DEF MakeStep, Fail, Typed, DiskTyped, LocalTyped, Still, Set, tree, MakesDir, Makes
<1>5. CASE MakeDone(c)
  BY <1>5 DEF MakeDone, Typed, DiskTyped, LocalTyped, Still, Set, tree
<1>6. CASE ReadGone(c)
  BY <1>6 DEF ReadGone, Reads, Typed, DiskTyped, LocalTyped, Still, Set, tree
<1>7. CASE ReadToRemove(c)
  BY <1>7 DEF ReadToRemove, Reads, Typed, DiskTyped, LocalTyped, Still, Set, tree
<1>8. CASE ReadToSearch(c)
  BY <1>8 DEF ReadToSearch, Reads, Typed, DiskTyped, LocalTyped, Still, Set
<1>9. CASE EnterOpens(c)
  BY <1>9 DEF EnterOpens, Typed, DiskTyped, LocalTyped, Still, Set, tree
<1>10. CASE EnterFails(c)
  BY <1>10 DEF EnterFails, Typed, DiskTyped, LocalTyped, Still, Set, tree
<1>11. CASE RemoveFrameEnds(c)
  BY <1>11 DEF RemoveFrameEnds, Typed, DiskTyped, LocalTyped, Still, Set, tree
<1>12. CASE SearchFrameEnds(c)
  BY <1>12 DEF SearchFrameEnds, Typed, DiskTyped, LocalTyped, Still, Set
<1>13. CASE RemoveEntry(c) \/ RemoveDir(c)
  BY <1>13 DEF RemoveEntry, RemoveDir, Removed, Typed, DiskTyped, LocalTyped, Still, Set, tree, RemovesEntry
<1>14. CASE FreeFileInfo(c)
  BY <1>14 DEF FreeFileInfo, Typed, DiskTyped, LocalTyped, Still, Set
<1> QED
  BY <1>1, <1>2, <1>3, <1>4, <1>5, <1>6, <1>7, <1>8, <1>9, <1>10, <1>11, <1>12,
     <1>13, <1>14 DEF Acts, Step

LEMMA DiskStaysTyped ==
  ASSUME Typed, NEW c \in Callers, Acts(c), Placed(c), Walk(c)
  PROVE  /\ disk' \in [Paths -> Kinds]
         /\ \A x \in Paths : disk'[x] \in {disk[x], "none", "dir"}
<1>1. CASE disk' = disk
  BY <1>1 DEF Typed, DiskTyped, LocalTyped
<1>2. CASE MakesDir(c)
  BY <1>2 DEF MakesDir, Typed, DiskTyped, Kinds
<1>3. CASE RemovesEntry(c)
  BY <1>3 DEF RemovesEntry, Typed, DiskTyped, Kinds
<1> QED
  BY <1>1, <1>2, <1>3, OneThreadSteps

LEMMA CallStays ==
  ASSUME WalkInv, NEW c \in Callers, Acts(c)
  PROVE  \/ call' = call
         \/ /\ call[c] = NoCall /\ pc[c] = "idle"
            /\ \E k \in Calls[c] : call' = [call EXCEPT ![c] = k] /\ call'[c] = k
<1>1. call \in [Callers -> AnyCall] /\ (pc[c] = "idle" => call[c] = NoCall)
  BY DEF WalkInv, Typed, LocalTyped, Placed
<1>2. CASE StartNothing(c) \/ StartMake(c) \/ StartWalk(c)
  <2>1. pc[c] = "idle" /\ \E k \in Calls[c] : call' = [call EXCEPT ![c] = k]
    BY <1>2 DEF StartNothing, StartMake, StartWalk, Set
  <2> QED
    BY <1>1, <2>1
<1>3. CASE Step(c)
  BY <1>3 DEF Step, MakeStep, MakeDone, ReadGone, ReadToRemove, ReadToSearch,
              EnterOpens, EnterFails, RemoveFrameEnds, SearchFrameEnds,
              RemoveEntry, RemoveDir, Removed, FreeFileInfo
<1> QED
  BY <1>2, <1>3 DEF Acts

\* A thread that makes a call of one kind goes on making it.
LEMMA CallKept ==
  ASSUME WalkInv, NEW c \in Callers, Acts(c), NEW o \in Callers, call[o] # NoCall
  PROVE  call'[o] = call[o]
<1>1. call \in [Callers -> AnyCall]
  BY DEF WalkInv, Typed, LocalTyped
<1> QED
  BY <1>1, CallStays

LEMMA OthersStay ==
  ASSUME WalkInv, NEW o \in Callers, Acts(o), NEW c \in Callers, NEW ops,
         "none" \notin ops, Others(c, ops)
  PROVE  Others(c, ops)'
<1>1. PICK p \in Callers \ {c} : call[p].op \in ops
  BY DEF Others
<1>2. call'[p] = call[p]
  BY <1>1, CallKept DEF NoCall
<1> QED
  BY <1>1, <1>2 DEF Others

\* What was made meanwhile is noticed only where others make directories.
LEMMA AnewKept ==
  ASSUME WalkInv, NEW c \in Callers, Acts(c)
  PROVE  AnewOk'
<1>1. AnewOk /\ Typed /\ Placed(c)
  BY DEF WalkInv
<1>2. ASSUME NEW o \in Callers, Others(o, {"make", "parent"})
      PROVE  Others(o, {"make", "parent"})'
  BY <1>2, OthersStay
<1>3. CASE anew' = anew
  BY <1>1, <1>2, <1>3 DEF AnewOk
<1>4. ASSUME NEW X, anew' = [anew EXCEPT ![c] = @ \ X]
      PROVE  AnewOk'
  BY <1>1, <1>2, <1>4 DEF AnewOk
<1>5. ASSUME NEW e, NEW l, Reads(c, e, l)
      PROVE  AnewOk'
  BY <1>3, <1>4, <1>5 DEF Reads
<1>6. ASSUME NEW e \in Paths, Makes(e), pc[c] = "mkdir"
      PROVE  AnewOk'
  <2>1. Opened(c) = {}
    BY <1>1, <1>6 DEF Placed, Opened
  <2>2. \A o \in Callers \ {c} : Others(o, {"make", "parent"})
    BY <1>1, <1>6 DEF Placed, Others
  <2>3. anew' = [o \in Callers |-> IF Parent[e] \in Opened(o) THEN anew[o] \cup {e} ELSE anew[o]]
    BY <1>6 DEF Makes
  <2>4. anew'[c] = anew[c] /\ anew' \in [Callers -> SUBSET Paths]
    BY <1>1, <1>6, <2>1, <2>3 DEF AnewOk
  <2> QED
    BY <1>1, <1>2, <2>2, <2>4 DEF AnewOk
<1>7. CASE MakeStep(c)
  <2>1. pc[c] = "mkdir" /\ Head(steps[c]) \in Paths
    BY <1>1, <1>7 DEF MakeStep, Typed, LocalTyped
  <2>2. anew' = anew \/ Makes(Head(steps[c]))
    BY <1>7 DEF MakeStep
  <2> QED
    BY <1>3, <1>6, <2>1, <2>2
<1>8. CASE ReadGone(c) \/ ReadToRemove(c) \/ ReadToSearch(c)
  BY <1>5, <1>8 DEF ReadGone, ReadToRemove, ReadToSearch
<1>9. CASE EnterOpens(c)
  BY <1>4, <1>9 DEF EnterOpens
<1>10. CASE \/ StartNothing(c) \/ StartMake(c) \/ StartWalk(c) \/ MakeDone(c) \/ EnterFails(c)
            \/ RemoveFrameEnds(c) \/ SearchFrameEnds(c) \/ RemoveEntry(c) \/ RemoveDir(c)
            \/ FreeFileInfo(c)
  BY <1>3, <1>10 DEF StartNothing, StartMake, StartWalk, MakeDone, EnterFails,
     RemoveFrameEnds, SearchFrameEnds, RemoveEntry, RemoveDir, Removed, FreeFileInfo
<1> QED
  BY <1>7, <1>8, <1>9, <1>10 DEF Acts, Step

\* So it is enough to look at the thread that steps.
LEMMA ThisThread ==
  ASSUME WalkInv, NEW c \in Callers, Acts(c),
         Placed(c)', Walk(c)', LocalTyped'
  PROVE  WalkInv'
<1>1. Typed /\ \A o \in Callers : Placed(o) /\ Walk(o)
  BY DEF WalkInv
<1>2. /\ UNCHANGED env /\ \A o \in Callers \ {c} : Still(o)
      /\ disk' \in [Paths -> Kinds]
      /\ \A x \in Paths : disk'[x] \in {disk[x], "none", "dir"}
  BY <1>1, OneThreadSteps, DiskStaysTyped
<1>3. Typed'
  BY <1>1, <1>2 DEF Typed, DiskTyped, env
<1>4. ASSUME NEW o \in Callers \ {c}
      PROVE  Placed(o)' /\ Walk(o)'
  <2>1. Placed(o) /\ Walk(o) /\ Still(o)
    BY <1>1, <1>2
  <2>2. Placed(o)'
    BY <2>1 DEF Placed, Still, Removing, Searching
  <2>3. \A f \in Frames : FrameOk(o, f) => FrameOk(o, f)'
    BY <2>1 DEF FrameOk, EntriesOf, Still, Searching
  <2>4. \A f \in Frames : \A e : ReadFrom(o, f, e) => ReadFrom(o, f, e)'
    BY <2>1 DEF ReadFrom, EntriesOf, Still
  <2>5. \A i \in DOMAIN stack[o] : stack[o][i] \in Frames
    BY <1>1, LenProperties, ElementOfSeq DEF Typed, DiskTyped, LocalTyped
  <2>6. /\ stack'[o] = stack[o] /\ pc'[o] = pc[o] /\ at'[o] = at[o]
        /\ call'[o] = call[o] /\ size'[o] = size[o]
    BY <2>1 DEF Still
  <2>7. ASSUME NEW i \in DOMAIN stack[o]
        PROVE  /\ FrameOk(o, stack[o][i])'
               /\ i = 1 <=> stack'[o][i].dir = Top
               /\ i > 1 => ReadFrom(o, stack[o][i - 1], stack[o][i].dir)'
    <3>1. i > 1 => i - 1 \in DOMAIN stack[o]
      BY <1>1, LenProperties DEF Typed, DiskTyped, LocalTyped
    <3>2. FrameOk(o, stack[o][i])' /\ (i = 1 <=> stack'[o][i].dir = Top)
      BY <2>1, <2>3, <2>5, <2>6 DEF Walk, StackOk, FrameOk, EntriesOf, Searching
    <3>3. i > 1 => ReadFrom(o, stack[o][i - 1], stack[o][i].dir)'
      BY <2>1, <2>6 DEF Walk, StackOk, ReadFrom, EntriesOf
    <3> QED
      BY <3>2, <3>3
  <2>8. /\ pc'[o] \in {"enter", "remove", "rmdir"} =>
             at'[o] \in Paths /\ ReadFrom(o, stack[o][Len(stack[o])], at[o])'
        /\ pc'[o] = "enter" => disk'[at'[o]] \in {"none", "dir"}
        /\ Searching(o)' => DOMAIN size'[o] \subseteq Under(call'[o].path)
    BY <1>2, <2>1, <2>6 DEF Walk, ReadFrom, EntriesOf, Searching
  <2>9. Walk(o)'
    BY <2>6, <2>7, <2>8 DEF Walk, StackOk
  <2> QED
    BY <2>2, <2>9
<1> QED
  BY <1>3, <1>4, AnewKept DEF WalkInv

-----------------------------------------------------------------------------
(* The walk, action by action. *)

LEMMA CallTyped ==
  ASSUME NEW c \in Callers, NEW k \in Calls[c]
  PROVE  /\ k \in AnyCall /\ k.op \in {"make", "parent", "remove", "search"}
         /\ k.path \in Paths \cup {Top} /\ k.sortMode \in {"none", "name", "time", "unknown"}
<1>1. Calls[c] \subseteq [op : {"make", "parent", "remove", "search"},
                          path : Paths \cup {Top},
                          sortMode : {"none", "name", "time", "unknown"}]
  BY PlatformFileAssumption
<1> QED
  BY <1>1 DEF AnyCall

\* What is known of the innermost frame.
InnerFacts(c) ==
  /\ stack[c] \in Seq(Frames) /\ Len(stack[c]) \in Nat \ {0}
  /\ DOMAIN stack[c] = 1 .. Len(stack[c])
  /\ Inner(c) = stack[c][Len(stack[c])] /\ Inner(c) \in Frames /\ FrameOk(c, Inner(c))
  /\ AtRoot(c) <=> Inner(c).dir = Top
  /\ call[c].path \in Paths /\ call[c].op \in {"remove", "search"}
  /\ Under(call[c].path) \subseteq Paths
  /\ EntriesOf(c, Inner(c).dir) \subseteq Under(call[c].path)
  /\ Front(stack[c]) \in Seq(Frames) /\ Len(Front(stack[c])) = Len(stack[c]) - 1
  /\ DOMAIN Front(stack[c]) = 1 .. Len(stack[c]) - 1
  /\ \A i \in 1 .. Len(stack[c]) - 1 : Front(stack[c])[i] = stack[c][i]

LEMMA InnerOk ==
  ASSUME WalkInv, NEW c \in Callers, pc[c] \in {"read", "enter", "remove", "rmdir"}
  PROVE  InnerFacts(c)
<1>1. /\ stack[c] \in Seq(Frames) /\ stack[c] # <<>> /\ Walk(c) /\ Placed(c)
      /\ call[c].path \in Paths /\ call[c].op \in {"remove", "search"}
  BY DEF WalkInv, Typed, LocalTyped, Placed, Removing
<1>2. /\ Len(stack[c]) \in Nat \ {0} /\ DOMAIN stack[c] = 1 .. Len(stack[c])
      /\ Last(stack[c]) = stack[c][Len(stack[c])] /\ Last(stack[c]) \in Frames
      /\ Front(stack[c]) \in Seq(Frames) /\ Len(Front(stack[c])) = Len(stack[c]) - 1
      /\ DOMAIN Front(stack[c]) = 1 .. Len(stack[c]) - 1
      /\ \A i \in 1 .. Len(stack[c]) - 1 : Front(stack[c])[i] = stack[c][i]
  BY <1>1, LastAndFront
<1>3. Len(stack[c]) \in DOMAIN stack[c]
  BY <1>2
<1>4. FrameOk(c, Inner(c)) /\ (AtRoot(c) <=> Inner(c).dir = Top)
  BY <1>1, <1>2, <1>3 DEF Walk, StackOk, Inner, AtRoot
<1>5. Under(call[c].path) \subseteq Paths
  BY <1>1, UnderByParent
<1>6. EntriesOf(c, Inner(c).dir) \subseteq Under(call[c].path)
  BY <1>1, <1>4, EntriesUnder DEF FrameOk
<1> QED
  BY <1>1, <1>2, <1>4, <1>5, <1>6 DEF InnerFacts, Inner

\* The innermost frame f is replaced by one in which more was read.
\* What readdir returns: an entry that was not read yet, or one made meanwhile.
LEMMA ReturnedEntry ==
  ASSUME WalkInv, NEW c \in Callers, pc[c] = "read", NEW e \in Returned(c)
  PROVE  /\ e \in EntriesOf(c, Inner(c).dir)
         /\ AtRoot(c) \/ Searching(c) \/ Alone(c) =>
              e \in Inner(c).unread /\ (e \in Inner(c).present \/ Exists(e))
<1>1. InnerFacts(c) /\ AnewOk
  BY InnerOk DEF WalkInv
<1>2. CASE e \in Inner(c).unread /\ (e \in Inner(c).present \/ Exists(e))
  BY <1>1, <1>2 DEF InnerFacts, FrameOk
<1>3. CASE Removing(c) /\ e \in Anew(c)
  <2>1. ~AtRoot(c) /\ e \in anew[c] /\ e \in ChildrenOf(Inner(c).dir)
    BY <1>3 DEF Anew
  <2>2. ~Alone(c)
    BY <1>1, <2>1 DEF AnewOk, Alone, Others
  <2>3. ~Searching(c) /\ Inner(c).dir # Top
    BY <1>1, <1>3, <2>1 DEF InnerFacts, Removing, Searching
  <2> QED
    BY <2>1, <2>2, <2>3 DEF EntriesOf
<1> QED
  BY <1>2, <1>3 DEF Returned

\* At the end of a directory nothing is left of what was there at the opening.
LEMMA AllRead ==
  ASSUME WalkInv, NEW c \in Callers, ReadAll(c), AtRoot(c) \/ Alone(c)
  PROVE  \A x \in Inner(c).unread \cap Inner(c).present : ~Exists(x)
<1>1. Anew(c) = {}
  BY DEF WalkInv, AnewOk, Anew, Alone, Others
<1> QED
  BY <1>1 DEF ReadAll

LEMMA InnermostReads ==
  ASSUME WalkInv, NEW c \in Callers, pc[c] = "read", call'[c] = call[c],
         NEW f \in Frames, f.dir = Inner(c).dir, f.unread \subseteq Inner(c).unread,
         FrameOk(c, f)', stack'[c] = Append(Front(stack[c]), f),
         DOMAIN size[c] \subseteq DOMAIN size'[c]
  PROVE  /\ stack'[c] \in Seq(Frames) /\ stack'[c] # <<>>
         /\ Len(stack'[c]) = Len(stack[c]) /\ stack'[c][Len(stack[c])] = f
         /\ \A i \in 1 .. Len(stack[c]) - 1 : stack'[c][i] = stack[c][i]
         /\ Inner(c)' = f /\ StackOk(c)'
<1> DEFINE n == Len(stack[c])
<1>1. /\ stack[c] \in Seq(Frames) /\ n \in Nat \ {0} /\ DOMAIN stack[c] = 1 .. n
      /\ stack[c][n] = Inner(c) /\ StackOk(c)
  BY InnerOk DEF InnerFacts, WalkInv, Walk
<1>2. stack[c] # <<>>
  BY <1>1
<1>3. /\ stack'[c] \in Seq(Frames) /\ stack'[c] # <<>> /\ Len(stack'[c]) = n
      /\ DOMAIN stack'[c] = 1 .. n /\ Last(stack'[c]) = f /\ stack'[c][n] = f
      /\ \A i \in 1 .. n - 1 : stack'[c][i] = stack[c][i]
  BY <1>1, <1>2, InnermostReplaced
<1>4. \A g \in Frames : FrameOk(c, g) => FrameOk(c, g)'
  BY DEF FrameOk, EntriesOf, Searching
<1>5. \A g, e : ReadFrom(c, g, e)' <=> ReadFrom(c, g, e)
  BY DEF ReadFrom, EntriesOf
<1>6. \A i \in 1 .. n : stack[c][i] \in Frames
  BY <1>1, ElementOfSeq
<1> HIDE DEF n
<1>7. ASSUME NEW i \in 1 .. n
      PROVE  /\ FrameOk(c, stack[c][i])'
             /\ i = 1 <=> stack'[c][i].dir = Top
             /\ i > 1 => ReadFrom(c, stack[c][i - 1], stack[c][i].dir)'
  <2>1. stack[c][i].dir = stack'[c][i].dir
    BY <1>1, <1>3, <1>7
  <2>2. FrameOk(c, stack[c][i])'
    <3>1. CASE i = n
      <4>1. stack'[c][i] = f
        BY <1>3, <3>1
      <4> QED
        BY <4>1
    <3>2. CASE i # n
      <4>1. i \in 1 .. n - 1
        BY <1>1, <3>2
      <4>2. FrameOk(c, stack[c][i]) /\ stack'[c][i] = stack[c][i] /\ stack[c][i] \in Frames
        BY <1>1, <1>3, <1>6, <4>1 DEF StackOk
      <4> QED
        BY <1>4, <4>2
    <3> QED
      BY <3>1, <3>2
  <2>3. i = 1 <=> stack'[c][i].dir = Top
    BY <1>1, <2>1 DEF StackOk
  <2>4. i > 1 => ReadFrom(c, stack[c][i - 1], stack[c][i].dir)'
    <3> SUFFICES ASSUME i > 1 PROVE ReadFrom(c, stack[c][i - 1], stack[c][i].dir)'
      OBVIOUS
    <3>1. i - 1 \in 1 .. n - 1
      BY <1>1
    <3>2. ReadFrom(c, stack[c][i - 1], stack[c][i].dir) /\ stack'[c][i - 1] = stack[c][i - 1]
      BY <1>1, <1>3, <3>1 DEF StackOk
    <3> QED
      BY <2>1, <3>2 DEF ReadFrom, EntriesOf
  <2> QED
    BY <2>2, <2>3, <2>4
<1>8. StackOk(c)'
  BY <1>3, <1>7 DEF StackOk
<1> QED
  BY <1>3, <1>8 DEF Inner, n

LEMMA StartNothingWalks ==
  ASSUME WalkInv, NEW c \in Callers, StartNothing(c)
  PROVE  WalkInv'
<1>1. Typed /\ LocalTyped /\ Placed(c) /\ Walk(c) /\ pc[c] = "idle" /\ stack[c] = <<>>
  BY DEF WalkInv, Typed, Placed, StartNothing
<1>2. PICK k \in Calls[c] : k.path = Top /\ call' = Set(call, c, k)
  BY DEF StartNothing
<1>3. /\ k \in AnyCall
      /\ pc' = Set(pc, c, "done") /\ UNCHANGED <<disk, ok, steps, stack, at, size, read, child>>
  BY CallTyped DEF StartNothing, tree
<1>4. LocalTyped'
  BY <1>1, <1>2, <1>3 DEF LocalTyped, Set
<1>5. pc'[c] = "done" /\ stack'[c] = <<>> /\ DOMAIN size'[c] = {}
  BY <1>1, <1>3 DEF LocalTyped, Set, Placed
<1>6. Placed(c)'
  BY <1>5 DEF Placed
<1>7. Walk(c)'
  BY <1>5 DEF Walk, StackOk
<1> QED
  BY <1>4, <1>6, <1>7, ThisThread DEF Acts

LEMMA StartMakeWalks ==
  ASSUME WalkInv, NEW c \in Callers, StartMake(c)
  PROVE  WalkInv'
<1>1. Typed /\ LocalTyped /\ Placed(c) /\ Walk(c) /\ pc[c] = "idle" /\ stack[c] = <<>>
  BY DEF WalkInv, Typed, Placed, StartMake
<1>2. PICK k \in Calls[c] :
        /\ k.op \in {"make", "parent"} /\ k.path # Top /\ call' = Set(call, c, k)
        /\ \/ ok' = Set(ok, c, FALSE) /\ pc' = Set(pc, c, "done") /\ UNCHANGED steps
           \/ steps' = Set(steps, c, DirsToMake(k)) /\ pc' = Set(pc, c, "mkdir") /\ UNCHANGED ok
  BY DEF StartMake
<1>3. /\ k \in AnyCall /\ k.path \in Paths
      /\ UNCHANGED <<disk, stack, at, size, read, child>>
  BY <1>2, CallTyped DEF StartMake, tree
<1>4. DirsToMake(k) \in Seq(Paths)
  BY <1>3, DirsInOrder
<1>5. LocalTyped'
  <2> HIDE DEF DirsToMake
  <2>1. CASE pc' = Set(pc, c, "done")
    BY <1>1, <1>2, <1>3, <2>1 DEF LocalTyped, Set
  <2>2. CASE steps' = Set(steps, c, DirsToMake(k)) /\ pc' = Set(pc, c, "mkdir") /\ UNCHANGED ok
    BY <1>1, <1>2, <1>3, <1>4, <2>2 DEF LocalTyped, Set
  <2> QED
    BY <1>2, <2>1, <2>2
<1>6. /\ pc'[c] \in {"done", "mkdir"} /\ stack'[c] = <<>> /\ DOMAIN size'[c] = {} /\ call'[c] = k
  BY <1>1, <1>2, <1>3 DEF LocalTyped, Set, Placed
<1>7. Placed(c)'
  BY <1>2, <1>3, <1>6 DEF Placed
<1>8. Walk(c)'
  BY <1>6 DEF Walk, StackOk
<1> QED
  BY <1>5, <1>7, <1>8, ThisThread DEF Acts

LEMMA StartWalkWalks ==
  ASSUME WalkInv, NEW c \in Callers, StartWalk(c)
  PROVE  WalkInv'
<1>1. Typed /\ LocalTyped /\ Placed(c) /\ Walk(c) /\ pc[c] = "idle" /\ stack[c] = <<>>
  BY DEF WalkInv, Typed, Placed, StartWalk
<1>2. PICK k \in Calls[c] :
        /\ k.op \in {"remove", "search"} /\ k.path # Top /\ call' = Set(call, c, k)
        /\ stack' = Set(stack, c, <<Frame(Top, {k.path}, {k.path})>>)
  BY DEF StartWalk
<1>3. /\ k \in AnyCall /\ k.path \in Paths
      /\ pc' = Set(pc, c, "read") /\ UNCHANGED <<disk, ok, steps, at, size, read, child>>
  BY <1>2, CallTyped DEF StartWalk, tree
<1> DEFINE f == Frame(Top, {k.path}, {k.path})
<1>4. /\ f \in Frames /\ f.dir = Top /\ f.unread = {k.path} /\ f.present = {k.path}
      /\ f.list = <<>> /\ <<f>> \in Seq(Frames) /\ <<f>> # <<>>
  BY <1>3, EmptySeq DEF Frame, Frames
<1> HIDE DEF f
<1>5. LocalTyped'
  BY <1>1, <1>2, <1>3, <1>4 DEF LocalTyped, Set, f
<1>6. /\ pc'[c] = "read" /\ stack'[c] = <<f>> /\ DOMAIN size'[c] = {} /\ call'[c] = k
  BY <1>1, <1>2, <1>3 DEF LocalTyped, Set, Placed, f
<1>7. Placed(c)'
  BY <1>2, <1>3, <1>4, <1>6 DEF Placed
<1>8. FrameOk(c, f)'
  BY <1>4, <1>6 DEF FrameOk, EntriesOf, ToSet, IsInjective
<1>9. StackOk(c)'
  <2>1. DOMAIN stack'[c] = {1} /\ stack'[c][1] = f
    BY <1>6
  <2> QED
    BY <1>4, <1>8, <2>1 DEF StackOk
<1>10. Walk(c)'
  BY <1>6, <1>9 DEF Walk
<1> QED
  BY <1>5, <1>7, <1>10, ThisThread DEF Acts

LEMMA MakeWalks ==
  ASSUME WalkInv, NEW c \in Callers, MakeStep(c) \/ MakeDone(c)
  PROVE  WalkInv'
<1>1. /\ Typed /\ LocalTyped /\ Placed(c) /\ Walk(c)
      /\ pc[c] = "mkdir" /\ stack[c] = <<>> /\ DOMAIN size[c] = {}
      /\ steps[c] \in Seq(Paths)
  BY DEF WalkInv, Typed, LocalTyped, Placed, MakeStep, MakeDone
<1>2. UNCHANGED <<call, stack, at, size, read, child>>
  BY DEF MakeStep, MakeDone, tree
<1>3. pc' = pc \/ pc' = Set(pc, c, "done")
  BY DEF MakeStep, MakeDone, Fail
<1>4. ok' = ok \/ ok' = Set(ok, c, FALSE)
  BY DEF MakeStep, MakeDone, Fail
<1>5. steps' = steps \/ (steps[c] # <<>> /\ steps' = Set(steps, c, Tail(steps[c])))
  BY DEF MakeStep, MakeDone
<1>6. steps[c] # <<>> => Tail(steps[c]) \in Seq(Paths)
  BY <1>1
<1>7. /\ pc' \in [Callers -> {"idle", "mkdir", "read", "enter", "remove", "rmdir", "found", "done"}]
      /\ ok' \in [Callers -> BOOLEAN] /\ pc'[c] \in {"mkdir", "done"}
  BY <1>1, <1>3, <1>4 DEF LocalTyped, Set
<1>8. steps' \in [Callers -> Seq(Paths)]
  BY <1>1, <1>5, <1>6 DEF LocalTyped, Set
<1>9. LocalTyped'
  BY <1>1, <1>2, <1>7, <1>8 DEF LocalTyped
<1>10. Placed(c)'
  BY <1>1, <1>2, <1>7 DEF Placed
<1>11. Walk(c)'
  BY <1>1, <1>2, <1>7 DEF Walk, StackOk, Searching
<1> QED
  BY <1>9, <1>10, <1>11, ThisThread DEF Acts, Step

\* The frame after an entry was read, with or without a new node.
After(f, e, l) == [f EXCEPT !.unread = @ \ {e}, !.list = l]

LEMMA AfterRead ==
  ASSUME NEW f \in Frames, NEW e, NEW l \in Seq(Paths)
  PROVE  /\ After(f, e, l) \in Frames
         /\ After(f, e, l).dir = f.dir /\ After(f, e, l).unread = f.unread \ {e}
         /\ After(f, e, l).present = f.present /\ After(f, e, l).list = l
  BY DEF Frames, After

LEMMA EntryAppended ==
  ASSUME NEW S, NEW s \in Seq(S), IsInjective(s), NEW e \in S, e \notin ToSet(s)
  PROVE  /\ Append(s, e) \in Seq(S) /\ IsInjective(Append(s, e))
         /\ ToSet(Append(s, e)) = ToSet(s) \cup {e}
<1> DEFINE t == Append(s, e)
<1>1. /\ t \in Seq(S) /\ Len(s) \in Nat
      /\ DOMAIN t = 1 .. Len(s) + 1 /\ DOMAIN s = 1 .. Len(s)
      /\ \A i \in DOMAIN s : t[i] = s[i]
      /\ t[Len(s) + 1] = e
  BY FramePushed
<1> HIDE DEF t
<1>2. \A i \in DOMAIN t : i = Len(s) + 1 \/ i \in DOMAIN s
  BY <1>1
<1>3. IsInjective(t)
  BY <1>1, <1>2 DEF IsInjective, ToSet
<1>4. ToSet(t) = ToSet(s) \cup {e}
  BY <1>1, <1>2 DEF ToSet
<1> QED
  BY <1>1, <1>3, <1>4 DEF t

\* An entry was read, and its node, if it has one, is the last of the list.
ReadsOne(c, e, l) ==
  /\ e \in EntriesOf(c, Inner(c).dir) /\ Reads(c, e, l)
  /\ UNCHANGED call /\ DOMAIN size[c] \subseteq DOMAIN size'[c]
  /\ \/ l = Inner(c).list
     \/ l = Append(Inner(c).list, e) /\ e \in Inner(c).unread /\ e \in DOMAIN size'[c]

LEMMA FrameAfterRead ==
  ASSUME WalkInv, NEW c \in Callers, pc[c] = "read", NEW e, NEW l, ReadsOne(c, e, l)
  PROVE  /\ e \in Under(call[c].path) /\ e \in Paths
         /\ stack' \in [Callers -> Seq(Frames)] /\ stack'[c] # <<>>
         /\ StackOk(c)' /\ Inner(c)' = After(Inner(c), e, l)
         /\ Len(stack'[c]) = Len(stack[c]) /\ Inner(c)' = stack'[c][Len(stack'[c])]
         /\ ReadFrom(c, Inner(c), e)'
         /\ \A i \in 1 .. Len(stack[c]) - 1 : stack'[c][i] = stack[c][i]
<1> DEFINE g == Inner(c)
<1> PICK f : f = After(Inner(c), e, l)
  OBVIOUS
<1>1. /\ g \in Frames /\ FrameOk(c, g) /\ EntriesOf(c, g.dir) \subseteq Under(call[c].path)
      /\ Under(call[c].path) \subseteq Paths
      /\ stack \in [Callers -> Seq(Frames)] /\ call'[c] = call[c]
  BY InnerOk DEF InnerFacts, ReadsOne, WalkInv, Typed, LocalTyped
<1>2. e \in EntriesOf(c, g.dir) /\ e \in Under(call[c].path) /\ e \in Paths
  BY <1>1 DEF ReadsOne
<1>3. /\ g.list \in Seq(Paths) /\ IsInjective(g.list)
      /\ e \in g.unread => e \notin ToSet(g.list)
  BY <1>1 DEF Frames, FrameOk
<1>4. /\ l \in Seq(Paths) /\ IsInjective(l) /\ ToSet(l) \subseteq ToSet(g.list) \cup {e}
      /\ Searching(c) => ToSet(l) \subseteq DOMAIN size'[c]
  <2> HIDE DEF g
  <2>1. CASE l = g.list
    BY <1>1, <1>3, <2>1 DEF ReadsOne, FrameOk, g
  <2>2. CASE l = Append(g.list, e) /\ e \in g.unread /\ e \in DOMAIN size'[c]
    <3>1. e \notin ToSet(g.list)
      BY <1>3, <2>2
    <3>2. /\ l \in Seq(Paths) /\ IsInjective(l) /\ ToSet(l) = ToSet(g.list) \cup {e}
      BY <1>2, <1>3, <2>2, <3>1, EntryAppended
    <3> QED
      BY <1>1, <2>2, <3>2 DEF ReadsOne, FrameOk, g
  <2> QED
    BY <2>1, <2>2 DEF ReadsOne, g
<1>5. /\ f \in Frames /\ f.dir = g.dir /\ f.unread = g.unread \ {e}
      /\ f.present = g.present /\ f.list = l
  BY <1>1, <1>4, AfterRead
<1>6. /\ stack' = [stack EXCEPT ![c] = Append(Front(stack[c]), f)]
      /\ DOMAIN size[c] \subseteq DOMAIN size'[c]
  BY DEF ReadsOne, Reads, Set, After
<1>7. stack'[c] = Append(Front(stack[c]), f)
  BY <1>1, <1>6
<1>8. FrameOk(c, f)'
  <2>1. ASSUME Searching(c)' PROVE ToSet(f.list) \subseteq DOMAIN size'[c]
    BY <1>1, <1>4, <1>5, <2>1 DEF Searching
  <2>2. f.unread \subseteq EntriesOf(c, f.dir) /\ f.present \subseteq EntriesOf(c, f.dir)
        /\ ToSet(f.list) \subseteq EntriesOf(c, f.dir) \ f.unread
    BY <1>1, <1>2, <1>4, <1>5 DEF FrameOk
  <2> QED
    BY <1>1, <1>4, <1>5, <2>1, <2>2 DEF FrameOk, EntriesOf
<1>9. /\ stack'[c] \in Seq(Frames) /\ stack'[c] # <<>> /\ Inner(c)' = f /\ StackOk(c)'
      /\ Len(stack'[c]) = Len(stack[c]) /\ stack'[c][Len(stack[c])] = f
      /\ \A i \in 1 .. Len(stack[c]) - 1 : stack'[c][i] = stack[c][i]
  BY <1>1, <1>5, <1>6, <1>7, <1>8, InnermostReads
<1>10. stack' \in [Callers -> Seq(Frames)]
  BY <1>1, <1>6, <1>7, <1>9
<1>11. ReadFrom(c, f, e)'
  BY <1>1, <1>2, <1>5 DEF ReadFrom, EntriesOf
<1>12. ReadFrom(c, Inner(c), e)'
  BY <1>9, <1>11
<1> QED
  BY <1>2, <1>9, <1>10, <1>12

LEMMA ReadGoneWalks ==
  ASSUME WalkInv, NEW c \in Callers, ReadGone(c)
  PROVE  WalkInv'
<1>1. Typed /\ LocalTyped /\ Placed(c) /\ Walk(c) /\ pc[c] = "read"
  BY DEF WalkInv, Typed, ReadGone
<1>2. PICK e \in Returned(c) : Reads(c, e, Inner(c).list)
                                     /\ \E b : ok' = Set(ok, c, ok[c] /\ b)
  BY DEF ReadGone
<1>3. UNCHANGED <<disk, call, pc, steps, at, size, read, child>>
  BY DEF ReadGone, tree
<1>4. ReadsOne(c, e, Inner(c).list)
  BY <1>1, <1>2, <1>3, ReturnedEntry DEF ReadsOne
<1>5. stack' \in [Callers -> Seq(Frames)] /\ stack'[c] # <<>> /\ StackOk(c)'
  BY <1>1, <1>4, FrameAfterRead
<1>6. ok' \in [Callers -> BOOLEAN]
  BY <1>1, <1>2 DEF LocalTyped, Set
<1>7. LocalTyped'
  BY <1>1, <1>3, <1>5, <1>6 DEF LocalTyped
<1>8. Placed(c)'
  BY <1>1, <1>3, <1>5 DEF Placed, Removing, Searching
<1>9. Walk(c)'
  BY <1>1, <1>3, <1>5 DEF Walk, Searching
<1> QED
  BY <1>7, <1>8, <1>9, ThisThread DEF Acts, Step

LEMMA ReadToRemoveWalks ==
  ASSUME WalkInv, NEW c \in Callers, ReadToRemove(c)
  PROVE  WalkInv'
<1>1. Typed /\ LocalTyped /\ Placed(c) /\ Walk(c) /\ pc[c] = "read" /\ Removing(c)
  BY DEF WalkInv, Typed, ReadToRemove
<1>2. PICK e \in Returned(c) :
        /\ Reads(c, e, Inner(c).list) /\ at' = Set(at, c, e)
        /\ pc' = Set(pc, c, IF IsDir(e) THEN "enter" ELSE "remove")
  BY DEF ReadToRemove
<1>3. UNCHANGED <<disk, call, ok, steps, size, read, child>>
  BY DEF ReadToRemove, tree
<1>4. ReadsOne(c, e, Inner(c).list)
  BY <1>1, <1>2, <1>3, ReturnedEntry DEF ReadsOne
<1>5. /\ stack' \in [Callers -> Seq(Frames)] /\ stack'[c] # <<>> /\ StackOk(c)'
      /\ ReadFrom(c, Inner(c), e)' /\ e \in Paths /\ Inner(c)' = stack'[c][Len(stack'[c])]
  BY <1>1, <1>4, FrameAfterRead
<1>6. /\ LocalTyped' /\ at'[c] = e /\ pc'[c] \in {"enter", "remove"}
      /\ pc'[c] = "enter" => disk'[e] = "dir"
  BY <1>1, <1>2, <1>3, <1>5 DEF LocalTyped, Set, IsDir
<1>7. Placed(c)'
  BY <1>1, <1>3, <1>5, <1>6 DEF Placed, Removing
<1>8. Walk(c)'
  BY <1>1, <1>3, <1>5, <1>6 DEF Walk, Searching, Removing
<1> QED
  BY <1>6, <1>7, <1>8, ThisThread DEF Acts, Step

LEMMA NodesGrow ==
  ASSUME NEW s \in Nodes, NEW e \in Paths, NEW n \in Nat
  PROVE  With(s, e, n) \in Nodes /\ DOMAIN With(s, e, n) = DOMAIN s \cup {e}
<1>1. s \in [DOMAIN s -> Nat] /\ DOMAIN s \subseteq Paths
  BY DEF Nodes
<1> DEFINE t == With(s, e, n)
<1>2. t \in [DOMAIN s \cup {e} -> Nat] /\ DOMAIN t = DOMAIN s \cup {e}
  BY <1>1 DEF With
<1> HIDE DEF t
<1>3. t \in Nodes
  BY <1>1, <1>2 DEF Nodes
<1> QED
  BY <1>2, <1>3 DEF t

LEMMA ReadToSearchWalks ==
  ASSUME WalkInv, NEW c \in Callers, ReadToSearch(c)
  PROVE  WalkInv'
<1>1. /\ Typed /\ LocalTyped /\ Placed(c) /\ Walk(c) /\ pc[c] = "read" /\ Searching(c)
      /\ size[c] \in Nodes
  BY DEF WalkInv, Typed, LocalTyped, ReadToSearch
<1>2. PICK e \in Returned(c) :
        /\ Reads(c, e, Append(Inner(c).list, e)) /\ at' = Set(at, c, e)
        /\ size' = [size EXCEPT ![c] = With(@, e, StSize[e])]
        /\ pc' = Set(pc, c, IF IsDir(e) THEN "enter" ELSE "read")
  BY DEF ReadToSearch
<1>3. UNCHANGED <<disk, call, ok, steps>> /\ DOMAIN read' = DOMAIN read /\ DOMAIN child' = DOMAIN child
  BY DEF ReadToSearch
<1>4. e \in Inner(c).unread /\ e \in Paths
  BY <1>1, InnerOk, ReturnedEntry DEF InnerFacts, Frames
<1>5. StSize[e] \in Nat
  BY <1>4, PlatformFileAssumption
<1>6. size'[c] = With(size[c], e, StSize[e])
  BY <1>1, <1>2 DEF LocalTyped
<1>7. size'[c] \in Nodes /\ DOMAIN size'[c] = DOMAIN size[c] \cup {e}
  <2> DEFINE s == size[c]
             n == StSize[e]
  <2>1. s \in Nodes /\ e \in Paths /\ n \in Nat
    BY <1>1, <1>4, <1>5
  <2> HIDE DEF s, n
  <2>2. With(s, e, n) \in Nodes /\ DOMAIN With(s, e, n) = DOMAIN s \cup {e}
    BY <2>1, NodesGrow
  <2> QED
    BY <1>6, <2>2 DEF s, n
<1>8. size' \in [Callers -> Nodes]
  BY <1>1, <1>2, <1>6, <1>7 DEF LocalTyped
<1>9. ReadsOne(c, e, Append(Inner(c).list, e))
  BY <1>1, <1>2, <1>3, <1>4, <1>7, ReturnedEntry DEF ReadsOne
<1>10. /\ stack' \in [Callers -> Seq(Frames)] /\ stack'[c] # <<>> /\ StackOk(c)'
       /\ ReadFrom(c, Inner(c), e)' /\ e \in Under(call[c].path)
       /\ Inner(c)' = stack'[c][Len(stack'[c])]
  BY <1>1, <1>9, FrameAfterRead
<1>11. /\ LocalTyped' /\ at'[c] = e /\ pc'[c] \in {"enter", "read"}
       /\ pc'[c] = "enter" => disk'[e] = "dir"
  BY <1>1, <1>2, <1>3, <1>4, <1>8, <1>10 DEF LocalTyped, Set, IsDir
<1>12. Placed(c)'
  BY <1>1, <1>3, <1>10, <1>11 DEF Placed, Removing
<1>13. DOMAIN size'[c] \subseteq Under(call'[c].path)
  BY <1>1, <1>3, <1>7, <1>10 DEF Walk
<1>14. Walk(c)'
  BY <1>3, <1>4, <1>10, <1>11, <1>13 DEF Walk
<1> QED
  BY <1>11, <1>12, <1>14, ThisThread DEF Acts, Step

LEMMA EnterOpensWalks ==
  ASSUME WalkInv, NEW c \in Callers, EnterOpens(c)
  PROVE  WalkInv'
<1>1. /\ Typed /\ LocalTyped /\ DiskTyped /\ Placed(c) /\ Walk(c) /\ pc[c] = "enter"
      /\ stack \in [Callers -> Seq(Frames)]
  BY DEF WalkInv, Typed, LocalTyped, EnterOpens
<1>2. InnerFacts(c)
  BY <1>1, InnerOk
<1> PICK n : n = Len(stack[c])
  OBVIOUS
<1> PICK d : d = at[c]
  OBVIOUS
<1> PICK f : f = Frame(d, ChildrenOf(d), Listing(d))
  OBVIOUS
<1>3. /\ d \in Paths /\ ReadFrom(c, stack[c][n], d) /\ disk[d] = "dir"
  BY <1>1 DEF Walk, EnterOpens, Lstat, Exists
<1>4. /\ stack' = Set(stack, c, Append(stack[c], f)) /\ pc' = Set(pc, c, "read")
      /\ UNCHANGED <<disk, call, ok, steps, at, size, read, child>>
  BY <1>3 DEF EnterOpens, tree
<1>5. Listing(d) \subseteq ChildrenOf(d) /\ ChildrenOf(d) \subseteq Paths
  BY <1>3 DEF Listing, ChildrenOf
<1>6. /\ f \in Frames /\ f.dir = d /\ f.unread = ChildrenOf(d) /\ f.present = Listing(d)
      /\ f.list = <<>>
  BY <1>3, <1>5, EmptySeq DEF Frame, Frames
<1>7. d \in Under(call[c].path) /\ d # Top
  BY <1>2, <1>3, ParentTyped DEF InnerFacts, ReadFrom
<1>8. FrameOk(c, f)'
  BY <1>4, <1>5, <1>6, <1>7 DEF FrameOk, EntriesOf, ToSet, IsInjective
<1>9. stack'[c] = Append(stack[c], f) /\ stack[c] \in Seq(Frames)
  BY <1>1, <1>4 DEF Set
<1>10. /\ stack'[c] \in Seq(Frames) /\ stack'[c] # <<>>
       /\ n \in Nat \ {0} /\ DOMAIN stack'[c] = 1 .. n + 1 /\ DOMAIN stack[c] = 1 .. n
       /\ \A i \in DOMAIN stack[c] : stack'[c][i] = stack[c][i]
       /\ stack'[c][n + 1] = f
  <2> DEFINE s == stack[c]
             t == stack'[c]
  <2>1. s \in Seq(Frames) /\ f \in Frames /\ t = Append(s, f) /\ n = Len(s) /\ n # 0
    BY <1>2, <1>6, <1>9 DEF InnerFacts
  <2> HIDE DEF s, t
  <2>2. /\ t \in Seq(Frames) /\ t # <<>> /\ n \in Nat
        /\ DOMAIN t = 1 .. n + 1 /\ DOMAIN s = 1 .. n
        /\ \A i \in DOMAIN s : t[i] = s[i]
        /\ t[n + 1] = f
    BY <2>1, FramePushed
  <2> QED
    BY <2>1, <2>2 DEF s, t
<1>11. StackOk(c)'
  <2>1. ASSUME NEW i \in 1 .. n
        PROVE  /\ FrameOk(c, stack[c][i])' /\ (i = 1 <=> stack'[c][i].dir = Top)
               /\ i > 1 => ReadFrom(c, stack[c][i - 1], stack[c][i].dir)'
    <3>1. i > 1 => i - 1 \in 1 .. n
      BY <1>10
    <3>2. /\ FrameOk(c, stack[c][i]) /\ (i = 1 <=> stack[c][i].dir = Top)
          /\ i > 1 => ReadFrom(c, stack[c][i - 1], stack[c][i].dir)
      BY <1>1, <1>10 DEF Walk, StackOk
    <3>3. stack'[c][i] = stack[c][i] /\ (i > 1 => stack'[c][i - 1] = stack[c][i - 1])
      BY <1>10, <3>1
    <3>4. FrameOk(c, stack[c][i])'
      BY <1>4, <3>2, <3>3 DEF FrameOk, EntriesOf, Searching
    <3> QED
      BY <1>4, <3>2, <3>3, <3>4 DEF ReadFrom, EntriesOf
  <2>2. FrameOk(c, stack[c][n + 1])' /\ ~(n + 1 = 1) /\ stack'[c][n + 1].dir # Top
    <3>1. stack'[c][n + 1] = f
      BY <1>10
    <3>2. FrameOk(c, stack[c][n + 1])' <=> FrameOk(c, f)'
      BY <3>1
    <3> QED
      BY <1>6, <1>7, <1>8, <1>10, <3>1, <3>2
  <2>3. ReadFrom(c, stack[c][n], stack[c][n + 1].dir)'
    <3>1. stack'[c][n] = stack[c][n] /\ stack'[c][n + 1].dir = d
      BY <1>6, <1>10
    <3> QED
      BY <1>3, <1>4, <3>1 DEF ReadFrom, EntriesOf
  <2>4. \A i \in DOMAIN stack'[c] : i \in 1 .. n \/ (i = n + 1 /\ i - 1 = n)
    BY <1>10
  <2> QED
    BY <2>1, <2>2, <2>3, <2>4 DEF StackOk
<1>12. LocalTyped' /\ pc'[c] = "read"
  <2> DEFINE t == stack'[c]
  <2>1. t \in Seq(Frames) /\ stack' = [stack EXCEPT ![c] = t]
    BY <1>1, <1>4, <1>9, <1>10 DEF Set
  <2> HIDE DEF t
  <2>2. stack' \in [Callers -> Seq(Frames)]
    BY <1>1, <2>1
  <2> QED
    BY <1>1, <1>4, <2>2 DEF LocalTyped, Set
<1>13. Placed(c)'
  BY <1>1, <1>4, <1>10, <1>12 DEF Placed
<1>14. Walk(c)'
  BY <1>1, <1>4, <1>11, <1>12 DEF Walk, Searching
<1> QED
  BY <1>12, <1>13, <1>14, ThisThread DEF Acts, Step

LEMMA EnterFailsWalks ==
  ASSUME WalkInv, NEW c \in Callers, EnterFails(c)
  PROVE  WalkInv'
<1>1. /\ Typed /\ LocalTyped /\ Placed(c) /\ Walk(c) /\ pc[c] = "enter" /\ stack[c] # <<>>
  BY DEF WalkInv, Typed, Placed, EnterFails
<1>2. UNCHANGED <<disk, call, steps, stack, at, size, read, child>>
  BY DEF EnterFails, tree
<1>3. \/ Removing(c) /\ pc' = Set(pc, c, "rmdir") /\ \E b \in BOOLEAN : ok' = Set(ok, c, ok[c] /\ b)
      \/ Searching(c) /\ pc' = Set(pc, c, "read") /\ UNCHANGED ok
  BY DEF EnterFails
<1>4. ok' \in [Callers -> BOOLEAN]
  BY <1>1, <1>3 DEF LocalTyped, Set
<1>5. LocalTyped'
  BY <1>1, <1>2, <1>3, <1>4 DEF LocalTyped, Set
<1>6. \/ Removing(c) /\ pc'[c] = "rmdir"
      \/ Searching(c) /\ pc'[c] = "read"
  BY <1>1, <1>3 DEF LocalTyped, Set
<1>7. Placed(c)'
  BY <1>1, <1>2, <1>6 DEF Placed, Removing
<1>8. StackOk(c)'
  BY <1>1, <1>2 DEF Walk, StackOk, FrameOk, ReadFrom, EntriesOf, Searching
<1>9. Walk(c)'
  BY <1>1, <1>2, <1>6, <1>8 DEF Walk, ReadFrom, EntriesOf, Searching
<1> QED
  BY <1>5, <1>7, <1>9, ThisThread DEF Acts, Step

LEMMA RemovesWalks ==
  ASSUME WalkInv, NEW c \in Callers, RemoveEntry(c) \/ RemoveDir(c)
  PROVE  WalkInv'
<1>1. /\ Typed /\ LocalTyped /\ Placed(c) /\ Walk(c) /\ pc[c] \in {"remove", "rmdir"}
      /\ stack[c] # <<>>
  BY DEF WalkInv, Typed, Placed, RemoveEntry, RemoveDir
<1>2. /\ \E b : ok' = Set(ok, c, ok[c] /\ b)
      /\ pc' = Set(pc, c, "read")
      /\ UNCHANGED <<call, steps, stack, at, size, read, child>>
  BY DEF RemoveEntry, RemoveDir, Removed, tree
<1>3. ok' \in [Callers -> BOOLEAN]
  BY <1>1, <1>2 DEF LocalTyped, Set
<1>4. LocalTyped' /\ pc'[c] = "read"
  BY <1>1, <1>2, <1>3 DEF LocalTyped, Set
<1>5. Placed(c)'
  BY <1>1, <1>2, <1>4 DEF Placed, Removing
<1>6. StackOk(c)'
  BY <1>1, <1>2 DEF Walk, StackOk, FrameOk, ReadFrom, EntriesOf, Searching
<1>7. Walk(c)'
  BY <1>1, <1>2, <1>4, <1>6 DEF Walk, Searching
<1> QED
  BY <1>4, <1>5, <1>7, ThisThread DEF Acts, Step

LEMMA FreeWalks ==
  ASSUME WalkInv, NEW c \in Callers, FreeFileInfo(c)
  PROVE  WalkInv'
<1>1. /\ Typed /\ LocalTyped /\ Placed(c) /\ Walk(c) /\ pc[c] = "found" /\ stack[c] = <<>>
      /\ size[c] \in Nodes
  BY DEF WalkInv, Typed, LocalTyped, Placed, FreeFileInfo
<1>2. PICK F : size' = [size EXCEPT ![c] = Restrict(@, DOMAIN @ \ F)]
  BY DEF FreeFileInfo
<1>3. /\ pc' = Set(pc, c, "done")
      /\ UNCHANGED <<disk, call, ok, steps, stack, at, read, child>>
  BY DEF FreeFileInfo
<1>4. size'[c] = Restrict(size[c], DOMAIN size[c] \ F)
  BY <1>1, <1>2 DEF LocalTyped
<1>5. size'[c] \in Nodes /\ DOMAIN size'[c] \subseteq DOMAIN size[c]
  <2> DEFINE s == size[c]
             D == DOMAIN s \ F
             t == Restrict(s, D)
  <2>1. s \in [DOMAIN s -> Nat] /\ D \subseteq DOMAIN s /\ D \subseteq Paths
    BY <1>1 DEF Nodes
  <2>2. t \in [D -> Nat]
    BY <2>1 DEF Restrict
  <2> HIDE DEF D, t
  <2>3. t \in Nodes
    BY <2>1, <2>2 DEF Nodes
  <2> QED
    BY <1>4, <2>1, <2>2, <2>3 DEF t, D
<1>6. size' \in [Callers -> Nodes]
  BY <1>1, <1>2, <1>4, <1>5 DEF LocalTyped
<1>7. LocalTyped' /\ pc'[c] = "done"
  BY <1>1, <1>3, <1>6 DEF LocalTyped, Set
<1>8. Placed(c)'
  BY <1>1, <1>3, <1>7 DEF Placed
<1>9. Walk(c)'
  BY <1>1, <1>3, <1>5, <1>7 DEF Walk, StackOk, Searching
<1> QED
  BY <1>7, <1>8, <1>9, ThisThread DEF Acts, Step

\* The innermost directory ends.
LEMMA FrameEnds ==
  ASSUME WalkInv, NEW c \in Callers, pc[c] = "read", UNCHANGED call,
         stack' = Set(stack, c, Front(stack[c])),
         DOMAIN size[c] \subseteq DOMAIN size'[c],
         NEW d, d = Inner(c).dir
  PROVE  /\ stack' \in [Callers -> Seq(Frames)] /\ StackOk(c)'
         /\ Len(stack'[c]) = Len(stack[c]) - 1
         /\ \A i \in 1 .. Len(stack[c]) - 1 : stack'[c][i] = stack[c][i]
         /\ AtRoot(c) <=> stack'[c] = <<>>
         /\ ~AtRoot(c) => /\ d \in Under(call[c].path) /\ d \in Paths
                          /\ ReadFrom(c, stack[c][Len(stack[c])], d)'
<1> PICK n : n = Len(stack[c])
  OBVIOUS
<1>1. /\ InnerFacts(c) /\ StackOk(c) /\ stack \in [Callers -> Seq(Frames)]
      /\ call'[c] = call[c] /\ (Searching(c)' <=> Searching(c))
  BY InnerOk DEF WalkInv, Walk, Typed, LocalTyped, Searching
<1>2. /\ stack'[c] = Front(stack[c]) /\ n \in Nat \ {0}
      /\ stack'[c] \in Seq(Frames) /\ Len(stack'[c]) = n - 1
      /\ DOMAIN stack'[c] = 1 .. n - 1 /\ DOMAIN stack[c] = 1 .. n
      /\ \A i \in 1 .. n - 1 : stack'[c][i] = stack[c][i]
  BY <1>1 DEF InnerFacts, Set
<1>3. stack' \in [Callers -> Seq(Frames)]
  BY <1>1, <1>2 DEF Set
<1>4. ASSUME NEW i \in 1 .. n - 1
      PROVE  /\ FrameOk(c, stack[c][i])' /\ (i = 1 <=> stack'[c][i].dir = Top)
             /\ i > 1 => ReadFrom(c, stack[c][i - 1], stack[c][i].dir)'
  <2>1. i \in 1 .. n /\ (i > 1 => i - 1 \in 1 .. n - 1)
    BY <1>2
  <2>2. /\ FrameOk(c, stack[c][i]) /\ (i = 1 <=> stack[c][i].dir = Top)
        /\ i > 1 => ReadFrom(c, stack[c][i - 1], stack[c][i].dir)
    BY <1>1, <1>2, <2>1 DEF StackOk
  <2>3. stack'[c][i] = stack[c][i] /\ (i > 1 => stack'[c][i - 1] = stack[c][i - 1])
    BY <1>2, <2>1
  <2>4. FrameOk(c, stack[c][i])'
    BY <1>1, <2>2, <2>3 DEF FrameOk, EntriesOf
  <2> QED
    BY <1>1, <2>2, <2>3, <2>4 DEF ReadFrom, EntriesOf
<1>5. StackOk(c)'
  BY <1>2, <1>4 DEF StackOk
<1>6. AtRoot(c) <=> stack'[c] = <<>>
  <2>1. AtRoot(c) <=> n = 1
    BY DEF AtRoot
  <2>2. stack'[c] = <<>> <=> Len(stack'[c]) = 0
    BY <1>2, EmptySeq
  <2> QED
    BY <1>2, <2>1, <2>2
<1>7. ASSUME ~AtRoot(c)
      PROVE  /\ d \in Under(call[c].path) /\ d \in Paths
             /\ ReadFrom(c, stack[c][Len(stack[c])], d)'
  <2>1. n > 1 /\ n - 1 \in 1 .. n - 1 /\ n \in 1 .. n
    <3>1. n \in Nat \ {0}
      BY <1>2
    <3>2. n # 1
      BY <1>7 DEF AtRoot
    <3>3. \A m \in Nat \ {0} : m # 1 => m > 1 /\ m - 1 \in 1 .. m - 1 /\ m \in 1 .. m
      OBVIOUS
    <3> QED
      BY <3>1, <3>2, <3>3
  <2>2. d = stack[c][n].dir /\ d # Top /\ d \in Under(call[c].path) /\ d \in Paths
    BY <1>1, <1>7 DEF InnerFacts, FrameOk
  <2>3. ReadFrom(c, stack[c][n - 1], d) /\ stack'[c][n - 1] = stack[c][n - 1]
    BY <1>1, <1>2, <2>1, <2>2 DEF StackOk
  <2>4. ReadFrom(c, stack[c][n - 1], d)'
    BY <1>1, <2>3 DEF ReadFrom, EntriesOf
  <2> QED
    BY <1>2, <2>2, <2>4
<1> QED
  BY <1>2, <1>3, <1>5, <1>6, <1>7

LEMMA RemoveFrameEndsWalks ==
  ASSUME WalkInv, NEW c \in Callers, RemoveFrameEnds(c)
  PROVE  WalkInv'
<1> PICK d : d = Inner(c).dir
  OBVIOUS
<1>1. Typed /\ LocalTyped /\ Placed(c) /\ Walk(c) /\ pc[c] = "read" /\ Removing(c)
  BY DEF WalkInv, Typed, RemoveFrameEnds
<1>2. /\ stack' = Set(stack, c, Front(stack[c])) /\ at' = Set(at, c, d)
      /\ pc' = Set(pc, c, IF AtRoot(c) THEN "done" ELSE "rmdir")
      /\ UNCHANGED <<disk, call, ok, steps, size, read, child>>
  BY DEF RemoveFrameEnds, tree
<1>3. /\ stack' \in [Callers -> Seq(Frames)] /\ StackOk(c)'
      /\ AtRoot(c) <=> stack'[c] = <<>>
      /\ ~AtRoot(c) => d \in Paths /\ ReadFrom(c, stack[c][Len(stack[c])], d)'
  BY <1>1, <1>2, FrameEnds
<1>4. d \in Paths \cup {Top}
  BY <1>1, InnerOk DEF InnerFacts, Frames
<1>5. /\ LocalTyped' /\ at'[c] = d
      /\ pc'[c] = IF AtRoot(c) THEN "done" ELSE "rmdir"
  BY <1>1, <1>2, <1>3, <1>4 DEF LocalTyped, Set
<1>6. Placed(c)'
  BY <1>1, <1>2, <1>3, <1>5 DEF Placed, Removing
<1>7. Walk(c)'
  <2>1. ~AtRoot(c) => at'[c] \in Paths /\ ReadFrom(c, stack[c][Len(stack[c])], at[c])'
    BY <1>3, <1>5
  <2>2. ~Searching(c)'
    BY <1>1, <1>2 DEF Searching, Removing
  <2> QED
    BY <1>3, <1>5, <2>1, <2>2 DEF Walk
<1> QED
  BY <1>5, <1>6, <1>7, ThisThread DEF Acts, Step

LEMMA SearchFrameEndsWalks ==
  ASSUME WalkInv, NEW c \in Callers, SearchFrameEnds(c)
  PROVE  WalkInv'
<1> PICK d : d = Inner(c).dir
  OBVIOUS
<1>1. /\ Typed /\ LocalTyped /\ Placed(c) /\ Walk(c) /\ pc[c] = "read" /\ Searching(c)
      /\ InnerFacts(c) /\ size[c] \in Nodes
  BY InnerOk DEF WalkInv, Typed, LocalTyped, SearchFrameEnds
<1>2. /\ stack' = Set(stack, c, Front(stack[c]))
      /\ size' = IF AtRoot(c) THEN size ELSE [size EXCEPT ![c][d] = @ + TotalSize(c)]
      /\ pc' = Set(pc, c, IF AtRoot(c) THEN "found" ELSE "read")
      /\ UNCHANGED <<disk, call, ok, steps, at>>
      /\ DOMAIN read' = DOMAIN read /\ DOMAIN child' = DOMAIN child
  BY DEF SearchFrameEnds
<1>3. TotalSize(c) \in Nat
  <2> DEFINE S == ToSet(Inner(c).list)
             w == size[c]
  <2>1. S \subseteq DOMAIN w /\ w \in [DOMAIN w -> Nat] /\ DOMAIN w \subseteq Paths
    BY <1>1 DEF InnerFacts, FrameOk, Nodes
  <2>2. IsFiniteSet(S)
    BY <2>1, PlatformFileAssumption, FS_Subset
  <2>3. \A x \in S : w[x] \in Nat
    BY <2>1
  <2>4. TotalSize(c) = Sum(w, S)
    BY DEF TotalSize, Sum
  <2> HIDE DEF S, w
  <2> QED
    BY <2>2, <2>3, <2>4, SumTyped
<1>4. /\ size'[c] \in Nodes /\ DOMAIN size'[c] = DOMAIN size[c]
      /\ size' \in [Callers -> Nodes]
  <2>1. CASE AtRoot(c)
    BY <1>1, <1>2, <2>1 DEF LocalTyped
  <2>2. CASE ~AtRoot(c)
    <3> DEFINE s == size[c]
               n == TotalSize(c)
               t == [s EXCEPT ![d] = @ + n]
    <3>1. s \in [DOMAIN s -> Nat] /\ DOMAIN s \subseteq Paths /\ n \in Nat
      BY <1>1, <1>3 DEF Nodes
    <3>2. size' = [size EXCEPT ![c] = t]
      BY <1>2, <2>2
    <3> HIDE DEF s, n
    <3>3. t \in [DOMAIN s -> Nat] /\ DOMAIN t = DOMAIN s
      <4>1. t = [x \in DOMAIN s |-> IF x = d THEN s[d] + n ELSE s[x]]
        OBVIOUS
      <4>2. \A x \in DOMAIN s : s[x] \in Nat /\ s[x] + n \in Nat
        BY <3>1
      <4> QED
        BY <4>1, <4>2
    <3> HIDE DEF t
    <3>4. t \in Nodes
      BY <3>1, <3>3 DEF Nodes
    <3> QED
      BY <1>1, <3>2, <3>3, <3>4 DEF LocalTyped, s
  <2> QED
    BY <2>1, <2>2
<1>5. /\ stack' \in [Callers -> Seq(Frames)] /\ StackOk(c)'
      /\ AtRoot(c) <=> stack'[c] = <<>>
  BY <1>1, <1>2, <1>4, FrameEnds
<1>6. LocalTyped' /\ pc'[c] = IF AtRoot(c) THEN "found" ELSE "read"
  BY <1>1, <1>2, <1>4, <1>5 DEF LocalTyped, Set
<1>7. Placed(c)'
  BY <1>1, <1>2, <1>5, <1>6 DEF Placed, Searching
<1>8. Walk(c)'
  BY <1>1, <1>2, <1>4, <1>5, <1>6 DEF Walk, Searching
<1> QED
  BY <1>6, <1>7, <1>8, ThisThread DEF Acts, Step

-----------------------------------------------------------------------------
LEMMA WalkStarts ==
  ASSUME Init PROVE WalkInv
<1>1. DiskTyped
  BY PlatformFileAssumption DEF Init, DiskTyped, Kinds
<1>2. <<>> \in Seq(Paths) /\ <<>> \in Seq(Frames) /\ <<>> \in Nodes
      /\ DOMAIN <<>> = {} /\ NoCall \in AnyCall
  <2>1. <<>> \in [{} -> Nat] /\ {} \in SUBSET Paths /\ DOMAIN <<>> = {}
    OBVIOUS
  <2>2. [{} -> Nat] \in {[D -> Nat] : D \in SUBSET Paths}
    BY <2>1
  <2>3. <<>> \in Nodes
    BY <2>1, <2>2 DEF Nodes
  <2>4. NoCall \in AnyCall
    BY DEF AnyCall
  <2> QED
    BY <2>1, <2>3, <2>4, EmptySeq
<1>3. LocalTyped
  BY <1>2 DEF Init, LocalTyped
<1>4. ASSUME NEW c \in Callers
      PROVE  Placed(c) /\ Walk(c)
  <2>1. /\ pc[c] = "idle" /\ ok[c] /\ call[c] = NoCall
        /\ stack[c] = <<>> /\ DOMAIN size[c] = {}
    BY <1>2 DEF Init
  <2> QED
    BY <1>2, <2>1 DEF Placed, Walk, StackOk, Searching, NoCall
<1>5. AnewOk
  BY DEF Init, AnewOk
<1> QED
  BY <1>1, <1>3, <1>4, <1>5 DEF WalkInv, Typed

LEMMA WalkGoesOn ==
  ASSUME WalkInv, NEW c \in Callers, Acts(c)
  PROVE  WalkInv'
  BY StartNothingWalks, StartMakeWalks, StartWalkWalks, MakeWalks, ReadGoneWalks,
     ReadToRemoveWalks, ReadToSearchWalks, EnterOpensWalks, EnterFailsWalks,
     RemoveFrameEndsWalks, SearchFrameEndsWalks, RemovesWalks, FreeWalks
     DEF Acts, Step

LEMMA WalkStutters ==
  ASSUME WalkInv, UNCHANGED vars
  PROVE  WalkInv'
<1> USE DEF vars, env, tree, local
<1>1. Typed'
  BY DEF WalkInv, Typed, DiskTyped, LocalTyped
<1>2. ASSUME NEW c \in Callers
      PROVE  Placed(c)' /\ Walk(c)'
  <2>1. Placed(c)'
    BY DEF WalkInv, Placed, Removing, Searching
  <2>2. StackOk(c)'
    BY DEF WalkInv, Walk, StackOk, FrameOk, ReadFrom, EntriesOf, Searching
  <2> QED
    BY <2>1, <2>2 DEF WalkInv, Walk, ReadFrom, EntriesOf, Searching
<1>3. AnewOk'
  BY DEF WalkInv, AnewOk, Others
<1> QED
  BY <1>1, <1>2, <1>3 DEF WalkInv

(***************************************************************************)
(* The walk keeps its form: what each call is at each place, the stack of  *)
(* open directories from the path down, each of them an entry that was     *)
(* read from the one before, and only nodes of what is below the path.     *)
(***************************************************************************)
THEOREM WalkInvariant == Spec => []WalkInv
<1>1. Init => WalkInv
  BY WalkStarts
<1>2. WalkInv /\ [Next]_vars => WalkInv'
  BY ThreadsAct, WalkGoesOn, WalkStutters
<1> QED
  BY <1>1, <1>2, PTL DEF Spec

\* The type of the state and the form of the walk, for any number of threads
\* and any disk (TypeOK).
THEOREM FileTypeCorrect == Spec => []TypeOK
<1>1. ASSUME WalkInv PROVE TypeOK
  <2>1. DiskTyped /\ LocalTyped /\ anew \in [Callers -> SUBSET Paths]
    BY <1>1 DEF WalkInv, Typed, AnewOk
  <2>2. ASSUME NEW c \in Callers
        PROVE  ToSet(steps[c]) \subseteq Paths /\ DOMAIN size[c] \subseteq Paths
    <3>1. steps[c] \in Seq(Paths) /\ size[c] \in Nodes
      BY <2>1 DEF LocalTyped
    <3>2. ToSet(steps[c]) \subseteq Paths
      BY <3>1, LenProperties, ElementOfSeq DEF ToSet
    <3> QED
      BY <3>1, <3>2 DEF Nodes
  <2>3. ASSUME NEW c \in Callers, NEW i \in DOMAIN stack[c], NEW f, f = stack[c][i]
        PROVE  /\ IsInjective(f.list)
               /\ Searching(c) => ToSet(f.list) \subseteq DOMAIN size[c]
               /\ ToSet(f.list) \cap f.unread = {}
               /\ i > 1 => f.dir \notin stack[c][i - 1].unread
    BY <1>1, <2>3 DEF WalkInv, Walk, StackOk, FrameOk, ReadFrom
  <2> QED
    BY <2>1, <2>2, <2>3 DEF DiskTyped, LocalTyped, TypeOK
<1>2. WalkInv => TypeOK
  BY <1>1
<1> QED
  BY <1>2, WalkInvariant, PTL

-----------------------------------------------------------------------------
(* The disk. *)

\* What a removal takes away was read below the path of the call.
LEMMA RemovesBelow ==
  ASSUME WalkInv, NEW c \in Callers, pc[c] \in {"enter", "remove", "rmdir"}
  PROVE  at[c] \in Paths /\ at[c] \in Under(call[c].path)
<1>1. InnerFacts(c) /\ at[c] \in Paths /\ ReadFrom(c, stack[c][Len(stack[c])], at[c])
  BY InnerOk DEF WalkInv, Walk
<1> QED
  BY <1>1 DEF InnerFacts, ReadFrom

LEMMA TreeKept ==
  ASSUME WalkInv, DiskIsTree, NEW c \in Callers, Acts(c)
  PROVE  DiskIsTree'
<1>1. disk \in [Paths -> Kinds]
  BY DEF WalkInv, Typed, DiskTyped
<1> SUFFICES ASSUME NEW x \in Paths, Exists(x)', Parent[x] # Top
             PROVE  disk'[Parent[x]] = "dir"
  BY DEF DiskIsTree
<1>2. Parent[x] \in Paths
  BY ParentTyped
<1>3. CASE disk' = disk
  BY <1>3 DEF DiskIsTree, Exists
<1>4. CASE MakesDir(c)
  <2> PICK e : e = Head(steps[c])
    OBVIOUS
  <2>1. e \in Paths
    <3>1. steps[c] \in Seq(Paths)
      BY DEF WalkInv, Typed, LocalTyped
    <3> QED
      BY <1>4, <3>1 DEF MakesDir
  <2>2. CanHold(e) /\ disk' = [disk EXCEPT ![e] = "dir"]
    BY <1>4 DEF MakesDir
  <2>3. CASE x = e
    BY <1>1, <1>2, <2>1, <2>2, <2>3 DEF CanHold
  <2>4. CASE x # e
    BY <1>1, <1>2, <2>1, <2>2, <2>4 DEF DiskIsTree, Exists
  <2> QED
    BY <2>3, <2>4
<1>5. CASE RemovesEntry(c)
  <2> PICK e : e = at[c]
    OBVIOUS
  <2>1. e \in Paths /\ CanRemove(e) /\ disk' = [disk EXCEPT ![e] = "none"]
    BY <1>5, RemovesBelow DEF RemovesEntry
  <2>2. x # e /\ disk[x] = disk'[x]
    BY <1>1, <2>1 DEF Exists
  <2>3. Parent[x] # e
    BY <2>1, <2>2 DEF CanRemove, ChildrenOf, Exists
  <2> QED
    BY <1>1, <1>2, <2>1, <2>2, <2>3 DEF DiskIsTree, Exists
<1> QED
  BY <1>3, <1>4, <1>5, OneThreadSteps DEF WalkInv

LEMMA SparedKept ==
  ASSUME WalkInv, Spared, NEW c \in Callers, Acts(c)
  PROVE  Spared'
<1>1. disk \in [Paths -> Kinds]
  BY DEF WalkInv, Typed, DiskTyped
<1>2. disk0' = disk0
  BY OneThreadSteps DEF WalkInv, env
<1> SUFFICES ASSUME NEW x \in Paths, disk0[x] # "none", ~Exists(x)'
             PROVE  \E o \in Callers : Removing(o)' /\ x \in Under(call'[o].path)
  BY <1>2 DEF Spared
<1>3. CASE ~Exists(x)
  <2>1. PICK o \in Callers : Removing(o) /\ x \in Under(call[o].path)
    BY <1>3 DEF Spared
  <2>2. call'[o] = call[o]
    BY <2>1, CallKept DEF Removing, NoCall
  <2> QED
    BY <2>1, <2>2 DEF Removing
<1>4. CASE Exists(x)
  <2>1. ~MakesDir(c) /\ disk' # disk
    BY <1>1, <1>4 DEF MakesDir, Exists
  <2>2. RemovesEntry(c)
    BY <2>1, OneThreadSteps DEF WalkInv
  <2>3. x = at[c] /\ pc[c] \in {"remove", "rmdir"}
    BY <1>1, <1>4, <2>2 DEF RemovesEntry, Exists
  <2>4. Removing(c) /\ x \in Under(call[c].path)
    BY <2>3, RemovesBelow DEF WalkInv, Placed
  <2>5. call'[c] = call[c]
    BY <2>4, CallKept DEF Removing, NoCall
  <2> QED
    BY <2>4, <2>5 DEF Removing
<1> QED
  BY <1>3, <1>4

\* What exists is in directories, and what went was below the path of a
\* removal.
THEOREM DiskInvariant == Spec => []DiskInv
<1>1. Init => DiskInv
  BY PlatformFileAssumption DEF Init, DiskInv, DiskIsTree, Spared, Exists
<1>2. WalkInv /\ DiskInv /\ [Next]_vars => DiskInv'
  <2>1. WalkInv /\ DiskInv /\ UNCHANGED vars => DiskInv'
    BY DEF DiskInv, DiskIsTree, Spared, Exists, Removing, vars, env, local
  <2> QED
    BY <2>1, ThreadsAct, TreeKept, SparedKept DEF DiskInv
<1> QED
  BY <1>1, <1>2, WalkInvariant, PTL DEF Spec

\* A removal takes nothing away, and a search gives back nothing, that is not
\* below the path (OthersSpared).
THEOREM NothingElseIsRemoved == Spec => []OthersSpared
<1>1. WalkInv /\ DiskInv => OthersSpared
  BY DEF WalkInv, Walk, DiskInv, Spared, OthersSpared
<1> QED
  BY <1>1, WalkInvariant, DiskInvariant, PTL

-----------------------------------------------------------------------------
(* The removal: when it says that all is gone, all is gone. *)

\* Where the disk changes, there is a call that changes it.
LEMMA ChangesAreCalled ==
  ASSUME WalkInv, NEW c \in Callers, Acts(c)
  PROVE  /\ MakesDir(c) => call[c].op \in {"make", "parent"} /\ call'[c] = call[c]
                           /\ call[c].path \in Paths
         /\ RemovesEntry(c) => call[c].op = "remove" /\ call'[c] = call[c]
<1>1. Placed(c)
  BY DEF WalkInv
<1>2. MakesDir(c) => call[c].op \in {"make", "parent"} /\ call[c].path \in Paths
  BY <1>1 DEF MakesDir, Placed
<1>3. RemovesEntry(c) => call[c].op = "remove"
  BY <1>1 DEF RemovesEntry, Placed, Removing
<1> QED
  BY <1>2, <1>3, CallKept DEF NoCall

LEMMA PathStaysGone ==
  ASSUME WalkInv, NEW o \in Callers, Acts(o), NEW c \in Callers \ {o}, PathGone(c)
  PROVE  PathGone(c)'
<1> SUFFICES ASSUME /\ Removing(c)' /\ call'[c].path \in Paths
                    /\ ok'[c] /\ Visible(call[c].path)' /\ ~Others(c, {"make", "parent"})'
                    /\ \/ /\ pc'[c] = "read" /\ Len(stack'[c]) = 1
                          /\ call'[c].path \notin stack'[c][1].unread
                       \/ pc'[c] = "done"
             PROVE  ~Exists(call[c].path)'
  BY DEF PathGone
<1>1. Still(c) /\ UNCHANGED env /\ disk \in [Paths -> Kinds]
  BY OneThreadSteps DEF WalkInv, Typed, DiskTyped
<1>2. ~Others(c, {"make", "parent"})
  BY OthersStay
<1>3. ~Exists(call[c].path) /\ call'[c] = call[c] /\ call[c].path \in Paths
  BY <1>1, <1>2 DEF PathGone, Still, Removing, Visible, env
<1>4. ~MakesDir(o)
  BY <1>2, ChangesAreCalled DEF Others
<1>5. disk' = disk \/ RemovesEntry(o)
  BY <1>4, OneThreadSteps DEF WalkInv
<1> QED
  BY <1>1, <1>3, <1>5 DEF RemovesEntry, Exists

\* The end of the walk, or of a step back to the path itself.
AtPath(c) ==
  \/ pc[c] = "read" /\ Len(stack[c]) = 1 /\ call[c].path \notin stack[c][1].unread
  \/ pc[c] = "done"

LEMMA PathGoes ==
  ASSUME WalkInv, NEW c \in Callers, Acts(c), PathGone(c)
  PROVE  PathGone(c)'
<1> SUFFICES ASSUME /\ Removing(c)' /\ call'[c].path \in Paths
                    /\ ok'[c] /\ Visible(call[c].path)' /\ ~Others(c, {"make", "parent"})'
                    /\ AtPath(c)'
             PROVE  ~Exists(call[c].path)'
  BY DEF PathGone, AtPath
<1>1. UNCHANGED env /\ WalkInv'
  BY OneThreadSteps, WalkGoesOn DEF WalkInv
<1>2. ~Others(c, {"make", "parent"})
  BY OthersStay
<1>3. ASSUME StartNothing(c) \/ StartMake(c)
      PROVE  FALSE
  <2>1. \E k \in Calls[c] : call' = Set(call, c, k) /\ (k.path = Top \/ k.op \in {"make", "parent"})
    BY <1>3 DEF StartNothing, StartMake
  <2>2. \E k \in Calls[c] : call'[c] = k /\ (k.path = Top \/ k.op \in {"make", "parent"})
    BY <2>1 DEF Set, WalkInv, Typed, LocalTyped
  <2> QED
    BY <2>2, ParentTyped DEF Removing
<1>4. ASSUME StartWalk(c)
      PROVE  FALSE
  <2>1. PICK k \in Calls[c] : /\ call' = Set(call, c, k)
                              /\ stack' = Set(stack, c, <<Frame(Top, {k.path}, {k.path})>>)
                              /\ pc' = Set(pc, c, "read")
    BY <1>4 DEF StartWalk
  <2>2. /\ call'[c] = k /\ stack'[c] = <<Frame(Top, {k.path}, {k.path})>>
        /\ pc'[c] = "read"
    BY <2>1 DEF Set, WalkInv, Typed, LocalTyped
  <2>3. stack'[c][1].unread = {k.path}
    BY <2>2 DEF Frame
  <2> QED
    BY <2>2, <2>3 DEF AtPath
<1>5. ASSUME Step(c)
      PROVE  call'[c] = call[c] /\ Removing(c) /\ call[c].path \in Paths
             /\ Visible(call[c].path) /\ disk \in [Paths -> Kinds]
  <2>1. call' = call
    BY <1>5 DEF Step, MakeStep, MakeDone, ReadGone, ReadToRemove, ReadToSearch,
              EnterOpens, EnterFails, RemoveFrameEnds, SearchFrameEnds,
              RemoveEntry, RemoveDir, Removed, FreeFileInfo
  <2> QED
    BY <1>1, <2>1 DEF Removing, Visible, env, WalkInv, Typed, DiskTyped
<1>6. ASSUME Step(c), pc[c] = "mkdir" \/ pc[c] = "found" \/ Searching(c) PROVE FALSE
  BY <1>5, <1>6 DEF WalkInv, Placed, Removing, Searching
<1>7. CASE ReadGone(c)
  <2>1. PICK e \in Returned(c) : ~Lstat(e) /\ Reads(c, e, Inner(c).list)
    BY <1>7 DEF ReadGone
  <2>2. pc[c] = "read" /\ UNCHANGED <<disk, call, pc, size>> /\ Step(c)
    BY <1>7 DEF ReadGone, tree, Step
  <2>3. ReadsOne(c, e, Inner(c).list)
    BY <2>1, <2>2, ReturnedEntry DEF ReadsOne
  <2>4. Len(stack'[c]) = Len(stack[c])
    BY <2>2, <2>3, FrameAfterRead
  <2>5. AtRoot(c)
    BY <2>2, <2>4 DEF AtPath, AtRoot
  <2>6. Inner(c).unread \subseteq {call[c].path}
    BY <2>2, <2>5, InnerOk DEF InnerFacts, FrameOk, EntriesOf
  <2>7. e = call[c].path
    BY <2>1, <2>2, <2>5, <2>6, ReturnedEntry
  <2> QED
    BY <1>5, <2>1, <2>2, <2>7 DEF Lstat, Exists
<1>8. CASE ReadToRemove(c)
  <2>1. pc'[c] \in {"enter", "remove"}
    BY <1>8 DEF ReadToRemove, Set, WalkInv, Typed, LocalTyped
  <2> QED
    BY <2>1 DEF AtPath
<1>9. CASE EnterOpens(c)
  <2> DEFINE s == stack[c]
             t == stack'[c]
  <2>1. pc[c] = "enter" /\ \E f : stack' = Set(stack, c, Append(stack[c], f))
        /\ pc' = Set(pc, c, "read")
    BY <1>9 DEF EnterOpens
  <2>2. InnerFacts(c)
    BY <2>1, InnerOk
  <2>3. s \in Seq(Frames) /\ Len(s) \in Nat \ {0} /\ \E f : t = Append(s, f)
    BY <2>1, <2>2 DEF InnerFacts, Set, WalkInv, Typed, LocalTyped
  <2> HIDE DEF s, t
  <2>4. Len(t) = Len(s) + 1
    BY <2>3
  <2>5. Len(t) # 1
    BY <2>3, <2>4
  <2>6. pc'[c] = "read"
    BY <2>1 DEF Set, WalkInv, Typed, LocalTyped
  <2> QED
    BY <2>5, <2>6 DEF AtPath, t
<1>10. CASE EnterFails(c)
  <2>1. ~Searching(c)
    BY <1>6, <1>10 DEF Step
  <2>2. pc'[c] = "rmdir"
    BY <1>10, <2>1 DEF EnterFails, Set, WalkInv, Typed, LocalTyped
  <2> QED
    BY <2>2 DEF AtPath
<1>11. CASE RemoveFrameEnds(c)
  <2>1. /\ pc[c] = "read" /\ ReadAll(c) /\ disk' = disk /\ ok' = ok /\ Step(c)
        /\ pc'[c] = IF AtRoot(c) THEN "done" ELSE "rmdir"
    BY <1>11 DEF RemoveFrameEnds, Step, Set, WalkInv, Typed, LocalTyped
  <2>2. AtRoot(c)
    BY <2>1 DEF AtPath
  <2>3. Inner(c).present = {call[c].path} /\ Inner(c) = stack[c][1]
    BY <2>1, <2>2, InnerOk DEF InnerFacts, FrameOk, AtRoot
  <2>4. CASE call[c].path \in Inner(c).unread
    <3>1. \A x \in Inner(c).unread \cap Inner(c).present : ~Exists(x)
      BY <2>1, <2>2, AllRead
    <3> QED
      BY <1>5, <2>1, <2>3, <2>4, <3>1 DEF Exists
  <2>5. CASE call[c].path \notin Inner(c).unread
    BY <1>2, <1>5, <2>1, <2>2, <2>3, <2>5 DEF PathGone, AtRoot, Exists
  <2> QED
    BY <2>4, <2>5
<1>12. CASE RemoveEntry(c) \/ RemoveDir(c)
  <2>1. PICK can \in BOOLEAN : Removed(c, can) /\ pc[c] \in {"remove", "rmdir"}
    <3>1. CASE RemoveEntry(c)
      <4>1. CanRemove(at[c]) \in BOOLEAN
        BY DEF CanRemove
      <4> QED
        BY <3>1, <4>1 DEF RemoveEntry
    <3>2. CASE RemoveDir(c)
      BY <3>2 DEF RemoveDir
    <3> QED
      BY <1>12, <3>1, <3>2
  <2>2. pc'[c] = "read" /\ stack' = stack /\ can /\ Step(c)
    BY <1>12, <2>1 DEF Removed, Set, WalkInv, Typed, LocalTyped, Step
  <2>3. Len(stack[c]) = 1
    BY <2>2 DEF AtPath
  <2>4. InnerFacts(c) /\ ReadFrom(c, Inner(c), at[c])
    BY <2>1, InnerOk DEF InnerFacts, WalkInv, Walk
  <2>5. at[c] = call[c].path
    BY <2>3, <2>4 DEF InnerFacts, AtRoot, ReadFrom, EntriesOf
  <2> QED
    BY <1>5, <2>1, <2>2, <2>5 DEF Removed, Exists
<1>13. CASE MakeStep(c) \/ MakeDone(c) \/ ReadToSearch(c) \/ SearchFrameEnds(c) \/ FreeFileInfo(c)
  BY <1>6, <1>13 DEF Step, MakeStep, MakeDone, ReadToSearch, SearchFrameEnds, FreeFileInfo
<1> QED
  BY <1>3, <1>4, <1>7, <1>8, <1>9, <1>10, <1>11, <1>12, <1>13 DEF Acts, Step

-----------------------------------------------------------------------------
(* The removal: when nobody and nothing is in its way, it removes all. *)

\* An open directory is in all that were opened before it, except the first.
LEMMA FramesAbove ==
  ASSUME WalkInv, NEW c \in Callers, pc[c] \in {"read", "enter", "remove", "rmdir"}
  PROVE  \A i \in DOMAIN stack[c] : \A j \in 2 .. i - 1 :
           stack[c][j].dir \in Above[stack[c][i].dir]
<1> DEFINE P(i) == i \in DOMAIN stack[c] =>
             \A j \in 2 .. i - 1 : stack[c][j].dir \in Above[stack[c][i].dir]
           T == {i \in Nat : P(i)}
<1>1. InnerFacts(c) /\ StackOk(c)
  BY InnerOk DEF WalkInv, Walk
<1>2. 0 \in T
  BY <1>1 DEF InnerFacts
<1>3. ASSUME NEW k \in Nat, k \in T
      PROVE  k + 1 \in T
  <2> SUFFICES ASSUME k + 1 \in DOMAIN stack[c], NEW j \in 2 .. k
               PROVE  stack[c][j].dir \in Above[stack[c][k + 1].dir]
    OBVIOUS
  <2> DEFINE d == stack[c][k].dir
             e == stack[c][k + 1].dir
  <2>1. /\ k \in DOMAIN stack[c] /\ k # 1 /\ k + 1 # 1 /\ k + 1 > 1 /\ (k + 1) - 1 = k
        /\ j = k \/ j \in 2 .. k - 1
    BY <1>1 DEF InnerFacts
  <2>2. /\ d # Top /\ e # Top /\ ReadFrom(c, stack[c][k], e)
        /\ e \in Under(call[c].path)
    BY <1>1, <2>1 DEF StackOk, FrameOk
  <2>3. e \in Paths /\ Parent[e] = d
    BY <1>1, <2>2 DEF ReadFrom, EntriesOf, ChildrenOf, InnerFacts
  <2>4. Above[e] = {d} \cup Above[d]
    BY <2>2, <2>3, AboveDefined
  <2>5. CASE j = k
    BY <2>4, <2>5
  <2>6. CASE j \in 2 .. k - 1
    BY <1>3, <2>1, <2>4, <2>6
  <2> QED
    BY <2>1, <2>5, <2>6
<1> HIDE DEF T
<1>4. Nat \subseteq T
  BY <1>2, <1>3, NatInductionBySet
<1>5. DOMAIN stack[c] \subseteq Nat
  BY <1>1 DEF InnerFacts
<1> QED
  BY <1>4, <1>5 DEF T

\* The entry the innermost loop is at is none of the open directories, and in
\* none of them but the innermost.
LEMMA AtIsElsewhere ==
  ASSUME WalkInv, NEW c \in Callers, pc[c] \in {"enter", "remove", "rmdir"},
         NEW i \in DOMAIN stack[c], i > 1
  PROVE  /\ at[c] # stack[c][i].dir
         /\ at[c] \in ChildrenOf(stack[c][i].dir) => i = Len(stack[c])
<1> PICK n : n = Len(stack[c])
  OBVIOUS
<1> DEFINE d == stack[c][i].dir
           e == stack[c][n].dir
<1>1. /\ InnerFacts(c) /\ StackOk(c) /\ at[c] \in Paths
      /\ ReadFrom(c, stack[c][n], at[c])
  BY InnerOk DEF WalkInv, Walk
<1>2. n \in DOMAIN stack[c] /\ n \in Nat /\ i \in Nat /\ i <= n /\ n # 1
  BY <1>1 DEF InnerFacts
<1>3. e # Top /\ Parent[at[c]] = e /\ e \in Paths
  BY <1>1, <1>2 DEF StackOk, FrameOk, ReadFrom, EntriesOf, ChildrenOf, InnerFacts
<1>4. Above[at[c]] = {e} \cup Above[e]
  BY <1>1, <1>3, AboveDefined
<1>5. i # n => d \in Above[e]
  <2>1. i # n => i \in 2 .. n - 1
    BY <1>2
  <2> QED
    BY <1>2, <2>1, FramesAbove
<1>6. d \in Above[at[c]]
  BY <1>4, <1>5
<1>7. at[c] # d
  BY <1>1, <1>6, AboveAcyclic
<1>8. ASSUME at[c] \in ChildrenOf(d), i # n
      PROVE  FALSE
  BY <1>3, <1>5, <1>8, AboveAcyclic DEF ChildrenOf
<1> QED
  BY <1>7, <1>8

\* The other threads change nothing then.
LEMMA UndisturbedKept ==
  ASSUME WalkInv, NEW o \in Callers, Acts(o), NEW c \in Callers, Undisturbed(c)', Removing(c)
  PROVE  /\ Undisturbed(c)
         /\ o # c => disk' = disk /\ Still(c)
<1>1. UNCHANGED env
  BY OneThreadSteps DEF WalkInv
<1>2. Alone(c)
  BY OthersStay DEF Undisturbed, Alone
<1>3. o # c => disk' = disk
  BY <1>2, OneThreadSteps, ChangesAreCalled DEF Alone, Others, WalkInv
<1> QED
  BY <1>1, <1>2, <1>3, OneThreadSteps DEF Undisturbed, env, WalkInv

\* What the frame i says.
FrameFails(c, i) ==
  /\ disk[stack[c][i].dir] = "dir"
  /\ \A x \in stack[c][i].unread \cap stack[c][i].present : Exists(x)
  /\ \A x \in ChildrenOf(stack[c][i].dir) \ Current(c, i) :
       Exists(x) => x \in stack[c][i].unread \cap stack[c][i].present

\* What holds of the entry and the result.
EntryFails(c) ==
  /\ ok[c]
  /\ pc[c] \in {"enter", "rmdir"} => disk[at[c]] = "dir"
  /\ pc[c] = "remove" => disk[at[c]] \in {"file", "link"}
  /\ pc[c] = "rmdir" => \A x \in ChildrenOf(at[c]) : ~Exists(x)

LEMMA NothingFailsSays ==
  ASSUME NEW c
  PROVE  NothingFails(c) <=>
           (Undisturbed(c) =>
              EntryFails(c) /\ \A i \in DOMAIN stack[c] : i > 1 => FrameFails(c, i))
  BY DEF NothingFails, EntryFails, FrameFails

\* The frames before the innermost one, when they and the disk stay.
LEMMA FrameStays ==
  ASSUME NEW c, NEW i, FrameFails(c, i), disk' = disk,
         stack'[c][i] = stack[c][i], Current(c, i)' = Current(c, i)
  PROVE  FrameFails(c, i)'
  BY DEF FrameFails, Exists

LEMMA NothingFailsFor ==
  ASSUME WalkInv, NEW o \in Callers, Acts(o), NEW c \in Callers \ {o}, NothingFails(c)
  PROVE  NothingFails(c)'
<1> SUFFICES ASSUME Undisturbed(c)' PROVE NothingFails(c)'
  BY DEF NothingFails
<1>1. Still(c)
  BY OneThreadSteps DEF WalkInv
<1>2. disk' = disk /\ Undisturbed(c)
  BY <1>1, UndisturbedKept DEF Undisturbed, Removing, Still
<1> QED
  BY <1>1, <1>2 DEF NothingFails, Still, Current, Exists

LEMMA NothingFailsAtStart ==
  ASSUME WalkInv, NEW c \in Callers, StartNothing(c) \/ StartMake(c) \/ StartWalk(c)
  PROVE  NothingFails(c)'
<1> SUFFICES ASSUME Undisturbed(c)' PROVE NothingFails(c)'
  BY DEF NothingFails
<1>1. pc[c] = "idle" /\ ok[c] /\ stack[c] = <<>> /\ LocalTyped
  BY DEF WalkInv, Typed, Placed, StartNothing, StartMake, StartWalk
<1>2. ~StartMake(c)
  <2>1. ASSUME NEW k \in Calls[c], call' = Set(call, c, k), k.op \in {"make", "parent"}
        PROVE  FALSE
    BY <1>1, <2>1 DEF LocalTyped, Set, Undisturbed, Removing
  <2> QED
    BY <2>1 DEF StartMake
<1>3. ok' = ok /\ pc'[c] \in {"read", "done"}
  BY <1>1, <1>2 DEF StartNothing, StartWalk, LocalTyped, Set
<1>4. DOMAIN stack'[c] \subseteq {1}
  <2>1. CASE StartNothing(c)
    BY <1>1, <2>1 DEF StartNothing
  <2>2. CASE StartWalk(c)
    <3>1. \E f : stack'[c] = <<f>>
      BY <1>1, <2>2 DEF StartWalk, LocalTyped, Set
    <3> QED
      BY <3>1
  <2> QED
    BY <1>2, <2>1, <2>2
<1> QED
  BY <1>1, <1>3, <1>4 DEF NothingFails

\* What a step of an undisturbed removal starts from.
RemovalSteps(c) ==
  /\ Removing(c) /\ call' = call /\ UNCHANGED env /\ env = <<disk0, fault>>
  /\ Undisturbed(c) /\ EntryFails(c)
  /\ \A i \in DOMAIN stack[c] : i > 1 => FrameFails(c, i)
  /\ disk \in [Paths -> Kinds] /\ LocalTyped

LEMMA RemovalStepsOk ==
  ASSUME WalkInv, NEW c \in Callers, Step(c), NothingFails(c), Undisturbed(c)'
  PROVE  RemovalSteps(c)
<1>1. call' = call
  BY DEF Step, MakeStep, MakeDone, ReadGone, ReadToRemove, ReadToSearch,
         EnterOpens, EnterFails, RemoveFrameEnds, SearchFrameEnds,
         RemoveEntry, RemoveDir, Removed, FreeFileInfo
<1>2. Removing(c) /\ Undisturbed(c) /\ UNCHANGED env
  BY <1>1, UndisturbedKept, OneThreadSteps DEF Undisturbed, Removing, Acts, WalkInv
<1> QED
  BY <1>1, <1>2, NothingFailsSays DEF RemovalSteps, WalkInv, Typed, DiskTyped, env

LEMMA VisibleAll ==
  ASSUME NEW c, Undisturbed(c)
  PROVE  \A e : Lstat(e) <=> Exists(e)
  BY DEF Undisturbed, Lstat, Visible

LEMMA NothingFailsAtRead ==
  ASSUME WalkInv, NEW c \in Callers, ReadGone(c) \/ ReadToRemove(c), RemovalSteps(c)
  PROVE  NothingFails(c)'
<1> PICK n : n = Len(stack[c])
  OBVIOUS
<1>1. /\ pc[c] = "read" /\ Removing(c) /\ LocalTyped /\ disk' = disk
      /\ InnerFacts(c) /\ EntryFails(c)
  BY InnerOk DEF ReadGone, ReadToRemove, RemovalSteps
<1>2. PICK e \in Returned(c) :
        /\ Reads(c, e, Inner(c).list)
        /\ \/ /\ Exists(e) /\ at' = Set(at, c, e) /\ ok' = ok
              /\ pc' = Set(pc, c, IF IsDir(e) THEN "enter" ELSE "remove")
           \/ /\ ~Exists(e) /\ UNCHANGED <<at, pc>>
              /\ ok' = Set(ok, c, ok[c] /\ (AtRoot(c) \/ Searching(c)))
  BY VisibleAll DEF ReadGone, ReadToRemove, RemovalSteps
<1>3. ReadsOne(c, e, Inner(c).list)
  BY <1>1, <1>2, ReturnedEntry DEF ReadsOne, ReadGone, ReadToRemove, tree
<1> PICK g : g = Inner(c)
  OBVIOUS
<1> PICK f : f = After(g, e, g.list)
  OBVIOUS
<1>4. /\ f.dir = g.dir /\ f.unread = g.unread \ {e} /\ f.present = g.present
      /\ g = stack[c][n] /\ n \in Nat \ {0} /\ DOMAIN stack[c] = 1 .. n
      /\ EntriesOf(c, g.dir) \subseteq Paths
  <2>1. g \in Frames /\ g.list \in Seq(Paths)
    BY <1>1 DEF InnerFacts, Frames
  <2>2. f.dir = g.dir /\ f.unread = g.unread \ {e} /\ f.present = g.present
    BY <2>1, AfterRead
  <2> QED
    BY <1>1, <2>2 DEF InnerFacts
<1>5. /\ e \in Paths /\ stack' \in [Callers -> Seq(Frames)]
      /\ stack'[c][n] = f /\ Len(stack'[c]) = n
      /\ \A i \in 1 .. n - 1 : stack'[c][i] = stack[c][i]
  BY <1>1, <1>3, FrameAfterRead
<1>6. DOMAIN stack'[c] = 1 .. n
  BY <1>5, LenProperties
<1>7. n > 1 => FrameFails(c, n) /\ Current(c, n) = {} /\ ~AtRoot(c)
  BY <1>1, <1>4 DEF RemovalSteps, Current, AtRoot
<1>8. n > 1 => Exists(e)
  <2>1. e \in Inner(c).unread /\ (e \in Inner(c).present \/ Exists(e))
    BY <1>1, ReturnedEntry DEF RemovalSteps, Undisturbed
  <2> QED
    BY <1>4, <1>7, <2>1 DEF FrameFails
<1>9. \/ pc'[c] = "enter" /\ at'[c] = e /\ disk[e] = "dir"
      \/ pc'[c] = "remove" /\ at'[c] = e /\ disk[e] \in {"file", "link"}
      \/ pc'[c] = "read" /\ n = 1
  <2>1. CASE Exists(e)
    <3>1. disk[e] \in {"file", "dir", "link"}
      BY <1>5, <2>1 DEF RemovalSteps, Kinds, Exists
    <3> QED
      BY <1>1, <1>2, <2>1, <3>1 DEF LocalTyped, Set, IsDir
  <2>2. CASE ~Exists(e)
    <3>1. \A m \in Nat \ {0} : m # 1 => m > 1
      OBVIOUS
    <3> QED
      BY <1>1, <1>2, <1>4, <1>8, <2>2, <3>1
  <2> QED
    BY <2>1, <2>2
<1>10. ok'[c]
  <2>1. n = 1 => AtRoot(c)
    BY DEF AtRoot
  <2> QED
    BY <1>1, <1>2, <1>4, <1>8, <2>1 DEF EntryFails, LocalTyped, Set
<1>11. EntryFails(c)'
  BY <1>1, <1>9, <1>10 DEF EntryFails
<1>12. ASSUME NEW i \in 1 .. n, i > 1
       PROVE  FrameFails(c, i)'
  <2>1. FrameFails(c, i)
    BY <1>4, <1>12 DEF RemovalSteps
  <2>2. CASE i = n
    <3>1. Current(c, n)' = {e}
      BY <1>5, <1>9, <1>12, <2>2 DEF Current
    <3>2. stack[c][i] = g /\ stack'[c][i] = f
      BY <1>4, <1>5, <2>2
    <3> QED
      BY <1>1, <1>4, <1>7, <1>12, <2>1, <2>2, <3>1, <3>2 DEF FrameFails, Exists
  <2>3. CASE i # n
    <3>1. i \in 1 .. n - 1 /\ i < n /\ i + 1 \in 1 .. n
      BY <1>4, <2>3
    <3>2. stack'[c][i] = stack[c][i] /\ stack'[c][i + 1].dir = stack[c][i + 1].dir
      <4>1. i + 1 = n \/ i + 1 \in 1 .. n - 1
        BY <1>4, <3>1
      <4> QED
        BY <1>4, <1>5, <3>1, <4>1
    <3>3. Current(c, i)' = Current(c, i)
      BY <1>5, <3>1, <3>2 DEF Current
    <3> QED
      BY <1>1, <2>1, <3>2, <3>3, FrameStays
  <2> QED
    BY <2>2, <2>3
<1> QED
  BY <1>6, <1>11, <1>12, NothingFailsSays DEF NothingFails, EntryFails, FrameFails

LEMMA NothingFailsAtOpening ==
  ASSUME WalkInv, NEW c \in Callers, EnterOpens(c), RemovalSteps(c)
  PROVE  NothingFails(c)'
<1> PICK n : n = Len(stack[c])
  OBVIOUS
<1> PICK d : d = at[c]
  OBVIOUS
<1> PICK f : f = Frame(d, ChildrenOf(d), Listing(d))
  OBVIOUS
<1>1. /\ pc[c] = "enter" /\ LocalTyped /\ InnerFacts(c) /\ EntryFails(c)
      /\ disk[d] = "dir"
  BY InnerOk DEF EnterOpens, RemovalSteps, EntryFails
<1>2. /\ stack' = Set(stack, c, Append(stack[c], f)) /\ pc' = Set(pc, c, "read")
      /\ disk' = disk /\ at' = at /\ ok' = ok
  BY <1>1 DEF EnterOpens
<1>3. /\ n \in Nat \ {0} /\ Len(stack'[c]) = n + 1 /\ DOMAIN stack'[c] = 1 .. n + 1
      /\ DOMAIN stack[c] = 1 .. n
      /\ \A i \in 1 .. n : stack'[c][i] = stack[c][i]
      /\ stack'[c][n + 1] = f
  <2> DEFINE s == stack[c]
             t == stack'[c]
  <2>1. s \in Seq(Frames) /\ t = Append(s, f) /\ n = Len(s) /\ n \in Nat \ {0} /\ DOMAIN s = 1 .. n
    BY <1>1, <1>2 DEF InnerFacts, LocalTyped, Set
  <2>2. f \in Frames
    <3>1. d \in Paths
      BY <1>1 DEF WalkInv, Walk
    <3> QED
      BY <3>1, EmptySeq DEF Frame, Frames, Listing, ChildrenOf
  <2> HIDE DEF s, t
  <2>3. /\ Len(t) = n + 1 /\ DOMAIN t = 1 .. n + 1
        /\ \A i \in 1 .. n : t[i] = s[i]
        /\ t[n + 1] = f
    BY <2>1, <2>2, FramePushed
  <2> QED
    BY <2>1, <2>3 DEF s, t
<1>4. /\ f.dir = d /\ f.unread = ChildrenOf(d)
      /\ f.present = {x \in ChildrenOf(d) : Exists(x)}
  BY <1>1 DEF Frame, Listing
<1>5. pc'[c] = "read" /\ ok'[c]
  BY <1>1, <1>2 DEF LocalTyped, Set, EntryFails
<1>6. EntryFails(c)'
  BY <1>5 DEF EntryFails
<1>7. ASSUME NEW i \in 1 .. n + 1, i > 1
      PROVE  FrameFails(c, i)'
  <2>1. CASE i = n + 1
    <3>1. Current(c, i)' = {} /\ stack'[c][i] = f
      BY <1>3, <1>5, <2>1 DEF Current
    <3> QED
      BY <1>1, <1>2, <1>4, <3>1 DEF FrameFails, Exists
  <2>2. CASE i # n + 1
    <3>1. i \in 1 .. n /\ i < n + 1 /\ (i < n => i + 1 \in 1 .. n) /\ (i < n \/ i = n)
      BY <1>3, <2>2
    <3>2. FrameFails(c, i) /\ stack'[c][i] = stack[c][i]
      BY <1>3, <1>7, <3>1 DEF RemovalSteps
    <3>3. Current(c, i)' = Current(c, i)
      <4>1. CASE i < n
        BY <1>3, <3>1, <4>1 DEF Current
      <4>2. CASE i = n
        BY <1>1, <1>3, <1>4, <3>1, <4>2 DEF Current
      <4> QED
        BY <3>1, <4>1, <4>2
    <3> QED
      BY <1>2, <3>2, <3>3, FrameStays
  <2> QED
    BY <2>1, <2>2
<1> QED
  BY <1>3, <1>6, <1>7 DEF NothingFails, EntryFails, FrameFails

LEMMA NothingFailsAtEnd ==
  ASSUME WalkInv, NEW c \in Callers, RemoveFrameEnds(c), RemovalSteps(c)
  PROVE  NothingFails(c)'
<1> PICK n : n = Len(stack[c])
  OBVIOUS
<1> PICK d : d = Inner(c).dir
  OBVIOUS
<1>1. /\ pc[c] = "read" /\ LocalTyped /\ InnerFacts(c) /\ EntryFails(c) /\ ReadAll(c)
      /\ stack' = Set(stack, c, Front(stack[c])) /\ at' = Set(at, c, d)
      /\ pc' = Set(pc, c, IF AtRoot(c) THEN "done" ELSE "rmdir")
      /\ disk' = disk /\ ok' = ok /\ size' = size /\ call' = call
  BY InnerOk DEF RemoveFrameEnds, RemovalSteps, tree
<1>2. /\ stack' \in [Callers -> Seq(Frames)] /\ Len(stack'[c]) = n - 1
      /\ \A i \in 1 .. n - 1 : stack'[c][i] = stack[c][i]
  BY <1>1, FrameEnds
<1>3. n \in Nat \ {0} /\ DOMAIN stack[c] = 1 .. n /\ DOMAIN stack'[c] = 1 .. n - 1
      /\ d = stack[c][n].dir
  <2>1. DOMAIN stack'[c] = 1 .. Len(stack'[c])
    BY <1>2, LenProperties
  <2> QED
    BY <1>1, <1>2, <2>1 DEF InnerFacts
<1>4. /\ at'[c] = d /\ ok'[c]
      /\ pc'[c] = IF AtRoot(c) THEN "done" ELSE "rmdir"
  BY <1>1 DEF LocalTyped, Set, EntryFails
<1>5. EntryFails(c)'
  <2>1. CASE AtRoot(c)
    BY <1>4, <2>1 DEF EntryFails
  <2>2. CASE ~AtRoot(c)
    <3>1. n # 1
      BY <2>2 DEF AtRoot
    <3>2. \A m \in Nat \ {0} : m # 1 => m > 1 /\ m \in 1 .. m
      OBVIOUS
    <3>3. FrameFails(c, n) /\ Current(c, n) = {}
      <4>1. n > 1 /\ n \in DOMAIN stack[c]
        <5>1. n \in Nat \ {0} /\ DOMAIN stack[c] = 1 .. n
          BY <1>3
        <5>2. n \in 1 .. n /\ n > 1
          BY <5>1, <3>1, <3>2
        <5> QED
          BY <5>1, <5>2
      <4>2. Current(c, n) = {}
        BY <1>1 DEF Current
      <4> QED
        BY <4>1, <4>2 DEF RemovalSteps
    <3>4. stack[c][n] = Inner(c)
      BY <1>1 DEF InnerFacts
    <3>5. disk[d] = "dir" /\ \A x \in ChildrenOf(d) : ~Exists(x)
      <4>1. \A x \in Inner(c).unread \cap Inner(c).present : ~Exists(x)
        BY <1>1, AllRead DEF RemovalSteps, Undisturbed
      <4> QED
        BY <1>1, <1>3, <3>3, <3>4, <4>1 DEF FrameFails
    <3> QED
      BY <1>1, <1>4, <2>2, <3>5 DEF EntryFails, Exists
  <2> QED
    BY <2>1, <2>2
<1>6. ASSUME NEW i \in 1 .. n - 1, i > 1
      PROVE  FrameFails(c, i)'
  <2>1. i \in 1 .. n /\ i < n /\ (i = n - 1 \/ (i < n - 1 /\ i + 1 \in 1 .. n - 1))
        /\ (i = n - 1 => i + 1 = n)
    BY <1>3
  <2>2. FrameFails(c, i) /\ stack'[c][i] = stack[c][i]
    BY <1>2, <1>3, <1>6, <2>1 DEF RemovalSteps
  <2>3. Current(c, i)' = Current(c, i)
    <3>1. CASE i = n - 1
      <4>1. ~AtRoot(c)
        BY <1>3, <1>6, <3>1 DEF AtRoot
      <4> QED
        BY <1>2, <1>3, <1>4, <2>1, <3>1, <4>1 DEF Current
    <3>2. CASE i < n - 1 /\ i + 1 \in 1 .. n - 1
      BY <1>2, <2>1, <3>2 DEF Current
    <3> QED
      BY <2>1, <3>1, <3>2
  <2> QED
    BY <1>1, <2>2, <2>3, FrameStays
<1> QED
  BY <1>3, <1>5, <1>6 DEF NothingFails, EntryFails, FrameFails

LEMMA NothingFailsAtRemoval ==
  ASSUME WalkInv, DiskIsTree, NEW c \in Callers, RemoveEntry(c) \/ RemoveDir(c),
         RemovalSteps(c)
  PROVE  NothingFails(c)'
<1> PICK n : n = Len(stack[c])
  OBVIOUS
<1> PICK e : e = at[c]
  OBVIOUS
<1>1. /\ pc[c] \in {"remove", "rmdir"} /\ LocalTyped /\ InnerFacts(c) /\ EntryFails(c)
      /\ disk \in [Paths -> Kinds] /\ e \in Paths /\ ReadFrom(c, Inner(c), e)
      /\ stack' = stack /\ pc' = Set(pc, c, "read")
  BY InnerOk DEF RemoveEntry, RemoveDir, Removed, RemovalSteps, WalkInv, Walk, InnerFacts
<1>2. Exists(e) /\ \A x \in ChildrenOf(e) : ~Exists(x)
  <2>1. CASE pc[c] = "remove"
    <3>1. disk[e] \in {"file", "link"}
      BY <1>1, <2>1 DEF EntryFails
    <3>2. ASSUME NEW x \in ChildrenOf(e), Exists(x)
          PROVE  FALSE
      BY <1>1, <3>1, <3>2, ParentTyped DEF ChildrenOf, DiskIsTree
    <3> QED
      BY <3>1, <3>2 DEF Exists
  <2>2. CASE pc[c] = "rmdir"
    BY <1>1, <2>2 DEF EntryFails, Exists
  <2> QED
    BY <1>1, <2>1, <2>2
<1>3. CanRemove(e)
  BY <1>2, VisibleAll DEF CanRemove, RemovalSteps, Undisturbed
<1>4. disk' = [disk EXCEPT ![e] = "none"] /\ ok'[c] /\ pc'[c] = "read"
  <2>1. CASE RemoveEntry(c)
    BY <1>1, <1>3, <2>1 DEF RemoveEntry, Removed, LocalTyped, Set, EntryFails
  <2>2. CASE RemoveDir(c)
    <3>1. disk[e] = "dir"
      BY <1>1, <2>2 DEF RemoveDir, EntryFails
    <3> QED
      BY <1>1, <1>3, <2>2, <3>1 DEF RemoveDir, Removed, LocalTyped, Set, EntryFails
  <2> QED
    BY <2>1, <2>2
<1>5. EntryFails(c)'
  BY <1>4 DEF EntryFails
<1>6. \A x \in Paths : Exists(x)' <=> (Exists(x) /\ x # e)
  BY <1>1, <1>4 DEF Exists
<1>7. ASSUME NEW i \in DOMAIN stack[c], i > 1
      PROVE  FrameFails(c, i)'
  <2> PICK g : g = stack[c][i]
    OBVIOUS
  <2>1. /\ FrameFails(c, i) /\ e # g.dir /\ (e \in ChildrenOf(g.dir) => i = n)
    BY <1>1, <1>7, AtIsElsewhere DEF RemovalSteps
  <2>2. /\ g.dir # Top /\ g.dir \in Under(call[c].path) /\ g.dir \in Paths
        /\ g.unread \subseteq ChildrenOf(g.dir)
    BY <1>1, <1>7 DEF WalkInv, Walk, StackOk, FrameOk, EntriesOf, InnerFacts
  <2>3. i = n => Current(c, i) = {e} /\ e \notin g.unread
    BY <1>1 DEF Current, ReadFrom, InnerFacts
  <2>4. i # n => e \notin ChildrenOf(g.dir) /\ Current(c, i)' = Current(c, i)
    BY <1>1, <1>7, <2>1 DEF Current, InnerFacts
  <2>5. disk'[g.dir] = "dir"
    BY <1>1, <1>4, <2>1, <2>2 DEF FrameFails
  <2>6. ChildrenOf(g.dir) \subseteq Paths
    BY DEF ChildrenOf
  <2>7. \A x \in g.unread \cap g.present : Exists(x)'
    <3>1. \A x \in g.unread \cap g.present : Exists(x) /\ x \in Paths /\ x # e
      BY <2>1, <2>2, <2>3, <2>4, <2>6 DEF FrameFails
    <3> QED
      BY <1>6, <3>1
  <2>8. ASSUME NEW x \in ChildrenOf(g.dir) \ Current(c, i)', Exists(x)'
        PROVE  x \in g.unread \cap g.present
    <3>1. Exists(x) /\ x # e
      BY <1>6, <2>6, <2>8
    <3>2. x \notin Current(c, i)
      BY <2>3, <2>4, <2>8, <3>1
    <3> QED
      BY <2>1, <3>1, <3>2 DEF FrameFails
  <2>9. stack'[c][i] = g
    BY <1>1
  <2> QED
    BY <2>5, <2>7, <2>8, <2>9 DEF FrameFails
<1> QED
  BY <1>1, <1>5, <1>7 DEF NothingFails, EntryFails, FrameFails

LEMMA NothingFailsGoesOn ==
  ASSUME WalkInv, DiskIsTree, NEW c \in Callers, Acts(c), NothingFails(c)
  PROVE  NothingFails(c)'
<1>1. CASE StartNothing(c) \/ StartMake(c) \/ StartWalk(c)
  BY <1>1, NothingFailsAtStart
<1>2. CASE Step(c)
  <2> SUFFICES ASSUME Undisturbed(c)' PROVE NothingFails(c)'
    BY DEF NothingFails
  <2>1. RemovalSteps(c)
    BY <1>2, RemovalStepsOk
  <2>2. Removing(c) /\ ~Searching(c) /\ pc[c] \notin {"mkdir", "found"}
    BY <2>1 DEF RemovalSteps, Removing, Searching, WalkInv, Placed
  <2>3. ~EnterFails(c)
    <3>1. pc[c] = "enter" => Lstat(at[c]) /\ at[c] \notin fault.denied
      BY <2>1, VisibleAll DEF RemovalSteps, EntryFails, Exists, Undisturbed
    <3> QED
      BY <3>1 DEF EnterFails
  <2>4. ~MakeStep(c) /\ ~MakeDone(c) /\ ~ReadToSearch(c) /\ ~SearchFrameEnds(c)
        /\ ~FreeFileInfo(c)
    BY <2>2 DEF MakeStep, MakeDone, ReadToSearch, SearchFrameEnds, FreeFileInfo
  <2> QED
    BY <1>2, <2>1, <2>3, <2>4, NothingFailsAtRead, NothingFailsAtOpening,
       NothingFailsAtEnd, NothingFailsAtRemoval DEF Step
<1> QED
  BY <1>1, <1>2 DEF Acts

(***************************************************************************)
(* The invariant of the removal: what was seen to be gone stays gone, and  *)
(* nothing fails in a removal that nobody and nothing disturbs.            *)
(***************************************************************************)
THEOREM RemoveInvariant == Spec => []RemoveInv
<1>1. Init => RemoveInv
  BY EmptySeq DEF Init, RemoveInv, PathGone, NothingFails, Undisturbed, Removing, NoCall
<1>2. WalkInv /\ DiskInv /\ RemoveInv /\ [Next]_vars => RemoveInv'
  <2>1. WalkInv /\ RemoveInv /\ UNCHANGED vars => RemoveInv'
    BY DEF RemoveInv, PathGone, NothingFails, Undisturbed, Removing, Visible, Alone,
           Others, Exists, Current, vars, env, local
  <2>2. ASSUME WalkInv, DiskInv, RemoveInv, NEW o \in Callers, Acts(o), NEW c \in Callers
        PROVE  PathGone(c)' /\ NothingFails(c)'
    BY <2>2, PathGoes, PathStaysGone, NothingFailsFor, NothingFailsGoesOn
       DEF RemoveInv, DiskInv
  <2> QED
    BY <2>1, <2>2, ThreadsAct DEF RemoveInv
<1> QED
  BY <1>1, <1>2, WalkInvariant, DiskInvariant, PTL DEF Spec

\* Without the path there is nothing below it.
LEMMA NothingBelow ==
  ASSUME DiskIsTree, NEW p \in Paths, ~Exists(p)
  PROVE  \A x \in Under(p) : ~Exists(x)
<1> DEFINE T == {x \in Paths : x \in Under(p) => ~Exists(x)}
<1>1. ASSUME NEW x \in Paths, Parent[x] = Top \/ Parent[x] \in T
      PROVE  x \in T
  <2> SUFFICES ASSUME x \in Under(p), x # p PROVE ~Exists(x)
    OBVIOUS
  <2>1. Parent[x] \in Under(p) /\ Parent[x] \in Paths
    BY UnderByParent
  <2>2. Parent[x] # Top
    BY <2>1, ParentTyped
  <2>3. ~Exists(Parent[x])
    BY <1>1, <2>1, <2>2
  <2> QED
    BY <2>2, <2>3 DEF DiskIsTree, Exists
<1> HIDE DEF T
<1>2. Paths \subseteq T
  BY <1>1, TreeInduction
<1> QED
  BY <1>2, UnderByParent DEF T

(***************************************************************************)
(* PFRemoveFile returns 0 only when nothing that could be seen is left,    *)
(* whatever the other threads remove or search, and always when it is      *)
(* alone and nothing is denied or busy (RemoveOkMeansGone).                *)
(***************************************************************************)
THEOREM RemovalIsComplete == Spec => []RemoveOkMeansGone
<1>1. ASSUME WalkInv, DiskInv, RemoveInv PROVE RemoveOkMeansGone
  <2> SUFFICES ASSUME NEW c \in Callers, Done(c, {"remove"})
               PROVE  /\ ok[c] /\ Visible(call[c].path) /\ ~Others(c, {"make", "parent"})
                           => \A x \in Under(call[c].path) : ~Exists(x)
                      /\ Alone(c) /\ fault.denied = {} /\ fault.busy = {} => ok[c]
    BY DEF RemoveOkMeansGone
  <2>1. Removing(c) /\ pc[c] = "done" /\ call[c] \in Calls[c] \cup {NoCall}
        /\ call[c].path # Top
    BY <1>1 DEF Done, Removing, WalkInv, Typed, LocalTyped
  <2>2. call[c].path \in Paths
    BY <2>1, CallTyped DEF Removing, NoCall
  <2>3. PathGone(c) /\ NothingFails(c) /\ DiskIsTree
    BY <1>1 DEF RemoveInv, DiskInv
  <2>4. ASSUME ok[c], Visible(call[c].path), ~Others(c, {"make", "parent"})
        PROVE  \A x \in Under(call[c].path) : ~Exists(x)
    <3>1. ~Exists(call[c].path)
      BY <2>1, <2>2, <2>3, <2>4 DEF PathGone
    <3> QED
      BY <2>2, <2>3, <3>1, NothingBelow
  <2>5. Alone(c) /\ fault.denied = {} /\ fault.busy = {} => ok[c]
    BY <2>1, <2>3 DEF NothingFails, Undisturbed
  <2> QED
    BY <2>4, <2>5
<1>2. WalkInv /\ DiskInv /\ RemoveInv => RemoveOkMeansGone
  BY <1>1
<1> QED
  BY <1>2, WalkInvariant, DiskInvariant, RemoveInvariant, PTL

-----------------------------------------------------------------------------
(* The making of directories. *)

LEMMA GrowthKept ==
  ASSUME WalkInv, OnlyGrows, Untouched, NEW o \in Callers, Acts(o)
  PROVE  OnlyGrows' /\ Untouched'
<1>1. disk \in [Paths -> Kinds] /\ disk0' = disk0
  BY OneThreadSteps DEF WalkInv, Typed, DiskTyped, env
<1>2. \A c \in Callers : call[c].op # "none" => call'[c] = call[c]
  BY CallKept DEF NoCall
<1>3. OnlyGrows'
  <2> SUFFICES ASSUME \A c \in Callers : ~Removing(c)',
                      NEW x \in Paths, disk'[x] # disk0[x]
               PROVE  disk0[x] = "none" /\ disk'[x] = "dir"
    BY <1>1 DEF OnlyGrows
  <2>1. \A c \in Callers : ~Removing(c)
    BY <1>2 DEF Removing
  <2>2. disk' = disk \/ MakesDir(o)
    BY <2>1, OneThreadSteps, ChangesAreCalled DEF Removing, WalkInv
  <2>3. CASE disk' = disk
    BY <2>1, <2>3 DEF OnlyGrows
  <2>4. CASE MakesDir(o)
    <3> PICK e : e = Head(steps[o])
      OBVIOUS
    <3>1. disk[e] = "none" /\ disk' = [disk EXCEPT ![e] = "dir"]
      BY <2>4 DEF MakesDir, Exists
    <3>2. CASE x = e
      BY <1>1, <2>1, <3>1, <3>2 DEF OnlyGrows
    <3>3. CASE x # e
      BY <1>1, <2>1, <3>1, <3>3 DEF OnlyGrows
    <3> QED
      BY <3>2, <3>3
  <2> QED
    BY <2>2, <2>3, <2>4
<1>4. Untouched'
  <2> SUFFICES ASSUME \A c \in Callers : call'[c].op \notin {"make", "parent", "remove"}
               PROVE  disk' = disk0
    BY <1>1 DEF Untouched
  <2>1. \A c \in Callers : call[c].op \notin {"make", "parent", "remove"}
    BY <1>2
  <2> QED
    BY <2>1, OneThreadSteps, ChangesAreCalled DEF Untouched, WalkInv
<1> QED
  BY <1>3, <1>4

\* Nobody removes while c makes directories.
Unhindered(c) == Making(c) /\ ~Others(c, {"remove"})

\* The step of any thread only adds to the disk then.
LEMMA NothingLost ==
  ASSUME WalkInv, NEW o \in Callers, Acts(o), NEW c \in Callers,
         Unhindered(c)', o # c \/ Making(c)
  PROVE  /\ Unhindered(c) /\ call'[c] = call[c]
         /\ \A x \in Paths : Exists(x) => disk'[x] = disk[x]
<1>1. ~Others(c, {"remove"})
  BY OthersStay DEF Unhindered
<1>2. Making(c) /\ call'[c] = call[c]
  <2>1. CASE o # c
    BY <2>1, OneThreadSteps DEF WalkInv, Still, Unhindered, Making
  <2>2. CASE Making(c)
    BY <2>2, CallKept DEF Making, NoCall
  <2> QED
    BY <2>1, <2>2
<1>3. call[o].op # "remove"
  BY <1>1, <1>2 DEF Others, Making
<1>4. disk' = disk \/ MakesDir(o)
  BY <1>3, OneThreadSteps, ChangesAreCalled DEF WalkInv
<1>5. disk \in [Paths -> Kinds]
  BY DEF WalkInv, Typed, DiskTyped
<1>6. \A x \in Paths : Exists(x) => disk'[x] = disk[x]
  BY <1>4, <1>5 DEF MakesDir, Exists
<1> QED
  BY <1>1, <1>2, <1>6 DEF Unhindered

LEMMA MadeStays ==
  ASSUME WalkInv, NEW o \in Callers, Acts(o),
         \A x \in Paths : Exists(x) => disk'[x] = disk[x]
  PROVE  /\ \A x \in Paths : Made(x) => Made(x)'
         /\ \A x \in Paths : Exists(x) => Exists(x)'
<1>1. UNCHANGED env
  BY OneThreadSteps DEF WalkInv
<1> QED
  BY <1>1, ParentTyped DEF Made, Visible, Exists, env

\* The three parts of MakeWay.
OnTheWay(c) ==
  /\ ok[c] /\ call[c].path \notin TooLong
  /\ ToSet(steps[c]) \subseteq ToSet(DirsToMake(call[c]))
  /\ \A x \in ToSet(DirsToMake(call[c])) : x \in ToSet(steps[c]) \/ Made(x)
  /\ \A i \in DOMAIN steps[c] :
       \/ Parent[steps[c][i]] = Top
       \/ i > 1 /\ Parent[steps[c][i]] = steps[c][i - 1]
       \/ i = 1 /\ Exists(Parent[steps[c][i]])

AllMade(c) ==
  call[c].path \notin TooLong /\ \A x \in ToSet(DirsToMake(call[c])) : Made(x)

LEMMA MakeWaySays ==
  ASSUME NEW c
  PROVE  MakeWay(c) <=>
           (Unhindered(c) => /\ pc[c] = "mkdir" => OnTheWay(c)
                             /\ pc[c] = "done" /\ ok[c] => AllMade(c)
                             /\ pc[c] = "done" /\ ~ok[c] => ~NothingInTheWay(call[c]))
  BY DEF MakeWay, Unhindered, OnTheWay, AllMade

LEMMA DirsArePaths ==
  ASSUME NEW c, Making(c)
  PROVE  ToSet(DirsToMake(call[c])) \subseteq Paths
<1>1. DirsToMake(call[c]) \in Seq(Paths)
  BY DirsInOrder DEF Making
<1> QED
  BY <1>1, LenProperties, ElementOfSeq DEF ToSet

LEMMA MakeWayFor ==
  ASSUME WalkInv, NEW o \in Callers, Acts(o), NEW c \in Callers \ {o}, MakeWay(c)
  PROVE  MakeWay(c)'
<1> SUFFICES ASSUME Unhindered(c)' PROVE MakeWay(c)'
  BY DEF Unhindered, MakeWay
<1>1. /\ Unhindered(c) /\ call'[c] = call[c]
      /\ \A x \in Paths : Made(x) => Made(x)'
      /\ \A x \in Paths : Exists(x) => Exists(x)'
  BY NothingLost, MadeStays
<1>2. Still(c) /\ UNCHANGED env /\ steps[c] \in Seq(Paths)
  BY OneThreadSteps DEF WalkInv, Typed, LocalTyped
<1>3. \A i \in DOMAIN steps[c] : steps[c][i] \in Paths
  BY <1>2, LenProperties, ElementOfSeq
<1>4. ToSet(DirsToMake(call[c])) \subseteq Paths
  BY <1>1, DirsArePaths DEF Unhindered
<1> PICK D : D = ToSet(DirsToMake(call[c]))
  OBVIOUS
<1>5. ToSet(DirsToMake(call[c]))' = D
  BY <1>1 DEF DirsToMake
<1>6. pc[c] = "mkdir" /\ OnTheWay(c) => OnTheWay(c)'
  BY <1>1, <1>2, <1>3, <1>4, <1>5, ParentTyped DEF OnTheWay, Still
<1>7. AllMade(c) => AllMade(c)'
  BY <1>1, <1>4, <1>5 DEF AllMade
<1>8. NothingInTheWay(call[c])' <=> NothingInTheWay(call[c])
  BY <1>1, <1>2, <1>5 DEF NothingInTheWay, Visible, env
<1> QED
  BY <1>1, <1>2, <1>6, <1>7, <1>8, MakeWaySays DEF Still, MakeWay, Unhindered,
     OnTheWay, AllMade

LEMMA HeadAndTail ==
  ASSUME NEW S, NEW s \in Seq(S), s # <<>>
  PROVE  /\ Head(s) = s[1] /\ Head(s) \in S /\ 1 \in DOMAIN s
         /\ \A i \in DOMAIN Tail(s) : i + 1 \in DOMAIN s /\ Tail(s)[i] = s[i + 1] /\ i \in Nat \ {0}
         /\ ToSet(s) = {Head(s)} \cup ToSet(Tail(s))
<1> DEFINE t == Tail(s)
<1>1. /\ Head(s) = s[1] /\ Head(s) \in S /\ Len(s) \in Nat \ {0} /\ DOMAIN s = 1 .. Len(s)
      /\ t \in Seq(S) /\ Len(t) = Len(s) - 1
      /\ \A i \in 1 .. Len(s) - 1 : t[i] = s[i + 1]
  BY HeadTailProperties, LenProperties, EmptySeq
<1> HIDE DEF t
<1>2. DOMAIN t = 1 .. Len(s) - 1
  BY <1>1, LenProperties
<1>3. \A i \in DOMAIN t : i + 1 \in DOMAIN s /\ t[i] = s[i + 1] /\ i \in Nat \ {0}
  BY <1>1, <1>2
<1>4. 1 \in DOMAIN s
  BY <1>1
<1>5. \A j \in DOMAIN s : j = 1 \/ (j - 1 \in DOMAIN t /\ t[j - 1] = s[j])
  <2> TAKE j \in DOMAIN s
  <2>1. j = 1 \/ (j - 1 \in 1 .. Len(s) - 1 /\ (j - 1) + 1 = j)
    BY <1>1
  <2> QED
    BY <1>1, <1>2, <2>1
<1>6. ToSet(s) \subseteq {Head(s)} \cup ToSet(t)
  BY <1>1, <1>5 DEF ToSet
<1>7. {Head(s)} \cup ToSet(t) \subseteq ToSet(s)
  BY <1>1, <1>3, <1>4 DEF ToSet
<1> QED
  BY <1>1, <1>3, <1>4, <1>6, <1>7 DEF t

LEMMA MakeWayStarts ==
  ASSUME WalkInv, NEW c \in Callers, StartMake(c)
  PROVE  MakeWay(c)'
<1>1. pc[c] = "idle" /\ ok[c] /\ LocalTyped
  BY DEF WalkInv, Typed, Placed, StartMake
<1>2. PICK k \in Calls[c] :
        /\ k.path # Top /\ call' = Set(call, c, k)
        /\ \/ /\ k.path \in TooLong /\ ok' = Set(ok, c, FALSE) /\ pc' = Set(pc, c, "done")
           \/ /\ k.path \notin TooLong /\ ok' = ok /\ pc' = Set(pc, c, "mkdir")
              /\ steps' = Set(steps, c, DirsToMake(k))
  BY DEF StartMake
<1>3. call'[c] = k /\ k.path \in Paths
  BY <1>1, <1>2, CallTyped DEF LocalTyped, Set
<1> PICK s : s = DirsToMake(k)
  OBVIOUS
<1>4. InChain(s) /\ DirsToMake(call[c])' = s
  BY <1>3, DirsInOrder DEF DirsToMake
<1>5. CASE k.path \in TooLong
  <2>1. pc'[c] = "done" /\ ~ok'[c]
    BY <1>1, <1>2, <1>5 DEF LocalTyped, Set
  <2>2. ~NothingInTheWay(call[c])'
    BY <1>3, <1>5 DEF NothingInTheWay
  <2> QED
    BY <2>1, <2>2 DEF MakeWay
<1>6. CASE k.path \notin TooLong
  <2>1. pc'[c] = "mkdir" /\ ok'[c] /\ steps'[c] = s
    BY <1>1, <1>2, <1>6 DEF LocalTyped, Set
  <2>2. OnTheWay(c)'
    BY <1>3, <1>4, <1>6, <2>1 DEF OnTheWay, InChain
  <2> QED
    BY <2>1, <2>2 DEF MakeWay, OnTheWay
<1> QED
  BY <1>5, <1>6

LEMMA MakeWaySteps ==
  ASSUME WalkInv, DiskIsTree, OnlyGrows, NEW c \in Callers, MakeStep(c), MakeWay(c)
  PROVE  MakeWay(c)'
<1> SUFFICES ASSUME Unhindered(c)' PROVE MakeWay(c)'
  BY DEF Unhindered, MakeWay
<1> PICK e : e = Head(steps[c])
  OBVIOUS
<1> PICK t : t = Tail(steps[c])
  OBVIOUS
<1> PICK D : D = ToSet(DirsToMake(call[c]))
  OBVIOUS
<1>1. /\ LocalTyped /\ disk \in [Paths -> Kinds] /\ steps[c] \in Seq(Paths)
      /\ pc[c] = "mkdir" /\ steps[c] # <<>> /\ Acts(c)
      /\ steps' = Set(steps, c, t) /\ call' = call
  BY DEF WalkInv, Typed, DiskTyped, LocalTyped, MakeStep, Acts, Step
<1>2. UNCHANGED env
  BY DEF MakeStep
<1>3. Unhindered(c)
  BY <1>1, <1>2 DEF Unhindered, Making, Others
<1>4. OnTheWay(c) /\ ToSet(DirsToMake(call[c]))' = D
  BY <1>1, <1>3, MakeWaySays DEF DirsToMake
<1>5. /\ e = steps[c][1] /\ e \in Paths /\ 1 \in DOMAIN steps[c]
      /\ \A i \in DOMAIN t : i + 1 \in DOMAIN steps[c] /\ t[i] = steps[c][i + 1] /\ i \in Nat \ {0}
      /\ ToSet(steps[c]) = {e} \cup ToSet(t)
  BY <1>1, HeadAndTail
<1>6. \A x \in Paths : Exists(x) => disk'[x] = disk[x]
  BY <1>1, <1>3, NothingLost DEF Unhindered
<1>7. /\ \A x \in Paths : Made(x) => Made(x)'
      /\ \A x \in Paths : Exists(x) => Exists(x)'
  BY <1>1, <1>6, MadeStays
<1>8. /\ D \subseteq Paths /\ e \in D /\ steps'[c] = t
      /\ \A i \in DOMAIN t : t[i] \in Paths
  <2>1. D \subseteq Paths
    BY <1>3, DirsArePaths DEF Unhindered
  <2>2. \A i \in DOMAIN t : t[i] \in ToSet(steps[c])
    BY <1>5 DEF ToSet
  <2> QED
    BY <1>1, <1>4, <1>5, <2>1, <2>2 DEF OnTheWay, LocalTyped, Set
<1>9. ASSUME Made(e)', ok' = ok, pc' = pc
      PROVE  MakeWay(c)'
  <2>1. ASSUME NEW i \in DOMAIN t
        PROVE  \/ Parent[t[i]] = Top
               \/ i > 1 /\ Parent[t[i]] = t[i - 1]
               \/ i = 1 /\ Exists(Parent[t[i]])'
    <3>1. i + 1 \in DOMAIN steps[c] /\ i + 1 > 1 /\ (i + 1) - 1 = i /\ i + 1 # 1
          /\ t[i] = steps[c][i + 1]
      BY <1>5
    <3>2. Parent[t[i]] = Top \/ Parent[t[i]] = steps[c][i]
      BY <1>4, <3>1 DEF OnTheWay
    <3>3. CASE i = 1
      <4>1. Exists(e)'
        BY <1>9 DEF Made
      <4> QED
        BY <1>5, <3>2, <3>3, <4>1
    <3>4. CASE i # 1
      <4>1. i > 1 /\ i - 1 \in DOMAIN t /\ (i - 1) + 1 = i
        <5>1. t \in Seq(Paths)
          BY <1>1, HeadTailProperties
        <5>2. DOMAIN t = 1 .. Len(t) /\ Len(t) \in Nat
          BY <5>1, LenProperties
        <5> QED
          BY <3>4, <5>2
      <4>2. t[i - 1] = steps[c][i]
        BY <1>5, <4>1
      <4> QED
        BY <3>2, <4>1, <4>2
    <3> QED
      BY <3>3, <3>4
  <2>2. \A x \in D : x \in ToSet(t) \/ Made(x)'
    BY <1>4, <1>5, <1>7, <1>8, <1>9 DEF OnTheWay
  <2>3. OnTheWay(c)'
    <3>1. /\ ok[c] /\ call[c].path \notin TooLong
          /\ ToSet(t) \subseteq D
      BY <1>4, <1>5 DEF OnTheWay
    <3>2. /\ ok'[c] /\ call'[c].path \notin TooLong /\ steps'[c] = t
          /\ ToSet(DirsToMake(call[c]))' = D
      BY <1>1, <1>4, <1>8, <1>9, <3>1
    <3> QED
      BY <2>1, <2>2, <3>1, <3>2 DEF OnTheWay
  <2> QED
    BY <1>1, <1>9, <2>3 DEF MakeWay, OnTheWay
<1>10. CASE Lstat(e) /\ UNCHANGED <<disk, ok, pc>>
  <2>1. Made(e)
    BY <1>5, <1>10 DEF Made, Lstat, DiskIsTree
  <2> QED
    BY <1>5, <1>7, <1>9, <1>10, <2>1
<1>11. CASE /\ ~Exists(e) /\ CanHold(e)
            /\ disk' = [disk EXCEPT ![e] = "dir"] /\ UNCHANGED <<ok, pc>>
  <2>1. disk'[e] = "dir" /\ Visible(e)'
    BY <1>1, <1>2, <1>5, <1>11 DEF CanHold, Visible, env
  <2>2. Parent[e] = Top \/ disk'[Parent[e]] = "dir"
    BY <1>5, <1>6, <1>11, ParentTyped DEF CanHold, Exists
  <2>3. Made(e)'
    BY <2>1, <2>2 DEF Made, Exists
  <2> QED
    BY <1>9, <1>11, <2>3
<1>12. CASE ~Lstat(e) /\ ~CanHold(e) /\ Fail(c) /\ UNCHANGED disk
  <2>1. pc'[c] = "done" /\ ~ok'[c]
    BY <1>1, <1>12 DEF Fail, LocalTyped, Set
  <2>2. ~(Visible(e) /\ (Parent[e] = Top \/ disk0[Parent[e]] \in {"none", "dir"}))
    <3> SUFFICES ASSUME Visible(e) PROVE Parent[e] # Top /\ disk0[Parent[e]] \notin {"none", "dir"}
      OBVIOUS
    <3>1. Parent[e] # Top /\ disk[Parent[e]] # "dir" /\ Parent[e] \in Paths
      BY <1>5, <1>12, ParentTyped DEF CanHold
    <3>2. Exists(Parent[e])
      BY <1>4, <1>5, <3>1 DEF OnTheWay
    <3>3. \A p \in Callers : ~Removing(p)
      BY <1>3 DEF Unhindered, Making, Others, Removing
    <3>4. disk[Parent[e]] = disk0[Parent[e]]
      BY <3>1, <3>3 DEF OnlyGrows
    <3> QED
      BY <3>1, <3>2, <3>4 DEF Exists
  <2>3. ~NothingInTheWay(call[c])
    BY <1>8, <2>2 DEF NothingInTheWay
  <2>4. ~NothingInTheWay(call[c])'
    BY <1>1, <1>2, <1>4, <2>3 DEF NothingInTheWay, Visible, env
  <2> QED
    BY <2>1, <2>4 DEF MakeWay
<1> QED
  BY <1>10, <1>11, <1>12 DEF MakeStep, Makes

LEMMA MakeWayEnds ==
  ASSUME WalkInv, NEW c \in Callers, MakeDone(c), MakeWay(c)
  PROVE  MakeWay(c)'
<1> SUFFICES ASSUME Unhindered(c)' PROVE MakeWay(c)'
  BY DEF Unhindered, MakeWay
<1>1. /\ LocalTyped /\ pc[c] = "mkdir" /\ steps[c] = <<>> /\ pc' = Set(pc, c, "done")
      /\ UNCHANGED <<disk, env, call, ok>>
  BY DEF WalkInv, Typed, MakeDone
<1>2. Unhindered(c)
  BY <1>1 DEF Unhindered, Making, Others
<1>3. OnTheWay(c)
  BY <1>1, <1>2, MakeWaySays
<1>4. ToSet(steps[c]) = {}
  BY <1>1 DEF ToSet
<1>5. AllMade(c)
  BY <1>3, <1>4 DEF OnTheWay, AllMade
<1>6. AllMade(c)'
  BY <1>1, <1>5 DEF AllMade, Made, Visible, Exists, DirsToMake, env
<1>7. pc'[c] = "done" /\ ok'[c]
  BY <1>1, <1>3 DEF LocalTyped, Set, OnTheWay
<1> QED
  BY <1>6, <1>7 DEF MakeWay, AllMade

LEMMA MakeWayGoesOn ==
  ASSUME WalkInv, DiskIsTree, OnlyGrows, NEW c \in Callers, Acts(c), MakeWay(c)
  PROVE  MakeWay(c)'
<1>1. CASE StartMake(c)
  BY <1>1, MakeWayStarts
<1>2. CASE MakeStep(c) \/ MakeDone(c)
  BY <1>2, MakeWaySteps, MakeWayEnds
<1>3. ASSUME ~StartMake(c), ~MakeStep(c), ~MakeDone(c)
      PROVE  ~Making(c)'
  <2>1. CASE StartNothing(c) \/ StartWalk(c)
    <3>1. PICK k \in Calls[c] : call' = Set(call, c, k) /\ (k.path = Top \/ k.op \in {"remove", "search"})
      BY <2>1 DEF StartNothing, StartWalk
    <3>2. call'[c] = k
      BY <3>1 DEF WalkInv, Typed, LocalTyped, Set
    <3> QED
      BY <3>1, <3>2, ParentTyped DEF Making
  <2>2. CASE Step(c)
    <3>1. pc[c] \in {"read", "enter", "remove", "rmdir", "found"} /\ call' = call
      BY <1>3, <2>2 DEF Step, ReadGone, ReadToRemove, ReadToSearch,
         EnterOpens, EnterFails, RemoveFrameEnds, SearchFrameEnds,
         RemoveEntry, RemoveDir, Removed, FreeFileInfo
    <3> QED
      BY <3>1 DEF WalkInv, Placed, Making, Removing, Searching
  <2> QED
    BY <1>3, <2>1, <2>2 DEF Acts
<1> QED
  BY <1>1, <1>2, <1>3 DEF MakeWay, Making

LEMMA PathStaysUnmade ==
  ASSUME WalkInv, OnlyGrows, Untouched, NEW o \in Callers, Acts(o), NEW c \in Callers,
         MakeWay(c), PathNotMade(c)
  PROVE  PathNotMade(c)'
<1> SUFFICES ASSUME call'[c].op = "parent", call'[c].path \in Paths, Alone(c)'
             PROVE  disk'[call'[c].path] = disk0'[call'[c].path]
  BY DEF PathNotMade
<1>1. UNCHANGED env /\ disk \in [Paths -> Kinds] /\ Alone(c)
  BY OthersStay, OneThreadSteps DEF Alone, WalkInv, Typed, DiskTyped
<1>2. CASE call[c] = NoCall
  <2>1. \A p \in Callers : call[p].op \notin {"make", "parent", "remove"}
    BY <1>1, <1>2 DEF Alone, Others, NoCall
  <2>2. disk' = disk /\ disk = disk0
    BY <2>1, OneThreadSteps, ChangesAreCalled DEF Untouched, WalkInv
  <2> QED
    BY <1>1, <2>2 DEF env
<1>3. CASE call[c] # NoCall
  <2> PICK p : p = call[c].path
    OBVIOUS
  <2>1. call'[c] = call[c] /\ p \in Paths /\ call[c].op = "parent"
    BY <1>3, CallKept
  <2>2. disk[p] = disk0[p]
    BY <1>1, <2>1 DEF PathNotMade
  <2>3. disk' = disk \/ (o = c /\ MakesDir(c))
    BY <1>1, <2>1, OneThreadSteps, ChangesAreCalled DEF Alone, Others, WalkInv
  <2>4. CASE o = c /\ MakesDir(c)
    <3>1. Unhindered(c) /\ pc[c] = "mkdir" /\ steps[c] # <<>> /\ steps[c] \in Seq(Paths)
      BY <1>1, <2>1, <2>4 DEF Unhindered, Making, Alone, Others, MakesDir, WalkInv, Typed, LocalTyped
    <3>2. OnTheWay(c)
      BY <3>1, MakeWaySays
    <3>3. Head(steps[c]) \in ToSet(DirsToMake(call[c]))
      BY <3>1, <3>2, HeadAndTail DEF OnTheWay
    <3>4. p \notin ToSet(DirsToMake(call[c]))
      BY <2>1, DirsInOrder
    <3>5. disk'[p] = disk[p]
      BY <1>1, <2>1, <2>4, <3>3, <3>4 DEF MakesDir
    <3> QED
      BY <1>1, <2>1, <2>2, <3>5 DEF env
  <2> QED
    BY <1>1, <2>1, <2>2, <2>3, <2>4 DEF env
<1> QED
  BY <1>2, <1>3

(***************************************************************************)
(* The invariant of the making of directories: while nobody removes, the   *)
(* disk only gains directories, and of the directories on the way to the   *)
(* path those that are not made yet are the steps that are left.           *)
(***************************************************************************)
THEOREM MakeInvariant == Spec => []MakeInv
<1>1. Init => MakeInv
  BY DEF Init, MakeInv, OnlyGrows, Untouched, MakeWay, Making, PathNotMade, NoCall
<1>2. WalkInv /\ DiskInv /\ MakeInv /\ [Next]_vars => MakeInv'
  <2>1. WalkInv /\ MakeInv /\ UNCHANGED vars => MakeInv'
    BY DEF MakeInv, OnlyGrows, Untouched, MakeWay, Making, PathNotMade, Made, Visible,
           Exists, Removing, Alone, Others, NothingInTheWay, DirsToMake, vars, env, local
  <2>2. ASSUME WalkInv, DiskInv, MakeInv, NEW o \in Callers, Acts(o)
        PROVE  MakeInv'
    <3>1. DiskIsTree /\ OnlyGrows /\ Untouched
          /\ \A c \in Callers : MakeWay(c) /\ PathNotMade(c)
      BY <2>2 DEF MakeInv, DiskInv
    <3>2. OnlyGrows' /\ Untouched'
      BY <2>2, <3>1, GrowthKept
    <3>3. \A c \in Callers : MakeWay(c)'
      BY <2>2, <3>1, MakeWayFor, MakeWayGoesOn
    <3>4. \A c \in Callers : PathNotMade(c)'
      BY <2>2, <3>1, PathStaysUnmade
    <3> QED
      BY <3>2, <3>3, <3>4 DEF MakeInv
  <2> QED
    BY <2>1, <2>2, ThreadsAct
<1> QED
  BY <1>1, <1>2, WalkInvariant, DiskInvariant, PTL DEF Spec

(***************************************************************************)
(* PFMakeDirectory returns 0 exactly when nothing was in the way at first, *)
(* however many threads make the same directories, and the way is there    *)
(* then; PFMakeParentDirectory leaves the path itself alone                *)
(* (MakeOkMeansMade).                                                      *)
(***************************************************************************)
THEOREM DirectoriesAreMade == Spec => []MakeOkMeansMade
<1>1. ASSUME WalkInv, MakeInv PROVE MakeOkMeansMade
  <2> SUFFICES ASSUME NEW c \in Callers, Done(c, {"make", "parent"}), ~Others(c, {"remove"})
               PROVE  /\ ok[c] <=> NothingInTheWay(call[c])
                      /\ ok[c] => \A x \in ToSet(DirsToMake(call[c])) :
                                   Exists(x) /\ (Parent[x] = Top \/ disk[Parent[x]] = "dir")
                      /\ call[c].op = "parent" /\ Alone(c) => disk[call[c].path] = disk0[call[c].path]
    BY DEF MakeOkMeansMade
  <2>1. pc[c] = "done" /\ call[c].op \in {"make", "parent"} /\ call[c].path \in Paths
    <3>1. call[c] \in Calls[c]
      BY <1>1 DEF Done, NoCall, WalkInv, Typed, LocalTyped
    <3> QED
      BY <3>1, CallTyped DEF Done
  <2>2. Unhindered(c) /\ ok[c] \in BOOLEAN
    BY <1>1, <2>1 DEF Unhindered, Making, WalkInv, Typed, LocalTyped
  <2>3. /\ ok[c] => AllMade(c)
        /\ ~ok[c] => ~NothingInTheWay(call[c])
        /\ PathNotMade(c) /\ OnlyGrows
    BY <1>1, <2>1, <2>2, MakeWaySays DEF MakeInv
  <2>4. ASSUME ok[c]
        PROVE  /\ NothingInTheWay(call[c])
               /\ \A x \in ToSet(DirsToMake(call[c])) :
                    Exists(x) /\ (Parent[x] = Top \/ disk[Parent[x]] = "dir")
    <3>1. AllMade(c)
      BY <2>3, <2>4
    <3>2. \A p \in Callers : ~Removing(p)
      BY <2>1 DEF Others, Removing
    <3>3. ToSet(DirsToMake(call[c])) \subseteq Paths
      BY <2>2, DirsArePaths DEF Unhindered
    <3>4. \A x \in Paths : Parent[x] = Top \/ Parent[x] \in Paths
      BY ParentTyped
    <3>5. \A x \in Paths : disk[x] = "dir" => disk0[x] \in {"none", "dir"}
      BY <2>3, <3>2 DEF OnlyGrows
    <3> QED
      BY <3>1, <3>3, <3>4, <3>5 DEF AllMade, Made, NothingInTheWay
  <2> QED
    BY <2>1, <2>3, <2>4 DEF PathNotMade
<1>2. WalkInv /\ MakeInv => MakeOkMeansMade
  BY <1>1
<1> QED
  BY <1>2, WalkInvariant, MakeInvariant, PTL

-----------------------------------------------------------------------------
(* The sizes: what is above and below the entries of an open directory. *)

\* Of two entries of the same directory nothing is below both.
LEMMA Siblings ==
  ASSUME NEW x \in Paths, NEW e \in {x} \cup Above[x], NEW g \in {x} \cup Above[x],
         Parent[e] = Parent[g]
  PROVE  e = g
<1> DEFINE Line(y) == {y} \cup Above[y]
           T == {y \in Paths : \A a, b \in Line(y) : Parent[a] = Parent[b] => a = b}
<1>1. ASSUME NEW y \in Paths, Parent[y] = Top \/ Parent[y] \in T
      PROVE  y \in T
  <2>1. CASE Parent[y] = Top
    <3>1. Line(y) = {y}
      BY <2>1, AboveDefined
    <3>2. \A a, b \in Line(y) : a = b
      BY <3>1
    <3> QED
      BY <3>2
  <2>2. CASE Parent[y] # Top
    <3> PICK p : p = Parent[y]
      OBVIOUS
    <3>1. p \in T /\ p \in Paths /\ p # Top /\ Above[y] = {p} \cup Above[p]
      BY <1>1, <2>2, AboveDefined
    <3>2. ASSUME NEW a \in Above[y] PROVE Parent[a] # p
      <4> SUFFICES ASSUME Parent[a] = p PROVE FALSE
        OBVIOUS
      <4>1. a \in Paths
        BY <3>2, AboveTyped
      <4> HIDE DEF T
      <4>2. p \in Above[a]
        BY <3>1, <4>1, AboveDefined
      <4>3. a = p \/ a \in Above[p]
        BY <3>1, <3>2
      <4> QED
        BY <3>1, <4>1, <4>2, <4>3, AboveTransitive, AboveAcyclic
    <3>3. \A a, b \in Above[y] : Parent[a] = Parent[b] => a = b
      BY <3>1
    <3> QED
      BY <3>2, <3>3
  <2> QED
    BY <2>1, <2>2
<1> HIDE DEF T
<1>2. Paths \subseteq T
  BY <1>1, TreeInduction
<1> QED
  BY <1>2 DEF T

\* What is below a directory is below one of its entries, or is one.
LEMMA EntryBetween ==
  ASSUME NEW x \in Paths, NEW d \in Above[x]
  PROVE  \E e \in ChildrenOf(d) : x \in Under(e)
<1> DEFINE T == {y \in Paths : \A a \in Above[y] : \E e \in ChildrenOf(a) : y \in Under(e)}
<1>1. ASSUME NEW y \in Paths, Parent[y] = Top \/ Parent[y] \in T
      PROVE  y \in T
  <2> SUFFICES ASSUME NEW a \in Above[y] PROVE \E e \in ChildrenOf(a) : y \in Under(e)
    OBVIOUS
  <2> PICK p : p = Parent[y]
    OBVIOUS
  <2>1. p \in T /\ p \in Paths /\ Above[y] = {p} \cup Above[p]
    BY <1>1, AboveDefined
  <2>2. CASE a = p
    BY <2>2 DEF ChildrenOf, Under
  <2>3. CASE a \in Above[p]
    <3>1. PICK e \in ChildrenOf(a) : p \in Under(e)
      BY <2>1, <2>3
    <3> QED
      BY <2>1, <3>1 DEF Under
  <2> QED
    BY <2>1, <2>2, <2>3
<1> HIDE DEF T
<1>2. Paths \subseteq T
  BY <1>1, TreeInduction
<1> QED
  BY <1>2 DEF T

\* The directories that an entry of an open directory is in, as far as the walk
\* goes, are that directory and those opened before it.
LEMMA OpenAbove ==
  ASSUME WalkInv, NEW c \in Callers, call[c].path \in Paths, NEW i \in DOMAIN stack[c],
         NEW e \in EntriesOf(c, stack[c][i].dir)
  PROVE  /\ Above[e] \cap Under(call[c].path) = {stack[c][j].dir : j \in 2 .. i}
         /\ e \in Under(call[c].path) /\ e \in Paths
<1> PICK p : p = call[c].path
  OBVIOUS
<1> PICK n : n = Len(stack[c])
  OBVIOUS
<1>1. /\ p \in Paths /\ StackOk(c) /\ stack[c] \in Seq(Frames)
      /\ n \in Nat /\ DOMAIN stack[c] = 1 .. n
  BY LenProperties DEF WalkInv, Walk, Typed, LocalTyped
<1> DEFINE Dirs(k) == {stack[c][j].dir : j \in 2 .. k}
           T == {m \in Nat : m + 1 \in 1 .. n =>
                   \A a \in EntriesOf(c, stack[c][m + 1].dir) :
                     Above[a] \cap Under(p) = Dirs(m + 1)}
<1>2. ASSUME NEW k \in 1 .. n
      PROVE  EntriesOf(c, stack[c][k].dir) \subseteq Under(p)
             /\ EntriesOf(c, stack[c][k].dir) \subseteq Paths
  <2>1. stack[c][k].dir = Top \/ stack[c][k].dir \in Under(p)
    BY <1>1 DEF StackOk, FrameOk
  <2> QED
    BY <1>1, <2>1, EntriesUnder, UnderByParent
<1>3. 0 \in T
  <2> SUFFICES ASSUME 1 \in 1 .. n PROVE Above[p] \cap Under(p) = {}
    <3>1. 1 \in 1 .. n => EntriesOf(c, stack[c][1].dir) = {p}
      BY <1>1 DEF StackOk, EntriesOf
    <3>2. 0 + 1 = 1 /\ Dirs(1) = {}
      OBVIOUS
    <3> QED
      BY <3>1, <3>2
  <2> SUFFICES ASSUME NEW z \in Above[p], z \in Under(p) PROVE FALSE
    OBVIOUS
  <2> QED
    BY <1>1, AboveTransitive, AboveAcyclic DEF Under
<1>4. ASSUME NEW m \in Nat, m \in T PROVE m + 1 \in T
  <2> SUFFICES ASSUME m + 2 \in 1 .. n, NEW a \in EntriesOf(c, stack[c][m + 2].dir)
               PROVE  Above[a] \cap Under(p) = Dirs(m + 2)
    <3>1. (m + 1) + 1 = m + 2 /\ m + 1 \in Nat
      OBVIOUS
    <3> QED
      BY <3>1
  <2> PICK d : d = stack[c][m + 2].dir
    OBVIOUS
  <2>1. m + 2 # 1 /\ m + 2 > 1 /\ (m + 2) - 1 = m + 1 /\ m + 1 \in 1 .. n
    BY <1>1
  <2>2. d # Top /\ d \in Under(p) /\ d \in EntriesOf(c, stack[c][m + 1].dir)
    BY <1>1, <2>1 DEF StackOk, FrameOk, ReadFrom
  <2>3. a \in Paths /\ Parent[a] = d /\ Above[a] = {d} \cup Above[d]
    BY <2>2, AboveDefined DEF EntriesOf, ChildrenOf
  <2>4. Above[d] \cap Under(p) = Dirs(m + 1)
    BY <1>4, <2>1, <2>2
  <2>5. Dirs(m + 2) = Dirs(m + 1) \cup {d}
    <3>1. 2 .. m + 2 = (2 .. m + 1) \cup {m + 2}
      OBVIOUS
    <3> QED
      BY <3>1
  <2> QED
    BY <2>2, <2>3, <2>4, <2>5
<1> HIDE DEF T
<1>5. Nat \subseteq T
  BY <1>3, <1>4, NatInductionBySet
<1>6. i - 1 \in Nat /\ (i - 1) + 1 = i /\ i \in 1 .. n
  BY <1>1
<1>7. i - 1 \in T
  BY <1>5, <1>6
<1> QED
  BY <1>2, <1>6, <1>7 DEF T

\* What is known of the open directories, of which d is the innermost one.
OpenFacts(c, n, d, p) ==
  /\ n \in Nat \ {0} /\ DOMAIN stack[c] = 1 .. n /\ Inner(c) = stack[c][n]
  /\ p \in Paths
  /\ \A e \in EntriesOf(c, d) :
       /\ Above[e] \cap Under(p) = Open(c) /\ e \notin Open(c)
       /\ \A i \in 1 .. n - 1 : e \notin EntriesOf(c, stack[c][i].dir)
  /\ d # Top => /\ d \in Paths /\ d \in Under(p) /\ n > 1
                /\ d \notin {stack[c][j].dir : j \in 2 .. n - 1}
                /\ Open(c) = {stack[c][j].dir : j \in 2 .. n - 1} \cup {d}
  /\ d = Top => n = 1 /\ Open(c) = {}

LEMMA OpenDirs ==
  ASSUME WalkInv, NEW c \in Callers, pc[c] \in {"read", "enter", "remove", "rmdir"},
         NEW n, n = Len(stack[c]), NEW d, d = stack[c][n].dir,
         NEW p, p = call[c].path
  PROVE  OpenFacts(c, n, d, p)
<1>1. /\ n \in Nat \ {0} /\ DOMAIN stack[c] = 1 .. n /\ Inner(c) = stack[c][n]
      /\ p \in Paths /\ StackOk(c) /\ Under(p) \subseteq Paths
      /\ (n = 1 <=> d = Top)
  BY InnerOk DEF InnerFacts, AtRoot, WalkInv, Walk
<1>2. n \in 1 .. n
  BY <1>1
<1>3. ASSUME NEW i \in 1 .. n, NEW e \in EntriesOf(c, stack[c][i].dir)
      PROVE  /\ Above[e] \cap Under(p) = {stack[c][j].dir : j \in 2 .. i}
             /\ e \in Under(p) /\ e \in Paths
  BY <1>1, OpenAbove
<1>4. ASSUME d # Top
      PROVE  /\ d \in Paths /\ d \in Under(p) /\ n > 1
             /\ d \notin {stack[c][j].dir : j \in 2 .. n - 1}
             /\ Open(c) = {stack[c][j].dir : j \in 2 .. n - 1} \cup {d}
  <2>1. n > 1 /\ n - 1 \in 1 .. n
    <3>1. \A m \in Nat \ {0} : m # 1 => m > 1 /\ m - 1 \in 1 .. m
      OBVIOUS
    <3> QED
      BY <1>1, <1>4, <3>1
  <2>2. d \in EntriesOf(c, stack[c][n - 1].dir)
    BY <1>1, <1>2, <2>1 DEF StackOk, ReadFrom
  <2>3. /\ Above[d] \cap Under(p) = {stack[c][j].dir : j \in 2 .. n - 1}
        /\ d \in Under(p) /\ d \in Paths
    BY <1>3, <2>1, <2>2
  <2>4. d \notin Above[d]
    BY <2>3, AboveAcyclic
  <2>5. 2 .. n = (2 .. n - 1) \cup {n}
    BY <1>1, <2>1
  <2>6. Open(c) = {stack[c][j].dir : j \in 2 .. n - 1} \cup {d}
    BY <2>5 DEF Open
  <2> QED
    BY <2>1, <2>3, <2>4, <2>6
<1>5. ASSUME d = Top
      PROVE  n = 1 /\ Open(c) = {}
  <2>1. n = 1 /\ 2 .. n = {}
    BY <1>1, <1>5
  <2> QED
    BY <2>1 DEF Open
<1>6. ASSUME NEW e \in EntriesOf(c, d)
      PROVE  /\ Above[e] \cap Under(p) = Open(c) /\ e \notin Open(c)
             /\ \A i \in 1 .. n - 1 : e \notin EntriesOf(c, stack[c][i].dir)
  <2>1. Above[e] \cap Under(p) = Open(c) /\ e \in Paths
    BY <1>2, <1>3 DEF Open
  <2>2. e \notin Open(c)
    BY <2>1, AboveAcyclic
  <2>3. ASSUME NEW i \in 1 .. n - 1, e \in EntriesOf(c, stack[c][i].dir)
        PROVE  FALSE
    <3>1. i \in 1 .. n /\ 2 .. i \subseteq 2 .. n - 1 /\ n # 1
      BY <1>1
    <3>2. Open(c) = {stack[c][j].dir : j \in 2 .. i}
      BY <1>3, <2>1, <2>3, <3>1
    <3> QED
      BY <1>1, <1>4, <3>1, <3>2
  <2> QED
    BY <2>1, <2>2, <2>3
<1> QED
  BY <1>1, <1>4, <1>5, <1>6 DEF OpenFacts

\* A directory with a node below it has a node.
LEMMA NodesBelow ==
  ASSUME NEW p \in Paths, NEW N \in SUBSET Under(p),
         \A x \in N : x = p \/ Parent[x] \in N,
         NEW x \in N, NEW z \in Under(p), x \in Under(z)
  PROVE  z \in N
<1> DEFINE T == {y \in Paths : y \in N =>
                   \A a \in Under(p) : y \in Under(a) => a \in N}
<1>1. ASSUME NEW y \in Paths, Parent[y] = Top \/ Parent[y] \in T
      PROVE  y \in T
  <2> SUFFICES ASSUME y \in N, NEW a \in Under(p), y \in Under(a), a # y
               PROVE  a \in N
    OBVIOUS
  <2>1. a \in Above[y] /\ (p = a \/ p \in Above[a])
    BY DEF Under
  <2>2. y # p
    BY <2>1, AboveTransitive, AboveAcyclic
  <2>3. Parent[y] \in N /\ Parent[y] # Top /\ Parent[y] \in T
    BY <1>1, <2>1, <2>2, AboveDefined
  <2>4. Parent[y] \in Under(a)
    BY <2>1, <2>3, AboveDefined DEF Under
  <2> QED
    BY <2>3, <2>4
<1> HIDE DEF T
<1>2. Paths \subseteq T
  BY <1>1, TreeInduction
<1>3. x \in Paths
  BY UnderByParent
<1> QED
  BY <1>2, <1>3 DEF T

\* Of a set N of nodes that has, with each of them, the directory it is in: what
\* is below the directory d is below its entries, or is d.
Rooted(p, N) ==
  p \in Paths /\ N \subseteq Under(p) /\ \A x \in N : x = p \/ Parent[x] \in N

LEMMA BelowEntries ==
  ASSUME NEW p, NEW N, Rooted(p, N), NEW d \in N,
         NEW U, U = UNION {N \cap Under(e) : e \in N \cap ChildrenOf(d)}
  PROVE  N \cap Under(d) = {d} \cup U /\ d \notin U /\ U \subseteq N
<1>1. p \in Paths /\ N \in SUBSET Under(p) /\ Under(p) \subseteq Paths /\ d \in Paths
      /\ d # Top /\ d \in Under(p) /\ \A x \in N : x = p \/ Parent[x] \in N
  BY UnderByParent, ParentTyped DEF Rooted, Under
<1>2. ASSUME NEW x \in N, x \in Under(d), x # d
      PROVE  x \in U
  <2>1. x \in Paths /\ d \in Above[x]
    BY <1>2 DEF Under
  <2>2. PICK e \in ChildrenOf(d) : x \in Under(e)
    BY <2>1, EntryBetween
  <2>3. e \in Under(p)
    <3>1. e \in Paths /\ Above[e] = {d} \cup Above[d]
      BY <1>1, AboveDefined DEF ChildrenOf
    <3> QED
      BY <1>1, <3>1 DEF Under
  <2>4. e \in N
    BY <1>1, <2>2, <2>3, NodesBelow
  <2> QED
    BY <2>2, <2>4
<1>3. ASSUME NEW e \in N \cap ChildrenOf(d), NEW x \in N \cap Under(e)
      PROVE  x \in Under(d) /\ x # d
  <2>1. e \in Paths /\ d \in Above[e]
    BY <1>1, AboveDefined DEF ChildrenOf
  <2>2. x \in Paths /\ (x = e \/ e \in Above[x])
    BY DEF Under
  <2>3. d \in Above[x]
    BY <2>1, <2>2, AboveTransitive
  <2> QED
    BY <1>1, <2>2, <2>3, AboveAcyclic DEF Under
<1>4. d \in Under(d)
  BY <1>1, UnderByParent
<1> QED
  BY <1>2, <1>3, <1>4

\* Nothing is below two entries.
LEMMA EntriesApart ==
  ASSUME NEW e, NEW g, e # g, Parent[e] = Parent[g]
  PROVE  Under(e) \cap Under(g) = {}
<1> SUFFICES ASSUME NEW x \in Under(e) \cap Under(g) PROVE FALSE
  OBVIOUS
<1>1. x \in Paths /\ e \in {x} \cup Above[x] /\ g \in {x} \cup Above[x]
  BY DEF Under
<1> QED
  BY <1>1, Siblings

\* If w counts all of v that is below the entries of d, what w gives them is what
\* v gives all that is below d, without d.
LEMMA SumBelow ==
  ASSUME NEW p, NEW N, Rooted(p, N), NEW d \in N,
         NEW v, \A x \in N : v[x] \in Nat,
         NEW w, \A e \in N \cap ChildrenOf(d) : w[e] = Sum(v, N \cap Under(e))
  PROVE  v[d] + Sum(w, N \cap ChildrenOf(d)) = Sum(v, N \cap Under(d))
<1> DEFINE L == N \cap ChildrenOf(d)
           A == [e \in L |-> N \cap Under(e)]
<1> PICK U : U = UNION {A[e] : e \in L}
  OBVIOUS
<1>1. N \cap Under(d) = {d} \cup U /\ d \notin U /\ U \subseteq N
  <2>1. U = UNION {N \cap Under(e) : e \in N \cap ChildrenOf(d)}
    OBVIOUS
  <2> QED
    BY <2>1, BelowEntries
<1>2. /\ IsFiniteSet(N) /\ IsFiniteSet(L) /\ IsFiniteSet(U) /\ IsFiniteSet({d})
      /\ \A x \in {d} \cup U : v[x] \in Nat
  <2>1. N \subseteq Paths
    BY DEF Rooted, Under
  <2> QED
    BY <1>1, <2>1, PlatformFileAssumption, FS_Subset, FS_Singleton
<1>3. A \in [L -> SUBSET N] /\ \A e \in L : w[e] = Sum(v, A[e])
  OBVIOUS
<1>4. \A e, g \in L : e # g => A[e] \cap A[g] = {}
  BY EntriesApart DEF ChildrenOf
<1> HIDE DEF A, L
<1>5. Sum(w, L) = Sum(v, U)
  BY <1>2, <1>3, <1>4, SumOfSums
<1>6. Sum(v, {d} \cup U) = Sum(v, {d}) + Sum(v, U)
  BY <1>1, <1>2, SumOfUnion
<1>7. Sum(v, {d}) = v[d]
  BY <1>2, SumOfOne
<1> QED
  BY <1>1, <1>5, <1>6, <1>7 DEF L

-----------------------------------------------------------------------------
(* The sizes, action by action. *)

\* A search whose nodes count.
Counts(c) == Searching(c) /\ pc[c] \in {"read", "enter", "found"}

ListsFound(c) ==
  \A i \in DOMAIN stack[c] :
    /\ ToSet(stack[c][i].list) = Found(c) \cap EntriesOf(c, stack[c][i].dir)
    /\ i > 1 => stack[c][i].dir \in Found(c)

SizesOf(c) ==
  \A e \in Found(c) :
    size[c][e] = IF e \in Open(c) THEN StSize[e]
                 ELSE Sum(StSize, Found(c) \cap Under(e))

LEMMA SearchSays ==
  ASSUME NEW c
  PROVE  SearchInv(c) <=>
           (Counts(c) =>
              /\ \A x \in Found(c) : x = call[c].path \/ Parent[x] \in Found(c)
              /\ ListsFound(c)
              /\ pc[c] = "enter" => /\ at[c] \in Found(c) \ Open(c)
                                   /\ Found(c) \cap Under(at[c]) = {at[c]}
              /\ SizesOf(c))
  BY DEF SearchInv, Counts, ListsFound, SizesOf

\* The state that what is said of the nodes is about.
SameNodes(c) ==
  /\ call'[c] = call[c] /\ size'[c] = size[c]
  /\ Len(stack'[c]) = Len(stack[c]) /\ DOMAIN stack'[c] = DOMAIN stack[c]
  /\ \A i \in DOMAIN stack[c] : /\ stack'[c][i].dir = stack[c][i].dir
                                /\ stack'[c][i].list = stack[c][i].list

LEMMA NodesStay ==
  ASSUME NEW c, SameNodes(c), stack[c] \in Seq(Frames)
  PROVE  /\ Found(c)' = Found(c) /\ Open(c)' = Open(c)
         /\ ListsFound(c) => ListsFound(c)'
         /\ SizesOf(c) => SizesOf(c)'
         /\ \A x : x = call'[c].path <=> x = call[c].path
<1>1. Found(c)' = Found(c)
  BY DEF SameNodes, Found
<1>2. Open(c)' = Open(c)
  <2>1. DOMAIN stack[c] = 1 .. Len(stack[c])
    BY LenProperties
  <2>2. \A i \in 2 .. Len(stack[c]) : stack'[c][i].dir = stack[c][i].dir
    BY <2>1 DEF SameNodes
  <2> QED
    BY <2>2 DEF Open, SameNodes
<1>3. ListsFound(c) => ListsFound(c)'
  BY <1>1 DEF ListsFound, SameNodes, EntriesOf
<1>4. SizesOf(c) => SizesOf(c)'
  BY <1>1, <1>2 DEF SizesOf, SameNodes
<1> QED
  BY <1>1, <1>2, <1>3, <1>4 DEF SameNodes

LEMMA StackTyped ==
  ASSUME WalkInv, NEW c \in Callers
  PROVE  stack[c] \in Seq(Frames) /\ size[c] \in Nodes
  BY DEF WalkInv, Typed, LocalTyped

\* Reading an entry that is gone, and a directory that cannot be opened.
LEMMA NothingFound ==
  ASSUME WalkInv, NEW c \in Callers, Counts(c)', ReadGone(c) \/ EnterFails(c)
  PROVE  /\ Counts(c) /\ pc[c] \in {"read", "enter"} /\ SameNodes(c) /\ pc'[c] = "read"
         /\ UNCHANGED tree
<1>1. LocalTyped /\ call' = call /\ UNCHANGED tree /\ stack[c] \in Seq(Frames)
  BY StackTyped DEF ReadGone, EnterFails, WalkInv, Typed
<1>2. pc[c] \in {"read", "enter"} /\ Counts(c) /\ size' = size
  BY <1>1 DEF ReadGone, EnterFails, Counts, Searching, tree
<1>3. SameNodes(c) /\ pc'[c] = "read"
  <2>1. CASE ReadGone(c)
    <3>1. PICK e \in Returned(c) : Reads(c, e, Inner(c).list)
      BY <2>1 DEF ReadGone
    <3>2. ReadsOne(c, e, Inner(c).list) /\ pc[c] = "read" /\ pc' = pc
      BY <1>1, <1>2, <2>1, <3>1, ReturnedEntry DEF ReadsOne, ReadGone
    <3>3. /\ Inner(c)' = After(Inner(c), e, Inner(c).list)
          /\ stack' \in [Callers -> Seq(Frames)]
          /\ Len(stack'[c]) = Len(stack[c]) /\ Inner(c)' = stack'[c][Len(stack'[c])]
          /\ \A i \in 1 .. Len(stack[c]) - 1 : stack'[c][i] = stack[c][i]
      BY <3>2, FrameAfterRead
    <3>4. /\ Inner(c) \in Frames /\ Inner(c) = stack[c][Len(stack[c])]
          /\ DOMAIN stack[c] = 1 .. Len(stack[c]) /\ Len(stack[c]) \in Nat \ {0}
      BY <3>2, InnerOk DEF InnerFacts
    <3>5. Inner(c)'.dir = Inner(c).dir /\ Inner(c)'.list = Inner(c).list
      BY <3>3, <3>4 DEF After, Frames
    <3>6. DOMAIN stack'[c] = 1 .. Len(stack[c])
      BY <3>3, LenProperties
    <3>7. \A i \in DOMAIN stack[c] : i = Len(stack[c]) \/ i \in 1 .. Len(stack[c]) - 1
      BY <3>4
    <3> QED
      BY <1>1, <1>2, <3>2, <3>3, <3>4, <3>5, <3>6, <3>7 DEF SameNodes
  <2>2. CASE EnterFails(c)
    <3>1. stack' = stack /\ pc'[c] = "read"
      BY <1>1, <1>2, <2>2 DEF EnterFails, LocalTyped, Set, Counts, Searching, Removing
    <3> QED
      BY <1>1, <1>2, <3>1 DEF SameNodes
  <2> QED
    BY <2>1, <2>2
<1> QED
  BY <1>1, <1>2, <1>3

LEMMA SizesWhenNothingIsFound ==
  ASSUME WalkInv, NEW c \in Callers, SearchInv(c), ReadGone(c) \/ EnterFails(c)
  PROVE  SearchInv(c)'
<1> SUFFICES ASSUME Counts(c)' PROVE SearchInv(c)'
  BY DEF SearchInv, Counts
<1>1. Counts(c) /\ SameNodes(c) /\ pc'[c] = "read" /\ stack[c] \in Seq(Frames)
  BY NothingFound, StackTyped
<1>2. /\ \A x \in Found(c) : x = call[c].path \/ Parent[x] \in Found(c)
      /\ ListsFound(c) /\ SizesOf(c)
  BY <1>1, SearchSays
<1>3. /\ Found(c)' = Found(c) /\ ListsFound(c)' /\ SizesOf(c)'
      /\ \A x : x = call'[c].path <=> x = call[c].path
  BY <1>1, <1>2, NodesStay
<1> QED
  BY <1>1, <1>2, <1>3 DEF SearchInv, ListsFound, SizesOf

LEMMA SizesWhenStarted ==
  ASSUME WalkInv, NEW c \in Callers, StartWalk(c)
  PROVE  SearchInv(c)'
<1>1. LocalTyped /\ pc[c] = "idle" /\ DOMAIN size[c] = {}
  BY DEF StartWalk, WalkInv, Typed, Placed
<1>2. PICK k \in Calls[c] :
        /\ call' = Set(call, c, k)
        /\ stack' = Set(stack, c, <<Frame(Top, {k.path}, {k.path})>>)
  BY DEF StartWalk
<1> PICK f : f = Frame(Top, {k.path}, {k.path})
  OBVIOUS
<1>3. stack'[c] = <<f>> /\ pc'[c] = "read" /\ DOMAIN size'[c] = {}
  BY <1>1, <1>2 DEF StartWalk, LocalTyped, Set, tree
<1>4. f.list = <<>> /\ ToSet(f.list) = {} /\ DOMAIN stack'[c] = {1} /\ stack'[c][1] = f
  BY <1>3 DEF Frame, ToSet
<1>5. Found(c)' = {}
  BY <1>3 DEF Found
<1>6. \A i \in DOMAIN stack'[c] : ToSet(stack'[c][i].list) = {} /\ ~(i > 1)
  <2>1. \A i \in DOMAIN stack'[c] : i = 1
    BY <1>4
  <2>2. ToSet(stack'[c][1].list) = {}
    BY <1>4, Zenon
  <2>3. ~(1 > 1)
    OBVIOUS
  <2> QED
    BY <2>1, <2>2, <2>3
<1> QED
  BY <1>3, <1>5, <1>6 DEF SearchInv

\* A node's directory is opened: none of its entries has a node yet.
OpensNode(c, n, d) ==
  /\ Counts(c) /\ pc[c] = "enter" /\ n \in Nat /\ n > 0 /\ DOMAIN stack[c] = 1 .. n
  /\ d \in Paths /\ d # Top /\ d \in Found(c) \ Open(c) /\ d \notin fault.denied
  /\ disk[d] = "dir" /\ Found(c) \cap Under(d) = {d}
  /\ call' = call /\ UNCHANGED tree /\ pc'[c] = "read"
  /\ Found(c)' = Found(c) /\ Open(c)' = Open(c) \cup {d} /\ ListsFound(c)'
  /\ DOMAIN stack'[c] = 1 .. n + 1
  /\ \A i \in 1 .. n : stack'[c][i] = stack[c][i]
  /\ stack'[c][n + 1] = Frame(d, ChildrenOf(d), Listing(d))

LEMMA SearchEnters ==
  ASSUME WalkInv, NEW c \in Callers, SearchInv(c), EnterOpens(c), Counts(c)',
         NEW n, n = Len(stack[c]), NEW d, d = at[c]
  PROVE  OpensNode(c, n, d)
<1>1. /\ LocalTyped /\ call' = call /\ UNCHANGED tree /\ size' = size /\ stack[c] \in Seq(Frames)
      /\ pc[c] = "enter" /\ pc'[c] = "read"
      /\ stack \in [Callers -> Seq(Frames)] /\ stack' \in [Callers -> Seq(Frames)]
  <2>1. WalkInv'
    BY EnterOpensWalks
  <2> QED
    BY <2>1 DEF EnterOpens, tree, WalkInv, Typed, LocalTyped, Set
<1>2. Counts(c)
  BY <1>1 DEF Counts, Searching
<1>3. /\ \A x \in Found(c) : x = call[c].path \/ Parent[x] \in Found(c)
      /\ ListsFound(c) /\ SizesOf(c)
      /\ d \in Found(c) \ Open(c) /\ Found(c) \cap Under(d) = {d}
  BY <1>1, <1>2, SearchSays
<1>4. d \in Paths /\ d # Top /\ disk[d] = "dir" /\ d \notin fault.denied
  BY <1>1, ParentTyped DEF EnterOpens, Lstat, Exists, WalkInv, Walk
<1> PICK f : f = Frame(d, ChildrenOf(d), Listing(d))
  OBVIOUS
<1>5. f.dir = d /\ f.list = <<>> /\ stack' = Set(stack, c, Append(stack[c], f))
  BY <1>4 DEF EnterOpens, Frame
<1>6. stack'[c] = Append(stack[c], f)
  BY <1>1, <1>5 DEF Set
<1>7. /\ n \in Nat /\ Len(stack'[c]) = n + 1 /\ DOMAIN stack[c] = 1 .. n
      /\ DOMAIN stack'[c] = 1 .. n + 1 /\ stack'[c][n + 1] = f
      /\ \A i \in 1 .. n : stack'[c][i] = stack[c][i]
      /\ n > 0
  <2>1. n \in Nat \ {0} /\ DOMAIN stack[c] = 1 .. n
    BY <1>1, InnerOk DEF InnerFacts
  <2> DEFINE s == stack[c]
             t == stack'[c]
  <2>2. s \in Seq(Frames) /\ t = Append(s, f) /\ n = Len(s)
    BY <1>1, <1>6
  <2> HIDE DEF s, t
  <2>3. Len(t) = n + 1 /\ t[n + 1] = f /\ (\A i \in 1 .. n : t[i] = s[i])
        /\ DOMAIN t = 1 .. n + 1
    BY <2>1, <2>2
  <2> QED
    BY <2>1, <2>3 DEF s, t
<1>8. Found(c)' = Found(c)
  BY <1>1 DEF Found
<1>9. Open(c)' = Open(c) \cup {d}
  <2>1. 2 .. n + 1 = (2 .. n) \cup {n + 1}
    BY <1>7
  <2>2. \A i \in 2 .. n : stack'[c][i] = stack[c][i]
    BY <1>7
  <2>3. Open(c)' = {stack'[c][i].dir : i \in 2 .. n + 1} /\ n + 1 \in 2 .. n + 1
    BY <1>7 DEF Open
  <2>4. Open(c) = {stack[c][i].dir : i \in 2 .. n}
    BY DEF Open
  <2>5. stack'[c][n + 1].dir = d
    BY <1>5, <1>7
  <2> QED
    BY <2>1, <2>2, <2>3, <2>4, <2>5
<1>10. ListsFound(c)'
  <2>1. ToSet(f.list) = {} /\ Found(c) \cap EntriesOf(c, d) = {}
    <3>1. ToSet(f.list) = {}
      BY <1>5 DEF ToSet
    <3>2. ASSUME NEW x \in Found(c), x \in ChildrenOf(d) PROVE FALSE
      <4>1. x \in Paths /\ Parent[x] = d
        BY <3>2 DEF ChildrenOf
      <4>2. d \in Above[x] /\ x \in Under(d)
        BY <1>4, <4>1, AboveDefined DEF Under
      <4>3. x = d
        BY <1>3, <4>2
      <4> QED
        BY <4>1, <4>2, <4>3, AboveAcyclic
    <3> QED
      BY <1>4, <3>1, <3>2 DEF EntriesOf
  <2>2. \A i \in 1 .. n + 1 : i \in 1 .. n \/ i = n + 1
    BY <1>7
  <2>3. \A x : EntriesOf(c, x)' = EntriesOf(c, x)
    BY <1>1 DEF EntriesOf
  <2>4. ASSUME NEW i \in 1 .. n + 1
        PROVE  /\ ToSet(stack'[c][i].list) = Found(c) \cap EntriesOf(c, stack'[c][i].dir)
               /\ i > 1 => stack'[c][i].dir \in Found(c)
    <3>1. CASE i \in 1 .. n
      BY <1>3, <1>7, <3>1 DEF ListsFound
    <3>2. CASE i = n + 1
      BY <1>3, <1>5, <1>7, <2>1, <3>2
    <3> QED
      BY <2>2, <3>1, <3>2
  <2> QED
    BY <1>7, <1>8, <2>3, <2>4 DEF ListsFound
<1> QED
  BY <1>1, <1>2, <1>3, <1>4, <1>7, <1>8, <1>9, <1>10 DEF OpensNode, ListsFound

LEMMA SizesWhenEntered ==
  ASSUME WalkInv, NEW c \in Callers, SearchInv(c), EnterOpens(c)
  PROVE  SearchInv(c)'
<1> SUFFICES ASSUME Counts(c)' PROVE SearchInv(c)'
  BY DEF SearchInv, Counts
<1> PICK d : d = at[c]
  OBVIOUS
<1>1. OpensNode(c, Len(stack[c]), d)
  BY SearchEnters
<1>2. /\ Counts(c) /\ pc'[c] = "read" /\ call' = call /\ size' = size
      /\ d \in Paths /\ d \in Found(c) \ Open(c) /\ Found(c) \cap Under(d) = {d}
      /\ Found(c)' = Found(c) /\ Open(c)' = Open(c) \cup {d} /\ ListsFound(c)'
  BY <1>1 DEF OpensNode, tree
<1>3. /\ \A x \in Found(c) : x = call[c].path \/ Parent[x] \in Found(c)
      /\ SizesOf(c)
  BY <1>2, SearchSays
<1>4. SizesOf(c)'
  <2>1. size[c][d] = StSize[d]
    <3>1. size[c][d] = Sum(StSize, {d})
      BY <1>2, <1>3 DEF SizesOf
    <3>2. StSize[d] \in Nat
      BY <1>2, PlatformFileAssumption
    <3> QED
      BY <3>1, <3>2, SumOfOne
  <2> QED
    BY <1>2, <1>3, <2>1 DEF SizesOf
<1>5. \A x \in Found(c)' : x = call'[c].path \/ Parent[x] \in Found(c)'
  BY <1>2, <1>3
<1> QED
  BY <1>2, <1>4, <1>5 DEF SearchInv, ListsFound, SizesOf

\* A new node: nothing below it has one yet, and all that is above it is open.
AddsNode(c, n, d, p, e) ==
  /\ n \in Nat \ {0} /\ DOMAIN stack[c] = 1 .. n /\ stack[c][n] = Inner(c)
  /\ Counts(c) /\ pc[c] = "read"
  /\ e \in EntriesOf(c, d) /\ e \in Under(p) /\ e \in Paths /\ e \in Inner(c).unread
  /\ Lstat(e) /\ e \notin Found(c) /\ e \notin Open(c)
  /\ e = p \/ Parent[e] \in Found(c)
  /\ (Found(c) \cup {e}) \cap Under(e) = {e}
  /\ \A g \in Found(c) \ Open(c) : g # e /\ g \notin Above[e]
  /\ call' = call /\ at'[c] = e /\ pc'[c] = IF IsDir(e) THEN "enter" ELSE "read"
  /\ size'[c] = With(size[c], e, StSize[e]) /\ Found(c)' = Found(c) \cup {e}
  /\ read'[c] = With(read[c], e, <<>>) /\ child'[c] = With(child[c], e, <<>>)
  /\ DOMAIN stack'[c] = 1 .. n /\ ListsFound(c)' /\ Open(c)' = Open(c)
  /\ \A i \in 1 .. n - 1 : stack'[c][i] = stack[c][i]
  /\ /\ stack'[c][n].dir = d /\ stack'[c][n].present = Inner(c).present
     /\ stack'[c][n].unread = Inner(c).unread \ {e}

LEMMA SearchReads ==
  ASSUME WalkInv, NEW c \in Callers, SearchInv(c), ReadToSearch(c),
         NEW n, n = Len(stack[c]), NEW d, d = stack[c][n].dir, NEW p, p = call[c].path
  PROVE  \E e : AddsNode(c, n, d, p, e)
<1> PICK e \in Returned(c) :
      /\ Lstat(e) /\ Reads(c, e, Append(Inner(c).list, e)) /\ at' = Set(at, c, e)
      /\ size' = [size EXCEPT ![c] = With(@, e, StSize[e])]
      /\ read' = [read EXCEPT ![c] = With(@, e, <<>>)]
      /\ child' = [child EXCEPT ![c] = With(@, e, <<>>)]
      /\ pc' = Set(pc, c, IF IsDir(e) THEN "enter" ELSE "read")
  BY DEF ReadToSearch
<1>1. /\ LocalTyped /\ call' = call /\ stack[c] \in Seq(Frames) /\ size[c] \in Nodes
      /\ pc[c] = "read" /\ Searching(c) /\ Counts(c)
      /\ Found(c) \subseteq Under(p)
  BY StackTyped DEF ReadToSearch, WalkInv, Typed, Walk, Counts, Found
<1>2. /\ \A x \in Found(c) : x = p \/ Parent[x] \in Found(c)
      /\ ListsFound(c) /\ SizesOf(c)
  BY <1>1, SearchSays
<1>3. /\ n \in Nat \ {0} /\ DOMAIN stack[c] = 1 .. n /\ Inner(c) = stack[c][n] /\ p \in Paths
      /\ \A g \in EntriesOf(c, d) :
           /\ Above[g] \cap Under(p) = Open(c) /\ g \notin Open(c)
           /\ \A i \in 1 .. n - 1 : g \notin EntriesOf(c, stack[c][i].dir)
      /\ d # Top => n > 1
  <2>1. OpenFacts(c, n, d, p)
    BY <1>1, OpenDirs
  <2> QED
    BY <2>1 DEF OpenFacts
<1>4. /\ Inner(c) \in Frames /\ FrameOk(c, Inner(c))
      /\ EntriesOf(c, d) \subseteq Under(p) /\ Under(p) \subseteq Paths
  BY <1>1, <1>3, InnerOk DEF InnerFacts
<1>5. /\ e \in EntriesOf(c, d) /\ e \in Under(p) /\ e \in Paths /\ e \notin Found(c)
      /\ e \in Inner(c).unread
  <2>1. e \in Inner(c).unread
    BY <1>1, ReturnedEntry
  <2>2. e \in EntriesOf(c, d) /\ e \notin ToSet(Inner(c).list)
    BY <1>3, <1>4, <2>1 DEF FrameOk
  <2>3. n \in DOMAIN stack[c]
    BY <1>3
  <2>4. ToSet(Inner(c).list) = Found(c) \cap EntriesOf(c, d)
    BY <1>2, <1>3, <2>3 DEF ListsFound
  <2> QED
    BY <1>4, <2>1, <2>2, <2>4
<1>6. /\ size'[c] = With(size[c], e, StSize[e]) /\ Found(c)' = Found(c) \cup {e}
      /\ size'[c][e] = StSize[e] /\ StSize[e] \in Nat
      /\ \A g \in Found(c) : size'[c][g] = size[c][g]
  <2>1. StSize[e] \in Nat
    BY <1>5, PlatformFileAssumption
  <2>2. size'[c] = With(size[c], e, StSize[e])
    BY <1>1 DEF LocalTyped
  <2> QED
    BY <1>5, <2>1, <2>2 DEF Found, With
<1>7. ReadsOne(c, e, Append(Inner(c).list, e))
  BY <1>1, <1>3, <1>5, <1>6 DEF ReadsOne, Found
<1>8. /\ Len(stack'[c]) = n /\ DOMAIN stack'[c] = 1 .. n
      /\ stack'[c][n] = After(Inner(c), e, Append(Inner(c).list, e))
      /\ \A i \in 1 .. n - 1 : stack'[c][i] = stack[c][i]
  <2>1. /\ stack' \in [Callers -> Seq(Frames)]
        /\ Inner(c)' = After(Inner(c), e, Append(Inner(c).list, e))
        /\ Len(stack'[c]) = Len(stack[c]) /\ Inner(c)' = stack'[c][Len(stack'[c])]
        /\ \A i \in 1 .. Len(stack[c]) - 1 : stack'[c][i] = stack[c][i]
    BY <1>1, <1>7, FrameAfterRead
  <2> QED
    BY <2>1, LenProperties
<1>9. /\ stack'[c][n].dir = d /\ ToSet(stack'[c][n].list) = ToSet(Inner(c).list) \cup {e}
      /\ stack'[c][n].present = Inner(c).present
      /\ stack'[c][n].unread = Inner(c).unread \ {e}
  <2>1. /\ Inner(c).list \in Seq(Paths) /\ IsInjective(Inner(c).list)
        /\ e \notin ToSet(Inner(c).list)
    BY <1>4, <1>5 DEF Frames, FrameOk
  <2> PICK l : l = Append(Inner(c).list, e)
    OBVIOUS
  <2>2. l \in Seq(Paths) /\ ToSet(l) = ToSet(Inner(c).list) \cup {e}
    BY <1>5, <2>1, EntryAppended
  <2>3. /\ After(Inner(c), e, l).dir = Inner(c).dir /\ After(Inner(c), e, l).list = l
        /\ After(Inner(c), e, l).present = Inner(c).present
        /\ After(Inner(c), e, l).unread = Inner(c).unread \ {e}
    BY <1>4, <2>2 DEF After, Frames
  <2> QED
    BY <1>3, <1>8, <2>2, <2>3
<1>10. \A i \in 1 .. n : i = n \/ i \in 1 .. n - 1
  BY <1>3
<1>11. Open(c)' = Open(c)
  <2>1. \A i \in 2 .. n : stack'[c][i].dir = stack[c][i].dir
    <3> TAKE i \in 2 .. n
    <3>1. i \in 1 .. n
      BY <1>3
    <3> QED
      BY <1>8, <1>9, <1>10, <3>1
  <2> QED
    BY <1>8, <2>1 DEF Open
<1>12. \A x : EntriesOf(c, x)' = EntriesOf(c, x)
  BY <1>1 DEF EntriesOf
<1>13. ListsFound(c)'
  <2>1. ASSUME NEW i \in 1 .. n
        PROVE  /\ ToSet(stack'[c][i].list) = (Found(c) \cup {e}) \cap EntriesOf(c, stack'[c][i].dir)
               /\ i > 1 => stack'[c][i].dir \in Found(c) \cup {e}
    <3>1. /\ ToSet(stack[c][i].list) = Found(c) \cap EntriesOf(c, stack[c][i].dir)
          /\ i > 1 => stack[c][i].dir \in Found(c)
      BY <1>2, <1>3 DEF ListsFound
    <3>2. CASE i = n
      BY <1>3, <1>5, <1>9, <3>1, <3>2
    <3>3. CASE i \in 1 .. n - 1
      <4>1. stack'[c][i] = stack[c][i] /\ e \notin EntriesOf(c, stack[c][i].dir)
        BY <1>3, <1>5, <1>8, <3>3
      <4> QED
        BY <3>1, <4>1
    <3> QED
      BY <1>10, <3>2, <3>3
  <2> QED
    BY <1>6, <1>8, <1>12, <2>1 DEF ListsFound
<1>14. e = p \/ Parent[e] \in Found(c)
  <2>1. CASE d = Top
    BY <1>5, <2>1 DEF EntriesOf
  <2>2. CASE d # Top
    <3>1. Parent[e] = d /\ n > 1 /\ n \in DOMAIN stack[c]
      BY <1>3, <1>5, <2>2 DEF EntriesOf, ChildrenOf
    <3> QED
      BY <1>2, <3>1 DEF ListsFound
  <2> QED
    BY <2>1, <2>2
<1>15. e \notin Open(c) /\ (Found(c) \cup {e}) \cap Under(e) = {e}
  <2> PICK N : N = Found(c)
    OBVIOUS
  <2>1. \A x \in N : x \notin Under(e)
    BY <1>1, <1>2, <1>3, <1>5, NodesBelow
  <2>2. e \in Under(e)
    BY <1>5, UnderByParent
  <2> QED
    BY <1>3, <1>5, <2>1, <2>2
<1>16. \A g \in Found(c) \ Open(c) : g # e /\ g \notin Above[e]
  BY <1>1, <1>3, <1>5
<1>17. /\ at'[c] = e /\ pc'[c] = IF IsDir(e) THEN "enter" ELSE "read"
       /\ read'[c] = With(read[c], e, <<>>) /\ child'[c] = With(child[c], e, <<>>)
  BY <1>1 DEF LocalTyped, Set
<1>18. AddsNode(c, n, d, p, e)
  BY <1>1, <1>3, <1>5, <1>6, <1>8, <1>9, <1>11, <1>13, <1>14, <1>15, <1>16, <1>17
     DEF AddsNode, ListsFound
<1> QED
  BY <1>18

LEMMA SizesWhenRead ==
  ASSUME WalkInv, NEW c \in Callers, SearchInv(c), ReadToSearch(c)
  PROVE  SearchInv(c)'
<1> PICK n : n = Len(stack[c])
  OBVIOUS
<1> PICK d : d = stack[c][n].dir
  OBVIOUS
<1> PICK p : p = call[c].path
  OBVIOUS
<1> PICK e : AddsNode(c, n, d, p, e)
  BY SearchReads
<1>1. /\ Counts(c) /\ call' = call /\ ListsFound(c)' /\ Open(c)' = Open(c)
      /\ Found(c)' = Found(c) \cup {e} /\ e \notin Found(c) /\ e \notin Open(c)
      /\ at'[c] = e /\ (e = p \/ Parent[e] \in Found(c))
      /\ (Found(c) \cup {e}) \cap Under(e) = {e}
  BY DEF AddsNode
<1>2. /\ \A x \in Found(c) : x = p \/ Parent[x] \in Found(c)
      /\ ListsFound(c) /\ SizesOf(c)
  BY <1>1, SearchSays
<1>3. /\ size'[c][e] = StSize[e] /\ StSize[e] \in Nat
      /\ \A g \in Found(c) : size'[c][g] = size[c][g]
  BY <1>1, PlatformFileAssumption DEF AddsNode, With, Found
<1>4. \A x \in Found(c)' : x = call'[c].path \/ Parent[x] \in Found(c)'
  BY <1>1, <1>2
<1>5. ASSUME NEW g \in Found(c), g \notin Open(c)
      PROVE  (Found(c) \cup {e}) \cap Under(g) = Found(c) \cap Under(g)
  <2>1. g # e /\ g \notin Above[e]
    BY <1>5 DEF AddsNode
  <2> QED
    BY <2>1 DEF Under
<1>6. SizesOf(c)'
  <2>1. ASSUME NEW g \in Found(c) \cup {e}
        PROVE  size'[c][g] = IF g \in Open(c) THEN StSize[g]
                             ELSE Sum(StSize, (Found(c) \cup {e}) \cap Under(g))
    <3>1. CASE g = e
      <4>1. Sum(StSize, {e}) = StSize[e]
        BY <1>3, SumOfOne
      <4> QED
        BY <1>1, <1>3, <3>1, <4>1
    <3>2. CASE g \in Found(c)
      BY <1>2, <1>3, <1>5, <3>2 DEF SizesOf
    <3> QED
      BY <3>1, <3>2
  <2>2. Found(c)' = Found(c) \cup {e} /\ Open(c)' = Open(c)
    BY <1>1
  <2> QED
    BY ONLY <2>1, <2>2 DEF SizesOf
<1> QED
  BY <1>1, <1>4, <1>6 DEF SearchInv, ListsFound, SizesOf

\* The end of a directory: its node is not open any more.
EndsNode(c, n, d, p) ==
  /\ n \in Nat \ {0} /\ DOMAIN stack[c] = 1 .. n /\ Inner(c) = stack[c][n] /\ p \in Paths
  /\ Counts(c) /\ pc[c] = "read" /\ Found(c) \subseteq Under(p)
  /\ EntriesOf(c, d) \subseteq Under(p) \ Open(c) /\ Under(p) \subseteq Paths
  /\ Inner(c).list \in Seq(Paths) /\ IsInjective(Inner(c).list)
  /\ ToSet(Inner(c).list) = Found(c) \cap EntriesOf(c, d)
  /\ d # Top => /\ d \in Paths /\ d \in Found(c)
                /\ Open(c) = Open(c)' \cup {d} /\ d \notin Open(c)'
  /\ d = Top => n = 1 /\ Open(c) = {} /\ Open(c)' = {}
  /\ call' = call /\ Found(c)' = Found(c) /\ ListsFound(c)'
  /\ pc'[c] = IF d = Top THEN "found" ELSE "read"
  /\ size' = IF d = Top THEN size ELSE [size EXCEPT ![c][d] = @ + TotalSize(c)]
  /\ read'[c] = With(read[c], d, Inner(c).list)
  /\ child'[c] = With(child[c], d, SortList(call[c].sortMode, Inner(c).list))
  /\ DOMAIN stack'[c] = 1 .. n - 1
  /\ \A i \in 1 .. n - 1 : stack'[c][i] = stack[c][i]

LEMMA SearchEnds ==
  ASSUME WalkInv, NEW c \in Callers, SearchInv(c), SearchFrameEnds(c),
         NEW n, n = Len(stack[c]), NEW d, d = stack[c][n].dir, NEW p, p = call[c].path
  PROVE  EndsNode(c, n, d, p)
<1> PICK N : N = Found(c)
  OBVIOUS
<1>1. /\ LocalTyped /\ call' = call /\ stack[c] \in Seq(Frames) /\ size[c] \in Nodes
      /\ pc[c] = "read" /\ Searching(c) /\ Counts(c)
      /\ N \subseteq Under(p) /\ N = DOMAIN size[c]
  BY StackTyped DEF SearchFrameEnds, WalkInv, Typed, Walk, Counts, Found
<1>2. /\ \A x \in N : x = p \/ Parent[x] \in N
      /\ ListsFound(c) /\ SizesOf(c)
  BY <1>1, SearchSays
<1>3. /\ n \in Nat \ {0} /\ DOMAIN stack[c] = 1 .. n /\ Inner(c) = stack[c][n] /\ p \in Paths
      /\ \A g \in EntriesOf(c, d) : g \notin Open(c)
      /\ d # Top => /\ d \in Paths /\ d \in Under(p) /\ n > 1
                    /\ d \notin {stack[c][j].dir : j \in 2 .. n - 1}
                    /\ Open(c) = {stack[c][j].dir : j \in 2 .. n - 1} \cup {d}
      /\ d = Top => n = 1 /\ Open(c) = {}
  <2>1. OpenFacts(c, n, d, p)
    BY <1>1, OpenDirs
  <2> QED
    BY <2>1 DEF OpenFacts
<1>4. /\ EntriesOf(c, d) \subseteq Under(p) /\ Under(p) \subseteq Paths
      /\ (AtRoot(c) <=> d = Top) /\ n \in DOMAIN stack[c]
  <2>1. InnerFacts(c)
    BY <1>1, InnerOk
  <2>2. n \in DOMAIN stack[c]
    BY <1>3
  <2> QED
    BY <1>3, <2>1, <2>2 DEF InnerFacts
<1>5. /\ ToSet(Inner(c).list) = N \cap EntriesOf(c, d)
      /\ Inner(c).list \in Seq(Paths) /\ IsInjective(Inner(c).list)
      /\ d # Top => d \in N
  <2>1. Inner(c) \in Frames /\ FrameOk(c, Inner(c))
    BY <1>1, InnerOk DEF InnerFacts
  <2> QED
    BY <1>2, <1>3, <1>4, <2>1 DEF ListsFound, FrameOk, Frames
<1>6. /\ stack' = Set(stack, c, Front(stack[c]))
      /\ size' = IF AtRoot(c) THEN size ELSE [size EXCEPT ![c][d] = @ + TotalSize(c)]
      /\ pc' = Set(pc, c, IF AtRoot(c) THEN "found" ELSE "read")
      /\ read' = [read EXCEPT ![c] = With(@, d, Inner(c).list)]
      /\ child' = [child EXCEPT ![c] = With(@, d, SortList(call[c].sortMode, Inner(c).list))]
  BY <1>3 DEF SearchFrameEnds
<1>7. N = DOMAIN size'[c] /\ Found(c)' = N
  BY <1>1, <1>6 DEF LocalTyped, Found
<1>8. /\ Len(stack'[c]) = n - 1 /\ DOMAIN stack'[c] = 1 .. n - 1
      /\ \A i \in 1 .. n - 1 : stack'[c][i] = stack[c][i]
  <2>1. /\ stack' \in [Callers -> Seq(Frames)] /\ Len(stack'[c]) = Len(stack[c]) - 1
        /\ \A i \in 1 .. Len(stack[c]) - 1 : stack'[c][i] = stack[c][i]
    BY <1>1, <1>6, <1>7, FrameEnds
  <2> QED
    BY <2>1, LenProperties
<1> PICK O : O = {stack[c][j].dir : j \in 2 .. n - 1}
  OBVIOUS
<1>9. Open(c)' = O /\ (d # Top => Open(c) = O \cup {d} /\ d \notin O)
      /\ (d = Top => O = {} /\ Open(c) = {})
  <2>1. \A i \in 2 .. n - 1 : stack'[c][i] = stack[c][i]
    BY <1>8
  <2>2. Open(c)' = {stack'[c][j].dir : j \in 2 .. n - 1}
    BY <1>8 DEF Open
  <2>3. d = Top => 2 .. n - 1 = {} /\ Open(c) = {}
    BY <1>3
  <2>4. d # Top => d \notin O /\ Open(c) = O \cup {d}
    BY <1>3
  <2>5. Open(c)' = O
    BY <2>1, <2>2
  <2> QED
    BY <2>3, <2>4, <2>5
<1>10. ListsFound(c)'
  <2>1. \A x : EntriesOf(c, x)' = EntriesOf(c, x)
    BY <1>1 DEF EntriesOf
  <2>2. \A i \in 1 .. n - 1 : i \in 1 .. n
    BY <1>3
  <2>3. ASSUME NEW i \in 1 .. n - 1
        PROVE  /\ ToSet(stack'[c][i].list) = N \cap EntriesOf(c, stack'[c][i].dir)
               /\ i > 1 => stack'[c][i].dir \in N
    BY <1>2, <1>3, <1>8, <2>2 DEF ListsFound
  <2> QED
    BY <1>7, <1>8, <2>1, <2>3 DEF ListsFound
<1>11. /\ pc'[c] = IF d = Top THEN "found" ELSE "read"
       /\ read'[c] = With(read[c], d, Inner(c).list)
       /\ child'[c] = With(child[c], d, SortList(call[c].sortMode, Inner(c).list))
       /\ size' = IF d = Top THEN size ELSE [size EXCEPT ![c][d] = @ + TotalSize(c)]
  BY <1>1, <1>4, <1>6 DEF LocalTyped, Set
<1> QED
  BY <1>1, <1>3, <1>4, <1>5, <1>7, <1>8, <1>9, <1>10, <1>11 DEF EndsNode, ListsFound

\* At the end of a directory the sizes of its entries make up its own.
LEMMA SizesWhenEnded ==
  ASSUME WalkInv, NEW c \in Callers, SearchInv(c), SearchFrameEnds(c)
  PROVE  SearchInv(c)'
<1> PICK n : n = Len(stack[c])
  OBVIOUS
<1> PICK d : d = stack[c][n].dir
  OBVIOUS
<1> PICK p : p = call[c].path
  OBVIOUS
<1> PICK N : N = Found(c)
  OBVIOUS
<1>1. EndsNode(c, n, d, p)
  BY SearchEnds
<1>2. /\ Counts(c) /\ p \in Paths /\ N \subseteq Under(p) /\ call' = call
      /\ EntriesOf(c, d) \subseteq Under(p) \ Open(c) /\ Under(p) \subseteq Paths
      /\ ToSet(Inner(c).list) = N \cap EntriesOf(c, d)
      /\ Found(c)' = N /\ ListsFound(c)' /\ pc'[c] # "enter"
      /\ d # Top => /\ d \in Paths /\ d \in N
                    /\ Open(c) = Open(c)' \cup {d} /\ d \notin Open(c)'
      /\ d = Top => Open(c)' = Open(c)
      /\ size' = IF d = Top THEN size ELSE [size EXCEPT ![c][d] = @ + TotalSize(c)]
  BY <1>1 DEF EndsNode
<1>3. (\A x \in N : x = p \/ Parent[x] \in N) /\ SizesOf(c) /\ LocalTyped
  BY <1>2, SearchSays DEF WalkInv, Typed
<1>4. ASSUME d # Top
      PROVE  StSize[d] + TotalSize(c) = Sum(StSize, N \cap Under(d))
  <2>1. N \cap ChildrenOf(d) = ToSet(Inner(c).list)
    BY <1>2, <1>4 DEF EntriesOf
  <2>2. TotalSize(c) = Sum(size[c], N \cap ChildrenOf(d))
    BY <2>1 DEF TotalSize, Sum
  <2>3. \A g \in N \cap ChildrenOf(d) : size[c][g] = Sum(StSize, N \cap Under(g))
    BY <1>2, <1>3, <2>1 DEF SizesOf
  <2>4. Rooted(p, N) /\ d \in N /\ \A x \in N : StSize[x] \in Nat
    BY <1>2, <1>3, <1>4, PlatformFileAssumption DEF Rooted
  <2> PICK w : w = size[c]
    OBVIOUS
  <2>5. StSize[d] + Sum(w, N \cap ChildrenOf(d)) = Sum(StSize, N \cap Under(d))
    <3>1. \A g \in N \cap ChildrenOf(d) : w[g] = Sum(StSize, N \cap Under(g))
      BY <2>3
    <3> QED
      BY ONLY <2>4, <3>1, SumBelow
  <2> QED
    BY <2>2, <2>5
<1>5. SizesOf(c)'
  <2>1. CASE d = Top
    BY <1>2, <1>3, <2>1 DEF SizesOf
  <2>2. CASE d # Top
    <3>1. /\ size'[c][d] = size[c][d] + TotalSize(c)
          /\ \A e \in N : e # d => size'[c][e] = size[c][e]
      BY <1>2, <1>3, <2>2 DEF LocalTyped, Found
    <3>2. size[c][d] = StSize[d]
      BY <1>2, <1>3, <2>2 DEF SizesOf
    <3>3. ASSUME NEW e \in N
          PROVE  size'[c][e] = IF e \in Open(c)' THEN StSize[e]
                               ELSE Sum(StSize, N \cap Under(e))
      <4>1. CASE e = d
        BY <1>2, <1>4, <2>2, <3>1, <3>2, <4>1
      <4>2. CASE e # d
        BY <1>2, <1>3, <2>2, <3>1, <4>2 DEF SizesOf
      <4> QED
        BY <4>1, <4>2
    <3> QED
      BY <1>2, <3>3 DEF SizesOf
  <2> QED
    BY <2>1, <2>2
<1> QED
  BY <1>2, <1>3, <1>5 DEF SearchInv, ListsFound, SizesOf

LEMMA SizesKept ==
  ASSUME WalkInv, NEW c \in Callers, SearchInv(c), Acts(c)
  PROVE  SearchInv(c)'
<1>1. CASE StartWalk(c)
  BY <1>1, SizesWhenStarted
<1>2. CASE ReadGone(c) \/ EnterFails(c)
  BY <1>2, SizesWhenNothingIsFound
<1>3. CASE ReadToSearch(c) \/ EnterOpens(c) \/ SearchFrameEnds(c)
  BY <1>3, SizesWhenRead, SizesWhenEntered, SizesWhenEnded
<1>4. ASSUME pc'[c] \in {"mkdir", "done"} \/ ~Searching(c)'
      PROVE  SearchInv(c)'
  BY <1>4 DEF SearchInv
<1>5. CASE StartNothing(c) \/ StartMake(c) \/ MakeStep(c) \/ MakeDone(c) \/ FreeFileInfo(c)
  <2>1. pc'[c] \in {"mkdir", "done"}
    BY <1>5 DEF StartNothing, StartMake, MakeStep, MakeDone, Fail, FreeFileInfo, Set,
                WalkInv, Typed, LocalTyped
  <2> QED
    BY <1>4, <2>1
<1>6. CASE ReadToRemove(c) \/ RemoveFrameEnds(c) \/ RemoveEntry(c) \/ RemoveDir(c)
  <2>1. Removing(c) /\ call' = call
    BY <1>6 DEF ReadToRemove, RemoveFrameEnds, RemoveEntry, RemoveDir, Removed, WalkInv, Placed
  <2> QED
    BY <1>4, <2>1 DEF Removing, Searching
<1> QED
  BY <1>1, <1>2, <1>3, <1>5, <1>6 DEF Acts, Step

LEMMA SizesStill ==
  ASSUME NEW c, Still(c), SearchInv(c)
  PROVE  SearchInv(c)'
<1>1. /\ call'[c] = call[c] /\ pc'[c] = pc[c] /\ stack'[c] = stack[c]
      /\ at'[c] = at[c] /\ size'[c] = size[c]
  BY DEF Still
<1>2. /\ Found(c)' = Found(c) /\ Open(c)' = Open(c)
      /\ \A x : EntriesOf(c, x)' = EntriesOf(c, x)
      /\ Searching(c)' <=> Searching(c)
  BY <1>1 DEF Found, Open, EntriesOf, Searching
<1> QED
  BY <1>1, <1>2 DEF SearchInv

(***************************************************************************)
(* The invariant of the search: a directory's list holds just those of its *)
(* entries that have a node, a node is on a directory that has one, and a  *)
(* directory that is still open counts for itself, while every other node  *)
(* counts for all nodes below it.                                          *)
(***************************************************************************)
THEOREM SizeInvariant == Spec => []SizeInv
<1>1. Init => SizeInv
  BY DEF Init, SizeInv, SearchInv, Searching, NoCall
<1>2. WalkInv /\ SizeInv /\ [Next]_vars => SizeInv'
  <2>1. SizeInv /\ UNCHANGED vars => SizeInv'
    BY SizesStill DEF SizeInv, Still, vars, local, tree
  <2>2. ASSUME WalkInv, SizeInv, NEW o \in Callers, Acts(o)
        PROVE  SizeInv'
    <3>1. ASSUME NEW c \in Callers, c # o
          PROVE  SearchInv(c)'
      <4>1. Still(c) /\ SearchInv(c)
        BY <2>2, <3>1, OneThreadSteps DEF WalkInv, SizeInv
      <4> QED
        BY <4>1, SizesStill
    <3>2. SearchInv(o)'
      BY <2>2, SizesKept DEF SizeInv
    <3> QED
      BY <3>1, <3>2 DEF SizeInv
  <2> QED
    BY <2>1, <2>2, ThreadsAct
<1> QED
  BY <1>1, <1>2, WalkInvariant, PTL DEF Spec

(***************************************************************************)
(* When a search ends, no directory is open any more, and every node's     *)
(* size is its own and that of all nodes below it (SizesAddUp).            *)
(***************************************************************************)
THEOREM SizesAreTotals == Spec => []SizesAddUp
<1>1. ASSUME WalkInv, SizeInv PROVE SizesAddUp
  <2> SUFFICES ASSUME NEW c \in Callers, pc[c] = "found", NEW e \in DOMAIN size[c]
               PROVE  size[c][e] = Sum(StSize, DOMAIN size[c] \cap Under(e))
    BY DEF SizesAddUp, Sum
  <2>1. Searching(c) /\ stack[c] = <<>>
    BY <1>1 DEF WalkInv, Placed
  <2>2. Open(c) = {}
    <3>1. Len(stack[c]) = 0 /\ 2 .. 0 = {}
      BY <2>1
    <3> QED
      BY <3>1 DEF Open
  <2> QED
    BY <1>1, <2>1, <2>2 DEF SizeInv, SearchInv, Found
<1>2. WalkInv /\ SizeInv => SizesAddUp
  BY <1>1
<1> QED
  BY <1>2, WalkInvariant, SizeInvariant, PTL

-----------------------------------------------------------------------------
(* The sort. *)

\* A list with h put before it.
LEMMA ConcatHeaded ==
  ASSUME NEW P, NEW h \in P, NEW t \in Seq(P)
  PROVE  /\ <<h>> \o t \in Seq(P) /\ Len(<<h>> \o t) = Len(t) + 1
         /\ (<<h>> \o t)[1] = h
         /\ \A i \in 1 .. Len(t) : (<<h>> \o t)[i + 1] = t[i]
         /\ ToSet(<<h>> \o t) = {h} \cup ToSet(t)
<1> PICK u : u = <<h>> \o t
  OBVIOUS
<1> PICK s : s = <<h>>
  OBVIOUS
<1>1. s \in Seq(P) /\ Len(s) = 1 /\ s[1] = h
  OBVIOUS
<1>2. u \in Seq(P) /\ Len(u) = 1 + Len(t)
      /\ \A i \in 1 .. 1 + Len(t) : u[i] = IF i <= 1 THEN s[i] ELSE t[i - 1]
  BY <1>1, ConcatProperties
<1>3. Len(t) \in Nat /\ DOMAIN t = 1 .. Len(t) /\ DOMAIN u = 1 .. Len(t) + 1
      /\ Len(u) = Len(t) + 1
  BY <1>2, LenProperties
<1>4. u[1] = h
  <2>1. 1 \in 1 .. 1 + Len(t)
    BY <1>3
  <2> QED
    BY <1>1, <1>2, <2>1
<1>5. \A i \in 1 .. Len(t) : u[i + 1] = t[i]
  <2> TAKE i \in 1 .. Len(t)
  <2>1. i + 1 \in 1 .. 1 + Len(t) /\ ~(i + 1 <= 1) /\ (i + 1) - 1 = i
    BY <1>3
  <2> QED
    BY <1>2, <2>1
<1>6. ToSet(u) = {h} \cup ToSet(t)
  <2>1. ASSUME NEW i \in DOMAIN u PROVE u[i] \in {h} \cup ToSet(t)
    <3>1. i = 1 \/ (i - 1 \in 1 .. Len(t) /\ (i - 1) + 1 = i)
      BY <1>3
    <3> QED
      BY <1>3, <1>4, <1>5, <3>1 DEF ToSet
  <2>2. ASSUME NEW i \in DOMAIN t PROVE t[i] \in ToSet(u)
    <3>1. i + 1 \in DOMAIN u /\ u[i + 1] = t[i]
      BY <1>3, <1>5
    <3> QED
      BY <3>1 DEF ToSet
  <2>3. h \in ToSet(u)
    <3>1. 1 \in DOMAIN u
      BY <1>3
    <3> QED
      BY <1>4, <3>1 DEF ToSet
  <2>4. ToSet(u) \subseteq {h} \cup ToSet(t)
    BY <2>1 DEF ToSet
  <2>5. ToSet(t) \subseteq ToSet(u)
    BY <2>2 DEF ToSet
  <2> QED
    BY <2>3, <2>4, <2>5
<1> QED
  BY <1>2, <1>3, <1>4, <1>5, <1>6

\* The two lists of a merge, and how long they are together.
TwoLists == Seq(Paths) \X Seq(Paths)
LenOfBoth == [p \in TwoLists |-> Len(p[1]) + Len(p[2])]

\* The measure of the merge is a natural number.
LEMMA LenOfBothTyped == LenOfBoth \in [TwoLists -> Nat]
<1>1. ASSUME NEW q \in TwoLists PROVE Len(q[1]) + Len(q[2]) \in Nat
  <2>1. q[1] \in Seq(Paths) /\ q[2] \in Seq(Paths)
    BY DEF TwoLists
  <2>2. Len(q[1]) \in Nat /\ Len(q[2]) \in Nat
    BY <2>1, LenProperties
  <2>3. \A a, b \in Nat : a + b \in Nat
    OBVIOUS
  <2> QED
    BY <2>2, <2>3, Zenon
<1> QED
  BY <1>1 DEF LenOfBoth

\* The merge goes on with one of the lists without its head.
LEMMA OneListShorter ==
  ASSUME NEW p \in TwoLists, p[1] # <<>>, p[2] # <<>>
  PROVE  /\ LenOfBoth \in [TwoLists -> Nat]
         /\ Head(p[1]) \in Paths /\ Head(p[2]) \in Paths
         /\ <<Tail(p[1]), p[2]>> \in TwoLists /\ <<p[1], Tail(p[2])>> \in TwoLists
         /\ LenOfBoth[<<Tail(p[1]), p[2]>>] < LenOfBoth[p]
         /\ LenOfBoth[<<p[1], Tail(p[2])>>] < LenOfBoth[p]
<1>2. LenOfBoth \in [TwoLists -> Nat]
  BY LenOfBothTyped
<1> PICK l : l = p[1]
  OBVIOUS
<1> PICK r : r = p[2]
  OBVIOUS
<1>3. l \in Seq(Paths) /\ r \in Seq(Paths) /\ l # <<>> /\ r # <<>>
  BY DEF TwoLists
<1>4. /\ Head(l) \in Paths /\ Tail(l) \in Seq(Paths) /\ Len(Tail(l)) = Len(l) - 1
      /\ Head(r) \in Paths /\ Tail(r) \in Seq(Paths) /\ Len(Tail(r)) = Len(r) - 1
      /\ Len(l) \in Nat /\ Len(r) \in Nat
  BY <1>3, HeadTailProperties, LenProperties
<1>5. <<Tail(l), r>> \in TwoLists /\ <<l, Tail(r)>> \in TwoLists
  BY <1>3, <1>4 DEF TwoLists
<1>6. /\ LenOfBoth[<<Tail(l), r>>] = Len(Tail(l)) + Len(r)
      /\ LenOfBoth[<<l, Tail(r)>>] = Len(l) + Len(Tail(r))
      /\ LenOfBoth[p] = Len(l) + Len(r)
  BY <1>5 DEF LenOfBoth
<1>7. /\ LenOfBoth[<<Tail(l), r>>] < LenOfBoth[p]
      /\ LenOfBoth[<<l, Tail(r)>>] < LenOfBoth[p]
  <2>1. \A a, b \in Nat : (a - 1) + b < a + b /\ a + (b - 1) < a + b
    OBVIOUS
  <2> QED
    BY <1>4, <1>6, <2>1
<1> QED
  BY <1>2, <1>4, <1>5, <1>7

\* What the merge computes, for any lists.
LEMMA MergeDefined ==
  ASSUME NEW mode, NEW l \in Seq(Paths), NEW r \in Seq(Paths)
  PROVE  /\ MergeTwoList(mode, l, r) \in Seq(Paths)
         /\ MergeTwoList(mode, l, r) =
              IF l = <<>> THEN r
              ELSE IF r = <<>> THEN l
              ELSE IF Less(mode, Head(l), Head(r))
                   THEN <<Head(l)>> \o MergeTwoList(mode, Tail(l), r)
                   ELSE <<Head(r)>> \o MergeTwoList(mode, l, Tail(r))
<1> DEFINE Body(f, p) == IF p[1] = <<>> THEN p[2]
                         ELSE IF p[2] = <<>> THEN p[1]
                         ELSE IF Less(mode, Head(p[1]), Head(p[2]))
                              THEN <<Head(p[1])>> \o f[<<Tail(p[1]), p[2]>>]
                              ELSE <<Head(p[2])>> \o f[<<p[1], Tail(p[2])>>]
           V == Seq(Paths)
           F == [p \in TwoLists |-> [g \in [TwoLists -> V] |-> Body(g, p)]]
           M == CHOOSE f : f = [p \in TwoLists |-> Body(f, p)]
<1>1. \A a, b : MergeTwoList(mode, a, b) = M[<<a, b>>]
  BY DEF MergeTwoList, TwoLists
<1>2. \A p \in TwoLists : p[1] \in V /\ p[2] \in V
  BY DEF TwoLists
<1>3. ASSUME NEW p \in TwoLists, NEW g,
             \A q \in TwoLists : LenOfBoth[q] < LenOfBoth[p] => g[q] \in V
      PROVE  Body(g, p) \in V
  <2>1. CASE p[1] = <<>> \/ p[2] = <<>>
    BY <1>2, <2>1
  <2>2. CASE p[1] # <<>> /\ p[2] # <<>>
    <3>1. /\ g[<<Tail(p[1]), p[2]>>] \in V /\ g[<<p[1], Tail(p[2])>>] \in V
          /\ Head(p[1]) \in Paths /\ Head(p[2]) \in Paths
      BY <1>3, <2>2, OneListShorter
    <3>2. /\ <<Head(p[1])>> \o g[<<Tail(p[1]), p[2]>>] \in V
          /\ <<Head(p[2])>> \o g[<<p[1], Tail(p[2])>>] \in V
      BY <3>1, ConcatHeaded
    <3> QED
      BY <2>2, <3>2
  <2> QED
    BY <2>1, <2>2
<1>4. LenOfBoth \in [TwoLists -> Nat]
  BY LenOfBothTyped
<1>5. IsRecursion(TwoLists, LenOfBoth, V, F)
  <2>1. <<>> \in V
    BY EmptySeq
  <2>2. F \in [TwoLists -> [[TwoLists -> V] -> V]]
    <3>1. \A p \in TwoLists : \A g \in [TwoLists -> V] : Body(g, p) \in V
      <4> TAKE p \in TwoLists
      <4> TAKE g \in [TwoLists -> V]
      <4>1. \A q \in TwoLists : g[q] \in V
        OBVIOUS
      <4> HIDE DEF Body, V
      <4> QED
        BY <1>3, <4>1
    <3> HIDE DEF Body, V
    <3> QED
      BY <3>1
  <2>3. ASSUME NEW p \in TwoLists, NEW g \in [TwoLists -> V], NEW h \in [TwoLists -> V],
               \A q \in TwoLists : LenOfBoth[q] < LenOfBoth[p] => g[q] = h[q]
        PROVE  F[p][g] = F[p][h]
    <3>1. Body(g, p) = Body(h, p)
      <4>1. CASE p[1] = <<>> \/ p[2] = <<>>
        BY <4>1
      <4>2. CASE p[1] # <<>> /\ p[2] # <<>>
        <5>1. /\ g[<<Tail(p[1]), p[2]>>] = h[<<Tail(p[1]), p[2]>>]
              /\ g[<<p[1], Tail(p[2])>>] = h[<<p[1], Tail(p[2])>>]
          BY <2>3, <4>2, OneListShorter
        <5> QED
          BY <5>1
      <4> QED
        BY <4>1, <4>2
    <3> HIDE DEF Body
    <3> QED
      BY <3>1
  <2> HIDE DEF V, F
  <2> QED
    BY <1>4, <2>1, <2>2, <2>3 DEF IsRecursion
<1>6. PICK f \in [TwoLists -> V] : \A p \in TwoLists : f[p] = F[p][f]
  <2> HIDE DEF V, F
  <2> QED
    BY <1>5, RecursionExists
<1> HIDE DEF Body
<1>7. f = [p \in TwoLists |-> Body(f, p)]
  BY <1>6
<1>8. M = [p \in TwoLists |-> Body(M, p)]
  BY <1>7
<1> HIDE DEF M
<1>9. \A p \in TwoLists : M[p] = Body(M, p)
  BY <1>8
<1> DEFINE T == {p \in TwoLists : M[p] \in V}
<1>10. ASSUME NEW p \in TwoLists,
              \A q \in TwoLists : LenOfBoth[q] < LenOfBoth[p] => q \in T
       PROVE  p \in T
  <2>1. \A q \in TwoLists : LenOfBoth[q] < LenOfBoth[p] => M[q] \in V
    BY <1>10
  <2>2. Body(M, p) \in V
    <3> HIDE DEF V
    <3> QED
      BY <1>3, <2>1
  <2> QED
    BY <1>9, <2>2
<1> HIDE DEF T
<1>11. TwoLists \subseteq T
  BY <1>4, <1>10, MeasureInduction
<1>12. <<l, r>> \in TwoLists
  BY DEF TwoLists
<1>13. M[<<l, r>>] \in Seq(Paths)
  BY <1>11, <1>12 DEF T
<1>14. M[<<l, r>>] = Body(M, <<l, r>>)
  BY <1>9, <1>12
<1> QED
  BY <1>1, <1>13, <1>14 DEF Body

\* A list in the order that R says.
InOrder(R, s) == \A i, j \in DOMAIN s : i < j => <<s[i], s[j]>> \in R

Transitive(R) ==
  \A a, b, e \in Paths : <<a, b>> \in R /\ <<b, e>> \in R => <<a, e>> \in R

\* The first element goes before the others.
LEMMA HeadGoesFirst ==
  ASSUME NEW R, NEW s \in Seq(Paths), s # <<>>, InOrder(R, s)
  PROVE  InOrder(R, Tail(s)) /\ \A x \in ToSet(Tail(s)) : <<Head(s), x>> \in R
<1> PICK t : t = Tail(s)
  OBVIOUS
<1>1. /\ Head(s) = s[1] /\ 1 \in DOMAIN s
      /\ \A i \in DOMAIN t : i + 1 \in DOMAIN s /\ t[i] = s[i + 1] /\ i \in Nat \ {0}
  BY HeadAndTail
<1>2. ASSUME NEW i \in DOMAIN t, NEW j \in DOMAIN t, i < j
      PROVE  <<t[i], t[j]>> \in R
  <2>1. i + 1 \in DOMAIN s /\ j + 1 \in DOMAIN s /\ i + 1 < j + 1
    BY <1>1, <1>2
  <2> QED
    BY <1>1, <2>1 DEF InOrder
<1>3. ASSUME NEW i \in DOMAIN t
      PROVE  <<Head(s), t[i]>> \in R
  <2>1. i + 1 \in DOMAIN s /\ 1 < i + 1
    BY <1>1
  <2> QED
    BY <1>1, <2>1 DEF InOrder
<1> QED
  BY <1>2, <1>3 DEF InOrder, ToSet

\* What goes before all elements may be put before them.
LEMMA HeadedInOrder ==
  ASSUME NEW R, NEW h \in Paths, NEW t \in Seq(Paths), InOrder(R, t),
         \A x \in ToSet(t) : <<h, x>> \in R
  PROVE  InOrder(R, <<h>> \o t)
<1> PICK u : u = <<h>> \o t
  OBVIOUS
<1>1. /\ u \in Seq(Paths) /\ Len(u) = Len(t) + 1 /\ u[1] = h
      /\ \A i \in 1 .. Len(t) : u[i + 1] = t[i]
  BY ConcatHeaded
<1>2. Len(t) \in Nat /\ DOMAIN t = 1 .. Len(t) /\ DOMAIN u = 1 .. Len(t) + 1
  BY <1>1, LenProperties
<1>3. \A i \in DOMAIN u : i = 1 \/ (i - 1 \in DOMAIN t /\ u[i] = t[i - 1] /\ i \in Nat)
  <2> TAKE i \in DOMAIN u
  <2>1. i = 1 \/ (i - 1 \in 1 .. Len(t) /\ (i - 1) + 1 = i /\ i \in Nat)
    BY <1>2
  <2> QED
    BY <1>1, <1>2, <2>1
<1>4. ASSUME NEW i \in DOMAIN u, NEW j \in DOMAIN u, i < j
      PROVE  <<u[i], u[j]>> \in R
  <2>1. j # 1 /\ j \in Nat /\ i \in Nat
    BY <1>2, <1>4
  <2>2. j - 1 \in DOMAIN t /\ u[j] = t[j - 1]
    BY <1>3, <2>1
  <2>3. CASE i = 1
    BY <1>1, <2>2, <2>3 DEF ToSet
  <2>4. CASE i # 1
    <3>1. i - 1 \in DOMAIN t /\ u[i] = t[i - 1] /\ i - 1 < j - 1
      BY <1>3, <1>4, <2>1, <2>4
    <3> QED
      BY <2>2, <3>1 DEF InOrder
  <2> QED
    BY <2>3, <2>4
<1> QED
  BY <1>4 DEF InOrder

\* Of two elements of different lists, the order is the one that the merge
\* compares by.
Compared(R, mode, l, r) ==
  \A a \in ToSet(l), b \in ToSet(r) :
    IF Less(mode, a, b) THEN <<a, b>> \in R ELSE <<b, a>> \in R

Merged(R, mode, l, r, s) ==
  /\ ToSet(s) = ToSet(l) \cup ToSet(r) /\ Len(s) = Len(l) + Len(r)
  /\ InOrder(R, l) /\ InOrder(R, r) /\ Compared(R, mode, l, r) => InOrder(R, s)

\* The elements of a list of paths are paths.
LEMMA ElementsArePaths ==
  ASSUME NEW s \in Seq(Paths)
  PROVE  ToSet(s) \subseteq Paths
  BY ElementOfSeq, LenProperties DEF ToSet

\* The merge loses nothing, and of two lists in order it makes one.
LEMMA MergeSorts ==
  ASSUME NEW R, Transitive(R), NEW mode
  PROVE  \A l, r \in Seq(Paths) : Merged(R, mode, l, r, MergeTwoList(mode, l, r))
<1> DEFINE T == {p \in TwoLists : Merged(R, mode, p[1], p[2], MergeTwoList(mode, p[1], p[2]))}
<1>1. ASSUME NEW p \in TwoLists,
             \A q \in TwoLists : LenOfBoth[q] < LenOfBoth[p] => q \in T
      PROVE  Merged(R, mode, p[1], p[2], MergeTwoList(mode, p[1], p[2]))
  <2> PICK l : l = p[1]
    OBVIOUS
  <2> PICK r : r = p[2]
    OBVIOUS
  <2> PICK s : s = MergeTwoList(mode, l, r)
    OBVIOUS
  <2>1. l \in Seq(Paths) /\ r \in Seq(Paths) /\ Len(l) \in Nat /\ Len(r) \in Nat
    <3>1. l \in Seq(Paths) /\ r \in Seq(Paths)
      BY DEF TwoLists
    <3> QED
      BY <3>1, LenProperties
  <2>2. s = IF l = <<>> THEN r
            ELSE IF r = <<>> THEN l
            ELSE IF Less(mode, Head(l), Head(r))
                 THEN <<Head(l)>> \o MergeTwoList(mode, Tail(l), r)
                 ELSE <<Head(r)>> \o MergeTwoList(mode, l, Tail(r))
    <3>1. l \in Seq(Paths) /\ r \in Seq(Paths)
      BY <2>1
    <3> HIDE DEF T
    <3>2. MergeTwoList(mode, l, r) =
            IF l = <<>> THEN r
            ELSE IF r = <<>> THEN l
            ELSE IF Less(mode, Head(l), Head(r))
                 THEN <<Head(l)>> \o MergeTwoList(mode, Tail(l), r)
                 ELSE <<Head(r)>> \o MergeTwoList(mode, l, Tail(r))
      BY ONLY <3>1, MergeDefined
    <3> QED
      BY ONLY <3>2, s = MergeTwoList(mode, l, r)
  <2>3. ToSet(<<>>) = {} /\ Len(<<>>) = 0
    BY DEF ToSet
  <2>4. CASE l = <<>>
    BY <2>1, <2>2, <2>3, <2>4 DEF Merged
  <2>5. CASE l # <<>> /\ r = <<>>
    BY <2>1, <2>2, <2>3, <2>5 DEF Merged
  <2>6. CASE l # <<>> /\ r # <<>>
    <3> PICK lt : lt = Tail(l)
      OBVIOUS
    <3> PICK rt : rt = Tail(r)
      OBVIOUS
    <3> PICK lh : lh = Head(l)
      OBVIOUS
    <3> PICK rh : rh = Head(r)
      OBVIOUS
    <3> PICK a : a = MergeTwoList(mode, lt, r)
      OBVIOUS
    <3> PICK b : b = MergeTwoList(mode, l, rt)
      OBVIOUS
    <3>1. /\ <<lt, r>> \in T /\ <<l, rt>> \in T /\ lh \in Paths /\ rh \in Paths
          /\ lt \in Seq(Paths) /\ rt \in Seq(Paths)
      <4>1. /\ Head(l) \in Paths /\ Head(r) \in Paths
            /\ <<Tail(l), r>> \in TwoLists /\ <<l, Tail(r)>> \in TwoLists
            /\ LenOfBoth[<<Tail(l), r>>] < LenOfBoth[p] /\ LenOfBoth[<<l, Tail(r)>>] < LenOfBoth[p]
        BY <2>6, OneListShorter
      <4> QED
        BY <1>1, <4>1 DEF TwoLists
    <3>2. Merged(R, mode, lt, r, a) /\ Merged(R, mode, l, rt, b)
      BY <3>1
    <3> HIDE DEF T
    <3>3. a \in Seq(Paths) /\ b \in Seq(Paths)
      BY <2>1, <3>1, MergeDefined
    <3>4. /\ ToSet(l) = {lh} \cup ToSet(lt) /\ ToSet(r) = {rh} \cup ToSet(rt)
          /\ Len(lt) = Len(l) - 1 /\ Len(rt) = Len(r) - 1
      BY <2>1, <2>6, HeadAndTail, HeadTailProperties
    <3>5. ToSet(l) \subseteq Paths /\ ToSet(r) \subseteq Paths
      BY <2>1, ElementsArePaths
    <3>6. InOrder(R, l) => InOrder(R, lt) /\ \A x \in ToSet(lt) : <<lh, x>> \in R
      BY <2>1, <2>6, HeadGoesFirst
    <3>7. InOrder(R, r) => InOrder(R, rt) /\ \A x \in ToSet(rt) : <<rh, x>> \in R
      BY <2>1, <2>6, HeadGoesFirst
    <3>8. CASE Less(mode, lh, rh)
      <4>1. s = <<lh>> \o a
        BY <2>2, <2>6, <3>8
      <4>2. /\ ToSet(s) = {lh} \cup ToSet(a) /\ Len(s) = Len(a) + 1
        BY <3>1, <3>3, <4>1, ConcatHeaded
      <4>3. ToSet(s) = ToSet(l) \cup ToSet(r) /\ Len(s) = Len(l) + Len(r)
        <5>1. ToSet(a) = ToSet(lt) \cup ToSet(r) /\ Len(a) = (Len(l) - 1) + Len(r)
          BY <3>2, <3>4 DEF Merged
        <5>2. \A m, n \in Nat : ((m - 1) + n) + 1 = m + n
          OBVIOUS
        <5> QED
          BY <2>1, <3>4, <4>2, <5>1, <5>2
      <4>4. ASSUME InOrder(R, l), InOrder(R, r), Compared(R, mode, l, r)
            PROVE  InOrder(R, s)
        <5>1. Compared(R, mode, lt, r)
          BY <3>4, <4>4 DEF Compared
        <5>2. InOrder(R, a) /\ ToSet(a) = ToSet(lt) \cup ToSet(r)
          BY <3>2, <3>6, <4>4, <5>1 DEF Merged
        <5>3. <<lh, rh>> \in R
          BY <3>4, <3>8, <4>4 DEF Compared
        <5>4. ASSUME NEW x \in ToSet(a) PROVE <<lh, x>> \in R
          <6>1. CASE x \in ToSet(lt)
            BY <3>6, <4>4, <6>1
          <6>2. CASE x = rh
            BY <5>3, <6>2
          <6>3. CASE x \in ToSet(rt)
            <7>1. <<rh, x>> \in R /\ x \in Paths
              BY <3>4, <3>5, <3>7, <4>4, <6>3
            <7> QED
              BY <3>1, <5>3, <7>1 DEF Transitive
          <6> QED
            BY <3>4, <5>2, <5>4, <6>1, <6>2, <6>3
        <5> QED
          BY <3>1, <3>3, <4>1, <5>2, <5>4, HeadedInOrder
      <4> QED
        BY <4>3, <4>4 DEF Merged
    <3>9. CASE ~Less(mode, lh, rh)
      <4>1. s = <<rh>> \o b
        BY <2>2, <2>6, <3>9
      <4>2. /\ ToSet(s) = {rh} \cup ToSet(b) /\ Len(s) = Len(b) + 1
        BY <3>1, <3>3, <4>1, ConcatHeaded
      <4>3. ToSet(s) = ToSet(l) \cup ToSet(r) /\ Len(s) = Len(l) + Len(r)
        <5>1. ToSet(b) = ToSet(l) \cup ToSet(rt) /\ Len(b) = Len(l) + (Len(r) - 1)
          BY <3>2, <3>4 DEF Merged
        <5>2. \A m, n \in Nat : (m + (n - 1)) + 1 = m + n
          OBVIOUS
        <5> QED
          BY <2>1, <3>4, <4>2, <5>1, <5>2
      <4>4. ASSUME InOrder(R, l), InOrder(R, r), Compared(R, mode, l, r)
            PROVE  InOrder(R, s)
        <5>1. Compared(R, mode, l, rt)
          BY <3>4, <4>4 DEF Compared
        <5>2. InOrder(R, b) /\ ToSet(b) = ToSet(l) \cup ToSet(rt)
          BY <3>2, <3>7, <4>4, <5>1 DEF Merged
        <5>3. <<rh, lh>> \in R
          BY <3>4, <3>9, <4>4 DEF Compared
        <5>4. ASSUME NEW x \in ToSet(b) PROVE <<rh, x>> \in R
          <6>1. CASE x \in ToSet(rt)
            BY <3>7, <4>4, <6>1
          <6>2. CASE x = lh
            BY <5>3, <6>2
          <6>3. CASE x \in ToSet(lt)
            <7>1. <<lh, x>> \in R /\ x \in Paths
              BY <3>4, <3>5, <3>6, <4>4, <6>3
            <7> QED
              BY <3>1, <5>3, <7>1 DEF Transitive
          <6> QED
            BY <3>4, <5>2, <5>4, <6>1, <6>2, <6>3
        <5> QED
          BY <3>1, <3>3, <4>1, <5>2, <5>4, HeadedInOrder
      <4> QED
        BY <4>3, <4>4 DEF Merged
    <3> QED
      BY <3>8, <3>9
  <2> QED
    BY <2>4, <2>5, <2>6
<1>2. \A p \in TwoLists :
        (\A q \in TwoLists : LenOfBoth[q] < LenOfBoth[p] => q \in T) => p \in T
  BY <1>1
<1> HIDE DEF T
<1>3. TwoLists \subseteq T
  BY <1>2, LenOfBothTyped, MeasureInduction
<1> SUFFICES ASSUME NEW l \in Seq(Paths), NEW r \in Seq(Paths)
             PROVE  Merged(R, mode, l, r, MergeTwoList(mode, l, r))
  OBVIOUS
<1>4. <<l, r>> \in TwoLists
  BY DEF TwoLists
<1>5. <<l, r>> \in T
  BY <1>3, <1>4
<1> QED
  BY <1>5 DEF T

LenOfList == [s \in Seq(Paths) |-> Len(s)]

FirstHalf(s)  == SubSeq(s, 1, Middle(s))
SecondHalf(s) == SubSeq(s, Middle(s) + 1, Len(s))

\* A list that the sort divides is its two halves, one after the other.
LEMMA Halves ==
  ASSUME NEW s \in Seq(Paths), ~(Len(s) <= 1)
  PROVE  /\ FirstHalf(s) \in Seq(Paths) /\ SecondHalf(s) \in Seq(Paths)
         /\ Len(FirstHalf(s)) = Middle(s) /\ Len(SecondHalf(s)) = Len(s) - Middle(s)
         /\ Middle(s) \in Nat /\ 0 < Middle(s) /\ Middle(s) < Len(s)
         /\ \A i \in 1 .. Middle(s) : FirstHalf(s)[i] = s[i]
         /\ \A i \in 1 .. Len(s) - Middle(s) : SecondHalf(s)[i] = s[Middle(s) + i]
<1> PICK n : n = Len(s)
  OBVIOUS
<1> PICK m : m = Middle(s)
  OBVIOUS
<1>1. n \in Nat /\ n > 1 /\ \A i \in 1 .. n : s[i] \in Paths
  BY LenProperties, ElementOfSeq
<1>2. m = (n + 1) \div 2
  BY DEF Middle
<1>3. m \in Nat /\ 0 < m /\ m < n
  <2>1. \A k \in Nat : k > 1 => LET h == (k + 1) \div 2 IN h \in Nat /\ 0 < h /\ h < k
    OBVIOUS
  <2> QED
    BY <1>1, <1>2, <2>1
<1> PICK f : f = SubSeq(s, 1, m)
  OBVIOUS
<1> PICK g : g = SubSeq(s, m + 1, n)
  OBVIOUS
<1>4. /\ f \in Seq(Paths) /\ Len(f) = m
      /\ \A i \in 1 .. m : f[i] = s[i]
  <2>1. 1 \in Int /\ m \in Int /\ \A i \in 1 .. m : s[i] \in Paths
    BY <1>1, <1>3
  <2>2. /\ f \in Seq(Paths) /\ Len(f) = IF 1 <= m THEN m - 1 + 1 ELSE 0
        /\ \A i \in 1 .. m - 1 + 1 : f[i] = s[1 + i - 1]
    BY <2>1, SubSeqProperties
  <2>3. /\ m - 1 + 1 = m /\ 1 <= m
        /\ \A i \in 1 .. m : 1 + i - 1 = i
    BY <1>3
  <2> QED
    BY <2>2, <2>3
<1>5. /\ g \in Seq(Paths) /\ Len(g) = n - m
      /\ \A i \in 1 .. n - m : g[i] = s[m + i]
  <2>1. m + 1 \in Int /\ n \in Int /\ \A i \in m + 1 .. n : s[i] \in Paths
    BY <1>1, <1>3
  <2>2. /\ g \in Seq(Paths) /\ Len(g) = IF m + 1 <= n THEN n - (m + 1) + 1 ELSE 0
        /\ \A i \in 1 .. n - (m + 1) + 1 : g[i] = s[(m + 1) + i - 1]
    BY <2>1, SubSeqProperties
  <2>3. /\ n - (m + 1) + 1 = n - m /\ m + 1 <= n
        /\ \A i \in 1 .. n - m : (m + 1) + i - 1 = m + i
    BY <1>1, <1>3
  <2> QED
    BY <2>2, <2>3
<1> QED
  BY <1>3, <1>4, <1>5 DEF FirstHalf, SecondHalf

\* Each half is shorter.
LEMMA HalvesShorter ==
  ASSUME NEW s \in Seq(Paths), ~(Len(s) <= 1)
  PROVE  /\ FirstHalf(s) \in Seq(Paths) /\ SecondHalf(s) \in Seq(Paths)
         /\ LenOfList[FirstHalf(s)] < LenOfList[s]
         /\ LenOfList[SecondHalf(s)] < LenOfList[s]
<1>1. /\ FirstHalf(s) \in Seq(Paths) /\ SecondHalf(s) \in Seq(Paths)
      /\ LenOfList[FirstHalf(s)] = Middle(s) /\ LenOfList[SecondHalf(s)] = Len(s) - Middle(s)
      /\ LenOfList[s] = Len(s)
  BY Halves DEF LenOfList
<1>2. Middle(s) \in Nat /\ 0 < Middle(s) /\ Middle(s) < Len(s) /\ Len(s) \in Nat
  BY Halves, LenProperties
<1>3. \A m, n \in Nat : 0 < m /\ m < n => n - m < n
  OBVIOUS
<1> QED
  BY <1>1, <1>2, <1>3

\* The measure of the sort is a natural number.
LEMMA LenOfListTyped == LenOfList \in [Seq(Paths) -> Nat]
  BY LenProperties DEF LenOfList

\* What the sort computes, for any list.
LEMMA SortDefined ==
  ASSUME NEW mode, NEW s \in Seq(Paths)
  PROVE  /\ SortList(mode, s) \in Seq(Paths)
         /\ SortList(mode, s) =
              IF mode = "none" \/ Len(s) <= 1 THEN s
              ELSE MergeTwoList(mode, SortList(mode, FirstHalf(s)),
                                      SortList(mode, SecondHalf(s)))
<1> DEFINE Body(f, x) == IF mode = "none" \/ Len(x) <= 1 THEN x
                         ELSE MergeTwoList(mode, f[FirstHalf(x)], f[SecondHalf(x)])
           S == Seq(Paths)
           F == [x \in S |-> [g \in [S -> S] |-> Body(g, x)]]
           M == CHOOSE f : f = [x \in S |-> Body(f, x)]
<1>1. \A x : SortList(mode, x) = M[x]
  BY DEF SortList, FirstHalf, SecondHalf
<1>2. ASSUME NEW x \in S, NEW g,
             \A y \in S : LenOfList[y] < LenOfList[x] => g[y] \in S
      PROVE  Body(g, x) \in S
  <2>1. CASE mode = "none" \/ Len(x) <= 1
    BY <2>1
  <2>2. CASE ~(mode = "none" \/ Len(x) <= 1)
    <3>1. g[FirstHalf(x)] \in S /\ g[SecondHalf(x)] \in S
      BY <1>2, <2>2, HalvesShorter
    <3>2. MergeTwoList(mode, g[FirstHalf(x)], g[SecondHalf(x)]) \in S
      BY <3>1, MergeDefined
    <3> QED
      BY <2>2, <3>2
  <2> QED
    BY <2>1, <2>2
<1>3. LenOfList \in [S -> Nat]
  BY LenOfListTyped
<1>4. IsRecursion(S, LenOfList, S, F)
  <2>1. <<>> \in S
    BY EmptySeq
  <2>2. F \in [S -> [[S -> S] -> S]]
    <3>1. \A x \in S : \A g \in [S -> S] : Body(g, x) \in S
      <4> TAKE x \in S
      <4> TAKE g \in [S -> S]
      <4>1. \A y \in S : g[y] \in S
        OBVIOUS
      <4> HIDE DEF Body, S
      <4> QED
        BY <1>2, <4>1
    <3> HIDE DEF Body, S
    <3> QED
      BY <3>1
  <2>3. ASSUME NEW x \in S, NEW g \in [S -> S], NEW h \in [S -> S],
               \A y \in S : LenOfList[y] < LenOfList[x] => g[y] = h[y]
        PROVE  F[x][g] = F[x][h]
    <3>1. Body(g, x) = Body(h, x)
      <4>1. CASE mode = "none" \/ Len(x) <= 1
        BY <4>1
      <4>2. CASE ~(mode = "none" \/ Len(x) <= 1)
        <5>1. g[FirstHalf(x)] = h[FirstHalf(x)] /\ g[SecondHalf(x)] = h[SecondHalf(x)]
          BY <2>3, <4>2, HalvesShorter
        <5> QED
          BY <5>1
      <4> QED
        BY <4>1, <4>2
    <3> HIDE DEF Body
    <3> QED
      BY <3>1
  <2> HIDE DEF S, F
  <2> QED
    BY <1>3, <2>1, <2>2, <2>3 DEF IsRecursion
<1>5. PICK f \in [S -> S] : \A x \in S : f[x] = F[x][f]
  <2> HIDE DEF S, F
  <2> QED
    BY <1>4, RecursionExists
<1> HIDE DEF Body
<1>6. f = [x \in S |-> Body(f, x)]
  BY <1>5
<1>7. M = [x \in S |-> Body(M, x)]
  BY <1>6
<1> HIDE DEF M
<1>8. \A x \in S : M[x] = Body(M, x)
  BY <1>7
<1> DEFINE T == {x \in S : M[x] \in S}
<1>9. ASSUME NEW x \in S, \A y \in S : LenOfList[y] < LenOfList[x] => y \in T
      PROVE  x \in T
  <2>1. \A y \in S : LenOfList[y] < LenOfList[x] => M[y] \in S
    BY <1>9
  <2>2. Body(M, x) \in S
    <3> HIDE DEF S
    <3> QED
      BY <1>2, <2>1
  <2> QED
    BY <1>8, <2>2
<1> HIDE DEF T
<1>10. S \subseteq T
  <2> HIDE DEF S
  <2> QED
    BY <1>3, <1>9, MeasureInduction
<1>11. s \in S
  OBVIOUS
<1>12. M[s] \in Seq(Paths)
  BY <1>10, <1>11 DEF T
<1>13. M[s] = Body(M, s)
  BY <1>8, <1>11
<1> QED
  BY <1>1, <1>12, <1>13 DEF Body

\* The places that w gives the elements rise along the list.
PlacesRise(w, s) == \A i, j \in DOMAIN s : i < j => w[s[i]] < w[s[j]]

\* The places rise in both halves, and from the first to the second.
LEMMA HalvesApart ==
  ASSUME NEW s \in Seq(Paths), ~(Len(s) <= 1), NEW w
  PROVE  /\ ToSet(s) = ToSet(FirstHalf(s)) \cup ToSet(SecondHalf(s))
         /\ PlacesRise(w, s) =>
              /\ PlacesRise(w, FirstHalf(s)) /\ PlacesRise(w, SecondHalf(s))
              /\ \A a \in ToSet(FirstHalf(s)), b \in ToSet(SecondHalf(s)) : w[a] < w[b]
<1> PICK n : n = Len(s)
  OBVIOUS
<1> PICK m : m = Middle(s)
  OBVIOUS
<1> PICK f : f = FirstHalf(s)
  OBVIOUS
<1> PICK g : g = SecondHalf(s)
  OBVIOUS
<1>1. /\ n \in Nat /\ m \in Nat /\ 0 < m /\ m < n
      /\ DOMAIN s = 1 .. n /\ DOMAIN f = 1 .. m /\ DOMAIN g = 1 .. n - m
      /\ \A i \in 1 .. m : f[i] = s[i]
      /\ \A i \in 1 .. n - m : g[i] = s[m + i]
  BY Halves, LenProperties
<1>2. /\ \A i \in 1 .. m : i \in 1 .. n /\ i \in Nat
      /\ \A i \in 1 .. n - m : m + i \in 1 .. n /\ i \in Nat
      /\ \A i \in 1 .. n : i \in 1 .. m \/ (i - m \in 1 .. n - m /\ m + (i - m) = i)
  BY <1>1
<1>3. ToSet(s) = ToSet(f) \cup ToSet(g)
  <2>1. \A i \in DOMAIN s : s[i] \in ToSet(f) \cup ToSet(g)
    <3> TAKE i \in DOMAIN s
    <3>1. CASE i \in 1 .. m
      BY <1>1, <3>1 DEF ToSet
    <3>2. CASE i - m \in 1 .. n - m /\ m + (i - m) = i
      <4>1. g[i - m] = s[i] /\ i - m \in DOMAIN g
        BY <1>1, <3>2
      <4> QED
        BY <4>1 DEF ToSet
    <3> QED
      BY <1>1, <1>2, <3>1, <3>2
  <2>2. (\A i \in DOMAIN f : f[i] \in ToSet(s)) /\ (\A i \in DOMAIN g : g[i] \in ToSet(s))
    BY <1>1, <1>2 DEF ToSet
  <2> QED
    BY <2>1, <2>2 DEF ToSet
<1>4. ASSUME PlacesRise(w, s)
      PROVE  /\ PlacesRise(w, f) /\ PlacesRise(w, g)
             /\ \A i \in 1 .. m, j \in 1 .. n - m : w[f[i]] < w[g[j]]
  <2>1. PlacesRise(w, f)
    BY <1>1, <1>2, <1>4 DEF PlacesRise
  <2>2. ASSUME NEW i \in 1 .. n - m, NEW j \in 1 .. n - m, i < j
        PROVE  w[g[i]] < w[g[j]]
    <3>1. m + i \in DOMAIN s /\ m + j \in DOMAIN s /\ m + i < m + j
      BY <1>1, <1>2, <2>2
    <3> QED
      BY <1>1, <1>4, <3>1 DEF PlacesRise
  <2>3. ASSUME NEW i \in 1 .. m, NEW j \in 1 .. n - m
        PROVE  w[f[i]] < w[g[j]]
    <3>1. i \in DOMAIN s /\ m + j \in DOMAIN s /\ i < m + j
      BY <1>1, <1>2
    <3> QED
      BY <1>1, <1>4, <3>1 DEF PlacesRise
  <2> QED
    BY <1>1, <2>1, <2>2, <2>3 DEF PlacesRise
<1>5. ASSUME PlacesRise(w, s), NEW a \in ToSet(f), NEW b \in ToSet(g)
      PROVE  w[a] < w[b]
  <2>1. PICK i \in DOMAIN f : a = f[i]
    BY DEF ToSet
  <2>2. PICK j \in DOMAIN g : b = g[j]
    BY DEF ToSet
  <2> QED
    BY <1>1, <1>4, <1>5, <2>1, <2>2
<1> QED
  BY <1>3, <1>4, <1>5

KeyOf(mode) == IF mode = "name" THEN Name ELSE Time

Known(mode) == mode \in {"name", "time"}

\* The order that the lists end up in, when w says where each entry was read.
SortOrder(mode, w) ==
  {p \in Paths \X Paths :
     IF Known(mode)
     THEN \/ KeyOf(mode)[p[1]] < KeyOf(mode)[p[2]]
          \/ KeyOf(mode)[p[1]] = KeyOf(mode)[p[2]] /\ w[p[1]] > w[p[2]]
     ELSE w[p[1]] < w[p[2]]}

\* The order of the sort is transitive, and decided as the merge compares.
LEMMA SortOrderIsOrder ==
  ASSUME NEW mode, NEW w \in [Paths -> Nat]
  PROVE  /\ Transitive(SortOrder(mode, w))
         /\ \A a, b \in Paths : w[a] < w[b] =>
              IF Less(mode, a, b) THEN <<a, b>> \in SortOrder(mode, w)
              ELSE <<b, a>> \in SortOrder(mode, w)
<1> PICK k : k = KeyOf(mode)
  OBVIOUS
<1>1. /\ k \in [Paths -> Nat]
      /\ \A a, b : Less(mode, a, b) <=> (Known(mode) => k[a] < k[b])
  BY PlatformFileAssumption DEF KeyOf, Less, Known
<1>2. \A a, b \in Paths : <<a, b>> \in SortOrder(mode, w) <=>
        IF Known(mode) THEN k[a] < k[b] \/ (k[a] = k[b] /\ w[a] > w[b]) ELSE w[a] < w[b]
  BY DEF SortOrder
<1>3. \A a \in Paths : k[a] \in Nat /\ w[a] \in Nat
  BY <1>1
<1>4. ASSUME NEW a \in Paths, NEW b \in Paths, NEW e \in Paths,
             <<a, b>> \in SortOrder(mode, w), <<b, e>> \in SortOrder(mode, w)
      PROVE  <<a, e>> \in SortOrder(mode, w)
  <2>1. CASE Known(mode)
    <3>1. /\ k[a] < k[b] \/ (k[a] = k[b] /\ w[a] > w[b])
          /\ k[b] < k[e] \/ (k[b] = k[e] /\ w[b] > w[e])
      BY <1>2, <1>4, <2>1
    <3>2. k[a] < k[e] \/ (k[a] = k[e] /\ w[a] > w[e])
      BY <1>3, <3>1
    <3> QED
      BY <1>2, <2>1, <3>2
  <2>2. CASE ~Known(mode)
    <3>1. w[a] < w[b] /\ w[b] < w[e]
      BY <1>2, <1>4, <2>2
    <3>2. w[a] < w[e]
      BY <1>3, <3>1
    <3> QED
      BY <1>2, <2>2, <3>2
  <2> QED
    BY <2>1, <2>2
<1>5. ASSUME NEW a \in Paths, NEW b \in Paths, w[a] < w[b]
      PROVE  IF Known(mode) => k[a] < k[b] THEN <<a, b>> \in SortOrder(mode, w)
             ELSE <<b, a>> \in SortOrder(mode, w)
  <2>1. k[a] < k[b] \/ k[b] < k[a] \/ (k[b] = k[a] /\ w[b] > w[a])
    BY <1>3, <1>5
  <2> QED
    BY <1>2, <1>5, <2>1
<1> QED
  BY <1>1, <1>4, <1>5 DEF Transitive

\* The sort loses nothing, and the list it makes is in order, when the places
\* are those of the list it is given.
LEMMA SortSorts ==
  ASSUME NEW mode, mode # "none", NEW w \in [Paths -> Nat]
  PROVE  \A s \in Seq(Paths) :
           LET t == SortList(mode, s)
           IN /\ ToSet(t) = ToSet(s) /\ Len(t) = Len(s)
              /\ PlacesRise(w, s) => InOrder(SortOrder(mode, w), t)
<1> PICK R : R = SortOrder(mode, w)
  OBVIOUS
<1> DEFINE Sorts(s, t) == /\ ToSet(t) = ToSet(s) /\ Len(t) = Len(s)
                          /\ PlacesRise(w, s) => InOrder(R, t)
           T == {s \in Seq(Paths) : Sorts(s, SortList(mode, s))}
<1>1. /\ Transitive(R)
      /\ \A a, b \in Paths : w[a] < w[b] =>
           IF Less(mode, a, b) THEN <<a, b>> \in R ELSE <<b, a>> \in R
  BY SortOrderIsOrder
<1>2. ASSUME NEW s \in Seq(Paths),
             \A x \in Seq(Paths) : LenOfList[x] < LenOfList[s] => x \in T
      PROVE  Sorts(s, SortList(mode, s))
  <2>1. CASE Len(s) <= 1
    <3>1. SortList(mode, s) = s
      BY <2>1, SortDefined
    <3>2. \A i, j \in DOMAIN s : ~(i < j)
      <4>1. DOMAIN s = 1 .. Len(s) /\ Len(s) \in Nat
        BY LenProperties
      <4> QED
        BY <2>1, <4>1
    <3> QED
      BY <3>1, <3>2 DEF InOrder
  <2>2. CASE ~(Len(s) <= 1)
    <3> PICK f : f = FirstHalf(s)
      OBVIOUS
    <3> PICK g : g = SecondHalf(s)
      OBVIOUS
    <3> PICK ff : ff = SortList(mode, f)
      OBVIOUS
    <3> PICK gg : gg = SortList(mode, g)
      OBVIOUS
    <3> PICK t : t = SortList(mode, s)
      OBVIOUS
    <3>1. f \in T /\ g \in T /\ f \in Seq(Paths) /\ g \in Seq(Paths)
      BY <1>2, <2>2, HalvesShorter
    <3>2. Sorts(f, ff) /\ Sorts(g, gg)
      BY <3>1
    <3> HIDE DEF T
    <3>3. /\ ff \in Seq(Paths) /\ gg \in Seq(Paths) /\ t = MergeTwoList(mode, ff, gg)
      BY <2>2, <3>1, SortDefined
    <3>4. Merged(R, mode, ff, gg, t)
      BY <1>1, <3>3, MergeSorts
    <3>5. /\ ToSet(s) = ToSet(f) \cup ToSet(g)
          /\ PlacesRise(w, s) => /\ PlacesRise(w, f) /\ PlacesRise(w, g)
                                 /\ \A a \in ToSet(f), b \in ToSet(g) : w[a] < w[b]
      BY <2>2, HalvesApart
    <3>6. Len(f) + Len(g) = Len(s)
      <4>1. /\ Len(f) = Middle(s) /\ Len(g) = Len(s) - Middle(s)
            /\ Middle(s) \in Nat /\ Len(s) \in Nat
        BY <2>2, Halves, LenProperties
      <4>2. \A i, j \in Nat : i + (j - i) = j
        OBVIOUS
      <4> QED
        BY <4>1, <4>2
    <3>7. ToSet(t) = ToSet(s) /\ Len(t) = Len(s)
      BY <3>2, <3>4, <3>5, <3>6 DEF Merged
    <3>8. ASSUME PlacesRise(w, s) PROVE InOrder(R, t)
      <4>1. InOrder(R, ff) /\ InOrder(R, gg)
        BY <3>2, <3>5, <3>8
      <4>2. ToSet(f) \subseteq Paths /\ ToSet(g) \subseteq Paths
        BY <3>1, ElementsArePaths
      <4>3. Compared(R, mode, ff, gg)
        BY <1>1, <3>2, <3>5, <3>8, <4>2 DEF Compared
      <4> QED
        BY <3>4, <4>1, <4>3 DEF Merged
    <3> QED
      BY <3>7, <3>8
  <2> QED
    BY <2>1, <2>2
<1> HIDE DEF Sorts
<1> DEFINE S == Seq(Paths)
<1>3. ASSUME NEW s \in S,
             \A x \in S : LenOfList[x] < LenOfList[s] => x \in T
      PROVE  s \in T
  BY <1>2, <1>3
<1>4. LenOfList \in [S -> Nat]
  BY LenOfListTyped
<1>5. S \subseteq T
  <2> HIDE DEF S, T
  <2> QED
    BY <1>3, <1>4, MeasureInduction
<1> HIDE DEF T
<1> QED
  BY <1>5 DEF T, Sorts

\* Numbers from 1 to n that rise n times are all of them.
LEMMA RisingIsAll ==
  ASSUME NEW n \in Nat, NEW v \in [1 .. n -> 1 .. n],
         \A i, j \in 1 .. n : i < j => v[i] < v[j]
  PROVE  \A i \in 1 .. n : v[i] = i
<1> DEFINE S == 1 .. n
<1>1. S \subseteq {i \in S : i <= v[i]}
  <2> DEFINE T == {i \in S : i <= v[i]}
             m == [i \in S |-> i]
  <2>1. ASSUME NEW i \in S, \A j \in S : m[j] < m[i] => j \in T
        PROVE  i \in T
    <3>1. CASE i = 1
      BY <3>1
    <3>2. CASE i # 1
      <4>1. i - 1 \in S /\ i - 1 < i
        BY <3>2
      <4>2. i - 1 <= v[i - 1] /\ v[i - 1] < v[i]
        BY <2>1, <4>1
      <4>3. v[i - 1] \in 1 .. n /\ v[i] \in 1 .. n
        BY <4>1
      <4> QED
        BY <4>1, <4>2, <4>3
    <3> QED
      BY <3>1, <3>2
  <2>2. m \in [S -> Nat]
    OBVIOUS
  <2> HIDE DEF S, T, m
  <2>3. S \subseteq T
    BY <2>1, <2>2, MeasureInduction
  <2> QED
    BY <2>3 DEF T
<1>2. S \subseteq {i \in S : v[i] <= i}
  <2> DEFINE T == {i \in S : v[i] <= i}
             m == [i \in S |-> n - i]
  <2>1. ASSUME NEW i \in S, \A j \in S : m[j] < m[i] => j \in T
        PROVE  i \in T
    <3>1. CASE i = n
      BY <3>1
    <3>2. CASE i # n
      <4>1. i + 1 \in S /\ n - (i + 1) < n - i
        BY <3>2
      <4>2. v[i + 1] <= i + 1 /\ v[i] < v[i + 1]
        BY <2>1, <4>1
      <4>3. v[i + 1] \in 1 .. n /\ v[i] \in 1 .. n
        BY <4>1
      <4> QED
        BY <4>1, <4>2, <4>3
    <3> QED
      BY <3>1, <3>2
  <2>2. m \in [S -> Nat]
    OBVIOUS
  <2> HIDE DEF S, T, m
  <2>3. S \subseteq T
    BY <2>1, <2>2, MeasureInduction
  <2> QED
    BY <2>3 DEF T
<1> QED
  BY <1>1, <1>2

\* The order that ListSorted states is that of the sort.
LEMMA SortedList ==
  ASSUME NEW mode, NEW before \in Seq(Paths), IsInjective(before)
  PROVE  ListSorted(mode, before, SortList(mode, before))
<1> PICK t : t = SortList(mode, before)
  OBVIOUS
<1> DEFINE Place(e) == CHOOSE i \in DOMAIN before : before[i] = e
           w == [e \in Paths |-> IF e \in ToSet(before) THEN Place(e) ELSE 0]
<1>1. DOMAIN before = 1 .. Len(before) /\ Len(before) \in Nat
  BY LenProperties
<1>2. \A e \in ToSet(before) : Place(e) \in DOMAIN before /\ before[Place(e)] = e
  BY DEF ToSet
<1>3. \A i \in DOMAIN before : Place(before[i]) = i /\ before[i] \in ToSet(before)
  BY <1>2 DEF ToSet, IsInjective
<1> HIDE DEF Place
<1>4. w \in [Paths -> Nat]
  <2>1. \A e \in ToSet(before) : Place(e) \in Nat
    BY <1>1, <1>2
  <2> QED
    BY <2>1
<1>5. ToSet(before) \subseteq Paths
  BY ElementsArePaths
<1>6. \A e \in ToSet(before) : w[e] = Place(e)
  BY <1>5
<1> HIDE DEF w
<1>7. PlacesRise(w, before)
  BY <1>3, <1>6 DEF PlacesRise
<1>8. ASSUME mode # "none"
      PROVE  /\ ToSet(t) = ToSet(before) /\ Len(t) = Len(before)
             /\ InOrder(SortOrder(mode, w), t)
  BY <1>4, <1>7, <1>8, SortSorts
<1>9. mode \notin {"name", "time"} => t = before
  <2>1. CASE mode = "none"
    BY <2>1, SortDefined
  <2>2. ASSUME mode # "none", ~Known(mode)
        PROVE  t = before
    <3> PICK n : n = Len(before)
      OBVIOUS
    <3> DEFINE v == [i \in 1 .. n |-> Place(t[i])]
    <3>1. t \in Seq(Paths) /\ Len(t) = n /\ n \in Nat /\ DOMAIN t = 1 .. n
      BY <1>1, <1>8, <2>2, SortDefined, LenProperties
    <3>2. \A i \in 1 .. n : t[i] \in ToSet(before)
      BY <1>8, <2>2, <3>1 DEF ToSet
    <3>3. \A i \in 1 .. n : /\ Place(t[i]) \in 1 .. n /\ before[Place(t[i])] = t[i]
                            /\ w[t[i]] = Place(t[i])
      BY <1>1, <1>2, <1>6, <3>2
    <3>4. \A i, j \in 1 .. n : i < j => Place(t[i]) < Place(t[j])
      <4> TAKE i, j \in 1 .. n
      <4> HAVE i < j
      <4>1. <<t[i], t[j]>> \in SortOrder(mode, w)
        BY <1>8, <2>2, <3>1 DEF InOrder
      <4> QED
        BY <2>2, <3>3, <4>1 DEF SortOrder
    <3>5. v \in [1 .. n -> 1 .. n] /\ \A i, j \in 1 .. n : i < j => v[i] < v[j]
      BY <3>3, <3>4
    <3>6. \A i \in 1 .. n : v[i] = Place(t[i])
      OBVIOUS
    <3> HIDE DEF v
    <3>7. \A i \in 1 .. n : v[i] = i
      BY ONLY <3>1, <3>5, RisingIsAll
    <3>8. \A i \in 1 .. n : t[i] = before[i]
      BY <3>3, <3>6, <3>7
    <3> QED
      BY <3>1, <3>8, SeqEqual
  <2> QED
    BY <2>1, <2>2 DEF Known
<1>10. ASSUME Known(mode), NEW i \in DOMAIN t, NEW j \in DOMAIN t, i < j
       PROVE  \/ KeyOf(mode)[t[i]] < KeyOf(mode)[t[j]]
              \/ KeyOf(mode)[t[i]] = KeyOf(mode)[t[j]] /\ Place(t[i]) > Place(t[j])
  <2>1. <<t[i], t[j]>> \in SortOrder(mode, w)
    BY <1>8, <1>10 DEF InOrder, Known
  <2>2. t[i] \in ToSet(before) /\ t[j] \in ToSet(before)
    BY <1>8, <1>10 DEF ToSet, Known
  <2>3. w[t[i]] = Place(t[i]) /\ w[t[j]] = Place(t[j])
    BY <1>6, <2>2
  <2> QED
    BY <1>10, <2>1, <2>3 DEF SortOrder
<1>11. \A e : (IF mode = "name" THEN Name[e] ELSE Time[e]) = KeyOf(mode)[e]
  BY DEF KeyOf
<1>12. ToSet(t) = ToSet(before) /\ Len(t) = Len(before)
  BY <1>8, <1>9
<1>13. Known(mode) => \A i, j \in DOMAIN t :
         i < j => \/ KeyOf(mode)[t[i]] < KeyOf(mode)[t[j]]
                  \/ KeyOf(mode)[t[i]] = KeyOf(mode)[t[j]] /\ Place(t[i]) > Place(t[j])
  BY <1>10
<1> DEFINE Key(e) == IF mode = "name" THEN Name[e] ELSE Time[e]
<1>14. Known(mode) => \A i, j \in DOMAIN t :
         i < j => \/ Key(t[i]) < Key(t[j])
                  \/ Key(t[i]) = Key(t[j]) /\ Place(t[i]) > Place(t[j])
  <2> HIDE DEF Key
  <2>1. \A e : Key(e) = KeyOf(mode)[e]
    BY <1>11 DEF Key
  <2> QED
    BY <1>13, <2>1
<1>15. ListSorted(mode, before, t)
  BY <1>9, <1>12, <1>14 DEF ListSorted, Place, Known
<1> QED
  BY <1>15
-----------------------------------------------------------------------------
(* The nodes that can be reached from the list that is returned. *)

\* A list is its head and a tail that is shorter.
LEMMA HeadAndTailTyped ==
  ASSUME NEW S, NEW s \in Seq(S), s # <<>>
  PROVE  /\ Head(s) \in S /\ Tail(s) \in Seq(S)
         /\ Len(s) \in Nat /\ Len(Tail(s)) \in Nat /\ Len(Tail(s)) < Len(s) /\ 0 < Len(s)
         /\ ToSet(s) = {Head(s)} \cup ToSet(Tail(s))
         /\ IsInjective(s) => IsInjective(Tail(s)) /\ Head(s) \notin ToSet(Tail(s))
<1> PICK t : t = Tail(s)
  OBVIOUS
<1>1. t \in Seq(S) /\ Len(t) = Len(s) - 1 /\ Len(s) \in Nat \ {0} /\ Len(t) \in Nat
  BY HeadTailProperties, EmptySeq, LenProperties
<1>2. /\ Head(s) = s[1] /\ Head(s) \in S /\ 1 \in DOMAIN s
      /\ \A i \in DOMAIN t : i + 1 \in DOMAIN s /\ t[i] = s[i + 1] /\ i \in Nat \ {0}
      /\ ToSet(s) = {Head(s)} \cup ToSet(t)
  BY HeadAndTail
<1>3. \A i, j \in Nat \ {0} : i + 1 = j + 1 => i = j
  OBVIOUS
<1>4. ASSUME IsInjective(s) PROVE IsInjective(t) /\ Head(s) \notin ToSet(t)
  <2>1. ASSUME NEW i \in DOMAIN t, NEW j \in DOMAIN t, t[i] = t[j]
        PROVE  i = j
    <3>1. s[i + 1] = s[j + 1] /\ i + 1 \in DOMAIN s /\ j + 1 \in DOMAIN s
      BY <1>2, <2>1
    <3>2. i + 1 = j + 1
      BY <1>4, <3>1 DEF IsInjective
    <3> QED
      BY <1>2, <1>3, <3>2
  <2>2. ASSUME NEW i \in DOMAIN t, t[i] = Head(s)
        PROVE  FALSE
    <3>1. s[i + 1] = s[1] /\ i + 1 \in DOMAIN s /\ i \in Nat \ {0}
      BY <1>2, <2>2
    <3>2. i + 1 = 1
      BY <1>2, <1>4, <3>1 DEF IsInjective
    <3> QED
      BY <3>1, <3>2
  <2>3. IsInjective(t)
    BY <2>1 DEF IsInjective
  <2> QED
    BY <2>2, <2>3 DEF ToSet
<1> QED
  BY <1>1, <1>2, <1>4

\* Nothing is in the empty list.
LEMMA NoElements == ToSet(<<>>) = {}
  BY DEF ToSet

\* What follows a list, the list ch of its head and its tail, has a smaller measure.
Shrinks(N, ch, m) ==
  /\ \A x \in N : ch[x] \in Seq(N)
  /\ m \in [Seq(N) -> Nat]
  /\ \A s \in Seq(N) : s # <<>> => m[ch[Head(s)]] < m[s] /\ m[Tail(s)] < m[s]

\* G makes a value of V of a node and two of them.
Combines(N, V, z, G) == z \in V /\ \A x \in N : \A a, b \in V : G[<<x, a, b>>] \in V

\* A recursion over a list of nodes that goes into the list of its head, and into
\* its tail.
LEMMA ListRecursion ==
  ASSUME NEW N, NEW ch, NEW m, Shrinks(N, ch, m),
         NEW V, NEW z, NEW G, Combines(N, V, z, G)
  PROVE  \E f \in [Seq(N) -> V] : \A s \in Seq(N) :
           f[s] = IF s = <<>> THEN z ELSE G[<<Head(s), f[ch[Head(s)]], f[Tail(s)]>>]
<1> DEFINE Body(f, s) == IF s = <<>> THEN z
                         ELSE G[<<Head(s), f[ch[Head(s)]], f[Tail(s)]>>]
           S == Seq(N)
           F == [s \in S |-> [g \in [S -> V] |-> Body(g, s)]]
<1> USE DEF Shrinks, Combines
<1>1. ASSUME NEW s \in S, s # <<>>
      PROVE  Head(s) \in N /\ ch[Head(s)] \in S /\ Tail(s) \in S
  BY <1>1, HeadAndTailTyped
<1>2. IsRecursion(S, m, V, F)
  <2>1. F \in [S -> [[S -> V] -> V]]
    <3>1. ASSUME NEW s \in S, NEW g \in [S -> V] PROVE Body(g, s) \in V
      <4>1. CASE s = <<>>
        BY <4>1
      <4>2. CASE s # <<>>
        <5>1. Head(s) \in N /\ g[ch[Head(s)]] \in V /\ g[Tail(s)] \in V
          BY <1>1, <4>2
        <5> QED
          BY <4>2, <5>1
      <4> QED
        BY <4>1, <4>2
    <3> HIDE DEF Body, S
    <3> QED
      BY <3>1
  <2>2. ASSUME NEW s \in S, NEW g \in [S -> V], NEW h \in [S -> V],
               \A y \in S : m[y] < m[s] => g[y] = h[y]
        PROVE  F[s][g] = F[s][h]
    <3>1. Body(g, s) = Body(h, s)
      <4>1. CASE s = <<>>
        BY <4>1
      <4>2. CASE s # <<>>
        <5>1. g[ch[Head(s)]] = h[ch[Head(s)]] /\ g[Tail(s)] = h[Tail(s)]
          BY <1>1, <2>2, <4>2
        <5> QED
          BY <5>1
      <4> QED
        BY <4>1, <4>2
    <3> HIDE DEF Body
    <3> QED
      BY <3>1
  <2> HIDE DEF S, F
  <2> QED
    BY <2>1, <2>2 DEF IsRecursion, S
<1>3. PICK f \in [S -> V] : \A s \in S : f[s] = F[s][f]
  <2> HIDE DEF S, F
  <2> QED
    BY <1>2, RecursionExists
<1>4. \A s \in S : f[s] = Body(f, s)
  <2> HIDE DEF Body
  <2> QED
    BY <1>3
<1> QED
  BY <1>4

\* The weights of the elements of a list, summed up.
LEMMA ListWeight ==
  ASSUME NEW N, IsFiniteSet(N), NEW w \in [N -> Nat]
  PROVE  \E m \in [Seq(N) -> Nat] :
           /\ \A s \in Seq(N) : m[s] = IF s = <<>> THEN 0 ELSE w[Head(s)] + m[Tail(s)]
           /\ \A s \in Seq(N) : IsInjective(s) => m[s] = Sum(w, ToSet(s))
<1> DEFINE ch == [x \in N |-> <<>>]
           len == [s \in Seq(N) |-> Len(s)]
           G == [q \in N \X Nat \X Nat |-> w[q[1]] + q[3]]
<1> PICK S : S = Seq(N)
  OBVIOUS
<1>1. len \in [S -> Nat]
  BY LenProperties
<1>2. ASSUME NEW s \in S, s # <<>>
      PROVE  len[ch[Head(s)]] < len[s] /\ len[Tail(s)] < len[s]
  <2>1. /\ Head(s) \in N /\ Tail(s) \in S /\ Len(Tail(s)) < Len(s) /\ 0 < Len(s)
        /\ <<>> \in S /\ Len(<<>>) = 0
    BY <1>2, HeadAndTailTyped, EmptySeq
  <2> QED
    BY <2>1
<1>3. \A x \in N : \A a, b \in Nat : G[<<x, a, b>>] \in Nat /\ G[<<x, a, b>>] = w[x] + b
  OBVIOUS
<1>4. \A x \in N : ch[x] \in S
  BY EmptySeq
<1> HIDE DEF ch, len, G
<1>5. PICK m \in [S -> Nat] : \A s \in S :
        m[s] = IF s = <<>> THEN 0 ELSE G[<<Head(s), m[ch[Head(s)]], m[Tail(s)]>>]
  <2>1. \A s \in Seq(N) : s # <<>> => len[ch[Head(s)]] < len[s] /\ len[Tail(s)] < len[s]
    BY <1>2
  <2>2. Shrinks(N, ch, len) /\ Combines(N, Nat, 0, G)
    BY <1>1, <1>3, <1>4, <2>1 DEF Shrinks, Combines
  <2>3. \E m \in [Seq(N) -> Nat] : \A s \in Seq(N) :
          m[s] = IF s = <<>> THEN 0 ELSE G[<<Head(s), m[ch[Head(s)]], m[Tail(s)]>>]
    BY ONLY <2>2, ListRecursion
  <2> QED
    BY <2>3
<1>6. \A s \in S : m[s] = IF s = <<>> THEN 0 ELSE w[Head(s)] + m[Tail(s)]
  <2> TAKE s \in S
  <2>1. CASE s = <<>>
    BY <1>5, <2>1
  <2>2. CASE s # <<>>
    <3>1. Head(s) \in N /\ Tail(s) \in S /\ ch[Head(s)] \in S
      BY <1>4, <2>2, HeadAndTailTyped
    <3>2. m[ch[Head(s)]] \in Nat /\ m[Tail(s)] \in Nat
      BY <3>1
    <3> QED
      BY <1>3, <1>5, <2>2, <3>1, <3>2
  <2> QED
    BY <2>1, <2>2
<1> DEFINE T == {s \in S : IsInjective(s) => m[s] = Sum(w, ToSet(s))}
<1>7. ASSUME NEW s \in S, \A y \in S : len[y] < len[s] => y \in T, IsInjective(s)
      PROVE  m[s] = Sum(w, ToSet(s))
  <2>1. CASE s = <<>>
    <3>1. ToSet(s) = {} /\ m[s] = 0
      BY <1>6, <2>1, NoElements
    <3> QED
      BY <3>1, SumOfNone
  <2>2. CASE s # <<>>
    <3> PICK h : h = Head(s)
      OBVIOUS
    <3> PICK t : t = Tail(s)
      OBVIOUS
    <3>1. /\ h \in N /\ t \in S /\ ToSet(s) = {h} \cup ToSet(t)
          /\ IsInjective(t) /\ h \notin ToSet(t)
      BY <1>7, <2>2, HeadAndTailTyped
    <3>2. t \in T
      BY <1>2, <1>7, <2>2, <3>1
    <3>3. m[t] = Sum(w, ToSet(t)) /\ m[s] = w[h] + m[t]
      BY <1>6, <2>2, <3>1, <3>2
    <3>4. ToSet(t) \subseteq N
      BY <3>1, LenProperties, ElementOfSeq DEF ToSet
    <3>5. /\ IsFiniteSet({h}) /\ IsFiniteSet(ToSet(t)) /\ {h} \cap ToSet(t) = {}
          /\ \A x \in {h} \cup ToSet(t) : w[x] \in Nat
      BY <3>1, <3>4, FS_Subset, FS_Singleton
    <3>6. Sum(w, {h} \cup ToSet(t)) = Sum(w, {h}) + Sum(w, ToSet(t))
      BY <3>5, SumOfUnion
    <3>7. Sum(w, {h}) = w[h]
      BY <3>5, SumOfOne
    <3> QED
      BY <3>1, <3>3, <3>6, <3>7
  <2> QED
    BY <2>1, <2>2
<1>8. \A s \in S : (\A y \in S : len[y] < len[s] => y \in T) => s \in T
  BY <1>7
<1> HIDE DEF T
<1>9. S \subseteq T
  BY ONLY <1>1, <1>8, MeasureInduction
<1> QED
  BY <1>6, <1>9 DEF T

\* Two lists, one after the other.
LEMMA ListsJoined ==
  ASSUME NEW S, NEW a \in Seq(S), NEW b \in Seq(S)
  PROVE  /\ a \o b \in Seq(S) /\ ToSet(a \o b) = ToSet(a) \cup ToSet(b)
         /\ IsInjective(a) /\ IsInjective(b) /\ ToSet(a) \cap ToSet(b) = {} => IsInjective(a \o b)
<1> PICK u : u = a \o b
  OBVIOUS
<1> PICK k : k = Len(a)
  OBVIOUS
<1> PICK n : n = Len(b)
  OBVIOUS
<1>1. /\ k \in Nat /\ n \in Nat /\ DOMAIN a = 1 .. k /\ DOMAIN b = 1 .. n
      /\ u \in Seq(S) /\ DOMAIN u = 1 .. k + n
      /\ \A i \in 1 .. k + n : u[i] = IF i <= k THEN a[i] ELSE b[i - k]
  BY ConcatProperties, LenProperties
<1>2. /\ \A i \in 1 .. k : i \in 1 .. k + n /\ i <= k
      /\ \A i \in 1 .. n : k + i \in 1 .. k + n /\ ~(k + i <= k) /\ (k + i) - k = i
      /\ \A i \in 1 .. k + n : IF i <= k THEN i \in 1 .. k ELSE i - k \in 1 .. n
      /\ \A i, j \in 1 .. k + n : i - k = j - k => i = j
  BY <1>1
<1>3. ToSet(u) = ToSet(a) \cup ToSet(b)
  <2>1. ASSUME NEW i \in DOMAIN u PROVE u[i] \in ToSet(a) \cup ToSet(b)
    <3>1. CASE i <= k
      <4>1. i \in DOMAIN a /\ u[i] = a[i]
        BY <1>1, <1>2, <3>1
      <4> QED
        BY <4>1 DEF ToSet
    <3>2. CASE ~(i <= k)
      <4>1. i - k \in DOMAIN b /\ u[i] = b[i - k]
        BY <1>1, <1>2, <3>2
      <4> QED
        BY <4>1 DEF ToSet
    <3> QED
      BY <3>1, <3>2
  <2>2. ASSUME NEW i \in DOMAIN a PROVE a[i] \in ToSet(u)
    <3>1. u[i] = a[i] /\ i \in DOMAIN u
      BY <1>1, <1>2
    <3> QED
      BY <3>1 DEF ToSet
  <2>3. ASSUME NEW i \in DOMAIN b PROVE b[i] \in ToSet(u)
    <3>1. u[k + i] = b[i] /\ k + i \in DOMAIN u
      BY <1>1, <1>2
    <3> QED
      BY <3>1 DEF ToSet
  <2>4. \A s, x : x \in ToSet(s) <=> \E i \in DOMAIN s : s[i] = x
    BY DEF ToSet
  <2>5. \A x \in ToSet(u) : x \in ToSet(a) \cup ToSet(b)
    <3> SUFFICES ASSUME NEW x \in ToSet(u) PROVE x \in ToSet(a) \cup ToSet(b)
      OBVIOUS
    <3> PICK i \in DOMAIN u : u[i] = x
      BY <2>4
    <3> QED
      BY <2>1
  <2>6. \A x \in ToSet(a) \cup ToSet(b) : x \in ToSet(u)
    BY <2>2, <2>3, <2>4
  <2> QED
    BY <2>5, <2>6
<1>4. ASSUME IsInjective(a), IsInjective(b), ToSet(a) \cap ToSet(b) = {},
             NEW i \in 1 .. k + n, NEW j \in 1 .. k + n, u[i] = u[j]
      PROVE  i = j
  <2>1. ASSUME NEW l \in 1 .. k + n
        PROVE  /\ l <= k => l \in DOMAIN a /\ u[l] = a[l] /\ u[l] \in ToSet(a)
               /\ ~(l <= k) => l - k \in DOMAIN b /\ u[l] = b[l - k] /\ u[l] \in ToSet(b)
    <3>1. CASE l <= k
      <4>1. l \in DOMAIN a /\ u[l] = a[l]
        BY <1>1, <1>2, <3>1
      <4> QED
        BY <3>1, <4>1 DEF ToSet
    <3>2. CASE ~(l <= k)
      <4>1. l - k \in DOMAIN b /\ u[l] = b[l - k]
        BY <1>1, <1>2, <3>2
      <4> QED
        BY <3>2, <4>1 DEF ToSet
    <3> QED
      BY <3>1, <3>2
  <2>2. i <= k <=> j <= k
    BY <1>4, <2>1
  <2>3. CASE i <= k
    BY <1>4, <2>1, <2>2, <2>3 DEF IsInjective
  <2>4. CASE ~(i <= k)
    <3>1. i - k = j - k
      <4>1. i - k \in DOMAIN b /\ u[i] = b[i - k]
        BY <2>1, <2>4
      <4>2. j - k \in DOMAIN b /\ u[j] = b[j - k]
        BY <2>1, <2>2, <2>4
      <4> QED
        BY <1>4, <4>1, <4>2 DEF IsInjective
    <3> QED
      BY <1>2, <3>1
  <2> QED
    BY <2>3, <2>4
<1> QED
  BY <1>1, <1>3, <1>4 DEF IsInjective

\* The nodes N below the path p, with the list ch of each of them, and that of
\* Top, which is the one that is returned.
Forest(p, N, ch) ==
  /\ Rooted(p, N) /\ DOMAIN ch = N \cup {Top}
  /\ \A d \in N \cup {Top} :
       /\ ch[d] \in Seq(N) /\ IsInjective(ch[d])
       /\ ToSet(ch[d]) = N \cap (IF d = Top THEN {p} ELSE ChildrenOf(d))

\* What a forest says of its nodes and their lists.
LEMMA ForestTyped ==
  ASSUME NEW p, NEW N, NEW ch, Forest(p, N, ch)
  PROVE  /\ p \in Paths /\ N \subseteq Under(p) /\ N \subseteq Paths /\ IsFiniteSet(N)
         /\ Top \notin N /\ DOMAIN ch \ {Top} = N
         /\ \A d \in N : /\ ch[d] \in Seq(N) /\ IsInjective(ch[d])
                         /\ ToSet(ch[d]) = N \cap ChildrenOf(d)
         /\ ch[Top] \in Seq(N) /\ IsInjective(ch[Top]) /\ ToSet(ch[Top]) = N \cap {p}
<1>1. p \in Paths /\ N \subseteq Under(p) /\ N \subseteq Paths /\ Top \notin Paths
  BY PlatformFileAssumption DEF Forest, Rooted, Under
<1>2. IsFiniteSet(N)
  BY <1>1, PlatformFileAssumption, FS_Subset
<1> QED
  BY <1>1, <1>2 DEF Forest

\* A list weighs as many nodes as there are in it and below.
LEMMA ForestShrinks ==
  ASSUME NEW p, NEW N, NEW ch, Forest(p, N, ch)
  PROVE  \E m : Shrinks(N, ch, m)
<1> PICK one : one = [x \in N |-> 1]
  OBVIOUS
<1> PICK w : w = [x \in N |-> Sum(one, N \cap Under(x))]
  OBVIOUS
<1>1. /\ IsFiniteSet(N) /\ Rooted(p, N)
      /\ \A d \in N : /\ ch[d] \in Seq(N) /\ IsInjective(ch[d])
                      /\ ToSet(ch[d]) = N \cap ChildrenOf(d)
  <2>1. Rooted(p, N)
    BY DEF Forest
  <2> QED
    BY <2>1, ForestTyped
<1>2. \A x \in N : one[x] = 1 /\ one[x] \in Nat
  OBVIOUS
<1>3. w \in [N -> Nat]
  <2>1. ASSUME NEW x \in N PROVE Sum(one, N \cap Under(x)) \in Nat
    <3>1. IsFiniteSet(N \cap Under(x)) /\ \A y \in N \cap Under(x) : one[y] \in Nat
      BY <1>1, <1>2, FS_Subset
    <3> QED
      BY <3>1, SumTyped
  <2> QED
    BY <2>1
<1>4. PICK m \in [Seq(N) -> Nat] :
        /\ \A s \in Seq(N) : m[s] = IF s = <<>> THEN 0 ELSE w[Head(s)] + m[Tail(s)]
        /\ \A s \in Seq(N) : IsInjective(s) => m[s] = Sum(w, ToSet(s))
  <2>1. IsFiniteSet(N) /\ w \in [N -> Nat]
    BY <1>1, <1>3
  <2> QED
    BY ONLY <2>1, ListWeight
<1>5. ASSUME NEW d \in N
      PROVE  1 + m[ch[d]] = w[d]
  <2>1. m[ch[d]] = Sum(w, N \cap ChildrenOf(d))
    BY <1>1, <1>4
  <2>2. \A e \in N \cap ChildrenOf(d) : w[e] = Sum(one, N \cap Under(e))
    OBVIOUS
  <2>3. one[d] + Sum(w, N \cap ChildrenOf(d)) = Sum(one, N \cap Under(d))
    <3>1. IsFiniteSet(N) /\ Rooted(p, N) /\ \A x \in N : one[x] \in Nat
      BY <1>1, <1>2
    <3> QED
      BY ONLY <2>2, <3>1, SumBelow, d \in N
  <2> QED
    BY <1>2, <2>1, <2>3
<1>6. ASSUME NEW s \in Seq(N), s # <<>>
      PROVE  m[ch[Head(s)]] < m[s] /\ m[Tail(s)] < m[s]
  <2> PICK h : h = Head(s)
    OBVIOUS
  <2> PICK t : t = Tail(s)
    OBVIOUS
  <2>1. h \in N /\ t \in Seq(N) /\ ch[h] \in Seq(N)
    BY <1>1, <1>6, HeadAndTailTyped
  <2>2. m[s] = w[h] + m[t] /\ 1 + m[ch[h]] = w[h] /\ m[t] \in Nat /\ m[ch[h]] \in Nat
    BY <1>4, <1>5, <1>6, <2>1
  <2>3. \A i, j \in Nat : i < (1 + i) + j /\ j < (1 + i) + j
    OBVIOUS
  <2> QED
    BY <2>2, <2>3
<1> QED
  BY <1>1, <1>6 DEF Shrinks

\* What FreeFileInfo computes, for any list of nodes.
LEMMA FreedDefined ==
  ASSUME NEW p, NEW N, NEW ch, Forest(p, N, ch)
  PROVE  \E f \in [Seq(N) -> Seq(N)] :
           /\ FreedNodes(ch) = f[ch[Top]]
           /\ \A s \in Seq(N) :
                f[s] = IF s = <<>> THEN <<>>
                       ELSE Append(f[ch[Head(s)]] \o f[Tail(s)], Head(s))
<1> DEFINE S == Seq(N)
           Body(f, s) == IF s = <<>> THEN <<>>
                         ELSE Append(f[ch[Head(s)]] \o f[Tail(s)], Head(s))
           M == CHOOSE f : f = [s \in S |-> Body(f, s)]
           G == [q \in N \X S \X S |-> Append(q[2] \o q[3], q[1])]
<1>1. FreedNodes(ch) = M[ch[Top]]
  <2>1. DOMAIN ch \ {Top} = N
    BY ForestTyped
  <2> QED
    BY <2>1 DEF FreedNodes
<1>2. PICK m : Shrinks(N, ch, m)
  BY ForestShrinks
<1>3. \A x \in N : \A a, b \in S : G[<<x, a, b>>] = Append(a \o b, x)
  OBVIOUS
<1> HIDE DEF G
<1>4. /\ <<>> \in S
      /\ \A x \in N : \A a, b \in S : Append(a \o b, x) \in S
  <2>1. ASSUME NEW x \in N, NEW a \in S, NEW b \in S PROVE Append(a \o b, x) \in S
    <3>1. a \o b \in S
      BY ListsJoined
    <3> QED
      BY <3>1, AppendProperties
  <2>2. <<>> \in S
    BY EmptySeq
  <2> QED
    BY <2>1, <2>2
<1>5. PICK f \in [S -> S] : \A s \in S :
        f[s] = IF s = <<>> THEN <<>> ELSE G[<<Head(s), f[ch[Head(s)]], f[Tail(s)]>>]
  <2>1. Combines(N, S, <<>>, G)
    <3> HIDE DEF S
    <3> QED
      BY <1>3, <1>4 DEF Combines
  <2> QED
    BY <1>2, <2>1, ListRecursion
<1>6. \A s \in S : f[s] = Body(f, s)
  <2> TAKE s \in S
  <2>1. CASE s = <<>>
    BY <1>5, <2>1
  <2>2. CASE s # <<>>
    <3>1. Head(s) \in N /\ Tail(s) \in S /\ ch[Head(s)] \in S
      BY <2>2, ForestTyped, HeadAndTailTyped
    <3>2. f[ch[Head(s)]] \in S /\ f[Tail(s)] \in S
      BY <3>1
    <3> QED
      BY <1>3, <1>5, <2>2, <3>1, <3>2
  <2> QED
    BY <2>1, <2>2
<1> HIDE DEF Body
<1>7. f = [s \in S |-> Body(f, s)]
  BY <1>6
<1>8. M = [s \in S |-> Body(M, s)]
  BY <1>7
<1> HIDE DEF M
<1>9. \A s \in S : M[s] = Body(M, s)
  BY <1>8
<1>10. ASSUME NEW s \in S, \A y \in S : m[y] < m[s] => M[y] \in S
       PROVE  M[s] \in S
  <2>1. CASE s = <<>>
    <3>1. M[s] = <<>>
      BY <1>9, <2>1 DEF Body
    <3> QED
      BY <1>4, <3>1
  <2>2. CASE s # <<>>
    <3>1. /\ Head(s) \in N /\ Tail(s) \in S /\ ch[Head(s)] \in S
          /\ m[ch[Head(s)]] < m[s] /\ m[Tail(s)] < m[s]
      BY <1>2, <2>2, HeadAndTailTyped DEF Shrinks
    <3>2. M[ch[Head(s)]] \in S /\ M[Tail(s)] \in S
      BY <1>10, <3>1
    <3>3. M[s] = Append(M[ch[Head(s)]] \o M[Tail(s)], Head(s))
      BY <1>9, <2>2 DEF Body
    <3> HIDE DEF S
    <3> QED
      BY <1>4, <3>1, <3>2, <3>3
  <2> QED
    BY <2>1, <2>2
<1> DEFINE T == {s \in S : M[s] \in S}
<1>11. S \subseteq T
  <2>1. m \in [S -> Nat]
    BY <1>2 DEF Shrinks
  <2>2. \A s \in S : (\A y \in S : m[y] < m[s] => y \in T) => s \in T
    <3> HIDE DEF S
    <3> QED
      BY <1>10
  <2> HIDE DEF T, S
  <2> QED
    BY <2>1, <2>2, MeasureInduction
<1>12. M \in [S -> S]
  <2> HIDE DEF S
  <2> QED
    BY <1>8, <1>9, <1>11
<1> QED
  BY <1>1, <1>9, <1>12 DEF Body

\* The nodes in a list and below.
Below(N, s) == UNION {N \cap Under(x) : x \in ToSet(s)}

\* A list of different entries of one directory.
OfOneDir(s) == IsInjective(s) /\ \A a, b \in ToSet(s) : Parent[a] = Parent[b]

\* Of the list s, the head h and the tail t.
HeadedBelow(N, ch, s, h, t) ==
  /\ h \in N /\ t \in Seq(N) /\ ch[h] \in Seq(N) /\ OfOneDir(ch[h])
  /\ Below(N, s) = {h} \cup Below(N, ch[h]) \cup Below(N, t)
  /\ h \notin Below(N, ch[h])
  /\ OfOneDir(s) => OfOneDir(t) /\ ({h} \cup Below(N, ch[h])) \cap Below(N, t) = {}

\* What is below a list is its head, what is below that, and below the tail.
LEMMA BelowHead ==
  ASSUME NEW p, NEW N, NEW ch, Forest(p, N, ch), NEW s \in Seq(N), s # <<>>,
         NEW h, h = Head(s), NEW t, t = Tail(s)
  PROVE  HeadedBelow(N, ch, s, h, t)
<1>1. /\ h \in N /\ t \in Seq(N) /\ ToSet(s) = {h} \cup ToSet(t)
      /\ IsInjective(s) => IsInjective(t) /\ h \notin ToSet(t)
  BY HeadAndTailTyped
<1>2. ch[h] \in Seq(N) /\ IsInjective(ch[h]) /\ ToSet(ch[h]) = N \cap ChildrenOf(h)
  BY <1>1, ForestTyped
<1>3. OfOneDir(ch[h])
  BY <1>2 DEF OfOneDir, ChildrenOf
<1>4. N \cap Under(h) = {h} \cup Below(N, ch[h]) /\ h \notin Below(N, ch[h])
  <2>1. Below(N, ch[h]) = UNION {N \cap Under(e) : e \in N \cap ChildrenOf(h)}
    BY <1>2 DEF Below
  <2>2. Rooted(p, N)
    BY DEF Forest
  <2> QED
    BY <1>1, <2>1, <2>2, BelowEntries
<1>5. Below(N, s) = (N \cap Under(h)) \cup Below(N, t)
  BY <1>1 DEF Below
<1>6. ASSUME OfOneDir(s)
      PROVE  OfOneDir(t) /\ (N \cap Under(h)) \cap Below(N, t) = {}
  <2>1. ASSUME NEW x \in ToSet(t) PROVE Under(h) \cap Under(x) = {}
    <3>1. h # x /\ Parent[h] = Parent[x]
      BY <1>1, <1>6, <2>1 DEF OfOneDir
    <3> QED
      BY <3>1, EntriesApart
  <2>2. OfOneDir(t)
    BY <1>1, <1>6 DEF OfOneDir
  <2> QED
    BY <2>1, <2>2 DEF Below
<1> QED
  BY <1>1, <1>2, <1>3, <1>4, <1>5, <1>6 DEF HeadedBelow

\* All nodes are in the list that is returned, and below.
LEMMA BelowTop ==
  ASSUME NEW p, NEW N, NEW ch, Forest(p, N, ch)
  PROVE  ch[Top] \in Seq(N) /\ OfOneDir(ch[Top]) /\ Below(N, ch[Top]) = N
<1>1. /\ p \in Paths /\ N \in SUBSET Under(p) /\ p \in Under(p)
      /\ ch[Top] \in Seq(N) /\ IsInjective(ch[Top]) /\ ToSet(ch[Top]) = N \cap {p}
      /\ \A x \in N : x = p \/ Parent[x] \in N
  BY ForestTyped, UnderByParent DEF Forest, Rooted
<1>2. N # {} => p \in N
  <2> SUFFICES ASSUME NEW x \in N PROVE p \in N
    OBVIOUS
  <2> QED
    BY <1>1, NodesBelow
<1>3. Below(N, ch[Top]) = N
  BY <1>1, <1>2 DEF Below
<1> QED
  BY <1>1, <1>3 DEF OfOneDir

\* Nothing is below the empty list.
LEMMA BelowNothing ==
  ASSUME NEW N
  PROVE  Below(N, <<>>) = {}
  BY NoElements DEF Below

(***************************************************************************)
(* FreeFileInfo comes to every node of a forest, and to none of them twice.*)
(***************************************************************************)
LEMMA FreedAll ==
  ASSUME NEW p, NEW N, NEW ch, Forest(p, N, ch)
  PROVE  IsInjective(FreedNodes(ch)) /\ ToSet(FreedNodes(ch)) = N
<1> PICK S : S = Seq(N)
  OBVIOUS
<1>1. PICK m : Shrinks(N, ch, m)
  BY ForestShrinks
<1>2. PICK f \in [S -> S] :
        /\ FreedNodes(ch) = f[ch[Top]]
        /\ \A s \in S : f[s] = IF s = <<>> THEN <<>>
                               ELSE Append(f[ch[Head(s)]] \o f[Tail(s)], Head(s))
  BY FreedDefined
<1> DEFINE Freed(s) == IsInjective(f[s]) /\ ToSet(f[s]) = Below(N, s)
           T == {s \in S : OfOneDir(s) => Freed(s)}
<1>3. ASSUME NEW s \in S, \A y \in S : m[y] < m[s] => y \in T, OfOneDir(s)
      PROVE  Freed(s)
  <2>1. CASE s = <<>>
    <3>1. f[s] = <<>> /\ ToSet(f[s]) = {} /\ Below(N, s) = {}
      BY <1>2, <2>1, NoElements, BelowNothing
    <3>2. IsInjective(<<>>)
      BY DEF IsInjective
    <3> QED
      BY <3>1, <3>2
  <2>2. CASE s # <<>>
    <3> PICK h : h = Head(s)
      OBVIOUS
    <3> PICK t : t = Tail(s)
      OBVIOUS
    <3>1. /\ h \in N /\ t \in S /\ ch[h] \in S /\ OfOneDir(ch[h]) /\ OfOneDir(t)
          /\ Below(N, s) = {h} \cup Below(N, ch[h]) \cup Below(N, t)
          /\ h \notin Below(N, ch[h])
          /\ ({h} \cup Below(N, ch[h])) \cap Below(N, t) = {}
      <4>1. HeadedBelow(N, ch, s, h, t)
        BY <2>2, BelowHead
      <4> QED
        BY <1>3, <4>1 DEF HeadedBelow
    <3>2. ch[h] \in T /\ t \in T
      BY <1>1, <1>3, <2>2, <3>1 DEF Shrinks
    <3>3. Freed(ch[h]) /\ Freed(t)
      BY <3>1, <3>2
    <3> PICK a : a = f[ch[h]]
      OBVIOUS
    <3> PICK b : b = f[t]
      OBVIOUS
    <3>4. /\ a \in Seq(N) /\ b \in Seq(N) /\ IsInjective(a) /\ IsInjective(b)
          /\ ToSet(a) = Below(N, ch[h]) /\ ToSet(b) = Below(N, t)
      BY <3>1, <3>3
    <3>5. ToSet(a) \cap ToSet(b) = {}
      BY <3>1, <3>4
    <3>6. a \o b \in Seq(N) /\ IsInjective(a \o b) /\ ToSet(a \o b) = ToSet(a) \cup ToSet(b)
      BY <3>4, <3>5, ListsJoined
    <3> PICK u : u = a \o b
      OBVIOUS
    <3>7. h \notin ToSet(u)
      BY <3>1, <3>4, <3>6
    <3>8. IsInjective(Append(u, h)) /\ ToSet(Append(u, h)) = ToSet(u) \cup {h}
      <4>1. u \in Seq(N) /\ IsInjective(u) /\ h \in N
        BY <3>1, <3>6
      <4> QED
        BY ONLY <3>7, <4>1, EntryAppended
    <3>9. f[s] = Append(u, h)
      BY <1>2, <2>2
    <3>10. ToSet(u) = Below(N, ch[h]) \cup Below(N, t)
      BY <3>4, <3>6
    <3>11. ToSet(u) \cup {h} = Below(N, s)
      BY <3>1, <3>10
    <3> QED
      BY <3>8, <3>9, <3>11
  <2> QED
    BY <2>1, <2>2
<1>4. \A s \in S : (\A y \in S : m[y] < m[s] => y \in T) => s \in T
  <2> HIDE DEF Freed
  <2> QED
    BY <1>3
<1>5. m \in [S -> Nat]
  BY <1>1 DEF Shrinks
<1> HIDE DEF T
<1>6. S \subseteq T
  BY ONLY <1>4, <1>5, MeasureInduction
<1>7. ch[Top] \in S /\ OfOneDir(ch[Top]) /\ Below(N, ch[Top]) = N
  BY BelowTop
<1>8. Freed(ch[Top])
  BY <1>6, <1>7 DEF T
<1> QED
  BY <1>2, <1>7, <1>8

(***************************************************************************)
(* Every node of a search that has its lists can be reached.               *)
(***************************************************************************)
LEMMA ReachedAll ==
  ASSUME NEW p, NEW N, NEW c, Forest(p, N, child[c])
  PROVE  Reached(c) = N
<1> PICK ch : ch = child[c]
  OBVIOUS
<1> DEFINE S == Seq(N)
           V == SUBSET N
           Body(f, s) == IF s = <<>> THEN {}
                         ELSE {Head(s)} \cup f[ch[Head(s)]] \cup f[Tail(s)]
           M == CHOOSE f : f = [s \in S |-> Body(f, s)]
           G == [q \in N \X V \X V |-> {q[1]} \cup q[2] \cup q[3]]
<1>1. Forest(p, N, ch) /\ Reached(c) = M[ch[Top]]
  <2>1. DOMAIN ch \ {Top} = N
    BY ForestTyped
  <2> QED
    BY <2>1 DEF Reached
<1>2. PICK m : Shrinks(N, ch, m)
  BY ForestShrinks
<1>3. \A x \in N : \A a, b \in V : G[<<x, a, b>>] = {x} \cup a \cup b
  OBVIOUS
<1> HIDE DEF G
<1>4. Combines(N, V, {}, G)
  BY <1>3 DEF Combines
<1>5. PICK f \in [S -> V] : \A s \in S :
        f[s] = IF s = <<>> THEN {} ELSE G[<<Head(s), f[ch[Head(s)]], f[Tail(s)]>>]
  <2> HIDE DEF V
  <2> QED
    BY <1>2, <1>4, ListRecursion
<1>6. \A s \in S : f[s] = Body(f, s)
  <2> TAKE s \in S
  <2>1. CASE s = <<>>
    BY <1>5, <2>1
  <2>2. CASE s # <<>>
    <3>1. Head(s) \in N /\ Tail(s) \in S /\ ch[Head(s)] \in S
      BY <1>1, <2>2, ForestTyped, HeadAndTailTyped
    <3>2. f[ch[Head(s)]] \in V /\ f[Tail(s)] \in V
      BY <3>1
    <3>3. f[s] = G[<<Head(s), f[ch[Head(s)]], f[Tail(s)]>>]
      BY <1>5, <2>2
    <3> HIDE DEF V
    <3> QED
      BY <1>3, <2>2, <3>1, <3>2, <3>3
  <2> QED
    BY <2>1, <2>2
<1> HIDE DEF Body, V
<1>7. f = [s \in S |-> Body(f, s)]
  BY <1>6
<1>8. M = [s \in S |-> Body(M, s)]
  BY <1>7
<1> HIDE DEF M
<1>9. \A s \in S : M[s] = Body(M, s)
  BY <1>8
<1> DEFINE T == {s \in S : M[s] = Below(N, s)}
<1>10. ASSUME NEW s \in S, \A y \in S : m[y] < m[s] => y \in T
       PROVE  M[s] = Below(N, s)
  <2>1. CASE s = <<>>
    BY <1>9, <2>1, BelowNothing DEF Body
  <2>2. CASE s # <<>>
    <3> PICK h : h = Head(s)
      OBVIOUS
    <3> PICK t : t = Tail(s)
      OBVIOUS
    <3>1. /\ h \in N /\ t \in S /\ ch[h] \in S
          /\ Below(N, s) = {h} \cup Below(N, ch[h]) \cup Below(N, t)
      <4>1. HeadedBelow(N, ch, s, h, t)
        BY <1>1, <2>2, BelowHead
      <4> QED
        BY <4>1 DEF HeadedBelow
    <3>2. ch[h] \in T /\ t \in T
      BY <1>2, <1>10, <2>2, <3>1 DEF Shrinks
    <3>3. M[s] = {h} \cup M[ch[h]] \cup M[t]
      BY <1>9, <2>2 DEF Body
    <3> QED
      BY <3>1, <3>2, <3>3
  <2> QED
    BY <2>1, <2>2
<1>11. S \subseteq T
  <2>1. m \in [S -> Nat]
    BY <1>2 DEF Shrinks
  <2>2. \A s \in S : (\A y \in S : m[y] < m[s] => y \in T) => s \in T
    <3> HIDE DEF S
    <3> QED
      BY <1>10
  <2> HIDE DEF T, S
  <2> QED
    BY <2>1, <2>2, MeasureInduction
<1>12. ch[Top] \in S /\ Below(N, ch[Top]) = N
  BY <1>1, BelowTop
<1> HIDE DEF S
<1>13. M[ch[Top]] = Below(N, ch[Top])
  BY <1>11, <1>12
<1> QED
  BY <1>1, <1>12, <1>13

\* The sort keeps what is in a list without equal elements.
LEMMA SortKeeps ==
  ASSUME NEW mode, NEW s \in Seq(Paths), IsInjective(s)
  PROVE  /\ SortList(mode, s) \in Seq(Paths) /\ IsInjective(SortList(mode, s))
         /\ ToSet(SortList(mode, s)) = ToSet(s)
<1> PICK t : t = SortList(mode, s)
  OBVIOUS
<1> DEFINE Place(e) == CHOOSE i \in DOMAIN s : s[i] = e
           Key(e) == IF mode = "name" THEN Name[e] ELSE Time[e]
<1>1. t \in Seq(Paths)
  BY SortDefined
<1>2. ListSorted(mode, s, t)
  BY SortedList
<1>3. /\ ToSet(t) = ToSet(s) /\ (~Known(mode) => t = s)
      /\ Known(mode) => \A i, j \in DOMAIN t :
           i < j => \/ Key(t[i]) < Key(t[j])
                    \/ Key(t[i]) = Key(t[j]) /\ Place(t[i]) > Place(t[j])
  BY <1>2 DEF ListSorted, Known
<1>4. \A e \in Paths : Key(e) \in Nat
  BY PlatformFileAssumption
<1>5. DOMAIN s = 1 .. Len(s) /\ Len(s) \in Nat /\ DOMAIN t = 1 .. Len(t) /\ Len(t) \in Nat
      /\ \A i \in DOMAIN t : t[i] \in Paths /\ t[i] \in ToSet(t)
  BY <1>1, LenProperties, ElementOfSeq DEF ToSet
<1>6. \A e \in ToSet(s) : Place(e) \in Nat
  BY <1>5 DEF ToSet
<1> HIDE DEF Place, Key
<1>7. ASSUME Known(mode), NEW i \in DOMAIN t, NEW j \in DOMAIN t, i < j
      PROVE  t[i] # t[j]
  <2>1. Key(t[i]) \in Nat /\ Place(t[i]) \in Nat
    BY <1>3, <1>4, <1>5, <1>6
  <2>2. ~(Key(t[i]) < Key(t[i])) /\ ~(Place(t[i]) > Place(t[i]))
    BY <2>1
  <2> QED
    BY <1>3, <1>7, <2>2
<1>8. \A i, j \in DOMAIN t : i # j => i < j \/ j < i
  BY <1>5
<1>9. IsInjective(t)
  BY <1>3, <1>7, <1>8 DEF IsInjective
<1> QED
  BY <1>1, <1>3, <1>9

\* The sort of the empty list.
LEMMA NothingSorted ==
  ASSUME NEW mode
  PROVE  /\ <<>> \in Seq(Paths) /\ IsInjective(<<>>) /\ SortList(mode, <<>>) = <<>>
<1>1. <<>> \in Seq(Paths) /\ Len(<<>>) <= 1
  BY EmptySeq
<1>2. IsInjective(<<>>)
  BY DEF IsInjective
<1> QED
  BY <1>1, <1>2, SortDefined

-----------------------------------------------------------------------------
(* The search: the lists of the nodes. *)

\* Of each node, the list of what was found in it, in the order asked for, once
\* its directory was read.
ListsKept(c) ==
  \A d \in DOMAIN child[c] :
    /\ read[c][d] \in Seq(Paths) /\ IsInjective(read[c][d])
    /\ child[c][d] = SortList(call[c].sortMode, read[c][d])
    /\ d \notin Open(c) => ToSet(read[c][d]) = Found(c) \cap EntriesOf(c, d)

\* Only a search that has not ended has nodes.
NodesOf(c) ==
  /\ pc[c] = "idle" => DOMAIN read[c] = {} /\ DOMAIN child[c] = {}
  /\ Found(c) # {} => Counts(c)
  /\ Counts(c) =>
       /\ DOMAIN read[c] = DOMAIN child[c]
       /\ DOMAIN child[c] = IF pc[c] = "found" THEN Found(c) \cup {Top} ELSE Found(c)
       /\ ListsKept(c)

NodeInv == \A c \in Callers : NodesOf(c)

\* When a search has ended, its lists lead to all its nodes.
LEMMA ListsLead ==
  ASSUME WalkInv, NEW c \in Callers, SearchInv(c), NodesOf(c), pc[c] = "found"
  PROVE  Forest(call[c].path, Found(c), child[c])
<1> PICK N : N = Found(c)
  OBVIOUS
<1> PICK p : p = call[c].path
  OBVIOUS
<1> PICK ch : ch = child[c]
  OBVIOUS
<1>1. /\ Counts(c) /\ p \in Paths /\ stack[c] = <<>> /\ N \subseteq Under(p)
  BY DEF WalkInv, Placed, Walk, Counts, Found
<1>2. Open(c) = {}
  <2>1. Len(stack[c]) = 0 /\ 2 .. 0 = {}
    BY <1>1
  <2> QED
    BY <2>1 DEF Open
<1>3. Rooted(p, N)
  BY <1>1, SearchSays DEF Rooted
<1>4. DOMAIN ch = N \cup {Top} /\ ListsKept(c)
  BY <1>1 DEF NodesOf
<1>5. ASSUME NEW d \in N \cup {Top}
      PROVE  /\ ch[d] \in Seq(N) /\ IsInjective(ch[d])
             /\ ToSet(ch[d]) = N \cap EntriesOf(c, d)
  <2>1. /\ read[c][d] \in Seq(Paths) /\ IsInjective(read[c][d])
        /\ ch[d] = SortList(call[c].sortMode, read[c][d])
        /\ ToSet(read[c][d]) = N \cap EntriesOf(c, d)
    BY <1>2, <1>4 DEF ListsKept
  <2>2. ch[d] \in Seq(Paths) /\ IsInjective(ch[d]) /\ ToSet(ch[d]) = N \cap EntriesOf(c, d)
    BY <2>1, SortKeeps
  <2>3. ch[d] \in Seq(N)
    <3> PICK t : t = ch[d]
      OBVIOUS
    <3>1. Len(t) \in Nat /\ t \in [1 .. Len(t) -> Paths] /\ DOMAIN t = 1 .. Len(t)
      BY <2>2, LenProperties
    <3>2. \A i \in 1 .. Len(t) : t[i] \in N
      BY <2>2, <3>1 DEF ToSet
    <3>3. t \in [1 .. Len(t) -> N]
      BY <3>1, <3>2
    <3> QED
      BY <3>1, <3>3, SeqDef
  <2> QED
    BY <2>2, <2>3
<1> QED
  BY <1>3, <1>4, <1>5 DEF Forest, EntriesOf

\* A step of the thread that changes neither its nodes nor how they count.
LEMMA NodesUntouched ==
  ASSUME NEW c, NodesOf(c), UNCHANGED tree, call'[c] = call[c],
         Counts(c) <=> Counts(c)', Counts(c) => Open(c) \subseteq Open(c)',
         pc[c] # "found", pc'[c] \notin {"idle", "found"}
  PROVE  NodesOf(c)'
<1>1. /\ read'[c] = read[c] /\ child'[c] = child[c] /\ Found(c)' = Found(c)
      /\ \A x : EntriesOf(c, x)' = EntriesOf(c, x)
  BY DEF tree, Found, EntriesOf
<1>2. ListsKept(c) /\ Open(c) \subseteq Open(c)' => ListsKept(c)'
  BY <1>1 DEF ListsKept
<1> QED
  BY <1>1, <1>2 DEF NodesOf

\* A new node has the empty list.
LEMMA NodesWhenRead ==
  ASSUME WalkInv, NEW c \in Callers, SearchInv(c), NodesOf(c), ReadToSearch(c)
  PROVE  NodesOf(c)'
<1> PICK n : n = Len(stack[c])
  OBVIOUS
<1> PICK d : d = stack[c][n].dir
  OBVIOUS
<1> PICK p : p = call[c].path
  OBVIOUS
<1> PICK e : AddsNode(c, n, d, p, e)
  BY SearchReads
<1>1. /\ Counts(c) /\ pc[c] = "read" /\ call' = call /\ Open(c)' = Open(c)
      /\ e \in Paths /\ e \notin Found(c) /\ Found(c)' = Found(c) \cup {e}
      /\ (Found(c) \cup {e}) \cap Under(e) = {e}
      /\ \A g \in Found(c) \ Open(c) : g # e /\ g \notin Above[e]
      /\ read'[c] = With(read[c], e, <<>>) /\ child'[c] = With(child[c], e, <<>>)
      /\ pc'[c] \in {"read", "enter"}
  BY DEF AddsNode
<1>2. DOMAIN read[c] = Found(c) /\ DOMAIN child[c] = Found(c) /\ ListsKept(c)
  BY <1>1 DEF NodesOf
<1>3. /\ DOMAIN read'[c] = Found(c)' /\ DOMAIN child'[c] = Found(c)'
      /\ read'[c][e] = <<>> /\ child'[c][e] = <<>>
      /\ \A g \in Found(c) : read'[c][g] = read[c][g] /\ child'[c][g] = child[c][g]
  BY <1>1, <1>2 DEF With
<1>4. Found(c) \subseteq Paths /\ Top \notin Found(c)'
  BY <1>1, PlatformFileAssumption DEF WalkInv, Walk, Counts, Found, Under
<1>5. \A g \in Found(c)' : EntriesOf(c, g)' = ChildrenOf(g) /\ EntriesOf(c, g) = ChildrenOf(g)
  BY <1>1, <1>4 DEF EntriesOf
<1>6. Found(c)' \cap ChildrenOf(e) = {}
  <2> SUFFICES ASSUME NEW x \in Found(c)', x \in ChildrenOf(e) PROVE FALSE
    OBVIOUS
  <2>1. x \in Paths /\ e \in Above[x] /\ x # e
    <3>1. x \in Paths /\ Parent[x] = e /\ e # Top
      BY <1>1, PlatformFileAssumption DEF ChildrenOf
    <3>2. e \in Above[x] /\ x \notin Above[x]
      BY <3>1, AboveDefined, AboveAcyclic
    <3> QED
      BY <3>1, <3>2
  <2> QED
    BY <1>1, <2>1 DEF Under
<1>7. ASSUME NEW g \in Found(c), g \notin Open(c)
      PROVE  Found(c)' \cap ChildrenOf(g) = Found(c) \cap ChildrenOf(g)
  <2>1. g \notin Above[e] /\ g # Top
    BY <1>1, <1>4, <1>7
  <2>2. e \notin ChildrenOf(g)
    BY <1>1, <2>1, AboveDefined DEF ChildrenOf
  <2> QED
    BY <1>1, <2>2
<1>8. ListsKept(c)'
  <2>1. ASSUME NEW g \in Found(c)'
        PROVE  /\ read'[c][g] \in Seq(Paths) /\ IsInjective(read'[c][g])
               /\ child'[c][g] = SortList(call'[c].sortMode, read'[c][g])
               /\ g \notin Open(c)' =>
                    ToSet(read'[c][g]) = Found(c)' \cap EntriesOf(c, g)'
    <3>1. CASE g = e
      BY <1>1, <1>3, <1>5, <1>6, <3>1, NothingSorted, NoElements
    <3>2. CASE g # e
      <4>1. g \in Found(c) /\ g \in DOMAIN child[c]
        BY <1>1, <1>2, <3>2
      <4>2. /\ read[c][g] \in Seq(Paths) /\ IsInjective(read[c][g])
            /\ child[c][g] = SortList(call[c].sortMode, read[c][g])
            /\ g \notin Open(c) => ToSet(read[c][g]) = Found(c) \cap EntriesOf(c, g)
        BY <1>2, <4>1 DEF ListsKept
      <4> QED
        BY <1>1, <1>3, <1>5, <1>7, <4>1, <4>2
    <3> QED
      BY <3>1, <3>2
  <2> QED
    BY <1>3, <2>1 DEF ListsKept
<1> QED
  BY <1>1, <1>3, <1>8 DEF NodesOf, Counts, Searching

\* The end of a directory gives its node the sorted list.
LEMMA NodesWhenEnded ==
  ASSUME WalkInv, NEW c \in Callers, SearchInv(c), NodesOf(c), SearchFrameEnds(c)
  PROVE  NodesOf(c)'
<1> PICK n : n = Len(stack[c])
  OBVIOUS
<1> PICK d : d = stack[c][n].dir
  OBVIOUS
<1> PICK p : p = call[c].path
  OBVIOUS
<1> PICK l : l = Inner(c).list
  OBVIOUS
<1>1. EndsNode(c, n, d, p)
  BY SearchEnds
<1>2. /\ Counts(c) /\ pc[c] = "read" /\ call' = call /\ Found(c)' = Found(c)
      /\ l \in Seq(Paths) /\ IsInjective(l) /\ ToSet(l) = Found(c) \cap EntriesOf(c, d)
      /\ d # Top => d \in Found(c)
      /\ Open(c) \subseteq Open(c)' \cup {d}
      /\ pc'[c] = IF d = Top THEN "found" ELSE "read"
      /\ read'[c] = With(read[c], d, l)
      /\ child'[c] = With(child[c], d, SortList(call[c].sortMode, l))
  BY <1>1 DEF EndsNode
<1>3. DOMAIN read[c] = Found(c) /\ DOMAIN child[c] = Found(c) /\ ListsKept(c)
  BY <1>2 DEF NodesOf
<1>4. /\ DOMAIN read'[c] = Found(c) \cup {d} /\ DOMAIN child'[c] = Found(c) \cup {d}
      /\ read'[c][d] = l /\ child'[c][d] = SortList(call[c].sortMode, l)
      /\ \A g \in Found(c) : g # d => read'[c][g] = read[c][g] /\ child'[c][g] = child[c][g]
  BY <1>2, <1>3 DEF With
<1>5. \A x : EntriesOf(c, x)' = EntriesOf(c, x)
  BY <1>2 DEF EntriesOf
<1>6. ListsKept(c)'
  <2>1. ASSUME NEW g \in Found(c) \cup {d}
        PROVE  /\ read'[c][g] \in Seq(Paths) /\ IsInjective(read'[c][g])
               /\ child'[c][g] = SortList(call'[c].sortMode, read'[c][g])
               /\ g \notin Open(c)' =>
                    ToSet(read'[c][g]) = Found(c)' \cap EntriesOf(c, g)'
    <3>1. CASE g = d
      BY <1>2, <1>4, <1>5, <3>1
    <3>2. CASE g # d
      <4>1. g \in Found(c) /\ g \in DOMAIN child[c]
        BY <1>3, <3>2
      <4>2. /\ read[c][g] \in Seq(Paths) /\ IsInjective(read[c][g])
            /\ child[c][g] = SortList(call[c].sortMode, read[c][g])
            /\ g \notin Open(c) => ToSet(read[c][g]) = Found(c) \cap EntriesOf(c, g)
        BY <1>3, <4>1 DEF ListsKept
      <4> QED
        BY <1>2, <1>4, <1>5, <3>2, <4>1, <4>2
    <3> QED
      BY <3>1, <3>2
  <2> QED
    BY <1>4, <2>1 DEF ListsKept
<1> QED
  BY <1>2, <1>4, <1>6 DEF NodesOf, Counts, Searching

\* FreeFileInfo leaves no node.
LEMMA NodesWhenFreed ==
  ASSUME WalkInv, NEW c \in Callers, SearchInv(c), NodesOf(c), FreeFileInfo(c)
  PROVE  Found(c)' = {} /\ pc'[c] = "done"
<1>1. LocalTyped /\ pc[c] = "found"
  BY DEF FreeFileInfo, WalkInv, Typed
<1> PICK freed : freed = ToSet(FreedNodes(child[c]))
  OBVIOUS
<1>2. freed = Found(c)
  BY <1>1, ListsLead, FreedAll
<1>3. size' = [size EXCEPT ![c] = Restrict(@, DOMAIN @ \ freed)] /\ pc' = Set(pc, c, "done")
  BY DEF FreeFileInfo
<1>4. size'[c] = Restrict(size[c], DOMAIN size[c] \ freed)
  BY <1>1, <1>3 DEF LocalTyped
<1>5. DOMAIN size'[c] = {}
  BY <1>2, <1>4 DEF Restrict, Found
<1> QED
  BY <1>1, <1>3, <1>5 DEF Found, LocalTyped, Set

\* No step of the thread breaks the lists.
LEMMA NodesKept ==
  ASSUME WalkInv, NEW c \in Callers, SearchInv(c), NodesOf(c), Acts(c)
  PROVE  NodesOf(c)'
<1>1. LocalTyped /\ Placed(c) /\ stack[c] \in Seq(Frames)
  BY StackTyped DEF WalkInv, Typed
<1>2. CASE StartWalk(c)
  <2>1. /\ pc[c] = "idle" /\ pc'[c] = "read" /\ UNCHANGED tree
    BY <1>1, <1>2 DEF StartWalk, LocalTyped, Set
  <2>2. Found(c) = {} /\ DOMAIN read[c] = {} /\ DOMAIN child[c] = {}
    BY <1>1, <2>1 DEF Placed, Found, NodesOf
  <2>3. Found(c)' = {} /\ DOMAIN read'[c] = {} /\ DOMAIN child'[c] = {}
    BY <2>1, <2>2 DEF tree, Found
  <2>4. ListsKept(c)'
    BY <2>3 DEF ListsKept
  <2> QED
    BY <2>1, <2>3, <2>4 DEF NodesOf
<1>3. CASE ReadGone(c) \/ EnterFails(c)
  <2>1. /\ UNCHANGED tree /\ call' = call
        /\ pc[c] \in {"read", "enter"} /\ pc'[c] \in {"read", "rmdir"}
        /\ Searching(c) => pc'[c] = "read"
    BY <1>1, <1>3 DEF ReadGone, EnterFails, LocalTyped, Set, Removing, Searching
  <2>2. Counts(c) <=> Counts(c)'
    BY <2>1 DEF Counts, Searching
  <2>3. Counts(c) => Open(c)' = Open(c)
    <3> SUFFICES ASSUME Counts(c)' PROVE Open(c)' = Open(c)
      BY <2>2
    <3>1. SameNodes(c)
      BY <1>3, NothingFound
    <3> QED
      BY <1>1, <3>1, NodesStay
  <2> QED
    BY <2>1, <2>2, <2>3, NodesUntouched
<1>4. CASE EnterOpens(c)
  <2>1. UNCHANGED tree /\ call' = call /\ pc[c] = "enter" /\ pc'[c] = "read"
    BY <1>1, <1>4 DEF EnterOpens, LocalTyped, Set
  <2>2. Counts(c) <=> Counts(c)'
    BY <2>1 DEF Counts, Searching
  <2>3. Counts(c) => Open(c) \subseteq Open(c)'
    <3> SUFFICES ASSUME Counts(c)' PROVE Open(c) \subseteq Open(c)'
      BY <2>2
    <3>1. OpensNode(c, Len(stack[c]), at[c])
      BY <1>4, SearchEnters
    <3> QED
      BY <3>1 DEF OpensNode
  <2> QED
    BY <2>1, <2>2, <2>3, NodesUntouched
<1>5. CASE ReadToSearch(c) \/ SearchFrameEnds(c)
  BY <1>5, NodesWhenRead, NodesWhenEnded
<1>6. ASSUME Found(c)' = {}, pc'[c] # "idle", ~Counts(c)'
      PROVE  NodesOf(c)'
  BY <1>6 DEF NodesOf
<1>7. CASE StartNothing(c) \/ StartMake(c) \/ MakeStep(c) \/ MakeDone(c)
  <2>1. /\ pc[c] \in {"idle", "mkdir"} /\ pc'[c] \in {"mkdir", "done"} /\ UNCHANGED tree
    BY <1>1, <1>7 DEF StartNothing, StartMake, MakeStep, MakeDone, Fail, Set, LocalTyped
  <2>2. Found(c)' = {}
    BY <1>1, <2>1 DEF Placed, tree, Found
  <2> QED
    BY <1>6, <2>1, <2>2 DEF Counts
<1>8. CASE ReadToRemove(c) \/ RemoveFrameEnds(c) \/ RemoveEntry(c) \/ RemoveDir(c)
  <2>1. /\ Removing(c) /\ call' = call /\ UNCHANGED tree
        /\ pc'[c] \in {"enter", "remove", "rmdir", "read", "done"}
    BY <1>1, <1>8 DEF ReadToRemove, RemoveFrameEnds, RemoveEntry, RemoveDir, Removed,
                      Placed, LocalTyped, Set
  <2>2. ~Counts(c) /\ ~Counts(c)'
    BY <2>1 DEF Counts, Removing, Searching
  <2>3. Found(c)' = {}
    BY <2>1, <2>2 DEF NodesOf, tree, Found
  <2> QED
    BY <1>6, <2>1, <2>2, <2>3
<1>9. CASE FreeFileInfo(c)
  <2>1. Found(c)' = {} /\ pc'[c] = "done"
    BY <1>9, NodesWhenFreed
  <2> QED
    BY <1>6, <2>1 DEF Counts
<1> QED
  BY <1>2, <1>3, <1>4, <1>5, <1>7, <1>8, <1>9 DEF Acts, Step

\* No step of another thread does.
LEMMA NodesStill ==
  ASSUME NEW c, Still(c), NodesOf(c)
  PROVE  NodesOf(c)'
<1>1. /\ call'[c] = call[c] /\ pc'[c] = pc[c] /\ stack'[c] = stack[c]
      /\ size'[c] = size[c] /\ read'[c] = read[c] /\ child'[c] = child[c]
  BY DEF Still
<1>2. /\ Found(c)' = Found(c) /\ Open(c)' = Open(c)
      /\ \A x : EntriesOf(c, x)' = EntriesOf(c, x)
      /\ Counts(c)' <=> Counts(c)
  BY <1>1 DEF Found, Open, EntriesOf, Searching, Counts
<1>3. ListsKept(c) => ListsKept(c)'
  BY <1>1, <1>2 DEF ListsKept
<1> QED
  BY <1>1, <1>2, <1>3 DEF NodesOf

(***************************************************************************)
(* The invariant of the lists: the nodes of a search that goes on are its  *)
(* found paths, each with the sorted list of the entries found in it once  *)
(* its directory is no longer open; and a search that is not going on has  *)
(* no node left, since FreeFileInfo comes to all of them.                  *)
(***************************************************************************)
THEOREM NodeInvariant == Spec => []NodeInv
<1>1. Init => NodeInv
  BY DEF Init, NodeInv, NodesOf, Searching, NoCall, Counts, Found
<1>2. WalkInv /\ SizeInv /\ NodeInv /\ [Next]_vars => NodeInv'
  <2>1. NodeInv /\ UNCHANGED vars => NodeInv'
    BY NodesStill DEF NodeInv, Still, vars, local, tree
  <2>2. ASSUME WalkInv, SizeInv, NodeInv, NEW o \in Callers, Acts(o)
        PROVE  NodeInv'
    <3>1. ASSUME NEW c \in Callers, c # o
          PROVE  NodesOf(c)'
      <4>1. Still(c) /\ NodesOf(c)
        BY <2>2, <3>1, OneThreadSteps DEF WalkInv, NodeInv
      <4> QED
        BY <4>1, NodesStill
    <3>2. NodesOf(o)'
      BY <2>2, NodesKept DEF NodeInv, SizeInv
    <3> QED
      BY <3>1, <3>2 DEF NodeInv
  <2> QED
    BY <2>1, <2>2, ThreadsAct
<1> QED
  BY <1>1, <1>2, WalkInvariant, SizeInvariant, PTL DEF Spec

(***************************************************************************)
(* Every list of a search that has ended is in the order asked for, and    *)
(* equal entries are in the reverse of the order in which they were read   *)
(* (ListsSorted).                                                          *)
(***************************************************************************)
THEOREM ListsAreSorted == Spec => []ListsSorted
<1>1. ASSUME WalkInv, NodeInv PROVE ListsSorted
  <2> SUFFICES ASSUME NEW c \in Callers, pc[c] = "found", NEW d \in DOMAIN child[c]
               PROVE  ListSorted(call[c].sortMode, read[c][d], child[c][d])
    BY DEF ListsSorted
  <2>1. Counts(c) /\ NodesOf(c)
    BY <1>1 DEF WalkInv, Placed, Counts, NodeInv
  <2>2. /\ read[c][d] \in Seq(Paths) /\ IsInjective(read[c][d])
        /\ child[c][d] = SortList(call[c].sortMode, read[c][d])
    BY <2>1 DEF NodesOf, ListsKept
  <2> QED
    BY <2>2, SortedList
<1>2. WalkInv /\ NodeInv => ListsSorted
  BY <1>1
<1> QED
  BY <1>2, WalkInvariant, NodeInvariant, PTL

(***************************************************************************)
(* FreeFileInfo frees all nodes of a search, and none of them twice,       *)
(* whatever was found, and nothing is left of any call that has returned   *)
(* (AllNodesFreed).                                                        *)
(***************************************************************************)
THEOREM NodesAreFreed == Spec => []AllNodesFreed
<1>1. ASSUME WalkInv, SizeInv, NodeInv PROVE AllNodesFreed
  <2> SUFFICES ASSUME NEW c \in Callers
               PROVE  /\ pc[c] = "done" => size[c] = <<>>
                      /\ pc[c] = "found" => IsInjective(FreedNodes(child[c]))
    BY DEF AllNodesFreed
  <2>1. SearchInv(c) /\ NodesOf(c)
    BY <1>1 DEF SizeInv, NodeInv
  <2>2. ASSUME pc[c] = "done" PROVE size[c] = <<>>
    <3>1. DOMAIN size[c] = {}
      BY <2>1, <2>2 DEF NodesOf, Counts, Found
    <3>2. PICK D \in SUBSET Paths : size[c] \in [D -> Nat]
      BY <1>1, StackTyped DEF Nodes
    <3>3. <<>> = [x \in {} |-> x]
      OBVIOUS
    <3> QED
      BY <3>1, <3>2, <3>3
  <2>3. ASSUME pc[c] = "found" PROVE IsInjective(FreedNodes(child[c]))
    BY <1>1, <2>1, <2>3, ListsLead, FreedAll
  <2> QED
    BY <2>2, <2>3
<1>2. WalkInv /\ SizeInv /\ NodeInv => AllNodesFreed
  BY <1>1
<1> QED
  BY <1>2, WalkInvariant, SizeInvariant, NodeInvariant, PTL

-----------------------------------------------------------------------------
(* The search: nothing that can be seen is missed. *)

\* What can be seen of the entries of an open directory has a node or is unread.
EntriesSeen(c) ==
  \A i \in DOMAIN stack[c] : \A x \in EntriesOf(c, stack[c][i].dir) :
    Lstat(x) => x \in Found(c) \/ x \in stack[c][i].unread \cap stack[c][i].present

\* What can be seen in a directory has a node, unless the directory is open, is
\* about to be, or cannot be.
DirsSeen(c) ==
  \A d \in Found(c) \ (Open(c) \cup fault.denied) :
    disk[d] = "dir" /\ ~(pc[c] = "enter" /\ at[c] = d) =>
      \A x \in ChildrenOf(d) : Lstat(x) => x \in Found(c)

NothingMissed(c) ==
  Counts(c) /\ Alone(c) =>
    /\ \A x \in Found(c) : Lstat(x)
    /\ pc[c] = "found" /\ Lstat(call[c].path) => call[c].path \in Found(c)
    /\ EntriesSeen(c) /\ DirsSeen(c)

FoundInv == \A c \in Callers : NothingMissed(c)

\* A search is alone, and the disk is as it was.
LeftAlone(c) ==
  /\ Counts(c)' /\ Alone(c) /\ UNCHANGED <<disk, fault>>
  /\ \A x : Lstat(x)' <=> Lstat(x)

\* Nobody changes the disk under a search that is alone.
LEMMA DiskRests ==
  ASSUME WalkInv, NEW o \in Callers, Acts(o), NEW c \in Callers, Counts(c)', Alone(c)'
  PROVE  LeftAlone(c)
<1>1. Alone(c)
  BY OthersStay DEF Alone
<1>2. UNCHANGED fault
  BY OneThreadSteps DEF WalkInv, env
<1>3. ~MakesDir(o) /\ ~RemovesEntry(o)
  <2> SUFFICES ASSUME MakesDir(o) \/ RemovesEntry(o) PROVE FALSE
    OBVIOUS
  <2>1. call[o].op \in {"make", "parent", "remove"} /\ call'[o] = call[o]
    BY ChangesAreCalled
  <2>2. CASE o = c
    BY <2>1, <2>2 DEF Counts, Searching
  <2>3. CASE o # c
    BY <2>1, <2>3 DEF Alone, Others
  <2> QED
    BY <2>2, <2>3
<1>4. disk' = disk
  BY <1>3, OneThreadSteps DEF WalkInv
<1> QED
  BY <1>1, <1>2, <1>4 DEF LeftAlone, Lstat, Visible, Exists

\* What is seen before such a step.
LEMMA MissedNothing ==
  ASSUME NEW c, LeftAlone(c), Counts(c), NothingMissed(c)
  PROVE  /\ \A x \in Found(c) : Lstat(x)
         /\ EntriesSeen(c) /\ DirsSeen(c)
  BY DEF NothingMissed, LeftAlone

\* At first the path is unread.
LEMMA NothingMissedAtStart ==
  ASSUME WalkInv, NEW c \in Callers, StartWalk(c), LeftAlone(c)
  PROVE  NothingMissed(c)'
<1>1. LocalTyped /\ pc[c] = "idle" /\ DOMAIN size[c] = {}
  BY DEF StartWalk, WalkInv, Typed, Placed
<1>2. PICK k \in Calls[c] :
        /\ call' = Set(call, c, k)
        /\ stack' = Set(stack, c, <<Frame(Top, {k.path}, {k.path})>>)
  BY DEF StartWalk
<1> PICK f : f = Frame(Top, {k.path}, {k.path})
  OBVIOUS
<1>3. /\ stack'[c] = <<f>> /\ pc'[c] = "read" /\ Found(c)' = {} /\ call'[c] = k
  BY <1>1, <1>2 DEF StartWalk, LocalTyped, Set, tree, Found
<1>4. f.dir = Top /\ f.unread = {k.path} /\ f.present = {k.path}
  BY DEF Frame
<1>5. \A i \in DOMAIN stack'[c] : stack'[c][i] = f
  BY <1>3
<1>6. EntriesSeen(c)'
  BY <1>3, <1>4, <1>5 DEF EntriesSeen, EntriesOf
<1>7. DirsSeen(c)'
  BY <1>3 DEF DirsSeen
<1> QED
  BY <1>3, <1>6, <1>7 DEF NothingMissed

\* An entry that is read gets its node.
LEMMA NothingMissedAtRead ==
  ASSUME WalkInv, NEW c \in Callers, SearchInv(c), NothingMissed(c), ReadToSearch(c),
         LeftAlone(c)
  PROVE  NothingMissed(c)'
<1> PICK n : n = Len(stack[c])
  OBVIOUS
<1> PICK d : d = stack[c][n].dir
  OBVIOUS
<1> PICK p : p = call[c].path
  OBVIOUS
<1> PICK e : AddsNode(c, n, d, p, e)
  BY SearchReads
<1>1. /\ Counts(c) /\ pc[c] = "read" /\ call' = call /\ Open(c)' = Open(c) /\ Lstat(e)
      /\ Found(c)' = Found(c) \cup {e} /\ at'[c] = e
      /\ pc'[c] = IF IsDir(e) THEN "enter" ELSE "read"
      /\ n \in Nat \ {0} /\ DOMAIN stack[c] = 1 .. n /\ DOMAIN stack'[c] = 1 .. n
      /\ \A i \in 1 .. n - 1 : stack'[c][i] = stack[c][i]
      /\ stack'[c][n].dir = d /\ stack'[c][n].present = stack[c][n].present
      /\ stack'[c][n].unread = stack[c][n].unread \ {e}
  BY DEF AddsNode
<1>2. /\ \A x \in Found(c) : Lstat(x)
      /\ EntriesSeen(c) /\ DirsSeen(c)
  BY <1>1, MissedNothing
<1>3. disk' = disk /\ fault' = fault /\ \A x : Lstat(x)' <=> Lstat(x)
  BY DEF LeftAlone
<1>4. \A x : EntriesOf(c, x)' = EntriesOf(c, x)
  BY <1>1 DEF EntriesOf
<1>5. ASSUME NEW i \in 1 .. n, NEW x \in EntriesOf(c, stack'[c][i].dir), Lstat(x)
      PROVE  x \in Found(c) \cup {e} \/ x \in stack'[c][i].unread \cap stack'[c][i].present
  <2>1. CASE i = n
    <3>1. x \in Found(c) \/ x \in stack[c][n].unread \cap stack[c][n].present
      BY <1>1, <1>2, <1>5, <2>1 DEF EntriesSeen
    <3> QED
      BY <1>1, <2>1, <3>1
  <2>2. CASE i # n
    <3>1. i \in 1 .. n - 1
      BY <1>1, <2>2
    <3> QED
      BY <1>1, <1>2, <1>5, <3>1 DEF EntriesSeen
  <2> QED
    BY <2>1, <2>2
<1>6. EntriesSeen(c)'
  BY <1>1, <1>3, <1>4, <1>5 DEF EntriesSeen
<1>7. DirsSeen(c)'
  <2> SUFFICES ASSUME NEW g \in Found(c) \cup {e}, g \notin Open(c), g \notin fault.denied,
                      disk[g] = "dir", ~(pc'[c] = "enter" /\ at'[c] = g),
                      NEW x \in ChildrenOf(g), Lstat(x)
               PROVE  x \in Found(c)
    BY <1>1, <1>3 DEF DirsSeen
  <2>1. g # e
    BY <1>1 DEF IsDir
  <2> QED
    BY <1>1, <1>2, <2>1 DEF DirsSeen
<1>8. pc'[c] # "found" /\ \A x \in Found(c)' : Lstat(x)'
  BY <1>1, <1>2, <1>3
<1> QED
  BY <1>6, <1>7, <1>8 DEF NothingMissed

\* An entry that is gone cannot be seen.
LEMMA NothingMissedAtGone ==
  ASSUME WalkInv, NEW c \in Callers, SearchInv(c), NothingMissed(c), ReadGone(c),
         LeftAlone(c)
  PROVE  NothingMissed(c)'
<1> PICK n : n = Len(stack[c])
  OBVIOUS
<1>1. /\ Counts(c) /\ SameNodes(c) /\ pc'[c] = "read" /\ pc[c] = "read"
      /\ call' = call /\ size' = size /\ stack[c] \in Seq(Frames)
  <2>1. Counts(c)'
    BY DEF LeftAlone
  <2> QED
    BY <2>1, NothingFound, StackTyped DEF ReadGone, tree
<1>2. /\ Found(c)' = Found(c) /\ Open(c)' = Open(c)
  BY <1>1, NodesStay
<1>3. /\ \A x \in Found(c) : Lstat(x)
      /\ EntriesSeen(c) /\ DirsSeen(c)
  BY <1>1, MissedNothing
<1>4. disk' = disk /\ fault' = fault /\ \A x : Lstat(x)' <=> Lstat(x)
  BY DEF LeftAlone
<1>5. PICK e \in Returned(c) : ~Lstat(e) /\ Reads(c, e, Inner(c).list)
  BY DEF ReadGone
<1>6. /\ stack'[c][n] = After(Inner(c), e, Inner(c).list) /\ Inner(c) = stack[c][n]
      /\ \A i \in 1 .. n - 1 : stack'[c][i] = stack[c][i]
      /\ Inner(c) \in Frames /\ n \in Nat \ {0} /\ DOMAIN stack[c] = 1 .. n
  <2>1. ReadsOne(c, e, Inner(c).list)
    BY <1>1, <1>5, ReturnedEntry DEF ReadsOne, ReadGone
  <2>2. /\ Inner(c)' = After(Inner(c), e, Inner(c).list)
        /\ Len(stack'[c]) = Len(stack[c]) /\ Inner(c)' = stack'[c][Len(stack'[c])]
        /\ \A i \in 1 .. Len(stack[c]) - 1 : stack'[c][i] = stack[c][i]
    BY <1>1, <2>1, FrameAfterRead
  <2>3. /\ Inner(c) \in Frames /\ Inner(c) = stack[c][Len(stack[c])]
        /\ DOMAIN stack[c] = 1 .. Len(stack[c]) /\ Len(stack[c]) \in Nat \ {0}
    BY <1>1, InnerOk DEF InnerFacts
  <2> QED
    BY <2>2, <2>3
<1>7. /\ stack'[c][n].dir = stack[c][n].dir /\ stack'[c][n].present = stack[c][n].present
      /\ stack'[c][n].unread = stack[c][n].unread \ {e}
  BY <1>6 DEF After, Frames
<1>8. \A x : EntriesOf(c, x)' = EntriesOf(c, x)
  BY <1>1 DEF EntriesOf
<1>9. ASSUME NEW i \in 1 .. n, NEW x \in EntriesOf(c, stack'[c][i].dir), Lstat(x)
      PROVE  x \in Found(c) \/ x \in stack'[c][i].unread \cap stack'[c][i].present
  <2>1. stack'[c][i].dir = stack[c][i].dir
    BY <1>1, <1>6 DEF SameNodes
  <2>2. x \in Found(c) \/ x \in stack[c][i].unread \cap stack[c][i].present
    BY <1>3, <1>6, <1>9, <2>1 DEF EntriesSeen
  <2>3. CASE i = n
    BY <1>5, <1>7, <1>9, <2>2, <2>3
  <2>4. CASE i # n
    <3>1. i \in 1 .. n - 1
      BY <1>6, <2>4
    <3> QED
      BY <1>6, <2>2, <3>1
  <2> QED
    BY <2>3, <2>4
<1>10. EntriesSeen(c)'
  <2>1. DOMAIN stack'[c] = 1 .. n
    BY <1>1, <1>6 DEF SameNodes
  <2> QED
    BY <1>2, <1>4, <1>8, <1>9, <2>1 DEF EntriesSeen
<1>11. DirsSeen(c)'
  BY <1>1, <1>2, <1>3, <1>4 DEF DirsSeen
<1> QED
  BY <1>1, <1>2, <1>3, <1>4, <1>10, <1>11 DEF NothingMissed

\* Only a directory that cannot be opened is left out: what was found is there.
LEMMA NothingMissedAtFailure ==
  ASSUME WalkInv, NEW c \in Callers, SearchInv(c), NothingMissed(c), EnterFails(c),
         LeftAlone(c)
  PROVE  NothingMissed(c)'
<1>1. /\ Counts(c) /\ SameNodes(c) /\ pc[c] = "enter" /\ pc'[c] = "read"
      /\ call' = call /\ stack' = stack /\ stack[c] \in Seq(Frames)
  <2>1. Counts(c)'
    BY DEF LeftAlone
  <2> QED
    BY <2>1, NothingFound, StackTyped DEF EnterFails
<1>2. /\ Found(c)' = Found(c) /\ Open(c)' = Open(c)
      /\ \A x : EntriesOf(c, x)' = EntriesOf(c, x)
  BY <1>1, NodesStay DEF EntriesOf
<1>3. /\ \A x \in Found(c) : Lstat(x)
      /\ EntriesSeen(c) /\ DirsSeen(c)
  BY <1>1, MissedNothing
<1>4. disk' = disk /\ fault' = fault /\ \A x : Lstat(x)' <=> Lstat(x)
  BY DEF LeftAlone
<1>5. at[c] \in fault.denied
  <2>1. at[c] \in Found(c)
    BY <1>1, SearchSays
  <2> QED
    BY <1>3, <2>1 DEF EnterFails
<1>6. DirsSeen(c)'
  BY <1>2, <1>3, <1>4, <1>5 DEF DirsSeen
<1>7. EntriesSeen(c)'
  BY <1>1, <1>2, <1>3, <1>4 DEF EntriesSeen
<1> QED
  BY <1>1, <1>2, <1>3, <1>4, <1>6, <1>7 DEF NothingMissed

\* Of a directory that is opened, all entries are listed.
LEMMA NothingMissedAtOpening ==
  ASSUME WalkInv, NEW c \in Callers, SearchInv(c), NothingMissed(c), EnterOpens(c),
         LeftAlone(c)
  PROVE  NothingMissed(c)'
<1> PICK n : n = Len(stack[c])
  OBVIOUS
<1> PICK d : d = at[c]
  OBVIOUS
<1>1. OpensNode(c, n, d)
  <2>1. Counts(c)'
    BY DEF LeftAlone
  <2> QED
    BY <2>1, SearchEnters
<1>2. /\ Counts(c) /\ pc[c] = "enter" /\ pc'[c] = "read" /\ d # Top /\ disk[d] = "dir"
      /\ call' = call /\ Found(c)' = Found(c) /\ Open(c)' = Open(c) \cup {d}
      /\ n \in Nat /\ DOMAIN stack[c] = 1 .. n /\ DOMAIN stack'[c] = 1 .. n + 1
      /\ \A i \in 1 .. n : stack'[c][i] = stack[c][i]
      /\ stack'[c][n + 1] = Frame(d, ChildrenOf(d), Listing(d))
  BY <1>1 DEF OpensNode
<1>3. /\ \A x \in Found(c) : Lstat(x)
      /\ EntriesSeen(c) /\ DirsSeen(c)
  BY <1>2, MissedNothing
<1>4. disk' = disk /\ fault' = fault /\ \A x : Lstat(x)' <=> Lstat(x)
  BY DEF LeftAlone
<1>5. \A x : EntriesOf(c, x)' = EntriesOf(c, x)
  BY <1>2 DEF EntriesOf
<1>6. ASSUME NEW i \in 1 .. n + 1, NEW x \in EntriesOf(c, stack'[c][i].dir), Lstat(x)
      PROVE  x \in Found(c) \/ x \in stack'[c][i].unread \cap stack'[c][i].present
  <2>1. CASE i = n + 1
    <3>1. /\ stack'[c][i].dir = d /\ stack'[c][i].unread = ChildrenOf(d)
          /\ stack'[c][i].present = Listing(d)
      BY <1>2, <2>1 DEF Frame
    <3>2. x \in ChildrenOf(d) /\ Exists(x)
      BY <1>2, <1>6, <3>1 DEF EntriesOf, Lstat
    <3> QED
      BY <1>2, <3>1, <3>2 DEF Listing
  <2>2. CASE i # n + 1
    <3>1. i \in 1 .. n
      BY <1>2, <2>2
    <3> QED
      BY <1>2, <1>3, <1>6, <3>1 DEF EntriesSeen
  <2> QED
    BY <2>1, <2>2
<1>7. EntriesSeen(c)'
  BY <1>2, <1>4, <1>5, <1>6 DEF EntriesSeen
<1>8. DirsSeen(c)'
  BY <1>2, <1>3, <1>4 DEF DirsSeen
<1> QED
  BY <1>2, <1>3, <1>4, <1>7, <1>8 DEF NothingMissed

\* A directory is ended when nothing of its listing is unread.
LEMMA NothingMissedAtEnd ==
  ASSUME WalkInv, NEW c \in Callers, SearchInv(c), NothingMissed(c), SearchFrameEnds(c),
         LeftAlone(c)
  PROVE  NothingMissed(c)'
<1> PICK n : n = Len(stack[c])
  OBVIOUS
<1> PICK d : d = stack[c][n].dir
  OBVIOUS
<1> PICK p : p = call[c].path
  OBVIOUS
<1>1. EndsNode(c, n, d, p)
  BY SearchEnds
<1>2. /\ Counts(c) /\ pc[c] = "read" /\ pc'[c] = IF d = Top THEN "found" ELSE "read"
      /\ call' = call /\ Found(c)' = Found(c)
      /\ Open(c) \subseteq Open(c)' \cup {d}
      /\ n \in Nat \ {0} /\ DOMAIN stack[c] = 1 .. n /\ Inner(c) = stack[c][n]
      /\ DOMAIN stack'[c] = 1 .. n - 1
      /\ \A i \in 1 .. n - 1 : stack'[c][i] = stack[c][i]
  BY <1>1 DEF EndsNode
<1>3. /\ \A x \in Found(c) : Lstat(x)
      /\ EntriesSeen(c) /\ DirsSeen(c)
  BY <1>2, MissedNothing
<1>4. disk' = disk /\ fault' = fault /\ \A x : Lstat(x)' <=> Lstat(x)
  BY DEF LeftAlone
<1>5. \A x : EntriesOf(c, x)' = EntriesOf(c, x)
  BY <1>2 DEF EntriesOf
<1>6. ASSUME NEW x \in EntriesOf(c, d), Lstat(x)
      PROVE  x \in Found(c)
  <2>1. n \in DOMAIN stack[c]
    BY <1>2
  <2>2. x \in Found(c) \/ x \in stack[c][n].unread \cap stack[c][n].present
    BY <1>3, <1>6, <2>1 DEF EntriesSeen
  <2>3. \A y \in stack[c][n].unread \cap stack[c][n].present : ~Exists(y)
    BY <1>2, AllRead DEF SearchFrameEnds, LeftAlone
  <2> QED
    BY <1>6, <2>2, <2>3 DEF Lstat
<1>7. EntriesSeen(c)'
  <2>1. \A i \in 1 .. n - 1 : i \in 1 .. n
    BY <1>2
  <2> QED
    BY <1>2, <1>3, <1>4, <1>5, <2>1 DEF EntriesSeen
<1>8. DirsSeen(c)'
  <2> SUFFICES ASSUME NEW g \in Found(c), g \notin Open(c)', g \notin fault.denied,
                      disk[g] = "dir", NEW x \in ChildrenOf(g), Lstat(x)
               PROVE  x \in Found(c)
    BY <1>2, <1>4 DEF DirsSeen
  <2>1. CASE g = d
    <3>1. g # Top
      BY <1>1, PlatformFileAssumption DEF EndsNode
    <3> QED
      BY <1>6, <2>1, <3>1 DEF EntriesOf
  <2>2. CASE g # d
    BY <1>2, <1>3, <2>2 DEF DirsSeen
  <2> QED
    BY <2>1, <2>2
<1>9. pc'[c] = "found" /\ Lstat(p) => p \in Found(c)
  BY <1>2, <1>6 DEF EntriesOf
<1> QED
  BY <1>2, <1>3, <1>4, <1>7, <1>8, <1>9 DEF NothingMissed

\* No step of the thread misses anything.
LEMMA NothingMissedGoesOn ==
  ASSUME WalkInv, NEW c \in Callers, SearchInv(c), NothingMissed(c), Acts(c)
  PROVE  NothingMissed(c)'
<1> SUFFICES ASSUME Counts(c)', Alone(c)' PROVE NothingMissed(c)'
  BY DEF NothingMissed
<1>1. LeftAlone(c)
  BY DiskRests
<1>2. CASE StartWalk(c)
  BY <1>1, <1>2, NothingMissedAtStart
<1>3. CASE ReadToSearch(c) \/ ReadGone(c) \/ EnterFails(c) \/ EnterOpens(c) \/ SearchFrameEnds(c)
  BY <1>1, <1>3, NothingMissedAtRead, NothingMissedAtGone, NothingMissedAtFailure,
     NothingMissedAtOpening, NothingMissedAtEnd
<1>4. CASE StartNothing(c) \/ StartMake(c) \/ MakeStep(c) \/ MakeDone(c) \/ FreeFileInfo(c)
  <2>1. pc'[c] \in {"mkdir", "done"}
    BY <1>4 DEF StartNothing, StartMake, MakeStep, MakeDone, Fail, FreeFileInfo, Set,
                WalkInv, Typed, LocalTyped
  <2> QED
    BY <2>1 DEF Counts
<1>5. CASE ReadToRemove(c) \/ RemoveFrameEnds(c) \/ RemoveEntry(c) \/ RemoveDir(c)
  <2>1. Removing(c) /\ call' = call
    BY <1>5 DEF ReadToRemove, RemoveFrameEnds, RemoveEntry, RemoveDir, Removed, WalkInv, Placed
  <2> QED
    BY <2>1 DEF Removing, Searching, Counts
<1> QED
  BY <1>2, <1>3, <1>4, <1>5 DEF Acts, Step

\* A step of another thread leaves the disk as it is, or the search not alone.
LEMMA NothingMissedStill ==
  ASSUME WalkInv, NEW o \in Callers, Acts(o), NEW c \in Callers, c # o, NothingMissed(c)
  PROVE  NothingMissed(c)'
<1> SUFFICES ASSUME Counts(c)', Alone(c)' PROVE NothingMissed(c)'
  BY DEF NothingMissed
<1>1. LeftAlone(c)
  BY DiskRests
<1>2. Still(c)
  BY OneThreadSteps DEF WalkInv
<1>3. /\ call'[c] = call[c] /\ pc'[c] = pc[c] /\ stack'[c] = stack[c]
      /\ at'[c] = at[c] /\ size'[c] = size[c]
  BY <1>2 DEF Still
<1>4. /\ Found(c)' = Found(c) /\ Open(c)' = Open(c) /\ Counts(c)
      /\ \A x : EntriesOf(c, x)' = EntriesOf(c, x)
  BY <1>3 DEF Found, Open, EntriesOf, Counts, Searching
<1>5. disk' = disk /\ fault' = fault /\ Alone(c) /\ \A x : Lstat(x)' <=> Lstat(x)
  BY <1>1 DEF LeftAlone
<1>6. EntriesSeen(c) => EntriesSeen(c)'
  BY <1>3, <1>4, <1>5 DEF EntriesSeen
<1>7. DirsSeen(c) => DirsSeen(c)'
  BY <1>3, <1>4, <1>5 DEF DirsSeen
<1> QED
  BY <1>3, <1>4, <1>5, <1>6, <1>7 DEF NothingMissed

(***************************************************************************)
(* The invariant of what is found: as long as nobody changes the disk,     *)
(* what can be seen in a directory that was come to has a node, or is      *)
(* still to be read, unless the directory cannot be opened.                *)
(***************************************************************************)
THEOREM FoundInvariant == Spec => []FoundInv
<1>1. Init => FoundInv
  BY DEF Init, FoundInv, NothingMissed, Searching, NoCall, Counts
<1>2. WalkInv /\ SizeInv /\ FoundInv /\ [Next]_vars => FoundInv'
  <2>1. FoundInv /\ UNCHANGED vars => FoundInv'
    BY DEF FoundInv, NothingMissed, Counts, Searching, Alone, Others, EntriesSeen, DirsSeen,
           Found, Open, EntriesOf, Lstat, Visible, Exists, vars, env, local, tree
  <2>2. ASSUME WalkInv, SizeInv, FoundInv, NEW o \in Callers, Acts(o), NEW c \in Callers
        PROVE  NothingMissed(c)'
    BY <2>2, NothingMissedGoesOn, NothingMissedStill DEF FoundInv, SizeInv
  <2> QED
    BY <2>1, <2>2, ThreadsAct DEF FoundInv
<1> QED
  BY <1>1, <1>2, WalkInvariant, SizeInvariant, PTL DEF Spec

\* Then a search that has ended has a node for each path that can be seen.
LEMMA AllIsFound ==
  ASSUME WalkInv, DiskIsTree, NEW c \in Callers, NothingMissed(c),
         pc[c] = "found", Alone(c)
  PROVE  Found(c) = {x \in Under(call[c].path) : Lstat(x)}
<1> PICK p : p = call[c].path
  OBVIOUS
<1>1. /\ Counts(c) /\ p \in Paths /\ stack[c] = <<>> /\ Found(c) \subseteq Under(p)
  BY DEF WalkInv, Placed, Walk, Counts, Found
<1>2. Open(c) = {}
  <2>1. Len(stack[c]) = 0 /\ 2 .. 0 = {}
    BY <1>1
  <2> QED
    BY <2>1 DEF Open
<1>3. /\ \A x \in Found(c) : Lstat(x)
      /\ Lstat(p) => p \in Found(c)
      /\ \A d \in Found(c) \ fault.denied :
           disk[d] = "dir" => \A x \in ChildrenOf(d) : Lstat(x) => x \in Found(c)
  BY <1>1, <1>2 DEF NothingMissed, DirsSeen
<1> DEFINE T == {x \in Paths : x \in Under(p) /\ Lstat(x) => x \in Found(c)}
<1>4. ASSUME NEW x \in Paths, Parent[x] = Top \/ Parent[x] \in T
      PROVE  x \in T
  <2> SUFFICES ASSUME x \in Under(p), Lstat(x), x # p PROVE x \in Found(c)
    BY <1>3
  <2>0. Parent[x] \in Under(p) /\ Parent[x] \in Paths
    BY <1>1, UnderByParent
  <2> PICK d : d = Parent[x]
    OBVIOUS
  <2>1. d \in Under(p) /\ d \in Paths
    BY <2>0
  <2>2. d # Top
    BY <2>1, PlatformFileAssumption
  <2>3. Above[x] = {d} \cup Above[d]
    BY <2>2, AboveDefined
  <2>4. Lstat(d) /\ d \notin fault.denied /\ disk[d] = "dir"
    BY <2>2, <2>3 DEF Lstat, Visible, DiskIsTree, Exists
  <2>5. d \in Found(c)
    BY <1>4, <2>1, <2>2, <2>4
  <2> QED
    BY <1>3, <2>4, <2>5 DEF ChildrenOf
<1> HIDE DEF T
<1>5. Paths \subseteq T
  BY <1>4, TreeInduction
<1>6. \A x \in Under(p) : Lstat(x) => x \in Found(c)
  BY <1>5 DEF T, Under
<1> QED
  BY <1>1, <1>3, <1>6

(***************************************************************************)
(* A search that nobody disturbs returns all that can be seen below the    *)
(* path: it is found, and what is found can be reached from the list that  *)
(* is returned, whatever the order it is sorted in (SearchFindsAll).       *)
(***************************************************************************)
THEOREM AllIsReached == Spec => []SearchFindsAll
<1>1. ASSUME WalkInv, DiskInv, SizeInv, NodeInv, FoundInv PROVE SearchFindsAll
  <2> SUFFICES ASSUME NEW c \in Callers, pc[c] = "found", Alone(c)
               PROVE  Reached(c) = {x \in Under(call[c].path) : Lstat(x)}
    BY DEF SearchFindsAll
  <2>1. Forest(call[c].path, Found(c), child[c])
    BY <1>1, ListsLead DEF SizeInv, NodeInv
  <2>2. Reached(c) = Found(c)
    BY <2>1, ReachedAll
  <2> QED
    BY <1>1, <2>2, AllIsFound DEF DiskInv, FoundInv
<1>2. WalkInv /\ DiskInv /\ SizeInv /\ NodeInv /\ FoundInv => SearchFindsAll
  BY <1>1
<1> QED
  BY <1>2, WalkInvariant, DiskInvariant, SizeInvariant, NodeInvariant, FoundInvariant, PTL
=============================================================================
