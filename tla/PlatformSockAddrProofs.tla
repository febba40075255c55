----------------------- MODULE PlatformSockAddrProofs -----------------------
(***************************************************************************)
(* The socket addresses, for bytes of any range and addresses of any       *)
(* length: counting goes to the neighbouring address, every object has its *)
(* handle, and calls about a group do what they are named for.             *)
(***************************************************************************)
EXTENDS PlatformSockAddr, FiniteSetTheorems, WellFoundedInduction, TLAPS

-----------------------------------------------------------------------------
(* The least and the greatest of a set of numbers. *)

(***************************************************************************)
(* A set of natural numbers has a least element, and Min is it: the byte   *)
(* at which Ipv4Cmp and Ipv6Cmp stop.                                      *)
(***************************************************************************)
LEMMA MinIsLeast ==
  ASSUME NEW S \in SUBSET Nat, S # {}
  PROVE  Min(S) \in S /\ \A y \in S : Min(S) <= y
<1> DEFINE Less == {ss \in Nat \X Nat : ss[1] < ss[2]}
<1>1. IsWellFoundedOn(Less, Nat)
  BY NatLessThanWellFounded, Zenon DEF OpToRel
<1>2. PICK x \in S : \A y \in S : ~(<<y, x>> \in Less)
  BY <1>1, WFMin
<1>3. ASSUME NEW y \in S
      PROVE  x <= y
  <2>1. x \in Nat /\ y \in Nat /\ ~(<<y, x>> \in Less)
    BY <1>2
  <2>2. ~(y < x)
    BY <2>1
  <2> QED
    BY <2>1, <2>2
<1> QED
  BY <1>3 DEF Min

(***************************************************************************)
(* A bounded one has a greatest, and Max is it: the byte at which Increase *)
(* and Decrease stop to carry.                                             *)
(***************************************************************************)
LEMMA MaxIsGreatest ==
  ASSUME NEW n \in Nat, NEW S \in SUBSET (0 .. n), S # {}
  PROVE  Max(S) \in S /\ \A y \in S : y <= Max(S)
<1> DEFINE T == {n - x : x \in S}
<1>1. T \in SUBSET Nat /\ T # {}
  <2>1. \A x \in S : n - x \in Nat
    OBVIOUS
  <2> QED
    BY <2>1
<1>2. Min(T) \in T /\ \A y \in T : Min(T) <= y
  BY <1>1, MinIsLeast
<1>3. PICK x \in S : Min(T) = n - x
  BY <1>2
<1>4. \A y \in S : x >= y
  BY <1>2, <1>3
<1> QED
  BY <1>4 DEF Max

-----------------------------------------------------------------------------
(* The order of the addresses, and counting in it. *)

\* Addresses of some length, as the lemmas see them.
Strings(n) == [1 .. n -> 0 .. Base - 1]

(***************************************************************************)
(* Cmp decides by the first byte that differs.                             *)
(***************************************************************************)
LEMMA CmpDecides ==
  ASSUME NEW n \in Nat, NEW l \in Strings(n), NEW r \in Strings(n),
         NEW i \in 1 .. n, \A j \in 1 .. n : j < i => l[j] = r[j], l[i] # r[i]
  PROVE  Cmp(l, r) = IF l[i] > r[i] THEN 1 ELSE -1
<1> DEFINE D == {j \in DOMAIN l : l[j] # r[j]}
<1>1. DOMAIN l = 1 .. n
  BY DEF Strings
<1>2. D \in SUBSET Nat /\ i \in D
  BY <1>1
<1>3. Min(D) \in D /\ \A y \in D : Min(D) <= y
  BY <1>2, MinIsLeast
<1>4. Min(D) = i
  <2>1. Min(D) \in 1 .. n /\ l[Min(D)] # r[Min(D)] /\ Min(D) <= i
    BY <1>1, <1>2, <1>3
  <2> QED
    BY <2>1
<1> QED
  BY <1>1, <1>4 DEF Cmp

(***************************************************************************)
(* Cmp is 0 of equal addresses only, and otherwise some byte decides.      *)
(***************************************************************************)
LEMMA CmpDiffers ==
  ASSUME NEW n \in Nat, NEW l \in Strings(n), NEW r \in Strings(n), Cmp(l, r) # 0
  PROVE  \E i \in 1 .. n : /\ l[i] # r[i]
                           /\ \A j \in 1 .. n : j < i => l[j] = r[j]
<1> DEFINE D == {j \in DOMAIN l : l[j] # r[j]}
<1>1. DOMAIN l = 1 .. n
  BY DEF Strings
<1>2. D \in SUBSET Nat /\ D # {}
  BY <1>1 DEF Cmp
<1>3. Min(D) \in D /\ \A y \in D : Min(D) <= y
  BY <1>2, MinIsLeast
<1>4. Min(D) \in 1 .. n /\ l[Min(D)] # r[Min(D)]
  BY <1>1, <1>3
<1>5. ASSUME NEW j \in 1 .. n, j < Min(D)
      PROVE  l[j] = r[j]
  <2>1. j \notin D
    BY <1>3, <1>4, <1>5
  <2> QED
    BY <1>1, <2>1
<1> QED
  BY <1>4, <1>5

(***************************************************************************)
(* Equal addresses compare as such.                                        *)
(***************************************************************************)
LEMMA CmpSame ==
  ASSUME NEW n \in Nat, NEW l \in Strings(n), NEW r \in Strings(n)
  PROVE  Cmp(l, r) \in {0, 1, -1} /\ (Cmp(l, r) = 0 <=> l = r)
<1>1. CASE l = r
  BY <1>1 DEF Cmp
<1>2. CASE l # r
  <2>1. \E j \in 1 .. n : l[j] # r[j]
    BY <1>2 DEF Strings
  <2> QED
    BY <1>2, <2>1 DEF Cmp, Strings
<1> QED
  BY <1>1, <1>2

(***************************************************************************)
(* The byte at which a count stops to carry: what follows it overflows.    *)
(***************************************************************************)
LEMMA LastNotIsLast ==
  ASSUME NEW n \in Nat, NEW b \in Strings(n), NEW v
  PROVE  /\ LastNot(b, v) \in 0 .. n
         /\ LastNot(b, v) # 0 => b[LastNot(b, v)] # v
         /\ \A i \in 1 .. n : i > LastNot(b, v) => b[i] = v
<1> DEFINE S == {i \in DOMAIN b : b[i] # v} \cup {0}
<1>1. DOMAIN b = 1 .. n
  BY DEF Strings
<1>2. S \in SUBSET (0 .. n) /\ S # {}
  BY <1>1
<1>3. Max(S) \in S /\ \A y \in S : y <= Max(S)
  BY <1>2, MaxIsGreatest
<1>4. LastNot(b, v) = Max(S)
  BY DEF LastNot
<1>5. \A i \in 1 .. n : i > Max(S) => i \notin S
  BY <1>2, <1>3
<1> QED
  BY <1>1, <1>2, <1>3, <1>4, <1>5

(***************************************************************************)
(* The arithmetic of uint8_t, for bytes of Base values.                    *)
(***************************************************************************)
LEMMA ByteArithmetic ==
  ASSUME NEW x \in 0 .. Base - 1
  PROVE  /\ (x + 1) % Base = IF x = Base - 1 THEN 0 ELSE x + 1
         /\ (x - 1) % Base = IF x = 0 THEN Base - 1 ELSE x - 1
<1>1. Base \in Nat /\ Base > 1
  BY PlatformSockAddrAssumption DEF PlatformSockAddrAssumption
<1>2. \A y \in 0 .. Base - 1 : y % Base = y
  BY <1>1
<1>3. Base % Base = 0
  BY <1>1
<1>4. (0 - 1) % Base = Base - 1
  BY <1>1
<1>5. CASE x = Base - 1
  BY <1>1, <1>2, <1>3, <1>5
<1>6. CASE x # Base - 1
  BY <1>1, <1>2, <1>4, <1>6
<1> QED
  BY <1>1, <1>2, <1>4, <1>5, <1>6

(***************************************************************************)
(* Increased is the next address: greater, and nothing lies in between;    *)
(* the last address of all stays as it is.                                 *)
(***************************************************************************)
LEMMA IncreasedIsNext ==
  ASSUME NEW n \in Nat, NEW b \in Strings(n)
  PROVE  /\ Increased(b) \in Strings(n)
         /\ LastNot(b, Base - 1) # 0 =>
              /\ Cmp(Increased(b), b) = 1 /\ Cmp(b, Increased(b)) = -1
              /\ \A c \in Strings(n) : Cmp(c, b) = 1 => Cmp(c, Increased(b)) \in {0, 1}
         /\ LastNot(b, Base - 1) = 0 =>
              /\ Increased(b) = b
              /\ \A c \in Strings(n) : Cmp(c, b) # 1
<1> DEFINE k == LastNot(b, Base - 1)
           a == Increased(b)
<1>1. Base \in Nat /\ Base > 1
  BY PlatformSockAddrAssumption DEF PlatformSockAddrAssumption
<1>2. DOMAIN b = 1 .. n /\ \A j \in 1 .. n : b[j] \in 0 .. Base - 1
  BY DEF Strings
<1>3. /\ k \in 0 .. n
      /\ k # 0 => b[k] # Base - 1
      /\ \A i \in 1 .. n : i > k => b[i] = Base - 1
  BY LastNotIsLast
<1> HIDE DEF k
<1>4. CASE k = 0
  <2>1. a = b
    BY <1>4 DEF Increased, k
  <2>2. ASSUME NEW c \in Strings(n), Cmp(c, b) = 1
        PROVE  FALSE
    <3>1. PICK i \in 1 .. n : c[i] # b[i] /\ \A j \in 1 .. n : j < i => c[j] = b[j]
      BY <2>2, CmpDiffers
    <3>2. c[i] > b[i]
      BY <2>2, <3>1, CmpDecides
    <3>3. b[i] = Base - 1 /\ c[i] \in 0 .. Base - 1
      BY <1>3, <1>4 DEF Strings
    <3> QED
      BY <1>1, <3>2, <3>3
  <2> QED
    BY <1>4, <2>1, <2>2 DEF k
<1>5. CASE k # 0
  <2>1. k \in 1 .. n /\ b[k] \in 0 .. Base - 2
    BY <1>1, <1>2, <1>3, <1>5
  <2>2. a = [i \in 1 .. n |-> IF i >= k THEN (b[i] + 1) % Base ELSE b[i]]
    BY <1>2, <1>5 DEF Increased, k
  <2>3. \A j \in 1 .. n : j < k => a[j] = b[j]
    BY <2>1, <2>2
  <2>4. a[k] = b[k] + 1
    BY <1>1, <2>1, <2>2, <1>2, <1>3, ByteArithmetic
  <2>5. ASSUME NEW j \in 1 .. n, j > k
        PROVE  a[j] = 0
    <3>1. b[j] = Base - 1 /\ b[j] \in 0 .. Base - 1
      BY <1>2, <1>3, <2>5
    <3>2. a[j] = (b[j] + 1) % Base
      BY <2>1, <2>2, <2>5
    <3> QED
      BY <3>1, <3>2, ByteArithmetic
  <2>6. a \in Strings(n)
    <3>1. \A j \in 1 .. n : a[j] \in 0 .. Base - 1
      BY <1>1, <1>2, <2>1, <2>3, <2>4, <2>5
    <3> QED
      BY <2>2, <3>1 DEF Strings
  <2> HIDE DEF a
  <2>7. Cmp(a, b) = 1 /\ Cmp(b, a) = -1
    <3>1. a[k] > b[k] /\ a[k] # b[k] /\ ~(b[k] > a[k])
      BY <2>1, <2>4
    <3> QED
      BY <2>1, <2>3, <2>6, <3>1, CmpDecides
  <2>8. ASSUME NEW c \in Strings(n), Cmp(c, b) = 1
        PROVE  Cmp(c, a) \in {0, 1}
    <3>1. PICK i \in 1 .. n : c[i] # b[i] /\ \A j \in 1 .. n : j < i => c[j] = b[j]
      BY <2>8, CmpDiffers
    <3>2. c[i] > b[i] /\ c[i] \in 0 .. Base - 1
      <4>1. c[i] > b[i]
        BY <2>8, <3>1, CmpDecides
      <4> QED
        BY <4>1 DEF Strings
    <3>3. i <= k
      BY <1>1, <1>3, <2>1, <3>2
    <3>4. CASE i < k
      <4>1. \A j \in 1 .. n : j < i => c[j] = a[j]
        BY <2>1, <2>3, <3>1, <3>4
      <4>2. c[i] > a[i] /\ c[i] # a[i]
        BY <1>2, <2>3, <3>2, <3>4
      <4> QED
        BY <2>6, <4>1, <4>2, CmpDecides
    <3>5. CASE i = k
      <4>1. \A j \in 1 .. n : j < k => c[j] = a[j]
        BY <2>3, <3>1, <3>5
      <4>2. c[k] >= a[k]
        BY <2>1, <2>4, <3>2, <3>5
      <4>3. CASE Cmp(c, a) # 0
        <5>1. PICK m \in 1 .. n : c[m] # a[m] /\ \A j \in 1 .. n : j < m => c[j] = a[j]
          BY <2>6, <4>3, CmpDiffers
        <5>2. m >= k
          BY <2>1, <4>1, <5>1
        <5>3. c[m] > a[m]
          <6>1. c[m] \in 0 .. Base - 1 /\ a[m] \in 0 .. Base - 1
            BY <2>6 DEF Strings
          <6>2. CASE m = k
            BY <1>1, <4>2, <5>1, <6>1, <6>2
          <6>3. CASE m > k
            BY <1>1, <2>5, <5>1, <6>1, <6>3
          <6> QED
            BY <2>1, <5>2, <6>2, <6>3
        <5> QED
          BY <2>6, <5>1, <5>3, CmpDecides
      <4> QED
        BY <4>3
    <3> QED
      BY <2>1, <3>3, <3>4, <3>5
  <2> QED
    BY <1>5, <2>6, <2>7, <2>8 DEF k, a
<1> QED
  BY <1>4, <1>5

(***************************************************************************)
(* Decreased is the address before: less, and nothing lies in between; the *)
(* first address of all stays as it is.                                    *)
(***************************************************************************)
LEMMA DecreasedIsPrevious ==
  ASSUME NEW n \in Nat, NEW b \in Strings(n)
  PROVE  /\ Decreased(b) \in Strings(n)
         /\ LastNot(b, 0) # 0 =>
              /\ Cmp(Decreased(b), b) = -1 /\ Cmp(b, Decreased(b)) = 1
              /\ \A c \in Strings(n) : Cmp(c, b) = -1 => Cmp(c, Decreased(b)) \in {0, -1}
         /\ LastNot(b, 0) = 0 =>
              /\ Decreased(b) = b
              /\ \A c \in Strings(n) : Cmp(c, b) # -1
<1> DEFINE k == LastNot(b, 0)
           a == Decreased(b)
<1>1. Base \in Nat /\ Base > 1
  BY PlatformSockAddrAssumption DEF PlatformSockAddrAssumption
<1>2. DOMAIN b = 1 .. n /\ \A j \in 1 .. n : b[j] \in 0 .. Base - 1
  BY DEF Strings
<1>3. /\ k \in 0 .. n
      /\ k # 0 => b[k] # 0
      /\ \A i \in 1 .. n : i > k => b[i] = 0
  BY LastNotIsLast
<1> HIDE DEF k
<1>4. CASE k = 0
  <2>1. a = b
    BY <1>4 DEF Decreased, k
  <2>2. ASSUME NEW c \in Strings(n), Cmp(c, b) = -1
        PROVE  FALSE
    <3>1. PICK i \in 1 .. n : c[i] # b[i] /\ \A j \in 1 .. n : j < i => c[j] = b[j]
      BY <2>2, CmpDiffers
    <3>2. ~(c[i] > b[i])
      BY <2>2, <3>1, CmpDecides
    <3>3. b[i] = 0 /\ c[i] \in 0 .. Base - 1
      BY <1>3, <1>4 DEF Strings
    <3> QED
      BY <1>1, <3>1, <3>2, <3>3
  <2> QED
    BY <1>4, <2>1, <2>2 DEF k
<1>5. CASE k # 0
  <2>1. k \in 1 .. n /\ b[k] \in 1 .. Base - 1
    BY <1>1, <1>2, <1>3, <1>5
  <2>2. a = [i \in 1 .. n |-> IF i >= k THEN (b[i] - 1) % Base ELSE b[i]]
    BY <1>2, <1>5 DEF Decreased, k
  <2>3. \A j \in 1 .. n : j < k => a[j] = b[j]
    BY <2>1, <2>2
  <2>4. a[k] = b[k] - 1
    BY <1>1, <2>1, <2>2, <1>2, <1>3, ByteArithmetic
  <2>5. ASSUME NEW j \in 1 .. n, j > k
        PROVE  a[j] = Base - 1
    <3>1. b[j] = 0 /\ b[j] \in 0 .. Base - 1
      BY <1>2, <1>3, <2>5
    <3>2. a[j] = (b[j] - 1) % Base
      BY <2>1, <2>2, <2>5
    <3> QED
      BY <3>1, <3>2, ByteArithmetic
  <2>6. a \in Strings(n)
    <3>1. \A j \in 1 .. n : a[j] \in 0 .. Base - 1
      BY <1>1, <1>2, <2>1, <2>3, <2>4, <2>5
    <3> QED
      BY <2>2, <3>1 DEF Strings
  <2> HIDE DEF a
  <2>7. Cmp(a, b) = -1 /\ Cmp(b, a) = 1
    <3>1. b[k] > a[k] /\ a[k] # b[k] /\ ~(a[k] > b[k])
      BY <2>1, <2>4
    <3> QED
      BY <2>1, <2>3, <2>6, <3>1, CmpDecides
  <2>8. ASSUME NEW c \in Strings(n), Cmp(c, b) = -1
        PROVE  Cmp(c, a) \in {0, -1}
    <3>1. PICK i \in 1 .. n : c[i] # b[i] /\ \A j \in 1 .. n : j < i => c[j] = b[j]
      BY <2>8, CmpDiffers
    <3>2. c[i] < b[i] /\ c[i] \in 0 .. Base - 1
      <4>1. ~(c[i] > b[i])
        BY <2>8, <3>1, CmpDecides
      <4>2. c[i] \in 0 .. Base - 1 /\ b[i] \in 0 .. Base - 1
        BY DEF Strings
      <4> QED
        BY <1>1, <3>1, <4>1, <4>2
    <3>3. i <= k
      BY <1>1, <1>3, <2>1, <3>2
    <3>4. CASE i < k
      <4>1. \A j \in 1 .. n : j < i => c[j] = a[j]
        BY <2>1, <2>3, <3>1, <3>4
      <4>2. c[i] < a[i] /\ ~(c[i] > a[i]) /\ c[i] # a[i]
        BY <1>2, <2>3, <3>2, <3>4
      <4> QED
        BY <2>6, <4>1, <4>2, CmpDecides
    <3>5. CASE i = k
      <4>1. \A j \in 1 .. n : j < k => c[j] = a[j]
        BY <2>3, <3>1, <3>5
      <4>2. c[k] <= a[k]
        BY <2>1, <2>4, <3>2, <3>5
      <4>3. CASE Cmp(c, a) # 0
        <5>1. PICK m \in 1 .. n : c[m] # a[m] /\ \A j \in 1 .. n : j < m => c[j] = a[j]
          BY <2>6, <4>3, CmpDiffers
        <5>2. m >= k
          BY <2>1, <4>1, <5>1
        <5>3. c[m] < a[m] /\ ~(c[m] > a[m])
          <6>1. c[m] \in 0 .. Base - 1 /\ a[m] \in 0 .. Base - 1
            BY <2>6 DEF Strings
          <6>2. CASE m = k
            BY <1>1, <4>2, <5>1, <6>1, <6>2
          <6>3. CASE m > k
            BY <1>1, <2>5, <5>1, <6>1, <6>3
          <6> QED
            BY <2>1, <5>2, <6>2, <6>3
        <5> QED
          BY <2>6, <5>1, <5>3, CmpDecides
      <4> QED
        BY <4>3
    <3> QED
      BY <2>1, <3>3, <3>4, <3>5
  <2> QED
    BY <1>5, <2>6, <2>7, <2>8 DEF k, a
<1> QED
  BY <1>4, <1>5

-----------------------------------------------------------------------------
(* The handles. *)

\* What a handle may hold.
Objects == UNION {[family : {f}, addr : Bytes(f), ifName : IfNames] : f \in Families}

Used == {s \in Slots : hdl[s] # NULL}

\* The inductive part of TypeOK about the handles.
HandleInv ==
  /\ hdl \in [Slots -> Objects \cup {NULL}]
  /\ objects = Cardinality(Used)

\* What memberships are: one without a list of sources has none.
Typed(f) ==
  /\ f = [m \in DOMAIN f |-> f[m]]
  /\ \A m \in DOMAIN f : /\ f[m].mode \in {"include", "exclude"}
                         /\ f[m].listed \in BOOLEAN
                         /\ f[m].listed \/ f[m].sources = {}

\* And about the socket.
SockInv ==
  /\ kind \in {"dgram", "stream"}
  /\ bound \in BOOLEAN
  /\ device \in IfNames
  /\ Typed(filter)

(***************************************************************************)
(* What a handle holds is an address of its family, and is not NULL.       *)
(***************************************************************************)
LEMMA ObjectsTyped ==
  /\ NULL \notin Objects
  /\ \A o \in Objects : /\ o.family \in Families
                         /\ o.addr \in Bytes(o.family)
                         /\ o.ifName \in IfNames
                         /\ [family |-> o.family, addr |-> o.addr] \in Addresses
                         /\ o = [family |-> o.family, addr |-> o.addr, ifName |-> o.ifName]
<1>1. \A o \in Objects :
        \E f \in Families : o \in [family : {f}, addr : Bytes(f), ifName : IfNames]
  BY Zenon DEF Objects
<1>2. \A f \in Families : [family : {f}, addr : Bytes(f)] \subseteq Addresses
  BY Zenon DEF Addresses
<1>3. ASSUME NEW o \in Objects
      PROVE  /\ o.family \in Families
             /\ o.addr \in Bytes(o.family)
             /\ o.ifName \in IfNames
             /\ [family |-> o.family, addr |-> o.addr] \in Addresses
             /\ o = [family |-> o.family, addr |-> o.addr, ifName |-> o.ifName]
  <2>1. PICK f \in Families : o \in [family : {f}, addr : Bytes(f), ifName : IfNames]
    BY <1>1
  <2>2. /\ o.family = f /\ o.addr \in Bytes(f) /\ o.ifName \in IfNames
        /\ o = [family |-> o.family, addr |-> o.addr, ifName |-> o.ifName]
    BY <2>1
  <2>3. [family |-> o.family, addr |-> o.addr] \in [family : {f}, addr : Bytes(f)]
    BY <2>2
  <2> QED
    BY <1>2, <2>2, <2>3
<1>4. NULL.family \notin Families
  BY DEF NULL, Families
<1> QED
  BY <1>3, <1>4

(***************************************************************************)
(* What the constructors make is such an object.                           *)
(***************************************************************************)
LEMMA ObjectTyped ==
  ASSUME NEW a \in Addresses, NEW n \in IfNames
  PROVE  Object(a, n) \in Objects
<1>1. PICK f \in Families : a \in [family : {f}, addr : Bytes(f)]
  BY Zenon DEF Addresses
<1>2. Object(a, n) \in [family : {f}, addr : Bytes(f), ifName : IfNames]
  BY <1>1 DEF Object
<1> QED
  BY <1>2, Zenon DEF Objects

(***************************************************************************)
(* The interface that SetLocalArgs finds is named in the list.             *)
(***************************************************************************)
LEMMA LocalIfTyped ==
  ASSUME NEW a
  PROVE  LocalIf(a) \in IfNames
<1>1. Interfaces \in Seq([name : STRING, family : STRING, addr : Seq(0 .. Base - 1)])
  BY PlatformSockAddrAssumption DEF PlatformSockAddrAssumption
<1>2. DOMAIN Interfaces \subseteq Nat
  BY <1>1
<1>3. ASSUME NEW D \in SUBSET (DOMAIN Interfaces), D # {}
      PROVE  Interfaces[Min(D)].name \in IfNames
  <2>1. Min(D) \in D
    BY <1>2, <1>3, MinIsLeast
  <2> QED
    BY <2>1 DEF IfNames
<1>4. LocalIf4(a) \in IfNames
  BY <1>3, Zenon DEF IfNames, LocalIf4, EntriesOf
<1>5. LocalIf6(a) \in IfNames
  BY <1>3, Zenon DEF IfNames, LocalIf6
<1> QED
  BY <1>4, <1>5 DEF LocalIf

(***************************************************************************)
(* What the arguments of the calls are.                                    *)
(***************************************************************************)
LEMMA ArgumentsTyped ==
  /\ Hosts \subseteq Addresses /\ Groups \subseteq Addresses /\ Peers \subseteq Addresses
  /\ \A list \in Resolved : list[1] \in Addresses
<1>1. \A list \in Resolved : list \in Seq(Addresses) /\ list # <<>>
  BY PlatformSockAddrAssumption DEF PlatformSockAddrAssumption
<1>2. \A list \in Resolved : list[1] \in Addresses
  BY <1>1
<1> QED
  BY <1>2, PlatformSockAddrAssumption DEF PlatformSockAddrAssumption

(***************************************************************************)
(* The caller has finitely many handles.                                   *)
(***************************************************************************)
LEMMA UsedFinite == IsFiniteSet(Used)
<1>1. IsFiniteSet({"group"})
  BY FS_Singleton
<1>2. IsFiniteSet({"group"} \cup {"local"})
  BY <1>1, FS_AddElement
<1>3. IsFiniteSet(({"group"} \cup {"local"}) \cup {"source"})
  BY <1>2, FS_AddElement
<1>4. Slots = ({"group"} \cup {"local"}) \cup {"source"}
  BY DEF Slots
<1>5. Used \subseteq Slots
  BY DEF Used
<1> QED
  BY <1>3, <1>4, <1>5, FS_Subset

(***************************************************************************)
(* A handle that was free gets an object: one object more.                 *)
(***************************************************************************)
LEMMA NewKeeps ==
  ASSUME HandleInv, NEW s \in Slots, hdl[s] = NULL, NEW o \in Objects, New(s, o)
  PROVE  HandleInv'
<1>1. hdl' \in [Slots -> Objects \cup {NULL}] /\ hdl' = [hdl EXCEPT ![s] = o]
  BY DEF HandleInv, New
<1>2. o # NULL
  BY ObjectsTyped
<1>3. Used' = Used \cup {s} /\ s \notin Used
  BY <1>1, <1>2 DEF Used, HandleInv
<1>4. IsFiniteSet(Used)
  BY UsedFinite
<1>5. Cardinality(Used \cup {s}) = Cardinality(Used) + 1
  BY <1>3, <1>4, FS_AddElement
<1> QED
  BY <1>1, <1>3, <1>5 DEF HandleInv, New

(***************************************************************************)
(* A handle is destroyed: one object less.                                 *)
(***************************************************************************)
LEMMA DestroyKeeps ==
  ASSUME HandleInv, NEW s \in Slots, Destroy(s)
  PROVE  HandleInv'
<1>1. hdl' \in [Slots -> Objects \cup {NULL}] /\ hdl' = [hdl EXCEPT ![s] = NULL]
  BY DEF HandleInv, Destroy
<1>2. Used' = Used \ {s} /\ s \in Used
  BY <1>1 DEF Used, HandleInv, Destroy
<1>3. IsFiniteSet(Used)
  BY UsedFinite
<1>4. Cardinality(Used \ {s}) = Cardinality(Used) - 1
  BY <1>2, <1>3, FS_RemoveElement
<1> QED
  BY <1>1, <1>2, <1>4 DEF HandleInv, Destroy

(***************************************************************************)
(* A handle that is received or accepted into has one object, whether it   *)
(* had one before or not.                                                  *)
(***************************************************************************)
LEMMA ReplaceKeeps ==
  ASSUME HandleInv, NEW s \in Slots, NEW a \in Addresses, Replace(s, a)
  PROVE  HandleInv'
<1>1. Object(a, NoIf) \in Objects
  BY ObjectTyped DEF IfNames
<1>2. hdl' \in [Slots -> Objects \cup {NULL}] /\ hdl' = [hdl EXCEPT ![s] = Object(a, NoIf)]
  BY <1>1 DEF HandleInv, Replace
<1>3. Object(a, NoIf) # NULL
  BY <1>1, ObjectsTyped
<1>4. Used' = Used \cup {s} /\ (s \in Used <=> hdl[s] # NULL)
  BY <1>2, <1>3 DEF Used, HandleInv
<1>5. IsFiniteSet(Used)
  BY UsedFinite
<1>6. Cardinality(Used \cup {s}) = IF s \in Used THEN Cardinality(Used) ELSE Cardinality(Used) + 1
  BY <1>5, FS_AddElement
<1> QED
  BY <1>2, <1>4, <1>6 DEF HandleInv, Replace

(***************************************************************************)
(* Counting changes the address of a handle and nothing else.              *)
(***************************************************************************)
LEMMA CountKeeps ==
  ASSUME HandleInv, NEW s \in Slots, hdl[s] # NULL,
         NEW b \in Bytes(hdl[s].family),
         hdl' = [hdl EXCEPT ![s].addr = b], objects' = objects
  PROVE  HandleInv'
<1>1. hdl[s] \in Objects
  BY DEF HandleInv
<1>2. hdl[s].family \in Families /\ hdl[s].ifName \in IfNames
      /\ hdl[s] = [family |-> hdl[s].family, addr |-> hdl[s].addr, ifName |-> hdl[s].ifName]
  BY <1>1, ObjectsTyped
<1>3. [hdl[s] EXCEPT !.addr = b] = [family |-> hdl[s].family, addr |-> b, ifName |-> hdl[s].ifName]
  BY <1>2
<1>4. [hdl[s] EXCEPT !.addr = b]
        \in [family : {hdl[s].family}, addr : Bytes(hdl[s].family), ifName : IfNames]
  BY <1>2, <1>3
<1>5. [hdl[s] EXCEPT !.addr = b] \in Objects
  BY <1>2, <1>4, Zenon DEF Objects
<1>6. hdl' = [hdl EXCEPT ![s] = [hdl[s] EXCEPT !.addr = b]]
  BY Zenon
<1>7. [hdl[s] EXCEPT !.addr = b] # NULL
  BY <1>5, ObjectsTyped
<1>8. hdl' \in [Slots -> Objects \cup {NULL}] /\ Used' = Used
  BY <1>5, <1>6, <1>7 DEF HandleInv, Used
<1> QED
  BY <1>8 DEF HandleInv

(***************************************************************************)
(* Every step keeps the handles and their objects in agreement.            *)
(***************************************************************************)
LEMMA HandlesKeep ==
  ASSUME HandleInv, [Next]_vars
  PROVE  HandleInv'
<1>1. ASSUME UNCHANGED <<hdl, objects>>
      PROVE  HandleInv'
  BY <1>1 DEF HandleInv, Used
<1>2. ASSUME NEW s \in Slots, Create(s)
      PROVE  HandleInv'
  <2>1. CASE \E a \in Hosts : New(s, Object(a, NoIf))
    BY <1>2, <2>1, ArgumentsTyped, ObjectTyped, NewKeeps DEF Create, IfNames
  <2>2. CASE \E list \in Resolved : New(s, Object(list[1], NoIf))
    BY <1>2, <2>2, ArgumentsTyped, ObjectTyped, NewKeeps DEF Create, IfNames
  <2> QED
    BY <1>1, <1>2, <2>1, <2>2 DEF Create
<1>3. ASSUME NEW s \in Slots, CreateLocal(s)
      PROVE  HandleInv'
  <2>1. CASE \E a \in Hosts : New(s, Object(a, LocalIf(a)))
    <3>1. PICK a \in Hosts : New(s, Object(a, LocalIf(a)))
      BY <2>1
    <3>2. Object(a, LocalIf(a)) \in Objects
      BY ArgumentsTyped, LocalIfTyped, ObjectTyped
    <3> QED
      BY <1>3, <3>1, <3>2, NewKeeps DEF CreateLocal
  <2> QED
    BY <1>1, <1>3, <2>1 DEF CreateLocal
<1>4. ASSUME NEW s \in Reused, Increase(s) \/ Decrease(s)
      PROVE  HandleInv'
  <2>1. s \in Slots /\ hdl[s] # NULL
    BY <1>4, PlatformSockAddrAssumption
       DEF PlatformSockAddrAssumption, Slots, Increase, Decrease
  <2>2. hdl[s].family \in Families /\ hdl[s].addr \in Strings(Width[hdl[s].family])
    BY <2>1, ObjectsTyped DEF HandleInv, Bytes, Strings
  <2>3. Width[hdl[s].family] \in Nat
    BY <2>2, PlatformSockAddrAssumption DEF PlatformSockAddrAssumption
  <2>4. /\ Increased(hdl[s].addr) \in Bytes(hdl[s].family)
        /\ Decreased(hdl[s].addr) \in Bytes(hdl[s].family)
    BY <2>2, <2>3, IncreasedIsNext, DecreasedIsPrevious DEF Bytes, Strings
  <2>5. CASE Increase(s)
    BY <2>1, <2>4, <2>5, CountKeeps DEF Increase
  <2>6. CASE Decrease(s)
    BY <2>1, <2>4, <2>6, CountKeeps DEF Decrease
  <2> QED
    BY <1>4, <2>5, <2>6
<1>5. ASSUME NEW s \in Slots, Accept(s) \/ Recvfrom(s)
      PROVE  HandleInv'
  BY <1>1, <1>5, ArgumentsTyped, ReplaceKeeps DEF Accept, Recvfrom
<1>7. Reused \subseteq Slots
  BY PlatformSockAddrAssumption DEF PlatformSockAddrAssumption, Slots
<1>6. CASE Bind \/ (\E op \in GroupOps : GroupCall(op)) \/ UNCHANGED vars
  BY <1>1, <1>6 DEF Bind, GroupCall, vars
<1> QED
  BY <1>2, <1>3, <1>4, <1>5, <1>6, <1>7, DestroyKeeps DEF Next

(***************************************************************************)
(* What ip_mc_source looks for a source in is a membership.                *)
(***************************************************************************)
LEMMA SwitchedTyped ==
  ASSUME Typed(filter), NEW option, NEW m
  PROVE  /\ Switched(option, m).mode \in {"include", "exclude"}
         /\ Switched(option, m).listed \in BOOLEAN
         /\ Switched(option, m).listed \/ Switched(option, m).sources = {}
<1>1. CASE Joined(m) /\ filter[m].listed
  BY <1>1 DEF Joined, Typed, Switched
<1>2. CASE ~(Joined(m) /\ filter[m].listed)
  <2>1. Switched(option, m) = [mode |-> Mode(option), sources |-> {}, listed |-> FALSE]
    BY <1>2 DEF Switched, Unlisted
  <2>2. Mode(option) \in {"include", "exclude"}
    BY DEF Mode
  <2> QED
    BY <2>1, <2>2
<1> QED
  BY <1>1, <1>2

(***************************************************************************)
(* A request for a membership leaves memberships, taken or refused.        *)
(***************************************************************************)
LEMMA SetsockoptKeeps ==
  ASSUME Typed(filter), NEW option, NEW m, NEW a,
         Setsockopt(option, m, a) \/ Refused(option, m)
  PROVE  Typed(filter')
<1>1. ASSUME NEW x, With(m, x), x.mode \in {"include", "exclude"},
             x.listed \in BOOLEAN, x.listed \/ x.sources = {}
      PROVE  Typed(filter')
  <2>1. /\ DOMAIN filter' = {m} \cup DOMAIN filter
        /\ filter'[m] = x
        /\ \A n \in DOMAIN filter \ {m} : filter'[n] = filter[n]
        /\ filter' = [n \in DOMAIN filter' |-> filter'[n]]
    BY <1>1 DEF With
  <2> QED
    BY <1>1, <2>1 DEF Typed
<1>2. ASSUME Without(m)
      PROVE  Typed(filter')
  BY <1>2 DEF Without, Restrict, Typed
<1>3. ASSUME NEW mode \in {"include", "exclude"}, NEW sources, With(m, Listed(mode, sources))
      PROVE  Typed(filter')
  <2> DEFINE x == Listed(mode, sources)
  <2>1. x.mode = mode /\ x.listed = TRUE
    BY DEF Listed
  <2> HIDE DEF x
  <2>2. With(m, x)
    BY <1>3 DEF x
  <2> QED
    BY <1>1, <2>1, <2>2
<1>4. ASSUME With(m, Unlisted("exclude"))
      PROVE  Typed(filter')
  <2> DEFINE x == Unlisted("exclude")
  <2>1. x.mode = "exclude" /\ x.listed = FALSE /\ x.sources = {}
    BY DEF Unlisted
  <2> HIDE DEF x
  <2>2. With(m, x)
    BY <1>4 DEF x
  <2> QED
    BY <1>1, <2>1, <2>2
<1>5. Mode(option) \in {"include", "exclude"}
  BY DEF Mode
<1>6. CASE Setsockopt(option, m, a)
  BY <1>2, <1>3, <1>4, <1>5, <1>6 DEF Setsockopt, AddsSource, RemovesSource
<1>7. CASE Refused(option, m)
  BY <1>1, <1>7, SwitchedTyped DEF Refused, Typed
<1> QED
  BY <1>6, <1>7

(***************************************************************************)
(* Every step keeps the types of the socket.                               *)
(***************************************************************************)
LEMMA SockKeeps ==
  ASSUME HandleInv, SockInv, [Next]_vars
  PROVE  SockInv'
<1>1. ASSUME UNCHANGED sock
      PROVE  SockInv'
  BY <1>1 DEF SockInv, sock
<1>2. ASSUME Bind
      PROVE  SockInv'
  <2>1. hdl["local"].family = "v4" => hdl["local"].ifName \in IfNames
    <3>1. hdl["local"] \in Objects \/ hdl["local"] = NULL
      BY DEF HandleInv, Slots
    <3>2. NULL.family # "v4"
      BY DEF NULL
    <3> QED
      BY <3>1, <3>2, ObjectsTyped
  <2>2. /\ kind' = kind /\ filter' = filter
        /\ bound' = bound \/ bound' = TRUE
        /\ \/ device' = device
           \/ hdl["local"].family = "v4" /\ device' = hdl["local"].ifName
    BY <1>2 DEF Bind, sock
  <2> QED
    BY <2>1, <2>2 DEF SockInv
<1>3. ASSUME NEW op \in GroupOps, GroupCall(op)
      PROVE  SockInv'
  <2>1. Typed(filter')
    BY <1>3, SetsockoptKeeps DEF GroupCall, SockInv
  <2> QED
    BY <1>3, <2>1 DEF GroupCall, SockInv
<1>4. CASE UNCHANGED vars
  BY <1>1, <1>4 DEF vars
<1>5. ASSUME NEW s \in Slots,
             \/ Create(s) \/ CreateLocal(s) \/ Destroy(s)
             \/ Increase(s) \/ Decrease(s) \/ Accept(s) \/ Recvfrom(s)
      PROVE  SockInv'
  BY <1>1, <1>5 DEF Create, CreateLocal, Destroy, Increase, Decrease, Accept, Recvfrom, sock
<1>6. Reused \subseteq Slots
  BY PlatformSockAddrAssumption DEF PlatformSockAddrAssumption, Slots
<1> QED
  BY <1>2, <1>3, <1>4, <1>5, <1>6 DEF Next

(***************************************************************************)
(* The types of the handles and of the socket are inductive together.      *)
(***************************************************************************)
LEMMA AddrInvariant == Spec => [](HandleInv /\ SockInv)
<1>1. Init => HandleInv /\ SockInv
  <2> SUFFICES ASSUME Init
               PROVE  HandleInv /\ SockInv
    OBVIOUS
  <2>1. Used = {}
    BY DEF Init, Used
  <2>2. HandleInv
    BY <2>1, FS_EmptySet DEF Init, HandleInv
  <2>3. filter = <<>> /\ DOMAIN filter = {}
    BY DEF Init
  <2>4. filter = [m \in DOMAIN filter |-> filter[m]]
    BY <2>3
  <2> QED
    BY <2>2, <2>3, <2>4 DEF Init, SockInv, IfNames, Typed
<1>2. HandleInv /\ SockInv /\ [Next]_vars => (HandleInv /\ SockInv)'
  BY HandlesKeep, SockKeeps
<1> QED
  BY <1>1, <1>2, PTL DEF Spec

(***************************************************************************)
(* Type correctness; and every object has its handle, however handles are  *)
(* created, counted, received into and destroyed.                          *)
(***************************************************************************)
THEOREM SockAddrTypeCorrect == Spec => []TypeOK
<1>1. HandleInv /\ SockInv => TypeOK
  <2> SUFFICES ASSUME HandleInv, SockInv
               PROVE  TypeOK
    OBVIOUS
  <2>1. ASSUME NEW s \in Slots, hdl[s] # NULL
        PROVE  /\ [family |-> hdl[s].family, addr |-> hdl[s].addr] \in Addresses
               /\ hdl[s].ifName \in IfNames
    BY <2>1, ObjectsTyped DEF HandleInv
  <2>2. objects = Cardinality({s \in Slots : hdl[s] # NULL})
    BY DEF HandleInv, Used
  <2> QED
    BY <2>1, <2>2 DEF TypeOK, SockInv, Typed
<1> QED
  BY <1>1, AddrInvariant, PTL

-----------------------------------------------------------------------------
(* Counting. *)

(***************************************************************************)
(* PSockAddrRecvfrom is none of the calls about an address.                *)
(***************************************************************************)
LEMMA RecvfromIsRecvfrom ==
  ASSUME NEW s, Recvfrom(s)
  PROVE  last'.op = "recvfrom"
<1>1. PICK rc : Returns("recvfrom", s, rc)
  BY Zenon DEF Recvfrom
<1> QED
  BY <1>1 DEF Returns

(***************************************************************************)
(* PSockAddrIncrease goes to the next address, and returns -1 at the last. *)
(***************************************************************************)
LEMMA IncreaseExact ==
  ASSUME HandleInv, NEW s \in Slots, Increase(s)
  PROVE  /\ last'.op = "increase" /\ last'.slot = s
         /\ last'.rc = 0 =>
              /\ Cmp(hdl'[s].addr, hdl[s].addr) = 1
              /\ Cmp(hdl[s].addr, hdl'[s].addr) = -1
              /\ \A b \in Bytes(hdl[s].family) :
                   Cmp(b, hdl[s].addr) = 1 => Cmp(b, hdl'[s].addr) \in {0, 1}
         /\ last'.rc # 0 =>
              /\ hdl'[s].addr = hdl[s].addr
              /\ \A b \in Bytes(hdl[s].family) : Cmp(b, hdl[s].addr) # 1
<1>1. hdl[s] \in Objects /\ s \in DOMAIN hdl
  BY DEF HandleInv, Increase
<1>2. /\ Bytes(hdl[s].family) = Strings(Width[hdl[s].family])
      /\ hdl[s].addr \in Strings(Width[hdl[s].family])
      /\ Width[hdl[s].family] \in Nat
  <2>1. hdl[s].family \in Families /\ hdl[s].addr \in Bytes(hdl[s].family)
    BY <1>1, ObjectsTyped
  <2> QED
    BY <2>1, PlatformSockAddrAssumption DEF PlatformSockAddrAssumption, Bytes, Strings
<1>3. last' = [op |-> "increase", slot |-> s,
               rc |-> IF LastNot(hdl[s].addr, Base - 1) = 0 THEN -1 ELSE 0]
  BY DEF Increase, Returns
<1>4. hdl'[s].addr = Increased(hdl[s].addr)
  <2>1. hdl[s] = [family |-> hdl[s].family, addr |-> hdl[s].addr, ifName |-> hdl[s].ifName]
    BY <1>1, ObjectsTyped
  <2>2. hdl' = [hdl EXCEPT ![s] = [hdl[s] EXCEPT !.addr = Increased(hdl[s].addr)]]
    BY Zenon DEF Increase
  <2> QED
    BY <1>1, <2>1, <2>2
<1>5. CASE LastNot(hdl[s].addr, Base - 1) = 0
  BY <1>2, <1>3, <1>4, <1>5, IncreasedIsNext
<1>6. CASE LastNot(hdl[s].addr, Base - 1) # 0
  BY <1>2, <1>3, <1>4, <1>6, IncreasedIsNext
<1> QED
  BY <1>5, <1>6

(***************************************************************************)
(* PSockAddrDecrease goes to the one before, and returns -1 at the first.  *)
(***************************************************************************)
LEMMA DecreaseExact ==
  ASSUME HandleInv, NEW s \in Slots, Decrease(s)
  PROVE  /\ last'.op = "decrease" /\ last'.slot = s
         /\ last'.rc = 0 =>
              /\ Cmp(hdl'[s].addr, hdl[s].addr) = -1
              /\ Cmp(hdl[s].addr, hdl'[s].addr) = 1
              /\ \A b \in Bytes(hdl[s].family) :
                   Cmp(b, hdl[s].addr) = -1 => Cmp(b, hdl'[s].addr) \in {0, -1}
         /\ last'.rc # 0 =>
              /\ hdl'[s].addr = hdl[s].addr
              /\ \A b \in Bytes(hdl[s].family) : Cmp(b, hdl[s].addr) # -1
<1>1. hdl[s] \in Objects /\ s \in DOMAIN hdl
  BY DEF HandleInv, Decrease
<1>2. /\ Bytes(hdl[s].family) = Strings(Width[hdl[s].family])
      /\ hdl[s].addr \in Strings(Width[hdl[s].family])
      /\ Width[hdl[s].family] \in Nat
  <2>1. hdl[s].family \in Families /\ hdl[s].addr \in Bytes(hdl[s].family)
    BY <1>1, ObjectsTyped
  <2> QED
    BY <2>1, PlatformSockAddrAssumption DEF PlatformSockAddrAssumption, Bytes, Strings
<1>3. last' = [op |-> "decrease", slot |-> s,
               rc |-> IF LastNot(hdl[s].addr, 0) = 0 THEN -1 ELSE 0]
  BY DEF Decrease, Returns
<1>4. hdl'[s].addr = Decreased(hdl[s].addr)
  <2>1. hdl[s] = [family |-> hdl[s].family, addr |-> hdl[s].addr, ifName |-> hdl[s].ifName]
    BY <1>1, ObjectsTyped
  <2>2. hdl' = [hdl EXCEPT ![s] = [hdl[s] EXCEPT !.addr = Decreased(hdl[s].addr)]]
    BY Zenon DEF Decrease
  <2> QED
    BY <1>1, <2>1, <2>2
<1>5. CASE LastNot(hdl[s].addr, 0) = 0
  BY <1>2, <1>3, <1>4, <1>5, DecreasedIsPrevious
<1>6. CASE LastNot(hdl[s].addr, 0) # 0
  BY <1>2, <1>3, <1>4, <1>6, DecreasedIsPrevious
<1> QED
  BY <1>5, <1>6

(***************************************************************************)
(* For every number of values of a byte and every length of an address,    *)
(* counting goes to the neighbouring address, or stays at the end.         *)
(***************************************************************************)
THEOREM CountingIsExact == Spec => CountsByOne
<1> DEFINE Exact(s) ==
      last'.op \in {"increase", "decrease"} /\ last'.slot = s =>
        LET up     == IF last'.op = "increase" THEN 1 ELSE -1
            before == hdl[s].addr
            after  == hdl'[s].addr
        IN IF last'.rc = 0
           THEN /\ Cmp(after, before) = up /\ Cmp(before, after) = -up
                /\ \A b \in Bytes(hdl[s].family) :
                     Cmp(b, before) = up => Cmp(b, after) \in {0, up}
           ELSE /\ after = before
                /\ \A b \in Bytes(hdl[s].family) : Cmp(b, before) # up
<1>1. HandleInv /\ SockInv /\ [Next]_vars => [\A s \in Slots : Exact(s)]_vars
  <2> SUFFICES ASSUME HandleInv, Next, NEW s \in Slots,
                      last'.op \in {"increase", "decrease"}, last'.slot = s
               PROVE  Exact(s)
    BY DEF Exact
  <2>1. Increase(s) \/ Decrease(s)
    <3>1. Reused \subseteq Slots
      BY PlatformSockAddrAssumption DEF PlatformSockAddrAssumption, Slots
    <3>2. ASSUME NEW t \in Slots, Create(t) \/ CreateLocal(t) \/ Destroy(t) \/ Accept(t)
          PROVE  FALSE
      BY <3>2 DEF Create, CreateLocal, Destroy, Accept, Returns, NoCall
    <3>2a. ASSUME NEW t \in Slots, Recvfrom(t)
          PROVE  FALSE
      BY <3>2a, RecvfromIsRecvfrom
    <3>3. ASSUME Bind \/ \E op \in GroupOps : GroupCall(op)
          PROVE  FALSE
      BY <3>3 DEF Bind, GroupCall, GroupOps, SourceOps, Returns
    <3>4. ASSUME NEW t \in Slots, Increase(t) \/ Decrease(t)
          PROVE  t = s
      BY <3>4 DEF Increase, Decrease, Returns
    <3> QED
      BY <3>1, <3>2, <3>2a, <3>3, <3>4 DEF Next
  <2>2. CASE Increase(s)
    BY <2>2, IncreaseExact
  <2>3. CASE Decrease(s)
    BY <2>3, DecreaseExact
  <2> QED
    BY <2>1, <2>2, <2>3
<1> QED
  BY <1>1, AddrInvariant, PTL DEF Spec, CountsByOne

-----------------------------------------------------------------------------
(* The interface of a local handle. *)

(***************************************************************************)
(* An address that is in the list is given the name of an entry of its own. *)
(***************************************************************************)
LEMMA LocalIf4Found ==
  ASSUME NEW a, EntriesOf(a) # {}
  PROVE  \E i \in EntriesOf(a) : LocalIf4(a) = Interfaces[i].name
<1>1. Interfaces \in Seq([name : STRING, family : STRING, addr : Seq(0 .. Base - 1)])
  BY PlatformSockAddrAssumption DEF PlatformSockAddrAssumption
<1>2. EntriesOf(a) \in SUBSET Nat
  BY <1>1 DEF EntriesOf
<1>3. Min(EntriesOf(a)) \in EntriesOf(a)
  BY <1>2, MinIsLeast
<1> QED
  BY <1>3 DEF LocalIf4

(***************************************************************************)
(* For every list of interfaces, a local IPv4 handle has the name of one   *)
(* that its address belongs to, and a socket is bound to it.               *)
(***************************************************************************)
THEOREM LocalHandlesKnowTheirInterface == Spec => []Local4HasInterface
<1>1. Init => Local4HasInterface
  BY DEF Init, Local4HasInterface, NoCall
<1>2. HandleInv /\ SockInv /\ Local4HasInterface /\ [Next]_vars => Local4HasInterface'
  <2> SUFFICES ASSUME HandleInv, Local4HasInterface, [Next]_vars
               PROVE  Local4HasInterface'
    OBVIOUS
  <2>1. ASSUME last'.op \notin {"local", "bind"}
        PROVE  Local4HasInterface'
    BY <2>1 DEF Local4HasInterface
  <2>2. ASSUME NEW s \in Slots, CreateLocal(s)
        PROVE  Local4HasInterface'
    <3>1. CASE last' = NoCall
      BY <2>1, <3>1 DEF NoCall
    <3>2. CASE last' # NoCall
      <4>1. PICK a \in Hosts : New(s, Object(a, LocalIf(a))) /\ Returns("local", s, 0)
        BY <2>2, <3>2 DEF CreateLocal
      <4>2. last'.op = "local" /\ last'.slot = s
        BY <4>1 DEF Returns
      <4>3. hdl'[s] = [family |-> a.family, addr |-> a.addr, ifName |-> LocalIf(a)]
        BY <4>1 DEF New, Object, HandleInv
      <4>4. /\ hdl'[s].family = a.family /\ hdl'[s].addr = a.addr
            /\ hdl'[s].ifName = LocalIf(a)
        BY <4>3
      <4>5. EntriesOf(hdl'[s]) = EntriesOf(a)
        BY <4>4 DEF EntriesOf
      <4>6. ASSUME hdl'[s].family = "v4"
            PROVE  HasInterface(s)'
        <5>1. LocalIf(a) = LocalIf4(a)
          BY <4>4, <4>6 DEF LocalIf
        <5> QED
          BY <4>4, <4>5, <5>1, LocalIf4Found DEF HasInterface
      <4> QED
        BY <4>2, <4>6 DEF Local4HasInterface
    <3> QED
      BY <3>1, <3>2
  <2>3. CASE Bind
    <3>1. last'.op = "bind" /\ hdl' = hdl
      BY <2>3 DEF Bind, Returns
    <3>2. ASSUME last'.rc = 0, hdl["group"].family = "v4", hdl["local"].family = "v4"
          PROVE  device' = hdl["local"].ifName
      BY <2>3, <3>2 DEF Bind, Returns
    <3> QED
      BY <3>1, <3>2 DEF Local4HasInterface
  <2>4. CASE UNCHANGED vars
    BY <2>4 DEF vars, sock, Local4HasInterface, HasInterface, EntriesOf
  <2>5. ASSUME NEW s \in Slots,
               Create(s) \/ Destroy(s) \/ Increase(s) \/ Decrease(s) \/ Accept(s)
        PROVE  Local4HasInterface'
    BY <2>1, <2>5 DEF Create, Destroy, Increase, Decrease, Accept, Returns, NoCall
  <2>8. ASSUME NEW s \in Slots, Recvfrom(s)
        PROVE  Local4HasInterface'
    <3>1. last'.op = "recvfrom"
      BY <2>8, RecvfromIsRecvfrom
    <3> QED
      BY <2>1, <3>1
  <2>6. ASSUME NEW op \in GroupOps, GroupCall(op)
        PROVE  Local4HasInterface'
    BY <2>1, <2>6 DEF GroupCall, GroupOps, SourceOps, Returns
  <2>7. Reused \subseteq Slots
    BY PlatformSockAddrAssumption DEF PlatformSockAddrAssumption, Slots
  <2> QED
    BY <2>2, <2>3, <2>4, <2>5, <2>6, <2>7, <2>8 DEF Next
<1> QED
  BY <1>1, <1>2, AddrInvariant, PTL DEF Spec

-----------------------------------------------------------------------------
(* The groups. *)

(***************************************************************************)
(* A membership that is set lets in what its mode and sources say.         *)
(***************************************************************************)
LEMMA WithLetsIn ==
  ASSUME NEW m, NEW x, With(m, x)
  PROVE  /\ OthersSpared(m) /\ m \in DOMAIN filter'
         /\ \A b : LetsIn(filter', m, b) <=> (x.mode = "include" <=> b \in x.sources)
<1>1. /\ DOMAIN filter' = {m} \cup DOMAIN filter
      /\ filter'[m] = x
      /\ \A n \in DOMAIN filter \ {m} : filter'[n] = filter[n]
  BY DEF With
<1> QED
  BY <1>1 DEF OthersSpared, LetsIn

(***************************************************************************)
(* A membership that is left lets in nothing.                              *)
(***************************************************************************)
LEMMA WithoutLetsIn ==
  ASSUME NEW m, Without(m)
  PROVE  /\ OthersSpared(m)
         /\ m \notin DOMAIN filter'
         /\ \A b : ~LetsIn(filter', m, b)
<1>1. /\ DOMAIN filter' = DOMAIN filter \ {m}
      /\ \A n \in DOMAIN filter \ {m} : filter'[n] = filter[n]
  BY DEF Without, Restrict
<1> QED
  BY <1>1 DEF OthersSpared, LetsIn

(***************************************************************************)
(* What a group lets in before a request about a source: what its list     *)
(* says, and without one everything or nothing.                            *)
(***************************************************************************)
LEMMA LetsInBefore ==
  ASSUME Typed(filter), NEW option, NEW m, Switched(option, m).mode = Mode(option)
  PROVE  \/ \A b : LetsIn(filter, m, b) <=>
                     (Mode(option) = "include" <=> b \in Switched(option, m).sources)
         \/ ~Joined(m) /\ Switched(option, m).sources = {} /\ \A b : ~LetsIn(filter, m, b)
         \/ /\ Joined(m) /\ ~filter[m].listed /\ filter[m].mode # Mode(option)
            /\ Switched(option, m).sources = {}
<1>1. CASE Joined(m) /\ filter[m].listed
  BY <1>1 DEF Joined, Switched, LetsIn
<1>2. CASE ~Joined(m)
  <2>1. Switched(option, m) = [mode |-> Mode(option), sources |-> {}, listed |-> FALSE]
    BY <1>2 DEF Switched, Unlisted
  <2> QED
    BY <1>2, <2>1 DEF Joined, LetsIn
<1>3. CASE Joined(m) /\ ~filter[m].listed
  <2>1. Switched(option, m) = [mode |-> Mode(option), sources |-> {}, listed |-> FALSE]
    BY <1>3 DEF Switched, Unlisted
  <2>2. filter[m].sources = {}
    BY <1>3 DEF Joined, Typed
  <2> QED
    BY <1>3, <2>1, <2>2 DEF Joined, LetsIn
<1> QED
  BY <1>1, <1>2, <1>3

(***************************************************************************)
(* A source that is put on the list of a membership is let in or kept out, *)
(* by the mode.                                                            *)
(***************************************************************************)
LEMMA SourceAdded ==
  ASSUME NEW option, NEW m, NEW a, AddsSource(option, m, a)
  PROVE  /\ OthersSpared(m)
         /\ \A b : LetsIn(filter', m, b) <=>
                     (Mode(option) = "include" <=> b \in Switched(option, m).sources \cup {a})
<1> DEFINE x == Listed(Mode(option), Switched(option, m).sources \cup {a})
<1>1. x.mode = Mode(option) /\ x.sources = Switched(option, m).sources \cup {a}
  BY DEF Listed
<1>2. With(m, x)
  BY DEF AddsSource
<1> HIDE DEF x
<1>3. OthersSpared(m) /\ \A b : LetsIn(filter', m, b) <=> (x.mode = "include" <=> b \in x.sources)
  BY <1>2, WithLetsIn
<1> QED
  BY <1>1, <1>3

(***************************************************************************)
(* And one that is taken from it the other way round, also when its group  *)
(* is left with it.                                                        *)
(***************************************************************************)
LEMMA SourceRemoved ==
  ASSUME NEW option, NEW m, NEW a, RemovesSource(option, m, a)
  PROVE  /\ OthersSpared(m)
         /\ \A b : LetsIn(filter', m, b) <=>
                     (Mode(option) = "include" <=> b \in Switched(option, m).sources \ {a})
<1>1. CASE option = "DROP_SOURCE_MEMBERSHIP" /\ Switched(option, m).sources = {a}
  <2>1. Without(m) /\ Mode(option) = "include"
    BY <1>1 DEF RemovesSource, Mode
  <2> QED
    BY <1>1, <2>1, WithoutLetsIn
<1>2. CASE ~(option = "DROP_SOURCE_MEMBERSHIP" /\ Switched(option, m).sources = {a})
  <2> DEFINE x == Listed(Mode(option), Switched(option, m).sources \ {a})
  <2>1. x.mode = Mode(option) /\ x.sources = Switched(option, m).sources \ {a}
    BY DEF Listed
  <2>2. With(m, x)
    BY <1>2 DEF RemovesSource
  <2> HIDE DEF x
  <2>3. OthersSpared(m) /\ \A b : LetsIn(filter', m, b) <=> (x.mode = "include" <=> b \in x.sources)
    BY <2>2, WithLetsIn
  <2> QED
    BY <2>1, <2>3
<1> QED
  BY <1>1, <1>2

(***************************************************************************)
(* Each of the four calls about a source, by the option it uses, does to   *)
(* the sources what it is named for.                                       *)
(***************************************************************************)
LEMMA SourceOptionDoes ==
  ASSUME Typed(filter), NEW op \in SourceOps, NEW m, NEW a, Setsockopt(Option(op), m, a)
  PROVE  AsNamed(op, m, a)
<1> DEFINE o == Option(op)
           found == Switched(o, m).sources
<1>1. /\ o \in {"ADD_SOURCE_MEMBERSHIP", "DROP_SOURCE_MEMBERSHIP", "BLOCK_SOURCE", "UNBLOCK_SOURCE"}
      /\ Mode(o) = IF op \in {"add", "drop"} THEN "include" ELSE "exclude"
      /\ o = "ADD_SOURCE_MEMBERSHIP" <=> op = "add"
      /\ o \in {"ADD_SOURCE_MEMBERSHIP", "BLOCK_SOURCE"} <=> op \in {"add", "block"}
      /\ o \in {"DROP_SOURCE_MEMBERSHIP", "UNBLOCK_SOURCE"} <=> op \in {"drop", "unblock"}
  BY DEF SourceOps, Option, Mode
<1> HIDE DEF o
<1>2. /\ Reaches(o, m) /\ Switched(o, m).mode = Mode(o)
      /\ AddsSource(o, m, a) \/ RemovesSource(o, m, a)
  BY <1>1 DEF Setsockopt, o
<1>3. \/ \A b : LetsIn(filter, m, b) <=> (Mode(o) = "include" <=> b \in found)
      \/ ~Joined(m) /\ found = {} /\ \A b : ~LetsIn(filter, m, b)
      \/ Joined(m) /\ ~filter[m].listed /\ filter[m].mode # Mode(o) /\ found = {}
  BY <1>2, LetsInBefore
<1>4. \A f, b : LetsIn(f, m, b) \in BOOLEAN
  BY DEF LetsIn
<1>5. Joined(m) => filter[m].mode \in {"include", "exclude"}
  BY DEF Joined, Typed
<1>6. ~Joined(m) => op = "add"
  BY <1>1, <1>2 DEF Reaches
<1>7. CASE AddsSource(o, m, a)
  <2>1. op \in {"add", "block"} /\ a \notin found
    BY <1>1, <1>7 DEF AddsSource
  <2>2. /\ OthersSpared(m)
        /\ \A b : LetsIn(filter', m, b) <=> (Mode(o) = "include" <=> b \in found \cup {a})
    BY <1>7, SourceAdded
  <2> HIDE DEF found
  <2>3. OtherSourcesKept(op, m, a)
    BY <1>1, <1>3, <1>4, <1>5, <1>6, <2>1, <2>2 DEF OtherSourcesKept
  <2> QED
    BY <1>1, <2>1, <2>2, <2>3 DEF AsNamed, SourceOps
<1>8. CASE RemovesSource(o, m, a)
  <2>1. op \in {"drop", "unblock"} /\ a \in found
    BY <1>1, <1>8 DEF RemovesSource
  <2>2. /\ OthersSpared(m)
        /\ \A b : LetsIn(filter', m, b) <=> (Mode(o) = "include" <=> b \in found \ {a})
    BY <1>8, SourceRemoved
  <2> HIDE DEF found
  <2>3. OtherSourcesKept(op, m, a)
    BY <1>1, <1>3, <1>4, <2>1, <2>2 DEF OtherSourcesKept
  <2> QED
    BY <1>1, <2>1, <2>2, <2>3 DEF AsNamed, SourceOps
<1> QED
  BY <1>2, <1>7, <1>8

(***************************************************************************)
(* And join and leave.                                                     *)
(***************************************************************************)
LEMMA GroupOptionDoes ==
  ASSUME NEW op \in {"join", "leave"}, NEW m, NEW a, NEW x, Setsockopt(Option(op), m, x)
  PROVE  AsNamed(op, m, a)
<1>1. CASE op = "join"
  <2> DEFINE new == Unlisted("exclude")
  <2>1. new.mode = "exclude" /\ new.sources = {}
    BY DEF Unlisted
  <2>2. With(m, new)
    BY <1>1 DEF Option, Setsockopt, AddsSource, RemovesSource
  <2> HIDE DEF new
  <2>3. OthersSpared(m) /\ \A b : LetsIn(filter', m, b) <=> (new.mode = "include" <=> b \in new.sources)
    BY <2>2, WithLetsIn
  <2> QED
    BY <1>1, <2>1, <2>3 DEF AsNamed, SourceOps
<1>2. CASE op = "leave"
  <2>1. Without(m)
    BY <1>2 DEF Option, Setsockopt, AddsSource, RemovesSource
  <2> QED
    BY <1>2, <2>1, WithoutLetsIn DEF AsNamed, SourceOps
<1> QED
  BY <1>1, <1>2

(***************************************************************************)
(* A call that the kernel refuses may have switched a membership without a *)
(* list, or joined for an add; a list of sources is as it was.             *)
(***************************************************************************)
LEMMA RefusedSwitches ==
  ASSUME Typed(filter), NEW op \in GroupOps, NEW m, Refused(Option(op), m)
  PROVE  AtMostSwitched(op, m)
<1> DEFINE o == Option(op)
<1>1. /\ o \notin {"ADD_MEMBERSHIP", "DROP_MEMBERSHIP"} => op \in SourceOps
      /\ o = "ADD_SOURCE_MEMBERSHIP" => op = "add"
      /\ op \in SourceOps => (Mode(o) = "include" <=> op \notin {"block", "unblock"})
  BY DEF GroupOps, SourceOps, Option, Mode
<1> HIDE DEF o
<1>2. CASE UNCHANGED filter
  BY <1>2 DEF AtMostSwitched
<1>3. CASE op \in SourceOps /\ Reaches(o, m) /\ With(m, Switched(o, m))
  <2>1. CASE Joined(m) /\ filter[m].listed
    <3>1. With(m, filter[m]) /\ DOMAIN filter \cup {m} = DOMAIN filter
      BY <1>3, <2>1 DEF Switched, Joined
    <3>2. filter' = [n \in DOMAIN filter |-> filter[n]]
      BY <3>1 DEF With
    <3> QED
      BY <3>2 DEF AtMostSwitched, Typed
  <2>2. CASE ~(Joined(m) /\ filter[m].listed)
    <3> DEFINE x == Switched(o, m)
    <3>1. x.mode = Mode(o) /\ x.sources = {}
      BY <2>2 DEF Switched, Unlisted
    <3> HIDE DEF x
    <3>2. With(m, x)
      BY <1>3 DEF x
    <3>3. /\ OthersSpared(m) /\ m \in DOMAIN filter'
          /\ \A b : LetsIn(filter', m, b) <=> (x.mode = "include" <=> b \in x.sources)
      BY <3>2, WithLetsIn
    <3>4. \A b : LetsIn(filter', m, b) <=> op \in {"block", "unblock"}
      BY <1>1, <1>3, <3>1, <3>3
    <3>5. IF Joined(m) THEN ~filter[m].listed ELSE op = "add"
      BY <1>1, <1>3, <2>2 DEF Reaches
    <3> QED
      BY <1>3, <3>3, <3>4, <3>5 DEF AtMostSwitched
  <2> QED
    BY <2>1, <2>2
<1> QED
  BY <1>1, <1>2, <1>3 DEF Refused, o

(***************************************************************************)
(* For every list of interfaces, set of groups and limit of sources, a     *)
(* call about a group that returns 0 does what it is named for, one that   *)
(* returns -1 undoes no list of sources, and neither touches other groups. *)
(***************************************************************************)
THEOREM GroupCallsDoAsNamed == Spec => FilterAsAsked
<1> DEFINE AsAsked ==
      LET op == last'.op
          m  == Membership
      IN op \in GroupOps =>
         IF last'.rc = 0 THEN AsNamed(op, m, hdl["source"].addr)
         ELSE AtMostSwitched(op, m)
<1>1. HandleInv /\ SockInv /\ [Next]_vars => [AsAsked]_vars
  <2> SUFFICES ASSUME SockInv, Next, last'.op \in GroupOps
               PROVE  AsAsked
    OBVIOUS
  <2>1. PICK op \in GroupOps : GroupCall(op)
    <3>1. ASSUME NEW s \in Slots \cup Reused,
                 \/ Create(s) \/ CreateLocal(s) \/ Destroy(s)
                 \/ Increase(s) \/ Decrease(s) \/ Accept(s)
          PROVE  FALSE
      BY <3>1 DEF Create, CreateLocal, Destroy, Increase, Decrease, Accept,
                  Returns, NoCall, GroupOps, SourceOps
    <3>3. ASSUME NEW s \in Slots \cup Reused, Recvfrom(s)
          PROVE  FALSE
      BY <3>3, RecvfromIsRecvfrom DEF GroupOps, SourceOps
    <3>2. ~Bind
      BY DEF Bind, Returns, GroupOps, SourceOps
    <3> QED
      BY <3>1, <3>2, <3>3 DEF Next
  <2>2. last'.op = op
    BY <2>1 DEF GroupCall, Returns
  <2> DEFINE m == Membership
             a == hdl["source"].addr
             x == Source(op)
  <2>3. op \in SourceOps => x = a
    BY DEF Source
  <2> HIDE DEF m, a, x
  <2>4. \/ last'.rc = -1 /\ (UNCHANGED filter \/ Refused(Option(op), m))
        \/ last'.rc = 0 /\ Setsockopt(Option(op), m, x)
    BY <2>1 DEF GroupCall, Returns, m, x
  <2>5. last'.rc = 0 => AsNamed(op, m, a)
    <3>1. CASE op \in SourceOps
      BY <2>3, <2>4, <3>1, SourceOptionDoes DEF SockInv
    <3>2. CASE op \notin SourceOps
      BY <2>4, <3>2, GroupOptionDoes DEF GroupOps
    <3> QED
      BY <3>1, <3>2
  <2>6. last'.rc # 0 => AtMostSwitched(op, m)
    BY <2>4, RefusedSwitches DEF AtMostSwitched, SockInv
  <2> QED
    BY <2>2, <2>5, <2>6 DEF m, a
<1> QED
  BY <1>1, AddrInvariant, PTL DEF Spec, FilterAsAsked
=============================================================================
