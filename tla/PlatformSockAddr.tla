-------------------------- MODULE PlatformSockAddr --------------------------
(***************************************************************************)
(* The socket addresses (Socket/PlatformSockAddr.cpp and the classes for   *)
(* IPv4 and IPv6): one thread that creates handles, from literals, names   *)
(* and what a socket receives, counts them up and down, and gives them to  *)
(* a socket to bind it and to join multicast groups.                       *)
(*                                                                         *)
(* The caller has three handles, named for what they are used as.  An      *)
(* address is its bytes; ports, texts and what is received are left out.   *)
(***************************************************************************)
EXTENDS Integers, FiniteSetsExt, SequencesExt

CONSTANTS
  Base,        \* the values of a byte: 256
  Width,       \* the bytes of an address: 4 of "v4", 16 of "v6"
  Hosts,       \* the addresses that are created from literals
  Resolved,    \* the lists getaddrinfo may return for a name
  Interfaces,  \* the list of getifaddrs: name, family and address of each
  Groups,      \* the addresses that are multicast groups
  Peers,       \* the addresses that packets and connections come from
  Reused,      \* the handles that are counted up and down, and received into
  MaxSources   \* the most sources of one membership: igmp_max_msf

Families == {"v4", "v6"}

Bytes(f) == [1 .. Width[f] -> 0 .. Base - 1]

\* The addresses of a family, as a socket gives them.
Addresses == UNION {[family : {f}, addr : Bytes(f)] : f \in Families}

ASSUME PlatformSockAddrAssumption ==
  /\ Base \in Nat \ {0, 1}
  /\ Width \in [Families -> Nat \ {0}]
  /\ Hosts \subseteq Addresses /\ Groups \subseteq Addresses /\ Peers \subseteq Addresses
  /\ Resolved \subseteq Seq(Addresses) \ {<<>>}
  /\ Interfaces \in Seq([name : STRING, family : STRING, addr : Seq(0 .. Base - 1)])
  /\ Reused \subseteq {"group", "local", "source"}
  /\ MaxSources \in Nat \ {0}

VARIABLES
  hdl,      \* the handles: NULL, or what the object holds
  objects,  \* how many objects there are
  kind,     \* "dgram" or "stream", the kind of the socket
  bound,    \* whether it is bound to an address
  device,   \* the interface it is bound to (SO_BINDTODEVICE)
  filter,   \* its memberships: the sources each group and interface lets in
  last      \* the last call about an address, for what handle, and what it
            \* returned, unless a handle was made or destroyed since then

sock == <<kind, bound, device, filter>>
vars == <<hdl, objects, sock, last>>

Slots == {"group", "local", "source"}

NULL == [family |-> "none"]

\* The empty name of an interface, and interface number 0.
NoIf == ""

NoCall == [op |-> "none", slot |-> "group", rc |-> 0]

Returns(op, s, rc) == last' = [op |-> op, slot |-> s, rc |-> rc]

-----------------------------------------------------------------------------
(***************************************************************************)
(* The arithmetic of the bytes, the first one the most significant.        *)
(***************************************************************************)
\* The last byte that does not overflow, or 0 when there is none.
LastNot(b, v) == Max({i \in DOMAIN b : b[i] # v} \cup {0})

\* A faulty variant: the bytes that overflow are left as they are.
IncreasedNoWrap(b) ==
  LET index == LastNot(b, Base - 1) IN
  IF index = 0 THEN b
  ELSE [i \in DOMAIN b |-> IF i = index THEN b[i] + 1 ELSE b[i]]

Increased(b) ==
  LET index == LastNot(b, Base - 1) IN
  IF index = 0 THEN b
  ELSE [i \in DOMAIN b |-> IF i >= index THEN (b[i] + 1) % Base ELSE b[i]]

Decreased(b) ==
  LET index == LastNot(b, 0) IN
  IF index = 0 THEN b
  ELSE [i \in DOMAIN b |-> IF i >= index THEN (b[i] - 1) % Base ELSE b[i]]

\* Ipv4Cmp and Ipv6Cmp, of the bytes there are.
Cmp(l, r) ==
  IF \A i \in DOMAIN l : l[i] = r[i] THEN 0
  ELSE LET i == Min({j \in DOMAIN l : l[j] # r[j]})
       IN IF l[i] > r[i] THEN 1 ELSE -1

\* PSockAddrCompare: -2 without two handles of one family.
Compare(l, r) ==
  IF l = NULL \/ l.family # r.family THEN -2 ELSE Cmp(l.addr, r.addr)

-----------------------------------------------------------------------------
(***************************************************************************)
(* The handles.                                                            *)
(***************************************************************************)
Object(a, ifName) == [family |-> a.family, addr |-> a.addr, ifName |-> ifName]

\* The entries of the list in which an address finds its interface.
EntriesOf(a) ==
  {i \in DOMAIN Interfaces :
     Interfaces[i].family = a.family /\ Interfaces[i].addr = a.addr}

\* A faulty variant: an entry's address is not compared, the first one's is.
LocalIfOfHead(a) ==
  LET found == {i \in DOMAIN Interfaces :
                  Interfaces[i].family = a.family /\ Interfaces[1].addr = a.addr}
  IN IF found = {} THEN NoIf ELSE Interfaces[Min(found)].name

LocalIf4(a) ==
  IF EntriesOf(a) = {} THEN NoIf ELSE Interfaces[Min(EntriesOf(a))].name

\* The loop of PSockAddrIpv6 goes over the entries and compares the first.
LocalIf6(a) ==
  LET found == {i \in DOMAIN Interfaces :
                  Interfaces[i].family = "v6" /\ Interfaces[1].addr = a.addr}
  IN IF found = {} THEN NoIf ELSE Interfaces[Min(found)].name

LocalIf(a) == IF a.family = "v4" THEN LocalIf4(a) ELSE LocalIf6(a)

Init ==
  /\ hdl = [s \in Slots |-> NULL]
  /\ objects = 0
  /\ kind \in {"dgram", "stream"}
  /\ bound = FALSE /\ device = NoIf
  /\ filter = <<>>
  /\ last = NoCall

New(s, object) == hdl' = [hdl EXCEPT ![s] = object] /\ objects' = objects + 1

\* A literal, or a name: the first of the list that getaddrinfo returns.
Create(s) ==
  /\ hdl[s] = NULL
  /\ \/ \E a \in Hosts : New(s, Object(a, NoIf))
     \/ \E list \in Resolved : New(s, Object(list[1], NoIf))
     \/ UNCHANGED <<hdl, objects>>
  /\ last' = NoCall
  /\ UNCHANGED sock

CreateLocal(s) ==
  /\ hdl[s] = NULL
  /\ \/ \E a \in Hosts : New(s, Object(a, LocalIf(a))) /\ Returns("local", s, 0)
     \/ UNCHANGED <<hdl, objects>> /\ last' = NoCall
  /\ UNCHANGED sock

Destroy(s) ==
  /\ hdl[s] # NULL
  /\ hdl' = [hdl EXCEPT ![s] = NULL]
  /\ objects' = objects - 1
  /\ last' = NoCall
  /\ UNCHANGED sock

Increase(s) ==
  /\ hdl[s] # NULL
  /\ hdl' = [hdl EXCEPT ![s].addr = Increased(@)]
  /\ Returns("increase", s, IF LastNot(hdl[s].addr, Base - 1) = 0 THEN -1 ELSE 0)
  /\ UNCHANGED <<objects, sock>>

Decrease(s) ==
  /\ hdl[s] # NULL
  /\ hdl' = [hdl EXCEPT ![s].addr = Decreased(@)]
  /\ Returns("decrease", s, IF LastNot(hdl[s].addr, 0) = 0 THEN -1 ELSE 0)
  /\ UNCHANGED <<objects, sock>>

\* A faulty variant: what the handle held before is not destroyed.
ReplaceOnly(s, a) == New(s, Object(a, NoIf))

\* PSockAddrDestroy of what the handle held, and the new object.
Replace(s, a) ==
  /\ hdl' = [hdl EXCEPT ![s] = Object(a, NoIf)]
  /\ objects' = IF hdl[s] = NULL THEN objects + 1 ELSE objects

-----------------------------------------------------------------------------
(***************************************************************************)
(* The socket.  A system call may fail at any time.                        *)
(***************************************************************************)
\* The handle is replaced when there is a peer's address, and only then.  A
\* new descriptor of another family is left open, and nobody knows it.
Accept(s) ==
  /\ kind = "stream"
  /\ \/ \E a \in Peers : Replace(s, a)
     \/ UNCHANGED <<hdl, objects>>
  /\ last' = NoCall
  /\ UNCHANGED sock

\* The length of a packet, 1 standing for any but 0.  Without an address the
\* call fails; and a stream gives none with its bytes nor at its end, so that,
\* against include/PlatformSocket.h, it returns -1 whatever was received.
Recvfrom(s) ==
  /\ \/ /\ kind = "dgram"
        /\ \E a \in Peers : Replace(s, a)
        /\ \E recvLen \in {0, 1} : Returns("recvfrom", s, recvLen)
     \/ Returns("recvfrom", s, -1) /\ UNCHANGED <<hdl, objects>>
  /\ UNCHANGED sock

\* bind, and for IPv4 with a local handle SO_BINDTODEVICE, whose failure
\* leaves the socket bound.  A local handle of the other family is as none.
\* (IPv6 takes over the handle's _scopeId, which nothing reads.)
Bind ==
  LET server == hdl["group"]
      local  == hdl["local"]
  IN /\ server # NULL
     /\ \/ Returns("bind", "group", -1) /\ UNCHANGED sock
        \/ /\ ~bound
           /\ bound' = TRUE
           /\ IF server.family = "v4" /\ local.family = "v4"
              THEN \/ device' = local.ifName /\ Returns("bind", "group", 0)
                   \/ UNCHANGED device /\ Returns("bind", "group", -1)
              ELSE UNCHANGED device /\ Returns("bind", "group", 0)
           /\ UNCHANGED <<kind, filter>>
     /\ UNCHANGED <<hdl, objects>>

-----------------------------------------------------------------------------
(***************************************************************************)
(* The multicast groups: each call is one option of setsockopt.  What the  *)
(* option does is the kernel's (Linux, ip_mc_source): a membership lets in *)
(* all sources but some (exclude), or some only (include).  Its mode is    *)
(* fixed once it has a list of sources, which it keeps when it runs empty. *)
(***************************************************************************)
SourceOps == {"add", "drop", "block", "unblock"}
GroupOps  == {"join", "leave"} \cup SourceOps

\* A faulty variant: the option of the call before, copied and not changed.
OptionPasted(op) ==
  CASE op = "join"    -> "ADD_MEMBERSHIP"
    [] op = "leave"   -> "DROP_MEMBERSHIP"
    [] op = "add"     -> "ADD_SOURCE_MEMBERSHIP"
    [] op = "drop"    -> "DROP_SOURCE_MEMBERSHIP"
    [] op = "block"   -> "BLOCK_SOURCE"
    [] op = "unblock" -> "BLOCK_SOURCE"

Option(op) ==
  CASE op = "join"    -> "ADD_MEMBERSHIP"
    [] op = "leave"   -> "DROP_MEMBERSHIP"
    [] op = "add"     -> "ADD_SOURCE_MEMBERSHIP"
    [] op = "drop"    -> "DROP_SOURCE_MEMBERSHIP"
    [] op = "block"   -> "BLOCK_SOURCE"
    [] op = "unblock" -> "UNBLOCK_SOURCE"

Joined(m) == m \in DOMAIN filter

\* A membership without a list of sources, and one that had a source once.
Unlisted(mode)        == [mode |-> mode, sources |-> {}, listed |-> FALSE]
Listed(mode, sources) == [mode |-> mode, sources |-> sources, listed |-> TRUE]

With(m, membership) ==
  filter' = [n \in DOMAIN filter \cup {m} |-> IF n = m THEN membership ELSE filter[n]]

Without(m) == filter' = Restrict(filter, DOMAIN filter \ {m})

Mode(option) ==
  IF option \in {"ADD_SOURCE_MEMBERSHIP", "DROP_SOURCE_MEMBERSHIP"} THEN "include" ELSE "exclude"

\* A request about a source needs a membership, but for an add, which joins.
Reaches(option, m) == Joined(m) \/ option = "ADD_SOURCE_MEMBERSHIP"

\* What it is carried out on: before a source is looked for, a membership
\* without a list is switched to the mode of the request.
Switched(option, m) ==
  IF Joined(m) /\ filter[m].listed THEN filter[m] ELSE Unlisted(Mode(option))

AddsSource(option, m, a) ==
  LET found == Switched(option, m).sources IN
  /\ option \in {"ADD_SOURCE_MEMBERSHIP", "BLOCK_SOURCE"}
  /\ a \notin found /\ Cardinality(found) < MaxSources
  /\ With(m, Listed(Mode(option), found \cup {a}))

\* A membership that would let in no source any more is left.
RemovesSource(option, m, a) ==
  LET found == Switched(option, m).sources IN
  /\ option \in {"DROP_SOURCE_MEMBERSHIP", "UNBLOCK_SOURCE"}
  /\ a \in found
  /\ IF option = "DROP_SOURCE_MEMBERSHIP" /\ found = {a} THEN Without(m)
     ELSE With(m, Listed(Mode(option), found \ {a}))

\* setsockopt for membership m and source a, when the kernel takes it ...
Setsockopt(option, m, a) ==
  \/ option = "ADD_MEMBERSHIP" /\ ~Joined(m) /\ With(m, Unlisted("exclude"))
  \/ option = "DROP_MEMBERSHIP" /\ Joined(m) /\ Without(m)
  \/ /\ Reaches(option, m) /\ Switched(option, m).mode = Mode(option)
     /\ AddsSource(option, m, a) \/ RemovesSource(option, m, a)

\* ... and when it does not: at once, or after it joined or switched.
Refused(option, m) ==
  \/ UNCHANGED filter
  \/ /\ option \notin {"ADD_MEMBERSHIP", "DROP_MEMBERSHIP"}
     /\ Reaches(option, m)
     /\ With(m, Switched(option, m))

\* The handles are there and of the family of the group (dynamic_cast).
Suits(op) ==
  /\ hdl["local"].family = hdl["group"].family
  /\ op \in SourceOps => hdl["source"].family = hdl["group"].family

\* What the kernel understands of the request: for IPv6 and a source, the
\* address is written over the field of the family.
Understood(op) ==
  /\ [family |-> hdl["group"].family, addr |-> hdl["group"].addr] \in Groups
  /\ hdl["group"].family = "v6" => op \notin SourceOps
  /\ hdl["group"].family = "v4" => EntriesOf(hdl["local"]) # {}

\* The membership a request is about: for IPv4 the kernel finds the interface
\* by the local address, for IPv6 the code gives its number.
Membership ==
  [group |-> hdl["group"].addr, family |-> hdl["group"].family,
   if |-> IF hdl["group"].family = "v4" THEN LocalIf4(hdl["local"]) ELSE hdl["local"].ifName]

Source(op) == IF op \in SourceOps THEN hdl["source"].addr ELSE <<>>

\* The call asks the kernel, once the handles suit, and returns what it says.
GroupCall(op) ==
  /\ hdl["group"] # NULL
  /\ \/ ~(Suits(op) /\ Understood(op)) /\ Returns(op, "group", -1) /\ UNCHANGED filter
     \/ /\ Suits(op) /\ Understood(op)
        /\ \/ Setsockopt(Option(op), Membership, Source(op)) /\ Returns(op, "group", 0)
           \/ Refused(Option(op), Membership) /\ Returns(op, "group", -1)
  /\ UNCHANGED <<kind, bound, device, hdl, objects>>

-----------------------------------------------------------------------------
Next == \/ \E s \in Slots : Create(s) \/ CreateLocal(s) \/ Destroy(s)
        \/ \E s \in Reused : Increase(s) \/ Decrease(s) \/ Accept(s) \/ Recvfrom(s)
        \/ Bind
        \/ \E op \in GroupOps : GroupCall(op)

Spec == Init /\ [][Next]_vars

-----------------------------------------------------------------------------
\* The names that an interface may have for the caller.
IfNames == {Interfaces[i].name : i \in DOMAIN Interfaces} \cup {NoIf}

(***************************************************************************)
(* The type of the state; and every object has its handle: none is lost in *)
(* a receive, an accept or a failed creation, and none is freed twice.     *)
(***************************************************************************)
TypeOK ==
  /\ \A s \in Slots : hdl[s] # NULL =>
       /\ [family |-> hdl[s].family, addr |-> hdl[s].addr] \in Addresses
       /\ hdl[s].ifName \in IfNames
  /\ objects = Cardinality({s \in Slots : hdl[s] # NULL})
  /\ kind \in {"dgram", "stream"}
  /\ bound \in BOOLEAN
  /\ device \in IfNames
  /\ \A m \in DOMAIN filter :
       /\ filter[m].mode \in {"include", "exclude"}
       /\ filter[m].listed \in BOOLEAN
       /\ filter[m].listed \/ filter[m].sources = {}

(***************************************************************************)
(* Counting goes to the next address in the order of PSockAddrCompare and  *)
(* back, over every carry: none lies in between.  It stops at the ends.    *)
(***************************************************************************)
CountsByOne ==
  [][ \A s \in Slots :
        last'.op \in {"increase", "decrease"} /\ last'.slot = s =>
          LET up     == IF last'.op = "increase" THEN 1 ELSE -1
              before == hdl[s].addr
              after  == hdl'[s].addr
          IN IF last'.rc = 0
             THEN /\ Cmp(after, before) = up /\ Cmp(before, after) = -up
                  /\ \A b \in Bytes(hdl[s].family) :
                       Cmp(b, before) = up => Cmp(b, after) \in {0, up}
             ELSE /\ after = before
                  /\ \A b \in Bytes(hdl[s].family) : Cmp(b, before) # up
    ]_vars

\* A source's packets to a group come in.
LetsIn(f, m, a) ==
  m \in DOMAIN f /\ (f[m].mode = "include" <=> a \in f[m].sources)

OthersSpared(m) ==
  \A n \in (DOMAIN filter \cup DOMAIN filter') \ {m} :
    n \in DOMAIN filter /\ n \in DOMAIN filter' /\ filter'[n] = filter[n]

\* The other sources of a group keep their state, but for the first source of
\* a group that was in the other mode and had no list of sources.
OtherSourcesKept(op, m, a) ==
  \A b \in Bytes(m.family) \ {a} :
    \/ LetsIn(filter', m, b) = LetsIn(filter, m, b)
    \/ op = "add" /\ filter[m].mode = "exclude" /\ ~filter[m].listed
    \/ op = "block" /\ filter[m].mode = "include" /\ ~filter[m].listed

AsNamed(op, m, a) ==
  /\ OthersSpared(m)
  /\ op = "join" => \A b \in Bytes(m.family) : LetsIn(filter', m, b)
  /\ op = "leave" => m \notin DOMAIN filter'
  /\ op \in {"add", "unblock"} => LetsIn(filter', m, a)
  /\ op \in {"drop", "block"} => ~LetsIn(filter', m, a)
  /\ op \in SourceOps => OtherSourcesKept(op, m, a)

\* What a failed call may leave behind: a group that had no list of sources
\* lets in all of them, or none; a failed add may have joined it.
AtMostSwitched(op, m) ==
  \/ filter' = filter
  \/ /\ op \in SourceOps
     /\ OthersSpared(m)
     /\ IF Joined(m) THEN ~filter[m].listed ELSE op = "add"
     /\ m \in DOMAIN filter'
     /\ \A b \in Bytes(m.family) : LetsIn(filter', m, b) <=> op \in {"block", "unblock"}

(***************************************************************************)
(* A call about a group that returns 0 has done to the sources what it is  *)
(* named for; one that returns -1 has not undone what calls before it      *)
(* asked for, once one about a source succeeded; and no call does anything *)
(* to another group.                                                       *)
(***************************************************************************)
FilterAsAsked ==
  [][ LET op == last'.op
          m  == Membership
      IN op \in GroupOps =>
         IF last'.rc = 0 THEN AsNamed(op, m, hdl["source"].addr)
         ELSE AtMostSwitched(op, m)
    ]_vars

HasInterface(s) ==
  EntriesOf(hdl[s]) # {} => \E i \in EntriesOf(hdl[s]) : hdl[s].ifName = Interfaces[i].name

(***************************************************************************)
(* A local IPv4 handle knows the interface its address belongs to, and a   *)
(* socket that could be bound with it is bound to that interface.          *)
(***************************************************************************)
Local4HasInterface ==
  /\ \A s \in Slots :
       last.op = "local" /\ last.slot = s /\ last.rc = 0 /\ hdl[s].family = "v4"
         => HasInterface(s)
  /\ last.op = "bind" /\ last.rc = 0 /\ hdl["group"].family = "v4" /\ hdl["local"].family = "v4"
       => device = hdl["local"].ifName

(***************************************************************************)
(* "The interfaces below wrap sockaddr simply, so as to support IPv4 and   *)
(* IPv6 alike", and, of PSockAddrCreateLocal, "the interface finds out the *)
(* network card by itself", of include/PlatformSocket.h: with a local      *)
(* handle that was just made for the address of an interface, a source of  *)
(* a group can be added on that interface.                                 *)
(***************************************************************************)
SourcesOfBothFamilies ==
  LET group == hdl["group"]
      local == hdl["local"]
  IN /\ last.op = "local" /\ last.slot = "local" /\ EntriesOf(local) # {}
     /\ Suits("add") /\ [family |-> group.family, addr |-> group.addr] \in Groups
     /\ DOMAIN filter = {}
     => ENABLED (/\ GroupCall("add") /\ last'.rc = 0
                 /\ \E m \in DOMAIN filter', i \in EntriesOf(local) :
                      m.if = Interfaces[i].name)
=============================================================================
