------------------------- MODULE MCPlatformSockAddr -------------------------
\* PlatformSockAddr for TLC: addresses of one byte (v4) and of two (v6) with
\* three values each; for each family a group and an address of an interface.
\* The list of interfaces begins, as getifaddrs has it, with entries that are
\* of neither family; what is compared of such an entry is no address.
EXTENDS PlatformSockAddr

V4(byte)   == [family |-> "v4", addr |-> <<byte>>]
V6(hi, lo) == [family |-> "v6", addr |-> <<hi, lo>>]
Entry(name, f, bytes) == [name |-> name, family |-> f, addr |-> bytes]

MCWidth      == [f \in Families |-> IF f = "v4" THEN 1 ELSE 2]
MCGroups     == {V4(2), V6(2, 0)}
MCPeers      == {V4(1), V6(0, 1)}
MCHosts      == MCGroups \cup MCPeers
MCResolved   == {<<V6(0, 1), V4(1)>>}
MCInterfaces == <<Entry("lo", "packet", <<0, 0>>), Entry("eth0", "packet", <<1, 1>>),
                  Entry("lo", "v4", <<0>>), Entry("eth0", "v4", <<1>>),
                  Entry("lo", "v6", <<0, 2>>), Entry("eth0", "v6", <<0, 1>>)>>

\* Binding and the groups have nothing to do with each other: in the run about
\* both, a socket that is bound and in a group does nothing more.
BoundOrInGroups == ~bound \/ DOMAIN filter = {}
=============================================================================
