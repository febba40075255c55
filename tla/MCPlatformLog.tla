--------------------------- MODULE MCPlatformLog ---------------------------
\* PlatformLog for TLC.
EXTENDS PlatformLog, TLC

CONSTANTS s1, s2, s3

TwoSenders   == {s1, s2}
ThreeSenders == {s1, s2, s3}
MCOffset     == [hour \in {1} |-> 0]
Symmetry     == Permutations(Senders)
=============================================================================
