----------------------------- MODULE MCLogClear -----------------------------
\* LogClear for TLC: a log directory of two days, two hours each, as
\* PlatformLog makes them, of every size and in every order of modification.
EXTENDS LogClear

MCDirs    == {"Log", "day1", "day2"}
MCEntries == MCDirs \cup {"a", "b", "c", "d"}
MCParent  == [e \in MCEntries \ {"Log"} |->
                CASE e \in {"a", "b"} -> "day1"
                  [] e \in {"c", "d"} -> "day2"
                  [] OTHER -> "Log"]
=============================================================================
