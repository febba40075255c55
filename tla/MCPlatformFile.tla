--------------------------- MODULE MCPlatformFile ---------------------------
\* PlatformFile for TLC: a directory r with a directory a, that holds x, and
\* up to three more entries b, c and d, of which b may be a link to a directory
\* o outside of r, that holds y.  Times in pairs that are equal.  One thread
\* makes every kind of call, the other what changes the disk under it.
EXTENDS PlatformFile

MCPaths  == {"r", "a", "x", "b", "c", "d", "o", "y"}
MCParent == [e \in MCPaths |-> CASE e \in {"a", "b", "c", "d"} -> "r"
                                [] e = "x" -> "a"
                                [] e = "y" -> "o"
                                [] OTHER -> "."]

Number  == "r" :> 0 @@ "a" :> 2 @@ "x" :> 5 @@ "b" :> 3 @@ "c" :> 1 @@ "d" :> 4
           @@ "o" :> 6 @@ "y" :> 7
MCSize  == [e \in MCPaths |-> 2 ^ Number[e]]
MCTime  == [e \in MCPaths |-> Number[e] \div 2]

Full    == [e \in MCPaths |-> CASE e \in {"r", "a", "o"} -> "dir"
                                [] e = "d" -> "none"
                                [] OTHER -> "file"]
Linking == [Full EXCEPT !["b"] = "link", !["c"] = "none"]
Flat    == [Full EXCEPT !["a"] = "file", !["x"] = "none", !["d"] = "dir"]
Empty   == [e \in MCPaths |-> IF e \in {"o", "y"} THEN Full[e] ELSE "none"]

Disk(t, denied, busy) == [tree |-> t, denied |-> denied, busy |-> busy]
MCDisks == {Disk(Full, {}, {}), Disk(Full, {"a"}, {}), Disk(Linking, {}, {}),
            Disk(Linking, {}, {"a"}), Disk(Flat, {}, {}), Disk(Flat, {"r"}, {}),
            Disk(Empty, {}, {})}

CallOf(op, path, mode) == [op |-> op, path |-> path, sortMode |-> mode]
Changes == {CallOf("make", "x", "none")}
           \cup {CallOf("remove", p, "none") : p \in {"r", "c"}}
MCCalls == [c \in {"c1", "c2"} |->
             IF c = "c2" THEN Changes
             ELSE {CallOf("make", p, "none") : p \in {"a", "x", "d"}}
                  \cup {CallOf("parent", "x", "none")}
                  \cup {CallOf("remove", p, "none") : p \in {"r", "a", "."}}
                  \cup {CallOf("search", "r", m) : m \in {"name", "time", "unknown"}}
                  \cup {CallOf("search", "a", "none")}]
=============================================================================
