------------------------------- MODULE MCConsole -------------------------------
(* The formats of the firmware, cut to the parts that differ, on words of 8   *)
(* bits: first any number in each of its places, then one of a few messages   *)
(* of every kind.                                                             *)
EXTENDS Console

Item(d, as) == [directive |-> d, args |-> as]
Lit(c) == Item([conv |-> "char", char |-> c], <<>>)
D(width, n) == Item([conv |-> "d", width |-> width], <<n>>)
X(width, n) == Item([conv |-> "0x", width |-> width], <<n>>)
LLX(high, l) == Item([conv |-> "llx"], <<high, l>>)
S(width, s) == Item([conv |-> "s", width |-> width], <<s>>)
Nothing(conv) == Item([conv |-> conv], <<>>)
Float(v) == Item([conv |-> "float"], <<v>>)
Message(level, items) == [level |-> level, items |-> items]

AllWords == 0..255

(* "%-10d ms %\r", "%d %d", "%-30s 0x%08x 0x%llx" *)
Times(ns) == {Message(0, <<D(5, n), Lit(109), Lit(13)>>) : n \in ns}
Pairs(ns) == {Message(0, <<D(0, n), D(0, -n)>>) : n \in ns}
Rows(ns) == {Message(0, <<S(4, s), X(2, n), LLX(255 - n, n)>>) :
                n \in ns, s \in {<<>>, <<78, 85, 76, 76, 49>>}}
(* "%04d%ld%-3d", with one argument *)
Malformed(ns) == {Message(0, <<Nothing("0"), Nothing("l"), Lit(100), D(3, n)>>) : n \in ns}
Floats(vs) == {Message(0, <<Float(v)>>) : v \in vs}

MCMessages(n) ==
    IF n = 1
    THEN Times(Ints) \cup Pairs(Ints) \cup Rows(AllWords)
         \cup Floats({0, 1, 3, 9999, 19998, 19999, 20001, 123456, 200001})
    ELSE Times({-10}) \cup Malformed({7}) \cup Rows({171})
         \cup {Message(l, <<Lit(10)>>) : l \in {2, 3, 6}}
===============================================================================
