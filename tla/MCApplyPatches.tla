--------------------------- MODULE MCApplyPatches ---------------------------
(***************************************************************************)
(* Instances of ApplyPatches for TLC: a directory with, perhaps, a         *)
(* subdirectory and an archive, which may also be in the subdirectory, and *)
(* another directory, which is the last or the first of two.               *)
(***************************************************************************)
EXTENDS ApplyPatches, FiniteSets

CONSTANTS a, b, readme, sub, arc, d0, d1, d2, d3

MCInside ==
    [d \in Dir |-> [n \in {sub, arc} |-> IF d = d0 /\ n = sub THEN d1 ELSE d2]]

Listing(names, n) == {s \in UNION {[1 .. k -> names] : k \in 0 .. n} : IsInjective(s)}

\* A directory without a series, and one with a series that has these files too,
\* or lacks these lines.
Plainly(names) == [names |-> names, series |-> FALSE, files |-> Range(names)]
Series(names, more, less) ==
    [names |-> names, series |-> TRUE, files |-> (Range(names) \cup more) \ less]

MCTree(top, in1, in2) ==
    [d \in Dir |-> CASE d = d0 -> top [] d = d1 -> in1 [] d = d2 -> in2 [] d = d3 -> Plainly(<<a>>)]

\* Whatever ls may give; the subdirectory empty if it is not there.
MCTrees ==
    {MCTree(Plainly(t), Plainly(u), Plainly(v)) :
        t \in Listing({a, b, sub, arc}, 4) \cup {<<readme, a, sub, b>>},
        u \in Listing({a, b, arc}, 3), v \in Listing({a, b}, 2)}

Once(t) ==
    /\ Cardinality({d \in Dir : arc \in t[d].files}) <= 1
    /\ sub \notin t[d0].files => t[d1].names = <<>>

\* A series at the top, or in the subdirectory: with lines that are not there and
\* files that are not listed, an archive among them.
MCSeriesTrees ==
    {MCTree(Series(s, {}, l), Plainly(<<>>), Plainly(<<>>)) :
        s \in Listing({a, b, readme}, 3) \cup {<<a, b, a>>}, l \in SUBSET {a, b}}
    \cup {MCTree(Plainly(t), Series(s, m, l), Plainly(v)) :
        t \in {<<a, sub>>, <<sub, b>>, <<sub, arc>>, <<sub, arc, b>>},
        s \in Listing({a, b, readme}, 2),
        m \in SUBSET {a, b, arc}, l \in {{}, {a}}, v \in {<<b>>, <<a, b>>}}
MCAnyTrees == {t \in MCTrees : Once(t)} \cup MCSeriesTrees

Loop(by, dirs) == [by |-> by, dirs |-> dirs]
MCLoops(t) ==
    {Loop("package", <<d0>>)}
    \cup IF Len(t[d0].names) > 2 \/ arc \in t[d1].files THEN {}
         ELSE {Loop(by, dirs) : by \in {"package", "kernel"}, dirs \in {<<d0, d3>>, <<d3, d0>>}}
=============================================================================
