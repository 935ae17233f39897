------------------------------ MODULE MCKExpr ------------------------------
EXTENDS KExprBuild

\* A tristate and a boolean symbol.
MCSymbols == {"A", "B"}
MCSymType == [s \in MCSymbols |-> IF s = "A" THEN "tristate" ELSE "boolean"]

\* The symbols and every comparison of the tristate one with a constant (the
\* joining rules tell all of these apart), a comparison of the other, and a
\* disjunction that ends up on the right of an operator.
MCPieces ==
    {Symbol("A"), Symbol("B"), Not(Symbol("B"))}
    \union {Comp(t, "A", c) : t \in Compare, c \in Constants}
    \union {Comp("equal", "B", symbol_no), Two("or", Symbol("B"), Symbol("A"))}
=============================================================================
