------------------------------ MODULE MCKMenu ------------------------------
EXTENDS KMenuFile

\* A boolean and a tristate symbol, a choice of either, and modules.
MCSymbols == {"A", "B", "C"}
MCSymType == [s \in MCSymbols |-> IF s = "B" THEN "tristate" ELSE "boolean"]
MCChoices == {"C"}
MCConditions == {Symbol("B"), Comp("equal", "A", symbol_no)}
=============================================================================
