SPECIFICATION Spec
CONSTANTS
    a = a
    b = b
    readme = readme
    sub = sub
    arc = arc
    d0 = d0
    d1 = d1
    d2 = d2
    d3 = d3
    Dir = {d0, d1, d2, d3}
    Patch = {a, b}
    Other = {readme}
    Archive = {arc}
    Sub = {sub}
    Inside <- MCInside
    Nowhere = Nowhere
    Trees <- MCAnyTrees
    Loops <- MCLoops
INVARIANTS
    InOrder
    AppliedWhenLast
CHECK_DEADLOCK FALSE
