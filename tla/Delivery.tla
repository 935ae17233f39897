------------------------------ MODULE Delivery ------------------------------
(***************************************************************************)
(* What a build system promises about installations, and nothing of how:   *)
(* a package becomes available only when all it depends on is available,   *)
(* and it may be withdrawn again at any time (uninstalled, or caught by a  *)
(* failure while being re-installed).                                      *)
(***************************************************************************)
CONSTANTS Pkg, Deps, Void        \* Void: the packages that install nothing

VARIABLE ready                   \* the packages installed wherever they ask to be

Init == ready = Void

Deliver(p) ==
    /\ Deps[p] \subseteq ready
    /\ ready' = ready \cup {p}

Withdraw(P) == ready' = ready \ P

Next == \/ \E p \in Pkg : Deliver(p)
        \/ \E P \in SUBSET Pkg : Withdraw(P)

Spec == Init /\ [][Next]_ready
=============================================================================
