----------------------------- MODULE KExprBuild -----------------------------
(***************************************************************************)
(* One dependency expression, built as zconf.y builds it and given to the  *)
(* simplifiers of expr.c in any order, as the parser and menu_finalize do; *)
(* meaning remembers what was written.                                     *)
(***************************************************************************)
EXTENDS KExpr

CONSTANTS
    Pieces,     \* the operands a statement of the Kconfig file may add
    MaxLeaves   \* bound: leaves of the expression under construction

VARIABLES
    e,          \* the expression
    meaning,    \* what was written: for each assignment, its tristate value
    twoValued   \* a rewriting meant for y and n only has been applied

vars == <<e, meaning, twoValued>>

Init ==
    /\ e \in Pieces
    /\ meaning = [env \in Assignments |-> calc_value(e, env)]
    /\ twoValued = FALSE

\* expr: expr T_OR expr | expr T_AND expr.
Combine(type, x) ==
    /\ Leaves(e) + Leaves(x) <= MaxLeaves
    /\ e' = Two(type, e, x)
    /\ meaning' = [env \in Assignments |->
                     LET v == calc_value(x, env)
                     IN  IF type = "or" THEN EXPR_OR(meaning[env], v)
                         ELSE EXPR_AND(meaning[env], v)]
    /\ UNCHANGED twoValued

\* expr: T_NOT expr.
Negate ==
    /\ e.t # "not"
    /\ e' = Not(e)
    /\ meaning' = [env \in Assignments |-> EXPR_NOT(meaning[env])]
    /\ UNCHANGED twoValued

\* menu_finalize: expr_transform(dep).
Transform ==
    /\ e' = transform(e)
    /\ UNCHANGED <<meaning, twoValued>>

\* expr_eliminate_eq folds constants away at its end.
EliminateYn ==
    /\ e' = eliminate_yn(e)
    /\ UNCHANGED <<meaning, twoValued>>

\* menu_finalize: expr_eliminate_dups(expr_alloc_and(parentdep, dep)).
EliminateDups ==
    /\ e' = eliminate_dups(e)
    /\ twoValued' = TRUE
    /\ UNCHANGED meaning

\* menu_finalize: the dependencies of a symbol that is not tristate.
TransBool ==
    /\ e' = trans_bool(e)
    /\ twoValued' = TRUE
    /\ UNCHANGED meaning

Next ==
    \/ \E type \in Binary, x \in Pieces : Combine(type, x)
    \/ Negate
    \/ Transform
    \/ EliminateYn
    \/ EliminateDups
    \/ TransBool

Spec == Init /\ [][Next]_vars
-----------------------------------------------------------------------------
(***************************************************************************)
(* Whatever rewriting an expression went through, in whatever order, it is *)
(* worth what was written: under every assignment, or, once a rule meant   *)
(* for two values has been applied, under those with no m in them.         *)
(***************************************************************************)
Faithful ==
    \A env \in Assignments :
        (twoValued => TwoValued(env)) => calc_value(e, env) = meaning[env]

(***************************************************************************)
(* What expr_print writes of an expression zconf.y reads back as one with  *)
(* the same value: no parenthesis is missing.                              *)
(***************************************************************************)
PrintsBack ==
    LET back == Read(print(e, "none"))
    IN  /\ back.rest = <<>>
        /\ \A env \in Assignments : calc_value(back.e, env) = calc_value(e, env)

(***************************************************************************)
(* The questions menu_finalize asks before it hangs an entry below another *)
(* have true answers: expr_depends_symbol says yes only where the          *)
(* expression is n whenever the symbol is, a symbol expr_contains_symbol   *)
(* does not find has no influence, and the comparison with n stays one     *)
(* through all its rewriting (as long as nothing mentions the constant m). *)
(***************************************************************************)
AnswersRight ==
    /\ \A s \in Symbols :
        /\ depends_symbol(e, s) =>
              \A env \in Assignments : env[s] = no => calc_value(e, env) = no
        /\ ~contains_symbol(e, s) =>
              \A env \in Assignments, v \in Tristates :
                 [env EXCEPT ![s] = v] \in Assignments =>
                    calc_value(e, [env EXCEPT ![s] = v]) = calc_value(e, env)
    /\ ~contains_symbol(e, symbol_mod) =>
          LET visible == eliminate_dups(transform(trans_compare(e, "unequal", symbol_no)))
          IN  \A env \in Assignments : TwoValued(env) =>
                 calc_value(visible, env) = IF calc_value(e, env) = no THEN no ELSE yes
=============================================================================
