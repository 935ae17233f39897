------------------------------ MODULE KSymbol ------------------------------
(***************************************************************************)
(* The values of Kconfig symbols (support/kconfig/symbol.c): the lazy      *)
(* evaluation with its cache, and what a user may set.                     *)
(*                                                                         *)
(* S is the part of every struct symbol that changes after conf_parse:     *)
(* curr (tri, val), visible, the value of rev_dep, the user's value        *)
(* def[S_DEF_USER] (defTri, defVal) and three flags, each as the set of    *)
(* symbols that have it: valid, user (SYMBOL_DEF_USER) and write; and      *)
(* modules_val and whether the change count is positive.  An operator      *)
(* that evaluates returns the S it leaves behind, for a value once         *)
(* computed stays in the cache.                                            *)
(*                                                                         *)
(* SYMBOL_CHANGED only says what to redraw, and the value of dir_dep only  *)
(* what to warn of; hex is int with another spelling.                      *)
(***************************************************************************)
EXTENDS KMenu, Integers

CONSTANTS
    Strings,    \* the values of int and string symbols
    Number      \* Strings -> what strtol makes of them

VARIABLE M      \* the menu tree, as conf_parse leaves it

Empty == ""
IntType(s) == SymType[s] = "int"
BoolType(s) == SymType[s] \in {"boolean", "tristate"}
Numeral(n) == CHOOSE str \in Strings : str # Empty /\ Number[str] = n

symbols_new(modules) ==
    [tri |-> [s \in Symbols |-> no], val |-> [s \in Symbols |-> Empty],
     visible |-> [s \in Symbols |-> no], rev |-> [s \in Symbols |-> no],
     defTri |-> [s \in Symbols |-> no], defVal |-> [s \in Symbols |-> Empty],
     valid |-> {}, user |-> {}, write |-> {}, modules |-> modules, changed |-> TRUE]

is_choice_value(s) == M.choiceOf[s] # None
MembersOf(s) == {M.members[s][i] : i \in DOMAIN M.members[s]}
PropsIn(s, types) == SelectSeq([i \in DOMAIN M.prop |-> i],
                               LAMBDA i : M.prop[i].sym = s /\ M.prop[i].type \in types)

\* A tristate is a boolean where m makes no sense.
sym_get_type(S, s) ==
    IF SymType[s] # "tristate" THEN SymType[s]
    ELSE IF (is_choice_value(s) /\ S.visible[s] = yes) \/ S.modules = no THEN "boolean"
    ELSE "tristate"

(***************************************************************************)
(* expr_calc_value, once the symbols in the expression have been computed. *)
(* A comparison is one of strings.                                         *)
(***************************************************************************)
Letter(v) == CASE v = no -> symbol_no [] v = mod -> symbol_mod [] v = yes -> symbol_yes
sym_get_string_value(S, s) ==
    IF s \notin Symbols THEN s
    ELSE IF ~BoolType(s) THEN S.val[s]
    ELSE IF S.tri[s] = mod /\ S.modules = no THEN symbol_no
    ELSE Letter(S.tri[s])

RECURSIVE Worth(_, _)
Worth(S, x) ==
    CASE x.t = "null" -> yes
      [] x.t = "symbol" -> IF x.s \in Symbols \union Constants THEN ValueOf(x.s, S.tri) ELSE no
      [] x.t = "and" -> EXPR_AND(Worth(S, x.l), Worth(S, x.r))
      [] x.t = "or" -> EXPR_OR(Worth(S, x.l), Worth(S, x.r))
      [] x.t = "not" -> EXPR_NOT(Worth(S, x.l))
      [] x.t \in Compare ->
           IF (Cardinality({sym_get_string_value(S, y) : y \in {x.s, x.v}}) = 1) = (x.t = "equal")
           THEN yes ELSE no

(***************************************************************************)
(* sym_calc_value and what it calls.  VALID is set first, so that a symbol *)
(* that is reached again while it is being computed shows its default n.   *)
(***************************************************************************)
RECURSIVE sym_calc_value(_, _), CalcAll(_, _)
CalcAll(S, ss) == IF ss = <<>> THEN S ELSE CalcAll(sym_calc_value(S, Head(ss)), Tail(ss))
Calc(S, x) == CalcAll(S, SymbolsIn(x))

\* The first of some properties whose condition is met: [S, i], i = 0 if none.
RECURSIVE FirstMet(_, _), IfMet(_, _)
FirstMet(S, is) == IF is = <<>> THEN [S |-> S, i |-> 0]
                   ELSE IfMet(Calc(S, M.prop[Head(is)].visible), is)
IfMet(S, is) == IF Worth(S, M.prop[Head(is)].visible) # no THEN [S |-> S, i |-> Head(is)]
                ELSE FirstMet(S, Tail(is))
sym_get_default_prop(S, s) == FirstMet(S, PropsIn(s, {"default"}))
sym_get_range_prop(S, s) == FirstMet(S, PropsIn(s, {"range"}))

\* The best of some prompts: [S, v].
RECURSIVE BestPrompt(_, _), Better(_, _)
BestPrompt(S, is) == IF is = <<>> THEN [S |-> S, v |-> no]
                     ELSE Better(Calc(S, M.prop[Head(is)].visible), is)
Better(S, is) == [BestPrompt(S, Tail(is)) EXCEPT
                     !.v = EXPR_OR(@, Worth(S, M.prop[Head(is)].visible))]

AsBoolean(S, s, v) == IF v = mod /\ sym_get_type(S, s) = "boolean" THEN yes ELSE v
SetVisible(best, s) ==
    [best.S EXCEPT !.visible[s] =
        IF best.v = mod /\ (SymType[s] # "tristate" \/ best.S.modules = no) THEN yes ELSE best.v]
SetRev(S, s) ==
    [S EXCEPT !.rev[s] = AsBoolean(S, s, IF M.rev[s] = NULL THEN no ELSE Worth(S, M.rev[s]))]
Depend(S, s) == IF is_choice_value(s) THEN S
                ELSE SetRev(CalcAll(S, SymbolsIn(M.dir[s]) \o SymbolsIn(M.rev[s])), s)
sym_calc_visibility(S, s) ==
    Depend(SetVisible(BestPrompt(S, PropsIn(s, {"prompt", "menu"})), s), s)

\* The first default that is visible, or else the first visible value.
RECURSIVE FirstShown(_, _), IfShown(_, _)
FirstShown(S, is) == IfShown(FirstMet(S, is), is)
IfShown(met, is) ==
    IF met.i = 0 THEN [S |-> met.S, s |-> None]
    ELSE IF met.S.visible[M.prop[met.i].expr.s] # no
         THEN [S |-> met.S, s |-> M.prop[met.i].expr.s]
         ELSE FirstShown(met.S, SelectSeq(is, LAMBDA i : i > met.i))
OrFirst(def, vals) == IF def.s # None \/ vals = <<>> THEN def ELSE [def EXCEPT !.s = Head(vals)]
ValueOrFirst(def, c) == OrFirst(def, SelectSeq(M.members[c], LAMBDA v : def.S.visible[v] # no))
sym_choice_default(S, c) == ValueOrFirst(FirstShown(S, PropsIn(c, {"default"})), c)

\* The values of a choice are looked at, and one of them is set.
RECURSIVE SeeValues(_, _)
SeeValues(S, vs) == IF vs = <<>> THEN S
                    ELSE SeeValues(sym_calc_visibility(S, Head(vs)), Tail(vs))
SetChoice(def, c) == [def.S EXCEPT !.val[c] = def.s, !.tri[c] = IF def.s = None THEN no ELSE @]

\* Mutant of sym_calc_choice: the value the user chose need not be visible.
sym_calc_choice_hidden(S, c) ==
    LET Value(T) == IF T.defVal[c] \in MembersOf(c) THEN [S |-> T, s |-> T.defVal[c]]
                    ELSE sym_choice_default(T, c)
    IN  SetChoice(Value(SeeValues(S, M.members[c])), c)

\* A choice with a visible value the user has not seen is new again.
ForgetChoice(S, c) == IF \E v \in MembersOf(c) : S.visible[v] # no /\ v \notin S.user
                      THEN [S EXCEPT !.user = @ \ {c}] ELSE S
ChoiceValue(S, c) == IF S.defVal[c] \in MembersOf(c) /\ S.visible[S.defVal[c]] # no
                     THEN [S |-> S, s |-> S.defVal[c]] ELSE sym_choice_default(S, c)
sym_calc_choice(S, c) ==
    SetChoice(ChoiceValue(ForgetChoice(SeeValues(S, M.members[c]), c), c), c)

\* boolean and tristate: [S, v].
ToWrite(S, s) == [S EXCEPT !.write = @ \union {s}]
GivenTristate(S, s, p) == [S |-> ToWrite(S, s),
                           v |-> EXPR_AND(Worth(S, p.expr), Worth(S, p.visible))]
DefaultTristate(def, s) ==
    IF def.i = 0 THEN [S |-> def.S, v |-> no]
    ELSE GivenTristate(Calc(def.S, M.prop[def.i].expr), s, M.prop[def.i])
OwnTristate(S, s) ==
    IF S.visible[s] # no /\ s \in S.user
    THEN [S |-> ToWrite(S, s), v |-> EXPR_AND(S.defTri[s], S.visible[s])]
    ELSE LET shown == IF S.visible[s] # no \/ S.rev[s] # no THEN ToWrite(S, s) ELSE S
         IN  IF s \in Choices THEN [S |-> shown, v |-> no]
             ELSE DefaultTristate(sym_get_default_prop(shown, s), s)
\* A member of a choice that is y is y or n with it.
CalcTristate(S, s) ==
    [(IF is_choice_value(s) /\ S.visible[s] = yes
      THEN [S |-> S, v |-> IF S.val[M.choiceOf[s]] = s THEN yes ELSE no]
      ELSE [OwnTristate(S, s) EXCEPT !.v = EXPR_OR(@, S.rev[s])])
     EXCEPT !.v = AsBoolean(S, s, @)]

\* int and string: [S, v].
GivenString(S, s, ds) == [S |-> ToWrite(S, s), v |-> IF ds \in Symbols THEN S.val[ds] ELSE ds]
DefaultString(def, s) ==
    IF def.i = 0 \/ M.prop[def.i].expr.t # "symbol" THEN [S |-> def.S, v |-> Empty]
    ELSE GivenString(sym_calc_value(def.S, M.prop[def.i].expr.s), s, M.prop[def.i].expr.s)
CalcString(S, s) ==
    IF S.visible[s] # no /\ s \in S.user THEN [S |-> ToWrite(S, s), v |-> S.defVal[s]]
    ELSE [DefaultString(sym_get_default_prop(S, s), s) EXCEPT
             !.S = IF S.visible[s] # no THEN ToWrite(@, s) ELSE @]

RangeVal(S, b) == Number[IF b \in Symbols THEN S.val[b] ELSE b]
Bounds(met) == <<M.prop[met.i].expr.s, M.prop[met.i].expr.v>>
Clamp(S, s, low, high) ==
    IF Number[S.val[s]] < low THEN [S EXCEPT !.val[s] = Numeral(low)]
    ELSE IF Number[S.val[s]] > high THEN [S EXCEPT !.val[s] = Numeral(high)]
    ELSE S
ClampTo(S, s, x) == Clamp(S, s, RangeVal(S, x.s), RangeVal(S, x.v))
InRange(met, s) == IF met.i = 0 THEN met.S
                   ELSE ClampTo(CalcAll(met.S, Bounds(met)), s, M.prop[met.i].expr)
sym_validate_range(S, s) == IF IntType(s) THEN InRange(sym_get_range_prop(S, s), s) ELSE S

SetTri(new, s) == [new.S EXCEPT !.tri[s] = new.v, !.val[s] = Empty]
SetVal(new, s) == [new.S EXCEPT !.val[s] = new.v]
CalcOwn(S, s) == IF BoolType(s) THEN SetTri(CalcTristate(S, s), s)
                 ELSE SetVal(CalcString(S, s), s)
CalcChosen(S, s) == IF s \in Choices /\ S.tri[s] = yes THEN sym_calc_choice(S, s) ELSE S
WriteValues(S, s) == IF s \notin Choices THEN S
                     ELSE [S EXCEPT !.write = (IF s \in @ THEN @ \union
                              {v \in MembersOf(s) : S.visible[v] # no} ELSE @) \ {s}]
CalcSeen(S, s) == WriteValues(sym_validate_range(CalcChosen(CalcOwn(S, s), s), s), s)
sym_calc_value(S, s) ==
    IF s \notin Symbols \/ s \in S.valid THEN S
    ELSE CalcSeen([sym_calc_visibility([S EXCEPT !.valid = @ \union {s},
                                                 !.write = IF is_choice_value(s) THEN @
                                                           ELSE @ \ {s}], s)
                      EXCEPT !.tri[s] = no, !.val[s] = Empty], s)

sym_clear_all_valid(S) == [S EXCEPT !.valid = {}, !.changed = TRUE]

(***************************************************************************)
(* What a user may set: [S, ok].                                           *)
(***************************************************************************)
sym_is_changable(S, s) == S.visible[s] > S.rev[s]

sym_tristate_within_range(S, s, v) ==
    /\ S.visible[s] # no
    /\ BoolType(s)
    /\ ~(sym_get_type(S, s) = "boolean" /\ v = mod)
    /\ sym_is_changable(S, s)
    /\ IF is_choice_value(s) /\ S.visible[s] = yes THEN v = yes
       ELSE v >= S.rev[s] /\ v <= S.visible[s]

\* Mutant of sym_set_tristate_value: the cached values are kept.
sym_set_tristate_value_cached(S, s, v) ==
    LET c == M.choiceOf[s]
        known == [S EXCEPT !.user = @ \union {s}, !.defTri[s] = v]
        in == IF ~(is_choice_value(s) /\ v = yes) THEN known
              ELSE [known EXCEPT !.defVal[c] = s,
                                 !.user = @ \union {c} \union
                                          {w \in MembersOf(c) : S.visible[w] # no}]
    IN  IF S.tri[s] # v /\ ~sym_tristate_within_range(S, s, v) THEN [S |-> S, ok |-> FALSE]
        ELSE [S |-> [in EXCEPT !.valid = @ \ {s}, !.changed = TRUE], ok |-> TRUE]

\* Mutant of sym_set_tristate_value: a repeated value does not count as given.
sym_set_tristate_value_lazy(S, s, v) ==
    LET set == [S EXCEPT !.user = @ \union {s}, !.defTri[s] = v]
    IN  IF S.tri[s] = v THEN [S |-> S, ok |-> TRUE]
        ELSE IF ~sym_tristate_within_range(S, s, v) THEN [S |-> S, ok |-> FALSE]
        ELSE [S |-> sym_clear_all_valid(set), ok |-> TRUE]

sym_set_tristate_value(S, s, v) ==
    LET c == M.choiceOf[s]
        known == [S EXCEPT !.user = @ \union {s}]
        in == IF ~(is_choice_value(s) /\ v = yes) THEN known
              ELSE [known EXCEPT !.defVal[c] = s,
                                 !.user = @ \union {c} \union
                                          {w \in MembersOf(c) : S.visible[w] # no}]
        set == [in EXCEPT !.defTri[s] = v]
    IN  IF S.tri[s] # v /\ ~sym_tristate_within_range(S, s, v) THEN [S |-> S, ok |-> FALSE]
        ELSE [S |-> IF S.tri[s] # v THEN sym_clear_all_valid(set) ELSE set, ok |-> TRUE]

sym_string_valid(s, str) == IntType(s) => str # Empty

WithinBounds(S, x, n) == [S |-> S, ok |-> n \in RangeVal(S, x.s)..RangeVal(S, x.v)]
WithinRange(met, n) == IF met.i = 0 THEN [S |-> met.S, ok |-> TRUE]
                       ELSE WithinBounds(CalcAll(met.S, Bounds(met)), M.prop[met.i].expr, n)
sym_string_within_range(S, s, str) ==
    IF ~IntType(s) \/ ~sym_string_valid(s, str)
    THEN [S |-> S, ok |-> sym_string_valid(s, str)]
    ELSE WithinRange(sym_get_range_prop(S, s), Number[str])

SetString(in, s, str, repeated) ==
    IF ~in.ok THEN in
    ELSE LET set == [in.S EXCEPT !.user = @ \union {s}, !.defVal[s] = str]
         IN  [in EXCEPT !.S = IF repeated THEN set ELSE sym_clear_all_valid(set)]
sym_set_string_value(S, s, str) ==
    SetString(sym_string_within_range(S, s, str), s, str, S.defVal[s] = str /\ str # Empty)

(***************************************************************************)
(* sym_get_string_default: the value a symbol has without the user: [S,v]. *)
(***************************************************************************)
DefaultLetter(S, s, v) ==
    Letter(IF v = mod /\ (SymType[s] = "boolean" \/ (~is_choice_value(s) /\ S.modules = no))
           THEN yes ELSE v)
DefaultText(S, s, p) ==
    [S |-> S, v |-> IF BoolType(s)
                    THEN DefaultLetter(S, s, EXPR_OR(GivenTristate(S, s, p).v, S.rev[s]))
                    ELSE GivenString(S, s, p.expr.s).v]
DefaultOf(def, s) ==
    IF def.i # 0 THEN DefaultText(Calc(def.S, M.prop[def.i].expr), s, M.prop[def.i])
    ELSE [S |-> def.S, v |-> IF BoolType(s) THEN DefaultLetter(def.S, s, def.S.rev[s]) ELSE Empty]
sym_get_string_default(S, s) ==
    DefaultOf(sym_get_default_prop(sym_calc_visibility(S, s), s), s)

(***************************************************************************)
(* menu_is_visible: [S, ok].  An entry whose prompt is hidden shows when   *)
(* it has a value and something visible below it, and then counts as       *)
(* answered.                                                               *)
(***************************************************************************)
RECURSIVE menu_is_visible(_, _), AnyVisible(_, _), OrNext(_, _), Shown(_, _)
AnyVisible(S, ms) == IF ms = <<>> THEN [S |-> S, ok |-> FALSE]
                     ELSE OrNext(menu_is_visible(S, Head(ms)), Tail(ms))
OrNext(one, ms) == IF one.ok THEN one ELSE AnyVisible(one.S, ms)
KnownBelow(any, s) == IF any.ok THEN [any EXCEPT !.S.user = @ \union {s}] ELSE any
Shown(S, e) ==
    IF Worth(S, M.prop[e.prompt].visible) # no THEN [S |-> S, ok |-> TRUE]
    ELSE IF e.sym = None THEN [S |-> S, ok |-> FALSE]
    ELSE IF S.tri[e.sym] = no THEN [S |-> S, ok |-> FALSE]
    ELSE KnownBelow(AnyVisible(S, e.list), e.sym)
menu_is_visible(S, m) ==
    LET e == M.menu[m]
    IN  IF e.prompt = 0 THEN [S |-> S, ok |-> FALSE]
        ELSE Shown(Calc(IF e.sym = None THEN S ELSE sym_calc_value(S, e.sym),
                        M.prop[e.prompt].visible), e)
=============================================================================
