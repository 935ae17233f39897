------------------------------- MODULE KExpr -------------------------------
(***************************************************************************)
(* The dependency expressions of Kconfig (support/kconfig/expr.c): what    *)
(* "depends on", "if", "select" and "default" are parsed into, and the     *)
(* rewriting menu_finalize subjects them to before a single value is       *)
(* computed.  An expression is a tree; the program rewrites it in place,   *)
(* through two pointers into one tree at a time, so that a slot of it      *)
(* is here a path from the root and a rewriting returns a new root.        *)
(* The tree is not shared: nothing here writes to an expression that       *)
(* another one contains ("visible if", which Buildroot's Config.in files   *)
(* do not use, would).                                                     *)
(***************************************************************************)
EXTENDS Naturals, Sequences, FiniteSets

CONSTANTS
    Symbols,    \* names of the symbols an expression may mention
    SymType     \* Symbols -> the type menu_set_type leaves them with

\* enum tristate
no == 0
mod == 1
yes == 2
Tristates == {no, mod, yes}
EXPR_AND(a, b) == IF a < b THEN a ELSE b
EXPR_OR(a, b) == IF a > b THEN a ELSE b
EXPR_NOT(a) == 2 - a

(***************************************************************************)
(* The nodes.  symbol_yes, symbol_mod and symbol_no are constant symbols.  *)
(***************************************************************************)
symbol_yes == "y"
symbol_mod == "m"
symbol_no == "n"
Constants == {symbol_yes, symbol_mod, symbol_no}

NULL == [t |-> "null"]
Symbol(s) == [t |-> "symbol", s |-> s]
Comp(t, s, v) == [t |-> t, s |-> s, v |-> v]
Not(x) == [t |-> "not", l |-> x]
Two(t, x, y) == [t |-> t, l |-> x, r |-> y]
Binary == {"or", "and"}
Compare == {"equal", "unequal"}

And(x, y) == IF x = NULL THEN y ELSE IF y = NULL THEN x ELSE Two("and", x, y)
Or(x, y) == IF x = NULL THEN y ELSE IF y = NULL THEN x ELSE Two("or", x, y)

is_yes(x) == x = NULL \/ x = Symbol(symbol_yes)

RECURSIVE Leaves(_)
Leaves(x) == CASE x.t \in Binary -> Leaves(x.l) + Leaves(x.r)
               [] x.t = "not" -> Leaves(x.l)
               [] OTHER -> 1

(***************************************************************************)
(* What an expression is worth when env gives every symbol its value.      *)
(***************************************************************************)
Assignments == {env \in [Symbols -> Tristates] :
                    \A s \in Symbols : SymType[s] = "boolean" => env[s] # mod}
TwoValued(env) == \A s \in Symbols : env[s] # mod

ValueOf(s, env) == CASE s = symbol_yes -> yes
                     [] s = symbol_mod -> mod
                     [] s = symbol_no -> no
                     [] OTHER -> env[s]

RECURSIVE calc_value(_, _)
calc_value(x, env) ==
    CASE x.t = "null" -> yes
      [] x.t = "symbol" -> ValueOf(x.s, env)
      [] x.t = "and" -> EXPR_AND(calc_value(x.l, env), calc_value(x.r, env))
      [] x.t = "or" -> EXPR_OR(calc_value(x.l, env), calc_value(x.r, env))
      [] x.t = "not" -> EXPR_NOT(calc_value(x.l, env))
      [] x.t = "equal" -> IF ValueOf(x.s, env) = ValueOf(x.v, env) THEN yes ELSE no
      [] x.t = "unequal" -> IF ValueOf(x.s, env) = ValueOf(x.v, env) THEN no ELSE yes

(***************************************************************************)
(* Slots: the paths of a tree, and a tree with one slot overwritten.       *)
(***************************************************************************)
RECURSIVE At(_, _), Put(_, _, _)
At(x, p) == IF p = <<>> THEN x ELSE At(x[Head(p)], Tail(p))
Put(x, p, new) == IF p = <<>> THEN new
                  ELSE [x EXCEPT ![Head(p)] = Put(@, Tail(p), new)]
Left(p) == Append(p, "l")
Right(p) == Append(p, "r")

\* Or-ing with n, and-ing with y, changes nothing: what a removed operand
\* leaves in its slot.
Unit(type) == Symbol(IF type = "or" THEN symbol_no ELSE symbol_yes)
Zero(type) == Symbol(IF type = "or" THEN symbol_yes ELSE symbol_no)

(***************************************************************************)
(* expr_eliminate_yn: constants y and n folded away, bottom up.            *)
(***************************************************************************)
RECURSIVE eliminate_yn(_)
eliminate_yn(x) ==
    IF x.t \notin Binary THEN x
    ELSE LET l == eliminate_yn(x.l)
             r == eliminate_yn(x.r)
         IN  CASE Zero(x.t) \in {l, r} -> Zero(x.t)
               [] l = Unit(x.t) -> r
               [] r = Unit(x.t) -> l
               [] OTHER -> Two(x.t, l, r)

(***************************************************************************)
(* expr_eq and expr_eliminate_eq: the operands two expressions have in     *)
(* common are taken out of both; they are equal when nothing else is left. *)
(* The two roots are the two children of a pair.                           *)
(***************************************************************************)
RECURSIVE expr_eq(_, _), eliminate_eq1(_, _, _, _)
eliminate_eq1(type, pair, p1, p2) ==
    LET e1 == At(pair, p1)
        e2 == At(pair, p2)
    IN  CASE e1.t = type ->
               eliminate_eq1(type, eliminate_eq1(type, pair, Left(p1), p2), Right(p1), p2)
          [] e1.t # type /\ e2.t = type ->
               eliminate_eq1(type, eliminate_eq1(type, pair, p1, Left(p2)), p1, Right(p2))
          [] e1.t # type /\ e2.t # type ->
               IF (e1 = e2 /\ e1 \in {Zero("or"), Zero("and")}) \/ ~expr_eq(e1, e2)
               THEN pair
               ELSE Put(Put(pair, p1, Unit(type)), p2, Unit(type))

EqPass(pair, type) == IF type \in Binary THEN eliminate_eq1(type, pair, <<"l">>, <<"r">>)
                      ELSE pair
EqSecond(pair) == EqPass(pair, IF pair.l.t # pair.r.t THEN pair.r.t ELSE "none")
EqFolded(pair) == [pair EXCEPT !.l = eliminate_yn(@), !.r = eliminate_yn(@)]
eliminate_eq(e1, e2) == EqFolded(EqSecond(EqPass(Two("pair", e1, e2), e1.t)))

NothingLeft(pair) == pair.l.t = "symbol" /\ pair.l = pair.r
expr_eq(e1, e2) ==
    /\ e1.t = e2.t
    /\ CASE e1.t \in Compare \union {"symbol"} -> e1 = e2
         [] e1.t = "not" -> expr_eq(e1.l, e2.l)
         [] e1.t \in Binary -> NothingLeft(eliminate_eq(e1, e2))

(***************************************************************************)
(* expr_trans_bool: FOO!=n is FOO where only y and n matter.               *)
(***************************************************************************)
RECURSIVE trans_bool(_)
trans_bool(x) ==
    CASE x.t \in Binary -> Two(x.t, trans_bool(x.l), trans_bool(x.r))
      [] x.t = "not" -> Not(trans_bool(x.l))
      [] x.t = "unequal" /\ x.v = symbol_no /\ x.s \notin Constants ->
            IF SymType[x.s] = "tristate" THEN Symbol(x.s) ELSE x
      [] OTHER -> x

(***************************************************************************)
(* expr_transform: negations pushed to the leaves; a comparison of a       *)
(* boolean symbol is the symbol, its negation or a constant.               *)
(***************************************************************************)
\* Mutant of Flip: a negated comparison stays what it was.
FlipNot(type) == type

Flip(type) == IF type = "equal" THEN "unequal" ELSE "equal"
Negated == [c \in Constants |-> CASE c = symbol_yes -> symbol_no
                                  [] c = symbol_no -> symbol_yes
                                  [] c = symbol_mod -> symbol_mod]

BooleanCompare(x) ==
    CASE x.v = symbol_mod -> Symbol(IF x.t = "equal" THEN symbol_no ELSE symbol_yes)
      [] x.v = (IF x.t = "equal" THEN symbol_yes ELSE symbol_no) -> Symbol(x.s)
      [] x.v = (IF x.t = "equal" THEN symbol_no ELSE symbol_yes) -> Not(Symbol(x.s))
      [] OTHER -> x

RECURSIVE transform(_)
transform(x) ==
    CASE x.t \in Compare /\ x.s \in Symbols ->
            IF SymType[x.s] = "boolean" THEN BooleanCompare(x) ELSE x
      [] x.t \in Binary -> Two(x.t, transform(x.l), transform(x.r))
      [] x.t = "not" ->
            LET a == transform(x.l)
            IN (CASE a.t = "not" -> transform(a.l)
                  [] a.t \in Compare -> Comp(Flip(a.t), a.s, a.v)
                  [] a.t = "or" -> transform(Two("and", Not(a.l), Not(a.r)))
                  [] a.t = "and" -> transform(Two("or", Not(a.l), Not(a.r)))
                  [] a.t = "symbol" -> IF a.s \in Constants THEN Symbol(Negated[a.s])
                                       ELSE Not(a))
      [] OTHER -> x

(***************************************************************************)
(* expr_join_or, expr_join_and: two operands that say something of one     *)
(* symbol become one; NULL when there is nothing to gain.                  *)
(***************************************************************************)
Nameless == "<none>"
Subject(x, negatable) == CASE x.t \in Compare \union {"symbol"} -> x.s
                           [] x.t = "not" /\ x.l.t \in negatable -> x.l.s
                           [] OTHER -> Nameless
SameSubject(e1, e2) ==
    LET sym1 == Subject(e1, Compare \union {"symbol"})
    IN  sym1 \in Symbols /\ sym1 = Subject(e2, {"symbol"})

\* The one of y, m and n that is neither of two others.
Third(c, d) == CHOOSE b \in Constants : b \notin {c, d}
TwoConstants(e1, e2) == e1.v # e2.v /\ {e1.v, e2.v} \subseteq Constants

join_or(e1, e2) ==
    LET a == Subject(e2, {"symbol"})
    IN  CASE /\ SymType[a] = "tristate" /\ e1.t = "equal" /\ e2.t = "equal"
             /\ TwoConstants(e1, e2) -> Comp("unequal", a, Third(e1.v, e2.v))
          [] /\ SymType[a] = "boolean"
             /\ {e1, e2} = {Symbol(a), Not(Symbol(a))} -> Symbol(symbol_yes)
          [] OTHER -> NULL

join_and(e1, e2) ==
    LET a == Subject(e2, {"symbol"})
        Both(x, y) == {e1, e2} = {x, y}
        Eq(c) == Comp("equal", a, c)
        Ne(c) == Comp("unequal", a, c)
    IN  CASE Both(Symbol(a), Eq(symbol_yes)) -> Eq(symbol_yes)
          [] Both(Symbol(a), Ne(symbol_no)) -> Symbol(a)
          [] Both(Symbol(a), Ne(symbol_mod)) -> Eq(symbol_yes)
          [] /\ SymType[a] = "tristate" /\ {e1.t, e2.t} = Compare
             /\ {e1.v, e2.v} \subseteq Constants ->
                IF e1.v = e2.v THEN Symbol(symbol_no)
                ELSE IF e1.t = "equal" THEN e1 ELSE e2
          [] /\ SymType[a] = "tristate" /\ e1.t = "unequal" /\ e2.t = "unequal"
             /\ TwoConstants(e1, e2) -> Eq(Third(e1.v, e2.v))
          [] OTHER -> NULL

join(type, e1, e2) == IF expr_eq(e1, e2) THEN e1
                      ELSE IF ~SameSubject(e1, e2) THEN NULL
                      ELSE IF type = "or" THEN join_or(e1, e2) ELSE join_and(e1, e2)

(***************************************************************************)
(* expr_extract_eq: the operands (under type) that two expressions share   *)
(* leave them; expr_extract_eq_and and _or fold away what they leave.      *)
(***************************************************************************)
RECURSIVE extract_eq(_, _, _, _)
extract_eq(type, st, p1, p2) ==     \* st: [found |-> expression, pair |-> both]
    LET e1 == At(st.pair, p1)
        e2 == At(st.pair, p2)
    IN  CASE e1.t = type ->
               extract_eq(type, extract_eq(type, st, Left(p1), p2), Right(p1), p2)
          [] e1.t # type /\ e2.t = type ->
               extract_eq(type, extract_eq(type, st, p1, Left(p2)), p1, Right(p2))
          [] e1.t # type /\ e2.t # type ->
               IF ~expr_eq(e1, e2) THEN st
               ELSE [found |-> IF st.found = NULL THEN e1 ELSE Two(type, st.found, e1),
                     pair  |-> Put(Put(st.pair, p1, Unit(type)), p2, Unit(type))]

\* What extraction leaves of the first of the two.
FirstLeft(st) == IF st.found = NULL THEN st.pair.l ELSE eliminate_yn(st.pair.l)
LeftOf(type, e1, e2) ==
    FirstLeft(extract_eq(type, [found |-> NULL, pair |-> Two("pair", e1, e2)], <<"l">>, <<"r">>))

(***************************************************************************)
(* expr_eliminate_dups: two passes over every two operands of one operator *)
(* (count is trans_count: something changed), until nothing does.          *)
(***************************************************************************)
\* The operands at p1 and p2 become one, where they can.
PutJoined(type, st, p1, p2, tmp) ==
    IF tmp = NULL THEN st
    ELSE [e |-> Put(Put(st.e, p1, Unit(type)), p2, tmp), count |-> TRUE]
JoinInto(type, st, p1, p2) ==
    PutJoined(type, st, p1, p2, join(type, At(st.e, p1), At(st.e, p2)))

\* (FOO || BAR) && (!FOO && !BAR) -> n, and its dual: type joins the two.
Oppose(type, st, p1, p2) ==
    IF LeftOf(type, transform(Not(At(st.e, p1))), At(st.e, p2)) = Unit(type)
    THEN [e |-> Put(st.e, p1, Zero(type)), count |-> TRUE] ELSE st

RECURSIVE eliminate_dups1(_, _, _, _), eliminate_dups2(_, _, _, _), eliminate_dups(_)
RECURSIVE OpposeInside(_, _, _), DupsAgain(_)
eliminate_dups1(type, st, p1, p2) ==
    LET e1 == At(st.e, p1)
    IN  CASE e1.t = type ->
               eliminate_dups1(type, eliminate_dups1(type, st, Left(p1), p2), Right(p1), p2)
          [] e1.t # type /\ At(st.e, p2).t = type ->
               eliminate_dups1(type, eliminate_dups1(type, st, p1, Left(p2)), p1, Right(p2))
          [] e1.t # type /\ At(st.e, p2).t # type ->
               IF p1 = p2 THEN st
               ELSE JoinInto(type, IF e1.t \in Binary THEN eliminate_dups1(e1.t, st, p1, p1)
                                   ELSE st, p1, p2)

\* An operand of the other operator: its own operands, then itself.
OpposeInside(st, p1, p2) ==
    LET dual == At(st.e, p1).t
    IN  IF p1 = p2 \/ dual \notin Binary THEN st
        ELSE Oppose(IF dual = "or" THEN "and" ELSE "or",
                    eliminate_dups2(dual, st, p1, p1), p1, p2)
eliminate_dups2(type, st, p1, p2) ==
    CASE At(st.e, p1).t = type ->
           eliminate_dups2(type, eliminate_dups2(type, st, Left(p1), p2), Right(p1), p2)
      [] OTHER -> OpposeInside(IF At(st.e, p2).t # type THEN st
                               ELSE eliminate_dups2(type, eliminate_dups2(type, st, p1, Left(p2)),
                                                    p1, Right(p2)), p1, p2)

DupsAgain(st) == IF st.count THEN eliminate_dups(eliminate_yn(st.e)) ELSE st.e
eliminate_dups(x) ==
    IF x.t \notin Binary THEN x
    ELSE DupsAgain(eliminate_dups2(x.t, eliminate_dups1(x.t, [e |-> x, count |-> FALSE],
                                                        <<>>, <<>>), <<>>, <<>>))

(***************************************************************************)
(* expr_contains_symbol, expr_depends_symbol: does the value of an         *)
(* expression mention a symbol, and is it n wherever the symbol is?        *)
(***************************************************************************)
RECURSIVE contains_symbol(_, _), depends_symbol(_, _)
contains_symbol(x, s) ==
    CASE x.t \in Binary -> contains_symbol(x.l, s) \/ contains_symbol(x.r, s)
      [] x.t = "not" -> contains_symbol(x.l, s)
      [] x.t = "symbol" -> x.s = s
      [] x.t \in Compare -> s \in {x.s, x.v}
      [] OTHER -> FALSE

\* Mutant of depends_symbol: one side of an "or" is enough.
RECURSIVE depends_symbol_or(_, _)
depends_symbol_or(x, s) ==
    CASE x.t \in Binary -> depends_symbol_or(x.l, s) \/ depends_symbol_or(x.r, s)
      [] x.t = "symbol" -> x.s = s
      [] x.t = "equal" -> x.s = s /\ x.v \in {symbol_yes, symbol_mod}
      [] x.t = "unequal" -> x.s = s /\ x.v = symbol_no
      [] OTHER -> FALSE

depends_symbol(x, s) ==
    CASE x.t = "and" -> depends_symbol(x.l, s) \/ depends_symbol(x.r, s)
      [] x.t = "symbol" -> x.s = s
      [] x.t = "equal" -> x.s = s /\ x.v \in {symbol_yes, symbol_mod}
      [] x.t = "unequal" -> x.s = s /\ x.v = symbol_no
      [] OTHER -> FALSE

(***************************************************************************)
(* expr_trans_compare: x = c, or x != c, written with comparisons of       *)
(* symbols.  It is called with n, for what "visible at all" means.         *)
(***************************************************************************)
RECURSIVE trans_compare(_, _, _)
trans_compare(x, type, c) ==
    LET Sign(y) == IF type = "unequal" THEN Not(y) ELSE y
        Parts(op) == Two(op, trans_compare(x.l, "equal", c), trans_compare(x.r, "equal", c))
        Dual == IF x.t = "and" THEN "or" ELSE "and"
    IN  CASE x = NULL -> Sign(Symbol(c))
          [] x.t \in Binary -> Sign(IF c = symbol_yes THEN Parts(x.t)
                                    ELSE IF c = symbol_no THEN Parts(Dual) ELSE x)
          [] x.t = "not" -> trans_compare(x.l, Flip(type), c)
          [] x.t \in Compare ->
               (CASE c = symbol_mod -> Symbol(IF type = "equal" THEN symbol_no ELSE symbol_yes)
                  [] c = symbol_yes -> Sign(x)
                  [] c = symbol_no -> IF type = "equal" THEN Not(x) ELSE x)
          [] x.t = "symbol" -> Comp(type, x.s, c)

(***************************************************************************)
(* expr_print, as the tokens it prints, and the grammar of zconf.y that    *)
(* reads them: "or" binds least, then "and", then the comparisons, then    *)
(* "not"; both operators associate to the left.                            *)
(***************************************************************************)
Rank(t) == CASE t = "none" -> 0
             [] t = "or" -> 1
             [] t = "and" -> 2
             [] t = "not" -> 3
             [] t \in Compare -> 4
             [] OTHER -> 5
\* Mutant of compare_type: "not" is taken to bind less than "and".
compare_type_low(t1, t2) == t1 # t2 /\ t1 # "not" /\ Rank(t1) > Rank(t2)

compare_type(t1, t2) == t1 # t2 /\ Rank(t1) > Rank(t2)

RECURSIVE print(_, _)
print(x, prev) ==
    LET body == CASE x.t = "symbol" -> <<x.s>>
                  [] x.t = "not" -> <<"!">> \o print(x.l, "not")
                  [] x.t = "equal" -> <<x.s, "=", x.v>>
                  [] x.t = "unequal" -> <<x.s, "!=", x.v>>
                  [] x.t = "or" -> print(x.l, "or") \o <<"||">> \o print(x.r, "or")
                  [] x.t = "and" -> print(x.l, "and") \o <<"&&">> \o print(x.r, "and")
    IN  IF compare_type(prev, x.t) THEN <<"(">> \o body \o <<")">> ELSE body

\* Each reads a phrase off the front of a sequence of tokens: [e, rest].
RECURSIVE ReadOperand(_), ReadMore(_, _), Read(_)
ReadOperand(ts) ==
    CASE Head(ts) = "(" -> LET in == Read(Tail(ts)) IN [in EXCEPT !.rest = Tail(@)]
      [] Head(ts) = "!" -> LET in == ReadOperand(Tail(ts)) IN [in EXCEPT !.e = Not(@)]
      [] OTHER -> IF Len(ts) > 2 /\ ts[2] \in {"=", "!="}
                  THEN [e |-> Comp(IF ts[2] = "=" THEN "equal" ELSE "unequal", ts[1], ts[3]),
                        rest |-> SubSeq(ts, 4, Len(ts))]
                  ELSE [e |-> Symbol(ts[1]), rest |-> Tail(ts)]
ReadMore(st, ops) ==
    IF st.rest = <<>> \/ Head(st.rest) \notin ops THEN st
    ELSE LET next == ReadOperand(Tail(st.rest))
             more == IF Head(st.rest) = "||" THEN ReadMore(next, {"&&"}) ELSE next
             type == IF Head(st.rest) = "||" THEN "or" ELSE "and"
         IN  ReadMore([e |-> Two(type, st.e, more.e), rest |-> more.rest], ops)
Read(ts) == ReadMore(ReadMore(ReadOperand(ts), {"&&"}), {"||"})

=============================================================================
