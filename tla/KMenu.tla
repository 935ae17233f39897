------------------------------- MODULE KMenu -------------------------------
(***************************************************************************)
(* The menu tree of Kconfig (support/kconfig/menu.c): what the statements  *)
(* of the Config.in files build (zconf.y), what menu_finalize makes of it, *)
(* and the search for recursive dependencies that conf_parse ends with.    *)
(*                                                                         *)
(* M is everything the parser keeps: the entries, each with the sequence   *)
(* of the entries below it; the properties of all symbols, in the order of *)
(* the file; for each symbol its rev_dep and dir_dep; the choice a choice  *)
(* value belongs to, and the values of each choice.  The types are those   *)
(* the files give (SymType); "visible if", which Buildroot does not use,   *)
(* is left out.                                                            *)
(***************************************************************************)
EXTENDS KExpr

CONSTANTS
    Choices,        \* the symbols that are choices
    modules_sym     \* the symbol behind "m" (option modules, or MODULES)

None == "<none>"
ConfigSymbols == Symbols \ Choices

(***************************************************************************)
(* _menu_init and conf_parse: the root, with its prompt.                   *)
(***************************************************************************)
rootmenu == 1
NewEntry(sym, parent) ==
    [sym |-> sym, parent |-> parent, list |-> <<>>, dep |-> NULL, prompt |-> 0]

menu_init ==
    [menu |-> <<[NewEntry(None, 0) EXCEPT !.prompt = 1]>>,
     prop |-> <<[type |-> "menu", sym |-> None, menu |-> rootmenu, expr |-> NULL,
                 visible |-> NULL]>>,
     rev |-> [s \in Symbols |-> NULL], dir |-> [s \in Symbols |-> NULL],
     optional |-> {}, choiceOf |-> [s \in Symbols |-> None],
     members |-> [s \in Choices |-> <<>>],
     current_entry |-> rootmenu, current_menu |-> rootmenu]

\* sym->prop: the properties of a symbol, and those of them that an entry gave.
PropsOf(M, s) == {i \in DOMAIN M.prop : M.prop[i].sym = s}
\* Mutant of PropsAt: what other entries say of the symbol is taken for its own.
PropsAtAll(M, m) ==
    IF M.menu[m].sym = None THEN {M.menu[m].prompt} \ {0} ELSE PropsOf(M, M.menu[m].sym)

PropsAt(M, m) ==
    IF M.menu[m].sym = None THEN {M.menu[m].prompt} \ {0}
    ELSE {i \in PropsOf(M, M.menu[m].sym) : M.prop[i].menu = m}

\* New conditions for some properties (<<>> \o: as a tuple).
Narrow(M, dep) ==
    [M EXCEPT !.prop = <<>> \o [i \in DOMAIN @ |->
        IF i \in DOMAIN dep THEN [@[i] EXCEPT !.visible = dep[i]] ELSE @[i]]]

\* What an entry waits for: the condition of its prompt, or its own.
Visible(M, m) == IF M.menu[m].prompt = 0 THEN M.menu[m].dep
                 ELSE M.prop[M.menu[m].prompt].visible

(***************************************************************************)
(* The statements.                                                         *)
(***************************************************************************)
\* m stands for "m, and modules are enabled".
RECURSIVE menu_check_dep(_)
menu_check_dep(x) ==
    CASE x.t = "not" -> Not(menu_check_dep(x.l))
      [] x.t \in Binary -> Two(x.t, menu_check_dep(x.l), menu_check_dep(x.r))
      [] x = Symbol(symbol_mod) -> And(x, Symbol(modules_sym))
      [] OTHER -> x

menu_add_prop(M, type, text, x, cond) ==
    LET e == M.current_entry
        new == [type |-> type, sym |-> M.menu[e].sym, menu |-> e, expr |-> x,
                visible |-> menu_check_dep(cond)]
    IN  [M EXCEPT !.prop = Append(@, new),
                  !.menu[e].prompt = IF text THEN Len(M.prop) + 1 ELSE @]
menu_add_prompt(M, type, cond) == menu_add_prop(M, type, TRUE, NULL, cond)
menu_add_expr(M, type, x, cond) == menu_add_prop(M, type, FALSE, x, cond)

menu_add_entry(M, sym) ==
    LET id == Len(M.menu) + 1
        in == [M EXCEPT !.menu = Append([@ EXCEPT ![M.current_menu].list = Append(@, id)],
                                        NewEntry(sym, M.current_menu)),
                        !.current_entry = id]
    IN  IF sym = None THEN in ELSE menu_add_expr(in, "symbol", Symbol(sym), NULL)

menu_add_dep(M, x) ==
    [M EXCEPT !.menu[M.current_entry].dep = And(@, menu_check_dep(x))]

menu_add_menu(M) == [M EXCEPT !.current_menu = M.current_entry]
menu_end_menu(M) == [M EXCEPT !.current_menu = M.menu[M.current_menu].parent]

\* config, menuconfig (its prompt gets a menu of its own), choice, optional.
config_entry_start(M, sym) == menu_add_entry([M EXCEPT !.optional = @ \union {sym}], sym)
menuconfig_stmt(M) ==
    LET p == M.menu[M.current_entry].prompt
    IN  IF p = 0 THEN M ELSE [M EXCEPT !.prop[p].type = "menu"]
choice(M, sym) == menu_add_expr(menu_add_entry(M, sym), "choice", NULL, NULL)
choice_optional(M) == [M EXCEPT !.optional = @ \union {M.menu[M.current_entry].sym}]
if_entry(M, x) == menu_add_menu(menu_add_dep(menu_add_entry(M, None), x))
menu_entry(M) == menu_add_prompt(menu_add_entry(M, None), "menu", NULL)
comment(M) == menu_add_prompt(menu_add_entry(M, None), "comment", NULL)

(***************************************************************************)
(* menu_finalize, the way down: an entry takes over the dependencies of    *)
(* the block around it, and its properties take over those of the entry.   *)
(***************************************************************************)
parentdep(M, p) == IF M.menu[p].sym \in Choices THEN Symbol(M.menu[p].sym)
                   ELSE Visible(M, p)

\* What the selects of an entry add to the rev_dep of their targets.
AddSelects(M, m) ==
    LET at == {i \in PropsAt(M, m) : M.prop[i].type = "select"}
        RECURSIVE Selects(_, _)
        Selects(rev, i) ==
            IF i > Len(M.prop) THEN rev
            ELSE Selects(IF i \in at
                         THEN [rev EXCEPT ![M.prop[i].expr.s] =
                                 Or(@, And(Symbol(M.menu[m].sym), M.prop[i].visible))]
                         ELSE rev, i + 1)
    IN  [M EXCEPT !.rev = Selects(@, 1)]

\* The entry and its properties under the dependency of the block around it.
Typed(x, sym) == IF sym # None /\ SymType[sym] # "tristate" THEN trans_bool(x) ELSE x
Under(M, m, basedep) ==
    [Narrow(M, [i \in PropsAt(M, m) |->
                   Typed(eliminate_dups(And(basedep, transform(M.prop[i].visible))),
                         M.menu[m].sym)])
     EXCEPT !.menu[m].dep = basedep]
Propagate(M, p, m) ==
    AddSelects(Under(M, m, eliminate_dups(And(parentdep(M, p), transform(M.menu[m].dep)))), m)
RECURSIVE PropagateAll(_, _, _)
PropagateAll(M, p, ms) == IF ms = <<>> THEN M
                          ELSE PropagateAll(Propagate(M, p, Head(ms)), p, Tail(ms))

(***************************************************************************)
(* The entries that follow a symbol and depend on it become its submenu.   *)
(***************************************************************************)
\* Mutant of Follows: any mention of the symbol is enough.
FollowsMention(M, p, m) == contains_symbol(Visible(M, m), M.menu[p].sym)

ShownAtAll(x) == eliminate_dups(transform(trans_compare(x, "unequal", symbol_no)))
Follows(M, p, m) ==
    LET sym == M.menu[p].sym
        own == IF M.menu[p].prompt = 0 THEN NULL ELSE M.prop[M.menu[p].prompt].visible
        dep == Visible(M, m)
    IN  /\ contains_symbol(dep, sym)
        /\ \/ depends_symbol(dep, sym)
           \/ is_yes(eliminate_eq(ShownAtAll(dep), ShownAtAll(own)).r)

\* The n entries after p move from the list p is in to the list of p.
Hang(M, p, at, n) ==
    LET up == M.menu[p].parent
        l == M.menu[up].list
    IN  IF n = 0 THEN M
        ELSE [M EXCEPT !.menu[up].list = SubSeq(l, 1, at) \o SubSeq(l, at + n + 1, Len(l)),
                       !.menu[p].list = SubSeq(l, at + 1, at + n)]

(***************************************************************************)
(* The way up: the members of a choice are entered in its list, and an     *)
(* entry without a prompt (an if) hands its entries to the one above it.   *)
(***************************************************************************)
AddChoiceValue(M, p, m) ==
    LET sym == M.menu[p].sym
        val == M.menu[m].sym
        guard == Comp("equal", sym, symbol_yes)
        Guarded(x) == And(guard, x)
        in == IF ~(SymType[sym] = "tristate" /\ SymType[val] # "tristate") THEN M
              ELSE [Narrow(M, [i \in PropsAt(M, m) |-> Guarded(M.prop[i].visible)])
                    EXCEPT !.menu[m].dep = Guarded(@)]
        named == menu_add_expr([in EXCEPT !.current_entry = m], "choice", Symbol(sym), NULL)
    IN  [named EXCEPT !.choiceOf[val] = sym, !.members[sym] = Append(@, val)]

Splice(M, p, i) ==
    LET l == M.menu[p].list
        m == l[i]
        in == M.menu[m].list
    IN  IF in = <<>> \/ M.menu[m].prompt # 0 THEN M
        ELSE [M EXCEPT !.menu = <<>> \o [k \in DOMAIN @ |->
                 IF \E j \in DOMAIN in : in[j] = k THEN [@[k] EXCEPT !.parent = p]
                 ELSE IF k = m THEN [@[k] EXCEPT !.list = <<>>]
                 ELSE IF k = p THEN [@[k] EXCEPT !.list = SubSeq(l, 1, i) \o in
                                                       \o SubSeq(l, i + 1, Len(l))]
                 ELSE @[k]]]

RECURSIVE Gather(_, _, _)
Gather(M, p, i) ==
    IF i > Len(M.menu[p].list) THEN M
    ELSE LET m == M.menu[p].list[i]
             val == M.menu[m].sym
             in == IF /\ M.menu[p].sym \in Choices /\ val # None
                      /\ M.choiceOf[val] = None
                   THEN AddChoiceValue(M, p, m) ELSE M
         IN  Gather(Splice(in, p, i), p, i + 1)

(***************************************************************************)
(* menu_finalize.                                                          *)
(***************************************************************************)
RECURSIVE menu_finalize(_, _), EachBelow(_, _, _), EachAfter(_, _, _, _)

\* The list shrinks while it is walked: an entry may take the ones after it.
EachBelow(M, p, i) ==
    IF i > Len(M.menu[p].list) THEN M
    ELSE EachBelow(menu_finalize(M, M.menu[p].list[i]), p, i + 1)

EachAfter(M, p, at, n) ==
    LET l == M.menu[M.menu[p].parent].list
    IN  IF at + n + 1 > Len(l) \/ ~Follows(M, p, l[at + n + 1]) THEN Hang(M, p, at, n)
        ELSE EachAfter([menu_finalize(M, l[at + n + 1]) EXCEPT !.menu[l[at + n + 1]].parent = p],
                       p, at, n + 1)

\* A choice that is not optional has a value as soon as it is visible.
NeedsValue(M, p) ==
    LET sym == M.menu[p].sym
    IN  IF sym # None /\ sym \notin M.optional /\ M.menu[p].prompt # 0
        THEN [M EXCEPT !.rev[sym] =
                Or(@, And(M.prop[M.menu[p].prompt].visible, Symbol(symbol_mod)))]
        ELSE M

DirectDep(M, p) == [M EXCEPT !.dir[M.menu[p].sym] = Or(@, M.menu[p].dep)]
PositionOf(M, p) == CHOOSE i \in DOMAIN M.menu[M.menu[p].parent].list :
                        M.menu[M.menu[p].parent].list[i] = p
menu_finalize(M, p) ==
    NeedsValue(Gather(IF M.menu[p].list # <<>>
                      THEN EachBelow(PropagateAll(M, p, M.menu[p].list), p, 1)
                      ELSE IF M.menu[p].sym = None THEN M
                      ELSE DirectDep(EachAfter(M, p, PositionOf(M, p), 0), p), p, 1), p)

(***************************************************************************)
(* sym_check_deps: a depth-first search from every symbol, a choice and    *)
(* its values taken together.  K holds the marks, the stack dep_stack, the *)
(* symbol a caller is told about, and the loops printed so far.            *)
(***************************************************************************)
RECURSIVE SymbolsIn(_)
SymbolsIn(x) == CASE x.t \in Binary -> SymbolsIn(x.l) \o SymbolsIn(x.r)
                  [] x.t = "not" -> SymbolsIn(x.l)
                  [] x.t = "symbol" -> SelectSeq(<<x.s>>, LAMBDA s : s \in Symbols)
                  [] x.t \in Compare -> SelectSeq(<<x.s, x.v>>, LAMBDA s : s \in Symbols)
                  [] OTHER -> <<>>

\* What sym_check_sym_deps follows from a symbol, in order.
Deps(M, s) ==
    LET RECURSIVE From(_)
        From(i) == IF i > Len(M.prop) THEN <<>>
                   ELSE LET p == M.prop[i]
                        IN (IF p.sym # s \/ p.type \in {"choice", "select"} THEN <<>>
                            ELSE SymbolsIn(p.visible)
                                 \o (IF p.type = "default" /\ s \notin Choices
                                     THEN SymbolsIn(p.expr) ELSE <<>>)) \o From(i + 1)
    IN  SymbolsIn(M.rev[s]) \o From(1)

NoMarks == [check |-> {}, checked |-> {}, stack |-> <<>>, found |-> None, loops |-> {}]
Push(K, s) == [K EXCEPT !.stack = Append(@, s)]
Pop(K) == [K EXCEPT !.stack = SubSeq(@, 1, Len(@) - 1)]

\* sym_check_print_recursive: the chain from last_sym to the top of the stack;
\* empty when last_sym is not on it ("unexpected recursive dependency error").
PrintRecursive(M, K, s) ==
    LET value == M.choiceOf[s] # None
        stack == IF value THEN Append(K.stack, s) ELSE K.stack
        last_sym == IF value THEN M.choiceOf[s] ELSE s
        at == {i \in DOMAIN stack : stack[i] = last_sym}
        top == CHOOSE i \in at : \A j \in at : j <= i
    IN  [K EXCEPT !.loops = @ \union {IF at = {} THEN <<>>
                                      ELSE SubSeq(stack, top, Len(stack))},
                  !.found = s]

RECURSIVE check_deps(_, _, _), check_sym_deps(_, _, _), check_members(_, _, _)
check_deps(M, K, s) ==
    IF s \in K.check THEN PrintRecursive(M, K, s)
    ELSE IF s \in K.checked THEN K
    ELSE LET marked == [K EXCEPT !.check = @ \union {s}, !.checked = @ \union {s}]
             done == IF M.choiceOf[s] # None
                     THEN Pop(check_deps(M, Push(K, s), M.choiceOf[s]))
                     ELSE IF s \in Choices
                     THEN LET vals == {M.members[s][i] : i \in DOMAIN M.members[s]}
                              in == [marked EXCEPT !.check = @ \union vals,
                                                   !.checked = @ \union vals]
                              own == check_sym_deps(M, Push(in, s), s)
                              all == check_members(M, [own EXCEPT !.check = @ \ {s}],
                                                   M.members[s])
                          IN  Pop([all EXCEPT !.check = @ \ vals,
                                              !.found = IF @ \in vals THEN s ELSE @])
                     ELSE LET own == check_sym_deps(M, marked, s)
                          IN  [own EXCEPT !.check = @ \ {s}]
         IN  [done EXCEPT !.found = IF @ = s THEN None ELSE @]

check_sym_deps(M, K, s) ==
    LET RECURSIVE Each(_, _)
        Each(J, ss) == IF ss = <<>> \/ J.found # None THEN J
                       ELSE Each(check_deps(M, J, Head(ss)), Tail(ss))
    IN  Pop(Each(Push(K, s), Deps(M, s)))

\* Mutant of check_members: the first value of a choice is enough.
check_members_first(M, K, vals) ==
    IF vals = <<>> THEN K ELSE check_sym_deps(M, K, Head(vals))

check_members(M, K, vals) ==
    IF vals = <<>> \/ K.found # None THEN K
    ELSE check_members(M, check_sym_deps(M, K, Head(vals)), Tail(vals))

\* for_all_symbols: a caller that is told of a loop counts an error.
RECURSIVE check_all(_, _, _)
check_all(M, K, ss) ==
    IF ss = <<>> THEN K
    ELSE check_all(M, [check_deps(M, K, Head(ss)) EXCEPT !.found = None], Tail(ss))
=============================================================================
