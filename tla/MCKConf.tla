------------------------------ MODULE MCKConf ------------------------------
EXTENDS KConf

MCSymbols == {"A", "B", "C", "D", "N", "P", "Q", "V", "W", "X"}
MCSymType == [s \in MCSymbols |-> CASE s \in {"B", "D", "P", "Q"} -> "tristate" [] s = "N" -> "int"
                                    [] OTHER -> "boolean"]
MCChoices == {"C", "D"}
MCStrings == {Empty, "1", "2", "3"}
MCNumber == [str \in MCStrings |-> CASE str = Empty -> 0 [] str = "1" -> 1
                                     [] str = "2" -> 2 [] str = "3" -> 3]

\* config s, with a prompt under a condition
Config(T, s, cond) == menu_add_prompt(config_entry_start(T, s), "prompt", cond)

\* A tristate that depends on a symbol and selects a hidden one.
Selecting ==
    LET a == Config(menu_init, "A", NULL)
        b == menu_add_expr(menu_add_dep(Config(a, "B", NULL), Symbol("A")),
                           "select", Symbol("X"), NULL)
        x == menu_add_expr(config_entry_start(b, "X"), "default", Symbol("A"),
                           Comp("equal", "B", symbol_no))
    IN  menu_finalize(x, rootmenu)

\* A choice with a default and a value that comes and goes.
Choosing ==
    LET a == Config(menu_init, "A", NULL)
        c == menu_add_prompt(choice(a, "C"), "prompt", NULL)
        d == menu_add_menu(menu_add_expr(c, "default", Symbol("W"), NULL))
        v == Config(d, "V", NULL)
        w == menu_end_menu(menu_add_dep(Config(v, "W", NULL), Symbol("A")))
        x == menu_add_dep(Config(w, "X", NULL), Symbol("V"))
    IN  menu_finalize(x, rootmenu)

\* A number whose range depends on a symbol, in a menu of its own.
Ranging ==
    LET a == Config(menu_init, "A", NULL)
        m == menu_add_menu(menu_entry(a))
        n == menu_add_expr(Config(m, "N", NULL), "range", Comp("range", "2", "3"), Symbol("A"))
        d == menu_add_expr(n, "default", Symbol("2"), NULL)
        x == menu_add_dep(Config(d, "X", NULL), Comp("equal", "N", "1"))
    IN  menu_finalize(menu_end_menu(x), rootmenu)

\* An optional choice that may be m, where several of its values may be m.
Mixing ==
    LET b == Config(menu_init, "B", NULL)
        d == choice_optional(menu_add_dep(menu_add_prompt(choice(b, "D"), "prompt", NULL),
                                          Symbol("B")))
        p == Config(menu_add_menu(d), "P", NULL)
        q == menu_add_expr(Config(p, "Q", NULL), "select", Symbol("X"), NULL)
        x == Config(menu_end_menu(q), "X", Symbol("P"))
    IN  menu_finalize(x, rootmenu)

MCTrees == {Selecting, Choosing, Ranging, Mixing}

\* Any part of a .config with any values, in the order of the tree.
MCEditedFiles(T) ==
    LET named == SelectSeq([m \in DOMAIN T.menu |-> T.menu[m].sym], LAMBDA s : s \notin {None, "C", "D"})
        Vals(s) == IF s = "X" THEN {symbol_yes}
                   ELSE IF MCSymType[s] = "int" THEN {"1", "3"}
                   ELSE IF s = "Q" THEN {symbol_mod, symbol_yes}
                   ELSE IF MCSymType[s] = "tristate" THEN {symbol_no, symbol_mod, symbol_yes}
                   ELSE {symbol_no, symbol_yes}
        RECURSIVE From(_)
        From(k) == IF k > Len(named) THEN {<<>>}
                   ELSE LET rest == From(k + 1)
                        IN  rest \union {<<Line(named[k], v)>> \o r : v \in Vals(named[k]), r \in rest}
    IN  {NoFile} \union From(1)
\* All alike, and two that tell neighbours apart.
MCRandoms == {[s \in MCSymbols |-> v] : v \in Tristates}
             \union {[s \in MCSymbols |-> IF s \in ones THEN yes ELSE no] :
                        ones \in {{"A", "W"}, {"B", "V", "X"}}}
MCModes == Checking \union Filling \union {"savedefconfig"}
=============================================================================
