----------------------------- MODULE KMenuFile -----------------------------
(***************************************************************************)
(* A Config.in file, statement by statement as the grammar of zconf.y lets *)
(* them follow each other, and conf_parse at its end: menu_finalize, and   *)
(* the search for recursive dependencies.                                  *)
(***************************************************************************)
EXTENDS KMenu, Functions

CONSTANTS
    Conditions,     \* the expressions the file may mention
    MaxEntries,     \* bound: entries of the file
    MaxStatements   \* bound: its entries and their options (depends, default, select)

VARIABLES
    M,          \* the entries, properties and dependencies
    parsed,     \* M as it was when the end of the file was reached
    accepts,    \* the kind of entry whose options may follow
    options,    \* the options given so far
    check       \* the marks and the messages of sym_check_deps

vars == <<M, parsed, accepts, options, check>>

Init ==
    /\ M = menu_init
    /\ parsed = menu_init
    /\ accepts = "block"
    /\ options = 0
    /\ check = NoMarks

Entries == Len(M.menu) - 1
CanEnter == accepts # "end" /\ Entries < MaxEntries /\ Entries + options < MaxStatements
Entered(N, kind) ==
    /\ M' = N
    /\ accepts' = kind
    /\ UNCHANGED <<parsed, options, check>>

\* A menu has no entry of its own once its first entry has been read.
InChoice == M.menu[M.current_menu].sym \in Choices
Open == IF accepts \in {"menu", "choice"} THEN menu_add_menu(M) ELSE M

\* config, with or without a prompt
Config(s, cond, prompted) ==
    /\ CanEnter
    /\ LET in == config_entry_start(Open, s)
       IN  Entered(IF prompted THEN menu_add_prompt(in, "prompt", cond) ELSE in, "config")

Choice(s) ==
    /\ CanEnter /\ accepts # "choice" /\ ~InChoice
    /\ \A m \in DOMAIN M.menu : M.menu[m].sym # s
    /\ Entered(menu_add_prompt(choice(Open, s), "prompt", NULL), "choice")

Menu ==
    /\ CanEnter /\ accepts # "choice" /\ ~InChoice
    /\ Entered(menu_entry(Open), "menu")

If(x) ==
    /\ CanEnter
    /\ Entered(if_entry(Open, x), "block")

Comment ==
    /\ CanEnter
    /\ Entered(comment(Open), "comment")

\* endmenu, endif, endchoice
End ==
    /\ accepts # "end"
    /\ Open.current_menu # rootmenu
    /\ Entered(menu_end_menu(Open), "block")

Optioned(N) ==
    /\ Entries + options < MaxStatements
    /\ M' = N
    /\ options' = options + 1
    /\ UNCHANGED <<parsed, accepts, check>>

DependsOn(x) ==
    /\ accepts \in {"config", "choice", "menu", "comment"}
    /\ Optioned(menu_add_dep(M, x))

Default(x) ==
    /\ accepts = "config"
    /\ Optioned(menu_add_expr(M, "default", x, NULL))

Select(s, cond) ==
    /\ accepts = "config"
    /\ Optioned(menu_add_expr(M, "select", Symbol(s), cond))

Optional ==
    /\ accepts = "choice" /\ M.menu[M.current_entry].sym \notin M.optional
    /\ Optioned(choice_optional(M))

Menuconfig ==
    /\ accepts = "config"
    /\ M.menu[M.current_entry].prompt # 0
    /\ M.prop[M.menu[M.current_entry].prompt].type = "prompt"
    /\ Optioned(menuconfig_stmt(M))

\* conf_parse, when zconfparse has returned.  In which order the symbols come depends
\* on the hash of their names.
EndOfFile ==
    /\ accepts \in {"config", "comment", "block"}
    /\ M.current_menu = rootmenu
    /\ Len(M.menu) > 1
    /\ accepts' = "end"
    /\ parsed' = M
    /\ \E final \in {menu_finalize(M, rootmenu)},
          ss \in Bijection(1 .. Cardinality(Symbols), Symbols) :
          M' = final /\ check' = check_all(final, NoMarks, ss)
    /\ UNCHANGED options

Next ==
    \/ \E s \in ConfigSymbols, cond \in Conditions : Config(s, cond, TRUE)
    \/ \E s \in ConfigSymbols, prompted \in BOOLEAN : Config(s, NULL, prompted)
    \/ \E s \in Choices : Choice(s)
    \/ Menu
    \/ \E x \in Conditions : If(x)
    \/ Comment
    \/ End
    \/ \E x \in Conditions : DependsOn(x)
    \/ \E x \in Conditions : Default(x)
    \/ \E s \in ConfigSymbols, cond \in Conditions \union {NULL} : Select(s, cond)
    \/ Optional
    \/ Menuconfig
    \/ EndOfFile

Spec == Init /\ [][Next]_vars
-----------------------------------------------------------------------------
(***************************************************************************)
(* What the statements ask for, without any rewriting: an entry waits for  *)
(* its own dependencies, for the blocks around it with theirs, and inside  *)
(* a choice for that choice.                                               *)
(***************************************************************************)
RECURSIVE Around(_, _)
Own(m, env) == EXPR_AND(calc_value(parsed.menu[m].dep, env),
                        EXPR_AND(Around(m, env),
                                 IF parsed.menu[m].prompt = 0 THEN yes
                                 ELSE calc_value(parsed.prop[parsed.menu[m].prompt].visible, env)))
Around(m, env) ==
    LET p == parsed.menu[m].parent
    IN  IF p = 0 THEN yes
        ELSE IF parsed.menu[p].sym \in Choices THEN env[parsed.menu[p].sym]
        ELSE Own(p, env)
Asked(i, env) ==
    LET p == parsed.prop[i]
    IN  EXPR_AND(calc_value(p.visible, env),
                 EXPR_AND(calc_value(parsed.menu[p.menu].dep, env), Around(p.menu, env)))

YesNo == {env \in Assignments : TwoValued(env)}

(***************************************************************************)
(* After all the rewriting and propagation of menu_finalize every prompt,  *)
(* default and select applies exactly when the file asked for it, and a    *)
(* symbol is selected exactly by the selects the file has for it: none is  *)
(* lost on the way into rev_dep, of which a NULL selects nothing           *)
(* (sym_calc_value), and none is added.                                    *)
(***************************************************************************)
DeclaredConditions ==
    accepts = "end" =>
        \A env \in YesNo :
            /\ \A i \in DOMAIN parsed.prop :
                  parsed.prop[i].type # "choice" =>
                      calc_value(M.prop[i].visible, env) = Asked(i, env)
            /\ \A s \in ConfigSymbols :
                  M.rev[s] # NULL /\ calc_value(M.rev[s], env) = yes <=>
                      \E i \in DOMAIN parsed.prop :
                          /\ parsed.prop[i].type = "select"
                          /\ parsed.prop[i].expr = Symbol(s)
                          /\ env[parsed.prop[i].sym] = yes
                          /\ Asked(i, env) = yes

(***************************************************************************)
(* An entry that was hung below a symbol on the strength of its            *)
(* dependencies is out of sight when that symbol is n and out of sight:    *)
(* a front end that does not descend into the symbol hides no question.    *)
(* (This is not so of an entry that came by way of one without a prompt,   *)
(* which counts as always visible and then hands on what was hung below    *)
(* it.)                                                                    *)
(***************************************************************************)
SubmenuHides ==
    accepts = "end" =>
        \A p \in DOMAIN M.menu :
            M.menu[p].sym \in ConfigSymbols =>
                \A i \in DOMAIN M.menu[p].list : \A env \in YesNo :
                    LET m == M.menu[p].list[i]
                    IN  /\ calc_value(Visible(M, m), env) # no
                        /\ \A k \in p + 1..m - 1 : M.menu[k].prompt # 0
                        => \/ env[M.menu[p].sym] # no
                           \/ calc_value(Visible(M, p), env) # no

(***************************************************************************)
(* conf_parse prints "recursive dependency detected!" when, and only when, *)
(* the symbols depend on each other in a circle (a choice and its values   *)
(* counted as one), and the chain it prints is such a circle.              *)
(***************************************************************************)
Group(s) == IF M.choiceOf[s] = None THEN s ELSE M.choiceOf[s]
Leads(s, t) == \E i \in DOMAIN Deps(M, s) : Deps(M, s)[i] = t
\* What a value needs of its own choice is not followed.
Edge(s, t) == Leads(s, t) /\ t # M.choiceOf[s]
RECURSIVE Closure(_)
Closure(R) == LET more == R \union {<<r[1], q[2]>> : <<r, q>> \in
                                       {rq \in R \X R : rq[1][2] = rq[2][1]}}
              IN  IF more = R THEN R ELSE Closure(more)
GroupEdges == {<<Group(st[1]), Group(st[2])>> :
                 st \in {st \in Symbols \X Symbols : Edge(st[1], st[2])}}
LoopsReported ==
    accepts = "end" =>
        /\ check.loops # {} <=> \E s \in Symbols : <<s, s>> \in Closure(GroupEdges)
        /\ \A chain \in check.loops :
              /\ chain # <<>>
              /\ \A i \in DOMAIN chain :
                    LET next == chain[IF i = Len(chain) THEN 1 ELSE i + 1]
                    IN  Leads(chain[i], next) \/ Group(chain[i]) = Group(next)
=============================================================================
