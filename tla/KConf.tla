------------------------------- MODULE KConf -------------------------------
(***************************************************************************)
(* The command line front end of Kconfig (support/kconfig/conf.c) with     *)
(* what .config and defconfig files hold (confdata.c): a session loads a   *)
(* file, asks or fills in what is new, and writes a file that the next     *)
(* session loads.                                                          *)
(*                                                                         *)
(* A file is a sequence of lines [s, v]; "# X is not set" is the value n.  *)
(* conf and check_conf call each other, so that the calls still to be made *)
(* are a stack.  An answer that is not accepted is asked for again and     *)
(* changes nothing: only accepted answers are steps.                       *)
(***************************************************************************)
EXTENDS KSymbol

CONSTANTS
    Trees,      \* the menu trees conf_parse may have built
    Modes,      \* the options conf may be called with
    Randoms,    \* what rand() may make of the symbols: some of [Symbols -> Tristates]
    EditedFiles(_)  \* the files a user may leave for a tree, NoFile among them

VARIABLES
    S,          \* the symbols
    input_mode, \* the option of this session
    sync_kconfig, \* it is the one make runs, without a terminal perhaps
    phase,      \* "start", "ask", "write", "done" or "exit"
    stack,      \* the calls of conf and check_conf still to be made
    rootEntry,  \* where conf was entered
    conf_cnt,   \* check_conf found something new
    file,       \* .config
    minimal     \* the file savedefconfig writes

vars == <<M, S, input_mode, sync_kconfig, phase, stack, rootEntry, conf_cnt, file, minimal>>

NoFile == <<[s |-> "<no file>", v |-> Empty]>>
Line(s, v) == [s |-> s, v |-> v]
Asking == {"oldaskconfig", "oldconfig", "silentoldconfig"}
Checking == Asking \union {"listnewconfig", "olddefconfig"}
Filling == {"allnoconfig", "allyesconfig", "allmodconfig", "alldefconfig", "randconfig",
            "defconfig"}

RECURSIVE Ordered(_)
Ordered(ss) == IF ss = {} THEN <<>>
               ELSE LET s == CHOOSE x \in ss : TRUE IN <<s>> \o Ordered(ss \ {s})
AllSymbols == Ordered(Symbols)

(***************************************************************************)
(* Reading.                                                                *)
(***************************************************************************)
ParseLetter(v) == CHOOSE t \in Tristates : Letter(t) = v

\* conf_set_sym_val and what follows it: [S, warnings].
ReadLine(R, line) ==
    LET s == line.s
        c == M.choiceOf[s]
        tri == ParseLetter(line.v)
        bad == IF BoolType(s) THEN line.v = symbol_mod /\ SymType[s] = "boolean"
               ELSE ~sym_string_valid(s, line.v)
        had == s \in R.S.user
        set == IF BoolType(s) THEN [R.S EXCEPT !.defTri[s] = tri, !.user = @ \union {s}]
               ELSE [R.S EXCEPT !.defVal[s] = line.v, !.user = @ \union {s}]
        warn == had \/ (is_choice_value(s) /\ \/ tri = mod /\ set.defTri[c] = yes
                                              \/ tri = yes /\ set.defTri[c] # no)
        in == IF ~is_choice_value(s) THEN set
              ELSE [set EXCEPT !.user = IF tri = mod /\ set.defTri[c] = yes THEN @ \ {c} ELSE @,
                               !.defVal[c] = IF tri = yes THEN s ELSE @,
                               !.defTri[c] = EXPR_OR(@, tri)]
    IN  IF s \notin Symbols THEN [R EXCEPT !.S.changed = TRUE]
        ELSE IF bad THEN [R EXCEPT !.warnings = TRUE]
        ELSE [S |-> in, warnings |-> R.warnings \/ warn]

RECURSIVE ReadLines(_, _)
ReadLines(R, lines) == IF lines = <<>> THEN R
                       ELSE ReadLines(ReadLine(R, Head(lines)), Tail(lines))

conf_read_simple(T, lines) ==
    ReadLines([S |-> [T EXCEPT !.valid = {}, !.user = Choices,
                               !.defTri = [s \in Symbols |-> no],
                               !.defVal = [s \in Symbols |-> Empty]],
               warnings |-> FALSE], lines)

\* The saved value of a symbol does not agree with what it would be given.
Unsaved(T, s) ==
    /\ s \notin Choices
    /\ IF s \in T.user /\ s \in T.write
       THEN IF BoolType(s) THEN T.defTri[s] # T.tri[s] ELSE T.defVal[s] # T.val[s]
       ELSE s \in T.user \/ s \in T.write

\* Values of what is out of sight are forgotten, so that it will be new.
ForgetRange(R, s, range) ==
    IF range.ok THEN R
    ELSE [S |-> [range.S EXCEPT !.valid = @ \ {s}, !.user = @ \ {s}], unsaved |-> TRUE]
Forget(R, s) ==
    LET in == IF R.S.visible[s] = no /\ ~R.unsaved
              THEN [R EXCEPT !.S.user = @ \ {s}] ELSE R
    IN  IF s \notin R.S.user \/ is_choice_value(s) THEN R
        ELSE IF BoolType(s) THEN in
        ELSE ForgetRange(in, s, sym_string_within_range(in.S, s, in.S.defVal[s]))

RECURSIVE CompareAll(_, _), ForgetAll(_, _)
Against(S1, unsaved, s) == [S |-> S1, unsaved |-> unsaved \/ Unsaved(S1, s)]
CompareAll(Q, ss) ==
    IF ss = <<>> THEN Q
    ELSE CompareAll(Against(sym_calc_value(Q.S, Head(ss)), Q.unsaved, Head(ss)), Tail(ss))
ForgetAll(Q, ss) == IF ss = <<>> THEN Q ELSE ForgetAll(Forget(Q, Head(ss)), Tail(ss))

Changed(Q, warnings) == [Q.S EXCEPT !.changed = @ \/ warnings \/ Q.unsaved]
Checked(R) == Changed(ForgetAll(CompareAll([S |-> R.S, unsaved |-> FALSE], AllSymbols),
                                AllSymbols), R.warnings)
conf_read(T, lines) ==
    IF lines = NoFile THEN [T EXCEPT !.changed = TRUE]
    ELSE Checked(conf_read_simple([T EXCEPT !.changed = FALSE], lines))

(***************************************************************************)
(* conf_set_all_new_symbols.  random is what rand() makes of each symbol.  *)
(***************************************************************************)
NewValue(mode, random, s) ==
    CASE mode = "allyesconfig" -> yes [] mode = "allmodconfig" -> mod
      [] mode = "allnoconfig" -> no [] mode = "randconfig" -> random[s]

\* A choice without a value gets one: set_all_choice_values, randomize_choice_values.
GiveChoice(T, c, mode, random) ==
    LET pick == CHOOSE v \in MembersOf(c) : random[v] = yes \/ \A w \in MembersOf(c) : random[w] # yes
    IN  IF mode # "randconfig"
        THEN [T EXCEPT !.defTri = [s \in Symbols |-> IF s \in MembersOf(c) \ T.user THEN no
                                                     ELSE @[s]],
                       !.user = @ \union {c}, !.valid = @ \ {c}]
        ELSE IF T.tri[c] # yes THEN T
        ELSE [T EXCEPT !.defTri = [s \in Symbols |-> IF s = pick THEN yes
                                                     ELSE IF s \in MembersOf(c) THEN no ELSE @[s]],
                       !.defVal[c] = pick,
                       !.user = @ \union {c}, !.valid = @ \ {c}]
FillChoice(T, c, mode, random) ==
    IF c \in T.user THEN T ELSE GiveChoice(sym_calc_value(T, c), c, mode, random)
RECURSIVE FillChoices(_, _, _, _)
FillChoices(T, cs, mode, random) ==
    IF cs = <<>> THEN T
    ELSE FillChoices(FillChoice(T, Head(cs), mode, random), Tail(cs), mode, random)

conf_set_all_new_symbols(T, mode, random) ==
    LET new == {s \in Symbols \ T.user : BoolType(s)}
        keep == mode \in {"alldefconfig", "defconfig"}
        set == IF keep THEN T
               ELSE [T EXCEPT !.defTri = [s \in Symbols |-> IF s \in new
                                            THEN NewValue(mode, random, s) ELSE @[s]],
                              !.user = @ \union
                                  (IF mode = "randconfig" THEN new \ Choices ELSE new)]
    IN  FillChoices(sym_clear_all_valid(set), Ordered(Choices), mode, random)

(***************************************************************************)
(* Writing: every entry in the order of the tree, each symbol once (its    *)
(* WRITE flag is taken away).  R is [S, lines].                            *)
(***************************************************************************)
RECURSIVE Walk(_), WalkAll(_)
Walk(m) == <<m>> \o WalkAll(M.menu[m].list)
WalkAll(ms) == IF ms = <<>> THEN <<>> ELSE Walk(Head(ms)) \o WalkAll(Tail(ms))

\* Menus and comments are looked at, choices are not written.
WriteOther(R, m) == IF M.menu[m].sym # None THEN R
                    ELSE [R EXCEPT !.S = menu_is_visible(@, m).S]
Taken(T, s) == [T EXCEPT !.write = @ \ {s}]
Add(T, s, lines) == [S |-> T, lines |-> Append(lines, Line(s, sym_get_string_value(T, s)))]
HasLine(m) == M.menu[m].sym \notin Choices \union {None}

\* Mutant of WriteSymbol: what is not set is not written.
WriteSymbolSet(T, s, lines) ==
    IF s \notin T.write \/ sym_get_string_value(T, s) = symbol_no THEN [S |-> T, lines |-> lines]
    ELSE Add(Taken(T, s), s, lines)

WriteSymbol(T, s, lines) == IF s \notin T.write THEN [S |-> T, lines |-> lines]
                            ELSE Add(Taken(T, s), s, lines)
RECURSIVE WriteEach(_, _)
WriteEntry(R, m) ==
    IF HasLine(m)
    THEN WriteSymbol(sym_calc_value(R.S, M.menu[m].sym), M.menu[m].sym, R.lines)
    ELSE WriteOther(R, m)
WriteEach(R, ms) == IF ms = <<>> THEN R ELSE WriteEach(WriteEntry(R, Head(ms)), Tail(ms))

conf_write(T) ==
    [WriteEach([S |-> IF T.changed THEN T ELSE sym_clear_all_valid(T), lines |-> <<>>],
               WalkAll(M.menu[rootmenu].list)) EXCEPT !.S.changed = FALSE]

\* Mutant of ImpliedValue: any value of a choice is taken for implied.
ImpliedValueAny(T, s) == is_choice_value(s)

\* The value its choice has by default.
ImpliedValue(T, s) ==
    /\ is_choice_value(s)
    /\ M.choiceOf[s] \notin M.optional
    /\ s = sym_choice_default(T, M.choiceOf[s]).s
    /\ SymType[s] = "boolean" /\ T.tri[s] = yes

\* Only what the user may change and has changed from its default.
WriteChanged(def, s, lines) ==
    IF sym_get_string_value(def.S, s) = def.v \/ ImpliedValue(def.S, s)
    THEN [S |-> def.S, lines |-> lines] ELSE Add(def.S, s, lines)
WriteMinimal(T, s, lines) ==
    IF s \notin T.write THEN [S |-> T, lines |-> lines]
    ELSE IF ~sym_is_changable(T, s) THEN [S |-> Taken(T, s), lines |-> lines]
    ELSE WriteChanged(sym_get_string_default(Taken(T, s), s), s, lines)
RECURSIVE WriteEachMinimal(_, _)
WriteMinimalEntry(R, m) ==
    IF HasLine(m)
    THEN WriteMinimal(sym_calc_value(R.S, M.menu[m].sym), M.menu[m].sym, R.lines)
    ELSE WriteOther(R, m)
WriteEachMinimal(R, ms) ==
    IF ms = <<>> THEN R ELSE WriteEachMinimal(WriteMinimalEntry(R, Head(ms)), Tail(ms))

conf_write_defconfig(T) ==
    WriteEachMinimal([S |-> sym_clear_all_valid(T), lines |-> <<>>],
                     WalkAll(M.menu[rootmenu].list))

(***************************************************************************)
(* The calls: check (check_conf), conf, and inside conf a question (sym or *)
(* string), the rest of conf_choice once its value is known (choice), its  *)
(* list of values (pick) and what conf does after it (after).              *)
(***************************************************************************)
Frame(fn, m) == [fn |-> fn, m |-> m, new |-> FALSE]
Frames(fn, ms) == [i \in DOMAIN ms |-> Frame(fn, ms[i])]
Kids(fn, m) == Frames(fn, M.menu[m].list)

(***************************************************************************)
(* The session: main, from conf_parse on.                                  *)
(***************************************************************************)
Init ==
    /\ M \in Trees
    /\ S = symbols_new(yes)
    /\ input_mode \in Modes
    /\ sync_kconfig = (input_mode = "silentoldconfig")
    /\ phase = "start"
    /\ stack = <<>>
    /\ rootEntry = rootmenu
    /\ conf_cnt = FALSE
    /\ file \in EditedFiles(M)
    /\ minimal = NoFile

Loaded(T, next, calls) ==
    /\ S' = T
    /\ phase' = next
    /\ stack' = calls
    /\ UNCHANGED <<M, input_mode, sync_kconfig, rootEntry, conf_cnt, file, minimal>>

\* oldaskconfig, oldconfig, silentoldconfig, listnewconfig, olddefconfig
ReadAndAsk ==
    /\ phase = "start"
    /\ input_mode \in Checking
    /\ input_mode = "silentoldconfig" => file # NoFile
    /\ \E T \in {conf_read(S, file)} :
           Loaded(T, "ask",
                  <<Frame(IF input_mode = "oldaskconfig" THEN "conf" ELSE "check", rootmenu)>>)

\* There is no file, or KCONFIG_NOSILENTUPDATE forbids a change.
Refuse ==
    /\ phase = "start"
    /\ input_mode \in {"silentoldconfig", "defconfig"}
    /\ file = NoFile \/ (sync_kconfig /\ conf_read(S, file).changed)
    /\ Loaded(S, "exit", <<>>)

ReadForDefconfig ==
    /\ phase = "start"
    /\ input_mode = "savedefconfig"
    /\ \E T \in {conf_read(S, file)} : Loaded(T, "write", <<>>)

\* defconfig loads its file; the others one only if KCONFIG_ALLCONFIG is set
Fill(random, seed) ==
    /\ phase = "start"
    /\ input_mode \in Filling
    /\ input_mode = "defconfig" => seed = "file" /\ file # NoFile
    /\ seed = "file" => file # NoFile
    /\ LET start == IF seed = "none" THEN S
                    ELSE IF input_mode = "defconfig" THEN conf_read(S, file)
                    ELSE conf_read_simple(S, file).S
       IN  \E T \in {conf_set_all_new_symbols(start, input_mode, random)} :
              Loaded(T, "write", <<>>)

\* One call, or one answer, leaves T behind and is replaced by other calls.
Called(T, calls) ==
    /\ S' = T
    /\ stack' = calls \o Tail(stack)
    /\ UNCHANGED <<M, input_mode, sync_kconfig, phase, file, minimal>>

At1(fn) == phase = "ask" /\ stack # <<>> /\ stack[1].fn = fn
Here == stack[1].m
Sym == M.menu[Here].sym

\* menu_get_parent_menu
RECURSIVE ParentMenu(_)
ParentMenu(m) ==
    IF m = rootmenu \/ (M.menu[m].prompt # 0 /\ M.prop[M.menu[m].prompt].type = "menu") THEN m
    ELSE ParentMenu(M.menu[m].parent)

check_conf ==
    /\ At1("check")
    /\ \E vis \in {menu_is_visible(S, Here)} :
       LET new == /\ Sym # None /\ Sym \notin vis.S.user
                  /\ sym_is_changable(vis.S, Sym) \/ (Sym \in Choices /\ vis.S.tri[Sym] = yes)
           ask == vis.ok /\ new /\ input_mode \in Asking
       IN  /\ Called(vis.S, (IF ask THEN <<Frame("conf", ParentMenu(Here))>> ELSE <<>>)
                            \o (IF vis.ok THEN Kids("check", Here) ELSE <<>>))
           /\ conf_cnt' = (conf_cnt \/ ask)
           /\ rootEntry' = IF ask THEN ParentMenu(Here) ELSE rootEntry

conf ==
    /\ At1("conf")
    /\ \E vis \in {menu_is_visible(S, Here)} :
       LET prompt == M.menu[Here].prompt
           quiet == /\ prompt # 0 /\ M.prop[prompt].type = "menu"
                    /\ input_mode = "silentoldconfig" /\ rootEntry # Here
           is_new == Sym \notin vis.S.user
           ask == <<Frame("sym", Here)>>
       IN  Called(vis.S,
             IF ~vis.ok THEN <<>>
             ELSE IF quiet THEN <<Frame("check", Here)>>
             ELSE IF Sym = None THEN Kids("conf", Here)
             ELSE IF Sym \in Choices
             THEN (IF sym_is_changable(vis.S, Sym) THEN ask ELSE <<>>)
                  \o <<[Frame("choice", Here) EXCEPT !.new = is_new], Frame("after", Here)>>
             ELSE (IF BoolType(Sym) THEN ask ELSE <<Frame("string", Here)>>) \o Kids("conf", Here))
    /\ UNCHANGED <<rootEntry, conf_cnt>>

\* conf_askvalue: nothing is asked of what cannot change or has a value.
Answered == \/ ~sym_is_changable(S, Sym)
            \/ input_mode \in {"oldconfig", "silentoldconfig"} /\ Sym \in S.user

\* conf_sym; an empty answer repeats the value
conf_sym ==
    /\ At1("sym")
    /\ IF Answered THEN Called(S, <<>>)
       ELSE \E v \in Tristates : \E set \in {sym_set_tristate_value(S, Sym, v)} :
                set.ok /\ Called(set.S, <<>>)
    /\ UNCHANGED <<rootEntry, conf_cnt>>

conf_string ==
    /\ At1("string")
    /\ IF Answered THEN Called(S, <<>>)
       ELSE \E str \in Strings : \E set \in {sym_set_string_value(S, Sym, str)} :
                set.ok /\ Called(set.S, <<>>)
    /\ UNCHANGED <<rootEntry, conf_cnt>>

\* conf_choice, when the choice itself has a value
conf_choice ==
    /\ At1("choice")
    /\ \E in \in {sym_calc_value(S, Sym)} :
           Called(in, IF in.tri[Sym] # yes THEN <<>>
                      ELSE <<[Frame("pick", Here) EXCEPT !.new = stack[1].new]>>)
    /\ UNCHANGED <<rootEntry, conf_cnt>>

\* The entries of the list that are shown, and the one that is taken.
RECURSIVE ShownOf(_, _), ShownFrom(_, _)
ShownFrom(vis, ms) == [ShownOf(vis.S, Tail(ms)) EXCEPT
                          !.ms = IF vis.ok /\ M.menu[Head(ms)].sym # None
                                 THEN <<Head(ms)>> \o @ ELSE @]
ShownOf(T, ms) == IF ms = <<>> THEN [S |-> T, ms |-> <<>>]
                  ELSE ShownFrom(menu_is_visible(T, Head(ms)), ms)

pick_choice ==
    /\ At1("pick")
    /\ \E shown \in {ShownOf(S, M.menu[Here].list)} :
       LET def == {i \in DOMAIN shown.ms : M.menu[shown.ms[i]].sym = S.val[Sym]}
           may == IF Len(shown.ms) = 1 THEN {1}
                  ELSE IF input_mode \in {"oldconfig", "silentoldconfig"} /\ ~stack[1].new
                  THEN def ELSE DOMAIN shown.ms
       IN  \E i \in may :
             \E set \in {sym_set_tristate_value(shown.S, M.menu[shown.ms[i]].sym, yes)} :
                Called(set.S, Kids("conf", shown.ms[i]))
    /\ UNCHANGED <<rootEntry, conf_cnt>>

after_choice ==
    /\ At1("after")
    /\ Called(S, IF S.tri[Sym] = mod THEN Kids("conf", Here) ELSE <<>>)
    /\ UNCHANGED <<rootEntry, conf_cnt>>

\* check_stdin: there is a question, and no terminal to ask it on
check_stdin ==
    /\ sync_kconfig
    /\ \/ At1("sym") /\ ~Answered
       \/ At1("string") /\ ~Answered
       \/ At1("pick") /\ stack[1].new
    /\ phase' = "exit"
    /\ stack' = <<>>
    /\ UNCHANGED <<M, S, input_mode, sync_kconfig, rootEntry, conf_cnt, file, minimal>>

\* The loop of main: until a check finds nothing new.
CheckAgain ==
    /\ phase = "ask" /\ stack = <<>>
    /\ conf_cnt \/ input_mode = "oldaskconfig"
    /\ stack' = <<Frame("check", rootmenu)>>
    /\ input_mode' = IF input_mode = "oldaskconfig" THEN "silentoldconfig" ELSE input_mode
    /\ conf_cnt' = FALSE
    /\ UNCHANGED <<M, S, sync_kconfig, phase, rootEntry, file, minimal>>

Asked ==
    /\ phase = "ask" /\ stack = <<>>
    /\ ~conf_cnt /\ input_mode # "oldaskconfig"
    /\ phase' = "write"
    /\ UNCHANGED <<M, S, input_mode, sync_kconfig, stack, rootEntry, conf_cnt, file, minimal>>

Written ==
    /\ phase = "write"
    /\ phase' = "done"
    /\ UNCHANGED <<M, input_mode, sync_kconfig, stack, rootEntry, conf_cnt>>

WriteDefconfig ==
    /\ Written
    /\ input_mode = "savedefconfig"
    /\ \E R \in {conf_write_defconfig(S)} : S' = R.S /\ minimal' = R.lines
    /\ UNCHANGED file

WriteNothing ==
    /\ Written
    /\ input_mode = "listnewconfig" \/ (sync_kconfig /\ ~S.changed)
    /\ UNCHANGED <<S, file, minimal>>

WriteConfig ==
    /\ Written
    /\ input_mode \notin {"savedefconfig", "listnewconfig"}
    /\ sync_kconfig => S.changed
    /\ \E R \in {conf_write(S)} : S' = R.S /\ file' = R.lines
    /\ UNCHANGED minimal

\* The next session, on the file this one has left.
Again(mode) ==
    /\ phase \in {"done", "exit"}
    /\ input_mode' = mode
    /\ sync_kconfig' = (mode = "silentoldconfig")
    /\ phase' = "start"
    /\ S' = symbols_new(S.modules)
    /\ rootEntry' = rootmenu
    /\ conf_cnt' = FALSE
    /\ UNCHANGED <<M, stack, file, minimal>>

Step == \/ check_conf \/ conf \/ conf_sym \/ conf_string \/ conf_choice \/ pick_choice
        \/ after_choice \/ CheckAgain \/ Asked
        \/ WriteDefconfig \/ WriteNothing \/ WriteConfig
RandomValues == IF input_mode = "randconfig" THEN Randoms ELSE {[s \in Symbols |-> no]}
Next == \/ ReadAndAsk \/ Refuse \/ ReadForDefconfig
        \/ \E random \in RandomValues, seed \in {"none", "file"} : Fill(random, seed)
        \/ Step
        \/ check_stdin
        \/ \E mode \in Modes : Again(mode)

(***************************************************************************)
(* A session under way goes on: its questions are answered.  This is       *)
(* WF_vars(Busy /\ Next), written out because a session never blocks, so   *)
(* that ENABLED <<Busy /\ Next>>_vars is Busy.                             *)
(***************************************************************************)
Busy == phase \in {"ask", "write"}
Fairness == []<>~Busy \/ []<><<Busy>>_vars
Spec == Init /\ [][Next]_vars /\ Fairness
-----------------------------------------------------------------------------
(***************************************************************************)
(* What a session that loads a file has before anything is asked.          *)
(***************************************************************************)
Values(T) == [s \in Symbols \ Choices |-> sym_get_string_value(CalcAll(T, AllSymbols), s)]
Fresh == symbols_new(S.modules)

(***************************************************************************)
(* A computed value is never stale: until the file is written, forgetting  *)
(* every cached value and computing all of them again changes none of the  *)
(* cached ones.  Two cases are excepted.                                   *)
(*   An optional choice that one of its values makes new again             *)
(* (symbol.c:266): sym_calc_choice takes the user's flag away after the    *)
(* value was taken from it, so that it is y until it is computed again.    *)
(*   A number of the file that was out of range, and that the user gives   *)
(* again once it is in range: conf_read has only taken its flag away       *)
(* (confdata.c:449), so that sym_set_string_value finds the same string    *)
(* and returns without sym_clear_all_valid (symbol.c:665).  The cache is   *)
(* then that of the symbols without this value.                            *)
(***************************************************************************)
GivenAgain == {s \in S.user : ~BoolType(s) /\ \E i \in DOMAIN file : file[i] = Line(s, S.defVal[s])}
CachedWithout(ss) ==
    \E again \in {CalcAll([S EXCEPT !.valid = {}, !.user = @ \ ss], AllSymbols)} :
        \A s \in S.valid : again.tri[s] = S.tri[s] /\ again.val[s] = S.val[s]
CacheFresh ==
    phase \in {"ask", "write"} =>
        \/ \E c \in Choices : S.tri[c] # no /\ S.rev[c] = no /\ c \notin S.user
        \/ \E ss \in SUBSET GivenAgain : CachedWithout(ss)

(***************************************************************************)
(* The values of a finished session respect the declarations: a select is  *)
(* honoured, a choice that is y has exactly one y among its values, and an *)
(* int is in its range.                                                    *)
(***************************************************************************)
Legal ==
    phase = "done" =>
        \E T \in {CalcAll([S EXCEPT !.valid = {}], AllSymbols)} :
            /\ \A s \in Symbols : BoolType(s) /\ ~is_choice_value(s) => T.tri[s] >= T.rev[s]
            /\ \A c \in Choices :
                  T.tri[c] = yes =>
                     Cardinality({v \in MembersOf(c) : T.tri[v] = yes}) = 1
            /\ \A s \in Symbols : sym_validate_range(T, s).val[s] = T.val[s]

(***************************************************************************)
(* What a session writes gives its values back, those of symbols that are  *)
(* not in the file included: .config to the session that reads it next,    *)
(* and the minimal file of savedefconfig to defconfig.  A choice has no    *)
(* line of its own: one that is m with all its values n comes back as n,   *)
(* which nothing but its own values depends on.                            *)
(***************************************************************************)
FromMinimal == conf_set_all_new_symbols(conf_read(Fresh, minimal), "defconfig",
                                        [s \in Symbols |-> no])
RoundTrip ==
    phase = "done" /\ input_mode # "listnewconfig" =>
        \E pair \in {<<Values(IF input_mode = "savedefconfig" THEN FromMinimal
                               ELSE conf_read(Fresh, file)), Values(S)>>} :
            pair[1] = pair[2]

(***************************************************************************)
(* A session that asks leaves nothing out: when it goes on to write, every *)
(* symbol that is shown and may be changed has a value of the user, those  *)
(* included that an earlier answer has brought into sight.  And what it    *)
(* has written leaves nothing to ask, so that the silentoldconfig that     *)
(* make runs afterwards needs no terminal, and nothing to save but for a   *)
(* value of a choice that went out of sight: its WRITE flag is never taken *)
(* back (symbol.c:322), so it is written.                                  *)
(***************************************************************************)
IsNew(T, m) == LET s == M.menu[m].sym
               IN  /\ s # None
                   /\ s \notin T.user
                   /\ sym_is_changable(T, s) \/ (s \in Choices /\ T.tri[s] = yes)
AllAsked ==
    \A m \in DOMAIN M.menu : \E vis \in {menu_is_visible(S, m)} : vis.ok => ~IsNew(vis.S, m)
NothingNew ==
    \E T \in {conf_read(Fresh, file)} :
        /\ \A m \in DOMAIN M.menu : menu_is_visible(T, m).ok => ~IsNew(T, m)
        /\ T.changed => \E i \in DOMAIN file :
                           is_choice_value(file[i].s) /\ T.visible[file[i].s] = no
Quiet ==
    /\ phase = "write" /\ input_mode \in Asking => AllAsked
    /\ phase = "done" /\ input_mode \in {"oldconfig", "silentoldconfig"} => NothingNew

(***************************************************************************)
(* A session that asks comes to an end, provided its questions are         *)
(* answered.                                                               *)
(***************************************************************************)
Ends == phase = "ask" ~> phase # "ask"
=============================================================================
