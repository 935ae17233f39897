---------------------------- MODULE KTextFronts -----------------------------
(***************************************************************************)
(* The sessions of mconf and nconf: conf() walks the menus and calls itself *)
(* for a submenu, a dialog is answered before anything else happens, and   *)
(* changes are offered for saving at the end.  mconf catches SIGINT at any *)
(* moment, conf_write and its message box included, and ends from the      *)
(* handler.                                                                *)
(***************************************************************************)
EXTENDS KSession

Mconf == Program = "mconf"
Nconf == Program = "nconf"
Text == Mconf \/ Nconf

mconf_main == Mconf /\ Start("single", 1)
nconf_main == Nconf /\ Start("single", 1)

-----------------------------------------------------------------------------
(* conf() *)

\* y, n, m and the space bar.
mconf_conf ==
    /\ Mconf /\ Shows("menu")
    /\ \E o \in Options, v \in {"n", "y"} : SetTristate(o, v)
    /\ OnlyValues

nconf_conf ==
    /\ Nconf /\ Shows("menu")
    /\ \E o \in Options, v \in {"n", "y"} : SetTristate(o, v)
    /\ OnlyValues

\* The text of an option, which "show all options" lists when it is not visible as
\* well; nconf leaves alone an entry that is not visible.
mconf_string ==
    /\ Mconf /\ Shows("menu")
    /\ \E o \in Strings : \E v \in Values(o) : SetString(o, v)
    /\ OnlyValues

nconf_string ==
    /\ Nconf /\ Shows("menu")
    /\ \E o \in Strings \cap Written(mem["editor"]) : \E v \in Values(o) : SetString(o, v)
    /\ OnlyValues

\* conf(submenu), and its return.
Enters ==
    /\ Text /\ Shows("menu")
    /\ place' \in Below(place)
    /\ UNCHANGED <<fvars, filename, mode, back, told, slips>>

Leaves ==
    /\ Text /\ Shows("menu") /\ place # 1
    /\ place' = Up(place)
    /\ UNCHANGED <<fvars, filename, mode, back, told, slips>>

-----------------------------------------------------------------------------
(* Load and save *)

\* conf_load, in both: asked again while the file does not exist.
LoadsFile(name) ==
    /\ Shows("menu")
    /\ Loaded(name, TRUE)
    /\ filename' = IF disk[name] = None THEN filename ELSE name
    /\ UNCHANGED <<situation, screen, files, job, lapses, mishaps, place, mode, back, told>>

\* conf_save, in both: asked again while the file cannot be written.
SavesFile(name) ==
    /\ Shows("menu")
    /\ conf_write("editor", name, "save")
    /\ UNCHANGED <<situation, screen, files, process, mishaps, session>>

SaveReturns ==
    /\ Text /\ Returned("save")
    /\ filename' = IF Failed THEN filename ELSE job["editor"].file
    /\ job' = [job EXCEPT !["editor"] = Idle]
    /\ UNCHANGED <<situation, screen, files, process, lapses, mishaps, place, mode, back, told, slips>>

mconf_load(name) == Mconf /\ LoadsFile(name)
nconf_load(name) == Nconf /\ LoadsFile(name)
mconf_save(name) == Mconf /\ SavesFile(name)
nconf_save(name) == Nconf /\ SavesFile(name)

-----------------------------------------------------------------------------
(* The end *)

\* Nothing changed, or a question.
Asks(next) ==
    IF changed["editor"]
    THEN /\ screen' = next
         /\ job' = [job EXCEPT !["editor"] = Idle]
         /\ UNCHANGED <<process, told, filename, place, mode, back>>
    ELSE Ends(FALSE)

\* mconf: conf(&rootmenu) has returned.
handle_exit ==
    /\ Mconf /\ Shows("menu") /\ place = 1
    /\ Asks("quit")
    /\ UNCHANGED <<situation, files, lapses, slips, mishaps>>

\* What conf_write was doing is left as it is: in its message box the changes are
\* still counted, and a Yes writes them again, with no flags left.  Not modelled is
\* SIGINT between its return and the use of it.  A second one waits for the end of
\* the handler.
sig_handler ==
    /\ Mconf /\ screen \in {"menu", "quit"} /\ job["editor"].at \notin {"done", "failed"}
    /\ Mishap("interrupt")
    /\ Asks("interrupted")
    /\ UNCHANGED <<situation, files, lapses, slips>>

\* nconf: conf(&rootmenu) has returned, or F9 was pressed in any menu.
do_exit ==
    /\ Nconf /\ Shows("menu")
    /\ Asks("quit")
    /\ UNCHANGED <<situation, files, lapses, slips, mishaps>>

AnswersYes ==
    /\ Text /\ (Shows("quit") \/ Shows("interrupted"))
    /\ conf_write("editor", filename, "exit")
    /\ UNCHANGED <<situation, screen, files, process, mishaps, session>>

\* Your configuration changes were NOT saved.
AnswersNo ==
    /\ Text /\ (Shows("quit") \/ Shows("interrupted"))
    /\ Ends(TRUE)
    /\ UNCHANGED <<situation, files, lapses, slips, mishaps>>

\* ESC: the menus go on, mconf in the main menu; but the handler of SIGINT exits.
AnswersEsc ==
    /\ Text
    /\ \/ /\ Shows("quit")
          /\ screen' = "menu"
          /\ place' = IF Mconf THEN 1 ELSE place
          /\ UNCHANGED <<process, job, filename, mode, back, told>>
       \/ Shows("interrupted") /\ Ends(TRUE)
    /\ UNCHANGED <<situation, files, lapses, slips, mishaps>>

\* Mutant of ExitReturns: the result of conf_write is not looked at.
ExitReturnsBlind ==
    /\ Text /\ Returned("exit")
    /\ Ends(FALSE)
    /\ UNCHANGED <<situation, files, lapses, slips, mishaps>>

\* Both end after conf_write, and say so when it failed.
ExitReturns ==
    /\ Text /\ Returned("exit")
    /\ Ends(Failed)
    /\ UNCHANGED <<situation, files, lapses, slips, mishaps>>

\* The function keys of nconf: F5 goes back, F6 saves, F7 loads, F9 exits.
process_special_keys ==
    \/ Nconf /\ Leaves
    \/ \E name \in situation.names : nconf_save(name) \/ nconf_load(name)
    \/ do_exit

TextNext ==
    \/ mconf_main \/ nconf_main \/ mconf_conf \/ nconf_conf \/ mconf_string \/ nconf_string
    \/ Enters \/ Leaves \/ process_special_keys
    \/ \E name \in situation.names : mconf_load(name) \/ mconf_save(name)
    \/ SaveReturns \/ handle_exit \/ sig_handler
    \/ AnswersYes \/ AnswersNo \/ AnswersEsc \/ ExitReturns
=============================================================================
