------------------------------ MODULE KSession ------------------------------
(***************************************************************************)
(* What the sessions of the four editors have in common: the values the    *)
(* user changes, the files he loads, and where he is in the menus.  The    *)
(* programs themselves are in KTextFronts and KWindowFronts.               *)
(*                                                                         *)
(* The menu tree is a chain of entries, 1 the root and each the parent of  *)
(* the next, of which some are not menus (a choice, an "if"); which option *)
(* an entry lists is left out, so every option can be changed from         *)
(* everywhere.                                                             *)
(***************************************************************************)
EXTENDS KFiles

VARIABLES
    filename,   \* the file mconf and nconf save to
    place,      \* the menu on the screen: menu, current, rootEntry
    mode,       \* view_mode, ConfigList::mode
    back,       \* is the back button enabled?
    told,       \* ghost: the last session ended with a word about changes not saved
    slips       \* ghost: what the program of this session got wrong by itself: "forgot",
                \* "unmarked", "elsewhere", "anyway", "nowhere" (README)

session == <<filename, place, mode, back, told, slips>>
vars == <<fvars, session>>

Program == situation.program
Modes == {"single", "split", "full"}

Shows(s) == screen = s /\ job["editor"] = Idle

IsMenu(e) == e \in situation.menus

\* The nearest menu an entry hangs from (menu_get_parent_menu of its parent).
Up(e) == CHOOSE u \in 1 .. e - 1 : IsMenu(u) /\ \A v \in u + 1 .. e - 1 : ~IsMenu(v)

\* The menus an entry shows a row for: those with no other menu in between.
Below(e) == {m \in situation.menus : m > e /\ \A v \in e + 1 .. m - 1 : ~IsMenu(v)}

\* The editor does not touch the files but through conf_write.
OnlyValues == UNCHANGED <<situation, screen, files, job, saved, lapses, mishaps, session>>

-----------------------------------------------------------------------------
(* Values *)

\* sym_set_tristate_value: an option that is not visible has no other value.
SetTristate(o, v) ==
    /\ o \in Written(mem["editor"]) \ Strings
    /\ v # mem["editor"][o]
    /\ Recalculated("editor", [mem["editor"] EXCEPT ![o] = v])
    /\ changed' = [changed EXCEPT !["editor"] = TRUE]

\* sym_set_string_value, which does not ask whether the option is visible, nor
\* whether the text differs from the default.
SetString(o, v) ==
    /\ o \in Strings /\ v \in Values(o)
    /\ v = mem["editor"][o] => v = Default(o)
    /\ Recalculated("editor", [mem["editor"] EXCEPT ![o] = v])
    /\ changed' = [changed EXCEPT !["editor"] = TRUE]

\* conf_read(name).  The change count is cleared before the file is opened.
Loaded(name, count) ==
    \E c \in {disk[name]} :
       IF c = None
       THEN /\ changed' = [changed EXCEPT !["editor"] = FALSE]
            /\ UNCHANGED <<mem, flags>>
            /\ slips' = IF changed["editor"] THEN slips \cup {"forgot"} ELSE slips
       ELSE /\ Recalculated("editor", Read(c))
            /\ changed' = [changed EXCEPT !["editor"] = count \/ Unsaved(c)]
            /\ slips' = IF count \/ Unsaved(c) \/ name = "config"
                        THEN slips ELSE slips \cup {"unmarked"}

\* conf_parse and conf_read(NULL): without a .config, the defaults, to be saved.
Start(first, at) ==
    /\ screen \in {"off", "ended"}
    /\ job["editor"] = Idle
    /\ situation.make = "between" => job["make"] = Idle
    /\ \E c \in {IF disk["config"] = None THEN Nothing ELSE disk["config"]} :
          /\ Recalculated("editor", Read(c))
          /\ changed' = [changed EXCEPT !["editor"] = disk["config"] = None \/ Unsaved(c)]
    /\ screen' = "menu"
    /\ filename' = "config" /\ place' = at /\ mode' = first /\ back' = FALSE /\ told' = FALSE
    /\ slips' = {}
    /\ lapses' = IF job["make"].at # "idle" THEN lapses \cup {"raced"} ELSE lapses
    /\ UNCHANGED <<situation, files, job, mishaps>>

Ends(word) ==
    /\ screen' = "ended"
    /\ told' = word
    /\ Gone("editor")
    /\ UNCHANGED <<filename, place, mode, back>>

\* The editor is killed; its user sees that.
Killed ==
    /\ screen \notin {"off", "ended"}
    /\ Mishap("crash")
    /\ Ends(TRUE)
    /\ UNCHANGED <<situation, files, lapses, slips>>

\* conf_write has returned, with 0 or 1.
Returned(then) == job["editor"].at \in {"done", "failed"} /\ job["editor"].then = then
Failed == job["editor"].at = "failed"
=============================================================================
