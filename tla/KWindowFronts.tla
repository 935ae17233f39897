--------------------------- MODULE KWindowFronts ----------------------------
(***************************************************************************)
(* The sessions of gconf and qconf: the handlers of the windows' signals.  *)
(* Both work on .config alone, and have three views of the menus: single   *)
(* (one menu at a time), split (menus on the left, options on the right)   *)
(* and full (everything).                                                  *)
(***************************************************************************)
EXTENDS KSession

Gconf == Program = "gconf"
Qconf == Program = "qconf"

\* fixup_rootmenu: the menus of the left list (MENU_ROOT), those that are inside
\* menus alone; the other menus have a row on the right.
Rooted == {e \in situation.menus : \A v \in 1 .. e : IsMenu(v)}

Rows == CASE mode = "single" -> Below(place)
          [] mode = "split"  -> situation.menus \ Rooted
          [] mode = "full"   -> {}

gconf_main == Gconf /\ Start("full", 1)
qconf_main == Qconf /\ \E m \in IF situation.menus = {1} THEN {"full"} ELSE Modes : Start(m, 1)

-----------------------------------------------------------------------------
(* Views *)

\* (Bound: the user goes round where there is more than the main menu.)
Shown(p, m, b) ==
    /\ Shows("menu") /\ situation.menus # {1}
    /\ place' = p /\ mode' = m /\ back' = b
    /\ UNCHANGED <<filename, told, slips>>

Turns(p, m, b) == Shown(p, m, b) /\ UNCHANGED fvars

on_single_clicked == Gconf /\ Turns(1, "single", back)
on_split_clicked == Gconf /\ Turns(1, "split", FALSE)
on_full_clicked == Gconf /\ Turns(1, "full", FALSE)

\* "Show all options" and the like: all is drawn again, from the root.
on_set_option_mode == Gconf /\ Turns(1, mode, back)

\* To the parent, or to its parent when it is not a menu.
GconfParent == IF place > 1 /\ ~IsMenu(place - 1) THEN place - 2 ELSE place - 1

on_back_clicked ==
    /\ Gconf /\ back /\ place > 1
    /\ Turns(GconfParent, mode, GconfParent # 1)

\* Back from the main menu, which it is drawing that does not look at the button has
\* led to: current is NULL, and read from all the same.
BackToNowhere ==
    /\ Gconf /\ Shows("menu") /\ back /\ place = 1
    /\ Ends(FALSE)
    /\ slips' = slips \cup {"nowhere"}
    /\ UNCHANGED <<situation, files, lapses, mishaps>>

\* qconf enables the back button by the parent of the menu it goes to.
changeMenu(e) == Qconf /\ Turns(e, mode, e - 1 # 1)

goBack == Qconf /\ place > 1 /\ Turns(Up(place), mode, back /\ Up(place) # 1)

backAction == back /\ goBack

\* A link in the help text: to a menu, or to the one that has the row.
setMenuLink ==
    /\ Qconf /\ mode # "full"
    /\ \E e \in 2 .. 4 :
          Turns(IF e \in (IF mode = "split" THEN Rooted ELSE situation.menus) THEN e ELSE Up(e),
                mode, back)

showSingleView == Qconf /\ Turns(1, "single", back)
showSplitView == Qconf /\ Turns(1, "split", back)
showFullView == Qconf /\ Turns(1, "full", back)

-----------------------------------------------------------------------------
(* Values *)

\* gconf: no check of the type is needed, a boolean has no "m" and takes "y" for it.
toggle_sym_value(o) == \E v \in {"n", "y"} : SetTristate(o, v)
change_sym_value(o, col) == SetTristate(o, IF col = "m" THEN "y" ELSE col)

\* display_list, in the split view: both lists are drawn again, from the root.
Redraws ==
    /\ place' = IF mode = "split" THEN 1 ELSE place
    /\ UNCHANGED <<situation, screen, files, job, lapses, mishaps, filename, mode, back, told, slips>>

\* A double click goes down into a menu, except in the full view, and toggles
\* an option; a click in the column of a value sets it.  A click that changes no
\* value draws the lists again all the same.
on_treeview2_button_press_event ==
    /\ Gconf
    /\ \/ \E e \in Rows : Turns(e, mode, TRUE)
       \/ /\ Shows("menu")
          /\ \E o \in Options : toggle_sym_value(o) \/ \E col \in {"n", "m", "y"} : change_sym_value(o, col)
          /\ Redraws
       \/ mode = "split" /\ Turns(1, mode, back)

on_treeview2_key_press_event ==
    /\ Gconf /\ Shows("menu")
    /\ \/ /\ \E o \in Options, col \in {"n", "m", "y"} : change_sym_value(o, col)
          /\ Redraws
       \/ mode = "split" /\ Turns(1, mode, back)

\* A double click in the left list toggles the option of a menuconfig, and leaves
\* the back button as it is.
on_treeview1_button_press_event ==
    /\ Gconf /\ mode = "split"
    /\ \E e \in Rooted \ {1} : Shown(e, mode, back)
    /\ \/ UNCHANGED fvars
       \/ /\ \E o \in Options : toggle_sym_value(o)
          /\ UNCHANGED <<situation, screen, files, job, saved, lapses, mishaps>>

renderer_edited ==
    /\ Gconf /\ Shows("menu")
    /\ \E o \in Strings : \E v \in Values(o) : SetString(o, v)
    /\ OnlyValues

\* qconf.
setValue(o, v) == v # "m" /\ SetTristate(o, v)
changeValue(o) == \E v \in {"n", "y"} : SetTristate(o, v)

\* Escape goes back, Enter opens a menu or changes an option; n, m, y.
keyPressEvent ==
    /\ Qconf /\ Shows("menu")
    /\ \/ mode # "full" /\ goBack
       \/ \E e \in Rows : changeMenu(e)
       \/ /\ \E o \in Options : changeValue(o) \/ \E v \in {"n", "m", "y"} : setValue(o, v)
          /\ OnlyValues

\* The same with the mouse; a click on a menu of the left list opens it.
contentsMouseReleaseEvent ==
    /\ Qconf /\ Shows("menu")
    /\ \/ \E e \in Rows : changeMenu(e)
       \/ mode = "split" /\ \E e \in Rooted \ {1} : changeMenu(e)
       \/ /\ \E o \in Options : changeValue(o) \/ \E v \in {"n", "m", "y"} : setValue(o, v)
          /\ OnlyValues

\* A text, in the list or on the line below it.
okRename ==
    /\ Qconf /\ Shows("menu")
    /\ \E o \in Strings : \E v \in Values(o) : SetString(o, v)
    /\ OnlyValues

-----------------------------------------------------------------------------
(* Load and save *)

LoadsConfig(name) ==
    /\ Shows("menu")
    /\ Loaded(name, FALSE)
    /\ UNCHANGED <<situation, screen, files, job, lapses, mishaps, filename, mode, back, told>>

SavesConfig(name) ==
    /\ Shows("menu")
    /\ conf_write("editor", name, "save")
    /\ UNCHANGED <<situation, screen, files, process, mishaps, session>>

\* gconf draws the tree from the root when it could read the file.
load_filename(name) ==
    /\ Gconf /\ LoadsConfig(name)
    /\ place' = IF disk[name] = None THEN place ELSE 1

loadConfig(name) == Qconf /\ LoadsConfig(name) /\ UNCHANGED place

\* conf_changed enables the save button when there is something to save.
on_save_activate == Gconf /\ changed["editor"] /\ SavesConfig("config")
saveConfig == Qconf /\ changed["editor"] /\ SavesConfig("config")

\* saveConfigAs asks for a name and leaves it aside.
store_filename(name) == Gconf /\ SavesConfig(name)
saveConfigAs == Qconf /\ SavesConfig("config")

\* A message when it failed.  gconf has nothing to save any more, whatever the file.
WindowSaved ==
    /\ Gconf \/ Qconf
    /\ Returned("save")
    /\ slips' = IF ~Failed /\ job["editor"].file # "config" THEN slips \cup {"elsewhere"} ELSE slips
    /\ job' = [job EXCEPT !["editor"] = Idle]
    /\ UNCHANGED <<situation, screen, files, process, lapses, mishaps, filename, place, mode, back, told>>

-----------------------------------------------------------------------------
(* The end *)

CloseAsks ==
    /\ Shows("menu")
    /\ IF changed["editor"]
       THEN screen' = "quit" /\ UNCHANGED <<process, job, told, filename, place, mode, back>>
       ELSE Ends(FALSE)
    /\ UNCHANGED <<situation, files, lapses, slips, mishaps>>

on_window1_delete_event == Gconf /\ CloseAsks
closeEvent == Qconf /\ CloseAsks

WindowYes ==
    /\ Gconf \/ Qconf
    /\ Shows("quit")
    /\ conf_write("editor", "config", "exit")
    /\ UNCHANGED <<situation, screen, files, process, mishaps, session>>

WindowNo ==
    /\ Gconf \/ Qconf
    /\ Shows("quit")
    /\ Ends(TRUE)
    /\ UNCHANGED <<situation, files, lapses, slips, mishaps>>

WindowCancel ==
    /\ Gconf \/ Qconf
    /\ Shows("quit")
    /\ screen' = "menu"
    /\ UNCHANGED <<situation, files, process, job, lapses, mishaps, session>>

\* gconf quits whether it saved or not, and its message goes with the window.
GconfQuits ==
    /\ Gconf /\ Returned("exit")
    /\ Ends(FALSE)
    /\ slips' = IF Failed THEN slips \cup {"anyway"} ELSE slips
    /\ UNCHANGED <<situation, files, lapses, mishaps>>

\* qconf stays when it could not save.
QconfCloses ==
    /\ Qconf /\ Returned("exit")
    /\ IF Failed THEN /\ screen' = "menu"
                      /\ job' = [job EXCEPT !["editor"] = Idle]
                      /\ UNCHANGED <<process, told, filename, place, mode, back>>
       ELSE Ends(FALSE)
    /\ UNCHANGED <<situation, files, lapses, slips, mishaps>>

WindowNext ==
    \/ gconf_main \/ on_treeview2_button_press_event \/ on_treeview2_key_press_event
    \/ on_treeview1_button_press_event \/ renderer_edited
    \/ on_single_clicked \/ on_split_clicked \/ on_full_clicked \/ on_set_option_mode
    \/ on_back_clicked \/ BackToNowhere
    \/ qconf_main \/ keyPressEvent \/ contentsMouseReleaseEvent \/ okRename
    \/ backAction \/ setMenuLink \/ showSingleView \/ showSplitView \/ showFullView
    \/ \E name \in situation.names : load_filename(name) \/ loadConfig(name) \/ store_filename(name)
    \/ on_save_activate \/ saveConfig \/ saveConfigAs \/ WindowSaved
    \/ on_window1_delete_event \/ closeEvent \/ WindowYes \/ WindowNo \/ WindowCancel
    \/ GconfQuits \/ QconfCloses
=============================================================================
