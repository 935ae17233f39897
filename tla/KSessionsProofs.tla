-------------------------- MODULE KSessionsProofs ---------------------------
(***************************************************************************)
(* Theorems about KSessions, for any options with any dependencies, any    *)
(* first content of the files, and any number of failures: what is saved   *)
(* stays saved, an editor that ends in silence has lost nothing, and       *)
(* auto.conf and autoconf.h are in step with a .config that make does not  *)
(* read again.                                                             *)
(***************************************************************************)
EXTENDS KSessions, TLAPS

Given == {"config", "alt"}
Writing == {"open", "body", "keep", "move", "message"}
Splitting == {"split", "pending", "header", "auto"}
Steps == {"idle", "done", "failed"} \cup Writing \cup Splitting
Running == screen \notin {"off", "ended"}

\* The editor has a job only while it runs, and make has one only on .config.
TypeInv ==
    /\ situation \in Situations
    /\ screen \in {"off", "ended", "menu", "quit", "interrupted"}
    /\ disk \in [Files -> Contents \cup {None}]
    /\ newer \in [{"auto", "pending"} -> SUBSET Files]
    /\ mem \in [Processes -> Memory]
    /\ flags \in [Processes -> SUBSET Options]
    /\ changed \in [Processes -> BOOLEAN]
    /\ job \in [Processes -> [at : Steps, file : Given, then : {"nothing", "save", "exit", "sync"}]]
    /\ job["make"].file = "config"
    /\ job["editor"].at \notin Splitting
    /\ ~Running => job["editor"].at = "idle"
    /\ filename \in Given
    /\ touched \in SUBSET Options

-----------------------------------------------------------------------------
(* Contents of files and of memories.                                        *)

LEMMA ContentsAre ==
    ASSUME NEW c
    PROVE  c \in Contents <=>
              /\ c = [o \in DOMAIN c |-> c[o]] /\ DOMAIN c \subseteq Options
              /\ \A o \in DOMAIN c : c[o] \in Values(o)
  <1> DEFINE V == {"s", "t", "n", "y"}
  <1>1. ASSUME c \in Contents
        PROVE  /\ c = [o \in DOMAIN c |-> c[o]] /\ DOMAIN c \subseteq Options
               /\ \A o \in DOMAIN c : c[o] \in Values(o)
    <2>1. PICK d \in SUBSET Options : c \in [d -> V]
      BY <1>1 DEF Contents
    <2> QED BY <1>1, <2>1 DEF Contents
  <1>2. ASSUME c = [o \in DOMAIN c |-> c[o]], DOMAIN c \subseteq Options,
               \A o \in DOMAIN c : c[o] \in Values(o)
        PROVE  c \in Contents
    <2>1. c \in [DOMAIN c -> V]
      BY <1>2 DEF Values
    <2> QED BY <1>2, <2>1 DEF Contents
  <1> QED BY <1>1, <1>2

LEMMA NothingTyped == Nothing \in Contents
  BY ContentsAre DEF Nothing

LEMMA RestrictTyped ==
    ASSUME NEW m, NEW d \in SUBSET Options, d \subseteq DOMAIN m,
           \A o \in DOMAIN m : m[o] \in Values(o)
    PROVE  Restrict(m, d) \in Contents
  BY ContentsAre DEF Restrict

LEMMA ReadTyped ==
    ASSUME NEW c \in Contents
    PROVE  Read(c) \in Memory
  BY ContentsAre DEF Read, Memory, Values, Default

LEMMA LinesTyped ==
    ASSUME NEW m \in Memory
    PROVE  Written(m) \in SUBSET Options /\ Lines(m) \in Contents
  BY RestrictTyped DEF Lines, Written, Memory

LEMMA AutoTyped ==
    ASSUME NEW c \in Contents
    PROVE  AutoLines(c) \in Contents /\ \A o \in DOMAIN AutoLines(c) : AutoLines(c)[o] # "n"
  <1>1. DOMAIN c \subseteq Options /\ \A o \in DOMAIN c : c[o] \in Values(o)
    BY ContentsAre
  <1> QED BY <1>1, RestrictTyped DEF AutoLines, Restrict

LEMMA TruncationsTyped ==
    ASSUME NEW c \in Contents
    PROVE  Truncations(c) \subseteq Contents
  <1>1. DOMAIN c \subseteq Options /\ \A o \in DOMAIN c : c[o] \in Values(o)
    BY ContentsAre
  <1> QED BY <1>1, RestrictTyped DEF Truncations

\* A content that needs no saving is what the values read from it are written as.
LEMMA LinesRead ==
    ASSUME NEW c \in Contents, ~Unsaved(c)
    PROVE  Lines(Read(c)) = c
  <1>1. /\ c = [o \in DOMAIN c |-> c[o]] /\ DOMAIN c \subseteq Options
        /\ DOMAIN c = Written(Read(c))
    BY ContentsAre DEF Unsaved
  <1>2. \A o \in DOMAIN c : Read(c)[o] = c[o]
    BY <1>1 DEF Read
  <1> QED BY <1>1, <1>2 DEF Lines, Restrict

-----------------------------------------------------------------------------
(* What a step of a session does, as far as files and values are concerned.  *)
(* Every action of the four programs does one of these, and leaves the files *)
(* alone.                                                                    *)

\* The user changes a value.
Sets ==
    /\ Running /\ job["editor"].at = "idle"
    /\ \E m \in Memory : Recalculated("editor", m)
    /\ changed' = [changed EXCEPT !["editor"] = TRUE]
    /\ UNCHANGED <<screen, job, lapses, filename, slips>>

\* He loads a file; mconf and nconf save to it from now on, and count it as changed.
Loads ==
    /\ Running /\ job["editor"].at = "idle"
    /\ \E name \in Given, count \in BOOLEAN :
          /\ Loaded(name, count)
          /\ IF disk[name] # None /\ Text THEN count /\ filename' \in Given
             ELSE UNCHANGED filename
    /\ UNCHANGED <<screen, job, lapses>>

\* He saves to a file, at the end to the one he works on.
Begins ==
    /\ Running /\ job["editor"].at = "idle"
    /\ \E name \in Given, then \in {"save", "exit"} :
          conf_write("editor", name, then) /\ (then = "exit" => name = Target)
    /\ UNCHANGED <<screen, process, filename, slips>>

\* conf_write has returned.
Returns ==
    /\ job["editor"].at \in {"done", "failed"}
    /\ job' = [job EXCEPT !["editor"] = Idle]
    /\ filename' \in Given /\ (Failed => UNCHANGED filename)
    /\ slips' = {} => slips = {} /\ (~Failed => Target' = job["editor"].file)
    /\ UNCHANGED <<screen, process, lapses>>

\* He moves around, or is asked what to do with his changes.
Stays ==
    /\ Running /\ screen' \in {"menu", "quit", "interrupted"}
    /\ \/ UNCHANGED job
       \/ /\ job["editor"].at = "failed" \/ (changed["editor"] /\ job["editor"].at # "done")
          /\ job' = [job EXCEPT !["editor"] = Idle]
    /\ UNCHANGED <<process, lapses, filename, slips>>

\* The program ends, without a word where it has seen no change or has saved all.
Finishes(word) ==
    /\ Running /\ Ends(word)
    /\ ~word /\ slips' = {} =>
          /\ slips = {}
          /\ \/ /\ ~changed["editor"]
                /\ \/ job["editor"].at = "idle"
                   \/ job["editor"].at # "done" /\ "interrupt" \in situation.fallible
             \/ job["editor"].at = "done" /\ job["editor"].then = "exit"
    /\ UNCHANGED lapses

Begun == \E first, at : Start(first, at)

SessionEffect ==
    /\ UNCHANGED <<situation, files>>
    /\ Begun \/ Sets \/ Loads \/ Begins \/ Returns \/ Stays \/ \E word \in BOOLEAN : Finishes(word)

LEMMA SetsValue ==
    ASSUME TypeInv, Shows("menu"), NEW o,
           \/ \E v \in {"n", "y"} : SetTristate(o, v)
           \/ \E v \in Values(o) : SetString(o, v),
           UNCHANGED <<situation, screen, files, job, lapses, filename, slips>>
    PROVE  SessionEffect
  <1>1. o \in Options
    BY FilesAssumption DEF SetTristate, SetString, Written
  <1>2. mem["editor"] \in Memory
    BY DEF TypeInv, Processes
  <1>3. Running /\ job["editor"].at = "idle"
    BY DEF Shows, Running, Idle
  <1>4. CASE \E v \in {"n", "y"} : SetTristate(o, v)
    <2>1. PICK v \in {"n", "y"} : SetTristate(o, v)
      BY <1>4
    <2>2. [mem["editor"] EXCEPT ![o] = v] \in Memory
      BY <1>1, <1>2, <2>1 DEF SetTristate, Memory, Values
    <2> QED BY <1>3, <2>1, <2>2 DEF SetTristate, SessionEffect, Sets
  <1>5. CASE \E v \in Values(o) : SetString(o, v)
    <2>1. PICK v \in Values(o) : SetString(o, v)
      BY <1>5
    <2>2. [mem["editor"] EXCEPT ![o] = v] \in Memory
      BY <1>1, <1>2, <2>1 DEF SetString, Memory, Values
    <2> QED BY <1>3, <2>1, <2>2 DEF SetString, SessionEffect, Sets
  <1> QED BY <1>4, <1>5

\* Moving around changes nothing that counts here.
LEMMA Walks ==
    ASSUME TypeInv, Shows("menu"), UNCHANGED <<fvars, filename, slips>>
    PROVE  SessionEffect
  BY DEF Shows, Running, fvars, files, process, SessionEffect, Stays

LEMMA TextEffect ==
    ASSUME TypeInv, TextNext
    PROVE  SessionEffect
  <1>0. situation \in Situations /\ situation.names \subseteq Given
    BY FilesAssumption DEF TypeInv, Given
  <1>1. CASE mconf_main \/ nconf_main
    BY <1>1 DEF mconf_main, nconf_main, Start, SessionEffect, Begun
  <1>2. CASE mconf_conf \/ nconf_conf \/ mconf_string \/ nconf_string
    BY <1>2, SetsValue
       DEF mconf_conf, nconf_conf, mconf_string, nconf_string, OnlyValues, files, session
  <1>3. CASE Enters \/ Leaves
    BY <1>3, Walks DEF Enters, Leaves
  <1>4. ASSUME NEW name \in Given, Text, LoadsFile(name)
        PROVE  SessionEffect
    <2>1. Running /\ job["editor"].at = "idle" /\ filename' \in Given
      BY <1>4 DEF LoadsFile, Shows, Running, Idle, TypeInv
    <2>2. Loads
      BY <1>4, <2>1 DEF LoadsFile, Loads
    <2> QED BY <1>4, <2>2 DEF LoadsFile, SessionEffect
  <1>5. ASSUME NEW name \in Given, SavesFile(name)
        PROVE  SessionEffect
    <2>1. Begins
      BY <1>5 DEF SavesFile, Begins, Shows, Running, Idle, session
    <2> QED BY <1>5, <2>1 DEF SavesFile, SessionEffect
  <1>6. CASE do_exit \/ handle_exit
    <2>1. Shows("menu") /\ Asks("quit") /\ UNCHANGED <<situation, files, lapses, slips, mishaps>>
      BY <1>6 DEF do_exit, handle_exit
    <2>2. Running /\ job["editor"].at = "idle"
      BY <2>1 DEF Shows, Running, Idle
    <2>3. CASE changed["editor"]
      BY <2>1, <2>2, <2>3 DEF Asks, SessionEffect, Stays, Running
    <2>4. CASE ~changed["editor"]
      BY <2>1, <2>2, <2>4 DEF Asks, SessionEffect, Finishes
    <2> QED BY <2>3, <2>4
  <1>7. CASE process_special_keys
    BY <1>0, <1>3, <1>4, <1>5, <1>6, <1>7
       DEF process_special_keys, nconf_save, nconf_load, Text
  <1>8. CASE \E name \in situation.names : mconf_load(name) \/ mconf_save(name)
    BY <1>0, <1>4, <1>5, <1>8 DEF mconf_load, mconf_save, Text
  <1>9. CASE SaveReturns
    <2>1. filename' \in Given /\ job["editor"].at \in {"done", "failed"}
      BY <1>9 DEF SaveReturns, Returned, TypeInv, Processes
    <2>2. ~Failed => Target' = job["editor"].file
      BY <1>9 DEF SaveReturns, Target, Text, Mconf, Nconf, Program
    <2> QED BY <1>9, <2>1, <2>2 DEF SaveReturns, SessionEffect, Returns
  <1>10. CASE sig_handler
    <2>1. Running /\ job["editor"].at # "done" /\ "interrupt" \in situation.fallible
      BY <1>10 DEF sig_handler, Running, Mishap
    <2>2. CASE changed["editor"]
      BY <1>10, <2>1, <2>2 DEF sig_handler, Asks, SessionEffect, Stays, Running
    <2>3. CASE ~changed["editor"]
      BY <1>10, <2>1, <2>3 DEF sig_handler, Asks, SessionEffect, Finishes
    <2> QED BY <2>2, <2>3
  <1>11. CASE AnswersYes
    <2>1. Begins
      BY <1>11 DEF AnswersYes, Begins, Shows, Running, Idle, session, TypeInv, Target, Text,
                   Mconf, Nconf
    <2> QED BY <1>11, <2>1 DEF AnswersYes, SessionEffect
  <1>12. CASE AnswersNo
    BY <1>12 DEF AnswersNo, Shows, Running, SessionEffect, Finishes
  <1>13. CASE AnswersEsc
    <2>1. CASE Shows("quit") /\ screen' = "menu" /\ UNCHANGED <<process, job, filename>>
      BY <1>13, <2>1 DEF AnswersEsc, Shows, Running, SessionEffect, Stays
    <2>2. CASE Shows("interrupted") /\ Ends(TRUE)
      BY <1>13, <2>2 DEF AnswersEsc, Shows, Running, SessionEffect, Finishes
    <2> QED BY <1>13, <2>1, <2>2 DEF AnswersEsc
  <1>14. CASE ExitReturns
    <2>1. Running /\ Ends(Failed) /\ (~Failed => job["editor"].at = "done")
      BY <1>14 DEF ExitReturns, Returned, Failed, TypeInv
    <2>2. Failed \in BOOLEAN
      BY DEF Failed
    <2>3. Finishes(Failed)
      BY <1>14, <2>1 DEF ExitReturns, Returned, Finishes
    <2> QED BY <1>14, <2>2, <2>3 DEF ExitReturns, SessionEffect
  <1> QED BY <1>1, <1>2, <1>3, <1>6, <1>7, <1>8, <1>9, <1>10, <1>11, <1>12, <1>13, <1>14
          DEF TextNext


LEMMA WindowEffect ==
    ASSUME TypeInv, WindowNext
    PROVE  SessionEffect
  <1>0. situation \in Situations /\ situation.names \subseteq Given
    BY FilesAssumption DEF TypeInv, Given
  <1>1. CASE gconf_main \/ qconf_main
    BY <1>1 DEF gconf_main, qconf_main, Start, SessionEffect, Begun
  <1>2. ASSUME NEW p, NEW m, NEW b, Turns(p, m, b)
        PROVE  SessionEffect
    BY <1>2, Walks DEF Turns, Shown
  <1>3. ASSUME Shows("menu"), Redraws, NEW o,
               toggle_sym_value(o) \/ \E col \in {"n", "m", "y"} : change_sym_value(o, col)
        PROVE  SessionEffect
    <2>1. \E v \in {"n", "y"} : SetTristate(o, v)
      BY <1>3 DEF toggle_sym_value, change_sym_value
    <2> QED BY <1>3, <2>1, SetsValue DEF Redraws, files
  <1>4. ASSUME Shows("menu"), OnlyValues, NEW o,
               changeValue(o) \/ \E v \in {"n", "m", "y"} : setValue(o, v)
        PROVE  SessionEffect
    <2>1. \E v \in {"n", "y"} : SetTristate(o, v)
      BY <1>4 DEF changeValue, setValue
    <2> QED BY <1>4, <2>1, SetsValue DEF OnlyValues, session, files
  <1>5. ASSUME Shows("menu"), OnlyValues, NEW o, \E v \in Values(o) : SetString(o, v)
        PROVE  SessionEffect
    BY <1>5, SetsValue DEF OnlyValues, session, files
  <1>6. CASE \/ on_single_clicked \/ on_split_clicked \/ on_full_clicked
             \/ on_set_option_mode \/ on_back_clicked
    BY <1>2, <1>6 DEF on_single_clicked, on_split_clicked, on_full_clicked,
                      on_set_option_mode, on_back_clicked
  <1>7. CASE goBack \/ backAction \/ setMenuLink \/ \E e \in Rows : changeMenu(e)
    BY <1>2, <1>7 DEF goBack, backAction, setMenuLink, changeMenu
  <1>8. CASE showSingleView \/ showSplitView \/ showFullView
    BY <1>2, <1>8 DEF showSingleView, showSplitView, showFullView
  <1>9. CASE on_treeview2_button_press_event \/ on_treeview2_key_press_event
    BY <1>2, <1>3, <1>9 DEF on_treeview2_button_press_event, on_treeview2_key_press_event
  <1>10. CASE on_treeview1_button_press_event
    <2>1. Shows("menu") /\ UNCHANGED <<filename, told, slips>>
      BY <1>10 DEF on_treeview1_button_press_event, Shown
    <2>2. CASE UNCHANGED fvars
      BY <2>1, <2>2, Walks
    <2>3. CASE \E o \in Options : toggle_sym_value(o)
               /\ UNCHANGED <<situation, screen, files, job, saved, lapses, mishaps>>
      <3>1. PICK o \in Options : toggle_sym_value(o)
                /\ UNCHANGED <<situation, screen, files, job, saved, lapses, mishaps>>
        BY <2>3
      <3> QED BY <2>1, <3>1, SetsValue DEF toggle_sym_value
    <2> QED BY <1>10, <2>2, <2>3 DEF on_treeview1_button_press_event
  <1>11. CASE renderer_edited \/ okRename
    BY <1>5, <1>11 DEF renderer_edited, okRename
  <1>12. CASE keyPressEvent
    BY <1>4, <1>7, <1>12 DEF keyPressEvent
  <1>13. CASE contentsMouseReleaseEvent
    BY <1>2, <1>4, <1>7, <1>13 DEF contentsMouseReleaseEvent, changeMenu
  <1>14. ASSUME NEW name \in Given, ~Text, LoadsConfig(name)
         PROVE  SessionEffect
    <2>1. Running /\ job["editor"].at = "idle"
      BY <1>14 DEF LoadsConfig, Shows, Running, Idle
    <2>2. Loads
      BY <1>14, <2>1 DEF LoadsConfig, Loads
    <2> QED BY <1>14, <2>2 DEF LoadsConfig, SessionEffect
  <1>15. ASSUME NEW name \in Given, SavesConfig(name)
         PROVE  SessionEffect
    <2>1. Begins
      BY <1>15 DEF SavesConfig, Begins, Shows, Running, Idle, session
    <2> QED BY <1>15, <2>1 DEF SavesConfig, SessionEffect
  <1>16. Gconf \/ Qconf => ~Text /\ Target = "config" /\ "config" \in Given
    BY DEF Gconf, Qconf, Text, Mconf, Nconf, Target, Given
  <1>17. CASE \E name \in situation.names :
                  load_filename(name) \/ loadConfig(name) \/ store_filename(name)
    BY <1>0, <1>14, <1>15, <1>16, <1>17 DEF load_filename, loadConfig, store_filename
  <1>18. CASE on_save_activate \/ saveConfig \/ saveConfigAs
    BY <1>15, <1>16, <1>18 DEF on_save_activate, saveConfig, saveConfigAs
  <1>19. CASE WindowSaved
    <2>1. UNCHANGED <<situation, filename>> /\ Target' = Target
      BY <1>19 DEF WindowSaved, Target, Program
    <2>2. slips' = {} => slips = {} /\ (~Failed => Target' = job["editor"].file)
      BY <1>16, <1>19, <2>1 DEF WindowSaved
    <2> QED BY <1>19, <2>1, <2>2
            DEF WindowSaved, Returned, SessionEffect, Returns, TypeInv
  <1>20. CASE on_window1_delete_event \/ closeEvent
    <2>0. CloseAsks
      BY <1>20 DEF on_window1_delete_event, closeEvent
    <2>1. Running /\ job["editor"].at = "idle"
      BY <2>0 DEF CloseAsks, Shows, Running, Idle
    <2>2. CASE changed["editor"]
      BY <2>0, <2>1, <2>2 DEF CloseAsks, SessionEffect, Stays, Running
    <2>3. CASE ~changed["editor"]
      BY <2>0, <2>1, <2>3 DEF CloseAsks, SessionEffect, Finishes
    <2> QED BY <2>2, <2>3
  <1>21. CASE WindowYes
    <2>1. Begins
      BY <1>16, <1>21 DEF WindowYes, Begins, Shows, Running, Idle, session
    <2> QED BY <1>21, <2>1 DEF WindowYes, SessionEffect
  <1>22. CASE WindowNo
    BY <1>22 DEF WindowNo, Shows, Running, SessionEffect, Finishes
  <1>23. CASE WindowCancel
    BY <1>23 DEF WindowCancel, Shows, Running, session, SessionEffect, Stays
  <1>24. CASE BackToNowhere
    BY <1>24 DEF BackToNowhere, Shows, Running, SessionEffect, Finishes
  <1>25. CASE GconfQuits
    <2>1. Running /\ (~Failed => job["editor"].at = "done")
      BY <1>25 DEF GconfQuits, Returned, Failed, TypeInv
    <2>2. Finishes(FALSE)
      BY <1>25, <2>1 DEF GconfQuits, Returned, Finishes
    <2> QED BY <1>25, <2>2 DEF GconfQuits, SessionEffect
  <1>26. CASE QconfCloses
    <2>1. Running /\ (~Failed => job["editor"].at = "done")
      BY <1>26 DEF QconfCloses, Returned, Failed, TypeInv
    <2>2. CASE Failed
      BY <1>26, <2>1, <2>2 DEF QconfCloses, Failed, SessionEffect, Stays, Running
    <2>3. CASE ~Failed
      BY <1>26, <2>1, <2>3 DEF QconfCloses, Returned, SessionEffect, Finishes
    <2> QED BY <2>2, <2>3
  <1> QED BY <1>1, <1>6, <1>7, <1>8, <1>9, <1>10, <1>11, <1>12, <1>13, <1>17, <1>18, <1>19,
             <1>20, <1>21, <1>22, <1>23, <1>24, <1>25, <1>26 DEF WindowNext

LEMMA SessionStep ==
    ASSUME TypeInv, TextNext \/ WindowNext \/ Killed
    PROVE  SessionEffect
  <1>1. CASE Killed
    BY <1>1 DEF Killed, Running, SessionEffect, Finishes
  <1> QED BY <1>1, TextEffect, WindowEffect


-----------------------------------------------------------------------------
(* Types.                                                                    *)

LEMMA TypeInit == Init => TypeInv
  <1> SUFFICES ASSUME Init PROVE TypeInv
    OBVIOUS
  <1>1. situation \in Situations
    BY DEF Init, FilesInit
  <1>2. disk \in [Files -> Contents \cup {None}]
    BY <1>1, FilesAssumption DEF Init, FilesInit
  <1>3. Read(Nothing) \in Memory /\ Written(Read(Nothing)) \in SUBSET Options
    BY NothingTyped, ReadTyped, LinesTyped
  <1>4. Idle \in [at : Steps, file : Given, then : {"nothing", "save", "exit", "sync"}]
    BY DEF Idle, Steps, Given
  <1> QED BY <1>1, <1>2, <1>3, <1>4
          DEF Init, FilesInit, TypeInv, Processes, Splitting, Idle, Given, Files

LEMMA RecalculatedTyped ==
    ASSUME TypeInv, NEW p \in Processes, NEW m \in Memory, Recalculated(p, m)
    PROVE  mem' \in [Processes -> Memory] /\ flags' \in [Processes -> SUBSET Options]
  BY LinesTyped DEF Recalculated, TypeInv

LEMMA GoneTyped ==
    ASSUME TypeInv, NEW p \in Processes, Gone(p)
    PROVE  /\ mem' \in [Processes -> Memory] /\ flags' \in [Processes -> SUBSET Options]
           /\ changed' \in [Processes -> BOOLEAN]
           /\ job' = [job EXCEPT ![p] = Idle]
  <1>1. Read(Nothing) \in Memory
    BY NothingTyped, ReadTyped
  <1> QED BY <1>1, RecalculatedTyped DEF Gone, TypeInv

\* A job that is given up leaves the other as it is.
LEMMA IdleTyped ==
    ASSUME TypeInv, NEW p \in Processes, job' = [job EXCEPT ![p] = Idle]
    PROVE  /\ job' \in [Processes -> [at : Steps, file : Given,
                                      then : {"nothing", "save", "exit", "sync"}]]
           /\ job'["make"].file = "config" /\ job'["editor"].at \notin Splitting
           /\ job'["editor"].at \in {"idle", job["editor"].at}
  BY DEF TypeInv, Idle, Steps, Given, Splitting, Processes

LEMMA TypeSession ==
    ASSUME TypeInv, SessionEffect
    PROVE  TypeInv'
  <1> USE DEF Processes
  <1>1. /\ situation' \in Situations /\ disk' \in [Files -> Contents \cup {None}]
        /\ newer' \in [{"auto", "pending"} -> SUBSET Files] /\ touched' \in SUBSET Options
    BY DEF SessionEffect, TypeInv, files
  <1>2. CASE Begun
    <2>1. PICK first, at : Start(first, at)
      BY <1>2 DEF Begun
    <2>2. PICK c \in Contents : Recalculated("editor", Read(c))
      BY <2>1, NothingTyped DEF Start, TypeInv, Files
    <2>3. mem' \in [Processes -> Memory] /\ flags' \in [Processes -> SUBSET Options]
      BY <2>2, ReadTyped, RecalculatedTyped
    <2>4. changed' \in [Processes -> BOOLEAN]
      BY <2>1 DEF Start, TypeInv, Unsaved
    <2>5. screen' = "menu" /\ filename' = "config" /\ job' = job
      BY <2>1 DEF Start
    <2> QED BY <1>1, <2>3, <2>4, <2>5 DEF TypeInv, Given, Running
  <1>3. CASE Sets
    BY <1>1, <1>3, RecalculatedTyped DEF Sets, TypeInv, Running
  <1>4. CASE Loads
    <2>1. PICK name \in Given, count \in BOOLEAN : Loaded(name, count)
      BY <1>4 DEF Loads
    <2>2. disk[name] \in Contents \cup {None}
      BY DEF TypeInv, Files, Given
    <2>3. CASE disk[name] = None
      <3>1. changed' = [changed EXCEPT !["editor"] = FALSE] /\ UNCHANGED <<mem, flags>>
        BY <2>1, <2>3 DEF Loaded
      <3>2. filename' \in Given /\ UNCHANGED <<screen, job>>
        BY <1>4 DEF Loads, TypeInv
      <3> QED BY <1>1, <3>1, <3>2 DEF TypeInv, Running
    <2>4. CASE disk[name] # None
      <3>1. Recalculated("editor", Read(disk[name]))
            /\ changed' = [changed EXCEPT !["editor"] = count \/ Unsaved(disk[name])]
        BY <2>1, <2>4 DEF Loaded
      <3>2. mem' \in [Processes -> Memory] /\ flags' \in [Processes -> SUBSET Options]
        BY <2>2, <2>4, <3>1, ReadTyped, RecalculatedTyped
      <3>3. changed' \in [Processes -> BOOLEAN]
        BY <3>1 DEF TypeInv, Unsaved
      <3>4. filename' \in Given /\ UNCHANGED <<screen, job>>
        BY <1>4 DEF Loads, TypeInv
      <3> QED BY <1>1, <3>2, <3>3, <3>4 DEF TypeInv, Running
    <2> QED BY <2>3, <2>4
  <1>5. CASE Begins
    <2>1. PICK name \in Given, then \in {"save", "exit"} : conf_write("editor", name, then)
      BY <1>5 DEF Begins
    <2>2. job' = [job EXCEPT !["editor"] = [at |-> "open", file |-> name, then |-> then]]
      BY <2>1 DEF conf_write
    <2>3. UNCHANGED <<screen, mem, flags, changed, filename>> /\ Running
      BY <1>5 DEF Begins, process
    <2> QED BY <1>1, <2>2, <2>3 DEF TypeInv, Running, Steps, Writing, Splitting
  <1>6. CASE Returns
    <2>1. UNCHANGED <<screen, mem, flags, changed>> /\ filename' \in Given
      BY <1>6 DEF Returns, process
    <2>2. job' = [job EXCEPT !["editor"] = Idle] /\ Running
      BY <1>6 DEF Returns, TypeInv
    <2> QED BY <1>1, <2>1, <2>2, IdleTyped DEF TypeInv, Running
  <1>7. CASE Stays
    <2>1. UNCHANGED <<mem, flags, changed, filename>> /\ Running'
      BY <1>7 DEF Stays, process, Running
    <2>2. screen' \in {"off", "ended", "menu", "quit", "interrupted"}
      BY <1>7 DEF Stays, TypeInv
    <2>3. job' = job \/ job' = [job EXCEPT !["editor"] = Idle]
      BY <1>7 DEF Stays
    <2>4. CASE job' = job
      BY <1>1, <2>1, <2>2, <2>4 DEF TypeInv
    <2>5. CASE job' = [job EXCEPT !["editor"] = Idle]
      BY <1>1, <2>1, <2>2, <2>5, IdleTyped DEF TypeInv
    <2> QED BY <2>3, <2>4, <2>5
  <1>8. CASE \E word \in BOOLEAN : Finishes(word)
    <2>1. screen' = "ended" /\ Gone("editor") /\ filename' = filename
      BY <1>8 DEF Finishes, Ends
    <2>2. job' = [job EXCEPT !["editor"] = Idle]
      BY <2>1 DEF Gone
    <2>3. job'["editor"].at = "idle"
      BY <2>2 DEF Idle, TypeInv
    <2> QED BY <1>1, <2>1, <2>2, <2>3, GoneTyped, IdleTyped DEF TypeInv
  <1> QED BY <1>2, <1>3, <1>4, <1>5, <1>6, <1>7, <1>8 DEF SessionEffect


LEMMA GoesTyped ==
    ASSUME TypeInv, NEW p \in Processes, NEW step \in Steps, Goes(p, step),
           p = "editor" => step \notin Splitting /\ job[p].at # "idle"
    PROVE  /\ job' \in [Processes -> [at : Steps, file : Given,
                                      then : {"nothing", "save", "exit", "sync"}]]
           /\ job'["make"].file = "config" /\ job'["editor"].at \notin Splitting
           /\ ~Running => job'["editor"].at = "idle"
           /\ job'[p].at = step /\ job'[p].file = job[p].file /\ job'[p].then = job[p].then
           /\ \A q \in Processes \ {p} : job'[q] = job[q]
  BY DEF TypeInv, Goes, Processes

\* What is written is a content, under a name of its own or the one that is asked for.
LEMMA BodyTyped ==
    ASSUME TypeInv, NEW p \in Processes
    PROVE  /\ Body(p) \in Contents /\ Truncations(Body(p)) \subseteq Contents
           /\ Lines(mem[p]) \in Contents
           /\ Out(p) = IF situation.overwrite THEN job[p].file ELSE p
           /\ Out(p) \in Files
  <1>1. mem[p] \in Memory /\ flags[p] \subseteq Options
    BY DEF TypeInv
  <1>2. Body(p) \in Contents
    BY <1>1, LinesTyped, RestrictTyped DEF Body, Memory
  <1>3. Out(p) \in Files
    BY DEF Out, TypeInv, Files, Given
  <1> QED BY <1>1, <1>2, <1>3, LinesTyped, TruncationsTyped DEF Out

LEMMA TypeWrites ==
    ASSUME TypeInv, NEW p \in Processes, Writes(p), UNCHANGED session
    PROVE  TypeInv'
  <1>1. UNCHANGED <<situation, screen, filename, mem, touched>> /\ Out(p) \in Files
    BY BodyTyped DEF Writes, WriteOpen, WriteBody, WriteKeep, WriteMove, WriteReturns, session, files, process
  <1>2. Nothing \in Contents /\ job[p].file \in Files /\ p \in Files
    BY NothingTyped DEF TypeInv, Files, Given
  <1>3. ASSUME job[p].at # "idle", NEW step \in {"body", "keep", "move", "message", "done", "failed"},
               Goes(p, step),
               disk' \in [Files -> Contents \cup {None}],
               newer' \in [{"auto", "pending"} -> SUBSET Files],
               flags' \in [Processes -> SUBSET Options],
               changed' \in [Processes -> BOOLEAN]
        PROVE  TypeInv'
    <2>1. step \in Steps /\ step \notin Splitting
      BY DEF Steps, Writing, Splitting
    <2> QED BY <1>1, <1>3, <2>1, GoesTyped DEF TypeInv, Running
  <1> USE DEF TypeInv
  <1>4. CASE WriteOpen(p)
    <2>1. CASE Goes(p, "failed") /\ UNCHANGED files
      BY <1>3, <1>4, <2>1 DEF WriteOpen, files, process
    <2>2. CASE /\ Goes(p, "body")
               /\ disk' = [disk EXCEPT ![Out(p)] = Nothing]
               /\ newer' = [r \in DOMAIN newer |-> newer[r] \cup {Out(p)}]
      BY <1>1, <1>2, <1>3, <1>4, <2>2 DEF WriteOpen, process
    <2> QED BY <1>4, <2>1, <2>2 DEF WriteOpen
  <1>5. CASE WriteBody(p)
    <2>1. \E c \in Contents : disk' = [disk EXCEPT ![Out(p)] = c]
      BY <1>5, BodyTyped DEF WriteBody
    <2>2. newer' = [r \in DOMAIN newer |-> newer[r] \cup {Out(p)}]
          /\ flags' = [flags EXCEPT ![p] = {}] /\ job[p].at # "idle"
      BY <1>5 DEF WriteBody
    <2>3. (Goes(p, "message") \/ Goes(p, "keep")) /\ changed' = [changed EXCEPT ![p] = TRUE]
      BY <1>5 DEF WriteBody, Reported
    <2>4. disk' \in [Files -> Contents \cup {None}]
          /\ newer' \in [{"auto", "pending"} -> SUBSET Files]
      BY <1>1, <2>1, <2>2
    <2> QED BY <1>3, <2>2, <2>3, <2>4
  <1>6. CASE WriteKeep(p)
    <2>1. Goes(p, "move") /\ job[p].at # "idle" /\ UNCHANGED <<flags, changed>>
      BY <1>6 DEF WriteKeep, process
    <2>2. disk' \in [Files -> Contents \cup {None}]
          /\ newer' \in [{"auto", "pending"} -> SUBSET Files]
      BY <1>2, <1>6 DEF WriteKeep, Files
    <2> QED BY <1>3, <2>1, <2>2
  <1>7. CASE WriteMove(p)
    <2>1. CASE Goes(p, "failed") /\ UNCHANGED <<disk, newer>>
      BY <1>3, <1>7, <2>1 DEF WriteMove, process
    <2>2. CASE /\ disk' = [disk EXCEPT ![job[p].file] = disk[p], ![p] = None]
               /\ newer' = [r \in DOMAIN newer |->
                               IF p \in newer[r] THEN (newer[r] \ {p}) \cup {job[p].file}
                                                 ELSE newer[r] \ {job[p].file}]
               /\ Goes(p, "message")
      BY <1>2, <1>3, <1>7, <2>2 DEF WriteMove, process
    <2> QED BY <1>7, <2>1, <2>2 DEF WriteMove, Reported
  <1>8. CASE WriteReturns(p)
    <2>1. Goes(p, "done") /\ changed' = [changed EXCEPT ![p] = FALSE]
      BY <1>8 DEF WriteReturns
    <2> QED BY <1>3, <1>8, <2>1 DEF WriteReturns, files
  <1> QED BY <1>4, <1>5, <1>6, <1>7, <1>8 DEF Writes


\* make and conf.
MakeStep ==
    \/ Make \/ MakeWritten \/ MakeFails \/ MakeKilled
    \/ conf_split_config \/ WritePending \/ MoveHeader \/ MoveAuto

\* What conf reads is the .config as it is, and what it was asked for besides.
LEMMA MakeReads ==
    ASSUME TypeInv, Make
    PROVE  /\ disk["config"] \in Contents /\ job["make"].at = "idle"
           /\ \E m \in Memory :
                 /\ Recalculated("make", m)
                 /\ ~Unsaved(disk["config"]) => m = Read(disk["config"])
           /\ IF Unsaved(disk["config"]) THEN conf_write("make", "config", "sync")
              ELSE /\ Goes("make", "split")
                   /\ job["editor"].at # "idle" => lapses' = lapses \cup {"raced"}
                   /\ job["editor"].at = "idle" => lapses' = lapses
           /\ changed' = [changed EXCEPT !["make"] = Unsaved(disk["config"])]
           /\ UNCHANGED <<situation, screen, files>>
  <1>1. disk["config"] \in Contents
    BY DEF Make, TypeInv, Files
  <1>2. PICK m \in {Read(disk["config"])} \cup
                   {v \in Memory : Unsaved(disk["config"]) /\ Read(Lines(v)) = v} :
               /\ Recalculated("make", m)
               /\ changed' = [changed EXCEPT !["make"] = Unsaved(disk["config"])]
               /\ IF Unsaved(disk["config"]) THEN conf_write("make", "config", "sync")
                  ELSE /\ Goes("make", "split")
                       /\ lapses' = IF job["editor"].at # "idle" THEN lapses \cup {"raced"}
                                                                 ELSE lapses
    BY DEF Make
  <1>3. m \in Memory /\ (~Unsaved(disk["config"]) => m = Read(disk["config"]))
    BY <1>1, <1>2, ReadTyped
  <1> QED BY <1>1, <1>2, <1>3 DEF Make

LEMMA TypeMake ==
    ASSUME TypeInv, MakeStep, UNCHANGED session
    PROVE  TypeInv'
  <1>1. UNCHANGED <<situation, screen, filename>>
    BY DEF MakeStep, Make, MakeWritten, MakeFails, MakeKilled, conf_split_config, WritePending,
           MoveHeader, MoveAuto, session
  <1>2. ASSUME disk' \in [Files -> Contents \cup {None}],
               newer' \in [{"auto", "pending"} -> SUBSET Files],
               mem' \in [Processes -> Memory], flags' \in [Processes -> SUBSET Options],
               changed' \in [Processes -> BOOLEAN], touched' \in SUBSET Options,
               job' = [job EXCEPT !["make"] = Idle]
               \/ \E step \in {"failed"} \cup Splitting : Goes("make", step)
        PROVE  TypeInv'
    <2>1. "make" \in Processes
      BY DEF Processes
    <2>2. CASE job' = [job EXCEPT !["make"] = Idle]
      <3>1. job'["editor"] = job["editor"]
        BY <2>2 DEF TypeInv, Processes
      <3> QED BY <1>1, <1>2, <2>1, <2>2, <3>1, IdleTyped DEF TypeInv, Running
    <2>3. CASE \E step \in {"failed"} \cup Splitting : Goes("make", step)
      <3>1. PICK step \in Steps : Goes("make", step)
        BY <2>3 DEF Steps
      <3> QED BY <1>1, <1>2, <2>1, <3>1, GoesTyped DEF TypeInv, Running
    <2> QED BY <1>2, <2>2, <2>3
  <1>3. /\ disk \in [Files -> Contents \cup {None}]
        /\ newer \in [{"auto", "pending"} -> SUBSET Files]
        /\ mem \in [Processes -> Memory] /\ flags \in [Processes -> SUBSET Options]
        /\ changed \in [Processes -> BOOLEAN] /\ touched \in SUBSET Options
    BY DEF TypeInv
  <1>4. CASE Make
    <2>1. mem' \in [Processes -> Memory] /\ flags' \in [Processes -> SUBSET Options]
      BY <1>4, MakeReads, RecalculatedTyped DEF Processes
    <2>2. changed' \in [Processes -> BOOLEAN] /\ UNCHANGED <<disk, newer, touched>>
      BY <1>3, <1>4, MakeReads DEF files, Unsaved
    <2>3. CASE Unsaved(disk["config"])
      <3>1. job' = [job EXCEPT !["make"] = [at |-> "open", file |-> "config", then |-> "sync"]]
        BY <1>4, <2>3, MakeReads DEF conf_write
      <3> QED BY <1>1, <2>1, <2>2, <3>1
              DEF TypeInv, Running, Processes, Steps, Writing, Splitting, Given
    <2>4. CASE ~Unsaved(disk["config"])
      <3>1. Goes("make", "split")
        BY <1>4, <2>4, MakeReads
      <3> QED BY <1>2, <1>3, <2>1, <2>2, <3>1 DEF Splitting
    <2> QED BY <2>3, <2>4
  <1>5. CASE MakeWritten
    BY <1>2, <1>3, <1>5 DEF MakeWritten, files, process, Splitting
  <1>6. CASE MakeFails \/ MakeKilled
    <2>1. Gone("make") /\ UNCHANGED <<disk, newer, touched>>
      BY <1>6 DEF MakeFails, MakeKilled, files
    <2> QED BY <1>2, <1>3, <2>1, GoneTyped DEF Processes
  <1>7. CASE conf_split_config
    <2>1. mem' \in [Processes -> Memory] /\ flags' \in [Processes -> SUBSET Options]
      BY <1>3, <1>7, RecalculatedTyped DEF conf_split_config, Processes
    <2>2. Outdated(AutoOnDisk, mem["make"]) \subseteq Options
      BY DEF Outdated
    <2>3. touched' \in SUBSET Options /\ changed' \in [Processes -> BOOLEAN]
          /\ UNCHANGED <<disk, newer>>
      BY <1>3, <1>7, <2>2 DEF conf_split_config
    <2>4. Goes("make", "pending") \/ Goes("make", "failed")
      BY <1>7 DEF conf_split_config
    <2> QED BY <1>2, <1>3, <2>1, <2>3, <2>4 DEF Splitting
  <1>8. CASE WritePending
    <2>1. mem["make"] \in Memory
      BY DEF TypeInv, Processes
    <2>2. AutoLines(Lines(mem["make"])) \in Contents
          /\ Truncations(AutoLines(Lines(mem["make"]))) \subseteq Contents
      BY <2>1, LinesTyped, AutoTyped, TruncationsTyped
    <2>3. disk' \in [Files -> Contents \cup {None}]
      BY <1>3, <1>8, <2>2 DEF WritePending
    <2>4. newer' \in [{"auto", "pending"} -> SUBSET Files]
          /\ UNCHANGED <<mem, flags, changed, touched>>
      BY <1>3, <1>8 DEF WritePending, process
    <2>5. Goes("make", "header") \/ Goes("make", "failed")
      BY <1>8 DEF WritePending
    <2> QED BY <1>2, <1>3, <2>3, <2>4, <2>5 DEF Splitting
  <1>9. CASE MoveHeader
    <2>1. disk' \in [Files -> Contents \cup {None}]
      BY <1>3, <1>9 DEF MoveHeader, Files
    <2>2. UNCHANGED <<newer, mem, flags, changed, touched>>
      BY <1>9 DEF MoveHeader, process
    <2>3. Goes("make", "auto") \/ Goes("make", "failed")
      BY <1>9 DEF MoveHeader
    <2> QED BY <1>2, <1>3, <2>1, <2>2, <2>3 DEF Splitting
  <1>10. CASE MoveAuto
    <2>1. CASE Goes("make", "failed") /\ UNCHANGED <<process, disk, newer, touched, due>>
      BY <1>2, <1>3, <2>1 DEF process
    <2>2. CASE /\ disk' = [disk EXCEPT !["auto"] = disk["pending"], !["pending"] = None]
               /\ newer' = [newer EXCEPT !["auto"] = newer["pending"]]
               /\ touched' = {} /\ Gone("make")
      <3>1. disk' \in [Files -> Contents \cup {None}]
            /\ newer' \in [{"auto", "pending"} -> SUBSET Files]
        BY <1>3, <2>2 DEF Files
      <3> QED BY <1>2, <1>3, <2>2, <3>1, GoneTyped DEF Processes
    <2> QED BY <1>10, <2>1, <2>2 DEF MoveAuto
  <1> QED BY <1>4, <1>5, <1>6, <1>7, <1>8, <1>9, <1>10 DEF MakeStep

\* Every step is one of three kinds.
LEMMA StepIs ==
    ASSUME TypeInv, [Next]_vars
    PROVE  \/ UNCHANGED vars
           \/ SessionEffect
           \/ UNCHANGED session /\ \E p \in Processes : Writes(p)
           \/ UNCHANGED session /\ MakeStep
  BY SessionStep DEF Next, FilesNext, MakeStep

LEMMA TypeStep ==
    ASSUME TypeInv, [Next]_vars
    PROVE  TypeInv'
  <1>1. CASE UNCHANGED vars
    BY <1>1 DEF vars, fvars, session, TypeInv, Running
  <1> QED BY <1>1, StepIs, TypeSession, TypeWrites, TypeMake


-----------------------------------------------------------------------------
(* Saved.                                                                    *)

\* What waits under a temporary name is what its process has in memory; and as
\* long as there is a .config, that is where the saved values are.
SaveInv ==
    lapses \cap {"full", "spent"} = {} /\ ~situation.overwrite =>
        /\ \A p \in Processes : job[p].at \in {"keep", "move"} => disk[p] = Lines(mem[p])
        /\ saved # None =>
              disk["config"] = saved \/ (disk["config"] = None /\ disk["old"] = saved)

\* The editor's step leaves make alone, and its own job unless nothing was begun.
LEMMA SessionKeeps ==
    ASSUME TypeInv, SessionEffect
    PROVE  /\ lapses \subseteq lapses' /\ UNCHANGED <<situation, files>>
           /\ job'["make"] = job["make"] /\ mem'["make"] = mem["make"]
           /\ flags'["make"] = flags["make"]
           /\ \/ UNCHANGED <<job, mem, changed>>
              \/ job'["editor"].at = "open" /\ job["editor"].at = "idle"
                 /\ lapses' = IF Meeting("editor") THEN lapses \cup {"raced"} ELSE lapses
              \/ job'["editor"].at = "idle"
  <1> USE DEF Processes
  <1>1. UNCHANGED <<situation, files>>
    BY DEF SessionEffect
  <1>2. CASE Begun
    <2>1. PICK first, at : Start(first, at)
      BY <1>2 DEF Begun
    <2>2. \E m : Recalculated("editor", m)
      BY <2>1 DEF Start
    <2>3. job' = job /\ job["editor"].at = "idle" /\ lapses \subseteq lapses'
      BY <2>1 DEF Start, Idle
    <2> QED BY <1>1, <2>2, <2>3 DEF Recalculated, TypeInv
  <1>3. CASE Sets
    <2>1. \E m : Recalculated("editor", m)
      BY <1>3 DEF Sets
    <2> QED BY <1>1, <1>3, <2>1 DEF Sets, Recalculated, TypeInv
  <1>4. CASE Loads
    <2>1. PICK name \in Given, count \in BOOLEAN : Loaded(name, count)
      BY <1>4 DEF Loads
    <2>2. UNCHANGED <<mem, flags>> \/ \E m : Recalculated("editor", m)
      BY <2>1 DEF Loaded
    <2> QED BY <1>1, <1>4, <2>2 DEF Loads, Recalculated, TypeInv
  <1>5. CASE Begins
    <2>1. PICK name \in Given, then \in {"save", "exit"} : conf_write("editor", name, then)
      BY <1>5 DEF Begins
    <2> QED BY <1>1, <1>5, <2>1 DEF Begins, conf_write, process, TypeInv
  <1>6. CASE Returns
    BY <1>1, <1>6 DEF Returns, process, Idle, TypeInv
  <1>7. CASE Stays
    BY <1>1, <1>7 DEF Stays, process, Idle, TypeInv
  <1>8. CASE \E word \in BOOLEAN : Finishes(word)
    BY <1>1, <1>8 DEF Finishes, Ends, Gone, Recalculated, Idle, TypeInv
  <1> QED BY <1>2, <1>3, <1>4, <1>5, <1>6, <1>7, <1>8 DEF SessionEffect

LEMMA SaveWrites ==
    ASSUME TypeInv, SaveInv, NEW p \in Processes, Writes(p),
           ~situation.overwrite, lapses' \cap {"full", "spent"} = {}
    PROVE  SaveInv'
  <1>1. UNCHANGED <<situation, mem>> /\ lapses \subseteq lapses'
    BY DEF Writes, WriteOpen, WriteBody, WriteKeep, WriteMove, WriteReturns, process
  <1>2. Out(p) = p /\ job[p].file \in Given /\ p \notin {"config", "old", "alt"}
    BY DEF Out, TypeInv, Processes, Given
  <1>3. /\ \A q \in Processes : job[q].at \in {"keep", "move"} => disk[q] = Lines(mem[q])
        /\ saved # None =>
              disk["config"] = saved \/ (disk["config"] = None /\ disk["old"] = saved)
    BY <1>1 DEF SaveInv
  <1>4. ASSUME NEW step, Goes(p, step)
        PROVE  job'[p].at = step /\ \A q \in Processes \ {p} : job'[q] = job[q]
    BY <1>4 DEF Goes, TypeInv
  <1>5. ASSUME \A q \in Processes : job'[q].at \in {"keep", "move"} => disk'[q] = Lines(mem[q]),
               saved' # None =>
                  disk'["config"] = saved' \/ (disk'["config"] = None /\ disk'["old"] = saved')
        PROVE  SaveInv'
    BY <1>1, <1>5 DEF SaveInv
  <1>6. disk \in [Files -> Contents \cup {None}] /\ {"config", "old"} \subseteq Files
        /\ Processes \subseteq Files /\ Given \subseteq Files
    BY DEF TypeInv, Files, Processes, Given
  <1>7. CASE WriteOpen(p)
    <2>1. CASE Goes(p, "failed") /\ UNCHANGED files
      BY <1>3, <1>4, <1>5, <2>1 DEF files
    <2>2. CASE Goes(p, "body") /\ disk' = [disk EXCEPT ![p] = Nothing] /\ UNCHANGED saved
      <3>1. disk'["config"] = disk["config"] /\ disk'["old"] = disk["old"]
            /\ \A q \in Processes \ {p} : disk'[q] = disk[q]
        BY <1>2, <1>6, <2>2
      <3> QED BY <1>3, <1>4, <1>5, <2>2, <3>1
    <2> QED BY <1>2, <1>7, <2>1, <2>2 DEF WriteOpen
  <1>8. CASE WriteBody(p)
    <2>1. disk' = [disk EXCEPT ![p] = Lines(mem[p])]
      BY <1>2, <1>8 DEF WriteBody
    <2>2. Goes(p, "keep") /\ UNCHANGED saved
      BY <1>8 DEF WriteBody
    <2>3. /\ disk'["config"] = disk["config"] /\ disk'["old"] = disk["old"]
          /\ disk'[p] = Lines(mem[p]) /\ \A q \in Processes \ {p} : disk'[q] = disk[q]
      BY <1>2, <1>6, <2>1
    <2> QED BY <1>3, <1>4, <1>5, <2>2, <2>3
  <1>9. CASE WriteKeep(p)
    <2>1. Goes(p, "move") /\ job[p].at = "keep" /\ UNCHANGED saved
      BY <1>9 DEF WriteKeep
    <2>2. \A q \in Processes : disk'[q] = disk[q]
      BY <1>2, <1>6, <1>9 DEF WriteKeep, Processes, Given
    <2>3. \/ disk'["config"] = disk["config"] /\ disk'["old"] = disk["old"]
          \/ disk["config"] # None /\ disk'["config"] = None /\ disk'["old"] = disk["config"]
      BY <1>2, <1>6, <1>9 DEF WriteKeep, Given
    <2> QED BY <1>3, <1>4, <1>5, <2>1, <2>2, <2>3
  <1>10. CASE WriteMove(p)
    <2>1. CASE Goes(p, "failed") /\ UNCHANGED <<disk, newer, saved>>
      BY <1>3, <1>4, <1>5, <2>1
    <2>2. CASE /\ disk' = [disk EXCEPT ![job[p].file] = disk[p], ![p] = None] /\ Reported(p)
      <3>1. /\ Goes(p, "message")
            /\ saved' = IF job[p].file = "config" THEN Lines(mem[p]) ELSE saved
        BY <2>2 DEF Reported
      <3>2. /\ disk'["config"] = IF job[p].file = "config" THEN disk[p] ELSE disk["config"]
            /\ disk'["old"] = disk["old"] /\ \A q \in Processes \ {p} : disk'[q] = disk[q]
        BY <1>2, <1>6, <2>2 DEF Processes, Given
      <3>3. disk[p] = Lines(mem[p])
        BY <1>3, <1>10 DEF WriteMove
      <3> QED BY <1>3, <1>4, <1>5, <3>1, <3>2, <3>3
    <2> QED BY <1>10, <2>1, <2>2 DEF WriteMove
  <1>11. CASE WriteReturns(p)
    <2>1. Goes(p, "done") /\ UNCHANGED files
      BY <1>11 DEF WriteReturns
    <2> QED BY <1>3, <1>4, <1>5, <2>1 DEF files
  <1> QED BY <1>7, <1>8, <1>9, <1>10, <1>11 DEF Writes

\* conf touches neither .config nor .config.old, and its own steps are no writes.
LEMMA MakeKeeps ==
    ASSUME TypeInv, MakeStep
    PROVE  /\ lapses \subseteq lapses' /\ UNCHANGED <<situation, screen, saved>>
           /\ \A f \in Files \ {"auto", "header", "pending"} : disk'[f] = disk[f]
           /\ job'["editor"] = job["editor"] /\ mem'["editor"] = mem["editor"]
           /\ changed'["editor"] = changed["editor"]
           /\ job'["make"].at \notin {"body", "keep", "move", "message", "done"}
           /\ job'["make"].at = "open" /\ Running => "raced" \in lapses'
  <1> USE DEF Processes, Files
  <1>1. ASSUME Gone("make")
        PROVE  /\ job'["editor"] = job["editor"] /\ mem'["editor"] = mem["editor"]
               /\ changed'["editor"] = changed["editor"] /\ job'["make"].at = "idle"
    BY <1>1 DEF Gone, Recalculated, TypeInv, Idle
  <1>2. ASSUME NEW step, Goes("make", step)
        PROVE  job'["editor"] = job["editor"] /\ job'["make"].at = step
    BY <1>2 DEF Goes, TypeInv
  <1>3. CASE Make
    <2>1. /\ \E m : Recalculated("make", m)
          /\ changed' = [changed EXCEPT !["make"] = Unsaved(disk["config"])]
          /\ UNCHANGED <<situation, screen, files>>
      BY <1>3, MakeReads
    <2>2. \/ conf_write("make", "config", "sync")
          \/ Goes("make", "split") /\ lapses \subseteq lapses'
      BY <1>3, MakeReads
    <2>3. CASE conf_write("make", "config", "sync")
      BY <2>1, <2>3 DEF conf_write, Recalculated, TypeInv, files, Meeting, Running
    <2>4. CASE Goes("make", "split") /\ lapses \subseteq lapses'
      BY <1>2, <2>1, <2>4 DEF Recalculated, TypeInv, files
    <2> QED BY <2>2, <2>3, <2>4
  <1>4. CASE MakeWritten
    BY <1>2, <1>4 DEF MakeWritten, files, process
  <1>5. CASE MakeFails \/ MakeKilled
    BY <1>1, <1>5 DEF MakeFails, MakeKilled, files
  <1>6. CASE conf_split_config
    <2>1. Goes("make", "pending") \/ Goes("make", "failed")
      BY <1>6 DEF conf_split_config
    <2>2. mem'["editor"] = mem["editor"] /\ changed'["editor"] = changed["editor"]
      BY <1>6 DEF conf_split_config, Recalculated, TypeInv
    <2> QED BY <1>2, <1>6, <2>1, <2>2 DEF conf_split_config
  <1>7. CASE WritePending
    <2>1. Goes("make", "header") \/ Goes("make", "failed")
      BY <1>7 DEF WritePending
    <2>2. lapses \subseteq lapses'
          /\ \A f \in Files \ {"auto", "header", "pending"} : disk'[f] = disk[f]
      BY <1>7 DEF WritePending, TypeInv
    <2> QED BY <1>2, <1>7, <2>1, <2>2 DEF WritePending, process
  <1>8. CASE MoveHeader
    <2>1. Goes("make", "auto") \/ Goes("make", "failed")
      BY <1>8 DEF MoveHeader
    <2>2. \A f \in Files \ {"auto", "header", "pending"} : disk'[f] = disk[f]
      BY <1>8 DEF MoveHeader, TypeInv
    <2> QED BY <1>2, <1>8, <2>1, <2>2 DEF MoveHeader, process
  <1>9. CASE MoveAuto
    <2>1. CASE Goes("make", "failed") /\ UNCHANGED <<process, disk, newer, touched, due>>
      BY <1>2, <1>9, <2>1 DEF MoveAuto, process
    <2>2. CASE disk' = [disk EXCEPT !["auto"] = disk["pending"], !["pending"] = None]
               /\ Gone("make")
      BY <1>1, <1>9, <2>2 DEF MoveAuto, TypeInv
    <2> QED BY <1>9, <2>1, <2>2 DEF MoveAuto
  <1> QED BY <1>3, <1>4, <1>5, <1>6, <1>7, <1>8, <1>9 DEF MakeStep

LEMMA SaveStep ==
    ASSUME TypeInv, SaveInv, [Next]_vars
    PROVE  SaveInv'
  <1> USE DEF Processes
  <1>1. CASE UNCHANGED vars
    BY <1>1 DEF vars, fvars, SaveInv
  <1>2. CASE SessionEffect
    <2>1. lapses \subseteq lapses' /\ UNCHANGED <<situation, disk, saved>>
      BY <1>2, SessionKeeps DEF files
    <2>2. \A p \in Processes : job'[p].at \in {"keep", "move"} =>
             job[p].at = job'[p].at /\ mem'[p] = mem[p]
      BY <1>2, SessionKeeps
    <2> QED BY <2>1, <2>2 DEF SaveInv
  <1>3. ASSUME NEW p \in Processes, Writes(p)
        PROVE  SaveInv'
    <2>1. UNCHANGED situation
      BY <1>3 DEF Writes, WriteOpen, WriteBody, WriteKeep, WriteMove, WriteReturns
    <2>2. CASE ~situation.overwrite /\ lapses' \cap {"full", "spent"} = {}
      BY <1>3, <2>2, SaveWrites
    <2>3. CASE ~(~situation.overwrite /\ lapses' \cap {"full", "spent"} = {})
      BY <2>1, <2>3 DEF SaveInv
    <2> QED BY <2>2, <2>3
  <1>4. CASE MakeStep
    <2>1. lapses \subseteq lapses' /\ UNCHANGED <<situation, saved>>
          /\ disk'["config"] = disk["config"] /\ disk'["old"] = disk["old"]
      BY <1>4, MakeKeeps DEF Files
    <2>2. \A p \in Processes : job'[p].at \in {"keep", "move"} =>
             job[p].at = job'[p].at /\ mem'[p] = mem[p] /\ disk'[p] = disk[p]
      BY <1>4, MakeKeeps DEF Files
    <2> QED BY <2>1, <2>2 DEF SaveInv
  <1> QED BY <1>1, <1>2, <1>3, <1>4, StepIs

\* What conf_write reported to be in .config is there, or in .config.old while there
\* is no .config: whatever fails, whoever is killed, and whoever else writes.
THEOREM SavedCorrect == Spec => []Saved
  <1>1. Init => SaveInv
    BY DEF Init, FilesInit, SaveInv, Idle, Processes
  <1>2. SaveInv => Saved
    BY DEF SaveInv, Saved
  <1> QED BY <1>1, <1>2, TypeInit, TypeStep, SaveStep, PTL DEF Spec


-----------------------------------------------------------------------------
(* In step.                                                                  *)

Undisturbed == lapses \cap {"raced", "full"} = {}

\* Either the editor is at work on the files, or conf; a temporary file is newer than
\* auto.conf, so that it makes .config newer when it becomes .config.
Exclusive ==
    /\ job["make"].at # "idle" => job["editor"].at = "idle"
    /\ \A p \in Processes : job[p].at \in {"keep", "move"} => p \in newer["auto"]

\* What conf writes is what it has read, and .config with it.
ConfWrites ==
    /\ job["make"].at \in {"open", "body"} => flags["make"] = Written(mem["make"])
    /\ job["make"].at \in {"keep", "move"} => disk["make"] = Lines(mem["make"])
    /\ job["make"].at \in {"message", "done"} \cup Splitting =>
          /\ disk["config"] = Lines(mem["make"])
          /\ disk["auto"] = None \/ "config" \in newer["auto"]

\* On the way to auto.conf every option that will have changed has been touched.
ConfSplits ==
    /\ job["make"].at \in {"pending", "header", "auto"} =>
          Outdated(AutoOnDisk, mem["make"]) \subseteq touched
    /\ job["make"].at \in {"header", "auto"} =>
          disk["pending"] = AutoLines(Lines(mem["make"]))
    /\ job["make"].at = "auto" => disk["header"] = disk["pending"]
    /\ \A o \in DOMAIN AutoOnDisk : AutoOnDisk[o] # "n"
    /\ due = {}

Agree ==
    disk["config"] # None /\ disk["auto"] # None /\ "config" \notin newer["auto"] =>
        disk["auto"] = AutoLines(disk["config"]) /\ disk["header"] = disk["auto"]

StepInv == Undisturbed => Exclusive /\ ConfWrites /\ ConfSplits /\ Agree

LEMMA InStepSession ==
    ASSUME TypeInv, StepInv, SessionEffect
    PROVE  StepInv'
  <1> SUFFICES ASSUME Undisturbed'
               PROVE  Exclusive' /\ ConfWrites' /\ ConfSplits' /\ Agree'
    BY DEF StepInv
  <1> USE DEF Processes
  <1>1. /\ lapses \subseteq lapses' /\ UNCHANGED <<disk, newer, touched, due>>
        /\ job'["make"] = job["make"] /\ mem'["make"] = mem["make"]
        /\ flags'["make"] = flags["make"]
    BY SessionKeeps DEF files
  <1>2. Exclusive /\ ConfWrites /\ ConfSplits /\ Agree
    BY <1>1 DEF StepInv, Undisturbed
  <1>3. job'["editor"] = job["editor"] \/ job'["editor"].at = "idle"
        \/ (job'["editor"].at = "open" /\ job["make"].at = "idle")
    BY SessionKeeps DEF Undisturbed, Meeting
  <1>4. Exclusive'
    BY <1>1, <1>2, <1>3 DEF Exclusive
  <1>5. ConfWrites' /\ ConfSplits' /\ Agree'
    BY <1>1, <1>2 DEF ConfWrites, ConfSplits, Agree, AutoOnDisk
  <1> QED BY <1>4, <1>5

LEMMA InStepWrites ==
    ASSUME TypeInv, StepInv, NEW p \in Processes, Writes(p)
    PROVE  StepInv'
  <1> SUFFICES ASSUME Undisturbed'
               PROVE  Exclusive' /\ ConfWrites' /\ ConfSplits' /\ Agree'
    BY DEF StepInv
  <1>1. /\ lapses \subseteq lapses' /\ UNCHANGED <<situation, mem, touched, due>>
        /\ job[p].at \in Writing
    BY DEF Writes, WriteOpen, WriteBody, WriteKeep, WriteMove, WriteReturns, process, files, Writing
  <1>2. Exclusive /\ ConfWrites /\ ConfSplits /\ Agree
    BY <1>1 DEF StepInv, Undisturbed
  <1>3. ASSUME NEW step, Goes(p, step)
        PROVE  job'[p].at = step /\ \A q \in Processes \ {p} : job'[q] = job[q]
    BY <1>3 DEF Goes, TypeInv
  <1>4. \A q \in Processes \ {p} : job[q].at = "idle"
    BY <1>1, <1>2 DEF Exclusive, Processes, Writing
  <1>5. /\ disk \in [Files -> Contents \cup {None}] /\ Out(p) \in Given \cup {p}
        /\ newer \in [{"auto", "pending"} -> SUBSET Files] /\ job[p].file \in Given
        /\ p = "make" => job[p].file = "config"
        /\ p \in Files /\ Given \subseteq Files /\ {"auto", "header", "pending"} \subseteq Files
        /\ (Given \cup {p}) \cap {"auto", "header", "pending"} = {} /\ p \notin Given
    BY DEF Out, TypeInv, Files, Processes, Given
  \* In all that follows conf's own files and the other process are left alone.
  <1>6. ASSUME \A q \in Processes \ {p} : job'[q] = job[q],
               \A f \in {"auto", "header", "pending"} : disk'[f] = disk[f],
               job'[p].at \in {"keep", "move"} => p \in newer'["auto"],
               p = "make" => ConfWrites' /\ job'["make"].at \notin Splitting,
               Agree'
        PROVE  Exclusive' /\ ConfWrites' /\ ConfSplits' /\ Agree'
    <2>1. Exclusive'
      BY <1>4, <1>6 DEF Exclusive, Processes
    <2>2. job'["make"].at \notin Splitting
      BY <1>4, <1>6 DEF Processes, Splitting
    <2>3. ConfSplits'
      BY <1>1, <1>2, <1>6, <2>2 DEF ConfSplits, AutoOnDisk, Splitting
    <2>4. ConfWrites'
      BY <1>4, <1>6 DEF ConfWrites, Processes, Splitting
    <2> QED BY <1>6, <2>1, <2>3, <2>4
  <1>7. CASE WriteOpen(p)
    <2>1. CASE Goes(p, "failed") /\ UNCHANGED files
      <3>1. Agree'
        BY <1>2, <2>1 DEF Agree, files
      <3> QED BY <1>3, <1>6, <2>1, <3>1 DEF files, ConfWrites, Splitting
    <2>2. CASE /\ Goes(p, "body")
               /\ disk' = [disk EXCEPT ![Out(p)] = Nothing]
               /\ newer' = [r \in DOMAIN newer |-> newer[r] \cup {Out(p)}]
      <3>1. Agree' /\ \A f \in {"auto", "header", "pending"} : disk'[f] = disk[f]
        BY <1>2, <1>5, <2>2 DEF Agree
      <3>2. p = "make" => flags'["make"] = Written(mem'["make"])
        BY <1>1, <1>2, <1>7 DEF WriteOpen, ConfWrites, process
      <3> QED BY <1>3, <1>6, <2>2, <3>1, <3>2 DEF ConfWrites, Splitting
    <2> QED BY <1>7, <2>1, <2>2 DEF WriteOpen
  <1>8. CASE WriteBody(p)
    <2>1. disk' = [disk EXCEPT ![Out(p)] = Body(p)]
      BY <1>8 DEF WriteBody, Undisturbed
    <2>2. newer' = [r \in DOMAIN newer |-> newer[r] \cup {Out(p)}]
          /\ job[p].at = "body"
      BY <1>8 DEF WriteBody
    <2>3. Agree' /\ \A f \in {"auto", "header", "pending"} : disk'[f] = disk[f]
      BY <1>2, <1>5, <2>1, <2>2 DEF Agree
    <2>4. p = "make" => Body(p) = Lines(mem[p])
      BY <1>2, <2>2 DEF ConfWrites, Body, Lines
    <2>5. CASE situation.overwrite
      <3>1. Goes(p, "message") /\ Out(p) = job[p].file
        BY <1>8, <2>5 DEF WriteBody, Reported, Out
      <3>2. p = "make" => disk'["config"] = Lines(mem'["make"]) /\ "config" \in newer'["auto"]
        BY <1>1, <1>5, <2>1, <2>2, <2>4, <3>1
      <3> QED BY <1>3, <1>6, <2>3, <3>1, <3>2 DEF ConfWrites, Splitting
    <2>6. CASE ~situation.overwrite
      <3>1. Goes(p, "keep") /\ Out(p) = p
        BY <1>8, <2>6 DEF WriteBody, Out
      <3>2. p \in newer'["auto"] /\ (p = "make" => disk'["make"] = Lines(mem'["make"]))
        BY <1>1, <1>5, <2>1, <2>2, <2>4, <3>1
      <3> QED BY <1>3, <1>6, <2>3, <3>1, <3>2 DEF ConfWrites, Splitting
    <2> QED BY <2>5, <2>6
  <1>9. CASE WriteKeep(p)
    <2>1. Goes(p, "move") /\ job[p].at = "keep"
      BY <1>9 DEF WriteKeep
    <2>2. \A f \in {"auto", "header", "pending", p} : disk'[f] = disk[f]
      BY <1>5, <1>9 DEF WriteKeep, Processes, Given
    <2>3. p \in newer'["auto"]
      BY <1>2, <1>5, <1>9, <2>1 DEF WriteKeep, Exclusive
    <2>4. Agree'
      <3>1. CASE job[p].file = "config" /\ disk'["config"] = None
        BY <3>1 DEF Agree
      <3>2. CASE job[p].file # "config" \/ disk'["config"] # None
        <4>1. disk'["config"] = disk["config"]
              /\ ("config" \in newer'["auto"] <=> "config" \in newer["auto"])
          BY <1>5, <1>9, <3>2 DEF WriteKeep, Given, Files
        <4> QED BY <1>2, <2>2, <4>1 DEF Agree
      <3> QED BY <1>5, <3>1, <3>2
    <2>5. p = "make" => disk'["make"] = Lines(mem'["make"])
      BY <1>1, <1>2, <2>1, <2>2 DEF ConfWrites
    <2> QED BY <1>3, <1>6, <2>1, <2>2, <2>3, <2>4, <2>5 DEF ConfWrites, Splitting
  <1>10. CASE WriteMove(p)
    <2>1. CASE Goes(p, "failed") /\ UNCHANGED <<disk, newer, saved>>
      <3>1. Agree'
        BY <1>2, <2>1 DEF Agree
      <3> QED BY <1>3, <1>6, <2>1, <3>1 DEF ConfWrites, Splitting
    <2>2. CASE /\ disk' = [disk EXCEPT ![job[p].file] = disk[p], ![p] = None]
               /\ newer' = [r \in DOMAIN newer |->
                               IF p \in newer[r] THEN (newer[r] \ {p}) \cup {job[p].file}
                                                 ELSE newer[r] \ {job[p].file}]
               /\ Goes(p, "message")
      <3>1. p \in newer["auto"] /\ job[p].at = "move"
        BY <1>2, <1>10 DEF WriteMove, Exclusive
      <3>2. newer'["auto"] = (newer["auto"] \ {p}) \cup {job[p].file}
        BY <1>5, <2>2, <3>1
      <3>3. \A f \in {"auto", "header", "pending"} : disk'[f] = disk[f]
        BY <1>5, <2>2
      <3>4. disk'[job[p].file] = disk[p]
        BY <1>5, <2>2
      <3>5. Agree'
        <4>1. CASE job[p].file = "config"
          BY <3>2, <4>1 DEF Agree
        <4>2. CASE job[p].file # "config"
          <5>1. disk'["config"] = disk["config"] /\ p # "config"
            BY <1>5, <2>2, <4>2 DEF Given
          <5> QED BY <1>2, <3>2, <3>3, <4>2, <5>1 DEF Agree
        <4> QED BY <4>1, <4>2
      <3>6. p = "make" => disk'["config"] = Lines(mem'["make"]) /\ "config" \in newer'["auto"]
        BY <1>1, <1>2, <1>5, <3>1, <3>2, <3>4 DEF ConfWrites
      <3> QED BY <1>3, <1>6, <2>2, <3>3, <3>5, <3>6 DEF ConfWrites, Splitting
    <2> QED BY <1>10, <2>1, <2>2 DEF WriteMove, Reported
  <1>11. CASE WriteReturns(p)
    <2>1. Goes(p, "done") /\ job[p].at = "message" /\ UNCHANGED files
      BY <1>11 DEF WriteReturns
    <2>2. Agree' /\ (p = "make" => ConfWrites')
      BY <1>1, <1>2, <1>3, <2>1 DEF Agree, ConfWrites, files, Splitting
    <2> QED BY <1>3, <1>6, <2>1, <2>2 DEF files, Splitting
  <1> QED BY <1>7, <1>8, <1>9, <1>10, <1>11 DEF Writes


\* An option whose <option>.h conf_split_config leaves alone has the same line, or
\* none, in the old auto.conf and in the new one.
LEMMA OutdatedCovers ==
    ASSUME NEW old \in Contents, \A o \in DOMAIN old : old[o] # "n", NEW m \in Memory,
           NEW o \in DOMAIN old \cup DOMAIN AutoLines(Lines(m)), o \notin Outdated(old, m)
    PROVE  /\ o \in DOMAIN old /\ o \in DOMAIN AutoLines(Lines(m))
           /\ old[o] = AutoLines(Lines(m))[o]
  <1> DEFINE new == AutoLines(Lines(m))
  <1>1. /\ DOMAIN new = {e \in Written(m) : m[e] # "n"}
        /\ \A e \in DOMAIN new : new[e] = m[e]
    BY DEF AutoLines, Lines, Restrict
  <1>2. DOMAIN old \subseteq Options /\ Written(m) \subseteq Options
    BY ContentsAre, LinesTyped
  <1> QED BY <1>1, <1>2 DEF Outdated

LEMMA InStepMake ==
    ASSUME TypeInv, StepInv, MakeStep
    PROVE  StepInv'
  <1> SUFFICES ASSUME Undisturbed'
               PROVE  Exclusive' /\ ConfWrites' /\ ConfSplits' /\ Agree'
    BY DEF StepInv
  <1>1. /\ lapses \subseteq lapses' /\ disk'["config"] = disk["config"]
        /\ job'["editor"] = job["editor"]
        /\ job'["make"].at \notin {"body", "keep", "move", "message", "done"}
    BY MakeKeeps DEF Files
  <1>2. Exclusive /\ ConfWrites /\ ConfSplits /\ Agree
    BY <1>1 DEF StepInv, Undisturbed
  <1>3. ASSUME NEW step, Goes("make", step)
        PROVE  job'["make"].at = step
    BY <1>3 DEF Goes, TypeInv, Processes
  <1>4. ASSUME NEW m, Recalculated("make", m)
        PROVE  mem'["make"] = m /\ flags'["make"] = Written(m)
    BY <1>4 DEF Recalculated, TypeInv, Processes
  <1>5. ASSUME Gone("make")
        PROVE  job'["make"].at = "idle"
    BY <1>5 DEF Gone, Idle, TypeInv, Processes
  <1>6. /\ disk \in [Files -> Contents \cup {None}]
        /\ {"auto", "header", "pending", "editor", "make"} \subseteq Files
        /\ disk["config"] \in Contents \cup {None}
        /\ mem["make"] \in Memory
    BY DEF TypeInv, Files, Processes
  \* The editor has nothing to do with the files, unless this step leaves conf idle.
  <1>7. ASSUME job'["make"].at = "idle" \/ job["editor"].at = "idle",
               newer'["auto"] = newer["auto"]
        PROVE  Exclusive'
    BY <1>1, <1>2, <1>7 DEF Exclusive, Processes
  <1>8. job["make"].at # "idle" => job["editor"].at = "idle"
    BY <1>2 DEF Exclusive
  <1>9. CASE Make
    <2>1. PICK m \in Memory : /\ Recalculated("make", m)
                              /\ ~Unsaved(disk["config"]) => m = Read(disk["config"])
      BY <1>9, MakeReads
    <2>2. disk["config"] \in Contents /\ UNCHANGED <<disk, newer, touched, due>>
          /\ job["make"].at = "idle"
      BY <1>9, MakeReads DEF files
    <2>3. Agree' /\ \A o \in DOMAIN AutoOnDisk' : AutoOnDisk'[o] # "n"
      BY <1>2, <2>2 DEF Agree, AutoOnDisk, ConfSplits
    <2>4. due' = {}
      BY <1>2, <2>2 DEF ConfSplits
    <2>5. CASE Unsaved(disk["config"])
      <3>1. conf_write("make", "config", "sync")
        BY <1>9, <2>5, MakeReads
      <3>2. job'["make"].at = "open"
        BY <3>1 DEF conf_write, TypeInv, Processes
      <3>3. job["editor"].at = "idle"
        BY <3>1 DEF conf_write, Meeting, Processes, Undisturbed
      <3>4. Exclusive'
        BY <1>7, <2>2, <3>3
      <3>5. ConfWrites' /\ ConfSplits'
        BY <1>4, <2>1, <2>3, <2>4, <3>2 DEF ConfWrites, ConfSplits, Splitting
      <3> QED BY <2>3, <3>4, <3>5
    <2>6. CASE ~Unsaved(disk["config"])
      <3>1. Goes("make", "split") /\ job["editor"].at = "idle"
        BY <1>9, <2>6, MakeReads DEF Undisturbed
      <3>2. disk["auto"] = None \/ "config" \in newer["auto"]
        BY <1>9 DEF Make
      <3>3. disk["config"] = Lines(m)
        BY <2>1, <2>2, <2>6, LinesRead
      <3>4. Exclusive'
        BY <1>7, <2>2, <3>1
      <3>5. ConfWrites'
        BY <1>3, <1>4, <2>1, <2>2, <3>1, <3>2, <3>3 DEF ConfWrites
      <3>6. ConfSplits'
        BY <1>3, <2>3, <2>4, <3>1 DEF ConfSplits
      <3> QED BY <2>3, <3>4, <3>5, <3>6
    <2> QED BY <2>5, <2>6
  <1>10. CASE MakeWritten
    <2>1. job["make"].at = "done" /\ job'["make"].at = "split"
          /\ UNCHANGED <<disk, newer, touched, due, mem, flags>>
      BY <1>3, <1>10 DEF MakeWritten, files, process
    <2>2. Exclusive' /\ Agree'
      BY <1>2, <1>7, <1>8, <2>1 DEF Agree
    <2>3. ConfWrites' /\ ConfSplits'
      BY <1>2, <2>1 DEF ConfWrites, ConfSplits, AutoOnDisk
    <2> QED BY <2>2, <2>3
  \* conf ends, and its files stay as they are,
  <1>11. ASSUME job'["make"].at \in {"idle", "failed"}, job["make"].at # "idle",
                newer'["auto"] = newer["auto"], UNCHANGED due,
                \A f \in {"auto", "header"} : disk'[f] = disk[f]
         PROVE  Exclusive' /\ ConfWrites' /\ ConfSplits' /\ Agree'
    <2>1. Exclusive' /\ Agree'
      BY <1>1, <1>2, <1>7, <1>8, <1>11 DEF Agree
    <2>2. ConfWrites' /\ ConfSplits'
      BY <1>2, <1>11 DEF ConfWrites, ConfSplits, AutoOnDisk, Splitting
    <2> QED BY <2>1, <2>2
  \* or goes on to the next, the values and auto.conf being the same.
  <1>12. ASSUME job["make"].at \in Splitting, job'["make"].at \in Splitting,
                newer'["auto"] = newer["auto"], UNCHANGED due,
                disk'["auto"] = disk["auto"], mem'["make"] = mem["make"],
                Outdated(AutoOnDisk, mem["make"]) \subseteq touched',
                job'["make"].at \in {"header", "auto"} =>
                    disk'["pending"] = AutoLines(Lines(mem["make"])),
                job'["make"].at = "auto" => disk'["header"] = disk'["pending"]
         PROVE  Exclusive' /\ ConfWrites' /\ ConfSplits' /\ Agree'
    <2>1. Exclusive'
      BY <1>7, <1>8, <1>12 DEF Splitting
    <2>2. ConfWrites' /\ Agree'
      BY <1>1, <1>2, <1>12 DEF ConfWrites, Agree, Splitting
    <2>3. ConfSplits'
      BY <1>2, <1>12 DEF ConfSplits, AutoOnDisk
    <2> QED BY <2>1, <2>2, <2>3
  <1>13. CASE MakeFails \/ MakeKilled
    BY <1>5, <1>11, <1>13 DEF MakeFails, MakeKilled, files
  <1>14. CASE conf_split_config
    <2>1. /\ job["make"].at = "split" /\ UNCHANGED <<disk, newer, due>>
          /\ mem'["make"] = mem["make"]
      BY <1>4, <1>14 DEF conf_split_config
    <2>2. CASE Goes("make", "failed")
      BY <1>3, <1>11, <2>1, <2>2
    <2>3. CASE Goes("make", "pending")
               /\ touched' = touched \cup Outdated(AutoOnDisk, mem["make"])
      BY <1>3, <1>12, <2>1, <2>3 DEF Splitting
    <2> QED BY <1>14, <2>2, <2>3 DEF conf_split_config
  <1>15. CASE WritePending
    <2>1. /\ job["make"].at = "pending" /\ newer'["auto"] = newer["auto"]
          /\ UNCHANGED <<mem, touched, due>>
      BY <1>15 DEF WritePending, process, TypeInv
    <2>2. Outdated(AutoOnDisk, mem["make"]) \subseteq touched
      BY <1>2, <2>1 DEF ConfSplits
    <2>3. CASE Goes("make", "failed") /\ UNCHANGED disk
      BY <1>3, <1>11, <2>1, <2>3
    <2>4. CASE /\ disk' = [disk EXCEPT !["pending"] = AutoLines(Lines(mem["make"]))]
               /\ Goes("make", "header")
      <3>1. disk'["auto"] = disk["auto"] /\ disk'["pending"] = AutoLines(Lines(mem["make"]))
        BY <1>6, <2>4
      <3> QED BY <1>3, <1>12, <2>1, <2>2, <2>4, <3>1 DEF Splitting
    <2> QED BY <1>15, <2>3, <2>4 DEF WritePending, Undisturbed
  <1>16. CASE MoveHeader
    <2>1. job["make"].at = "header" /\ UNCHANGED <<newer, mem, touched, due>>
      BY <1>16 DEF MoveHeader, process
    <2>2. /\ Outdated(AutoOnDisk, mem["make"]) \subseteq touched
          /\ disk["pending"] = AutoLines(Lines(mem["make"]))
      BY <1>2, <2>1 DEF ConfSplits
    <2>3. CASE Goes("make", "failed") /\ UNCHANGED disk
      BY <1>3, <1>11, <2>1, <2>3
    <2>4. CASE disk' = [disk EXCEPT !["header"] = disk["pending"]] /\ Goes("make", "auto")
      <3>1. /\ disk'["auto"] = disk["auto"] /\ disk'["pending"] = disk["pending"]
            /\ disk'["header"] = disk["pending"]
        BY <1>6, <2>4
      <3> QED BY <1>3, <1>12, <2>1, <2>2, <2>4, <3>1 DEF Splitting
    <2> QED BY <1>16, <2>3, <2>4 DEF MoveHeader
  <1>17. CASE MoveAuto
    <2>1. job["make"].at = "auto"
      BY <1>17 DEF MoveAuto
    <2>2. CASE Goes("make", "failed") /\ UNCHANGED <<process, disk, newer, touched, due>>
      BY <1>3, <1>11, <2>1, <2>2
    <2>3. CASE /\ disk' = [disk EXCEPT !["auto"] = disk["pending"], !["pending"] = None]
               /\ due' = due \cup
                    {o \in (DOMAIN AutoOnDisk \cup DOMAIN disk["pending"]) \ touched :
                        ~(/\ o \in DOMAIN AutoOnDisk /\ o \in DOMAIN disk["pending"]
                          /\ AutoOnDisk[o] = disk["pending"][o])}
               /\ Gone("make")
      <3>1. /\ Outdated(AutoOnDisk, mem["make"]) \subseteq touched
            /\ disk["pending"] = AutoLines(Lines(mem["make"]))
            /\ disk["header"] = disk["pending"] /\ disk["config"] = Lines(mem["make"])
            /\ \A o \in DOMAIN AutoOnDisk : AutoOnDisk[o] # "n"
            /\ due = {} /\ job["editor"].at = "idle"
        BY <1>2, <2>1 DEF ConfSplits, ConfWrites, Splitting, Exclusive
      <3>2. /\ disk["pending"] \in Contents
            /\ \A o \in DOMAIN disk["pending"] : disk["pending"][o] # "n"
        BY <1>6, <3>1, LinesTyped, AutoTyped
      <3>3. AutoOnDisk \in Contents
        BY <1>6, NothingTyped DEF AutoOnDisk
      <3>4. due' = {}
        BY <1>6, <2>3, <3>1, <3>3, OutdatedCovers
      <3>5. disk'["auto"] = disk["pending"] /\ disk'["header"] = disk["header"]
        BY <1>6, <2>3
      <3>6. AutoOnDisk' = disk["pending"]
        BY <3>2, <3>5, FilesAssumption DEF AutoOnDisk
      <3>7. job'["make"].at = "idle"
        BY <1>5, <2>3
      <3>8. Exclusive'
        BY <1>1, <3>1, <3>7 DEF Exclusive, Processes
      <3>9. ConfWrites' /\ ConfSplits'
        BY <3>2, <3>4, <3>6, <3>7 DEF ConfWrites, ConfSplits, Splitting
      <3>10. Agree'
        BY <1>1, <3>1, <3>5 DEF Agree
      <3> QED BY <3>8, <3>9, <3>10
    <2> QED BY <1>17, <2>2, <2>3 DEF MoveAuto
  <1> QED BY <1>9, <1>10, <1>13, <1>14, <1>15, <1>16, <1>17 DEF MakeStep

\* While .config is older than auto.conf, auto.conf and autoconf.h say what it says,
\* and every option that ever changed in auto.conf has had its <option>.h touched.
THEOREM InStepCorrect == Spec => []InStep
  <1>1. Init => StepInv
    BY FilesAssumption
       DEF Init, FilesInit, StepInv, Exclusive, ConfWrites, ConfSplits, Agree, AutoOnDisk,
           Nothing, Idle, Processes, Splitting, Files
  <1>2. TypeInv /\ StepInv /\ [Next]_vars => StepInv'
    <2> SUFFICES ASSUME TypeInv, StepInv, [Next]_vars PROVE StepInv'
      OBVIOUS
    <2>1. CASE UNCHANGED vars
      BY <2>1 DEF vars, fvars, StepInv, Undisturbed, Exclusive, ConfWrites, ConfSplits, Agree,
                  AutoOnDisk
    <2> QED BY <2>1, StepIs, InStepSession, InStepWrites, InStepMake
  <1>3. StepInv => InStep
    BY DEF StepInv, Undisturbed, Agree, ConfSplits, InStep
  <1> QED BY <1>1, <1>2, <1>3, TypeInit, TypeStep, PTL DEF Spec


-----------------------------------------------------------------------------
(* Nothing lost.                                                             *)

\* A session in which nothing went wrong that its program did not see.
Quiet == Running /\ ~Overtaken /\ lapses = {} /\ slips = {}

\* With nothing marked as changed, the file the user works on has what he sees, but
\* for the moment that conf_write is at work on it.
LostInv ==
    Quiet =>
        /\ job["make"].at \notin Writing
        /\ job["editor"].at \in {"keep", "move"} => disk["editor"] = Lines(mem["editor"])
        /\ job["editor"].at \in {"keep", "move", "message"} => changed["editor"]
        /\ job["editor"].at \in {"message", "done"} => disk[job["editor"].file] = Lines(mem["editor"])
        /\ /\ ~changed["editor"] /\ job["editor"].at # "done"
           /\ ~(situation.overwrite /\ job["editor"].at = "body")
           => disk[Target] = Lines(mem["editor"])
        /\ job["editor"].at # "idle" /\ job["editor"].then = "exit" =>
              job["editor"].file = Target

LEMMA LostSession ==
    ASSUME TypeInv, LostInv, SessionEffect
    PROVE  LostInv'
  <1> SUFFICES ASSUME Quiet' PROVE LostInv'
    BY DEF LostInv
  <1> USE DEF Processes
  <1>1. /\ lapses = {} /\ ~Overtaken /\ UNCHANGED <<situation, disk>>
        /\ job'["make"] = job["make"]
    BY SessionKeeps DEF Quiet, Overtaken, files
  <1>2. filename' = filename => Target' = Target
    BY <1>1 DEF Target, Program
  \* After a step that leaves the editor without a job.
  <1>3. ASSUME job'["editor"].at = "idle", job["make"].at \notin Writing,
               ~changed'["editor"] => disk[Target'] = Lines(mem'["editor"])
        PROVE  LostInv'
    BY <1>1, <1>3 DEF LostInv
  <1>4. CASE Begun
    <2>1. PICK first, at : Start(first, at)
      BY <1>4 DEF Begun
    <2>2. job' = job /\ job["editor"].at = "idle" /\ filename' = "config"
      BY <2>1 DEF Start, Idle
    <2>3. job["make"].at = "idle"
      BY <2>1 DEF Start, Quiet
    <2>4. Target' = "config"
      BY <2>2 DEF Target
    <2>5. ASSUME ~changed'["editor"]
          PROVE  disk["config"] = Lines(mem'["editor"])
      <3>1. disk["config"] # None /\ ~Unsaved(disk["config"])
        BY <2>1, <2>5 DEF Start, TypeInv
      <3>2. mem'["editor"] = Read(disk["config"]) /\ disk["config"] \in Contents
        BY <2>1, <3>1 DEF Start, Recalculated, TypeInv, Files
      <3> QED BY <3>1, <3>2, LinesRead
    <2> QED BY <1>3, <2>2, <2>3, <2>4, <2>5 DEF Writing
  <1>5. ASSUME Running, slips = {}
        PROVE  Quiet
    BY <1>1, <1>5 DEF Quiet
  <1>6. CASE Sets
    <2>1. Quiet
      BY <1>5, <1>6 DEF Sets, Quiet
    <2>2. job["make"].at \notin Writing /\ changed'["editor"]
      BY <1>6, <2>1 DEF LostInv, Sets, TypeInv
    <2> QED BY <1>3, <1>6, <2>2 DEF Sets
  <1>7. CASE Loads
    <2>1. PICK name \in Given, count \in BOOLEAN :
              /\ Loaded(name, count)
              /\ IF disk[name] # None /\ Text THEN count /\ filename' \in Given
                 ELSE UNCHANGED filename
      BY <1>7 DEF Loads
    <2>2. Running /\ job["editor"].at = "idle" /\ UNCHANGED job
      BY <1>7 DEF Loads
    <2>3. slips = {}
      BY <2>1 DEF Loaded, Quiet
    <2>4. job["make"].at \notin Writing
          /\ (~changed["editor"] => disk[Target] = Lines(mem["editor"]))
      BY <1>5, <2>2, <2>3 DEF LostInv
    <2>5. ASSUME ~changed'["editor"]
          PROVE  disk[Target'] = Lines(mem'["editor"])
      <3>1. CASE disk[name] = None
        <4>1. UNCHANGED <<mem, filename>> /\ (changed["editor"] => slips' # {})
          BY <2>1, <3>1 DEF Loaded
        <4> QED BY <1>2, <2>4, <4>1 DEF Quiet
      <3>2. CASE disk[name] # None
        <4>1. /\ Recalculated("editor", Read(disk[name]))
              /\ ~count /\ ~Unsaved(disk[name])
          BY <2>1, <2>5, <3>2 DEF Loaded, TypeInv
        <4>2. name = "config"
          BY <2>1, <3>2, <4>1 DEF Loaded, Quiet
        <4>3. Target' = "config"
          BY <1>1, <2>1, <3>2, <4>1 DEF Target, Text, Mconf, Nconf, Program
        <4>4. mem'["editor"] = Read(disk["config"]) /\ disk["config"] \in Contents
          BY <3>2, <4>1, <4>2 DEF Recalculated, TypeInv, Files
        <4> QED BY <4>1, <4>2, <4>3, <4>4, LinesRead
      <3> QED BY <3>1, <3>2
    <2> QED BY <1>3, <2>2, <2>4, <2>5
  <1>8. CASE Begins
    <2>1. PICK name \in Given, then \in {"save", "exit"} :
              conf_write("editor", name, then) /\ (then = "exit" => name = Target)
      BY <1>8 DEF Begins
    <2>2. Running /\ job["editor"].at = "idle" /\ UNCHANGED <<mem, changed, filename, slips>>
      BY <1>8 DEF Begins, process
    <2>3. job'["editor"] = [at |-> "open", file |-> name, then |-> then]
      BY <2>1 DEF conf_write, TypeInv
    <2>4. Quiet
      BY <1>5, <2>2 DEF Quiet
    <2> QED BY <1>1, <1>2, <2>1, <2>2, <2>3, <2>4 DEF LostInv
  <1>9. CASE Returns
    <2>1. /\ job["editor"].at \in {"done", "failed"} /\ UNCHANGED <<mem, changed>>
          /\ slips = {} /\ (~Failed => Target' = job["editor"].file)
          /\ Failed => UNCHANGED filename
      BY <1>9 DEF Returns, process, Quiet
    <2>2. Running /\ job'["editor"].at = "idle"
      BY <1>9, <2>1 DEF TypeInv, Returns, Idle
    <2>3. /\ job["make"].at \notin Writing
          /\ job["editor"].at = "done" => disk[job["editor"].file] = Lines(mem["editor"])
          /\ job["editor"].at = "failed" /\ ~changed["editor"] =>
                disk[Target] = Lines(mem["editor"])
      BY <1>5, <2>1, <2>2 DEF LostInv
    <2> QED BY <1>2, <1>3, <2>1, <2>2, <2>3 DEF Failed
  <1>10. CASE Stays
    <2>1. UNCHANGED <<mem, changed, filename, slips>> /\ Quiet
      BY <1>5, <1>10 DEF Stays, process, Quiet
    <2>2. CASE UNCHANGED job
      BY <1>1, <1>2, <2>1, <2>2 DEF LostInv
    <2>3. CASE /\ job["editor"].at = "failed" \/ (changed["editor"] /\ job["editor"].at # "done")
               /\ job' = [job EXCEPT !["editor"] = Idle]
      <3>1. job'["editor"].at = "idle"
        BY <2>3 DEF Idle, TypeInv
      <3>2. job["make"].at \notin Writing
            /\ (~changed["editor"] => disk[Target] = Lines(mem["editor"]))
        BY <2>1, <2>3 DEF LostInv
      <3> QED BY <1>2, <1>3, <2>1, <3>1, <3>2
    <2> QED BY <1>10, <2>2, <2>3 DEF Stays
  <1>11. ~ \E word \in BOOLEAN : Finishes(word)
    BY DEF Finishes, Ends, Quiet, Running
  <1> QED BY <1>4, <1>6, <1>7, <1>8, <1>9, <1>10, <1>11 DEF SessionEffect


LEMMA LostWrites ==
    ASSUME TypeInv, LostInv, NEW p \in Processes, Writes(p), UNCHANGED session
    PROVE  LostInv'
  <1> SUFFICES ASSUME Quiet' PROVE LostInv'
    BY DEF LostInv
  <1> USE DEF Processes
  <1>1. /\ lapses \subseteq lapses' /\ UNCHANGED <<situation, screen, mem, filename, slips>>
        /\ job[p].at \in Writing
    BY DEF Writes, WriteOpen, WriteBody, WriteKeep, WriteMove, WriteReturns, process, session, Writing
  <1>2. Quiet /\ Target' = Target
    BY <1>1 DEF Quiet, Running, Overtaken, Target, Program
  <1>3. p = "editor"
    BY <1>1, <1>2 DEF LostInv
  <1>4. ASSUME NEW step, Goes(p, step)
        PROVE  /\ job'["editor"].at = step /\ job'["editor"].file = job["editor"].file
               /\ job'["editor"].then = job["editor"].then /\ job'["make"] = job["make"]
    BY <1>3, <1>4 DEF Goes, TypeInv
  <1>5. /\ disk \in [Files -> Contents \cup {None}] /\ {Target, job["editor"].file} \subseteq Given
        /\ {"config", "alt", "editor"} \subseteq Files
        /\ Out(p) = IF situation.overwrite THEN job["editor"].file ELSE "editor"
    BY <1>3 DEF Out, TypeInv, Files, Given, Target
  <1>6. /\ job["make"].at \notin Writing
        /\ job["editor"].then = "exit" => job["editor"].file = Target
    BY <1>1, <1>2, <1>3 DEF LostInv, Writing
  \* Its name and its purpose stay.
  <1>7. ASSUME NEW step \in {"body", "keep", "move", "message", "done", "failed"}, Goes(p, step),
               step \in {"keep", "move"} => disk'["editor"] = Lines(mem["editor"]),
               step \in {"keep", "move", "message"} => changed'["editor"],
               step \in {"message", "done"} => disk'[job["editor"].file] = Lines(mem["editor"]),
               /\ ~changed'["editor"] /\ step # "done" /\ ~(situation.overwrite /\ step = "body")
               => disk'[Target] = Lines(mem["editor"])
        PROVE  LostInv'
    BY <1>1, <1>2, <1>4, <1>6, <1>7 DEF LostInv
  <1>8. CASE WriteOpen(p)
    <2>1. UNCHANGED changed
          /\ (~changed["editor"] => disk[Target] = Lines(mem["editor"]))
      BY <1>2, <1>3, <1>8 DEF WriteOpen, process, LostInv
    <2>2. CASE Goes(p, "failed") /\ UNCHANGED files
      BY <1>7, <2>1, <2>2 DEF files
    <2>3. CASE Goes(p, "body") /\ disk' = [disk EXCEPT ![Out(p)] = Nothing]
      <3>1. ~situation.overwrite => disk'[Target] = disk[Target]
        BY <1>5, <2>3 DEF Given
      <3> QED BY <1>7, <2>1, <2>3, <3>1
    <2> QED BY <1>8, <2>2, <2>3 DEF WriteOpen
  <1>9. CASE WriteBody(p)
    <2>1. lapses' = {}
      BY DEF Quiet
    <2>2. disk' = [disk EXCEPT ![Out(p)] = Lines(mem["editor"])]
      BY <1>3, <1>9, <2>1 DEF WriteBody
    <2>3. disk'[Out(p)] = Lines(mem["editor"])
      BY <1>5, <2>2 DEF Given
    <2>4. changed'["editor"]
      BY <1>3, <1>9 DEF WriteBody, TypeInv
    <2>5. CASE situation.overwrite
      BY <1>5, <1>7, <1>9, <2>3, <2>4, <2>5 DEF WriteBody, Reported
    <2>6. CASE ~situation.overwrite
      BY <1>5, <1>7, <1>9, <2>3, <2>4, <2>6 DEF WriteBody
    <2> QED BY <2>5, <2>6
  <1>10. CASE WriteKeep(p)
    <2>1. Goes(p, "move") /\ UNCHANGED changed
          /\ changed["editor"] /\ disk["editor"] = Lines(mem["editor"])
      BY <1>2, <1>3, <1>10 DEF WriteKeep, process, LostInv
    <2>2. disk'["editor"] = disk["editor"]
      BY <1>3, <1>5, <1>10 DEF WriteKeep, Given
    <2> QED BY <1>7, <2>1, <2>2
  <1>11. CASE WriteMove(p)
    <2>1. changed["editor"] /\ disk["editor"] = Lines(mem["editor"])
      BY <1>2, <1>3, <1>11 DEF WriteMove, LostInv
    <2>2. CASE Goes(p, "failed") /\ UNCHANGED changed
      BY <1>7, <2>1, <2>2
    <2>3. CASE /\ disk' = [disk EXCEPT ![job[p].file] = disk[p], ![p] = None]
               /\ Goes(p, "message") /\ UNCHANGED changed
      <3>1. disk'[job["editor"].file] = Lines(mem["editor"])
        BY <1>3, <1>5, <2>1, <2>3 DEF Given
      <3> QED BY <1>7, <2>1, <2>3, <3>1
    <2> QED BY <1>11, <2>2, <2>3 DEF WriteMove, Reported, process
  <1>12. CASE WriteReturns(p)
    <2>1. Goes(p, "done") /\ job["editor"].at = "message" /\ UNCHANGED files
      BY <1>3, <1>12 DEF WriteReturns
    <2>2. disk'[job["editor"].file] = Lines(mem["editor"])
      BY <1>2, <2>1 DEF LostInv, files
    <2> QED BY <1>7, <2>1, <2>2
  <1> QED BY <1>8, <1>9, <1>10, <1>11, <1>12 DEF Writes

LEMMA LostMake ==
    ASSUME TypeInv, LostInv, MakeStep, UNCHANGED session
    PROVE  LostInv'
  <1> SUFFICES ASSUME Quiet' PROVE LostInv'
    BY DEF LostInv
  <1>1. /\ lapses \subseteq lapses' /\ UNCHANGED <<situation, screen>>
        /\ \A f \in Files \ {"auto", "header", "pending"} : disk'[f] = disk[f]
        /\ job'["editor"] = job["editor"] /\ mem'["editor"] = mem["editor"]
        /\ changed'["editor"] = changed["editor"]
        /\ job'["make"].at \notin {"body", "keep", "move", "message", "done"}
        /\ job'["make"].at = "open" /\ Running => "raced" \in lapses'
    BY MakeKeeps
  <1>2. Quiet /\ Target' = Target /\ job'["make"].at # "open"
    BY <1>1 DEF Quiet, Running, Overtaken, Target, Program, session
  <1>3. {Target, job["editor"].file, "editor"} \subseteq Files \ {"auto", "header", "pending"}
    BY DEF TypeInv, Target, Given, Files, Processes
  <1>4. /\ disk'["editor"] = disk["editor"] /\ disk'[Target] = disk[Target]
        /\ disk'[job["editor"].file] = disk[job["editor"].file]
    BY <1>1, <1>3
  <1> QED BY <1>1, <1>2, <1>4 DEF LostInv, Writing

\* An editor that ends without a word about changes leaves what its user sees in the
\* file he works on, but for the slips of its program that the model names.
THEOREM NothingLostCorrect == Spec => NothingLost
  <1> DEFINE Lost ==
        /\ screen # "ended" /\ screen' = "ended" /\ ~told'
        /\ slips' = {} /\ lapses' = {} /\ ~Overtaken
        => disk[Target] = Lines(mem["editor"])
  <1>1. Init => LostInv
    BY DEF Init, FilesInit, LostInv, Quiet, Running
  <1>2. TypeInv /\ LostInv /\ [Next]_vars => LostInv'
    <2> SUFFICES ASSUME TypeInv, LostInv, [Next]_vars PROVE LostInv'
      OBVIOUS
    <2>1. CASE UNCHANGED vars
      BY <2>1 DEF vars, fvars, session, LostInv, Quiet, Running, Overtaken, Target, Program
    <2> QED BY <2>1, StepIs, LostSession, LostWrites, LostMake
  <1>3. TypeInv /\ LostInv /\ [Next]_vars => [Lost]_vars
    <2> SUFFICES ASSUME TypeInv, LostInv, [Next]_vars,
                        screen # "ended", screen' = "ended", ~told',
                        slips' = {}, lapses' = {}, ~Overtaken
                 PROVE  disk[Target] = Lines(mem["editor"])
      OBVIOUS
    <2>1. ~UNCHANGED vars
      BY DEF vars, fvars
    <2>2. \A p \in Processes : ~Writes(p)
      BY DEF Writes, WriteOpen, WriteBody, WriteKeep, WriteMove, WriteReturns
    <2>3. ~MakeStep
      BY MakeKeeps
    <2>4. SessionEffect
      BY <2>1, <2>2, <2>3, StepIs
    <2>5. PICK word \in BOOLEAN : Finishes(word)
      BY <2>4 DEF SessionEffect, Begun, Start, Sets, Loads, Begins, Returns, Stays
    <2>6. ~word /\ lapses = {} /\ Running
      BY <2>5 DEF Finishes, Ends
    <2>7. slips = {}
      BY <2>5, <2>6 DEF Finishes
    <2>8. Quiet
      BY <2>6, <2>7 DEF Quiet
    <2>9. CASE job["editor"].at = "done" /\ job["editor"].then = "exit"
      BY <2>8, <2>9 DEF LostInv
    <2>10. CASE /\ ~changed["editor"]
                /\ \/ job["editor"].at = "idle"
                   \/ job["editor"].at # "done" /\ "interrupt" \in situation.fallible
      BY <2>8, <2>10 DEF LostInv, Overtaken
    <2> QED BY <2>5, <2>6, <2>9, <2>10 DEF Finishes
  <1> QED BY <1>1, <1>2, <1>3, TypeInit, TypeStep, PTL DEF Spec, NothingLost


=============================================================================
