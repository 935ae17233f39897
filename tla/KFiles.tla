------------------------------- MODULE KFiles -------------------------------
(***************************************************************************)
(* The files of a configuration and the two programs that write them: an   *)
(* editor (mconf, nconf, gconf, qconf), which loads and saves .config, and  *)
(* the conf --silentoldconfig that make runs when .config is newer than    *)
(* auto.conf (Makefile:400).  conf_write and conf_write_autoconf of        *)
(* confdata.c are taken one system call at a time: each of them may fail,  *)
(* and a program may be killed between two of them.                        *)
(*                                                                         *)
(* The content of a file is a function from the options it has a line for  *)
(* to their values: "# X is not set" is the line of a boolean at n, and    *)
(* auto.conf has no such line.                                             *)
(***************************************************************************)
EXTENDS Naturals, FiniteSets, Functions

CONSTANTS
    Options,      \* the options
    Strings,      \* those with a string for a value, the others are booleans
    Needs,        \* Needs[o]: the booleans that must be y for o to be visible
    None,         \* no such file
    Situations,   \* what is considered: the program, whether KCONFIG_OVERWRITECONFIG
                  \* is set, whether make may run, what may fail, the entries
                  \* of the menu tree, the first content of .config and of
                  \* another file, and which of them the user names
    MaxMishaps    \* bound: how many of those failures in a behaviour

Processes == {"editor", "make"}
Mishaps == {"open", "full", "keep", "move", "auto", "crash", "interrupt"}
\* <name> is the .tmpconfig.<pid> of a process, "old" is .config.old, "alt"
\* another file the user names, "pending" .tmpconfig and .tmpconfig.h
Files == Processes \cup {"config", "old", "alt", "auto", "header", "pending"}

Values(o) == IF o \in Strings THEN {"s", "t"} ELSE {"n", "y"}
Default(o) == IF o \in Strings THEN "s" ELSE "n"
Memory == {m \in [Options -> {"s", "t", "n", "y"}] : \A o \in Options : m[o] \in Values(o)}

\* What a file may hold: a line for some of the options.
Contents ==
    {c \in UNION {[d -> {"s", "t", "n", "y"}] : d \in SUBSET Options} :
        \A o \in DOMAIN c : c[o] \in Values(o)}

ASSUME FilesAssumption ==
    /\ Strings \subseteq Options
    /\ Needs \in [Options -> SUBSET (Options \ Strings)]
    /\ \A o \in Options, p \in Options : p \in Needs[o] => Needs[p] \subseteq Needs[o] \ {p}
    /\ MaxMishaps \in Nat /\ None \notin Contents
    /\ \A s \in Situations :
          /\ s.fallible \subseteq Mishaps /\ s.overwrite \in BOOLEAN
          /\ s.make \in {"never", "between", "beside"}
          /\ s.start \cup {s.alt} \subseteq Contents \cup {None}
          /\ s.names \subseteq {"config", "alt"}

VARIABLES
    situation,
    screen,    \* what the user of the editor sees: "off" and "ended" when it does
               \* not run, "menu", "quit", "interrupted"
    disk,      \* Files -> a content, or None
    newer,     \* which of .config and the temporary files are newer than
               \* auto.conf, and which are newer than .tmpconfig
    mem,       \* the values a process has in memory, chosen by its user
    flags,     \* the symbols with SYMBOL_WRITE set, per process
    changed,   \* conf_get_changed(), per process
    job,       \* where a process is in conf_write or conf_write_autoconf
    saved,     \* ghost: what a process last reported to have written to .config
    touched,   \* ghost: the <option>.h touched since auto.conf was last replaced
    due,       \* ghost: options whose line in auto.conf changed, <option>.h untouched
    lapses,    \* ghost: what happened to the files that no program saw: "full", "raced",
               \* and "spent", a write without the flags an earlier one took
    mishaps    \* failures so far

files == <<disk, newer, saved, touched, due>>
process == <<mem, flags, changed>>
fvars == <<situation, screen, disk, newer, mem, flags, changed, job, saved, touched, due, lapses, mishaps>>

Mishap(kind) ==
    /\ kind \in situation.fallible
    /\ mishaps < MaxMishaps
    /\ mishaps' = mishaps + 1

-----------------------------------------------------------------------------
(* Contents *)

Nothing == [o \in {} |-> "n"]

\* The visible options: the ones sym_calc_value gives SYMBOL_WRITE.
Written(m) == {o \in Options : \A p \in Needs[o] : m[p] = "y"}

\* The lines of a .config that holds m.
Lines(m) == Restrict(m, Written(m))

\* kconfig_print_symbol with skip_unset: auto.conf has no line for a boolean at n.
AutoLines(c) == Restrict(c, {o \in DOMAIN c : c[o] # "n"})

\* What a disk that runs full leaves of a content: fprintf and fclose are not checked.
Truncations(c) ==
    {Restrict(c, d) : d \in {e \in SUBSET DOMAIN c : e # DOMAIN c /\ \A o \in e : Needs[o] \subseteq e}}

\* The values conf_read leaves in memory, options without a line at their default.
Read(c) == [o \in Options |-> IF o \in DOMAIN c THEN c[o] ELSE Default(o)]

\* conf_unsaved: an option has a line and is not visible, or the reverse.
Unsaved(c) == DOMAIN c # Written(Read(c))

\* sym_clear_all_valid, and the values are calculated again.
Recalculated(p, m) ==
    /\ mem' = [mem EXCEPT ![p] = m]
    /\ flags' = [flags EXCEPT ![p] = Written(m)]

-----------------------------------------------------------------------------
(* conf_write *)

Idle == [at |-> "idle", file |-> "config", then |-> "nothing"]

\* A process ends, and its memory goes with it.
Gone(p) ==
    /\ job' = [job EXCEPT ![p] = Idle]
    /\ Recalculated(p, Read(Nothing))
    /\ changed' = [changed EXCEPT ![p] = FALSE]

Goes(p, step) == job' = [job EXCEPT ![p].at = step]

\* The other program is at work on the files, or make rewrites the .config that
\* a running editor has read: neither looks.
Meeting(p) ==
    \/ \E q \in Processes \ {p} : job[q].at # "idle"
    \/ p = "make" /\ screen \notin {"off", "ended"}

conf_write(p, file, then) ==
    /\ job' = [job EXCEPT ![p] = [at |-> "open", file |-> file, then |-> then]]
    /\ lapses' = IF Meeting(p) THEN lapses \cup {"raced"} ELSE lapses

\* Mutant of Out: conf_write writes over the file it replaces.
OutInPlace(p) == job[p].file

\* The name it opens.
Out(p) == IF situation.overwrite THEN job[p].file ELSE p

\* conf_message: "configuration written to", in a box that mconf and nconf show.
Reported(p) ==
    /\ Goes(p, "message")
    /\ saved' = IF job[p].file = "config" THEN Lines(mem[p]) ELSE saved

\* fopen: a file is created, or truncated.
WriteOpen(p) ==
    /\ job[p].at = "open"
    /\ \/ /\ Mishap("open")
          /\ Goes(p, "failed")
          /\ UNCHANGED files
       \/ /\ Goes(p, "body")
          /\ disk' = [disk EXCEPT ![Out(p)] = Nothing]
          /\ newer' = [r \in DOMAIN newer |-> newer[r] \cup {Out(p)}]
          /\ UNCHANGED <<saved, touched, due, mishaps>>
    /\ UNCHANGED <<situation, screen, process, lapses>>

\* The walk of the menus.  With nothing changed every symbol is calculated
\* again, otherwise those without SYMBOL_WRITE are passed over; a symbol that
\* is written loses the flag.
Body(p) == Restrict(mem[p], IF changed[p] THEN flags[p] ELSE Written(mem[p]))

WriteBody(p) ==
    /\ job[p].at = "body"
    /\ \E c \in {Body(p)} :
          \E spent \in {IF c = Lines(mem[p]) THEN {} ELSE {"spent"}} :
            \/ /\ disk' = [disk EXCEPT ![Out(p)] = c]
               /\ lapses' = lapses \cup spent
               /\ UNCHANGED mishaps
            \/ /\ Mishap("full")
               /\ \E part \in Truncations(c) : disk' = [disk EXCEPT ![Out(p)] = part]
               /\ lapses' = lapses \cup spent \cup {"full"}
    /\ newer' = [r \in DOMAIN newer |-> newer[r] \cup {Out(p)}]
    /\ flags' = [flags EXCEPT ![p] = {}]
    /\ changed' = [changed EXCEPT ![p] = TRUE]
    /\ IF situation.overwrite THEN Reported(p) ELSE Goes(p, "keep") /\ UNCHANGED saved
    /\ UNCHANGED <<situation, screen, mem, touched, due>>

\* rename(newname, <newname>.old), whose result is not looked at.
WriteKeep(p) ==
    /\ job[p].at = "keep"
    /\ Goes(p, "move")
    /\ \E file \in {job[p].file} :
          \/ /\ disk[file] # None
             /\ disk' = IF file = "config"
                        THEN [disk EXCEPT !["old"] = disk[file], ![file] = None]
                        ELSE [disk EXCEPT ![file] = None]
             /\ newer' = [r \in DOMAIN newer |-> newer[r] \ {file}]
             /\ UNCHANGED mishaps
          \/ /\ disk[file] = None
             /\ UNCHANGED <<disk, newer, mishaps>>
          \/ /\ disk[file] # None
             /\ Mishap("keep")
             /\ UNCHANGED <<disk, newer>>
    /\ UNCHANGED <<situation, screen, process, saved, touched, due, lapses>>

\* rename(tmpname, newname).  A file keeps its time of modification.
WriteMove(p) ==
    /\ job[p].at = "move"
    /\ \/ \E file \in {job[p].file} :
            /\ disk' = [disk EXCEPT ![file] = disk[p], ![p] = None]
            /\ newer' = [r \in DOMAIN newer |->
                            IF p \in newer[r] THEN (newer[r] \ {p}) \cup {file}
                                              ELSE newer[r] \ {file}]
            /\ Reported(p)
            /\ UNCHANGED mishaps
       \/ /\ Mishap("move")
          /\ Goes(p, "failed")
          /\ UNCHANGED <<disk, newer, saved>>
    /\ UNCHANGED <<situation, screen, process, touched, due, lapses>>

\* sym_set_change_count(0), when the user has seen the message, and the return with 0.
WriteReturns(p) ==
    /\ job[p].at = "message"
    /\ Goes(p, "done")
    /\ changed' = [changed EXCEPT ![p] = FALSE]
    /\ UNCHANGED <<situation, screen, files, mem, flags, lapses, mishaps>>

-----------------------------------------------------------------------------
(* make: the rule of auto.conf and conf --silentoldconfig *)

\* conf_read, and check_conf, which asks for what .config has no line for.  conf
\* refuses to start without a .config.
Make ==
    /\ situation.make # "never"
    /\ situation.make = "between" => screen \in {"off", "ended"}
    /\ job["make"].at = "idle"
    /\ disk["config"] # None
    /\ disk["auto"] = None \/ "config" \in newer["auto"]
    /\ \E c \in {disk["config"]} :
       \E m \in {Read(c)} \cup {v \in Memory : Unsaved(c) /\ Read(Lines(v)) = v} :
          /\ \A o \in DOMAIN c \cap Written(m) : m[o] = c[o]
          /\ Recalculated("make", m)
          /\ changed' = [changed EXCEPT !["make"] = Unsaved(c)]
          /\ IF Unsaved(c) THEN conf_write("make", "config", "sync")
             ELSE /\ Goes("make", "split")
                  /\ lapses' = IF job["editor"].at # "idle" THEN lapses \cup {"raced"} ELSE lapses
    /\ UNCHANGED <<situation, screen, files, mishaps>>

MakeWritten ==
    /\ job["make"].at = "done"
    /\ Goes("make", "split")
    /\ UNCHANGED <<situation, screen, files, process, lapses, mishaps>>

\* The exit status is 1 and make stops.
MakeFails ==
    /\ job["make"].at = "failed"
    /\ Gone("make")
    /\ UNCHANGED <<situation, screen, files, lapses, mishaps>>

AutoOnDisk == IF disk["auto"] = None THEN Nothing ELSE disk["auto"]

\* Mutant of Outdated: an option that has no value any more is not looked at.
OutdatedNew(old, m) ==
    {o \in Written(m) : IF o \in DOMAIN old THEN m[o] # old[o] ELSE m[o] # "n"}

\* The options whose <option>.h conf_split_config touches, from the old auto.conf
\* and the values in memory.
Outdated(old, m) ==
    {o \in Options : IF o \in Written(m)
                     THEN IF o \in DOMAIN old THEN m[o] # old[o] ELSE m[o] # "n"
                     ELSE o \in DOMAIN old}

conf_split_config ==
    /\ job["make"].at = "split"
    /\ \E all \in {Outdated(AutoOnDisk, mem["make"])} :
          \/ /\ touched' = touched \cup all
             /\ Goes("make", "pending")
             /\ UNCHANGED mishaps
          \/ /\ Mishap("auto")
             /\ \E some \in SUBSET all : touched' = touched \cup some
             /\ Goes("make", "failed")
    /\ Recalculated("make", mem["make"])
    /\ changed' = [changed EXCEPT !["make"] = TRUE]
    /\ UNCHANGED <<situation, screen, disk, newer, saved, due, lapses>>

\* .tmpconfig, .tmpconfig_tristate and .tmpconfig.h.
WritePending ==
    /\ job["make"].at = "pending"
    /\ \E c \in {AutoLines(Lines(mem["make"]))} :
          \/ /\ disk' = [disk EXCEPT !["pending"] = c]
             /\ Goes("make", "header")
             /\ UNCHANGED <<lapses, mishaps>>
          \/ /\ Mishap("full")
             /\ \E part \in Truncations(c) : disk' = [disk EXCEPT !["pending"] = part]
             /\ Goes("make", "header")
             /\ lapses' = lapses \cup {"full"}
          \/ /\ Mishap("auto")
             /\ Goes("make", "failed")
             /\ UNCHANGED <<disk, lapses>>
    /\ newer' = [newer EXCEPT !["pending"] = {}]
    /\ UNCHANGED <<situation, screen, process, saved, touched, due>>

\* autoconf.h and tristate.conf are replaced,
MoveHeader ==
    /\ job["make"].at = "header"
    /\ \/ /\ disk' = [disk EXCEPT !["header"] = disk["pending"]]
          /\ Goes("make", "auto")
          /\ UNCHANGED mishaps
       \/ /\ Mishap("auto")
          /\ Goes("make", "failed")
          /\ UNCHANGED disk
    /\ UNCHANGED <<situation, screen, process, newer, saved, touched, due, lapses>>

\* and auto.conf is the last.
MoveAuto ==
    /\ job["make"].at = "auto"
    /\ \/ \E old \in {AutoOnDisk}, new \in {disk["pending"]} :
            /\ disk' = [disk EXCEPT !["auto"] = new, !["pending"] = None]
            /\ newer' = [newer EXCEPT !["auto"] = newer["pending"]]
            /\ due' = due \cup
                  {o \in (DOMAIN old \cup DOMAIN new) \ touched :
                      ~(o \in DOMAIN old /\ o \in DOMAIN new /\ old[o] = new[o])}
            /\ touched' = {}
            /\ Gone("make")
            /\ UNCHANGED mishaps
       \/ /\ Mishap("auto")
          /\ Goes("make", "failed")
          /\ UNCHANGED <<process, disk, newer, touched, due>>
    /\ UNCHANGED <<situation, screen, saved, lapses>>

\* make and conf are killed: the files stay as they are.
MakeKilled ==
    /\ job["make"].at # "idle"
    /\ Mishap("crash")
    /\ Gone("make")
    /\ UNCHANGED <<situation, screen, files, lapses>>

Writes(p) == WriteOpen(p) \/ WriteBody(p) \/ WriteKeep(p) \/ WriteMove(p) \/ WriteReturns(p)

FilesNext ==
    \/ \E p \in Processes : Writes(p)
    \/ Make \/ MakeWritten \/ MakeFails \/ MakeKilled
    \/ conf_split_config \/ WritePending \/ MoveHeader \/ MoveAuto

FilesInit ==
    /\ situation \in Situations
    /\ screen = "off"
    /\ \E c \in situation.start :
          disk = [f \in Files |-> IF f = "config" THEN c
                                  ELSE IF f = "alt" THEN situation.alt ELSE None]
    /\ newer = [r \in {"auto", "pending"} |-> {"config"}]
    /\ mem = [p \in Processes |-> Read(Nothing)]
    /\ flags = [p \in Processes |-> Written(Read(Nothing))]
    /\ changed = [p \in Processes |-> FALSE]
    /\ job = [p \in Processes |-> Idle]
    /\ saved = None
    /\ touched = {} /\ due = {} /\ lapses = {}
    /\ mishaps = 0
=============================================================================
