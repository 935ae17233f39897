---------------------------- MODULE MCKSessions -----------------------------
(***************************************************************************)
(* A boolean and a string that depends on it, for TLC.                     *)
(***************************************************************************)
EXTENDS KSessions

CONSTANTS A, S

MCOptions == {A, S}
MCStrings == {S}
MCNeeds == [o \in MCOptions |-> IF o = S THEN {A} ELSE {}]

Content(a, s) == [o \in {A, S} |-> IF o = A THEN a ELSE s]
Partial == [o \in {A} |-> "y"]

\* What may fail, with a program in one menu, and the files its user names.
Failing(program, fallible, start, names) ==
    [program |-> program, overwrite |-> FALSE, fallible |-> fallible, make |-> "never", menus |-> {1},
     start |-> start, alt |-> Content("y", "t"), names |-> names]

\* make between the sessions, or beside them.
Building(program, when, fallible, names, overwrite) ==
    [program |-> program, overwrite |-> overwrite, fallible |-> fallible, make |-> when, menus |-> {1},
     start |-> {Partial}, alt |-> None, names |-> names]

\* The views, where nothing fails: the third entry is not a menu.
Walking(program) ==
    [program |-> program, overwrite |-> FALSE, fallible |-> {}, make |-> "never", menus |-> {1, 2, 4},
     start |-> {Content("y", "s")}, alt |-> None, names |-> {"alt"}]

MCSituations ==
    {Failing("mconf", {"open", "full", "keep", "move", "crash", "interrupt"},
             {Content("y", "s")}, {"config", "alt"}),
     Failing("mconf", {"open"}, {None, Partial}, {"config"}),
     Failing("gconf", {"move"}, {Partial}, {"alt"}),
     Failing("qconf", {"move"}, {Partial}, {"alt"}),
     Building("nconf", "between", {"auto", "crash"}, {"config"}, FALSE),
     Building("nconf", "beside", {}, {}, FALSE),
     Building("mconf", "beside", {}, {"config"}, TRUE)}
    \cup {Walking(p) : p \in {"mconf", "nconf", "gconf", "qconf"}}
=============================================================================
