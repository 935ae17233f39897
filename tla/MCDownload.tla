----------------------------- MODULE MCDownload -----------------------------
(***************************************************************************)
(* Instances of Download for TLC.                                          *)
(***************************************************************************)
EXTENDS Download

CONSTANTS b1, b2, b3

Situation(primary, only, site, backup, builds, down, fallible) ==
    [primary |-> primary, only |-> only, site |-> site, backup |-> backup,
     builds |-> builds, down |-> down, fallible |-> fallible]

\* Failures: any, and the ones that leave nothing but a temporary file.
AnyFailure == (Direct \cup Clones) \X Failure
CleanFailure == ({"wget"} \X Failure) \cup ((Direct \cup Clones) \X {"connect", "clone"})

\* One build: all settings in which every source is a web server, and the
\* ones in which the site is not one, with clean failures; a working copy as the
\* only source, with any failure; ...
MCOne ==
    {Situation(p, o, s, k, {b1}, {}, CleanFailure) :
        p \in {None, "wget"}, o \in BOOLEAN, s \in {None, "wget"}, k \in BOOLEAN}
    \cup {Situation(p, FALSE, s, k, {b1}, {}, CleanFailure) :
            p \in {None, "wget", "scp"}, s \in (Direct \cup Clones) \ {"wget"},
            k \in BOOLEAN}
    \cup {Situation(None, FALSE, s, FALSE, {b1}, {}, AnyFailure) : s \in Clones}

\* ... all three sources given, the first one down and any failure elsewhere; ...
MCBackup ==
    {Situation(p, FALSE, s, TRUE, {b1}, {1}, AnyFailure) :
        p \in {"wget", "scp"}, s \in Direct \cup Clones}

\* ... three builds at a time from web servers, and two from any source, which may
\* refuse to serve the file.
EarlyFailure == (Direct \cup Clones) \X {"connect", "clone"}
MCTogether ==
    {Situation(p, o, s, k, {b1, b2, b3}, {}, {}) :
        p \in {None, "wget"}, o \in BOOLEAN, s \in {None, "wget"}, k \in BOOLEAN}
    \cup {Situation(None, FALSE, s, TRUE, {b1, b2}, {}, EarlyFailure) :
            s \in {"scp", "git", "svn"}}
    \cup {Situation(None, FALSE, "git", FALSE, {b1, b2}, {}, EarlyFailure)}

MCConfigs == MCOne \cup MCBackup \cup MCTogether
MCShared == {Situation(None, FALSE, "wget", FALSE, {b1, b2}, {}, {})}
=============================================================================
