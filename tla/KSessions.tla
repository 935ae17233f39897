----------------------------- MODULE KSessions ------------------------------
(***************************************************************************)
(* Sessions of an editor, one after the other, beside make: what they do   *)
(* to the configuration on disk, whatever fails.                           *)
(***************************************************************************)
EXTENDS KTextFronts, KWindowFronts

Init ==
    /\ FilesInit
    /\ filename = "config" /\ place = 1 /\ mode = "full" /\ back = FALSE /\ told = FALSE
    /\ slips = {}

Next ==
    \/ TextNext \/ WindowNext \/ Killed
    \/ FilesNext /\ UNCHANGED session

Spec == Init /\ [][Next]_vars

-----------------------------------------------------------------------------

\* What conf_write reported to be in .config stays on disk, in .config or, between
\* the two renames and after a failure of the second, in .config.old: whatever
\* fails, whoever is killed and whoever else writes.  Not so when the disk was
\* full, which conf_write does not notice, when it wrote again after a failure,
\* without the flags the first try took, or with KCONFIG_OVERWRITECONFIG.
Saved ==
    saved # None /\ lapses \cap {"full", "spent"} = {} /\ ~situation.overwrite =>
        saved \in {disk["config"], disk["old"]}

\* The file the user works on.
Target == IF Program \in {"mconf", "nconf"} THEN filename ELSE "config"

\* An editor that ends without a word about changes not saved leaves the values its
\* user sees in the file he works on, unless one of the slips of its program
\* happened on the way; or SIGINT, while conf_write writes unchanged values over the
\* file they came from, as KCONFIG_OVERWRITECONFIG has it: no change is seen then.
Overtaken == situation.overwrite /\ "interrupt" \in situation.fallible
NothingLost ==
    [][/\ screen # "ended" /\ screen' = "ended" /\ ~told'
       /\ slips' = {} /\ lapses' = {} /\ ~Overtaken
       => disk[Target] = Lines(mem["editor"])]_vars

\* make does not run conf when .config is older than auto.conf: then auto.conf and
\* autoconf.h say what .config says, and <option>.h was touched for every option
\* that has changed in auto.conf: whatever failed before.  Not so once the disk was
\* full, or an editor was started or saved while conf was at work, or conf saved
\* while an editor was open: what that leaves behind is not followed any further.
InStep ==
    /\ disk["config"] # None /\ disk["auto"] # None /\ "config" \notin newer["auto"]
    /\ lapses \cap {"raced", "full"} = {}
    => /\ disk["auto"] = AutoLines(disk["config"])
       /\ disk["header"] = disk["auto"]
       /\ due = {}
=============================================================================
