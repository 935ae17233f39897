------------------------------ MODULE Download ------------------------------
(***************************************************************************)
(* The download helpers (package/pkg-download.mk): the recipe of           *)
(* .stamp_downloaded tries one source after the other for one archive.     *)
(* Several builds, each with an output directory of its own, share DL_DIR  *)
(* and run the recipe at the same time.  Every source serves the same      *)
(* bytes.                                                                  *)
(***************************************************************************)
EXTENDS Naturals, Sequences, FiniteSets

CONSTANTS
    Build,      \* the builds that share DL_DIR
    Configs,    \* the situations considered: the settings [primary, only, site, backup],
                \* builds, the builds under way, down, the positions in the list of
                \* sources that never serve the file, and fallible, what fails now
                \* and then, and with which kind of source
    None,       \* no such file, no such setting
    Whole,      \* a file with all its bytes
    MaxFail     \* bound: such failures in a behaviour

Direct == {"wget", "scp", "file", "bzr"}
Clones == {"git", "hg", "svn"}      \* they make a working copy, then pack it
Name == {"tmp", "archive"}
Failure == {"connect", "clone", "write", "crash"}

ASSUME DownloadAssumption ==
    /\ None # Whole /\ {None, Whole} \cap Build = {}
    /\ \A c \in Configs :
          /\ c.primary \in {None, "wget", "scp"} /\ c.site \in {None} \cup Direct \cup Clones
          /\ {c.only, c.backup} \subseteq BOOLEAN
          /\ c.builds \subseteq Build /\ c.down \subseteq 1 .. 3
          /\ c.fallible \subseteq (Direct \cup Clones) \X Failure
    /\ MaxFail \in Nat

VARIABLES
    config,   \* the situation: BR2_PRIMARY_SITE, BR2_PRIMARY_SITE_ONLY, the site,
              \* BR2_BACKUP_SITE, and what befalls them
    file,     \* <source>.tmp and <source>: None, Whole, or the build that
              \* truncated it last and has not written it to the end
    copy,     \* is there a working copy DL_DIR/<name>-<version>?
    pc,       \* where the recipe of each build is
    at,       \* which of its sources the build tries
    out,      \* the name of the file the build has open, None if it has lost it
    fails     \* failures so far

vars == <<config, file, copy, pc, at, out, fails>>

Optional(used, kind) == IF used THEN <<kind>> ELSE <<>>

\* The sources DOWNLOAD_INNER goes through, in its order.
Sources(c) ==
    Optional(c.primary # None, c.primary) \o
    (IF c.only THEN <<>>
     ELSE Optional(c.site # None, c.site) \o Optional(c.backup, "wget"))

Kind(b) == Sources(config)[at[b]]

Init ==
    /\ config \in {c \in Configs : Sources(c) # <<>>}
    /\ file = [n \in Name |-> None] /\ copy = FALSE
    /\ pc = [b \in Build |-> "idle"] /\ at = [b \in Build |-> 1]
    /\ out = [b \in Build |-> None] /\ fails = 0

Go(b, where) == pc' = [pc EXCEPT ![b] = where]

\* A source has failed: its "&& exit" is not reached.  After the last one the
\* recipe fails.
NextSource(b) ==
    IF at[b] < Len(Sources(config))
    THEN Go(b, "test") /\ at' = [at EXCEPT ![b] = @ + 1]
    ELSE Go(b, "idle") /\ UNCHANGED at

\* make comes to .stamp_downloaded, which is missing.
Start(b) ==
    /\ b \in config.builds /\ pc[b] = "idle"
    /\ Go(b, "test") /\ at' = [at EXCEPT ![b] = 1]
    /\ UNCHANGED <<config, file, copy, out, fails>>

\* "test -e" of the archive succeeds: the recipe ends and touches its stamp.
Found(b) ==
    /\ pc[b] = "test" /\ file["archive"] # None
    /\ Go(b, "stamped")
    /\ UNCHANGED <<config, file, copy, at, out, fails>>

\* Mutant of Missing: no "test -e".
MissingUntested(b) ==
    /\ pc[b] = "test"
    /\ Go(b, "fetch")
    /\ UNCHANGED <<config, file, copy, at, out, fails>>

Missing(b) ==
    /\ pc[b] = "test" /\ file["archive"] = None
    /\ Go(b, "fetch")
    /\ UNCHANGED <<config, file, copy, at, out, fails>>

\* Mutant of Output: wget writes to the archive itself.
OutputDirect(b) == "archive"

\* wget is given a temporary file; all others write to the archive.
Output(b) == IF Kind(b) = "wget" THEN "tmp" ELSE "archive"

\* The file is opened for writing, which empties it.
Truncate(b, n) ==
    /\ file' = [file EXCEPT ![n] = b]
    /\ out' = [out EXCEPT ![b] = n]

\* The server has answered, or wget has made its output file without waiting.
Open(b) ==
    /\ pc[b] = "fetch" /\ Kind(b) \in Direct
    /\ Kind(b) = "wget" \/ at[b] \notin config.down
    /\ Truncate(b, Output(b)) /\ Go(b, "write")
    /\ UNCHANGED <<config, copy, at, fails>>

\* The version control system starts on a working copy, in a new directory.
Clone(b) ==
    /\ pc[b] = "fetch" /\ Kind(b) \in Clones /\ ~copy
    /\ copy' = TRUE /\ Go(b, "clone")
    /\ UNCHANGED <<config, file, at, out, fails>>

\* It refuses a directory that is there.
CloneRefused(b) ==
    /\ pc[b] = "fetch" /\ Kind(b) \in Clones /\ copy
    /\ NextSource(b)
    /\ UNCHANGED <<config, file, copy, out, fails>>

\* The working copy is complete, and packing it begins.
Pack(b) ==
    /\ pc[b] = "clone" /\ at[b] \notin config.down
    /\ Truncate(b, "archive") /\ Go(b, "write")
    /\ UNCHANGED <<config, copy, at, fails>>

\* The name a file open in build c has after "mv tmp archive", and after
\* "rm -f tmp".
AfterMove(c) == IF out[c] = "tmp" THEN "archive" ELSE None
AfterDrop(c) == IF out[c] = "tmp" THEN None ELSE out[c]

\* Everything is written.  The file is whole unless somebody else has
\* truncated it since.
Written(b) ==
    /\ pc[b] = "write" /\ at[b] \notin config.down
    /\ file' = [n \in Name |-> IF n = out[b] /\ file[n] = b THEN Whole ELSE file[n]]
    /\ out' = [out EXCEPT ![b] = None]
    /\ \/ Kind(b) = "wget" /\ Go(b, "move")
       \/ Kind(b) \in Clones /\ Go(b, "clean")
       \/ Kind(b) \in Direct \ {"wget"} /\ Go(b, "stamped")
    /\ UNCHANGED <<config, copy, at, fails>>

\* Mutant of Move: the temporary file is on another file system, so that mv
\* copies what is there and removes it.
MoveAcross(b) ==
    /\ pc[b] = "move"
    /\ IF file["tmp"] = None
       THEN Go(b, "drop") /\ UNCHANGED <<file, out>>
       ELSE /\ Go(b, "stamped")
            /\ file' = [tmp |-> None, archive |-> file["tmp"]]
            /\ out' = [c \in Build |-> AfterDrop(c)]
    /\ UNCHANGED <<config, copy, at, fails>>

\* mv fails if another build has moved or removed the temporary file; who is
\* still writing to it goes on under its new name.
Move(b) ==
    /\ pc[b] = "move"
    /\ IF file["tmp"] = None
       THEN Go(b, "drop") /\ UNCHANGED <<file, out>>
       ELSE /\ Go(b, "stamped")
            /\ file' = [tmp |-> None, archive |-> file["tmp"]]
            /\ out' = [c \in Build |-> AfterMove(c)]
    /\ UNCHANGED <<config, copy, at, fails>>

\* rm -f tmp; exit 1
Drop(b) ==
    /\ pc[b] = "drop"
    /\ file' = [file EXCEPT !["tmp"] = None]
    /\ out' = [c \in Build |-> AfterDrop(c)]
    /\ NextSource(b)
    /\ UNCHANGED <<config, copy, fails>>

\* rm -rf of the working copy, the last command but popd.
Clean(b) ==
    /\ pc[b] = "clean"
    /\ copy' = FALSE /\ Go(b, "stamped")
    /\ UNCHANGED <<config, file, at, out, fails>>

\* make clean, or a new output directory: the stamp goes, DL_DIR stays.
Again(b) ==
    /\ pc[b] = "stamped"
    /\ Go(b, "idle")
    /\ UNCHANGED <<config, file, copy, at, out, fails>>

-----------------------------------------------------------------------------
(* Failures. *)

\* A source that is down fails whenever it is asked, others now and then.
Breaks(b, what) ==
    IF at[b] \in config.down /\ what # "crash" THEN UNCHANGED fails
    ELSE <<Kind(b), what>> \in config.fallible /\ fails < MaxFail /\ fails' = fails + 1

ConnectFails(b) ==
    /\ pc[b] = "fetch" /\ Kind(b) \in Direct \ {"wget"}
    /\ Breaks(b, "connect") /\ NextSource(b)
    /\ UNCHANGED <<config, file, copy, out>>

\* Mutant of CloneFails: git and hg leave what they have begun.
CloneFailsLeft(b) ==
    /\ pc[b] = "clone"
    /\ Breaks(b, "clone") /\ NextSource(b)
    /\ UNCHANGED <<config, file, copy, out>>

\* git and hg remove what they have begun, svn does not.
CloneFails(b) ==
    /\ pc[b] = "clone"
    /\ Breaks(b, "clone") /\ NextSource(b)
    /\ copy' = (Kind(b) = "svn")
    /\ UNCHANGED <<config, file, out>>

\* The file stays as it is.  Only wget's is removed; and the status of "git
\* archive" is lost in the pipe to gzip, which goes on to its end.
WriteFails(b) ==
    /\ pc[b] = "write"
    /\ Breaks(b, "write")
    /\ out' = [out EXCEPT ![b] = None]
    /\ \/ Kind(b) = "wget" /\ Go(b, "drop") /\ UNCHANGED at
       \/ Kind(b) = "git" /\ Go(b, "clean") /\ UNCHANGED at
       \/ Kind(b) \notin {"wget", "git"} /\ NextSource(b)
    /\ UNCHANGED <<config, file, copy>>

\* The build is killed, or the machine stops, between any two steps.
Crash(b) ==
    /\ pc[b] \notin {"idle", "stamped"}
    /\ Breaks(b, "crash")
    /\ Go(b, "idle") /\ out' = [out EXCEPT ![b] = None]
    /\ UNCHANGED <<config, file, copy, at>>

Step(b) ==
    \/ Found(b) \/ Missing(b) \/ Open(b) \/ Clone(b) \/ CloneRefused(b) \/ Pack(b)
    \/ Written(b) \/ Move(b) \/ Drop(b) \/ Clean(b)
    \/ ConnectFails(b) \/ CloneFails(b) \/ WriteFails(b)

Next == \E b \in Build : Start(b) \/ Step(b) \/ Crash(b) \/ Again(b)

Spec == Init /\ [][Next]_vars

\* A build that is started goes on, and one that failed is started again.
LiveSpec == Spec /\ \A b \in Build : WF_vars(Step(b)) /\ WF_vars(Start(b))

-----------------------------------------------------------------------------
(* Properties. *)

\* One build at a time, and the failures that leave nothing but a temporary file.
Alone == \A b, c \in config.builds : b = c
Harmless ==
    config.fallible \subseteq
        ({"wget"} \X Failure) \cup ((Direct \cup Clones) \X {"connect", "clone"})

\* A build whose .stamp_downloaded is there finds the whole archive when it
\* comes to extract it, whichever source failed or was interrupted before;
\* not so if the scp, bzr or file of the archive itself, or the packing of a
\* working copy, can stop half-way.
Stamped == \A b \in Build : pc[b] = "stamped" => file["archive"] = Whole
StampedWhole == Alone /\ Harmless => Stamped

\* The same of builds that share DL_DIR, as the manual promises it.
SafeInParallel == Harmless => Stamped

\* A whole archive is not emptied, and no part of one is put in its place.
ArchiveKept ==
    [][Alone /\ Harmless /\ file["archive"] = Whole => file'["archive"] = Whole]_vars

\* When no build is downloading, the archive is whole or absent.  Builds that share
\* DL_DIR may do harm to the temporary file of each other; the one that ends last
\* undoes it, unless a download fails after its first byte.
Early ==
    config.down = {} /\ config.fallible \subseteq (Direct \cup Clones) \X {"connect", "clone"}
QuietMeansWhole ==
    /\ (Alone /\ Harmless) \/ Early
    /\ \A b \in Build : pc[b] \in {"idle", "stamped"}
    => file["archive"] \in {None, Whole}

\* The failures that leave a working copy behind: svn does not remove its own, nobody
\* does when the build is killed, or when hg or tar cannot pack it.
Leaving == {<<"svn", "clone">>, <<"svn", "write">>, <<"hg", "write">>} \cup (Clones \X {"crash"})
MayLeave ==
    \E i \in DOMAIN Sources(config), f \in Failure :
        <<Sources(config)[i], f>> \in config.fallible \cap Leaving

\* The working copy is in the way of every source that is not down.
Blocked ==
    /\ copy /\ file["archive"] = None
    /\ \A i \in DOMAIN Sources(config) \ config.down : Sources(config)[i] \in Clones

\* A developer who retries gets his stamp, as long as one source has the archive,
\* time and again; but for one case.  A working copy that one of the failures above
\* has left there is refused by every later clone, and without a source of another
\* kind the download fails for ever, until somebody removes it by hand.
Obtained ==
    \A b \in Build : b \in config.builds =>
        []<>(pc[b] = "stamped") \/ (MayLeave /\ <>[]Blocked)

=============================================================================
