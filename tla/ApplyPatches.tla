---------------------------- MODULE ApplyPatches ----------------------------
(***************************************************************************)
(* The patch step of a package or of the kernel, on an unpatched source    *)
(* tree: a loop runs support/scripts/apply-patches.sh for one directory of *)
(* patches after the other.                                                *)
(*                                                                         *)
(* scan_patchdir calls itself for subdirectories and archives of patches;  *)
(* its variable "path" is the shell's only one, so that whoever returns to *)
(* a scan goes on with the path of the scan that ended.                    *)
(***************************************************************************)
EXTENDS Naturals, Sequences, SequencesExt

CONSTANTS
    Dir,        \* directories of patches, unpacked archives included
    Patch,      \* file names that end as apply_patch wants them
    Other,      \* ... and others, which it skips
    Archive,    \* names of archives
    Sub,        \* names of subdirectories
    Inside,     \* for each directory, what is behind a name of Archive and Sub in it
    Nowhere,    \* an empty directory
    Trees,      \* the trees considered: Dir -> [names, series, files]
    Loops(_)    \* for a tree, the loops that may give it to the script: the
                \* directories in order, and whether it is the loop of a
                \* package or that of the kernel

\* Of any directories, one is the innermost: no other is behind a name of it.
Innermost(t, D) ==
    \E d \in D : \A n \in t[d].files \cap (Archive \cup Sub) : Inside[d][n] \notin D

ASSUME TreeAssumption ==
    /\ Patch \cap Other = {} /\ (Patch \cup Other) \cap (Archive \cup Sub) = {}
    /\ Inside \in [Dir -> [Archive \cup Sub -> Dir]]
    /\ Nowhere \notin Dir
    /\ \A t \in Trees : \A d \in Dir :
          /\ t[d].names \in Seq(Patch \cup Other \cup Archive \cup Sub)
          /\ IF t[d].series THEN Range(t[d].names) \subseteq Patch \cup Other
                            ELSE Range(t[d].names) \subseteq t[d].files
    /\ \A t \in Trees : \A D \in (SUBSET Dir) \ {{}} : Innermost(t, D)
    /\ \A t \in Trees : \A l \in Loops(t) :
          /\ l.by \in {"package", "kernel"} /\ l.dirs # <<>> /\ l.dirs \in Seq(Dir)

VARIABLES
    tree,     \* the directories: the names a scan reads, which are the lines of
              \* a series, or else the files that match, in the order of ls;
              \* and the files that are there, listed by a series or not
    refused,  \* patches that do not fit
    loop,     \* who runs the script, and for which directories
    at,       \* the directory of this run
    path,     \* the global variable
    todo,     \* what each active scan_patchdir has still to look at
    applied,  \* the patches applied to the source tree, in order
    list,     \* .applied_patches_list
    status    \* of the step: "running", "ok" or "failed"

given == <<tree, refused, loop>>
vars == <<given, at, path, todo, applied, list, status>>

\* A patch is known by its directory and its name.
InTree(t) == {e \in Dir \X Patch : e[2] \in t[e[1]].files}

\* The shell looks for a file, whatever a series says of it.
Holds(d, n) == d # Nowhere /\ n \in tree[d].files

Init ==
    /\ tree \in Trees
    /\ refused \in {{}} \cup {{e} : e \in InTree(tree)}
    /\ loop \in Loops(tree)
    /\ at = 1 /\ path = loop.dirs[1] /\ todo = <<tree[loop.dirs[1]].names>>
    /\ applied = <<>> /\ list = <<>> /\ status = "running"

Cur == todo[1]
Name == Head(Cur)

\* One turn of the loop: the scan on top has read a name.
Goes ==
    /\ status = "running" /\ todo # <<>> /\ Cur # <<>>
    /\ UNCHANGED given
Rest == <<Tail(Cur)>> \o Tail(todo)

\* patch(1) refuses what does not fit and what is already there.
Refuses(e) == e \in refused \/ e \in Range(applied)

\* The script starts on directory i.
Run(i) ==
    /\ at' = i /\ path' = loop.dirs[i] /\ todo' = <<tree[loop.dirs[i]].names>>
    /\ UNCHANGED status

Ends(result) == status' = result /\ todo' = <<>> /\ UNCHANGED <<at, path>>

\* Mutant of Over: no loop has "|| exit 1".
OverUnseen(result) == IF at < Len(loop.dirs) THEN Run(at + 1) ELSE Ends(result)

\* A run of the script has ended.  The loop of a package stops at a failure, that
\* of the kernel has the status of its last turn.
Over(result) ==
    IF at < Len(loop.dirs) /\ (result = "ok" \/ loop.by = "kernel")
    THEN Run(at + 1)
    ELSE Ends(result)

\* The name is written to the list, and the patch is applied.
Apply ==
    /\ Goes /\ Name \in Patch /\ Holds(path, Name) /\ ~Refuses(<<path, Name>>)
    /\ list' = Append(list, <<path, Name>>)
    /\ applied' = Append(applied, <<path, Name>>)
    /\ todo' = Rest /\ UNCHANGED <<at, path, status>>

\* "Patch failed!": every scan ends.  The rejects are removed when the script is
\* run again.
Refuse ==
    /\ Goes /\ Name \in Patch /\ Holds(path, Name) /\ Refuses(<<path, Name>>)
    /\ list' = Append(list, <<path, Name>>)
    /\ Over("failed")
    /\ UNCHANGED applied

\* The patch is not in this directory: cat fails, and patch(1), given nothing,
\* succeeds.
ApplyNothing ==
    /\ Goes /\ Name \in Patch /\ ~Holds(path, Name)
    /\ list' = Append(list, <<path, Name>>)
    /\ todo' = Rest /\ UNCHANGED <<at, path, applied, status>>

\* Neither a patch nor an archive; so is the name of a subdirectory that is
\* not there.
Skip ==
    /\ Goes
    /\ Name \in Other \/ (Name \in Sub /\ ~Holds(path, Name))
    /\ todo' = Rest /\ UNCHANGED <<at, path, applied, list, status>>

\* A subdirectory, or an archive, which is unpacked first.  Of an archive that
\* is not there an empty directory is unpacked.  Both are looked for in the path.
Descend ==
    /\ Goes /\ Name \in Sub \cup Archive
    /\ \/ /\ Holds(path, Name)
          /\ path' = Inside[path][Name] /\ todo' = <<tree[path'].names>> \o Rest
       \/ /\ Name \in Archive /\ ~Holds(path, Name)
          /\ path' = Nowhere /\ todo' = Rest
    /\ UNCHANGED <<at, applied, list, status>>

\* Mutant of Return: the path of the script's argument is put back.
ReturnToTop ==
    /\ status = "running" /\ todo # <<>> /\ Cur = <<>>
    /\ todo' = Tail(todo) /\ path' = loop.dirs[at]
    /\ UNCHANGED <<given, at, applied, list, status>>

\* The end of a scan leaves its path to the one that called it.
Return ==
    /\ status = "running" /\ todo # <<>> /\ Cur = <<>>
    /\ todo' = Tail(todo)
    /\ UNCHANGED <<given, at, path, applied, list, status>>

\* All is scanned; patch(1) leaves rejects only where it fails.
Done ==
    /\ status = "running" /\ todo = <<>>
    /\ Over("ok")
    /\ UNCHANGED <<given, applied, list>>

Next == Apply \/ Refuse \/ ApplyNothing \/ Skip \/ Descend \/ Return \/ Done

Spec == Init /\ [][Next]_vars

-----------------------------------------------------------------------------
(* Properties. *)

\* The patches behind directory d in the order they are meant to be applied:
\* those of a subdirectory or an archive where its name stands.
Item(behind, d, n) ==
    CASE n \in Patch -> << <<d, n>> >>
      [] n \in Other -> <<>>
      [] n \in Archive \cup Sub -> behind[Inside[d][n]]
Row(behind, d, names) == FlattenSeq([i \in DOMAIN names |-> Item(behind, d, names[i])])
Behind(t) ==
    LET F[d \in Dir] == Row(F, d, t[d].names) IN F
Meant == FlattenSeq([i \in DOMAIN loop.dirs |-> Behind(tree)[loop.dirs[i]]])

\* A step that succeeds has applied every patch of its directories, in order, and
\* listed what it has applied, nothing else: provided that all that is listed is
\* there, that nothing follows a subdirectory or an archive, the name of
\* which is then the last one looked for in its own directory, and, for the kernel,
\* that no patch is meant to be applied twice and all fit but those of the last
\* directory.
NothingFollows(t) ==
    \A d \in Dir : \A i \in DOMAIN t[d].names :
        t[d].names[i] \in Archive \cup Sub => i = Len(t[d].names)
AllThere(t) == \A d \in Dir : Range(t[d].names) \subseteq t[d].files
Noticed ==
    loop.by = "kernel" =>
        /\ IsInjective(Meant)
        /\ \A i \in 1 .. Len(loop.dirs) - 1 : refused \cap Range(Behind(tree)[loop.dirs[i]]) = {}
AppliedWhenLast ==
    NothingFollows(tree) /\ AllThere(tree) /\ Noticed /\ status = "ok" =>
        applied = Meant /\ list = applied

\* No patch is applied out of order or twice, whatever path it is looked for in,
\* and none that is not meant to be: provided that no directory has a file it
\* does not list under a name that another one lists.  (A scan that returns from
\* a directory with such a file goes on in it, and takes the file for its own.)
InOrderOf(s, t) ==
    /\ IsInjective(s) /\ Range(s) \subseteq Range(t)
    /\ \A i, j \in DOMAIN s : i < j =>
          \E k, l \in DOMAIN t : k < l /\ t[k] = s[i] /\ t[l] = s[j]
NoneAstray(t) ==
    \A d, e \in Dir : Range(t[e].names) \cap t[d].files \subseteq Range(t[d].names)
InOrder == NoneAstray(tree) => InOrderOf(applied, Meant)

=============================================================================
