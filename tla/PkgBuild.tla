------------------------------ MODULE PkgBuild ------------------------------
(***************************************************************************)
(* The generic package infrastructure (package/pkg-generic.mk) as it is    *)
(* driven by the top-level Makefile: one make process at a time            *)
(* (.NOTPARALLEL) walks the steps of the packages a command asks for, runs *)
(* the recipe of each step whose stamp file is missing, and stops at the   *)
(* first recipe that fails.  Between two makes only files survive: the     *)
(* stamps, the build directory of each package, and the staging, target,   *)
(* images, host and xpackage directories.                                  *)
(***************************************************************************)
EXTENDS Naturals, FiniteSets

CONSTANTS
    Pkg,            \* every package known to the .mk files, host- ones included
    HostPkg,        \* the host-* packages, installed in HOST_DIR
    Override,       \* packages with <PKG>_OVERRIDE_SRCDIR set
    InStaging,      \* <PKG>_INSTALL_STAGING = YES
    InTarget,       \* <PKG>_INSTALL_TARGET = YES
    InImages,       \* <PKG>_INSTALL_IMAGES = YES
    Deps,           \* <PKG>_DEPENDENCIES
    Patches,        \* number of patches the patch step of each package applies
    Enabled,        \* TARGETS: the packages selected by the .config
    Base,           \* BASE_TARGETS: what "world" builds before any of TARGETS
    HostOpkg,       \* host-opkg, the package that provides opkg-cl
    NoPkg,          \* the subject of a make that names no package
    Goals,          \* the command-line goals considered
    Fallible,       \* the recipes that may fail or be interrupted half-way
    ByHand,         \* the stamp files the developer removes with rm
    MaxVersion,     \* bound: versions an override source directory goes through
    MaxFail,        \* bound: recipe failures in a behaviour
    MaxList         \* bound: entries of one package counted in Packages

(***************************************************************************)
(* The steps that leave a product, and the ones that only take something   *)
(* away.  No recipe of the second kind ends in a "touch $@", and the one   *)
(* of .stamp_xpackage_installed is commented out, so that these recipes    *)
(* run each time make meets them; .stamp_target_installed is remade with   *)
(* its prerequisite, the xpackage stamp that never exists.                 *)
(***************************************************************************)
InstallStep == {"host", "staging", "images", "target"}
Step == {"source", "extract", "rsync", "patch", "configure", "build",
         "xpackage"} \cup InstallStep
Removal == {"clear", "clear_configure", "uninstall", "clean", "dirclean"}
AlwaysRun == {"xpackage", "target"} \cup Removal

WorldGoal == {"all", "rebuild", "reconfigure"}
NoPkgGoal == {"all", "makeclean"}
Goal == Step \cup {"all", "makeclean", "pkg", "rebuild", "reconfigure",
                   "uninstall", "clean", "dirclean"}

Absent == 0                     \* no product, or one left half-made
Version == 1 .. MaxVersion
MaybeVersion == 0 .. MaxVersion

ASSUME PkgAssumption ==
    /\ HostPkg \subseteq Pkg /\ Override \subseteq Pkg
    /\ Enabled \subseteq Pkg /\ Base \subseteq Pkg
    /\ HostOpkg \in HostPkg
    /\ NoPkg \notin Pkg
    /\ Deps \in [Pkg -> SUBSET Pkg]
    /\ Patches \in [Pkg -> Nat]
ASSUME BoundAssumption ==
    /\ MaxVersion \in Nat \ {0} /\ MaxFail \in Nat /\ MaxList \in Nat \ {0}
    /\ Goals \subseteq Goal
    /\ Fallible \subseteq Step \cup {"clear", "uninstall", "clean", "make"}
    /\ ByHand \subseteq {"configure", "build"} \cup InstallStep

-----------------------------------------------------------------------------
(***************************************************************************)
(* The target sequencing of inner-generic-package.                         *)
(***************************************************************************)

\* The step that puts a source tree into the build directory.
SourceStep(p) == IF p \in Override THEN "rsync" ELSE "extract"

\* What configure finds prepared: a synced tree is never patched.
PrepStep(p) == IF p \in Override THEN "rsync" ELSE "patch"

\* The installations of <pkg>-install.
Installs(p) ==
    IF p \in HostPkg
    THEN {"host"}
    ELSE {s \in {"staging", "target", "images"} :
            \/ s = "staging" /\ p \in InStaging
            \/ s = "target"  /\ p \in InTarget
            \/ s = "images"  /\ p \in InImages}

PrepSteps(p) == IF p \in Override THEN {"rsync"}
                                  ELSE {"source", "extract", "patch"}
BuildSteps(p) == PrepSteps(p) \cup {"configure", "build"}

AllSteps(p) == BuildSteps(p) \cup Installs(p) \cup
               (IF "target" \in Installs(p) THEN {"xpackage"} ELSE {})

\* What <pkg>-install goes through; a package with no installation at all is
\* never built, the <pkg>-install-* targets having no prerequisite then.
Steps(p) == IF Installs(p) = {} THEN {} ELSE AllSteps(p)

\* The steps of its own that <pkg>-<s> goes through, s included; extracting or
\* patching a package with an OVERRIDE_SRCDIR means syncing it.
Upto(p, s) ==
    {r \in AllSteps(p) :
        \/ r = s
        \/ s \in {"extract", "patch"} /\ r \in {"source", "rsync"}
        \/ s = "patch" /\ r = "extract"
        \/ s \in {"configure", "build"} /\ r \in PrepSteps(p)
        \/ s = "build" /\ r = "configure"
        \/ s \in AllSteps(p) \ BuildSteps(p) /\ r \in BuildSteps(p)
        \/ s = "target" /\ s \in Installs(p) /\ r = "xpackage"}

\* A task is a step of one package: a stamp file make has to look at.
TaskOf(P, t) == t[1] \in P /\ t[2] \in Steps(t[1])
Tasks(P) == {t \in Pkg \X Step : TaskOf(P, t)}

\* P and everything it depends on, directly or not.
Closure == [P \in SUBSET Pkg |->
               {q \in Pkg :
                   \A S \in SUBSET Pkg :
                       P \subseteq S /\ (\A p \in S : Deps[p] \subseteq S) => q \in S}]
Needs(P) == Closure[P]

World == Needs(Enabled \cup Base)
BasePkgs == Needs(Base)
BaseTasks == Tasks(BasePkgs)

Task == Pkg \X (Step \cup Removal)

\* The step of the named package that a goal ends in: its own, and for
\* -uninstall and -clean the configuration they ask for first.
LastStep(g) == IF g \in Step THEN {g}
               ELSE IF g \in {"uninstall", "clean"} THEN {"configure"} ELSE {}

\* Every task that make has to consider for goal g on package p.
Wanted(g, p) ==
    {t \in Task :
        \/ g \in WorldGoal /\ TaskOf(World, t)
        \/ g = "pkg" /\ TaskOf(Needs({p}), t)
        \/ g \in {"rebuild", "reconfigure"} /\ t = <<p, "clear">>
        \/ g = "reconfigure" /\ t = <<p, "clear_configure">>
        \/ g = "dirclean" /\ t = <<p, "dirclean">>
        \/ g \in {"uninstall", "clean"} /\ t = <<p, "uninstall">>
        \/ g = "clean" /\ t = <<p, "clean">>
        \/ \E s \in LastStep(g) :
              \/ t[1] = p /\ t[2] \in Upto(p, s)
              \/ "configure" \in Upto(p, s) /\ TaskOf(Needs(Deps[p]), t)}

\* The same as a table.
Plan == [g \in Goal |-> [p \in Pkg \cup {NoPkg} |-> Wanted(g, p)]]

\* The steps of one package in the order of the prerequisite lists: the first
\* of a pair is a prerequisite of the second, or stands to the left of it.
StepOrder == [p \in Pkg |->
    {<<"source", "extract">>, <<"extract", "patch">>, <<PrepStep(p), "configure">>,
     <<"configure", "build">>, <<"xpackage", "target">>,
     <<"configure", "uninstall">>, <<"uninstall", "clean">>,
     <<"clear", "clear_configure">>}
    \cup ({"build"} \X {"xpackage", "host", "staging", "images"})]

\* Mutants of Precedes: no <pkg>-depends, and TARGETS without BASE_TARGETS.
PrecedesNoDeps(g, t, u) ==
    \/ t[1] = u[1] /\ <<t[2], u[2]>> \in StepOrder[u[1]]
    \/ t[2] \in {"clear", "clear_configure"} /\ u[2] \in Step
    \/ g \in WorldGoal /\ u[2] \in Step /\ t \in BaseTasks /\ u[1] \notin BasePkgs

PrecedesNoBase(g, t, u) ==
    \/ t[1] = u[1] /\ <<t[2], u[2]>> \in StepOrder[u[1]]
    \/ u[2] = "configure" /\ t[1] \in Deps[u[1]] /\ t[2] \in Steps(t[1])
    \/ t[2] \in {"clear", "clear_configure"} /\ u[2] \in Step

\* make comes to task t before it comes to task u: the steps of a package in
\* their order, its dependencies before it is configured, the stamps that
\* -rebuild and -reconfigure remove before "all", BASE_TARGETS before TARGETS.
Precedes(g, t, u) ==
    \/ t[1] = u[1] /\ <<t[2], u[2]>> \in StepOrder[u[1]]
    \/ u[2] = "configure" /\ t[1] \in Deps[u[1]] /\ t[2] \in Steps(t[1])
    \/ t[2] \in {"clear", "clear_configure"} /\ u[2] \in Step
    \/ /\ g \in WorldGoal /\ u[2] \in Step
       /\ t \in BaseTasks /\ u[1] \notin BasePkgs

\* make drops a circular dependency; the .mk files have none.
ASSUME AcyclicAssumption == \A p \in Pkg : p \notin Needs(Deps[p])

-----------------------------------------------------------------------------
VARIABLES
    stamps,   \* the .stamp_* files in the build directory of each package
    have,     \* version of the product each step of a package has left, or Absent
    applied,  \* patches applied to the tree in the build directory
    edit,     \* version of the package's own source (archive or OVERRIDE_SRCDIR)
    opkgdb,   \* packages recorded as installed in the target's opkg database
    kept,     \* ghost: packages whose .opk opkg-cl was given last and took for installed
    listed,   \* entries of each package in xpackage/Packages
    goal,     \* the goal of the current or latest make
    subject,  \* the package that goal names
    asked,    \* the version of subject's source when that make was started
    todo,     \* tasks the running make has still to consider
    ran,      \* tasks whose recipe the running make had to run
    result,   \* "none", "running", "ok" or "failed": state of the latest make
    fails     \* recipe failures so far

files == <<stamps, have, applied, opkgdb, kept, listed>>
make == <<goal, subject, asked, todo, ran, result>>
vars == <<files, edit, make, fails>>

Init ==
    /\ stamps = [p \in Pkg |-> {}]
    /\ have = [p \in Pkg |-> [s \in Step |-> Absent]]
    /\ applied = [p \in Pkg |-> 0]
    /\ edit = [p \in Pkg |-> 1]
    /\ opkgdb = {} /\ kept = {}
    /\ listed = [p \in Pkg |-> 0]
    /\ goal = "all" /\ subject = NoPkg /\ asked = Absent
    /\ todo = {} /\ ran = {} /\ result = "none" /\ fails = 0

-----------------------------------------------------------------------------
(***************************************************************************)
(* make itself.                                                            *)
(***************************************************************************)

\* The developer types "make g" or "make p-g".
Start(g, p) ==
    /\ result # "running"
    /\ g \in Goals
    /\ (g \in NoPkgGoal) <=> (p = NoPkg)
    /\ goal' = g /\ subject' = p
    /\ asked' = IF p = NoPkg THEN Absent ELSE edit[p]
    /\ todo' = Plan[g][p] /\ ran' = {} /\ result' = "running"
    /\ UNCHANGED <<files, edit, fails>>

\* The make process ends with result r.
Exits(r) ==
    /\ result' = r
    /\ todo' = {} /\ ran' = {}
    /\ UNCHANGED <<edit, goal, subject, asked>>

\* Everything the goal asked for has been dealt with: make exits with 0.
Finish ==
    /\ result = "running" /\ goal # "makeclean" /\ todo = {}
    /\ Exits("ok")
    /\ UNCHANGED <<files, fails>>

\* make has come to step s of p.
CanDo(p, s) ==
    /\ <<p, s>> \in todo
    /\ \A t \in todo : ~Precedes(goal, t, <<p, s>>)

\* ... and has to run its recipe.
Runs(p, s) == (s \in AlwaysRun \/ s \notin stamps[p]) /\ CanDo(p, s)

\* The stamp is there: nothing to do for this step.
UpToDate(p, s) ==
    /\ s \in stamps[p] \ AlwaysRun /\ CanDo(p, s)
    /\ todo' = todo \ {<<p, s>>}
    /\ UNCHANGED <<files, edit, goal, subject, asked, ran, result, fails>>

\* The recipe of step s of p ran to its end.
Ran(p, s) ==
    /\ Runs(p, s)
    /\ todo' = todo \ {<<p, s>>}
    /\ ran' = ran \cup {<<p, s>>}
    /\ UNCHANGED <<edit, goal, subject, asked, result, fails>>

Touch(p, s) == stamps' = [stamps EXCEPT ![p] = @ \cup {s}]
Leave(p, s, v) == have' = [have EXCEPT ![p][s] = v]

\* The version of the source tree now in the build directory of p.
Tree(p) == have[p][SourceStep(p)]

-----------------------------------------------------------------------------
(***************************************************************************)
(* The recipes, run to their end.                                          *)
(***************************************************************************)

Download(p) ==
    /\ Ran(p, "source")
    /\ Leave(p, "source", edit[p]) /\ Touch(p, "source")
    /\ UNCHANGED <<applied, opkgdb, kept, listed>>

Extract(p) ==
    /\ Ran(p, "extract")
    /\ Leave(p, "extract", have[p]["source"]) /\ Touch(p, "extract")
    /\ UNCHANGED <<applied, opkgdb, kept, listed>>

Rsync(p) ==
    /\ Ran(p, "rsync")
    /\ Leave(p, "rsync", edit[p]) /\ Touch(p, "rsync")
    /\ UNCHANGED <<applied, opkgdb, kept, listed>>

\* apply-patches.sh gives every patch to patch(1), which refuses one that is
\* already in the tree: the recipe only succeeds on an unpatched tree.
Patch(p) ==
    /\ Ran(p, "patch")
    /\ applied[p] = 0
    /\ applied' = [applied EXCEPT ![p] = @ + Patches[p]]
    /\ Leave(p, "patch", Tree(p)) /\ Touch(p, "patch")
    /\ UNCHANGED <<opkgdb, kept, listed>>

PatchRejected(p) ==
    /\ Runs(p, "patch")
    /\ applied[p] > 0
    /\ Exits("failed")
    /\ UNCHANGED <<files, fails>>

Configure(p) ==
    /\ Ran(p, "configure")
    /\ Leave(p, "configure", Tree(p)) /\ Touch(p, "configure")
    /\ UNCHANGED <<applied, opkgdb, kept, listed>>

Build(p) ==
    /\ Ran(p, "build")
    /\ Leave(p, "build", Tree(p)) /\ Touch(p, "build")
    /\ UNCHANGED <<applied, opkgdb, kept, listed>>

Install(p, s) ==
    /\ s \in {"host", "staging", "images"}
    /\ Ran(p, s)
    /\ Leave(p, s, have[p]["build"]) /\ Touch(p, s)
    /\ UNCHANGED <<applied, opkgdb, kept, listed>>

\* The package is installed in a directory of its own, packed as an .opk and
\* appended to the Packages file; the stamp is not touched.
XPackage(p) ==
    /\ Ran(p, "xpackage")
    /\ Leave(p, "xpackage", have[p]["build"])
    /\ listed' = [listed EXCEPT ![p] = IF @ < MaxList THEN @ + 1 ELSE @]
    /\ kept' = kept \ {p}
    /\ UNCHANGED <<stamps, applied, opkgdb>>

\* opkg-cl is given the .opk and installs it in TARGET_DIR.  A package that is in
\* its database, and of which it is given the same version with no more than
\* --force-overwrite, it may take for installed and leave as it is.
XPkg(p) ==
    /\ Ran(p, "target")
    /\ have[HostOpkg]["host"] # Absent
    /\ \/ Leave(p, "target", have[p]["xpackage"]) /\ kept' = kept \ {p}
       \/ p \in opkgdb /\ UNCHANGED have /\ kept' = kept \cup {p}
    /\ opkgdb' = opkgdb \cup {p}
    /\ Touch(p, "target")
    /\ UNCHANGED <<applied, listed>>

\* HOST_DIR/usr/bin/opkg-cl is not there: nobody has built host-opkg yet.
OpkgMissing(p) ==
    /\ Runs(p, "target")
    /\ have[HostOpkg]["host"] = Absent
    /\ Exits("failed")
    /\ UNCHANGED <<files, fails>>

-----------------------------------------------------------------------------
(***************************************************************************)
(* The recipes that remove.                                                *)
(***************************************************************************)

\* The rm -f lines of <pkg>-clean-for-rebuild, in their order (only a package
\* with an OVERRIDE_SRCDIR has the stamp of the first).
ClearOrder == [rsync |-> 1, build |-> 2, staging |-> 3, target |-> 4,
               xpackage |-> 5, images |-> 6, host |-> 7]
Clearable == {"rsync", "build", "staging", "target", "xpackage", "images", "host"}

\* Mutants of Clear: one stamp, or all but the installations, is forgotten.
ClearBut(p, spared) ==
    /\ Ran(p, "clear")
    /\ stamps' = [stamps EXCEPT ![p] = @ \ (Clearable \ spared)]
    /\ UNCHANGED <<have, applied, opkgdb, kept, listed>>
ClearKeepsImages(p) == ClearBut(p, {"images"})
ClearKeepsBuild(p) == ClearBut(p, {"build"})

Clear(p) ==
    /\ Ran(p, "clear")
    /\ stamps' = [stamps EXCEPT ![p] = @ \ Clearable]
    /\ UNCHANGED <<have, applied, opkgdb, kept, listed>>

ClearConfigure(p) ==
    /\ Ran(p, "clear_configure")
    /\ stamps' = [stamps EXCEPT ![p] = @ \ {"configure"}]
    /\ UNCHANGED <<have, applied, opkgdb, kept, listed>>

\* The stamps go first; the uninstall commands of the package, if it has any,
\* take the files of the installations in "gone" away.  opkg's database is
\* not told.
Uninstalled(p, gone) ==
    /\ gone \subseteq Installs(p) \cap {"staging", "target"}
    /\ stamps' = [stamps EXCEPT ![p] = @ \ {"staging", "target", "xpackage"}]
    /\ have' = [have EXCEPT ![p] = [s \in Step |-> IF s \in gone THEN Absent ELSE have[p][s]]]
    /\ kept' = kept \ {p}
    /\ UNCHANGED <<applied, opkgdb, listed>>

Uninstall(p) ==
    /\ Ran(p, "uninstall")
    /\ \E gone \in SUBSET {"staging", "target"} : Uninstalled(p, gone)

\* CLEAN_CMDS take the objects away, and the stamp goes after them.
Clean(p) ==
    /\ Ran(p, "clean")
    /\ \/ Leave(p, "build", Absent)
       \/ UNCHANGED have                    \* the package defines no CLEAN_CMDS
    /\ stamps' = [stamps EXCEPT ![p] = @ \ {"build"}]
    /\ UNCHANGED <<applied, opkgdb, kept, listed>>

InBuildDir == {"extract", "rsync", "patch", "configure", "build"}

\* Mutant of Dirclean: only the stamps are removed.
DircleanStamps(p) ==
    /\ Ran(p, "dirclean")
    /\ stamps' = [stamps EXCEPT ![p] = {}]
    /\ UNCHANGED <<have, applied, opkgdb, kept, listed>>

Dirclean(p) ==
    /\ Ran(p, "dirclean")
    /\ stamps' = [stamps EXCEPT ![p] = {}]
    /\ have' = [have EXCEPT ![p] = [s \in Step |-> IF s \in InBuildDir THEN Absent ELSE have[p][s]]]
    /\ applied' = [applied EXCEPT ![p] = 0]
    /\ UNCHANGED <<opkgdb, kept, listed>>

\* Mutant of MakeClean: BUILD_DIR, with the stamps in it, survives.
MakeCleanKeepsBuild ==
    /\ result = "running" /\ goal = "makeclean"
    /\ have' = [p \in Pkg |-> [s \in Step |->
                   IF s \in InstallStep THEN Absent ELSE have[p][s]]]
    /\ opkgdb' = {} /\ kept' = {}
    /\ Exits("ok")
    /\ UNCHANGED <<stamps, applied, listed, fails>>

\* "make clean": rm -rf of the build, staging, target, images and host
\* directories; the downloads and xpackage/ stay.
MakeClean ==
    /\ result = "running" /\ goal = "makeclean"
    /\ stamps' = [p \in Pkg |-> {}]
    /\ have' = [p \in Pkg |-> [s \in Step |->
                   IF s \in InBuildDir \cup InstallStep THEN Absent ELSE have[p][s]]]
    /\ applied' = [p \in Pkg |-> 0]
    /\ opkgdb' = {} /\ kept' = {}
    /\ Exits("ok")
    /\ UNCHANGED <<listed, fails>>

-----------------------------------------------------------------------------
(***************************************************************************)
(* The recipes that do not run to their end.                               *)
(***************************************************************************)

Fails(p, s) ==
    /\ fails < MaxFail /\ s \in Fallible /\ Runs(p, s)
    /\ fails' = fails + 1
    /\ Exits("failed")

\* A download that fails leaves the archive alone; any other step leaves its
\* product half-made.  None of them reaches its "touch $@".
StepFails(p, s) ==
    /\ Fails(p, s)
    /\ \/ s = "source" /\ UNCHANGED have
       \/ s \in Step \ {"source", "patch"} /\ Leave(p, s, Absent)
    /\ kept' = IF s \in {"xpackage", "target"} THEN kept \ {p} ELSE kept
    /\ UNCHANGED <<stamps, applied, opkgdb, listed>>

\* Mutant of PatchFails: the "|| exit 1" of the loop is lost.
PatchFailsUnseen(p) ==
    /\ Ran(p, "patch") /\ applied[p] = 0
    /\ \E n \in 0 .. Patches[p] : applied' = [applied EXCEPT ![p] = n]
    /\ Leave(p, "patch", Tree(p)) /\ Touch(p, "patch")
    /\ UNCHANGED <<opkgdb, kept, listed>>

\* The patch step stops after n patches, the last ones refused or a hook failed.
PatchFails(p) ==
    /\ Fails(p, "patch") /\ applied[p] = 0
    /\ \E n \in 0 .. Patches[p] : applied' = [applied EXCEPT ![p] = n]
    /\ Leave(p, "patch", Absent)
    /\ UNCHANGED <<stamps, opkgdb, kept, listed>>

ClearFails(p) ==
    /\ Fails(p, "clear")
    /\ \E n \in 1 .. 6 :
          stamps' = [stamps EXCEPT ![p] = @ \ {s \in Clearable : ClearOrder[s] <= n}]
    /\ UNCHANGED <<have, applied, opkgdb, kept, listed>>

UninstallFails(p) ==
    /\ Fails(p, "uninstall")
    /\ \E gone \in SUBSET {"staging", "target"} : Uninstalled(p, gone)

CleanFails(p) ==
    /\ Fails(p, "clean")
    /\ Leave(p, "build", Absent)
    /\ UNCHANGED <<stamps, applied, opkgdb, kept, listed>>

\* Ctrl-C between two recipes.
Interrupt ==
    /\ result = "running" /\ "make" \in Fallible /\ fails < MaxFail
    /\ fails' = fails + 1
    /\ Exits("failed")
    /\ UNCHANGED files

-----------------------------------------------------------------------------
(***************************************************************************)
(* What the developer does besides typing make.                            *)
(***************************************************************************)

\* Work goes on in an OVERRIDE_SRCDIR at any time, during a make included.
Edit(p) ==
    /\ p \in Override /\ edit[p] < MaxVersion
    /\ edit' = [edit EXCEPT ![p] = @ + 1]
    /\ UNCHANGED <<files, make, fails>>

RemoveStamp(p, s) ==
    /\ result # "running"
    /\ s \in ByHand \cap stamps[p]
    /\ stamps' = [stamps EXCEPT ![p] = @ \ {s}]
    /\ UNCHANGED <<have, applied, opkgdb, kept, listed, edit, make, fails>>

Recipe(p) ==
    \/ Download(p) \/ Extract(p) \/ Rsync(p) \/ Patch(p) \/ PatchRejected(p)
    \/ Configure(p) \/ Build(p) \/ \E s \in InstallStep : Install(p, s)
    \/ XPackage(p) \/ XPkg(p) \/ OpkgMissing(p)
    \/ Clear(p) \/ ClearConfigure(p) \/ Uninstall(p) \/ Clean(p) \/ Dirclean(p)
    \/ \E s \in Step : UpToDate(p, s)

Failure(p) ==
    \/ \E s \in Step : StepFails(p, s)
    \/ PatchFails(p) \/ ClearFails(p) \/ UninstallFails(p) \/ CleanFails(p)

Running == Finish \/ MakeClean \/ \E p \in Pkg : Recipe(p)

Next ==
    \/ Running
    \/ Interrupt
    \/ \E p \in Pkg : Failure(p) \/ Edit(p)
    \/ \E p \in Pkg, s \in Step : RemoveStamp(p, s)
    \/ \E g \in Goal, p \in Pkg \cup {NoPkg} : Start(g, p)

Spec == Init /\ [][Next]_vars

-----------------------------------------------------------------------------
(***************************************************************************)
(* Properties.                                                             *)
(***************************************************************************)

\* What the running make is done with.
Dealt == Plan[goal][subject] \ todo

\* Every variable holds what its comment says, and no tree has more patches
\* than its package.
TypeOK ==
    /\ stamps \in [Pkg -> SUBSET Step]
    /\ have \in [Pkg -> [Step -> MaybeVersion]]
    /\ applied \in [Pkg -> Nat] /\ \A p \in Pkg : applied[p] <= Patches[p]
    /\ edit \in [Pkg -> Version]
    /\ opkgdb \subseteq Pkg /\ kept \subseteq Pkg
    /\ listed \in [Pkg -> 0 .. MaxList]
    /\ goal \in Goal /\ subject \in Pkg \cup {NoPkg}
    /\ asked \in MaybeVersion
    /\ todo \subseteq Task /\ ran \subseteq Task
    /\ result \in {"none", "running", "ok", "failed"}
    /\ fails \in 0 .. MaxFail

\* A stamp file means that its step has been done: the product is there, whole.
\* Not so for .stamp_target_installed, which survives a failed re-installation.
StampMeansDone ==
    \A p \in Pkg : \A s \in stamps[p] \ AlwaysRun : have[p][s] # Absent

\* ... and that the product was made from the tree now in the build directory:
\* no sequence of makes, edits and failures leaves a stamp over the objects or
\* the installation of an earlier tree.
StampMeansFresh ==
    \A p \in Pkg : \A s \in stamps[p] \cap {"build", "host", "staging", "images"} :
        have[p][s] = Tree(p)

\* No patch is applied twice, however often the patch step is interrupted and
\* retried: a stamped tree has each patch once.
PatchedOnce ==
    \A p \in Pkg : "patch" \in stamps[p] => applied[p] = Patches[p]

\* The inductive invariant behind the two: besides them,
\* make only works on what the goal wants, in the order of Precedes; ...
DealtInOrder ==
    /\ todo # {} => result = "running"
    /\ todo \subseteq Plan[goal][subject]
    /\ \A u \in todo, t \in Dealt : ~Precedes(goal, u, t)

\* ... what it has dealt with has its stamp; ...
DealtStamped ==
    result = "running" =>
        LET dealt == Dealt IN
        \A p \in Pkg : \A s \in Step \ AlwaysRun : <<p, s>> \in dealt => s \in stamps[p]

\* ... and a source step that has lost its stamp has taken along those of all
\* that was made from its tree.
SourceFirst ==
    \A p \in Pkg : stamps[p] \cap {"build", "host", "staging", "images"} # {} =>
        SourceStep(p) \in stamps[p]

StampInv ==
    /\ StampMeansDone /\ StampMeansFresh
    /\ DealtInOrder /\ DealtStamped /\ SourceFirst

\* A package configured anew is compiled anew, and one compiled anew is
\* installed anew, in the make that did it: no stamp stops the chain.
RerunGoesDown ==
    result = "running" =>
        \A p \in Pkg :
            /\ <<p, "configure">> \in ran /\ <<p, "build">> \in Dealt =>
                   <<p, "build">> \in ran
            /\ \A s \in InstallStep :
                   <<p, "build">> \in ran /\ <<p, s>> \in Dealt => <<p, s>> \in ran

\* What installation s of p has been given: its files, or, where opkg-cl took the
\* package for installed, the .opk that it was given.
Got(p, s) == IF s = "target" /\ p \in kept THEN have[p]["xpackage"] ELSE have[p][s]

\* A successful "make all" (-rebuild and -reconfigure end in it) has given every
\* package of the configuration and all it depends on to every installation it
\* asks for, in the version last compiled.
WorldInstalled ==
    result = "ok" /\ goal \in WorldGoal =>
        \A p \in World : \A s \in Installs(p) :
            Got(p, s) # Absent /\ Got(p, s) = have[p]["build"]

\* A successful <pkg>-rebuild installs the source as it was when the command
\* was given, or newer, even if earlier makes failed half-way; an .opk of it is
\* what opkg-cl is given.
RebuildDelivers ==
    result = "ok" /\ goal \in {"rebuild", "reconfigure"} /\ subject \in World =>
        \A s \in Installs(subject) : Got(subject, s) >= asked

\* A package is configured when everything it depends on is installed.
DepsFirst ==
    [][\A p \in Pkg : Configure(p) =>
          \A d \in Deps[p] : \A s \in Installs(d) : Got(d, s) # Absent]_vars

\* The build delivers packages in dependency order (module Delivery): a package
\* is not complete in staging, target and images before all it needs is.
Delivered == {p \in Pkg : \A s \in Installs(p) : Got(p, s) # Absent}
D == INSTANCE Delivery WITH ready <- Delivered,
                            Void <- {p \in Pkg : Installs(p) = {}}
DeliversInOrder == D!Spec

\* As long as no recipe fails by itself, no make of the whole configuration
\* does: opkg-cl, which the target installations need and no package names as
\* a dependency, is there in time, and no tree is patched a second time.
MakeSucceeds == fails = 0 => result # "failed"

-----------------------------------------------------------------------------
(***************************************************************************)
(* A developer who answers "Patch failed!  Please fix ..." and a -clean    *)
(* that stopped half-way with <pkg>-dirclean, and any other failure with a *)
(* new "make"; in between there may be a -clean or a -rebuild of a package *)
(* under development, whatever state its tree is in.                       *)
(***************************************************************************)
HalfPatched == {p \in Pkg : applied[p] > 0 /\ "patch" \notin stamps[p]}
HalfCleaned == {p \in Pkg : \E s \in stamps[p] \ AlwaysRun : have[p][s] = Absent}
Spoilt == HalfPatched \cup HalfCleaned

Retry ==
    \/ Spoilt = {} /\ Start("all", NoPkg)
    \/ \E p \in Spoilt : Start("dirclean", p)
Develop == \E p \in Override : Start("rebuild", p) \/ Start("clean", p)

RetryNext ==
    Running \/ Interrupt \/ Retry \/ Develop \/ \E p \in Pkg : Failure(p) \/ Edit(p)

RetrySpec == Init /\ [][RetryNext]_vars /\ WF_vars(Running) /\ SF_vars(Retry)

\* Whatever recipe fails, and wherever it stops, this developer gets a complete
\* build in the end.
Recovers == []<>(result = "ok" /\ goal = "all" /\ World \subseteq Delivered)

=============================================================================
