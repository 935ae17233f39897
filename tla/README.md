# A verification project for v2r_buildroot

v2r_buildroot is the virt2real fork of Buildroot 2013.05: a set of makefiles
and scripts that download, patch, configure, compile and install a few hundred
packages and make root filesystem images of the result, and Kconfig, the
programs with which a user says what is to be built. There is no daemon and no
database. The state of the build is a set of files (stamps, trees, archives,
installed files), and the program is what make does to them, one command after
another, with failures and edits in between; the state of Kconfig is a menu
tree, the values of its symbols and `.config`.

## 1. Inventory

| Component | Source | State it keeps | Operations | Modelled by |
|---|---|---|---|---|
| Generic package infrastructure | `package/pkg-generic.mk` | `.stamp_*` of each package, its build directory, what it installed, the opkg database, `xpackage/Packages` | one recipe per stamp; the goals `<pkg>`, `<pkg>-<step>`, `-rebuild`, `-reconfigure`, `-uninstall`, `-clean`, `-dirclean` | `PkgBuild`, `Delivery` |
| Top-level Makefile | `Makefile` | output directories, `auto.conf` | `all`/`world`, `clean`, the rule for `auto.conf`; finalization, locales, legal-info, help | `PkgBuild`, `Images` (what follows the packages), `KFiles` (`auto.conf`) |
| Download helpers | `package/pkg-download.mk` | `DL_DIR`: archives, `.tmp` files, working copies | DOWNLOAD through primary site, site and backup, seven methods | `Download` |
| Patch script and its callers | `support/scripts/apply-patches.sh`, the patch steps of `pkg-generic.mk` and `linux.mk` | source tree, `.applied_patches_list` | scan a directory, apply a patch, once for each directory | `ApplyPatches` |
| User script | `support/scripts/mkusers` | `passwd`, `shadow`, `group`, `gshadow` of the target | add groups, check and add users | `MkUsers` |
| makedevs | `package/makedevs/makedevs.c` | nodes, owners and modes of the target | interpret the device table | `MakeDevs` |
| Filesystem images | `fs/common.mk`, `fs/*/*.mk` | `TARGET_DIR`, images, the warning file | generate an image under fakeroot | `Images` |
| Linux kernel | `linux/linux.mk` | kernel tree, stamps, its image | configure with an initramfs, build, append a device tree, menuconfig, rebuild | `Images` |
| Kconfig: expressions and menus | `support/kconfig/expr.c`, `menu.c`, `zconf.y` | dependency expressions, the menu tree | simplify, finalize, look for circles | `KExpr`, `KMenu` |
| Kconfig: symbols, conf | `symbol.c`, `conf.c`, `confdata.c` | values and their cache | evaluate, set, ask, read, write | `KSymbol`, `KConf` |
| Kconfig: dialogs | `lxdialog/*.c`, `nconf.c`, `nconf.gui.c` | what is on the screen | move, scroll, type, search, resize | `KMenubox`, `KInputbox`, `KTextbox`, `KNMenu` |
| Kconfig: sessions and files | `mconf.c`, `nconf.c`, `gconf.c`, `qconf.cc`, `confdata.c` | `.config`, `.config.old`, `auto.conf`, `autoconf.h`, `<option>.h`, the change count | load, save, save as, leave, be killed; silentoldconfig from make | `KFiles`, `KSession`, `KTextFronts`, `KWindowFronts` |
| External toolchain wrapper, toolchains, elf2flt | `toolchain/` | none | build an argument vector; copy and configure | not modelled |
| virt2real device scripts | `board/virt2real/v1mass/rootfs-additions` | processes and files on the device | watchdog, wlan, video, flasher, update | not modelled |
| Legal info, host checks, graphs, gnuconfig | `Makefile`, `support/` | reports | copy and print | not modelled |
| Package recipes, configurations | `package/*/`, `configs/`, `board/` | none | data of the infrastructure | values of constants |

How they interact: a user edits `.config` with one of the four editors of
Kconfig; make includes it, and runs `conf --silentoldconfig` when it is newer
than `auto.conf`. make calls the recipes of a package in the order of the
prerequisite lists; the recipe of `.stamp_downloaded` expands DOWNLOAD, the one
of `.stamp_patched` calls apply-patches.sh, the one of `.stamp_target_installed`
runs `opkg-cl`, which another package (host-opkg) provides; an image recipe runs
mkusers, and under fakeroot makedevs and an archiver, on the `TARGET_DIR` that
packages and earlier images have left; the kernel may be linked again with one of
these images in it. Everything passes through files. The top Makefile is
`.NOTPARALLEL` (line 45), so one make does one thing at a time; concurrency comes
from the developer, who edits a source tree or saves a configuration while make
runs, and from a second build that shares `DL_DIR`.

What is hard, and what makes each component correct:

- **Package infrastructure.** A stamp survives for months while the tree, the
  package's installations and its dependencies change under it. A recipe can
  stop anywhere; make deletes nothing then. Correct: a stamp stands for a whole
  product of the current tree; what is rebuilt is reinstalled; dependencies come
  first; a retry reaches a complete build.
- **Download.** The only test is `test -e`. Correct: what is accepted is whole,
  though any source may fail or be killed, and whatever others do to `DL_DIR`.
- **apply-patches.sh.** Status is that of the last command of a pipe, and a
  recursive function uses global variables. Correct: a run that succeeds has
  applied exactly the patches there are, in order.
- **mkusers.** Five loops over one table, each acting on what the others wrote,
  the check last. Correct: ids are unique and as asked, members are complete,
  gshadow is in sync, and the next run changes nothing.
- **makedevs and the images.** Lines that overlap each other and the remains of
  earlier sessions; a script that does not look at what fails; a kernel linked
  before and after the image it carries. Correct: the last line that asks for a
  path gets it; a make that succeeds leaves images of this make, which agree.
- **Expressions and menus.** Rewriting in place, in an order that depends on the
  file, by rules of which some hold for two values only. Correct: every question,
  default and select applies exactly when it was declared to.
- **Symbols and conf.** Lazy evaluation with a cache that user actions
  invalidate; choices and selects override what is set; what is written is read
  by the next session. Correct: no stale value, every value legal, nothing asked
  twice, every session ends.
- **Dialogs.** Only what changes is drawn. Correct: the row that is highlighted
  is the item the next key acts upon; no line of a text is passed by unseen.
- **Sessions and files.** Several system calls to replace a file, any of which may
  fail; four programs with one change counter. Correct: what was saved stays
  saved; nobody leaves with changes lost and not told; `auto.conf` follows.

`PROJECT.json` lists the hazards with their lines.

## 2. The modules

### PkgBuild, Delivery, MCPkgBuild, PkgBuildProofs, PkgInstallProofs

`PkgBuild` is pkg-generic.mk under the Makefile. `Wanted(g, p)` (`Plan` as a
table) is the set of tasks (package, step) that make reaches from goal `g` on `p`; `Precedes` is the
order that the prerequisite lists impose. One make is `Start`, then a step per
task in an order allowed by `Precedes` (the model takes every such order, make
one of them), then `Finish` or a failure. Of the variables, `stamps`, `have`,
`applied`, `opkgdb` and `listed` are files and survive; `todo` and `ran` belong
to the running make. `have[p][s]` is the *version* of the source from which the
product of step `s` was made, `Absent` if there is none or only a part; so a
stale product is one whose version differs from that of the tree.

Each recipe is an action of its own (`Download`, `Extract`, `Rsync`, `Patch`,
`Configure`, `Build`, `Install`, `XPackage`, `XPkg`, `Clear`, `ClearConfigure`,
`Uninstall`, `Clean`, `Dirclean`, `MakeClean`), with its failure beside it
(`StepFails`, `PatchFails`, ...). `UpToDate` is make finding the stamp. The
recipes whose stamp is never touched run every time (`AlwaysRun`): the `touch` of
`.stamp_xpackage_installed` is commented out in this fork, and
`.stamp_target_installed`, which depends on it, is therefore remade by every
make. `Edit` is a change of an `OVERRIDE_SRCDIR`, possible at any time;
`RemoveStamp` is the `rm` of a stamp that the manual describes.

`Delivery` is the abstract specification: a package becomes available when all
it depends on is, and may be withdrawn. `PkgBuild` implements it under
`ready <- Delivered` (given to every installation it asks for); this is the
property `DeliversInOrder`.

opkg-cl is not in the repository. The recipe gives it a package of the same
version with nothing but `--force-overwrite`, so that an opkg-cl that has the
package in its database may unpack it again, or may take it for installed and
leave the target as it is: `XPkg` does either, and nothing is assumed of which. What
can then be said of the target is that opkg-cl was given the `.opk` last packed and
was content: the ghost `kept` has the packages that it left alone the last time,
and `Got` is what an installation was given. `WorldInstalled`, `DepsFirst`,
`Delivered` and `RebuildDelivers` are about `Got`. For the host, staging and images
directories this is what is there; that the *target* has a rebuilt or an uninstalled
package again is not a property of this code, and the model has behaviours in which it
has not. `make clean` is one step. Hooks belong to the recipe that runs them.
Package versions and the configuration do not change.

### Download, MCDownload, DownloadProofs

One archive, a set of builds, `DL_DIR` shared. `Sources(config)` is the list
DOWNLOAD_INNER tries. A build opens a file (`Open`, `Pack`), which empties it,
and writes it to the end later (`Written`); in between it may fail or be killed,
and others may open, move (`Move`) or remove (`Drop`) the same file. An open
file follows `mv`, as a file descriptor does: `out[b]` is the name it has now.
`file[n]` is `Whole`, `None`, or the build that emptied it last and has not
finished: a file is whole exactly if that build has finished. (If an earlier
writer is far enough, the file could be whole before that; the model calls it a
part, the weaker claim.) All sources serve the same bytes. Of the version control
systems the model knows what the commands rely on: git and hg remove a failed
clone, `svn export` does not, none of them writes to a directory that is there.

### ApplyPatches, MCApplyPatches, ApplyPatchesProofs

The patch step on an unpatched tree: `loop` is who calls the script (the recipe
of a package, which stops at the first failure, or the shell loop of linux.mk,
which does not) and on which directories, one run for each. A directory of a tree
has the names its scan reads (its series, or what `ls` shows), the flag of a series,
and the files that are there, which with a series may be fewer or others. In a run, `todo` is
the stack of active scan_patchdir calls, each with the names its loop has still
to read, and `path` the global variable. A patch is a pair of directory and
name; whether it fits is chosen at the start. `Meant` is the reference: the
order the comments at the head of the script describe. `TreeAssumption` says
that no directory lies behind itself (of any directories, one is the innermost).
A series may name a patch twice, and the loop a directory. An archive that has one
of its own name inside is not modelled.

### MkUsers, MakeDevs, Images, MCImages, MkUsersProofs, ImagesProofs

`MkUsers`: `group`, `gshadow`, `passwd` are the files (`shadow` has the same
users as `passwd`; gshadow, which the script treats as optional, is there).
`pass` is which of the five loops runs, `line` the line of the table it has come
to and `other` the additional group of that line; `Reads` is what the loop's `if`
lets through, `Skip` and `NextLoop` are the loops themselves, and each line acted
upon is one action: `AddFixedGroup`, `AddAutoGroup`, `AddUser`, or a
failure (`NoFreeGid`, `RefuseUser`, `LoseUser`, and `LeaveUser`: the user is entered and his
home cannot be made). `Ugid(u)` is empty because
get_ugid cannot find anything (`-F:i`).

`MakeDevs`: `tree` is the files as fakeroot shows them, a line of the table is
one action. `strings` is what the two uninitialized arrays of `main` hold: at
first one of `Leftovers`, then what the last line that had them put there,
comments included.

`Images` composes the two with the recipes that run them. A configuration has the
targets after the packages in the order of `TARGETS`: images, and "rebuild", which
is rootfs-initramfs. A make (`MakeStarts`) is a list of `jobs`: the steps of the
kernel (`KernelJob`), each with its stamp, and these targets.
The recipe of an image is `Prepare` (the warning file is removed, mkusers starts),
the steps of mkusers, `Fakeroot` (a new session: the nodes of earlier ones are
ordinary files, `chown -R 0:0`), the steps of makedevs, `Archive`, `Restore`.
`Rebuild` is the second link of the kernel. Failures of every recipe, and ^C in a
fakeroot session, are `LinuxFails`, `UsersFail`, `Archive` with a part,
`Interrupt`. An image is a record of what TARGET_DIR held when it was made.

### KExpr, KExprBuild, MCKExpr; KMenu, KMenuFile, MCKMenu

`KExpr` is expr.c: an expression is a tree of records, an `expr **` a path in
one, and a function that rewrites in place returns the new root. `KExprBuild`
builds an expression as the grammar does and lets the simplifiers run on it in
any order, with a ghost of its meaning. `KMenu` is menu.c on a record `M` of all
that the parser keeps; `KMenuFile` lets the statements of a Config.in follow each
other as zconf.y does and ends with `conf_parse`.

### KSymbol, KConf, MCKConf

`KSymbol` is symbol.c. An operator that evaluates takes the state of the symbols
and returns the one it leaves, with more values in the cache. `KConf` is conf.c
with the reading and writing of confdata.c: the mutual recursion of `conf` and
`check_conf` is a stack, a step is an accepted answer. A session ends with a
file, and the next one starts from it or from any other.

### KMenubox, KInputbox, KTextbox, KNMenu, KDialogs, MCKDialogs, KDialogsProofs

One module per kind of dialog, an action per key, with two descriptions of the
screen side by side: the numbers the program computes with (`scroll`,
`first_item`, `show_x`, `page`) and what was printed in each cell or row.
The curses menu library of nconfig is external. `KDialogs` opens one dialog at a
time on any list, string or text within the bounds.

### KFiles, KSession, KTextFronts, KWindowFronts, KSessions, MCKSessions, KSessionsProofs

`KFiles` has the files and the two writers, an editor and make's conf, one action
per system call of conf_write and conf_write_autoconf; every call may fail and
every program be killed before it. The names a user gives to load and save are
`.config` and one other. `newer` says which files were written since
`auto.conf`. `KSession` is what the editors share (values, loading, places);
`KTextFronts` mconf and nconf, whose dialogs are answered before anything else
happens, and `KWindowFronts` gconf and qconf, handler by handler.

Two ghosts name what a property must leave out. `slips` are things a program gets
wrong by itself:

| Slip | What happens | Code (support/kconfig/) |
|---|---|---|
| `forgot` | a file that cannot be loaded clears the change count, and with it the changes made before | `confdata.c:405`; `mconf.c:837`, `nconf.c:1405`, `gconf.c:522`, `qconf.cc:1477` |
| `unmarked` | gconf and qconf load another file and do not count that as a change of `.config` | `gconf.c:522`, `qconf.cc:1477` |
| `elsewhere` | gconf saves under another name and clears the change count of `.config` | `gconf.c:563` |
| `anyway` | gconf leaves although saving has failed | `gconf.c:470` |
| `nowhere` | gconf's back button is still enabled in the main menu, and `current` becomes NULL | `gconf.c:735`, `gconf.c:752` |

`lapses` are things that happen to the files and that no program sees:

| Lapse | What happens | Code |
|---|---|---|
| `full` | the disk is full: the result of `fclose` is not looked at, and a part of a file is renamed to `.config` | `support/kconfig/confdata.c:814` |
| `spent` | the second try after a failure or an interrupt (mconf's message that the file is written can be interrupted, too): the first has taken the WRITE flags, and what is written lacks those options | `confdata.c:795`, `confdata.c:820`, `confdata.c:824` |
| `raced` | an editor saves while make's conf is at work, or make rewrites the `.config` an editor has read | `Makefile:400`, `confdata.c:1042` |

## 3. The runs

| Run | Instance | Shows |
|---|---|---|
| `build_develop` | three packages, two versions, goals all, rebuild, reconfigure, dirclean, one failure in any recipe or between two; a library for staging, an application for target and images | `StampInv`: stamps stand for whole products of the current tree, and make deals with things in order; `PatchedOnce`; `RerunGoesDown`: what is rerun reruns what was made from it; `MakeSucceeds`: nothing but a failure ends a make; `DepsFirst` |
| `build_remove` | goals all, uninstall, clean, make clean, two versions and edits, a stamp removed by hand, one failure of an uninstallation or an installation in the target; an application for staging and target | `WorldInstalled`: a make all that succeeds has given every installation what was last compiled; `DeliversInOrder`: the refinement of `Delivery` |
| `build_recover` | two failures, those inside -clean and -clean-for-rebuild included; liveness | `RebuildDelivers`; `Recovers`: a developer who retries gets a complete build |
| `download` | one build: every kind and order of sources with failures that leave only a temporary file, and any failure at all when a web server is the backup, or of a working copy that is the only source; three builds at once, and two from any source | `StampedWhole`, `QuietMeansWhole`, `ArchiveKept`; `Obtained`: retries succeed, unless a working copy left behind is in the way of every source |
| `download_shared` | two builds, no failure | violation: `SafeInParallel` |
| `patches` | all trees with a subdirectory and an archive, all series, names in a series that do not exist or come twice, files beside a series that it does not name; one directory or two; a package or the kernel | `InOrder`, `AppliedWhenLast` |
| `images` | (a) two makes of one image under all tables of one or two lines of thirteen (the three that always fail alone or as the second), one free id; (b) two makes, each with any line of a device table out of twelve; (c) two images under all pairs of those lines; (d) a kernel with and without initramfs and device tree, three makes of any goal, two mishaps | `IdsUnique`, `AsAsked`, `GShadowInSync`, `RerunIdle`; `NodesTrue`; `ImageTrue` |
| `kconfig_expr` | every expression of three leaves over a tristate and a boolean, their comparisons with constants and a disjunction, and every sequence of simplifications | `Faithful`, `PrintsBack`, `AnswersRight` |
| `kconfig_menu` | every file of three entries over a boolean, a tristate and a choice with one option, or of two entries with two | `DeclaredConditions`, `SubmenuHides`, `LoopsReported` |
| `kconfig_conf` | four trees (selecting, choosing, ranging, mixing), all modes of conf, any partial `.config`, what was written before | `CacheFresh`, `Legal`, `RoundTrip`, `Quiet`, `Ends` |
| `kconfig_dialogs` | lists of five items in terminals of 14, 16 and 18 lines, checklists of three rows, strings of five characters in fields of three, texts of eight lines in windows of one to five, patterns of two characters | `ScreenTrue`, `PlaceKept`, `Editing`, `SearchFinds`, `NothingSkipped` |
| `kconfig_session` | eleven situations: each program, alone with failing calls, with make between or beside its sessions, or walking through the views; two mishaps | `Saved`, `InStep`, `NothingLost` |

Why the bounds are enough. The instance of `PkgBuild` is the smallest with a host
package in BASE_TARGETS, a patched archive package, and an override package that
depends on it, one of them with two installations: each rule of `Precedes` and of
`Installs` applies to some pair. Two versions are enough because the properties
only compare a product with its tree or with the version asked for; one failure
because a failure leaves files only, and the next make starts from any of these
(StampCorrect needs no bound). `MaxList` counts entries of `Packages` only as far
as "any". Three builds are the fewest in which the temporary file of one can be
taken by the second while the third empties it. Nesting of patch directories is
two deep, with all orders of at most four names. The range of automatic ids has
one number, so that it runs out; two lines of users are enough for every
disagreement check_user_validity looks for, which is always between two lines, or
between a line and the files. Two device lines are enough for "the last one wins",
and earlier sessions add a third; `MAX_FIELD` and `UINT_MAX` are small so that
both are passed. Three makes are the fewest in which a kernel is configured and
installed by one, left alone by the next and linked again by the third. Three
leaves give every pair of operands of a joining rule in both depths the code
distinguishes. Three entries are a parent, one that hangs below it, and one that
follows; a fourth statement (`MaxStatements`) gives one of them an option. The four
trees each have what one part of `sym_calc_value` looks at. A
list is longer than its window by two, a string than its field by two, a text
than its window by three or more. Two mishaps are a failure and what fails in the
retry.

`StampedWhole` and `ArchiveKept` are about one build and failures that leave only a
temporary file. They are not true of builds that share a directory, which
`download_shared` shows. `QuietMeansWhole` is true of such builds as well, if no
download fails after its first byte (`Early`): the file of one that fails then may
have been moved to the archive's name by another.

| Run | What the code does |
|---|---|
| `download_shared` | of two builds that share `DL_DIR`, one extracts a part of an archive; the manual says that parallel builds from one source tree are safe (`PROJECT.json` quotes it) |

Deadlock is checked, except where the system stops: after the last make of a
configuration of `Images`, apply-patches.sh at its end, a Config.in that has been
parsed, an expression that has its leaves.

Other statements that the models contradict, and dead ends they have, without a run
of their own (a property that says so cannot pass):

- `-clean` runs CLEAN_CMDS and removes `.stamp_built` afterwards
  (pkg-generic.mk:252); one that fails leaves the stamp over removed objects.
  `StampInv` is checked and proved with this recipe, and `-clean-for-rebuild`,
  uninterrupted; `build_recover` interrupts them and checks that `-rebuild` still
  delivers.
- `make <package>` on a fresh tree stops for want of opkg-cl (`OpkgMissing`),
  which is in BASE_TARGETS and no package's dependency.
- `make clean` leaves the `.opk` files and `Packages`, to which every make adds
  (`listed` is UNCHANGED), though it is to 'delete all files created by build'
  (Makefile:754).
- Removing `.stamp_configured` configures again and does not recompile:
  `.stamp_built` does not depend on it (pkg-generic.mk:474), whatever
  rebuilding-packages.txt:66-68 says.
- A part left by a scp, bzr or local source that breaks off is accepted by the
  next source; a failed `git archive` is a successful download (`WriteFails`).
- A working copy that svn, a build that was killed, or an hg whose clone could not be
  packed leaves in `DL_DIR` is refused by every later clone (pkg-download.mk:126,
  pkg-download.mk:160): where no other kind of source has the archive, retrying never
  helps (`Blocked`).
- 'path' is not local to scan_patchdir (apply-patches.sh:88): a patch that follows
  a subdirectory or an archive is looked for in the wrong directory, listed in
  `.applied_patches_list` and not applied. If that directory has a series, and beside
  it a file of this name, that file is applied, though of a directory with a series
  "only patches mentionned into it will be applied" (apply-patches.sh:18-19). A patch
  that a series names and that is not there is no failure (`ApplyNothing`), whatever patch-policy.txt:82 says. A
  kernel patch that fails before the last of the loop is no failure either
  (linux.mk:148).
- mkusers: a user declared in two main groups is accepted (`Ugid` is always
  empty, line 66); a line that gives an existing group another gid is, too,
  because the group is rewritten before it is checked; a uid below -1 is read by
  no loop; a clear-text password calls `encode_passwd`, a function that is
  spelt `encode_password` (`LoseUser`).
- makedevs: names are looked up in the host's passwd, not in the target's that
  mkusers has just written; "-" for the owner is an unknown name and ends the
  program, though its usage says it may stand for a blank entry; a 'd' line whose
  name is a file changes the file and says nothing but a message; what makedevs
  returns is lost (fs/common.mk:57).
  The manual (makedev-syntax.txt:33-35) has the *names* of a row of nodes go up by
  inc until they reach count; in the program, and its usage (makedevs.c:342-362),
  they go up by one, there are count of them, and the *minor numbers* are inc apart.
  `Asks`, and so `NodesTrue`, follows the usage.
- The kernel with an initramfs has no appended device tree (linux.mk:316).
- Kconfig: the rules of `expr_eliminate_dups2` and `expr_trans_compare` change the
  value of an expression that mentions the constant m; an entry hung over one
  without a prompt may be spliced below a prompt that is out of sight
  (menu.c:396); an optional choice made new by one of its values stays y in the
  cache (symbol.c:266); a number of the file that was out of range and is given again
  by the user, now that it is in range, is taken for known
  (confdata.c:449 leaves the string, symbol.c:665 returns before
  `sym_clear_all_valid`), so that the file gets the default, not the answer; the WRITE flag of a choice's hidden values stays
  (symbol.c:322), so that they are written.
- Dialogs: after a resize, menuconfig's list keeps a stale `first_item` until it is
  opened again; if the terminal has grown while the list was scrolled down,
  `item_set` runs off the end of the list (util.c:630-636), `item_str` follows the
  NULL it leaves (util.c:653), and menuconfig dies (`Crashed`). It draws button 0 while another is selected; a text without a
  final newline drifts; nconfig's search does not end when nothing matches and it
  began beyond the list (nconf.c:516); page up skips lines (nconf.gui.c:612). The
  properties leave these cases out by name.
- Sessions: the tables of slips and lapses above. In the message box of mconf that
  the configuration is written (confdata.c:824) the file is renamed and the change
  count not yet cleared: after ^C there, a Yes to "save" writes a file without the
  options whose flags the first write took (the lapse `spent`).

Fairness. `RetrySpec` (PkgBuild) has weak fairness of the running make, and strong
fairness of a developer who starts another one after a failure, dircleaning a package that is
half-patched; failures and edits are bounded by constants and not fair. Nothing
in the code retries: a liveness property needs this developer. `LiveSpec`
(Download) has weak fairness of each started recipe and of its being started
again, for each build separately, since the builds are separate processes. In
`KConf` a session that asks goes on (`Busy` is enabled and taken in the end: weak
fairness written out, because ENABLED of the whole evaluation is costly): a
question gets an accepted answer.

## 4. The proofs

Checked by TLAPS for all values of the constants. What a proof takes from a constant
is a named ASSUME of the module that declares it, which TLC evaluates in the runs,
or an assumption written in the theorem itself. Each proof has the same form: an
inductive invariant, a lemma for each action or kind of action that it can disturb,
and a temporal step at the end. `Spec`s below are those of the module.

### Packages (PkgBuildProofs, PkgInstallProofs)

- `TypeCorrect`: types, and no package has more patches applied than it has.
- `OrderCorrect`: `OrderInv`. What make still has to do keeps the order of the
  prerequisite lists (`DealtInOrder`), and what it has dealt with has its stamp
  (`DealtStamped`). The lemmas about `Wanted` say that the tasks of a goal are closed
  under predecessors. Every result below but `PatchedOnceCorrect` rests on this one.
- `StampCorrect`: `StampInv`, under `StampAssumption`. That every stamp stands for a
  product (`StampMeansDone`) of the current tree (`StampMeansFresh`) is not inductive:
  that a step finds its input depends on make having gone through the steps before.
  `StampInv` adds `OrderInv` and `SourceFirst` (a source step without its stamp takes
  along everything made from its tree); from these, `TreeReady` shows that a step that
  runs works on the current tree.
- `PatchedOnceCorrect`: patch(1) refuses a tree that has any, so the types and the
  property itself are inductive.
- `WorldInstalledCorrect`, `DepsFirstCorrect`, `DeliveryCorrect`. Stamps say nothing
  about the two steps that are never stamped, so `InstallInv` adds `ProductsMade`: what
  the running make has packed and given to opkg-cl is what it last compiled;
  `KeptPacked`: what opkg-cl left alone was given to it in an `.opk` that is there; and
  `GoalNamed`: only "make" and "make clean" name no package. All of it holds whichever
  of the two opkg-cl does. `DepsDealt` (all a package
  depends on is dealt with when it is configured) gives the second, and the third step
  by step: `Delivery`'s `Init` from `Init`, its action from the one recipe that
  completes a package, withdrawals from whatever removes.
- `MakeSucceedsCorrect`: `SucceedInv` adds `PatchesStamped` (a tree that has patches has
  the stamp that keeps make from patching it again).
- `RerunGoesDownCorrect`: `RerunInv` is `StampChain` (stamps of a package go down
  together), `ClearFirst` (between the two removals of -reconfigure make does nothing
  else) and `RunsDown`, the property in the middle of a make.
- `RebuildDeliversCorrect`: does without `StampAssumption`, because it needs less of the
  stamps than `StampInv`: that those of download, extraction and rsync are over something
  (`SourceKept`, which no removal that stops half-way disturbs), and that after
  -clean-for-rebuild a stamp of this package stands for something at least as new as
  what was asked for (`Rebuilt`). `RetryWithin` carries it, and the others, over to
  `RetrySpec`.

The assumptions, and what happens without them:

| Assumption | Says | Without it |
|---|---|---|
| `StampAssumption` | -clean and -clean-for-rebuild run to their end | `.stamp_built` stays over removed objects, or objects of the old tree under it: `StampInv` and `WorldInstalled` are false, `MakeSucceeds` and `RebuildDelivers` are not |
| `OpkgAssumption` | host-opkg is in BASE_TARGETS, no base package is installed by opkg-cl, and the goals are those that go through world or stop before an installation | `make <package>` fails for want of opkg-cl |
| `RerunAssumption` | `StampAssumption`; no goal -clean; nobody removes `.stamp_configured` or `.stamp_built` by hand | the stamps of images and host installations stay when `.stamp_built` goes |

### mkusers and images (MkUsersProofs, ImagesProofs)

- `GShadowCorrect`: by one lemma per kind of edit; nothing but the property is needed.
- `IdsCorrect`: `UidsApart`, `GidsApart`, `IdsKnown`. Two groups may share a gid in the
  middle of a run, because the group loops do not look; `Pending` says that then a line
  gives it whose user has still to be checked, and the check refuses it. Lines with a
  uid below -1 are never checked, and the property leaves their gids out by name.
- `AskedCorrect`: `GroupsMade` and `UsersMade` say, for each of the five loops, what holds
  of the lines it has read.
- `RerunCorrect`: `Settled` is what a successful run leaves (every line fits, the last line
  about a group gave its gid), `Repeats` how far a second run may be from it on the way
  back to it.
- `UsersWithin`: `ImageSpec => Spec` of MkUsers, a refinement: whatever make does around
  mkusers, the script's files and its control change only by its own steps, and it is
  started on tables of the configuration. `GShadowWithin`, `IdsWithin`, `AskedWithin` and
  `RerunWithin` carry the four results over to all makes of all images.
- `NodesCorrect`: `TreeTrue(d, n, t)` says of the files `t` what the first `n` lines of the
  table make of each path: the last line about it gives owner and mode, the last one that
  makes a node its kind and number (a later 'f' or 'd' line changes no number). It is kept
  by each line (`NodesInv`), from any files a fakeroot session can begin with.
- `ImageCorrect`: `OrderInv` (what is still to be done of the kernel, by the position of
  the jobs in the list), `KernelInv` (what the kernel's stamps promise), `WholeInv` (the
  images generated so far are whole and have the users that mkusers, which runs again, has
  found: by `RerunWithin`) and `TreesInv` (a second makedevs is on its
  way to the files of the first image: `Follows`).

Assumed of the constants: an initramfs or an appended device tree needs a kernel, the cpio
image comes before the second link, the names of targets and of the kernel's jobs are
apart (`ConfigsAssumption`: linux/Config.in and fs/ say so); the fields of a device line
are no wider than the unsigned int they are read into (`IdsAssumption`), while rows of
nodes may overflow.

### Patches (ApplyPatchesProofs)

- `Meant` is recursive, over the directories (`Behind`) and over sequences (`FlattenSeq`).
  TLAPS knows a recursive function only as a CHOOSE, so that a function that solves the
  equation must be shown to exist. `BehindRow` gets it from the innermost directory for
  which there is none, `FlattenHead` from a shift of the sequence; what follows needs
  nothing but the two equations.
- `InOrderCorrect`: `OrderInv`, under `NoneAstray`: no directory has a file that it does
  not list under a name that another one lists. `Scanning` says that what the script is past, what its active
  scans have ahead and what follows in the loop make up `Meant`, and that what is applied is in
  the order of the first. It is not inductive, because after a return the path is not that
  of the scan: a patch could be found there and be applied too late. `Looked` says why none
  is: whatever the directory of the path both lists and holds is applied, or the scan on
  top is in that directory and has still to look at it; by `NoneAstray` it holds nothing
  else that anyone asks for. What is met from elsewhere is there already, and
  patch(1) refuses it.
- `AppliedCorrect`: `AppliedInv`, under `AllThere`: every name that is read
  is there. Where nothing follows a subdirectory, the scans below the one
  on top are at their ends (`Straight`), so that what is applied and what is left make up
  `Meant`, and the path is right while there is anything left. A refusal ends the step of a
  package; in the kernel's loop it is unnoticed but in the last turn, whence the hypotheses
  about it. That the kernel's loop goes on after a patch given twice came to light when the
  proof did not go through; the property names the case, and `MCApplyPatches` has a tree
  with a series of this kind.

Assumed of the constants: `TreeAssumption`, for trees of any depth and size.

### Download (DownloadProofs)

- `StampedWholeCorrect`, `ArchiveKeptCorrect`: `LoneInv` says, for each place a lone build
  can be in, what the two files are: the archive is a part only while this build writes
  it, the temporary file is whole when it is moved. Both hypotheses are needed:
  `download_shared` drops the first, and a part left by scp is enough without the second.
- `QuietCorrect`: for any number of builds that fail only early, `EarlyInv`: a file that is
  not whole is being written, under its present name, by the build that emptied it last.

### Kconfig's sessions and dialogs (KSessionsProofs, KDialogsProofs)

- `SavedCorrect`: `SaveInv`: what waits under a temporary name is what its process has in
  memory, and the saved values are in `.config` while there is one.
- `InStepCorrect`: `StepInv`: as long as nobody disturbs, one process writes at a time, conf
  writes what it has read, `<option>.h` files still to be touched are those in which
  `auto.conf` and memory differ, and the files agree whenever `auto.conf` is newer.
- `NothingLostCorrect`: `LostInv`: with nothing marked as changed, the file the user works on
  has what he sees, but for the moment that conf_write is at work on it. With
  KCONFIG_OVERWRITECONFIG that moment destroys the file even if nothing has changed, so
  that SIGINT then loses it without a word; the property names this case (`Overtaken`),
  which a proof attempt brought to light.
- `EditingCorrect` (`EditInv`), `ScreenCorrect` and `PlaceKeptCorrect` (`MenuInv`, `ListInv`,
  `TextTrueInv`, `NMenuInv`: for each kind of dialog, how the numbers the program computes
  with lie in the window), `NothingSkippedCorrect` (the same and `PadInv`),
  `SearchCorrect`: the search, a loop over the items, is proved to stop at the nearest by
  the least distance at which one matches.

The dialogs are proved for every number of items, height and width; the constants need only
be natural numbers, with at least one row or column.

### Only model-checked

- `KExpr`, `KMenu`, `KSymbol` and `KConf` compute with RECURSIVE operators over trees of
  expressions, menus and symbols, about which the prover shows nothing: `Faithful`,
  `PrintsBack`, `AnswersRight`, `DeclaredConditions`, `SubmenuHides`, `LoopsReported`,
  `CacheFresh`, `Legal`, `RoundTrip`, `Quiet`. As recursive functions their domain would be
  all expressions, which are not a set of the model; TLC checks them on bounded ones. Proofs
  elsewhere that go down to a least number or an innermost directory (`Smallest`, `Latest`,
  `SolutionsAgree`) take it from the library's theorem about well-founded relations or from
  an assumption.
- Liveness under fairness: `Recovers`, `Obtained`, `Ends`.

## 5. Not modelled

- target-finalize, locales, the skeleton copy and post-image: sequences of copies
  and deletions of files that no later step of make reads; legal-info, the graph
  and source-check goals, help: reports.
- The external toolchain wrapper: a pure function of its arguments. The
  toolchains' old-style makefiles: copy and configure commands under stamps of
  the same kind as `PkgBuild`'s. elf2flt and the other vendored tools.
- Compressed copies of images, hooks, the other formats of `fs/` (the same recipe
  with another command), the modules of the kernel and its defconfig goals.
- Kconfig: the lexer, "visible if" (which Buildroot does not use), environment
  symbols, the simplification of the dependency that the warning of unmet ones prints,
  yes/no boxes and all message boxes but the one after a write, colours, labels, GTK and Qt widgets, qconf's
  search window.
- The owner of the home directories that mkusers makes.
- A kill inside one of mkusers' edits, and ^C while it runs; a SIGINT of mconf
  between the return of conf_write and the setting of the file name.
- The device scripts: independent loops around commands of the device that the
  repository does not contain.

Left for later: `PkgBuild` composed with `Download` (a damaged archive that is stamped
blocks extraction until `DL_DIR` is cleaned by hand).
