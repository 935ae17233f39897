------------------------------- MODULE Images -------------------------------
(***************************************************************************)
(* What make does after the packages: the image recipes of fs/common.mk,   *)
(* which run mkusers and then, under fakeroot, makedevs and an archiver on *)
(* TARGET_DIR, and the kernel of linux/linux.mk, whose image may carry     *)
(* rootfs.cpio and a device tree.                                          *)
(*                                                                         *)
(* An image is known by the make that generated it: every make generates   *)
(* all of them, because their prerequisites (host-fakeroot ...) are names  *)
(* of goals and not of files.                                              *)
(***************************************************************************)
EXTENDS MkUsers, MakeDevs

CONSTANTS
    Configs     \* the configurations considered

(***************************************************************************)
(* A configuration: the targets that follow the packages, in the order of  *)
(* TARGETS (<<"cpio", "rebuild", "tar">>: images, and rootfs-initramfs,    *)
(* which links the kernel again), whether there is a kernel, an initramfs, *)
(* an appended device tree, the goals it is made with, the tables of users *)
(* and of devices it may have, which can change from make to make, the     *)
(* files of TARGET_DIR, and the bounds of the makes and of the mishaps.    *)
(***************************************************************************)
KernelJob == {"forget", "configure", "build", "install", "edit", "dirclean"}

ASSUME ConfigsAssumption ==
    \A c \in Configs :
        /\ {c.kernel, c.initramfs, c.dtb} \subseteq BOOLEAN
        /\ c.goals \subseteq {"all", "linux", "rebuild", "menuconfig", "dirclean", "tar"}
        /\ {<<>>} \cup c.users \subseteq Tables
        /\ \A d \in c.devices : IsList(d) /\ \A i \in DOMAIN d : IsDevice(d[i])
        /\ IsList(c.targets) /\ IsInjective(c.targets)
        /\ Range(c.targets) \cap (KernelJob \cup {"kernel"}) = {}
        /\ c.initramfs \/ c.dtb => c.kernel
        /\ c.initramfs <=> "rebuild" \in Range(c.targets)
        /\ \A k \in DOMAIN c.targets : c.targets[k] = "rebuild" =>
              \E i \in 1 .. k - 1 : c.targets[i] = "cpio"

VARIABLES
    config,     \* the configuration
    asked,      \* the tables of this make: _users_table.txt, _device_table.txt
    makes,      \* number of makes so far
    mishaps,    \* number of failures and interrupts so far
    goal,       \* of the last make
    outcome,    \* "none", "running", "ok" or "failed"
    jobs,       \* the recipes it has still to come to
    at,         \* where the recipe of an image is: "", "users", "fakeroot", "restore"
    remade,     \* the files remade by this make
    stamps,     \* stamp files of the kernel
    zImage,     \* the kernel linked in the build directory: what it carries
    binaries,   \* BINARIES_DIR: name -> image
    warning     \* is THIS_IS_NOT_YOUR_ROOT_FILESYSTEM in TARGET_DIR?

\* The images among the targets.
ImageNames == Range(config.targets) \ {"rebuild"}

makevars == <<config, asked, makes, mishaps, goal, outcome, jobs, at, remade,
              stamps, zImage, binaries, warning>>
ivars == <<vars, mvars, makevars>>

Blank == [kind |-> "none", make |-> 0]
Unlinked == [linked |-> FALSE, root |-> Blank, dtbs |-> 0]

ImageInit ==
    /\ Init /\ MakedevsInit
    /\ config \in Configs /\ table = <<>> /\ asked = [users |-> <<>>, devices |-> <<>>]
    /\ tree = config.tree
    /\ makes = 0 /\ mishaps = 0 /\ goal = "none" /\ outcome = "none"
    /\ jobs = <<>> /\ at = "" /\ remade = {} /\ stamps = {}
    /\ zImage = Unlinked /\ warning = TRUE
    /\ binaries = [b \in {"kernel"} \cup ImageNames |-> Blank]

-----------------------------------------------------------------------------
(* The goals. *)

LinuxJobs == IF config.kernel THEN <<"configure", "build", "install">> ELSE <<>>

Jobs == [all |-> LinuxJobs \o config.targets,
         linux |-> LinuxJobs,
         rebuild |-> <<"forget">> \o LinuxJobs \o config.targets,
         menuconfig |-> <<"configure", "edit">>,
         dirclean |-> <<"dirclean">>,
         tar |-> <<"tar">>]

MakeStarts(g, t, d) ==
    /\ outcome # "running" /\ makes < config.makes
    /\ makes' = makes + 1 /\ goal' = g /\ outcome' = "running"
    /\ jobs' = Jobs[g] /\ remade' = {}
    /\ asked' = [users |-> t, devices |-> d]
    /\ UNCHANGED <<vars, mvars, config, mishaps, at, stamps, zImage, binaries, warning>>

MakeEnds ==
    /\ outcome = "running" /\ jobs = <<>>
    /\ outcome' = "ok"
    /\ UNCHANGED <<vars, mvars, config, asked, makes, mishaps, goal, jobs, at, remade>>
    /\ UNCHANGED <<stamps, zImage, binaries, warning>>

Comes(j) == outcome = "running" /\ jobs # <<>> /\ Head(jobs) = j /\ at = ""
Next1 == jobs' = Tail(jobs)

\* A command of a recipe fails, or somebody presses ^C.
Stops == outcome' = "failed" /\ jobs' = <<>> /\ at' = ""

Kept == UNCHANGED <<vars, mvars, config, asked, makes, goal>>

-----------------------------------------------------------------------------
(* The kernel. *)

\* Mutant of OutOfDate: a file is made if it is not there.
OutOfDateAbsent(file, prerequisites) == file \notin stamps

\* make's rule: the file is missing or older than what it is made from.
OutOfDate(file, prerequisites) ==
    file \notin stamps \/ prerequisites \cap remade # {}

Prerequisites ==
    [configure |-> {}, build |-> {"configure"}, install |-> {"build"},
     rebuild |-> {"install", "cpio"}]
LinuxJob == DOMAIN Prerequisites

UpToDateJob(j) ==
    /\ Comes(j) /\ ~OutOfDate(j, Prerequisites[j])
    /\ Next1 /\ Kept
    /\ UNCHANGED <<mishaps, outcome, at, remade, stamps, zImage, binaries, warning>>

\* The job's recipe is run to its end, and its stamp is touched.
Runs(j) ==
    /\ Comes(j) /\ OutOfDate(j, Prerequisites[j])
    /\ Next1 /\ Kept
    /\ stamps' = stamps \cup {j} /\ remade' = remade \cup {j}
    /\ UNCHANGED <<mishaps, outcome, at, warning>>

\* touch rootfs.cpio, which leaves alone what is there; a new .config.
Configure ==
    /\ Runs("configure")
    /\ binaries' = IF config.initramfs /\ binaries["cpio"].kind = "none"
                   THEN [binaries EXCEPT !["cpio"].kind = "empty"] ELSE binaries
    /\ zImage' = [zImage EXCEPT !.linked = FALSE]

\* What CONFIG_INITRAMFS_SOURCE names, if there is an initramfs.
Root == IF config.initramfs THEN [kind |-> binaries["cpio"].kind, make |-> binaries["cpio"].make]
                            ELSE Blank

\* The kernel's own make links it anew if something changed.
Link(dtbs) ==
    zImage' = IF zImage.linked /\ zImage.root = Root
              THEN [zImage EXCEPT !.dtbs = @ + dtbs]
              ELSE [linked |-> TRUE, root |-> Root, dtbs |-> dtbs]

\* LINUX_APPEND_DTB appends to whatever zImage there is.
Build == Runs("build") /\ Link(IF config.dtb THEN 1 ELSE 0) /\ UNCHANGED binaries

CopyKernel(z) ==
    binaries' = [binaries EXCEPT !["kernel"] =
                    [kind |-> "whole", make |-> makes, root |-> z.root, dtbs |-> z.dtbs]]

Install == Runs("install") /\ CopyKernel(zImage) /\ UNCHANGED zImage

\* linux-rebuild-with-initramfs: the device tree is not appended.
Rebuild == Runs("rebuild") /\ Link(0) /\ CopyKernel(zImage')

\* The old image stays, and no stamp is touched.
LinuxFails ==
    /\ \E j \in LinuxJob : Comes(j) /\ OutOfDate(j, Prerequisites[j])
    /\ mishaps < config.mishaps /\ mishaps' = mishaps + 1
    /\ Stops /\ Kept
    /\ UNCHANGED <<remade, stamps, zImage, binaries, warning>>

\* linux-clean-for-rebuild, and what linux-menuconfig does when the menu is left.
Forget ==
    /\ Comes("forget") \/ Comes("edit")
    /\ stamps' = stamps \ {"build", "install"}
    /\ \E changed \in (IF Comes("edit") THEN BOOLEAN ELSE {FALSE}) :
          zImage' = [zImage EXCEPT !.linked = @ /\ ~changed]
    /\ Next1 /\ Kept
    /\ UNCHANGED <<mishaps, outcome, at, remade, binaries, warning>>

\* linux-dirclean
Dirclean ==
    /\ Comes("dirclean")
    /\ stamps' = {} /\ zImage' = Unlinked
    /\ Next1 /\ Kept
    /\ UNCHANGED <<mishaps, outcome, at, remade, binaries, warning>>

-----------------------------------------------------------------------------
(* The images. *)

Generating == outcome = "running" /\ jobs # <<>> /\ Head(jobs) \in ImageNames

\* The commands before mkusers, and its start.
Prepare ==
    /\ Generating /\ at = ""
    /\ warning' = FALSE /\ at' = "users"
    /\ Start(asked.users)
    /\ UNCHANGED <<mvars, config, asked, makes, mishaps, goal, outcome, jobs, remade>>
    /\ UNCHANGED <<stamps, zImage, binaries>>

EnterUsers == at = "users" /\ Works /\ UNCHANGED <<mvars, makevars>>

\* mkusers has failed, and make gives up.
UsersFail ==
    /\ at = "users" /\ status = "failed"
    /\ Stops /\ Kept
    /\ UNCHANGED <<mishaps, remade, stamps, zImage, binaries, warning>>

\* What a new fakeroot makes of the files: the nodes of earlier sessions are
\* ordinary files, and chown -R 0:0 makes all of them root's.
Faked == [p \in DOMAIN tree |->
             Entry(IF tree[p].kind = "d" THEN "d" ELSE "f", Unnumbered,
                   Perm(0, 0, tree[p].perm.mode))]

Fakeroot ==
    /\ at = "users" /\ status = "ok"
    /\ at' = "fakeroot"
    /\ MakedevsStarts(Faked, asked.devices)
    /\ UNCHANGED <<vars, config, asked, makes, mishaps, goal, outcome, jobs, remade>>
    /\ UNCHANGED <<stamps, zImage, binaries, warning>>

MakeNodes == at = "fakeroot" /\ MakedevsNext /\ UNCHANGED <<vars, makevars>>

\* The archiver runs whatever makedevs returned, and it alone decides what
\* fakeroot returns; when it fails it leaves part of an image.
Archive ==
    /\ at = "fakeroot" /\ Ended
    /\ \E kind \in {"whole", "part"} :
          /\ binaries' = [binaries EXCEPT ![Head(jobs)] =
                 [kind |-> kind, make |-> makes, passwd |-> passwd, group |-> group,
                  tree |-> tree, devs |-> devs, warning |-> warning]]
          /\ IF kind = "whole"
             THEN at' = "restore" /\ UNCHANGED <<mishaps, outcome, jobs>>
             ELSE mishaps < config.mishaps /\ mishaps' = mishaps + 1 /\ Stops
    /\ Kept /\ UNCHANGED <<remade, stamps, zImage, warning>>

Restore ==
    /\ at = "restore"
    /\ warning' = TRUE /\ at' = "" /\ remade' = remade \cup {Head(jobs)}
    /\ Next1 /\ Kept
    /\ UNCHANGED <<mishaps, outcome, stamps, zImage, binaries>>

\* ^C under fakeroot: make deletes the image if it was being written.
Interrupt ==
    /\ at = "fakeroot"
    /\ mishaps < config.mishaps /\ mishaps' = mishaps + 1
    /\ binaries' \in {binaries, [binaries EXCEPT ![Head(jobs)] = Blank]}
    /\ Stops /\ UNCHANGED <<vars, tree, config, asked, makes, goal>>
    /\ unread' = <<>> /\ devs' = "died" /\ UNCHANGED strings
    /\ UNCHANGED <<remade, stamps, zImage, warning>>

ImageNext ==
    \/ \E g \in config.goals, t \in config.users, d \in config.devices : MakeStarts(g, t, d)
    \/ MakeEnds
    \/ \E j \in LinuxJob : UpToDateJob(j)
    \/ Configure \/ Build \/ Install \/ Rebuild \/ LinuxFails \/ Forget \/ Dirclean
    \/ Prepare \/ EnterUsers \/ UsersFail \/ Fakeroot \/ MakeNodes
    \/ Archive \/ Restore \/ Interrupt

ImageSpec == ImageInit /\ [][ImageNext]_ivars

-----------------------------------------------------------------------------
(* Properties. *)

\* After a make that succeeds, whatever failed or was interrupted before, every image
\* is whole, of this make, and has the users that are in TARGET_DIR now, though
\* mkusers was run again for the next image; the images agree on files and nodes
\* unless makedevs complained or has lines without owner and group; none of them has
\* the warning, and TARGET_DIR has it again.  The kernel image carries rootfs.cpio of
\* this make, or its device tree.
Images == {binaries[i] : i \in ImageNames}
ImageTrue ==
    outcome = "ok" /\ goal \in {"all", "rebuild"} =>
        /\ warning
        /\ \A i \in Images :
              i.kind = "whole" /\ i.make = makes /\ ~i.warning /\ i.passwd = passwd /\ i.group = group
        /\ \A i, j \in Images :
              /\ i.devs = "ok" /\ j.devs = "ok"
              /\ \A l \in Range(asked.devices) : l.fields >= 5
              => i.tree = j.tree
        /\ config.kernel => binaries["kernel"].kind = "whole"
        /\ config.initramfs => binaries["kernel"].root = Root
        /\ config.dtb /\ ~config.initramfs => binaries["kernel"].dtbs > 0

\* What NodesAsTabled says is true when makedevs has run, whatever earlier images
\* and makes, with other tables, have left in TARGET_DIR.  The table is read as the
\* usage of makedevs explains it; the manual means something else by start, inc and
\* count (see Asks), and whoever writes a table by it does not get his nodes.
NodesTrue == at = "fakeroot" => NodesAsTabled(asked.devices)
=============================================================================
