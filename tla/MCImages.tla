----------------------------- MODULE MCImages ------------------------------
(***************************************************************************)
(* Instances of Images for TLC.  In one, a single image is made under all  *)
(* tables of users of at most two lines out of a few that agree, disagree  *)
(* or break a rule.  In the others, there are two images, a kernel, tables *)
(* of devices and mishaps.  As in system/skeleton, the superuser is a      *)
(* member of wheel and two groups share a gid.                             *)
(***************************************************************************)
EXTENDS Images

CONSTANTS u1, u2, g1, g2, wheel, nobody, nogroup

MCGroups ==
    [g \in {wheel, nobody, nogroup} |->
        [gid |-> IF g = wheel THEN 3 ELSE 9, members |-> IF g = wheel THEN {root} ELSE {}]]
MCUsers == [u \in {root} |-> [uid |-> 0, gid |-> 0]]

Line(u, uid, g, gid, gs) ==
    [user |-> u, uid |-> uid, group |-> g, gid |-> gid, groups |-> gs,
     clear |-> FALSE, home |-> TRUE, room |-> TRUE]

Automatic == Line(u1, AutoId, g1, AutoId, <<g2, wheel>>)
Given == Line(u1, 5, g1, 5, <<g2>>)
OtherUid == Line(u1, 6, g1, AutoId, <<>>)
OtherGroup == Line(u1, AutoId, g2, AutoId, <<>>)
SameUid == Line(u2, 5, wheel, AutoId, <<g1>>)
SameGid == Line(u2, AutoId, g2, 5, <<nogroup, g1>>)
Third == Line(u2, AutoId, nobody, AutoId, <<g2>>)
BadUid == Line(u2, -2, g2, 3, <<>>)
BadGid == Line(u2, AutoId, g1, -2, <<>>)
OtherWheel == Line(u1, AutoId, wheel, 4, <<>>)
ClearText == [Automatic EXCEPT !.clear = TRUE]
NoHome == [Third EXCEPT !.home = FALSE]
NoRoom == [Automatic EXCEPT !.room = FALSE]

\* Lines that fail whatever else is in the table, which are tried alone and as the
\* second of two, and the others.
Failing == {ClearText, NoHome, NoRoom}
Sound == {Automatic, Given, OtherUid, OtherGroup, SameUid, SameGid, Third, BadUid, BadGid,
          OtherWheel}
MCTables ==
    {<<>>} \cup {<<l>> : l \in Sound \cup Failing}
    \cup {<<l, m>> : l \in Sound, m \in Sound \cup Failing}

-----------------------------------------------------------------------------
MCIds == [n \in {"", "0", "5", "root"} |-> IF n = "5" THEN 5 ELSE 0]

Dev(fields, name, type, mode, user, major, minor, start, inc, count) ==
    [comment |-> FALSE, fields |-> fields, name |-> <<<<name>>>>, type |-> type, mode |-> mode,
     user |-> user, group |-> "0", major |-> major, minor |-> minor, start |-> start,
     inc |-> inc, count |-> count]

Null == Dev(7, "null", "c", "666", "0", 1, 3, 0, 0, 0)
Disks == Dev(10, "hda", "b", "640", "5", 3, 2, 1, 2, 2)
Many == Dev(10, "hda", "b", "640", "0", 3, 15, 2, 15, 3)
Disk2 == [Dev(7, "hda", "b", "600", "0", 3, 9, 0, 0, 0) EXCEPT !.name = <<<<"hda", 2>>>>]
Short == Dev(3, "null", "f", "755", "", 0, 0, 0, 0, 0)
Sub == [Dev(5, "sub", "d", "700", "5", 0, 0, 0, 0, 0) EXCEPT !.name = <<<<"dev">>, <<"sub">>>>]
Inside == [Dev(5, "null", "d", "755", "0", 0, 0, 0, 0, 0) EXCEPT !.name = <<<<"null">>, <<"in">>>>]
Over == Dev(7, "dev", "c", "600", "0", 1, 1, 0, 0, 0)
Stranger == Dev(5, "null", "f", "644", "daemon", 0, 0, 0, 0, 0)
Much == Dev(7, "null", "c", "666", "0", 16, 3, 0, 0, 0)
Other == Dev(5, "null", "l", "755", "0", 0, 0, 0, 0, 0)
Remark == [Dev(5, "#", "n", "755", "5", 0, 0, 0, 0, 0) EXCEPT !.comment = TRUE]

MCDevs == {Null, Disks, Many, Disk2, Short, Sub, Inside, Over, Stranger, Much, Other, Remark}
Rows == {<<l>> : l \in MCDevs}
Pairs == {<<l, m>> : l, m \in MCDevs}

MCTree == (<<<<"dev">>>> :> Entry("d", Unnumbered, Perm(7, 7, "755")))
          @@ (<<<<"null">>>> :> Entry("f", Unnumbered, Perm(7, 7, "644")))

Config(goals, targets, kernel, initramfs, dtb, users, devices, n, m) ==
    [goals |-> goals, targets |-> targets, kernel |-> kernel, initramfs |-> initramfs, dtb |-> dtb,
     users |-> users, devices |-> devices, tree |-> MCTree, makes |-> n, mishaps |-> m]

MCGoals == {"all", "linux", "rebuild", "menuconfig", "dirclean"}
MCConfigs ==
    {Config({"all"}, <<"tar">>, FALSE, FALSE, FALSE, MCTables, {<<>>}, 2, 0),
     Config({"all", "tar"}, <<"cpio", "tar">>, FALSE, FALSE, FALSE, {<<Given>>}, Rows, 2, 0),
     Config({"all"}, <<"cpio", "tar">>, FALSE, FALSE, FALSE, {<<Given>>}, Pairs, 1, 0)}
    \cup {Config(MCGoals, IF initramfs THEN <<"cpio", "rebuild">> ELSE <<"cpio">>, TRUE,
                  initramfs, dtb, {<<Given>>, <<ClearText>>}, {<<Null>>}, 3, 2) :
             initramfs, dtb \in BOOLEAN}
=============================================================================
