------------------------------ MODULE MakeDevs ------------------------------
(***************************************************************************)
(* package/makedevs/makedevs.c, which every image recipe runs on           *)
(* TARGET_DIR under fakeroot, with the device table of the configuration.  *)
(*                                                                         *)
(* A path is a sequence of components, a component a name or, for one of a *)
(* row of nodes, a name and a number: <<"hda">>, <<"hda", 3>>.             *)
(***************************************************************************)
EXTENDS Integers, Sequences

CONSTANTS
    Ids,            \* what stands for a user or a group -> its number: numbers, the
                    \* names the HOST knows, and "", which is the caller's
    MAX_FIELD,      \* the largest number of a line, 0xfffff
    UINT_MAX,       \* the largest unsigned int
    Leftovers       \* what may be on the stack when the first line is read

ASSUME IdsAssumption ==
    /\ "" \in DOMAIN Ids
    /\ MAX_FIELD \in Nat /\ UINT_MAX \in Nat /\ MAX_FIELD <= UINT_MAX

(***************************************************************************)
(* A line: whether it begins with "#", how many of its ten fields sscanf   *)
(* finds (0 in a blank line), and the fields, 0 and "755" where there is   *)
(* nothing.                                                                *)
(***************************************************************************)
IsSequence(s) == Len(s) \in Nat /\ s = [i \in 1 .. Len(s) |-> s[i]]
IsDevice(l) ==
    /\ l.comment \in BOOLEAN
    /\ {l.fields, l.major, l.minor, l.start, l.inc, l.count} \subseteq Nat
    /\ l.name # <<>> /\ IsSequence(l.name) /\ \A k \in DOMAIN l.name : IsSequence(l.name[k])

VARIABLES
    tree,       \* the files as seen under fakeroot: path -> [kind, dev, perm]
    unread,     \* the lines of the table still to read
    strings,    \* what the arrays user and group hold, which no line initializes
    devs        \* "idle", "reading", "ok", "failed" (an error so far or, at the end,
                \* exit status 1), "died"

mvars == <<tree, unread, strings, devs>>

Unnumbered == <<0, 0>>
Perm(uid, gid, mode) == [uid |-> uid, gid |-> gid, mode |-> mode]
Entry(kind, dev, perm) == [kind |-> kind, dev |-> dev, perm |-> perm]

IsDir(p) == p = <<>> \/ (p \in DOMAIN tree /\ tree[p].kind = "d")
Parent(p) == SubSeq(p, 1, Len(p) - 1)
Above(p) == {SubSeq(p, 1, k) : k \in 1 .. Len(p) - 1}

MakedevsInit ==
    /\ unread = <<>> /\ devs = "idle"
    /\ strings = [user |-> "", group |-> ""]

\* makedevs is started on t, with table lines.
MakedevsStarts(t, lines) ==
    /\ tree' = t
    /\ unread' = lines
    /\ devs' = "reading"
    /\ \E u, g \in Leftovers : strings' = [user |-> u, group |-> g]

\* A number of more than 20 bits.
TooBig(l) == \E n \in {l.major, l.minor, l.start, l.inc, l.count} : n > MAX_FIELD

\* A line that main does not skip.
Counts(l) == l.fields >= 2 /\ ~TooBig(l) /\ ~l.comment

User(l) == IF l.fields >= 4 THEN l.user ELSE strings.user
Group(l) == IF l.fields >= 5 THEN l.group ELSE strings.group
Known(l) == {User(l), Group(l)} \subseteq DOMAIN Ids
Owned(l) == Perm(Ids[User(l)], Ids[Group(l)], l.mode)

Is(l) == unread # <<>> /\ devs \in {"reading", "failed"} /\ l = Head(unread)

\* sscanf fills what it finds, in a comment as well.
Read(l) ==
    /\ unread' = Tail(unread)
    /\ strings' = [user |-> User(l), group |-> Group(l)]

Complains(bad) == devs' = IF bad THEN "failed" ELSE devs

SkipLine(l) ==
    /\ Is(l) /\ ~Counts(l)
    /\ Read(l)
    /\ Complains(l.fields # 0 /\ ~l.comment)
    /\ UNCHANGED tree

\* get_ug_id: a name the host does not know ends the program.
Dies(l) ==
    /\ Is(l) /\ Counts(l) /\ ~Known(l)
    /\ devs' = "died"
    /\ unread' = <<>>
    /\ UNCHANGED <<tree, strings>>

Takes(l) == Is(l) /\ Counts(l) /\ Known(l) /\ Read(l)

\* A file stands where the path has a directory.
Barred(p) == \E q \in Above(p) : q \in DOMAIN tree /\ ~IsDir(q)

\* What there is after bb_make_directory: it creates what is missing, open to everybody
\* but for the last, and leaves alone what is there.
WithDirectory(p) ==
    [q \in DOMAIN tree \cup Above(p) \cup {p} |->
        IF q \in DOMAIN tree THEN tree[q] ELSE Entry("d", Unnumbered, Perm(0, 0, "777"))]

\* main does not look at the result: a file is given the owner and the mode.
TakeDirectory(l) ==
    /\ Takes(l) /\ l.type = "d"
    /\ Complains(Barred(l.name))
    /\ tree' = IF Barred(l.name) THEN tree
               ELSE [WithDirectory(l.name) EXCEPT ![l.name].perm = Owned(l)]

TakeFile(l) ==
    /\ Takes(l) /\ l.type = "f"
    /\ \E there \in {l.name \in DOMAIN tree /\ tree[l.name].kind = "f"} :
          /\ Complains(~there)
          /\ tree' = IF there THEN [tree EXCEPT ![l.name].perm = Owned(l)] ELSE tree

Numbered(p, n) == [p EXCEPT ![Len(p)] = Append(@, n)]

\* Mutant of Nodes: the increment is left out.
NodesByOne(l) ==
    IF l.count = 0 THEN {<<l.name, l.minor>>}
    ELSE {<<Numbered(l.name, l.start + i), l.minor + i>> : i \in 0 .. l.count - 1}

\* The nodes of a line, each with its minor number, which is an unsigned int.
Nodes(l) ==
    IF l.count = 0 THEN {<<l.name, l.minor>>}
    ELSE {<<Numbered(l.name, l.start + i), (l.minor + i * l.inc) % (UINT_MAX + 1)>> :
             i \in 0 .. l.count - 1}

Minors(l) == {x[2] : x \in Nodes(l)}

\* mknod, which under fakeroot opens an ordinary file for the node, and so takes
\* any that is there; where there is a directory, the mode is still changed.
TakeNodes(l) ==
    /\ Takes(l) /\ l.type \in {"c", "b", "p"}
    /\ \E made \in {{x \in Nodes(l) : IsDir(Parent(x[1])) /\ ~IsDir(x[1])}} :
          /\ Complains(made # Nodes(l))
          /\ tree' = [p \in DOMAIN tree \cup {x[1] : x \in made} |->
                         IF \E x \in made : p = x[1]
                         THEN Entry(l.type, <<l.major, CHOOSE n \in Minors(l) : <<p, n>> \in made>>,
                                    Owned(l))
                         ELSE IF p \in {x[1] : x \in Nodes(l)}
                              THEN [tree[p] EXCEPT !.perm.mode = l.mode] ELSE tree[p]]

TakeOther(l) ==
    /\ Takes(l) /\ l.type \notin {"c", "b", "p", "d", "f"}
    /\ Complains(TRUE)
    /\ UNCHANGED tree

\* The whole table is read, and main returns ret.
Exits ==
    /\ unread = <<>> /\ devs = "reading"
    /\ devs' = "ok"
    /\ UNCHANGED <<tree, unread, strings>>

MakedevsNext ==
    \/ \E l \in {unread[i] : i \in DOMAIN unread \cap {1}} :
          \/ SkipLine(l) \/ Dies(l) \/ TakeDirectory(l) \/ TakeFile(l)
          \/ TakeNodes(l) \/ TakeOther(l)
    \/ Exits

Ended == unread = <<>> /\ devs \in {"ok", "failed", "died"}

-----------------------------------------------------------------------------
\* The paths a line asks for, each with its minor number: a row of count nodes is
\* named from start on, and its minor numbers are inc apart, as the usage of makedevs
\* says ("/dev/uio[6-10] with minor numbers 1,3,5,7,9" for a start of 6, an inc of 2
\* and a count of 5).  The manual (makedev-syntax.txt:33-35) has the number of the
\* name go up by inc until it reaches count: that is not what makedevs does, nor
\* what the tables of system/ with a start of 0 count on.
Asks(l) ==
    IF l.type \in {"d", "f"} \/ l.count = 0 THEN {<<l.name, l.minor>>}
    ELSE {<<Numbered(l.name, k), l.minor + (k - l.start) * l.inc>> :
             k \in l.start .. l.start + l.count - 1}
AskedFor(l, p) == \E x \in Asks(l) : x[1] = p

\* When makedevs says that all went well, the last line of the table that asks for a path has
\* got it, whatever lines before it, other rows of nodes and earlier images have
\* left there: its kind, its number, if it fits an unsigned int, and, from a complete
\* line, its owner and mode.  (A "d" line is content with a file, which it does not replace.)
NodesAsTabled(lines) ==
    devs = "ok" =>
        \A i \in DOMAIN lines : \A x \in Asks(lines[i]) :
            Counts(lines[i]) /\ (\A j \in i + 1 .. Len(lines) :
                                     Counts(lines[j]) => ~AskedFor(lines[j], x[1]))
            => LET l == lines[i]
                   there == tree[x[1]] IN
               /\ x[1] \in DOMAIN tree
               /\ l.type # "d" => there.kind = l.type
               /\ l.type \notin {"d", "f"} /\ x[2] <= UINT_MAX => there.dev = <<l.major, x[2]>>
               /\ there.perm.mode = l.mode
               /\ l.fields >= 5 => there.perm.uid = Ids[l.user] /\ there.perm.gid = Ids[l.group]
=============================================================================
