------------------------------ MODULE MkUsers ------------------------------
(***************************************************************************)
(* support/scripts/mkusers, which every filesystem image runs on TARGET_DIR*)
(* (fs/common.mk): it enters the users the packages ask for, and their     *)
(* groups, in the etc/passwd, etc/group and etc/gshadow of the target.     *)
(* TARGET_DIR lives on from make to make, so that the script meets its own *)
(* earlier work, under the same table of users or another one.             *)
(***************************************************************************)
EXTENDS Integers, Sequences, SequencesExt

CONSTANTS
    Tables,         \* the tables of users considered, each a sequence of lines
    Groups,         \* /etc/group of the skeleton: name -> [gid, members]
    Users,          \* /etc/passwd of the skeleton: name -> [uid, gid]
    root,           \* the superuser
    MIN_ID,         \* MIN_UID and MIN_GID
    MAX_ID,         \* MAX_UID and MAX_GID
    MaxRuns         \* bound: times the script is run

AutoId == -1

(***************************************************************************)
(* A line of the table.  "clear" says that the password begins with "=" or *)
(* "!=", "home" whether the home directory is one the script accepts, and  *)
(* "room" whether it can be made: no file of the target is in its way.     *)
(***************************************************************************)
IsList(s) == s \in Seq(Range(s))
IsLine(l) ==
    /\ l.uid \in Int /\ l.gid \in Int /\ {l.clear, l.home, l.room} \subseteq BOOLEAN
    /\ IsList(l.groups) /\ IsInjective(l.groups)

ASSUME TableAssumption ==
    \A t \in Tables : IsList(t) /\ \A i \in DOMAIN t : IsLine(t[i])
ASSUME IdAssumption ==
    /\ MIN_ID \in Nat \ {0} /\ MAX_ID \in Nat /\ MIN_ID <= MAX_ID
    /\ MaxRuns \in Nat \ {0}

\* A file is a function; the entry of a group has a gid and members, that of a user
\* a uid and a gid, nothing else.
IsFile(f) == f = [n \in DOMAIN f |-> f[n]]
IsGroup(e) == e = [gid |-> e.gid, members |-> e.members]
IsUser(e) == e = [uid |-> e.uid, gid |-> e.gid]

ASSUME SkeletonAssumption ==
    /\ root \in DOMAIN Users /\ Users[root].uid = 0
    /\ IsFile(Groups) /\ IsFile(Users)
    /\ \A g \in DOMAIN Groups : IsGroup(Groups[g])
    /\ \A u \in DOMAIN Users : IsUser(Users[u])

VARIABLES
    group,    \* /etc/group: name -> [gid, members]
    gshadow,  \* /etc/gshadow: name -> members
    passwd,   \* /etc/passwd (and /etc/shadow): name -> [uid, gid]
    table,    \* _users_table.txt of this run
    pass,     \* which of the five loops of main is running
    line,     \* the line of the table that it has come to
    other,    \* which of the line's additional groups the third loop has come to
    status,   \* "idle", "running", "ok" or "failed"
    runs,     \* number of runs so far
    last,     \* the table and the files the run before left, if it succeeded
    failed    \* has a run failed on this TARGET_DIR?

files == <<group, gshadow, passwd>>
vars == <<files, table, pass, line, other, status, runs, last, failed>>

-----------------------------------------------------------------------------
(* The loops of main. *)

GroupLoop == 1 .. 3

\* Mutant of Reads: the additional groups are not created.
ReadsMainOnly(l) ==
    \/ pass = 1 /\ l.gid >= 0
    \/ pass = 2 /\ l.gid = AutoId
    \/ pass = 4 /\ l.uid >= 0
    \/ pass = 5 /\ l.uid = AutoId

\* The five loops read the whole table, and each calls its function for some of
\* the lines only: main groups with a given gid, main groups with an automatic
\* one, additional groups, users with a given uid, and users with an automatic
\* one.  A line whose uid is below -1 is read by neither of the last two.
Reads(l) ==
    \/ pass = 1 /\ l.gid >= 0
    \/ pass = 2 /\ l.gid = AutoId
    \/ pass = 3 /\ other <= Len(l.groups)
    \/ pass = 4 /\ l.uid >= 0
    \/ pass = 5 /\ l.uid = AutoId

Reading == status = "running" /\ line <= Len(table)
This == table[line]
Calling == Reading /\ Reads(This)

\* The file f with entry e for name n, which replaces the one there was.
With(f, n, e) == [m \in DOMAIN f \cup {n} |-> IF m = n THEN e ELSE f[m]]
Without(f, n) == [m \in DOMAIN f \ {n} |-> f[m]]

GroupsOf(gid) == {g \in DOMAIN group : group[g].gid = gid}
UsersOf(uid) == {u \in DOMAIN passwd : passwd[u].uid = uid}

\* The numbers generate_gid and generate_uid choose from.
Free(used) == (MIN_ID .. MAX_ID) \ used
Lowest(free) == {n \in free : \A m \in free : n <= m}

FreeGids == Free({group[g].gid : g \in DOMAIN group})
FreeUids == Free({passwd[u].uid : u \in DOMAIN passwd})

Init ==
    /\ group = Groups /\ passwd = Users
    /\ gshadow = [g \in DOMAIN Groups |-> Groups[g].members]
    /\ table \in Tables
    /\ pass = 0 /\ line = 1 /\ other = 1 /\ status = "idle" /\ runs = 0
    /\ last = {} /\ failed = FALSE

\* make builds an image: mkusers starts, under some table.
Start(t) ==
    /\ status # "running" /\ runs < MaxRuns
    /\ table' = t
    /\ pass' = 1 /\ line' = 1 /\ other' = 1
    /\ status' = "running" /\ runs' = runs + 1
    /\ last' = IF status = "ok" THEN {<<table, group, passwd>>} ELSE {}
    /\ UNCHANGED <<files, failed>>

\* continue, or all additional groups of the line are created.
Skip ==
    /\ Reading /\ ~Reads(This)
    /\ line' = line + 1 /\ other' = 1
    /\ UNCHANGED <<files, table, pass, status, runs, last, failed>>

\* A loop of main has read the whole table.
NextLoop ==
    /\ status = "running" /\ line > Len(table) /\ pass < 5
    /\ pass' = pass + 1 /\ line' = 1 /\ other' = 1
    /\ UNCHANGED <<files, table, status, runs, last, failed>>

Done ==
    /\ status = "running" /\ line > Len(table) /\ pass = 5
    /\ status' = "ok"
    /\ UNCHANGED <<files, table, pass, line, other, runs, last, failed>>

\* fail, or a command that fails under "set -e".
Stop ==
    /\ status' = "failed" /\ failed' = TRUE
    /\ UNCHANGED <<table, pass, line, other, runs, last>>
Abort == Stop /\ UNCHANGED <<group, gshadow>>

-----------------------------------------------------------------------------
(* add_one_group *)

\* The function returns, and the loop goes on.
Goes ==
    /\ Calling
    /\ IF pass = 3 THEN other' = other + 1 /\ UNCHANGED line
                   ELSE line' = line + 1 /\ UNCHANGED other
    /\ UNCHANGED <<table, pass, status, runs, last, failed>>

\* The group is written anew, without members.
PutGroup(g, gid) ==
    /\ group' = With(group, g, [gid |-> gid, members |-> {}])
    /\ gshadow' = With(gshadow, g, {})
    /\ UNCHANGED passwd

\* The name and the gid that the group loops take from the line.
Asked == IF pass = 3 THEN [group |-> This.groups[other], gid |-> AutoId]
         ELSE [group |-> This.group, gid |-> This.gid]

AddFixedGroup ==
    /\ Goes /\ pass \in GroupLoop /\ Asked.gid # AutoId
    /\ PutGroup(Asked.group, Asked.gid)

\* The gid of an automatic group is the one it has, or the lowest free one.
AddAutoGroup ==
    /\ Goes /\ pass \in GroupLoop /\ Asked.gid = AutoId
    /\ LET g == Asked.group IN
       \/ g \in DOMAIN group /\ PutGroup(g, group[g].gid)
       \/ g \notin DOMAIN group /\ \E gid \in Lowest(FreeGids) : PutGroup(g, gid)

NoFreeGid ==
    /\ Calling /\ pass \in GroupLoop
    /\ Asked.gid = AutoId /\ Asked.group \notin DOMAIN group /\ FreeGids = {}
    /\ Abort /\ UNCHANGED passwd

-----------------------------------------------------------------------------
(* add_one_user *)

\* get_ugid splits the line of the user at ":i": no line begins with the name
\* of a user and ":i", so that it never finds anybody's gid.
Ugid(u) == {}

\* Mutant of Valid: the gid is not looked at.
ValidAnyGid(l) ==
    /\ l.user # root /\ l.gid >= AutoId /\ l.gid # 0
    /\ l.uid >= AutoId /\ l.uid # 0
    /\ l.uid # AutoId =>
           UsersOf(l.uid) \subseteq {l.user}
           /\ (l.user \in DOMAIN passwd => passwd[l.user].uid = l.uid)

\* check_user_validity
Valid(l) ==
    /\ l.user # root
    /\ l.gid >= AutoId /\ l.gid # 0
    /\ l.gid # AutoId =>
           /\ GroupsOf(l.gid) \subseteq {l.group}
           /\ l.group \in DOMAIN group => group[l.group].gid = l.gid
           /\ Ugid(l.user) \subseteq {l.gid}
    /\ l.uid >= AutoId /\ l.uid # 0
    /\ l.uid # AutoId =>
           /\ UsersOf(l.uid) \subseteq {l.user}
           /\ l.user \in DOMAIN passwd => passwd[l.user].uid = l.uid
    /\ UNION {GroupsOf(gid) : gid \in Ugid(l.user)} \subseteq {l.group}

\* Mutant of Uid: a user that is already there gets a new number.
UidAnew(l) == IF l.uid # AutoId THEN {l.uid} ELSE Lowest(FreeUids)

\* The uid the user gets; none if all of them are taken.
Uid(l) == IF l.uid # AutoId THEN {l.uid}
          ELSE IF l.user \in DOMAIN passwd THEN {passwd[l.user].uid}
          ELSE Lowest(FreeUids)

\* Mutant of Join: /etc/gshadow is forgotten.
JoinGroupOnly(u, gs) ==
    /\ group' = [g \in DOMAIN group |->
           IF g \in gs THEN [group[g] EXCEPT !.members = @ \cup {u}] ELSE group[g]]
    /\ UNCHANGED gshadow

\* add_user_to_group, for each of the user's additional groups.
Join(u, gs) ==
    /\ group' = [g \in DOMAIN group |->
           IF g \in gs THEN [group[g] EXCEPT !.members = @ \cup {u}] ELSE group[g]]
    /\ gshadow' = [g \in DOMAIN gshadow |->
           IF g \in gs THEN gshadow[g] \cup {u} ELSE gshadow[g]]

\* The user's entry is removed and written anew.
EnterUser(l) ==
    /\ pass \notin GroupLoop /\ Valid(l) /\ l.home /\ ~l.clear
    /\ \E uid \in Uid(l) :
          passwd' = With(passwd, l.user, [uid |-> uid, gid |-> group[l.group].gid])
    /\ Join(l.user, Range(l.groups))

\* The home directory is made.
AddUser == Goes /\ EnterUser(This) /\ This.room

\* It cannot be made, and mkdir fails when the user has been entered.
LeaveUser == Calling /\ EnterUser(This) /\ ~This.room /\ Stop

RefuseUser ==
    /\ Calling /\ pass \notin GroupLoop
    /\ ~Valid(This) \/ Uid(This) = {}
    /\ Abort /\ UNCHANGED passwd

\* The home directory is refused, and encode_passwd is not a command, when the
\* old entry of the user is already removed.
LoseUser ==
    /\ Calling /\ pass \notin GroupLoop
    /\ LET l == This IN
       /\ Valid(l) /\ Uid(l) # {} /\ (l.home => l.clear)
       /\ passwd' = Without(passwd, l.user)
    /\ Abort

\* One step of a run.
Works ==
    \/ Skip \/ NextLoop \/ Done
    \/ AddFixedGroup \/ AddAutoGroup \/ NoFreeGid
    \/ AddUser \/ LeaveUser \/ RefuseUser \/ LoseUser

Next == (\E t \in Tables : Start(t)) \/ Works

Spec == Init /\ [][Next]_vars

-----------------------------------------------------------------------------
(* Properties. *)

Lines == UNION {Range(t) : t \in Tables}
Id(given) == (MIN_ID .. MAX_ID) \cup given

\* A run that succeeds gives no two users one uid, and no two groups one gid,
\* that they did not share in the skeleton: gids entered unseen by the group
\* loops are caught when the users are checked, except those of lines that no
\* user loop reads.  Ids that neither the skeleton nor the table gives are in the
\* range of the automatic ones.  (Caught, and left in the files for the next run:
\* the property is about a target on which no run failed.)
Unread(l) == l.uid < AutoId
IdsUnique ==
    status = "ok" /\ ~failed =>
        /\ \A u, v \in DOMAIN passwd : passwd[u].uid = passwd[v].uid =>
              u = v \/ {u, v} \subseteq DOMAIN Users
        /\ \A g, h \in DOMAIN group : group[g].gid = group[h].gid =>
              \/ g = h \/ {g, h} \subseteq DOMAIN Groups
              \/ \E l \in Lines : Unread(l) /\ l.gid = group[g].gid
        /\ \A u \in DOMAIN passwd :
              passwd[u].uid \in Id({Users[v].uid : v \in DOMAIN Users} \cup {l.uid : l \in Lines})
        /\ \A g \in DOMAIN group :
              group[g].gid \in Id({Groups[h].gid : h \in DOMAIN Groups} \cup {l.gid : l \in Lines})

\* After a run that succeeds every user with a valid uid field is there, with
\* the ids its lines ask for, whatever other lines say of the same user or group;
\* and a group that the table names has the members that the table gives it and
\* no others, even if it is the main group of one line and an additional group of
\* the next, or had members in the skeleton or after an earlier run.
Named == {l.group : l \in {m \in Range(table) : m.gid >= AutoId}}
         \cup UNION {Range(l.groups) : l \in Range(table)}
AsAsked ==
    status = "ok" =>
        LET lines == {l \in Range(table) : l.uid >= AutoId} IN
        /\ \A l \in lines :
              /\ l.user \in DOMAIN passwd /\ l.group \in DOMAIN group
              /\ l.uid # AutoId => passwd[l.user].uid = l.uid
              /\ l.gid # AutoId => group[l.group].gid = l.gid
        /\ \A g \in Named :
              g \in DOMAIN group /\ group[g].members = {l.user : l \in {m \in lines : g \in Range(m.groups)}}

\* The content of gshadow is in sync with /etc/group, between any two users or
\* groups and after any failure.
GShadowInSync == gshadow = [g \in DOMAIN group |-> group[g].members]

\* The next make, with the same table, succeeds and changes nothing.
RerunIdle ==
    last # {} /\ status \in {"ok", "failed"} =>
        \A l \in last : l[1] = table =>
            status = "ok" /\ group = l[2] /\ passwd = l[3]

=============================================================================
