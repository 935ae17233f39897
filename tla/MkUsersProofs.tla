--------------------------- MODULE MkUsersProofs ---------------------------
(***************************************************************************)
(* Theorems about MkUsers, for every table of users and every skeleton.    *)
(* The invariants below say where a run is: which groups the first three   *)
(* loops have written, which users the last two, and what the files of an  *)
(* earlier run have to do with those of this one.                          *)
(***************************************************************************)
EXTENDS MkUsers, TLAPS

\* Every entry of /etc/group is one.
GroupEntries == \A g \in DOMAIN group : IsGroup(group[g])

-----------------------------------------------------------------------------
(* What the functions of the script do to the files. *)

\* A group written anew has the gid and no members; the others are as before.
LEMMA PutGroupEffect ==
    ASSUME NEW g, NEW gid, PutGroup(g, gid)
    PROVE  /\ DOMAIN group' = DOMAIN group \cup {g}
           /\ group'[g] = [gid |-> gid, members |-> {}]
           /\ \A h \in DOMAIN group \ {g} : group'[h] = group[h]
           /\ passwd' = passwd
  BY DEF PutGroup, With

\* Joining changes nothing of a group but who is a member.
LEMMA JoinEffect ==
    ASSUME GroupEntries, NEW u, NEW gs, Join(u, gs)
    PROVE  /\ DOMAIN group' = DOMAIN group
           /\ GroupEntries'
           /\ \A g \in DOMAIN group :
                 /\ group'[g].gid = group[g].gid
                 /\ group'[g].members = IF g \in gs THEN group[g].members \cup {u}
                                                    ELSE group[g].members
  <1>1. DOMAIN group' = DOMAIN group
    BY DEF Join
  <1>2. ASSUME NEW g \in DOMAIN group
        PROVE  /\ IsGroup(group'[g])
               /\ group'[g].gid = group[g].gid
               /\ group'[g].members = IF g \in gs THEN group[g].members \cup {u}
                                                  ELSE group[g].members
    <2>1. group[g] = [gid |-> group[g].gid, members |-> group[g].members]
      BY <1>2 DEF GroupEntries, IsGroup
    <2>2. CASE g \in gs
      <3>1. group'[g] = [group[g] EXCEPT !.members = group[g].members \cup {u}]
        BY <1>2, <2>2 DEF Join
      <3>2. group'[g] = [gid |-> group[g].gid, members |-> group[g].members \cup {u}]
        BY <3>1, <2>1
      <3> QED BY <3>2, <2>2 DEF IsGroup
    <2>3. CASE g \notin gs
      BY <1>2, <2>1, <2>3 DEF Join, IsGroup
    <2> QED BY <2>2, <2>3
  <1> QED BY <1>1, <1>2 DEF GroupEntries

\* Writing a group anew keeps the two files in step.
LEMMA PutGroupInSync ==
    ASSUME GShadowInSync, GroupEntries, NEW g, NEW gid, PutGroup(g, gid)
    PROVE  GShadowInSync' /\ GroupEntries'
  <1>1. DOMAIN gshadow = DOMAIN group
    BY DEF GShadowInSync
  <1>2. /\ group' = [m \in DOMAIN group \cup {g} |->
                        IF m = g THEN [gid |-> gid, members |-> {}] ELSE group[m]]
        /\ gshadow' = [m \in DOMAIN group \cup {g} |-> IF m = g THEN {} ELSE gshadow[m]]
    BY <1>1 DEF PutGroup, With
  <1>3. \A m \in DOMAIN group' : gshadow'[m] = group'[m].members
    BY <1>2 DEF GShadowInSync
  <1>4. \A m \in DOMAIN group' : IsGroup(group'[m])
    BY <1>2 DEF GroupEntries, IsGroup
  <1> QED BY <1>2, <1>3, <1>4 DEF GShadowInSync, GroupEntries

\* So does making a user a member of some groups.
LEMMA JoinInSync ==
    ASSUME GShadowInSync, GroupEntries, NEW u, NEW gs, Join(u, gs)
    PROVE  GShadowInSync' /\ GroupEntries'
  <1>1. DOMAIN gshadow = DOMAIN group
    BY DEF GShadowInSync
  <1>2. \A g \in DOMAIN group : gshadow'[g] = group'[g].members
    BY <1>1, JoinEffect DEF Join, GShadowInSync
  <1>3. gshadow' = [g \in DOMAIN group |-> gshadow'[g]]
    BY <1>1 DEF Join
  <1> QED BY <1>2, <1>3, JoinEffect DEF GShadowInSync

\* The content of gshadow is in sync with that of group after every step,
\* whatever the tables ask for and wherever a run fails.
THEOREM GShadowCorrect == Spec => []GShadowInSync
  <1> DEFINE Inv == GShadowInSync /\ GroupEntries
  <1>1. Init => Inv
    BY SkeletonAssumption DEF Init, GShadowInSync, GroupEntries
  <1>2. Inv /\ [Next]_vars => Inv'
    <2> SUFFICES ASSUME GShadowInSync, GroupEntries, [Next]_vars
                 PROVE  GShadowInSync' /\ GroupEntries'
      OBVIOUS
    <2>1. ASSUME UNCHANGED <<group, gshadow>>
          PROVE  GShadowInSync' /\ GroupEntries'
      BY <2>1 DEF GShadowInSync, GroupEntries
    <2>2. CASE UNCHANGED vars
      BY <2>2, <2>1 DEF vars, files
    <2>3. CASE \E t \in Tables : Start(t)
      BY <2>3, <2>1 DEF Start, files
    <2>4. CASE Skip \/ NextLoop \/ Done
      BY <2>4, <2>1 DEF Skip, NextLoop, Done, files
    <2>5. CASE AddFixedGroup
      BY <2>5, PutGroupInSync DEF AddFixedGroup
    <2>6. CASE AddAutoGroup
      BY <2>6, PutGroupInSync DEF AddAutoGroup
    <2>7. CASE NoFreeGid \/ RefuseUser \/ LoseUser
      BY <2>7, <2>1 DEF NoFreeGid, RefuseUser, LoseUser, Abort, Stop
    <2>8. CASE AddUser \/ LeaveUser
      BY <2>8, JoinInSync DEF AddUser, LeaveUser, EnterUser
    <2> QED BY <2>2, <2>3, <2>4, <2>5, <2>6, <2>7, <2>8 DEF Next, Works
  <1> QED BY <1>1, <1>2, PTL DEF Spec

-----------------------------------------------------------------------------
(* What the five loops have done so far. *)

\* Loop p is done with line i of the table.
HasRead(p, i) == pass > p \/ (pass = p /\ line > i)

\* The user of line i has been added.
Entered(i) == \/ table[i].uid >= 0 /\ HasRead(4, i)
              \/ table[i].uid = AutoId /\ HasRead(5, i)

\* A run that goes on, or has succeeded.
Fine == status \in {"running", "ok"}

UserEntries == \A u \in DOMAIN passwd : IsUser(passwd[u])

RunInv ==
    /\ table \in Tables /\ line \in Nat \ {0} /\ other \in Nat \ {0}
    /\ Fine => pass \in 1 .. 5
    /\ status = "ok" => pass = 5 /\ line > Len(table)
    /\ status = "failed" => failed
    /\ GroupEntries /\ UserEntries /\ IsFile(group) /\ IsFile(passwd)

\* The lines of a table.
LEMMA TableLines ==
    ASSUME NEW t \in Tables
    PROVE  /\ Len(t) \in Nat /\ DOMAIN t = 1 .. Len(t)
           /\ \A i \in DOMAIN t :
                 /\ t[i] \in Lines /\ t[i] \in Range(t)
                 /\ t[i].uid \in Int /\ t[i].gid \in Int
                 /\ Len(t[i].groups) \in Nat
                 /\ DOMAIN t[i].groups = 1 .. Len(t[i].groups)
           /\ Range(t) = {t[i] : i \in DOMAIN t}
  <1>1. t \in Seq(Range(t))
    BY TableAssumption DEF IsList
  <1>2. ASSUME NEW i \in DOMAIN t
        PROVE  /\ t[i] \in Lines /\ t[i] \in Range(t)
               /\ t[i].uid \in Int /\ t[i].gid \in Int
               /\ Len(t[i].groups) \in Nat
               /\ DOMAIN t[i].groups = 1 .. Len(t[i].groups)
    <2>1. IsLine(t[i])
      BY TableAssumption
    <2>2. t[i] \in Range(t)
      BY DEF Range
    <2>3. t[i].groups \in Seq(Range(t[i].groups))
      BY <2>1 DEF IsLine, IsList
    <2> QED BY <2>1, <2>2, <2>3 DEF IsLine, Lines
  <1>3. Len(t) \in Nat /\ DOMAIN t = 1 .. Len(t)
    BY <1>1
  <1>4. Range(t) = {t[i] : i \in DOMAIN t}
    BY DEF Range
  <1> QED BY <1>2, <1>3, <1>4

\* The loops of groups write one group after the other: EnterGroup is what the two
\* actions that do so have in common.
EnterGroup(g, gid) ==
    /\ Goes /\ pass \in GroupLoop /\ PutGroup(g, gid) /\ g = Asked.group
    /\ \/ gid = Asked.gid /\ gid # AutoId
       \/ Asked.gid = AutoId /\ g \in DOMAIN group /\ gid = group[g].gid
       \/ Asked.gid = AutoId /\ g \notin DOMAIN group /\ gid \in FreeGids

LEMMA EntersGroup ==
    ASSUME AddFixedGroup \/ AddAutoGroup
    PROVE  \E g, gid : EnterGroup(g, gid)
  <1>1. CASE AddFixedGroup
    BY <1>1 DEF AddFixedGroup, EnterGroup
  <1>2. CASE AddAutoGroup
    BY <1>2 DEF AddAutoGroup, EnterGroup, Lowest
  <1> QED BY <1>1, <1>2

LEMMA EnterEffect ==
    ASSUME NEW g, NEW gid, EnterGroup(g, gid)
    PROVE  /\ DOMAIN group' = DOMAIN group \cup {g}
           /\ IsGroup(group'[g]) /\ group'[g].gid = gid /\ group'[g].members = {}
           /\ \A h \in DOMAIN group \ {g} : group'[h] = group[h]
           /\ passwd' = passwd
  <1>1. PutGroup(g, gid)
    BY DEF EnterGroup
  <1>2. group'[g] = [gid |-> gid, members |-> {}]
    BY <1>1, PutGroupEffect
  <1>3. IsGroup(group'[g]) /\ group'[g].gid = gid /\ group'[g].members = {}
    BY <1>2 DEF IsGroup
  <1> QED BY <1>1, <1>3, PutGroupEffect

\* A run that stops half-way.
GivesUp ==
    /\ NoFreeGid \/ RefuseUser \/ LoseUser
    /\ Calling /\ Abort
    /\ passwd' = passwd \/ \E u : passwd' = Without(passwd, u)

\* What a step of Spec can be.
LEMMA StepKinds ==
    ASSUME [Next]_vars
    PROVE  \/ UNCHANGED vars \/ \E t \in Tables : Start(t)
           \/ Skip \/ NextLoop \/ Done
           \/ \E g, gid : EnterGroup(g, gid)
           \/ AddUser \/ LeaveUser \/ GivesUp
  <1>1. CASE NoFreeGid \/ RefuseUser \/ LoseUser
    BY <1>1 DEF NoFreeGid, RefuseUser, LoseUser, GivesUp
  <1> QED BY <1>1, EntersGroup DEF Next, Works

\* What becomes of the users when one is added.
LEMMA AddUserEffect ==
    ASSUME AddUser \/ LeaveUser
    PROVE  /\ DOMAIN passwd' = DOMAIN passwd \cup {This.user}
           /\ IsFile(passwd') /\ IsUser(passwd'[This.user])
           /\ passwd'[This.user].uid \in Uid(This)
           /\ passwd'[This.user].gid = group[This.group].gid
           /\ \A v \in DOMAIN passwd \ {This.user} : passwd'[v] = passwd[v]
  <1>1. PICK uid \in Uid(This) :
            passwd' = With(passwd, This.user, [uid |-> uid, gid |-> group[This.group].gid])
    BY DEF AddUser, LeaveUser, EnterUser
  <1>2. passwd'[This.user] = [uid |-> uid, gid |-> group[This.group].gid]
    BY <1>1 DEF With
  <1>3. /\ DOMAIN passwd' = DOMAIN passwd \cup {This.user}
        /\ \A v \in DOMAIN passwd \ {This.user} : passwd'[v] = passwd[v]
    BY <1>1 DEF With
  <1>4. IsFile(passwd')
    BY <1>1 DEF With, IsFile
  <1> QED BY <1>2, <1>3, <1>4 DEF IsUser

LEMMA RunInit == Init => RunInv
  BY SkeletonAssumption DEF Init, RunInv, Fine, GroupEntries, UserEntries

LEMMA RunStep ==
    ASSUME RunInv, [Next]_vars
    PROVE  RunInv'
  <1> USE DEF RunInv, Fine, GroupEntries, UserEntries
  <1>1. CASE UNCHANGED vars
    BY <1>1 DEF vars, files
  <1>2. ASSUME NEW t \in Tables, Start(t) PROVE RunInv'
    BY <1>2 DEF Start, files
  <1>3. CASE Skip
    BY <1>3 DEF Skip, Reading, files
  <1>4. CASE NextLoop
    BY <1>4 DEF NextLoop, files
  <1>5. CASE Done
    BY <1>5 DEF Done, files
  <1>6. ASSUME NEW g, NEW gid, EnterGroup(g, gid) PROVE RunInv'
    <2>1. GroupEntries'
      BY <1>6, EnterEffect
    <2>2. IsFile(group') /\ passwd' = passwd
      BY <1>6 DEF EnterGroup, PutGroup, With, IsFile
    <2> QED BY <1>6, <2>1, <2>2 DEF EnterGroup, Goes, Calling, Reading
  <1>7. CASE AddUser \/ LeaveUser
    <2>1. GroupEntries'
      BY <1>7, JoinEffect DEF AddUser, LeaveUser, EnterUser
    <2>2. IsFile(group')
      BY <1>7 DEF AddUser, LeaveUser, EnterUser, Join, IsFile
    <2>3. UserEntries' /\ IsFile(passwd')
      BY <1>7, AddUserEffect
    <2>4. CASE AddUser
      BY <2>1, <2>2, <2>3, <2>4 DEF AddUser, Goes, Calling, Reading
    <2>5. CASE LeaveUser
      BY <2>1, <2>2, <2>3, <2>5 DEF LeaveUser, Stop
    <2> QED BY <1>7, <2>4, <2>5
  <1>8. CASE GivesUp
    <2>1. UserEntries' /\ IsFile(passwd')
      <3>1. ASSUME NEW u, passwd' = Without(passwd, u) PROVE UserEntries' /\ IsFile(passwd')
        BY <3>1 DEF Without, IsFile
      <3> QED BY <1>8, <3>1 DEF GivesUp
    <2> QED BY <1>8, <2>1 DEF GivesUp, Abort, Stop
  <1> QED BY <1>1, <1>2, <1>3, <1>4, <1>5, <1>6, <1>7, <1>8, StepKinds

\* How far the loops are after a step.
LEMMA Progress ==
    ASSUME RunInv, NEW i \in DOMAIN table, NEW p \in 1 .. 5
    PROVE  /\ Skip \/ (Goes /\ pass # 3) =>
                 (HasRead(p, i)' <=> HasRead(p, i) \/ (p = pass /\ i = line))
           /\ Goes /\ pass = 3 => (HasRead(p, i)' <=> HasRead(p, i))
           /\ NextLoop \/ Done => (HasRead(p, i)' <=> HasRead(p, i))
  <1>1. /\ i \in Nat /\ i <= Len(table) /\ Len(table) \in Nat /\ line \in Nat
        /\ status = "running" => pass \in Nat
    BY TableLines DEF RunInv, Fine
  <1>2. Skip => (HasRead(p, i)' <=> HasRead(p, i) \/ (p = pass /\ i = line))
    BY <1>1 DEF Skip, Reading, HasRead
  <1>3. Goes /\ pass # 3 => (HasRead(p, i)' <=> HasRead(p, i) \/ (p = pass /\ i = line))
    BY <1>1 DEF Goes, Calling, Reading, HasRead
  <1>4. Goes /\ pass = 3 => (HasRead(p, i)' <=> HasRead(p, i))
    BY <1>1 DEF Goes, HasRead
  <1>5. NextLoop => (HasRead(p, i)' <=> HasRead(p, i))
    BY <1>1 DEF NextLoop, HasRead
  <1>6. Done => (HasRead(p, i)' <=> HasRead(p, i))
    BY <1>1 DEF Done, HasRead
  <1> QED BY <1>2, <1>3, <1>4, <1>5, <1>6

\* A line that is read is one of the table.
LEMMA ThisLine ==
    ASSUME RunInv, Reading
    PROVE  /\ line \in DOMAIN table /\ This = table[line] /\ This \in Lines
           /\ This.uid \in Int /\ This.gid \in Int
           /\ pass \in 1 .. 5
  BY TableLines DEF RunInv, Reading, This, Fine

\* Only the user loops enter users, and only those of the lines they read.
LEMMA EnteredStep ==
    ASSUME RunInv, NEW i \in DOMAIN table
    PROVE  /\ Skip \/ NextLoop \/ Done => (Entered(i)' <=> Entered(i))
           /\ Goes /\ pass \in GroupLoop => (Entered(i)' <=> Entered(i))
           /\ Goes /\ pass \notin GroupLoop => (Entered(i)' <=> Entered(i) \/ i = line)
           /\ Fine /\ pass \in GroupLoop => ~Entered(i)
           /\ Done => Unread(table[i]) \/ Entered(i)
  <1>1. table[i].uid \in Int /\ i \in 1 .. Len(table) /\ Len(table) \in Nat /\ line \in Nat
    BY TableLines DEF RunInv
  <1>2. Skip \/ NextLoop \/ Done \/ Goes => table' = table
    BY DEF Skip, NextLoop, Done, Goes
  <1>3. NextLoop \/ Done => (Entered(i)' <=> Entered(i))
    BY <1>2, Progress DEF Entered
  <1>4. Skip => (Entered(i)' <=> Entered(i))
    BY <1>1, <1>2, Progress DEF Skip, Reads, This, Entered, AutoId
  <1>5. Goes /\ pass = 3 => (Entered(i)' <=> Entered(i))
    BY <1>2, Progress DEF Entered
  <1>6. Goes /\ pass \in {1, 2} => (Entered(i)' <=> Entered(i))
    BY <1>2, Progress DEF Entered
  <1>7. Goes => pass \in 1 .. 5
    BY ThisLine DEF Goes, Calling
  <1>8. Goes /\ pass = 4 => (Entered(i)' <=> Entered(i) \/ i = line)
    BY <1>1, <1>2, Progress DEF Entered, Goes, Calling, Reads, This, AutoId
  <1>9. Goes /\ pass = 5 => (Entered(i)' <=> Entered(i) \/ i = line)
    BY <1>1, <1>2, Progress DEF Entered, Goes, Calling, Reads, This, AutoId
  <1>10. Fine /\ pass \in GroupLoop => ~Entered(i)
    BY DEF Entered, HasRead, GroupLoop
  <1>11. Done => Unread(table[i]) \/ Entered(i)
    BY <1>1 DEF Done, Unread, Entered, HasRead, AutoId
  <1> QED BY <1>3, <1>4, <1>5, <1>6, <1>7, <1>8, <1>9, <1>10, <1>11 DEF GroupLoop

-----------------------------------------------------------------------------
(* Ids. *)

\* Two users have one uid only if they had it in the skeleton, ...
UidsApart ==
    \A u, v \in DOMAIN passwd : passwd[u].uid = passwd[v].uid =>
        u = v \/ {u, v} \subseteq DOMAIN Users

\* ... and two groups one gid only if they had it there, if a line that no user
\* loop reads gives it, or if a line gives it whose user has still to be checked.
Pending(i) ==
    status = "running" /\ ~Unread(table[i]) /\ table[i].gid # AutoId /\ ~Entered(i)

GidsApart ==
    ~failed => \A g, h \in DOMAIN group : group[g].gid = group[h].gid =>
        \/ g = h \/ {g, h} \subseteq DOMAIN Groups
        \/ \E l \in Lines : Unread(l) /\ l.gid = group[g].gid
        \/ \E i \in DOMAIN table : Pending(i) /\ table[i].gid = group[g].gid

GivenUids == {Users[v].uid : v \in DOMAIN Users} \cup {l.uid : l \in Lines}
GivenGids == {Groups[h].gid : h \in DOMAIN Groups} \cup {l.gid : l \in Lines}

IdsKnown ==
    /\ \A u \in DOMAIN passwd : passwd[u].uid \in Id(GivenUids)
    /\ \A g \in DOMAIN group : group[g].gid \in Id(GivenGids)

IdsInv == UidsApart /\ GidsApart /\ IdsKnown

\* A uid that somebody else has is never given to a user who has another.
LEMMA UidsStep ==
    ASSUME RunInv, UidsApart, [Next]_vars
    PROVE  UidsApart'
  <1>1. ASSUME passwd' = passwd PROVE UidsApart'
    BY <1>1 DEF UidsApart
  <1>2. CASE GivesUp
    <2>1. ASSUME NEW u, passwd' = Without(passwd, u) PROVE UidsApart'
      BY <2>1 DEF Without, UidsApart
    <2> QED BY <1>1, <1>2, <2>1 DEF GivesUp
  <1>3. CASE AddUser \/ LeaveUser
    <2> DEFINE u == This.user
    <2> DEFINE uid == passwd'[u].uid
    <2>1. /\ uid \in Uid(This) /\ DOMAIN passwd' = DOMAIN passwd \cup {u}
          /\ \A v \in DOMAIN passwd \ {u} : passwd'[v] = passwd[v]
      BY <1>3, AddUserEffect
    <2>2. Valid(This)
      BY <1>3 DEF AddUser, LeaveUser, EnterUser
    <2>3. ASSUME NEW v \in DOMAIN passwd, v # u, passwd[v].uid = uid
          PROVE  {u, v} \subseteq DOMAIN Users
      <3>1. CASE This.uid # AutoId
        BY <2>1, <2>2, <2>3, <3>1 DEF Valid, UsersOf, Uid
      <3>2. CASE This.uid = AutoId /\ u \in DOMAIN passwd
        BY <2>1, <2>3, <3>2 DEF Uid, UidsApart
      <3>3. CASE This.uid = AutoId /\ u \notin DOMAIN passwd
        BY <2>1, <2>3, <3>3 DEF Uid, Lowest, FreeUids, Free
      <3> QED BY <3>1, <3>2, <3>3
    <2>4. ASSUME NEW v \in DOMAIN passwd', NEW w \in DOMAIN passwd',
                 passwd'[v].uid = passwd'[w].uid
          PROVE  v = w \/ {v, w} \subseteq DOMAIN Users
      BY <2>1, <2>3, <2>4 DEF UidsApart
    <2> QED BY <2>4 DEF UidsApart
  <1>4. ASSUME NEW g, NEW gid, EnterGroup(g, gid) PROVE UidsApart'
    BY <1>1, <1>4 DEF EnterGroup, PutGroup
  <1>5. CASE \/ UNCHANGED vars \/ \E t \in Tables : Start(t)
             \/ Skip \/ NextLoop \/ Done
    BY <1>1, <1>5 DEF vars, files, Start, Skip, NextLoop, Done
  <1> QED BY <1>2, <1>3, <1>4, <1>5, StepKinds

\* The ids come from the skeleton, the table, or the range of the free ones.
LEMMA KnownStep ==
    ASSUME RunInv, IdsKnown, [Next]_vars
    PROVE  IdsKnown'
  <1>1. ASSUME passwd' = passwd, group' = group PROVE IdsKnown'
    BY <1>1 DEF IdsKnown
  <1>2. CASE GivesUp
    BY <1>2 DEF GivesUp, Abort, Stop, Without, IdsKnown
  <1>3. CASE AddUser \/ LeaveUser
    <2>1. \A g \in DOMAIN group' : g \in DOMAIN group /\ group'[g].gid = group[g].gid
      BY <1>3, JoinEffect DEF AddUser, LeaveUser, EnterUser, RunInv
    <2>2. This \in Lines /\ This.uid \in Int
      BY <1>3, ThisLine DEF AddUser, LeaveUser, Goes, Calling
    <2>3. ASSUME NEW uid \in Uid(This) PROVE uid \in Id(GivenUids)
      <3>1. CASE This.uid # AutoId
        BY <2>2, <3>1 DEF Uid, Id, GivenUids
      <3>2. CASE This.uid = AutoId /\ This.user \in DOMAIN passwd
        BY <3>2 DEF Uid, IdsKnown
      <3>3. CASE This.uid = AutoId /\ This.user \notin DOMAIN passwd
        BY <3>3 DEF Uid, Lowest, FreeUids, Free, Id
      <3> QED BY <3>1, <3>2, <3>3
    <2>4. passwd'[This.user].uid \in Id(GivenUids)
      BY <1>3, <2>3, AddUserEffect
    <2>5. \A u \in DOMAIN passwd' : passwd'[u].uid \in Id(GivenUids)
      BY <1>3, <2>4, AddUserEffect DEF IdsKnown
    <2> QED BY <2>1, <2>5 DEF IdsKnown
  <1>4. ASSUME NEW g, NEW gid, EnterGroup(g, gid) PROVE IdsKnown'
    <2>1. /\ DOMAIN group' = DOMAIN group \cup {g} /\ group'[g].gid = gid
          /\ \A h \in DOMAIN group \ {g} : group'[h] = group[h]
          /\ passwd' = passwd
      BY <1>4, EnterEffect
    <2>2. gid \in Id(GivenGids)
      <3>1. CASE gid = Asked.gid /\ gid # AutoId
        <4>1. This \in Lines /\ gid = This.gid
          BY <1>4, <3>1, ThisLine DEF EnterGroup, Goes, Calling, Asked
        <4> QED BY <4>1 DEF Id, GivenGids
      <3>2. CASE g \in DOMAIN group /\ gid = group[g].gid
        BY <3>2 DEF IdsKnown
      <3>3. CASE gid \in FreeGids
        BY <3>3 DEF FreeGids, Free, Id
      <3> QED BY <1>4, <3>1, <3>2, <3>3 DEF EnterGroup
    <2> QED BY <2>1, <2>2 DEF IdsKnown
  <1>5. CASE \/ UNCHANGED vars \/ \E t \in Tables : Start(t)
             \/ Skip \/ NextLoop \/ Done
    BY <1>1, <1>5 DEF vars, files, Start, Skip, NextLoop, Done
  <1> QED BY <1>2, <1>3, <1>4, <1>5, StepKinds

\* A gid that two groups have got is caught when the user is checked whose line
\* gives it.
LEMMA GidsStep ==
    ASSUME RunInv, GidsApart, [Next]_vars
    PROVE  GidsApart'
  <1> DEFINE Excuse(x) == \/ \E l \in Lines : Unread(l) /\ l.gid = x
                          \/ \E i \in DOMAIN table : Pending(i) /\ table[i].gid = x
  <1>1. ASSUME group' = group, failed' = failed, table' = table,
               \A i \in DOMAIN table : Pending(i) => Pending(i)'
        PROVE  GidsApart'
    BY <1>1 DEF GidsApart
  <1>2. CASE UNCHANGED vars
    BY <1>1, <1>2 DEF vars, files, Pending, Entered, HasRead
  <1>3. ASSUME NEW t \in Tables, Start(t) PROVE GidsApart'
    <2>1. ~failed => status # "running" /\ ~failed
      BY <1>3 DEF Start
    <2> QED BY <1>3, <2>1 DEF Start, files, GidsApart, Pending
  <1>4. CASE Skip \/ NextLoop
    <2>1. \A i \in DOMAIN table : Pending(i) => Pending(i)'
      BY <1>4, EnteredStep DEF Pending, Skip, NextLoop
    <2> QED BY <1>1, <1>4, <2>1 DEF Skip, NextLoop, files
  <1>5. CASE Done
    <2>1. \A i \in DOMAIN table : ~Pending(i)
      BY <1>5, EnteredStep DEF Pending
    <2> QED BY <1>5, <2>1 DEF Done, files, GidsApart
  <1>6. ASSUME NEW g, NEW gid, EnterGroup(g, gid) PROVE GidsApart'
    <2>1. /\ DOMAIN group' = DOMAIN group \cup {g} /\ group'[g].gid = gid
          /\ \A h \in DOMAIN group \ {g} : group'[h] = group[h]
          /\ table' = table /\ failed' = failed
      BY <1>6, EnterEffect DEF EnterGroup, Goes
    <2>2. \A i \in DOMAIN table : Pending(i) => Pending(i)'
      BY <1>6, EnteredStep DEF EnterGroup, Goes, Pending
    <2>3. \A x : Excuse(x) => Excuse(x)'
      BY <2>1, <2>2
    <2>4. ASSUME ~failed, NEW h \in DOMAIN group \ {g}, group[h].gid = gid
          PROVE  {g, h} \subseteq DOMAIN Groups \/ Excuse(gid)'
      <3>1. CASE gid = Asked.gid /\ gid # AutoId
        <4>1. This.gid = gid /\ This \in Lines /\ This = table[line] /\ line \in DOMAIN table
          BY <1>6, <3>1, ThisLine DEF EnterGroup, Goes, Calling, Asked
        <4>2. status = "running" /\ status' = "running" /\ ~Entered(line)
          BY <1>6, <4>1, EnteredStep DEF EnterGroup, Goes, Calling, Reading, Fine
        <4>3. Unread(This) \/ Pending(line)
          BY <3>1, <4>1, <4>2 DEF Pending
        <4> QED BY <2>1, <2>2, <4>1, <4>3
      <3>2. CASE g \in DOMAIN group /\ gid = group[g].gid
        BY <2>3, <2>4, <3>2 DEF GidsApart
      <3>3. CASE gid \in FreeGids
        BY <2>4, <3>3 DEF FreeGids, Free
      <3> QED BY <1>6, <3>1, <3>2, <3>3 DEF EnterGroup
    <2>5. ASSUME ~failed, NEW h \in DOMAIN group \ {g}, NEW k \in DOMAIN group \ {g},
                 group[h].gid = group[k].gid
          PROVE  h = k \/ {h, k} \subseteq DOMAIN Groups \/ Excuse(group[h].gid)'
      <3>1. h = k \/ {h, k} \subseteq DOMAIN Groups \/ Excuse(group[h].gid)
        BY <2>5 DEF GidsApart
      <3> QED BY <2>1, <2>3, <3>1
    <2> QED BY <2>1, <2>4, <2>5 DEF GidsApart
  <1>7. CASE AddUser
    <2>1. /\ DOMAIN group' = DOMAIN group
          /\ \A h \in DOMAIN group : group'[h].gid = group[h].gid
          /\ table' = table /\ failed' = failed
      BY <1>7, JoinEffect DEF AddUser, EnterUser, Goes, RunInv
    <2>2. \A i \in DOMAIN table \ {line} : Pending(i) => Pending(i)'
      BY <1>7, EnteredStep DEF AddUser, EnterUser, Goes, Pending
    <2>3. Pending(line) => GroupsOf(table[line].gid) \subseteq {table[line].group}
      BY <1>7 DEF AddUser, EnterUser, This, Valid, Pending
    <2>4. ASSUME ~failed, NEW g \in DOMAIN group, NEW h \in DOMAIN group,
                 group[g].gid = group[h].gid, g # h
          PROVE  {g, h} \subseteq DOMAIN Groups \/ Excuse(group[g].gid)'
      <3>1. {g, h} \subseteq DOMAIN Groups \/ Excuse(group[g].gid)
        BY <2>4 DEF GidsApart
      <3>2. ~(Pending(line) /\ table[line].gid = group[g].gid)
        BY <2>3, <2>4 DEF GroupsOf
      <3> QED BY <2>1, <2>2, <3>1, <3>2
    <2> QED BY <2>1, <2>4 DEF GidsApart
  <1>8. CASE GivesUp \/ LeaveUser
    BY <1>8 DEF GivesUp, LeaveUser, Abort, Stop, GidsApart
  <1> QED BY <1>2, <1>3, <1>4, <1>5, <1>6, <1>7, <1>8, StepKinds

\* After runs that have all succeeded no two users share a uid and no two groups a
\* gid but those that did so in the skeleton, or by a line that no loop reads.
THEOREM IdsCorrect == Spec => []IdsUnique
  <1>1. Init => RunInv /\ IdsInv
    BY RunInit DEF Init, IdsInv, UidsApart, GidsApart, IdsKnown, GivenUids, GivenGids, Id
  <1>2. RunInv /\ IdsInv /\ [Next]_vars => (RunInv /\ IdsInv)'
    BY RunStep, UidsStep, GidsStep, KnownStep DEF IdsInv
  <1>3. RunInv /\ IdsInv => IdsUnique
    BY DEF IdsInv, UidsApart, GidsApart, IdsKnown, GivenUids, GivenGids, IdsUnique, Pending
  <1> QED BY <1>1, <1>2, <1>3, PTL DEF Spec

-----------------------------------------------------------------------------
(* What the lines of the table ask for. *)

\* The group loops have been at g: it is there, and has no members before the user
\* loops give it some.
Made(g) == g \in DOMAIN group /\ (pass \in GroupLoop => group[g].members = {})

GroupsMade ==
    Fine => \A i \in DOMAIN table :
        /\ table[i].gid >= 0 /\ HasRead(1, i) => Made(table[i].group)
        /\ table[i].gid = AutoId /\ HasRead(2, i) => Made(table[i].group)
        /\ \A j \in DOMAIN table[i].groups :
              HasRead(3, i) \/ (pass = 3 /\ line = i /\ other > j) => Made(table[i].groups[j])

\* Who is to be a member of g.
Members(g) == {l.user : l \in {m \in Range(table) : ~Unread(m) /\ g \in Range(m.groups)}}

\* The files g and p have the user of line l as it says, and nobody else with the
\* ids that it gives.
Fits(l, g, p) ==
    /\ l.user # root /\ l.home /\ l.room /\ ~l.clear /\ l.uid # 0 /\ l.gid >= AutoId /\ l.gid # 0
    /\ l.user \in DOMAIN p /\ l.group \in DOMAIN g
    /\ l.uid # AutoId => \A u \in DOMAIN p : p[u].uid = l.uid <=> u = l.user
    /\ l.gid # AutoId => \A h \in DOMAIN g : g[h].gid = l.gid <=> h = l.group

LinesFit == \A i \in DOMAIN table : Entered(i) => Fits(table[i], group, passwd)
LinesJoined ==
    \A i \in DOMAIN table : Entered(i) =>
        \A g \in Range(table[i].groups) : g \in DOMAIN group /\ table[i].user \in group[g].members
OnlyMembers == \A g \in Named : g \in DOMAIN group /\ group[g].members \subseteq Members(g)

UsersMade == Fine /\ pass \notin GroupLoop => LinesFit /\ LinesJoined /\ OnlyMembers

LEMMA GroupsStep ==
    ASSUME RunInv, GroupsMade, [Next]_vars
    PROVE  GroupsMade'
  <1>1. CASE UNCHANGED vars
    BY <1>1 DEF vars, files, GroupsMade, Fine, HasRead, Made
  <1>2. ASSUME NEW t \in Tables, Start(t) PROVE GroupsMade'
    <2>1. \A i \in DOMAIN t : i \in Nat \ {0}
      BY TableLines
    <2> QED BY <1>2, <2>1 DEF Start, GroupsMade, HasRead
  <1>3. CASE Skip
    <2>1. /\ table' = table /\ Fine /\ pass' = pass /\ other' = 1
          /\ \A g : Made(g)' <=> Made(g)
      BY <1>3 DEF Skip, Reading, files, Fine, Made
    <2>2. ASSUME NEW i \in DOMAIN table
          PROVE  /\ table[i].gid >= 0 /\ HasRead(1, i)' => HasRead(1, i)
                 /\ table[i].gid = AutoId /\ HasRead(2, i)' => HasRead(2, i)
      BY <1>3, Progress DEF Skip, Reads, This
    <2>3. ASSUME NEW i \in DOMAIN table, NEW j \in DOMAIN table[i].groups, HasRead(3, i)'
          PROVE  HasRead(3, i) \/ (pass = 3 /\ line = i /\ other > j)
      <3>1. HasRead(3, i) \/ (pass = 3 /\ line = i)
        BY <1>3, <2>3, Progress
      <3>2. j \in 1 .. Len(table[i].groups) /\ Len(table[i].groups) \in Nat /\ other \in Nat
        BY TableLines DEF RunInv
      <3> QED BY <1>3, <3>1, <3>2 DEF Skip, Reads, This
    <2>4. \A i \in DOMAIN table : \A j \in DOMAIN table[i].groups : ~(other' > j)
      BY <2>1, TableLines DEF RunInv
    <2> QED BY <2>1, <2>2, <2>3, <2>4 DEF GroupsMade
  <1>4. CASE NextLoop \/ Done
    <2>1. /\ table' = table /\ Fine /\ group' = group /\ pass \in 1 .. 5
          /\ pass' = pass \/ (pass' = pass + 1 /\ other' = 1)
          /\ pass' = pass => pass = 5
      BY <1>4 DEF NextLoop, Done, files, RunInv, Fine
    <2>2. \A g : Made(g) => Made(g)'
      BY <2>1 DEF Made, GroupLoop
    <2>3. \A i \in DOMAIN table, p \in 1 .. 5 : HasRead(p, i)' <=> HasRead(p, i)
      BY <1>4, Progress
    <2>4. \A i \in DOMAIN table : \A j \in DOMAIN table[i].groups : ~(pass' = 3 /\ other' > j)
      BY <2>1, TableLines DEF RunInv
    <2> QED BY <2>1, <2>2, <2>3, <2>4 DEF GroupsMade
  <1>5. ASSUME NEW g, NEW gid, EnterGroup(g, gid) PROVE GroupsMade'
    <2>1. /\ table' = table /\ Fine /\ pass' = pass /\ pass \in GroupLoop
          /\ Calling /\ g = Asked.group /\ Goes
      BY <1>5 DEF EnterGroup, Goes, Calling, Reading, Fine
    <2>2. Made(g)' /\ \A h : Made(h) => Made(h)'
      <3>1. /\ DOMAIN group' = DOMAIN group \cup {g} /\ group'[g].members = {}
            /\ \A h \in DOMAIN group \ {g} : group'[h] = group[h]
        BY <1>5, EnterEffect
      <3> QED BY <2>1, <3>1 DEF Made
    <2>3. ASSUME NEW i \in DOMAIN table, NEW p \in {1, 2}, HasRead(p, i)'
          PROVE  HasRead(p, i) \/ table[i].group = g
      BY <2>1, <2>3, Progress DEF Asked, This
    <2>4. ASSUME NEW i \in DOMAIN table, HasRead(3, i)' PROVE HasRead(3, i)
      BY <2>1, <2>4, Progress DEF GroupLoop
    <2>5. ASSUME NEW i \in DOMAIN table, NEW j \in DOMAIN table[i].groups,
                 pass' = 3, line' = i, other' > j
          PROVE  (pass = 3 /\ line = i /\ other > j) \/ table[i].groups[j] = g
      <3>1. j \in Int /\ other \in Nat /\ line = i /\ pass = 3 /\ other' = other + 1
        BY <2>1, <2>5, TableLines DEF RunInv, Goes
      <3>2. other > j \/ other = j
        BY <2>5, <3>1
      <3> QED BY <2>1, <3>1, <3>2 DEF Asked, This
    <2> QED BY <2>1, <2>2, <2>3, <2>4, <2>5 DEF GroupsMade
  <1>6. CASE AddUser
    <2>1. /\ table' = table /\ Fine /\ pass' = pass /\ pass \in {4, 5} /\ Goes
          /\ DOMAIN group' = DOMAIN group
      BY <1>6, ThisLine, JoinEffect DEF AddUser, EnterUser, Goes, Calling, Reading, Fine, GroupLoop, RunInv
    <2>2. \A h : Made(h) => Made(h)'
      BY <2>1 DEF Made, GroupLoop
    <2>3. \A i \in DOMAIN table, p \in 1 .. 3 : HasRead(p, i)' => HasRead(p, i)
      BY <2>1, Progress
    <2> QED BY <2>1, <2>2, <2>3 DEF GroupsMade
  <1>7. CASE GivesUp \/ LeaveUser
    BY <1>7 DEF GivesUp, LeaveUser, Abort, Stop, GroupsMade, Fine
  <1> QED BY <1>1, <1>2, <1>3, <1>4, <1>5, <1>6, <1>7, StepKinds

\* When the group loops are done, all groups of the table have been written.
LEMMA NamedMade ==
    ASSUME RunInv, GroupsMade, Fine, pass = 3, line > Len(table), NEW g \in Named
    PROVE  Made(g)
  <1>1. \A i \in DOMAIN table : HasRead(1, i) /\ HasRead(2, i) /\ HasRead(3, i)
    BY TableLines DEF RunInv, HasRead
  <1>2. CASE \E l \in Range(table) : l.gid >= AutoId /\ g = l.group
    <2>1. PICK i \in DOMAIN table : table[i].gid >= AutoId /\ g = table[i].group
      BY <1>2, TableLines DEF RunInv
    <2>2. table[i].gid >= 0 \/ table[i].gid = AutoId
      BY <2>1, TableLines DEF RunInv, AutoId
    <2> QED BY <1>1, <2>1, <2>2 DEF GroupsMade
  <1>3. CASE \E l \in Range(table) : g \in Range(l.groups)
    <2>1. PICK i \in DOMAIN table : g \in Range(table[i].groups)
      BY <1>3, TableLines DEF RunInv
    <2>2. PICK j \in DOMAIN table[i].groups : g = table[i].groups[j]
      BY <2>1 DEF Range
    <2> QED BY <1>1, <2>2 DEF GroupsMade
  <1> QED BY <1>2, <1>3 DEF Named

\* A user who is added when others fit leaves them so, ...
LEMMA FitsStay ==
    ASSUME RunInv, AddUser, NEW l, Fits(l, group, passwd)
    PROVE  Fits(l, group', passwd')
  <1> DEFINE u == This.user
  <1>1. /\ DOMAIN passwd' = DOMAIN passwd \cup {u} /\ passwd'[u].uid \in Uid(This)
        /\ \A v \in DOMAIN passwd \ {u} : passwd'[v] = passwd[v]
    BY AddUserEffect
  <1>2. /\ DOMAIN group' = DOMAIN group
        /\ \A g \in DOMAIN group : group'[g].gid = group[g].gid
    BY JoinEffect DEF AddUser, EnterUser, RunInv
  <1>3. Valid(This)
    BY DEF AddUser, EnterUser
  <1>4. ASSUME l.uid # AutoId PROVE passwd'[u].uid = l.uid <=> u = l.user
    <2>1. /\ l.user \in DOMAIN passwd /\ passwd[l.user].uid = l.uid
          /\ \A v \in DOMAIN passwd : passwd[v].uid = l.uid => v = l.user
      BY <1>4 DEF Fits
    <2>2. CASE This.uid # AutoId
      <3>1. passwd'[u].uid = This.uid
        BY <1>1, <2>2 DEF Uid
      <3>2. /\ passwd[l.user].uid = This.uid => l.user = u
            /\ u \in DOMAIN passwd => passwd[u].uid = This.uid
        BY <1>3, <2>1, <2>2 DEF Valid, UsersOf
      <3> QED BY <2>1, <3>1, <3>2
    <2>3. CASE This.uid = AutoId /\ u \in DOMAIN passwd
      <3>1. passwd'[u].uid = passwd[u].uid
        BY <1>1, <2>3 DEF Uid
      <3> QED BY <2>1, <2>3, <3>1
    <2>4. CASE This.uid = AutoId /\ u \notin DOMAIN passwd
      <3>1. passwd'[u].uid \in FreeUids
        BY <1>1, <2>4 DEF Uid, Lowest
      <3>2. passwd'[u].uid # passwd[l.user].uid
        BY <2>1, <3>1 DEF FreeUids, Free
      <3> QED BY <2>1, <2>4, <3>2
    <2> QED BY <2>2, <2>3, <2>4
  <1> QED BY <1>1, <1>2, <1>4 DEF Fits

\* ... and fits as well.
LEMMA FitsNow ==
    ASSUME RunInv, AddUser, This.group \in DOMAIN group
    PROVE  Fits(This, group', passwd')
  <1> DEFINE u == This.user
  <1>1. /\ DOMAIN passwd' = DOMAIN passwd \cup {u} /\ passwd'[u].uid \in Uid(This)
        /\ \A v \in DOMAIN passwd \ {u} : passwd'[v] = passwd[v]
    BY AddUserEffect
  <1>2. /\ DOMAIN group' = DOMAIN group
        /\ \A g \in DOMAIN group : group'[g].gid = group[g].gid
    BY JoinEffect DEF AddUser, EnterUser, RunInv
  <1>3. Valid(This) /\ This.home /\ This.room /\ ~This.clear
    BY DEF AddUser, EnterUser
  <1>4. This.uid # AutoId =>
            \A v \in DOMAIN passwd' : passwd'[v].uid = This.uid <=> v = This.user
    BY <1>1, <1>3 DEF Valid, UsersOf, Uid
  <1>5. This.gid # AutoId =>
            \A h \in DOMAIN group' : group'[h].gid = This.gid <=> h = This.group
    BY <1>2, <1>3 DEF Valid, GroupsOf
  <1>6. /\ This.user # root /\ This.uid # 0 /\ This.gid >= AutoId /\ This.gid # 0
    BY <1>3 DEF Valid
  <1> QED BY <1>1, <1>2, <1>3, <1>4, <1>5, <1>6 DEF Fits

LEMMA UsersStep ==
    ASSUME RunInv, GroupsMade, UsersMade, [Next]_vars
    PROVE  UsersMade'
  <1> USE DEF UsersMade
  <1>1. CASE UNCHANGED vars
    BY <1>1 DEF vars, files, Fine, LinesFit, LinesJoined, OnlyMembers, Entered, HasRead,
                Named, Members
  <1>2. ASSUME NEW t \in Tables, Start(t) PROVE UsersMade'
    BY <1>2 DEF Start, GroupLoop
  <1>3. ASSUME Fine, pass \notin GroupLoop, UNCHANGED <<table, group, passwd>>,
               \A i \in DOMAIN table : Entered(i)' => Entered(i)
        PROVE  UsersMade'
    BY <1>3 DEF LinesFit, LinesJoined, OnlyMembers, Named, Members
  <1>4. CASE Skip \/ Done
    <2>1. Fine /\ UNCHANGED <<table, group, passwd, pass>>
      BY <1>4 DEF Skip, Reading, Done, files, Fine
    <2>2. \A i \in DOMAIN table : Entered(i)' => Entered(i)
      BY <1>4, EnteredStep
    <2> QED BY <1>3, <2>1, <2>2
  <1>5. CASE NextLoop
    <2>1. Fine /\ UNCHANGED <<table, group, passwd>> /\ pass' = pass + 1 /\ pass \in 1 .. 5
      BY <1>5 DEF NextLoop, files, Fine, RunInv
    <2>2. \A i \in DOMAIN table : Entered(i)' => Entered(i)
      BY <1>5, EnteredStep
    <2>3. CASE pass = 3
      <3>1. \A i \in DOMAIN table : ~Entered(i)'
        BY <2>1, <2>2, <2>3, EnteredStep DEF GroupLoop
      <3>2. ASSUME NEW g \in Named
            PROVE  g \in DOMAIN group /\ group[g].members \subseteq Members(g)
        BY <1>5, <2>1, <2>3, NamedMade DEF NextLoop, Made, GroupLoop
      <3> QED BY <2>1, <3>1, <3>2 DEF LinesFit, LinesJoined, OnlyMembers, Named, Members
    <2>4. CASE pass \in {1, 2}
      BY <2>1, <2>4 DEF GroupLoop
    <2>5. CASE pass \in {4, 5}
      BY <1>3, <2>1, <2>2, <2>5 DEF GroupLoop
    <2> QED BY <2>1, <2>3, <2>4, <2>5
  <1>6. ASSUME NEW g, NEW gid, EnterGroup(g, gid) PROVE UsersMade'
    BY <1>6 DEF EnterGroup, Goes
  <1>7. CASE AddUser
    <2>1. /\ table' = table /\ Fine /\ pass' = pass /\ pass \in {4, 5} /\ Goes /\ Reading
          /\ LinesFit /\ LinesJoined /\ OnlyMembers
      BY <1>7, ThisLine DEF AddUser, EnterUser, Goes, Calling, Reading, Fine, GroupLoop
    <2>2. /\ This = table[line] /\ line \in DOMAIN table /\ This \in Range(table)
          /\ ~Unread(This)
      BY <1>7, <2>1, ThisLine, TableLines
         DEF AddUser, EnterUser, Goes, Calling, Reads, Unread, AutoId, RunInv
    <2>3. This.group \in Named /\ Range(This.groups) \subseteq Named /\ Named' = Named
      BY <1>7, <2>1, <2>2 DEF AddUser, EnterUser, Valid, Named
    <2>4. /\ DOMAIN group' = DOMAIN group
          /\ \A g \in DOMAIN group :
                group'[g].members = IF g \in Range(This.groups)
                                    THEN group[g].members \cup {This.user}
                                    ELSE group[g].members
      <3>1. Join(This.user, Range(This.groups)) /\ GroupEntries
        BY <1>7 DEF AddUser, EnterUser, RunInv
      <3> QED BY <3>1, JoinEffect
    <2>5. \A i \in DOMAIN table : Entered(i)' => Entered(i) \/ i = line
      BY <1>7, <2>1, EnteredStep DEF GroupLoop
    <2>6. LinesFit'
      <3>1. ASSUME NEW i \in DOMAIN table, Entered(i)'
            PROVE  Fits(table[i], group', passwd')
        <4>1. CASE Entered(i)
          BY <1>7, <2>1, <4>1, FitsStay DEF LinesFit
        <4>2. CASE i = line
          BY <1>7, <2>1, <2>2, <2>3, <4>2, FitsNow DEF OnlyMembers
        <4> QED BY <2>5, <3>1, <4>1, <4>2
      <3> QED BY <2>1, <3>1 DEF LinesFit
    <2>7. LinesJoined'
      <3>1. ASSUME NEW i \in DOMAIN table, Entered(i)', NEW g \in Range(table[i].groups)
            PROVE  g \in DOMAIN group' /\ table[i].user \in group'[g].members
        <4>1. CASE Entered(i)
          BY <2>1, <2>4, <3>1, <4>1 DEF LinesJoined
        <4>2. CASE i = line
          BY <2>1, <2>2, <2>3, <2>4, <3>1, <4>2 DEF OnlyMembers
        <4> QED BY <2>5, <3>1, <4>1, <4>2
      <3> QED BY <2>1, <3>1 DEF LinesJoined
    <2>8. OnlyMembers'
      <3>1. ASSUME NEW g \in Named
            PROVE  g \in DOMAIN group' /\ group'[g].members \subseteq Members(g)
        <4>1. g \in Range(This.groups) => This.user \in Members(g)
          BY <2>2 DEF Members
        <4> QED BY <2>1, <2>4, <3>1, <4>1 DEF OnlyMembers
      <3>2. \A g : Members(g)' = Members(g)
        BY <2>1 DEF Members
      <3> QED BY <2>3, <3>1, <3>2 DEF OnlyMembers
    <2> QED BY <2>6, <2>7, <2>8
  <1>8. CASE GivesUp \/ LeaveUser
    BY <1>8 DEF GivesUp, LeaveUser, Abort, Stop, Fine
  <1> QED BY <1>1, <1>2, <1>4, <1>5, <1>6, <1>7, <1>8, StepKinds

\* The invariant: the groups, then the users, are as the lines read so far ask.
AskedInv == GroupsMade /\ UsersMade

LEMMA AskedInit == Init => AskedInv
  BY DEF Init, AskedInv, GroupsMade, UsersMade, Fine

\* What a successful run leaves: every line fits, and the groups that the table
\* names have the members that it gives them.
LEMMA AllMade ==
    ASSUME RunInv, AskedInv, status = "ok"
    PROVE  /\ \A i \in DOMAIN table : ~Unread(table[i]) =>
                 Entered(i) /\ Fits(table[i], group, passwd)
           /\ \A g \in Named : g \in DOMAIN group /\ group[g].members = Members(g)
  <1>1. Fine /\ pass \notin GroupLoop /\ LinesFit /\ LinesJoined /\ OnlyMembers
    BY DEF AskedInv, UsersMade, RunInv, Fine, GroupLoop
  <1>2. ASSUME NEW i \in DOMAIN table, ~Unread(table[i])
        PROVE  Entered(i)
    <2>1. table[i].uid >= 0 \/ table[i].uid = AutoId
      BY <1>2, TableLines DEF RunInv, Unread, AutoId
    <2> QED BY <2>1, TableLines DEF RunInv, Entered, HasRead
  <1>3. ASSUME NEW g \in Named PROVE Members(g) \subseteq group[g].members
    <2>1. ASSUME NEW l \in Range(table), ~Unread(l), g \in Range(l.groups)
          PROVE  l.user \in group[g].members
      <3>1. PICK i \in DOMAIN table : l = table[i]
        BY TableLines DEF RunInv
      <3> QED BY <1>1, <1>2, <2>1, <3>1 DEF LinesJoined
    <2> QED BY <2>1 DEF Members
  <1> QED BY <1>1, <1>2, <1>3 DEF LinesFit, OnlyMembers

\* After a run that succeeds every user is there with the ids its lines ask for,
\* and the groups of the table have the members that the table gives them.
THEOREM AskedCorrect == Spec => []AsAsked
  <1>1. Init => RunInv /\ AskedInv
    BY RunInit, AskedInit
  <1>2. RunInv /\ AskedInv /\ [Next]_vars => (RunInv /\ AskedInv)'
    BY RunStep, GroupsStep, UsersStep DEF AskedInv
  <1>3. RunInv /\ AskedInv => AsAsked
    <2> SUFFICES ASSUME RunInv, AskedInv, status = "ok" PROVE AsAsked
      BY DEF AsAsked
    <2>1. ASSUME NEW l \in Range(table), l.uid >= AutoId
          PROVE  Fits(l, group, passwd)
      <3>1. PICK i \in DOMAIN table : l = table[i]
        BY TableLines DEF RunInv
      <3> QED BY <2>1, <3>1, AllMade, TableLines DEF RunInv, Unread, AutoId
    <2>2. \A g : Members(g) = {l.user : l \in {m \in {k \in Range(table) : k.uid >= AutoId} :
                                                  g \in Range(m.groups)}}
      <3>1. \A l \in Range(table) : ~Unread(l) <=> l.uid >= AutoId
        BY TableLines DEF RunInv, Unread, AutoId
      <3> QED BY <3>1 DEF Members
    <2>3. \A g \in Named : g \in DOMAIN group /\ group[g].members = Members(g)
      BY AllMade
    <2> QED BY <2>1, <2>2, <2>3 DEF AsAsked, Fits
  <1> QED BY <1>1, <1>2, <1>3, PTL DEF Spec

-----------------------------------------------------------------------------
(* The same table again. *)

\* In table t, line k gives the group of line i a gid after line i has, ...
Regroups(t, i, k) == i < k /\ t[k].gid >= 0 /\ t[k].group = t[i].group

\* ... and the user of line i is entered again for line k.
Reenters(t, i, k) ==
    /\ t[k].user = t[i].user /\ ~Unread(t[k])
    /\ IF t[k].uid = AutoId THEN t[i].uid >= 0 \/ i < k
                            ELSE t[i].uid >= 0 /\ i < k

\* The last of the lines about a group, and about a user, says what becomes of it.
LastGid ==
    Fine => \A i \in DOMAIN table :
        /\ table[i].gid >= 0 /\ HasRead(1, i)
        /\ \A k \in DOMAIN table : HasRead(1, k) => ~Regroups(table, i, k)
        => group[table[i].group].gid = table[i].gid

LastUser ==
    Fine => \A i \in DOMAIN table :
        /\ Entered(i)
        /\ \A k \in DOMAIN table : Entered(k) => ~Reenters(table, i, k)
        => passwd[table[i].user].gid = group[table[i].group].gid

\* What a successful run under table t has left in g and p.
Settled(t, g, p) ==
    /\ \A i \in DOMAIN t :
          /\ t[i].gid >= AutoId => t[i].group \in DOMAIN g
          /\ Range(t[i].groups) \subseteq DOMAIN g
          /\ t[i].gid >= 0 /\ (\A k \in DOMAIN t : ~Regroups(t, i, k)) =>
                g[t[i].group].gid = t[i].gid
          /\ ~Unread(t[i]) => Fits(t[i], g, p)
          /\ ~Unread(t[i]) /\ (\A k \in DOMAIN t : ~Reenters(t, i, k)) =>
                p[t[i].user].gid = g[t[i].group].gid
    /\ IsFile(g) /\ \A x \in DOMAIN g : IsGroup(g[x])
    /\ IsFile(p) /\ \A u \in DOMAIN p : IsUser(p[u])

\* A run that started from g and p has changed nothing that it will not put right.
Repeats(g, p) ==
    /\ DOMAIN group = DOMAIN g /\ DOMAIN passwd = DOMAIN p
    /\ \A x \in DOMAIN g :
          \/ group[x].gid = g[x].gid
          \/ \E i \in DOMAIN table :
                ~HasRead(1, i) /\ table[i].gid >= 0 /\ table[i].group = x
    /\ \A x \in DOMAIN g \ Named : group[x].members = g[x].members
    /\ \A u \in DOMAIN p :
          /\ passwd[u].uid = p[u].uid
          /\ \/ passwd[u].gid = p[u].gid
             \/ \E i \in DOMAIN table :
                   ~Unread(table[i]) /\ ~Entered(i) /\ table[i].user = u

Again(l) ==
    /\ Fine /\ Settled(table, l[2], l[3]) /\ Repeats(l[2], l[3])
    /\ \A g \in Named : l[2][g].members = Members(g)

RerunInv == \A l \in last : l[1] = table => Again(l)

\* The loop that gives main groups their gids writes them in the order of the table.
LEMMA LastGidStep ==
    ASSUME RunInv, GroupsMade, LastGid, [Next]_vars
    PROVE  LastGid'
  <1> USE DEF LastGid
  <1>1. CASE UNCHANGED vars
    BY <1>1 DEF vars, files, Fine, HasRead
  <1>2. ASSUME NEW t \in Tables, Start(t) PROVE LastGid'
    <2>1. \A i \in DOMAIN t : i \in Nat \ {0}
      BY TableLines
    <2> QED BY <1>2, <2>1 DEF Start, HasRead
  <1>3. CASE Skip
    <2>1. table' = table /\ group' = group /\ Fine
      BY <1>3 DEF Skip, Reading, files, Fine
    <2>2. \A i \in DOMAIN table : HasRead(1, i) => HasRead(1, i)'
      BY <1>3, Progress
    <2>3. \A i \in DOMAIN table : table[i].gid >= 0 /\ HasRead(1, i)' => HasRead(1, i)
      BY <1>3, Progress DEF Skip, Reads, This
    <2> QED BY <2>1, <2>2, <2>3
  <1>4. CASE NextLoop \/ Done
    <2>1. table' = table /\ group' = group /\ Fine
      BY <1>4 DEF NextLoop, Done, files, Fine
    <2>2. \A i \in DOMAIN table : HasRead(1, i) <=> HasRead(1, i)'
      BY <1>4, Progress
    <2> QED BY <2>1, <2>2
  <1>5. ASSUME NEW g, NEW gid, EnterGroup(g, gid) PROVE LastGid'
    <2>1. /\ table' = table /\ Fine /\ Goes /\ pass \in 1 .. 3 /\ line \in DOMAIN table
          /\ This = table[line] /\ This.gid \in Int /\ Reads(This)
      BY <1>5, ThisLine DEF EnterGroup, Goes, Calling, Reading, Fine, GroupLoop
    <2>2. /\ group'[g].gid = gid
          /\ \A h \in DOMAIN group \ {g} : group'[h] = group[h]
      BY <1>5, EnterEffect
    <2>3. \A i \in DOMAIN table :
             table[i].gid >= 0 /\ HasRead(1, i) => table[i].group \in DOMAIN group
      BY <2>1 DEF GroupsMade, Made
    <2>4. CASE pass = 1
      <3>1. g = This.group /\ gid = This.gid /\ This.gid >= 0
        BY <1>5, <2>1, <2>4 DEF EnterGroup, Asked, Reads, AutoId
      <3>2. \A i \in DOMAIN table : HasRead(1, i)' <=> HasRead(1, i) \/ i = line
        BY <2>1, <2>4, Progress
      <3>3. \A i \in DOMAIN table : HasRead(1, i) => i < line
        BY <2>4, TableLines DEF HasRead, RunInv
      <3>4. ASSUME NEW i \in DOMAIN table, table[i].gid >= 0, HasRead(1, i)',
                   \A k \in DOMAIN table : HasRead(1, k)' => ~Regroups(table, i, k)
            PROVE  group'[table[i].group].gid = table[i].gid
        <4>1. CASE table[i].group = g
          <5>1. ~(i < line)
            BY <2>1, <3>1, <3>2, <3>4, <4>1 DEF Regroups
          <5> QED BY <2>1, <2>2, <3>1, <3>2, <3>3, <3>4, <4>1, <5>1
        <4>2. CASE table[i].group # g
          <5>1. HasRead(1, i)
            BY <2>1, <3>1, <3>2, <3>4, <4>2
          <5>2. group[table[i].group].gid = table[i].gid
            BY <2>1, <3>2, <3>4, <5>1
          <5> QED BY <2>2, <2>3, <3>4, <4>2, <5>1, <5>2
        <4> QED BY <4>1, <4>2
      <3> QED BY <2>1, <3>4
    <2>5. CASE pass \in {2, 3}
      <3>1. \A i \in DOMAIN table : HasRead(1, i)' <=> HasRead(1, i)
        BY <2>1, <2>5, Progress
      <3>2. Asked.gid = AutoId
        BY <2>1, <2>5 DEF Asked, Reads
      <3>3. g \in DOMAIN group => gid = group[g].gid
        BY <1>5, <3>2 DEF EnterGroup
      <3>4. \A h \in DOMAIN group : group'[h].gid = group[h].gid
        BY <2>2, <3>3
      <3> QED BY <2>1, <2>3, <3>1, <3>4
    <2> QED BY <2>1, <2>4, <2>5
  <1>6. CASE AddUser
    <2>1. /\ table' = table /\ Fine /\ Goes /\ pass \in {4, 5}
          /\ Join(This.user, Range(This.groups)) /\ GroupEntries
      BY <1>6, ThisLine DEF AddUser, EnterUser, Goes, Calling, Reading, Fine, GroupLoop, RunInv
    <2>2. \A g \in DOMAIN group : group'[g].gid = group[g].gid
      BY <2>1, JoinEffect
    <2>3. \A i \in DOMAIN table : HasRead(1, i)' <=> HasRead(1, i)
      BY <2>1, Progress
    <2>4. \A i \in DOMAIN table :
             table[i].gid >= 0 /\ HasRead(1, i) => table[i].group \in DOMAIN group
      BY <2>1 DEF GroupsMade, Made
    <2> QED BY <2>1, <2>2, <2>3, <2>4
  <1>7. CASE GivesUp \/ LeaveUser
    BY <1>7 DEF GivesUp, LeaveUser, Abort, Stop, Fine
  <1> QED BY <1>1, <1>2, <1>3, <1>4, <1>5, <1>6, <1>7, StepKinds

\* The user loops read the lines of a user in the order that Reenters says.
LEMMA UserOrder ==
    ASSUME RunInv, AddUser, NEW i \in DOMAIN table
    PROVE  /\ Entered(i) /\ i # line /\ table[i].user = This.user => Reenters(table, i, line)
           /\ Reenters(table, line, i) => ~Entered(i)'
  <1>1. /\ table' = table /\ Goes /\ pass \in {4, 5} /\ Reads(This)
        /\ This = table[line] /\ This.uid \in Int /\ line \in DOMAIN table
    BY ThisLine DEF AddUser, EnterUser, Goes, Calling, GroupLoop
  <1>2. i \in Int /\ line \in Int /\ table[i].uid \in Int
    BY TableLines DEF RunInv
  <1>3. Entered(i)' <=> Entered(i) \/ i = line
    BY <1>1, EnteredStep DEF GroupLoop
  <1>4. CASE pass = 4
    BY <1>1, <1>2, <1>3, <1>4 DEF Reads, Entered, HasRead, Reenters, Unread, AutoId
  <1>5. CASE pass = 5
    BY <1>1, <1>2, <1>3, <1>5 DEF Reads, Entered, HasRead, Reenters, Unread, AutoId
  <1> QED BY <1>1, <1>4, <1>5

LEMMA LastUserStep ==
    ASSUME RunInv, UsersMade, LastUser, [Next]_vars
    PROVE  LastUser'
  <1> USE DEF LastUser
  <1>1. CASE UNCHANGED vars
    BY <1>1 DEF vars, files, Fine, Entered, HasRead
  <1>2. ASSUME NEW t \in Tables, Start(t) PROVE LastUser'
    <2>1. \A i \in DOMAIN t : i \in Nat \ {0}
      BY TableLines
    <2> QED BY <1>2, <2>1 DEF Start, Entered, HasRead
  <1>3. CASE Skip \/ NextLoop \/ Done
    <2>1. UNCHANGED <<table, group, passwd>> /\ Fine
      BY <1>3 DEF Skip, NextLoop, Done, Reading, files, Fine
    <2>2. \A i \in DOMAIN table : Entered(i) <=> Entered(i)'
      BY <1>3, EnteredStep
    <2> QED BY <2>1, <2>2
  <1>4. ASSUME NEW g, NEW gid, EnterGroup(g, gid) PROVE LastUser'
    <2>1. table' = table /\ \A i \in DOMAIN table : ~Entered(i)'
      BY <1>4, EnteredStep DEF EnterGroup, Goes, Calling, Reading, Fine
    <2> QED BY <2>1
  <1>5. CASE AddUser
    <2>1. /\ table' = table /\ Fine /\ Goes /\ pass \notin GroupLoop /\ line \in DOMAIN table
          /\ This = table[line] /\ Join(This.user, Range(This.groups)) /\ GroupEntries
      BY <1>5, ThisLine DEF AddUser, EnterUser, Goes, Calling, Reading, Fine, RunInv
    <2>2. \A g \in DOMAIN group : group'[g].gid = group[g].gid
      BY <2>1, JoinEffect
    <2>3. \A i \in DOMAIN table : Entered(i)' <=> Entered(i) \/ i = line
      BY <2>1, EnteredStep
    <2>4. /\ passwd'[This.user].gid = group[This.group].gid
          /\ \A v \in DOMAIN passwd \ {This.user} : passwd'[v] = passwd[v]
      BY <1>5, AddUserEffect
    <2>5. \A i \in DOMAIN table : Entered(i) => Fits(table[i], group, passwd)
      BY <2>1 DEF UsersMade, LinesFit
    <2>6. This.group \in DOMAIN group
      BY <1>5, <2>1, TableLines DEF AddUser, EnterUser, Valid, UsersMade, OnlyMembers, Named, RunInv
    <2>7. ASSUME NEW i \in DOMAIN table, Entered(i)',
                 \A k \in DOMAIN table : Entered(k)' => ~Reenters(table, i, k)
          PROVE  passwd'[table[i].user].gid = group'[table[i].group].gid
      <3>1. CASE i = line
        BY <2>1, <2>2, <2>4, <2>6, <3>1
      <3>2. CASE i # line
        <4>1. Entered(i) /\ ~Reenters(table, i, line)
          BY <2>1, <2>3, <2>7, <3>2
        <4>2. table[i].user # This.user
          BY <1>5, <3>2, <4>1, UserOrder
        <4>3. passwd[table[i].user].gid = group[table[i].group].gid
          BY <2>1, <2>3, <2>7, <4>1
        <4>4. table[i].user \in DOMAIN passwd /\ table[i].group \in DOMAIN group
          BY <2>5, <4>1 DEF Fits
        <4> QED BY <2>2, <2>4, <4>2, <4>3, <4>4
      <3> QED BY <3>1, <3>2
    <2> QED BY <2>1, <2>7
  <1>6. CASE GivesUp \/ LeaveUser
    BY <1>6 DEF GivesUp, LeaveUser, Abort, Stop, Fine
  <1> QED BY <1>1, <1>2, <1>3, <1>4, <1>5, <1>6, StepKinds

\* The files that a successful run leaves are settled.
LEMMA SettledNow ==
    ASSUME RunInv, AskedInv, LastGid, LastUser, status = "ok"
    PROVE  Settled(table, group, passwd)
  <1>1. Fine /\ \A i \in DOMAIN table : HasRead(1, i)
    BY DEF RunInv, Fine, HasRead
  <1>2. ASSUME NEW i \in DOMAIN table
        PROVE  /\ table[i].gid >= AutoId => table[i].group \in DOMAIN group
               /\ Range(table[i].groups) \subseteq DOMAIN group
    <2>1. table[i] \in Range(table)
      BY TableLines DEF RunInv
    <2> QED BY <2>1, AllMade DEF Named
  <1>3. ASSUME NEW i \in DOMAIN table, ~Unread(table[i]) PROVE Entered(i)
    BY <1>3, AllMade
  <1>4. ASSUME NEW i \in DOMAIN table
        PROVE  /\ table[i].gid >= 0 /\ (\A k \in DOMAIN table : ~Regroups(table, i, k)) =>
                     group[table[i].group].gid = table[i].gid
               /\ ~Unread(table[i]) /\ (\A k \in DOMAIN table : ~Reenters(table, i, k)) =>
                     passwd[table[i].user].gid = group[table[i].group].gid
    BY <1>1, <1>3 DEF LastGid, LastUser
  <1> QED BY <1>2, <1>4, AllMade DEF Settled, RunInv, GroupEntries, UserEntries

\* Every group that the group loops come to is named by the table.
LEMMA AskedNamed ==
    ASSUME RunInv, Calling, pass \in GroupLoop
    PROVE  Asked.group \in Named /\ (Asked.gid # AutoId => pass = 1 /\ Asked.gid >= 0)
  <1>1. /\ This = table[line] /\ line \in DOMAIN table /\ Reads(This)
        /\ This \in Range(table) /\ This.gid \in Int /\ other \in Nat \ {0}
        /\ Len(This.groups) \in Nat /\ DOMAIN This.groups = 1 .. Len(This.groups)
    BY ThisLine, TableLines DEF Calling, RunInv
  <1>2. CASE pass = 1
    BY <1>1, <1>2 DEF Asked, Reads, Named, AutoId
  <1>3. CASE pass = 2
    BY <1>1, <1>3 DEF Asked, Reads, Named, AutoId
  <1>4. CASE pass = 3
    <2>1. other \in DOMAIN This.groups
      BY <1>1, <1>4 DEF Reads
    <2>2. This.groups[other] \in Range(This.groups)
      BY <2>1 DEF Range
    <2> QED BY <1>1, <1>4, <2>2 DEF Asked, Named
  <1> QED BY <1>2, <1>3, <1>4 DEF GroupLoop

\* The user loops accept again what they have accepted before.
LEMMA AcceptedAgain ==
    ASSUME RunInv, NEW g, NEW p, Settled(table, g, p), Repeats(g, p),
           Calling, pass \notin GroupLoop
    PROVE  /\ \A x \in DOMAIN g : group[x].gid = g[x].gid
           /\ ~Unread(This) /\ Fits(This, g, p) /\ Valid(This)
           /\ \A uid \in Uid(This) : uid = p[This.user].uid
           /\ Uid(This) # {}
  <1>1. /\ This = table[line] /\ line \in DOMAIN table /\ Reads(This)
        /\ This.uid \in Int /\ pass \in {4, 5}
    BY ThisLine DEF Calling, GroupLoop
  <1>2. \A x \in DOMAIN g : group[x].gid = g[x].gid
    BY <1>1 DEF Repeats, HasRead
  <1>3. ~Unread(This)
    BY <1>1 DEF Reads, Unread, AutoId
  <1>4. Fits(This, g, p)
    BY <1>1, <1>3 DEF Settled
  <1>5. /\ DOMAIN group = DOMAIN g /\ DOMAIN passwd = DOMAIN p
        /\ \A u \in DOMAIN p : passwd[u].uid = p[u].uid
    BY DEF Repeats
  <1>6. Valid(This)
    <2>1. This.gid # AutoId => /\ GroupsOf(This.gid) \subseteq {This.group}
                               /\ group[This.group].gid = This.gid
      BY <1>2, <1>4, <1>5 DEF Fits, GroupsOf
    <2>2. This.uid # AutoId => /\ UsersOf(This.uid) \subseteq {This.user}
                               /\ passwd[This.user].uid = This.uid
      BY <1>4, <1>5 DEF Fits, UsersOf
    <2>3. This.uid >= AutoId
      BY <1>1, <1>3 DEF Unread, AutoId
    <2> QED BY <1>4, <2>1, <2>2, <2>3 DEF Valid, Ugid, Fits
  <1>7. Uid(This) = {p[This.user].uid}
    BY <1>4, <1>5 DEF Uid, Fits
  <1> QED BY <1>2, <1>3, <1>4, <1>6, <1>7

\* A run on settled files, under the table that settled them, does not fail, and
\* leaves everything as it was or to be put right by a line that follows.
LEMMA RepeatsStep ==
    ASSUME RunInv, NEW g, NEW p, Settled(table, g, p), Repeats(g, p), Fine,
           \/ Skip \/ NextLoop \/ Done \/ \E x, gid : EnterGroup(x, gid)
           \/ AddUser \/ LeaveUser \/ GivesUp
    PROVE  Fine' /\ Repeats(g, p)'
  <1>1. ASSUME UNCHANGED <<table, group, passwd>>,
               \A i \in DOMAIN table : Entered(i)' <=> Entered(i),
               \A i \in DOMAIN table : table[i].gid >= 0 => (HasRead(1, i)' <=> HasRead(1, i))
        PROVE  Repeats(g, p)'
    BY <1>1 DEF Repeats, Named
  <1>2. CASE Skip
    <2>1. UNCHANGED <<table, group, passwd>> /\ Fine'
      BY <1>2 DEF Skip, Reading, files, Fine
    <2>2. \A i \in DOMAIN table : table[i].gid >= 0 => (HasRead(1, i)' <=> HasRead(1, i))
      BY <1>2, Progress DEF Skip, Reads, This
    <2> QED BY <1>1, <1>2, <2>1, <2>2, EnteredStep
  <1>3. CASE NextLoop \/ Done
    <2>1. UNCHANGED <<table, group, passwd>> /\ Fine'
      BY <1>3 DEF NextLoop, Done, files, Fine
    <2> QED BY <1>1, <1>3, <2>1, EnteredStep, Progress
  <1>4. ASSUME NEW x, NEW gid, EnterGroup(x, gid) PROVE Fine' /\ Repeats(g, p)'
    <2>1. /\ table' = table /\ Fine' /\ Goes /\ pass \in GroupLoop /\ Calling
          /\ x = Asked.group /\ line \in DOMAIN table /\ This = table[line]
      BY <1>4, ThisLine DEF EnterGroup, Goes, Calling, Fine
    <2>2. /\ DOMAIN group' = DOMAIN group \cup {x} /\ group'[x].gid = gid
          /\ \A h \in DOMAIN group \ {x} : group'[h] = group[h]
          /\ passwd' = passwd
      BY <1>4, EnterEffect
    <2>3. x \in Named /\ (Asked.gid # AutoId => pass = 1 /\ Asked.gid >= 0)
      BY <2>1, AskedNamed
    <2>4. x \in DOMAIN g /\ DOMAIN group = DOMAIN g
      <3>1. Named \subseteq DOMAIN g
        BY TableLines DEF Named, Settled, RunInv
      <3> QED BY <2>3, <3>1 DEF Repeats
    <2>5. \A i \in DOMAIN table : Entered(i)' <=> Entered(i)
      BY <2>1, EnteredStep
    <2>6. CASE Asked.gid = AutoId
      <3>1. \A i \in DOMAIN table : table[i].gid >= 0 => (HasRead(1, i)' <=> HasRead(1, i))
        <4>1. pass = 1 => This.gid = AutoId
          BY <2>6 DEF Asked
        <4> QED BY <2>1, <4>1, Progress DEF GroupLoop, Calling, Reads, AutoId
      <3>2. gid = group[x].gid
        BY <1>4, <2>4, <2>6 DEF EnterGroup
      <3>3. ASSUME NEW y \in DOMAIN g
            PROVE  \/ group'[y].gid = g[y].gid
                   \/ \E i \in DOMAIN table :
                         ~HasRead(1, i)' /\ table[i].gid >= 0 /\ table[i].group = y
        BY <2>2, <2>4, <3>1, <3>2 DEF Repeats
      <3> QED BY <2>1, <2>2, <2>3, <2>4, <2>5, <3>3 DEF Repeats, Named
    <2>7. CASE Asked.gid # AutoId
      <3>1. pass = 1 /\ gid = This.gid /\ x = This.group /\ This.gid >= 0
        BY <1>4, <2>1, <2>3, <2>7 DEF EnterGroup, Asked
      <3>2. \A i \in DOMAIN table : HasRead(1, i)' <=> HasRead(1, i) \/ i = line
        BY <2>1, <3>1, Progress
      <3>3. \A k \in DOMAIN table : Regroups(table, line, k) => ~HasRead(1, k)'
        BY <2>1, <3>1, <3>2, TableLines DEF Regroups, HasRead, RunInv
      <3>4. \/ gid = g[x].gid
            \/ \E k \in DOMAIN table :
                  ~HasRead(1, k)' /\ table[k].gid >= 0 /\ table[k].group = x
        <4>1. CASE \A k \in DOMAIN table : ~Regroups(table, line, k)
          BY <2>1, <3>1, <4>1 DEF Settled
        <4>2. CASE \E k \in DOMAIN table : Regroups(table, line, k)
          BY <2>1, <3>1, <3>3, <4>2 DEF Regroups
        <4> QED BY <4>1, <4>2
      <3>5. ASSUME NEW y \in DOMAIN g
            PROVE  \/ group'[y].gid = g[y].gid
                   \/ \E i \in DOMAIN table :
                         ~HasRead(1, i)' /\ table[i].gid >= 0 /\ table[i].group = y
        BY <2>1, <2>2, <2>4, <3>1, <3>2, <3>4 DEF Repeats
      <3> QED BY <2>1, <2>2, <2>3, <2>4, <2>5, <3>5 DEF Repeats, Named
    <2> QED BY <2>6, <2>7
  <1>5. CASE AddUser
    <2> DEFINE u == This.user
    <2>1. /\ table' = table /\ Fine' /\ Goes /\ Calling /\ pass \notin GroupLoop
          /\ line \in DOMAIN table /\ This = table[line] /\ pass \in {4, 5}
          /\ Join(This.user, Range(This.groups)) /\ GroupEntries
      BY <1>5, ThisLine DEF AddUser, EnterUser, Goes, Calling, Fine, GroupLoop, RunInv
    <2>2. /\ \A x \in DOMAIN g : group[x].gid = g[x].gid
          /\ ~Unread(This) /\ Fits(This, g, p)
          /\ \A uid \in Uid(This) : uid = p[u].uid
      BY <2>1, AcceptedAgain
    <2>3. /\ DOMAIN group' = DOMAIN group
          /\ \A x \in DOMAIN group :
                /\ group'[x].gid = group[x].gid
                /\ x \notin Range(This.groups) => group'[x].members = group[x].members
      <3>1. /\ DOMAIN group' = DOMAIN group
            /\ \A x \in DOMAIN group :
                  /\ group'[x].gid = group[x].gid
                  /\ group'[x].members = IF x \in Range(This.groups)
                                         THEN group[x].members \cup {u}
                                         ELSE group[x].members
        BY <2>1, JoinEffect
      <3> QED BY <3>1
    <2>4. Range(This.groups) \subseteq Named
      BY <2>1, TableLines DEF Named, RunInv
    <2>5. /\ DOMAIN passwd' = DOMAIN passwd \cup {u}
          /\ passwd'[u].uid \in Uid(This) /\ passwd'[u].gid = group[This.group].gid
          /\ \A v \in DOMAIN passwd \ {u} : passwd'[v] = passwd[v]
      BY <1>5, AddUserEffect
    <2>6. u \in DOMAIN p /\ This.group \in DOMAIN g
      BY <2>2 DEF Fits
    <2>7. DOMAIN group = DOMAIN g /\ DOMAIN passwd = DOMAIN p
      BY DEF Repeats
    <2>8. \A i \in DOMAIN table : Entered(i)' <=> Entered(i) \/ i = line
      BY <2>1, EnteredStep
    <2>9. \/ passwd'[u].gid = p[u].gid
          \/ \E k \in DOMAIN table :
                ~Unread(table[k]) /\ ~Entered(k)' /\ table[k].user = u
      <3>1. CASE \A k \in DOMAIN table : ~Reenters(table, line, k)
        <4>1. p[u].gid = g[This.group].gid
          BY <2>1, <2>2, <3>1 DEF Settled
        <4> QED BY <2>2, <2>5, <2>6, <4>1
      <3>2. CASE \E k \in DOMAIN table : Reenters(table, line, k)
        BY <1>5, <2>1, <3>2, UserOrder DEF Reenters
      <3> QED BY <3>1, <3>2
    <2>10. ASSUME NEW v \in DOMAIN p
           PROVE  /\ passwd'[v].uid = p[v].uid
                  /\ \/ passwd'[v].gid = p[v].gid
                     \/ \E i \in DOMAIN table :
                           ~Unread(table[i]) /\ ~Entered(i)' /\ table[i].user = v
      <3>1. CASE v = u
        BY <2>2, <2>5, <2>9, <3>1
      <3>2. CASE v # u
        <4>1. /\ passwd[v].uid = p[v].uid
              /\ \/ passwd[v].gid = p[v].gid
                 \/ \E i \in DOMAIN table :
                       ~Unread(table[i]) /\ ~Entered(i) /\ table[i].user = v
          BY DEF Repeats
        <4> QED BY <2>1, <2>5, <2>7, <2>8, <3>2, <4>1
      <3> QED BY <3>1, <3>2
    <2>11. \A x \in DOMAIN g \ Named : group'[x].members = g[x].members
      BY <2>3, <2>4, <2>7 DEF Repeats
    <2>12. \A x \in DOMAIN g : group'[x].gid = g[x].gid
      BY <2>2, <2>3, <2>7
    <2>13. DOMAIN group' = DOMAIN g /\ DOMAIN passwd' = DOMAIN p /\ Named' = Named
      BY <2>1, <2>3, <2>5, <2>6, <2>7 DEF Named
    <2> QED BY <2>1, <2>10, <2>11, <2>12, <2>13 DEF Repeats
  <1>6. ASSUME GivesUp PROVE FALSE
    <2>1. Calling
      BY <1>6 DEF GivesUp
    <2>2. CASE NoFreeGid
      <3>1. Asked.group \in Named /\ Asked.group \notin DOMAIN group
        BY <2>1, <2>2, AskedNamed DEF NoFreeGid
      <3>2. Named \subseteq DOMAIN g
        BY TableLines DEF Named, Settled, RunInv
      <3> QED BY <3>1, <3>2 DEF Repeats
    <2>3. CASE RefuseUser
      BY <2>1, <2>3, AcceptedAgain DEF RefuseUser
    <2>4. CASE LoseUser
      BY <2>1, <2>4, AcceptedAgain DEF LoseUser, Fits
    <2> QED BY <1>6, <2>2, <2>3, <2>4 DEF GivesUp
  <1>7. ASSUME LeaveUser PROVE FALSE
    BY <1>7, AcceptedAgain DEF LeaveUser, EnterUser, Fits
  <1> QED BY <1>2, <1>3, <1>4, <1>5, <1>6, <1>7

LEMMA RerunStep ==
    ASSUME RunInv, AskedInv, LastGid, LastUser, RerunInv, [Next]_vars
    PROVE  RerunInv'
  <1> USE DEF RerunInv
  <1>1. CASE UNCHANGED vars
    BY <1>1 DEF vars, files, Again, Repeats, Fine, HasRead, Entered, Named, Members
  <1>2. ASSUME NEW t \in Tables, Start(t) PROVE RerunInv'
    <2>1. ASSUME NEW l \in last', l[1] = table' PROVE Again(l)'
      <3>1. status = "ok" /\ l = <<table, group, passwd>> /\ table' = table
        BY <1>2, <2>1 DEF Start
      <3>2. Settled(table, group, passwd)
        BY <3>1, SettledNow
      <3>3. \A g \in Named : group[g].members = Members(g)
        BY <3>1, AllMade
      <3>4. Fine' /\ UNCHANGED <<group, passwd>>
        BY <1>2 DEF Start, Fine, files
      <3>5. Repeats(group, passwd)'
        BY <3>4 DEF Repeats
      <3> QED BY <3>1, <3>2, <3>3, <3>4, <3>5 DEF Again, Repeats, Named, Members
    <2> QED BY <2>1
  <1>3. CASE \/ Skip \/ NextLoop \/ Done \/ \E x, gid : EnterGroup(x, gid)
             \/ AddUser \/ LeaveUser \/ GivesUp
    <2>1. last' = last /\ table' = table
      BY <1>3 DEF Skip, NextLoop, Done, EnterGroup, AddUser, LeaveUser, Goes, GivesUp, Abort, Stop
    <2>2. ASSUME NEW l \in last, l[1] = table PROVE Again(l)'
      <3>1. Again(l)
        BY <2>2
      <3>2. Fine' /\ Repeats(l[2], l[3])'
        BY <1>3, <3>1, RepeatsStep DEF Again
      <3> QED BY <2>1, <3>1, <3>2 DEF Again, Named, Members
    <2> QED BY <2>1, <2>2
  <1> QED BY <1>1, <1>2, <1>3, StepKinds

\* A make under the table of the one before, which succeeded, succeeds and leaves
\* /etc/group and /etc/passwd as they are, though the script writes every entry of
\* the table anew on its way.
THEOREM RerunCorrect == Spec => []RerunIdle
  <1> DEFINE Inv == RunInv /\ AskedInv /\ LastGid /\ LastUser /\ RerunInv
  <1>1. Init => Inv
    BY RunInit, AskedInit DEF Init, LastGid, LastUser, RerunInv, Fine
  <1>2. Inv /\ [Next]_vars => Inv'
    BY RunStep, GroupsStep, UsersStep, LastGidStep, LastUserStep, RerunStep DEF AskedInv
  <1>3. Inv => RerunIdle
    <2> SUFFICES ASSUME Inv, status \in {"ok", "failed"}, NEW l \in last, l[1] = table
                 PROVE  status = "ok" /\ group = l[2] /\ passwd = l[3]
      BY DEF RerunIdle
    <2> DEFINE g == l[2]
               p == l[3]
    <2>1. Fine /\ Settled(table, g, p) /\ Repeats(g, p)
      BY DEF RerunInv, Again
    <2>2. status = "ok"
      BY <2>1 DEF Fine
    <2>3. \A i \in DOMAIN table : HasRead(1, i) /\ (Unread(table[i]) \/ Entered(i))
      BY <2>2, AllMade DEF RunInv, HasRead
    <2>4. DOMAIN group = DOMAIN g /\ DOMAIN passwd = DOMAIN p
      BY <2>1 DEF Repeats
    <2>5. ASSUME NEW x \in DOMAIN g PROVE group[x] = g[x]
      <3>1. group[x].gid = g[x].gid
        BY <2>1, <2>3 DEF Repeats
      <3>2. group[x].members = g[x].members
        <4>1. CASE x \in Named
          BY <2>2, <4>1, AllMade DEF RerunInv, Again
        <4>2. CASE x \notin Named
          BY <2>1, <4>2 DEF Repeats
        <4> QED BY <4>1, <4>2
      <3>3. IsGroup(group[x]) /\ IsGroup(g[x])
        BY <2>1, <2>4 DEF Settled, RunInv, GroupEntries
      <3> QED BY <3>1, <3>2, <3>3 DEF IsGroup
    <2>6. ASSUME NEW u \in DOMAIN p PROVE passwd[u] = p[u]
      <3>1. passwd[u].uid = p[u].uid /\ passwd[u].gid = p[u].gid
        BY <2>1, <2>3 DEF Repeats
      <3>2. IsUser(passwd[u]) /\ IsUser(p[u])
        BY <2>1, <2>4 DEF Settled, RunInv, UserEntries
      <3> QED BY <3>1, <3>2 DEF IsUser
    <2>7. IsFile(group) /\ IsFile(g) /\ IsFile(passwd) /\ IsFile(p)
      BY <2>1 DEF Settled, RunInv
    <2>8. group = g
      BY <2>4, <2>5, <2>7 DEF IsFile
    <2>9. passwd = p
      BY <2>4, <2>6, <2>7 DEF IsFile
    <2> QED BY <2>2, <2>8, <2>9
  <1> QED BY <1>1, <1>2, <1>3, PTL DEF Spec

=============================================================================
