---------------------------- MODULE ImagesProofs ----------------------------
(***************************************************************************)
(* The makes of Images run mkusers as MkUsers says: what is proved of the  *)
(* script holds of the script within make, for all configurations.         *)
(***************************************************************************)
EXTENDS Images, MkUsersProofs, SequenceTheorems, WellFoundedInduction

\* The tables of users that a make is given are tables considered.
AskedTables == config \in Configs /\ asked.users \in Tables

LEMMA GivenInit == ImageInit => AskedTables
  <1> SUFFICES ASSUME ImageInit PROVE AskedTables
    OBVIOUS
  <1>1. config \in Configs /\ asked.users = <<>>
    BY DEF ImageInit
  <1>2. {<<>>} \cup config.users \subseteq Tables
    BY <1>1, ConfigsAssumption
  <1> QED
    BY <1>1, <1>2 DEF AskedTables

\* Every step of a make is a step of mkusers, or leaves its state alone.
LEMMA StepWithin ==
    ASSUME AskedTables, [ImageNext]_ivars
    PROVE  AskedTables' /\ [Next]_vars
  <1>1. CASE UNCHANGED ivars
    BY <1>1 DEF ivars, vars, files, makevars, AskedTables
  <1>2. ASSUME NEW g \in config.goals, NEW t \in config.users, NEW d \in config.devices,
               MakeStarts(g, t, d)
        PROVE  AskedTables' /\ [Next]_vars
    <2>1. config' = config /\ asked'.users = t /\ UNCHANGED vars
      BY <1>2 DEF MakeStarts
    <2>2. config.users \subseteq Tables
      BY ConfigsAssumption DEF AskedTables
    <2> QED
      BY <1>2, <2>1, <2>2 DEF AskedTables
  <1>3. CASE Prepare
    BY <1>3 DEF Prepare, AskedTables, Next
  <1>4. CASE EnterUsers
    BY <1>4 DEF EnterUsers, makevars, AskedTables, Next
  <1>5. CASE MakeNodes
    BY <1>5 DEF MakeNodes, makevars, AskedTables
  <1>6. CASE Fakeroot
    BY <1>6 DEF Fakeroot, AskedTables
  <1>7. CASE MakeEnds
    BY <1>7 DEF MakeEnds, AskedTables
  <1>8. CASE Interrupt
    BY <1>8 DEF Interrupt, AskedTables
  <1>9. ASSUME Kept
        PROVE  AskedTables' /\ [Next]_vars
    BY <1>9 DEF Kept, AskedTables
  <1>10. CASE \E j \in LinuxJob : UpToDateJob(j)
    BY <1>9, <1>10 DEF UpToDateJob
  <1>11. CASE Configure \/ Build \/ Install \/ Rebuild
    BY <1>9, <1>11 DEF Configure, Build, Install, Rebuild, Runs
  <1>12. CASE LinuxFails \/ Forget \/ Dirclean
    BY <1>9, <1>12 DEF LinuxFails, Forget, Dirclean
  <1>13. CASE UsersFail \/ Archive \/ Restore
    BY <1>9, <1>13 DEF UsersFail, Archive, Restore
  <1> QED
    BY <1>1, <1>2, <1>3, <1>4, <1>5, <1>6, <1>7, <1>8, <1>10, <1>11, <1>12, <1>13
       DEF ImageNext

\* What make does to the users and groups of TARGET_DIR is what MkUsers allows:
\* the detailed specification implements that of the script alone.
THEOREM UsersWithin == ImageSpec => Spec
  <1>1. ImageInit => AskedTables /\ Init
    BY GivenInit DEF ImageInit
  <1>2. AskedTables /\ [ImageNext]_ivars => AskedTables' /\ [Next]_vars
    BY StepWithin
  <1> QED
    BY <1>1, <1>2, PTL DEF ImageSpec, Spec

\* gshadow and /etc/group agree through all makes, whatever fails.
THEOREM GShadowWithin == ImageSpec => []GShadowInSync
  BY UsersWithin, GShadowCorrect, PTL

\* Through all makes, of any images, uids and gids stay apart as in IdsCorrect, ...
THEOREM IdsWithin == ImageSpec => []IdsUnique
  BY UsersWithin, IdsCorrect, PTL

\* ... mkusers leaves what the table asks for when it succeeds, ...
THEOREM AskedWithin == ImageSpec => []AsAsked
  BY UsersWithin, AskedCorrect, PTL

\* ... and what it left does not change when the next image has it run again.
THEOREM RerunWithin == ImageSpec => []RerunIdle
  BY UsersWithin, RerunCorrect, PTL
-----------------------------------------------------------------------------
(* makedevs.                                                                 *)

DirIn(t, p) == p = <<>> \/ (p \in DOMAIN t /\ t[p].kind = "d")
NodeLine(l) == l.type \in {"c", "b", "p"}

\* A line that is not skipped asks for p, and for p as a node.
Mentions(l, p) == Counts(l) /\ AskedFor(l, p)
Renumbers(l, p) == NodeLine(l) /\ Mentions(l, p)

\* Line i is the last of the first n to do so.
LastMention(d, n, i, p) ==
    i \in 1 .. n /\ Mentions(d[i], p) /\ \A j \in i + 1 .. n : ~Mentions(d[j], p)
LastNumber(d, n, i, p) ==
    i \in 1 .. n /\ Renumbers(d[i], p) /\ \A j \in i + 1 .. n : ~Renumbers(d[j], p)

IsEntry(e) == e = Entry(e.kind, e.dev, Perm(e.perm.uid, e.perm.gid, e.perm.mode))
IsTree(t) ==
    /\ t = [p \in DOMAIN t |-> t[p]]
    /\ \A p \in DOMAIN t :
          IsEntry(t[p]) /\ (t[p].kind \in {"d", "f"} => t[p].dev = Unnumbered)

\* Line l has been taken without complaint, and t has what it asked for.
Taken(l, t) ==
    /\ ~Counts(l) => l.fields = 0 \/ l.comment
    /\ Counts(l) =>
          /\ NodeLine(l) \/ l.type \in {"d", "f"}
          /\ l.fields >= 5 => {l.user, l.group} \subseteq DOMAIN Ids
          /\ l.type = "d" => l.name \in DOMAIN t /\ \A q \in Above(l.name) : DirIn(t, q)
          /\ l.type = "f" => l.name \in DOMAIN t /\ t[l.name].kind # "d"
          /\ NodeLine(l) => \A x \in Asks(l) :
                /\ x[1] \in DOMAIN t /\ t[x[1]].kind # "d"
                /\ x[1] # <<>> /\ DirIn(t, Parent(x[1]))

\* An "f" line finds a file where no line before it has made a node.
FilesFirst(d, n) ==
    \A i \in 1 .. n : Counts(d[i]) /\ d[i].type = "f" =>
        \A j \in 1 .. i - 1 : ~Renumbers(d[j], d[i].name)

\* The last line about a path says what it is, and the last that makes a node of it
\* which; what no line is about is an ordinary file or directory of root's.
PathTrue(d, n, e, p) ==
    /\ \A i \in 1 .. n : LastMention(d, n, i, p) =>
          /\ e.perm.mode = d[i].mode
          /\ d[i].fields >= 5 => e.perm.uid = Ids[d[i].user] /\ e.perm.gid = Ids[d[i].group]
    /\ \A i \in 1 .. n : LastNumber(d, n, i, p) =>
          /\ e.kind = d[i].type
          /\ \A x \in Asks(d[i]) : x[1] = p => e.dev = <<d[i].major, x[2] % (UINT_MAX + 1)>>
    /\ (\A i \in 1 .. n : ~Renumbers(d[i], p)) => e.kind \in {"d", "f"}
    /\ (\A i \in 1 .. n : ~Mentions(d[i], p)) => e.perm.uid = 0 /\ e.perm.gid = 0

\* What the first n lines of d have made of the files.
TreeTrue(d, n, t) ==
    /\ IsTree(t)
    /\ \A i \in 1 .. n : Taken(d[i], t)
    /\ FilesFirst(d, n)
    /\ \A p \in DOMAIN t : PathTrue(d, n, t[p], p)


\* The names of a row differ in their numbers.
LEMMA NumberedApart ==
    ASSUME NEW p, p # <<>>, IsSequence(p), \A k \in DOMAIN p : IsSequence(p[k]),
           NEW m \in Nat, NEW n \in Nat, Numbered(p, m) = Numbered(p, n)
    PROVE  m = n
  <1> DEFINE c == p[Len(p)]
             Longer(k) == Append(c, k)
  <1>1. Len(p) \in DOMAIN p
    <2>1. Len(p) \in Nat /\ DOMAIN p = 1 .. Len(p) /\ p = [i \in 1 .. Len(p) |-> p[i]]
      BY DEF IsSequence
    <2>2. Len(p) # 0
      <3> SUFFICES ASSUME Len(p) = 0 PROVE FALSE
        OBVIOUS
      <3>1. p \in [1 .. 0 -> {}]
        BY <2>1
      <3> QED BY <3>1, EmptySeq
    <2> QED BY <2>1, <2>2
  <1>2. Numbered(p, m)[Len(p)] = Longer(m) /\ Numbered(p, n)[Len(p)] = Longer(n)
    BY <1>1 DEF Numbered
  <1>3. Len(c) \in Nat /\ c = [i \in 1 .. Len(c) |-> c[i]]
    BY <1>1 DEF IsSequence
  <1>4. \A k : Longer(k)[Len(c) + 1] = k
    BY <1>3
  <1> QED BY <1>2, <1>4


LEMMA Remainder ==
    ASSUME NEW a \in Nat, NEW b \in Nat, a <= b
    PROVE  a % (b + 1) = a
  OBVIOUS

LEMMA DeviceNumbers ==
    ASSUME NEW l, IsDevice(l)
    PROVE  /\ l.fields \in Nat /\ l.major \in Nat /\ l.minor \in Nat
           /\ l.start \in Nat /\ l.inc \in Nat /\ l.count \in Nat
  <1>1. {l.fields, l.major, l.minor, l.start, l.inc, l.count} \subseteq Nat
    BY DEF IsDevice
  <1> QED BY <1>1

\* What mknod is called for is what the line asks for, with the minor numbers of an
\* unsigned int.
LEMMA NodesAre ==
    ASSUME NEW l, IsDevice(l), Counts(l), NodeLine(l)
    PROVE  /\ \A x \in Nodes(l) : x = <<x[1], x[2]>> /\ AskedFor(l, x[1])
           /\ \A y \in Asks(l) : \E x \in Nodes(l) : x[1] = y[1]
           /\ \A x \in Nodes(l), y \in Asks(l) :
                 x[1] = y[1] => x[2] = y[2] % (UINT_MAX + 1)
  <1>1. /\ l.minor \in Nat /\ l.start \in Nat /\ l.inc \in Nat /\ l.count \in Nat
        /\ MAX_FIELD \in Nat /\ UINT_MAX \in Nat
        /\ l.type \notin {"d", "f"}
    <2>1. l.type \notin {"d", "f"}
      BY DEF NodeLine
    <2> QED BY <2>1, DeviceNumbers, IdsAssumption
  <1>2. CASE l.count = 0
    <2>1. l.minor <= UINT_MAX
      <3>1. ~(l.minor > MAX_FIELD)
        BY DEF Counts, TooBig
      <3>2. MAX_FIELD <= UINT_MAX
        BY IdsAssumption
      <3> QED BY <1>1, <3>1, <3>2
    <2>2. l.minor % (UINT_MAX + 1) = l.minor
      BY <1>1, <2>1, Remainder
    <2>3. Nodes(l) = {<<l.name, l.minor>>} /\ Asks(l) = {<<l.name, l.minor>>}
      BY <1>1, <1>2 DEF Nodes, Asks
    <2> QED BY <2>2, <2>3 DEF AskedFor
  <1>3. CASE l.count # 0
    <2> DEFINE Name(k) == Numbered(l.name, k)
               Minor(i) == l.minor + i * l.inc
               Fit(n) == n % (UINT_MAX + 1)
    <2>1. /\ Nodes(l) = {<<Name(l.start + i), Fit(Minor(i))>> :
                            i \in 0 .. l.count - 1}
          /\ Asks(l) = {<<Name(k), Minor(k - l.start)>> :
                           k \in l.start .. l.start + l.count - 1}
      BY <1>1, <1>3 DEF Nodes, Asks
    <2>2. \A k, m \in Nat : Name(k) = Name(m) => k = m
      BY NumberedApart DEF IsDevice
    <2> HIDE DEF Name, Minor, Fit
    <2>0. l.start \in Nat /\ l.count \in Nat
      BY <1>1
    <2>3. ASSUME NEW i \in 0 .. l.count - 1
          PROVE  /\ l.start + i \in l.start .. l.start + l.count - 1
                 /\ l.start + i \in Nat /\ l.start + i - l.start = i
      BY <2>0
    <2>4. ASSUME NEW k \in l.start .. l.start + l.count - 1
          PROVE  k \in Nat /\ k - l.start \in 0 .. l.count - 1 /\ l.start + (k - l.start) = k
      BY <2>0
    <2>5. ASSUME NEW x \in Nodes(l)
          PROVE  x = <<x[1], x[2]>> /\ AskedFor(l, x[1])
      <3>1. PICK i \in 0 .. l.count - 1 :
               x = <<Name(l.start + i), Fit(Minor(i))>>
        BY <2>1
      <3>2. PICK k \in l.start .. l.start + l.count - 1 : k = l.start + i
        BY <2>3
      <3>3. <<Name(k), Minor(k - l.start)>> \in Asks(l)
        BY <2>1
      <3> QED BY <3>1, <3>2, <3>3 DEF AskedFor
    <2>6. ASSUME NEW y \in Asks(l)
          PROVE  \E x \in Nodes(l) : x[1] = y[1]
      <3>1. PICK k \in l.start .. l.start + l.count - 1 :
               y = <<Name(k), Minor(k - l.start)>>
        BY <2>1
      <3> DEFINE i == k - l.start
                 x == <<Name(l.start + i), Fit(Minor(i))>>
      <3>2. x \in Nodes(l)
        BY <2>1, <2>4
      <3>3. x[1] = y[1]
        BY <2>4, <3>1
      <3> QED BY <3>2, <3>3
    <2>7. ASSUME NEW x \in Nodes(l), NEW y \in Asks(l), x[1] = y[1]
          PROVE  x[2] = Fit(y[2])
      <3>1. PICK i \in 0 .. l.count - 1 :
               x = <<Name(l.start + i), Fit(Minor(i))>>
        BY <2>1
      <3>2. PICK k \in l.start .. l.start + l.count - 1 :
               y = <<Name(k), Minor(k - l.start)>>
        BY <2>1
      <3>3. l.start + i = k
        BY <2>2, <2>3, <2>4, <2>7, <3>1, <3>2
      <3>4. k - l.start = i
        BY <2>0, <3>3
      <3> QED BY <3>1, <3>2, <3>4
    <2> QED BY <2>5, <2>6, <2>7 DEF Fit
  <1> QED BY <1>2, <1>3

\* What a line that is taken without complaint does to the files: it creates only what
\* it asks for and the directories above, and leaves directories what they are.
Does(l) ==
    /\ IsTree(tree')
    /\ DOMAIN tree \subseteq DOMAIN tree'
    /\ \A p \in DOMAIN tree :
          /\ tree'[p].kind = "d" <=> tree[p].kind = "d"
          /\ ~AskedFor(l, p) => tree'[p] = tree[p]
          /\ ~NodeLine(l) => tree'[p].kind = tree[p].kind /\ tree'[p].dev = tree[p].dev
    /\ \A p \in DOMAIN tree' \ DOMAIN tree :
          /\ AskedFor(l, p) \/ (l.type = "d" /\ p \in Above(l.name))
          /\ ~AskedFor(l, p) => tree'[p].perm.uid = 0 /\ tree'[p].perm.gid = 0
          /\ ~NodeLine(l) => tree'[p].kind = "d"
    /\ \A p \in DOMAIN tree' : AskedFor(l, p) => tree'[p].perm = Owned(l)
    /\ NodeLine(l) => \A x \in Asks(l) :
          /\ x[1] \in DOMAIN tree' /\ tree'[x[1]].kind = l.type
          /\ tree'[x[1]].dev = <<l.major, x[2] % (UINT_MAX + 1)>>
          /\ x[1] # <<>> /\ DirIn(tree', Parent(x[1]))
    /\ l.type = "d" => l.name \in DOMAIN tree' /\ \A q \in Above(l.name) : DirIn(tree', q)
    /\ l.type = "f" => l.name \in DOMAIN tree /\ tree[l.name].kind = "f"

LEMMA OneName ==
    ASSUME NEW l, l.type \in {"d", "f"}, NEW p
    PROVE  AskedFor(l, p) <=> p = l.name
  <1>1. Asks(l) = {<<l.name, l.minor>>}
    BY DEF Asks
  <1> QED BY <1>1 DEF AskedFor

\* A new owner and mode is all that changes of an entry.
Owning(t, p, l) == [t EXCEPT ![p].perm = Owned(l)]
LEMMA NewPerm ==
    ASSUME NEW t, IsTree(t), NEW p \in DOMAIN t, NEW l, NEW u, u = Owning(t, p, l)
    PROVE  /\ IsTree(u) /\ DOMAIN u = DOMAIN t
           /\ u[p].perm = Owned(l) /\ u[p].kind = t[p].kind /\ u[p].dev = t[p].dev
           /\ \A q \in DOMAIN t : q # p => u[q] = t[q]
  <1> DEFINE o == Owned(l)
  <1>1. o = Perm(o.uid, o.gid, o.mode)
    BY DEF Owned, Perm
  <1>2. t[p] = [kind |-> t[p].kind, dev |-> t[p].dev, perm |-> t[p].perm]
    BY DEF IsTree, IsEntry, Entry
  <1> HIDE DEF o
  <1>3. u = [t EXCEPT ![p].perm = o]
    BY DEF o, Owning
  <1>4. u[p] = [t[p] EXCEPT !.perm = o] /\ DOMAIN u = DOMAIN t /\ u = [q \in DOMAIN u |-> u[q]]
    BY <1>3
  <1>5. \A q \in DOMAIN t : q # p => u[q] = t[q]
    BY <1>3
  <1> DEFINE e == t[p]
  <1>6. [e EXCEPT !.perm = o] = [kind |-> e.kind, dev |-> e.dev, perm |-> o]
    <2> HIDE DEF e
    <2>1. e = [kind |-> e.kind, dev |-> e.dev, perm |-> e.perm]
      BY <1>2 DEF e
    <2> QED BY <2>1
  <1>7. u[p] = [kind |-> t[p].kind, dev |-> t[p].dev, perm |-> o]
    BY <1>4, <1>6
  <1>8. IsTree(u)
    <2>1. ASSUME NEW q \in DOMAIN u
          PROVE  IsEntry(u[q]) /\ (u[q].kind \in {"d", "f"} => u[q].dev = Unnumbered)
      <3>1. CASE q = p
        <4>1. u[p].kind = t[p].kind /\ u[p].dev = t[p].dev /\ u[p].perm = o
          BY <1>7
        <4>2. IsEntry(u[p])
          BY <1>1, <1>7, <4>1 DEF IsEntry, Entry
        <4> QED BY <3>1, <4>1, <4>2 DEF IsTree
      <3>2. CASE q # p
        BY <1>4, <1>5, <3>2 DEF IsTree
      <3> QED BY <3>1, <3>2
    <2> QED BY <1>4, <2>1 DEF IsTree
  <1> QED BY <1>4, <1>5, <1>7, <1>8 DEF o

LEMMA DirectoryDoes ==
    ASSUME NEW l, IsTree(tree), TakeDirectory(l), devs = "reading", devs' # "failed"
    PROVE  Does(l)
  <1> DEFINE t == WithDirectory(l.name)
             new == Entry("d", Unnumbered, Perm(0, 0, "777"))
  <1>1. l.type = "d" /\ ~NodeLine(l)
    BY DEF TakeDirectory, NodeLine
  <1>2. ~Barred(l.name) /\ tree' = Owning(t, l.name, l)
    BY DEF TakeDirectory, Complains, Owning
  <1>3. /\ DOMAIN t = DOMAIN tree \cup Above(l.name) \cup {l.name}
        /\ \A q \in DOMAIN tree : t[q] = tree[q]
        /\ \A q \in DOMAIN t \ DOMAIN tree : t[q] = new
        /\ t = [q \in DOMAIN t |-> t[q]]
    BY DEF WithDirectory
  <1>4. /\ IsEntry(new) /\ new.kind = "d" /\ new.dev = Unnumbered
        /\ new.perm.uid = 0 /\ new.perm.gid = 0
    BY DEF IsEntry, Entry, Perm
  <1> HIDE DEF t, new
  <1>5. IsTree(t)
    BY <1>3, <1>4 DEF IsTree
  <1>6. /\ IsTree(tree') /\ DOMAIN tree' = DOMAIN t
        /\ tree'[l.name].perm = Owned(l) /\ tree'[l.name].kind = t[l.name].kind
        /\ tree'[l.name].dev = t[l.name].dev
        /\ \A q \in DOMAIN t : q # l.name => tree'[q] = t[q]
    <2>1. l.name \in DOMAIN t
      BY <1>3
    <2> QED BY <1>2, <1>5, <2>1, NewPerm
  <1>7. \A p : AskedFor(l, p) <=> p = l.name
    BY <1>1, OneName
  <1>8. ASSUME NEW q \in Above(l.name)
        PROVE  DirIn(tree', q)
    <2>1. q \in DOMAIN t /\ (q \in DOMAIN tree => IsDir(q))
      BY <1>2, <1>3 DEF Barred
    <2>2. tree'[q].kind = t[q].kind
      BY <1>6, <2>1
    <2> QED BY <1>3, <1>4, <1>6, <2>1, <2>2 DEF IsDir, DirIn
  <1> QED
    BY <1>1, <1>3, <1>4, <1>6, <1>7, <1>8 DEF Does

LEMMA FileDoes ==
    ASSUME NEW l, IsTree(tree), TakeFile(l), devs = "reading", devs' # "failed"
    PROVE  Does(l)
  <1>1. l.type = "f" /\ ~NodeLine(l)
    BY DEF TakeFile, NodeLine
  <1>2. /\ l.name \in DOMAIN tree /\ tree[l.name].kind = "f"
        /\ tree' = Owning(tree, l.name, l)
    <2> DEFINE fits == l.name \in DOMAIN tree /\ tree[l.name].kind = "f"
               owned == Owning(tree, l.name, l)
    <2>1. PICK there \in {fits} : Complains(~there) /\ tree' = IF there THEN owned ELSE tree
      BY Zenon DEF TakeFile, Owning
    <2>2. there = fits
      BY <2>1
    <2> HIDE DEF fits, owned
    <2>3. CASE ~fits
      BY <2>1, <2>2, <2>3, Zenon DEF Complains
    <2>4. CASE fits
      <3>1. tree' = owned
        BY <2>1, <2>2, <2>4, Zenon
      <3> QED BY <2>4, <3>1 DEF fits, owned
    <2> QED BY <2>3, <2>4
  <1>3. /\ IsTree(tree') /\ DOMAIN tree' = DOMAIN tree
        /\ tree'[l.name].perm = Owned(l) /\ tree'[l.name].kind = tree[l.name].kind
        /\ tree'[l.name].dev = tree[l.name].dev
        /\ \A q \in DOMAIN tree : q # l.name => tree'[q] = tree[q]
    BY <1>2, NewPerm
  <1>4. \A p : AskedFor(l, p) <=> p = l.name
    BY <1>1, OneName
  <1> QED BY <1>1, <1>2, <1>3, <1>4 DEF Does


LEMMA NodesDo ==
    ASSUME NEW l, IsDevice(l), IsTree(tree), TakeNodes(l), devs = "reading", devs' # "failed"
    PROVE  Does(l)
  <1> DEFINE P == {x[1] : x \in Nodes(l)}
             number(p) == CHOOSE n \in Minors(l) : <<p, n>> \in Nodes(l)
             node(p) == Entry(l.type, <<l.major, number(p)>>, Owned(l))
  <1>1. NodeLine(l) /\ Counts(l) /\ l.type \notin {"d", "f"}
    <2>1. l.type \in {"c", "b", "p"} /\ Counts(l)
      BY DEF TakeNodes, Takes
    <2> QED BY <2>1 DEF NodeLine
  <1>2. /\ \A x \in Nodes(l) : IsDir(Parent(x[1])) /\ ~IsDir(x[1])
        /\ DOMAIN tree' = DOMAIN tree \cup P
        /\ \A p \in P : tree'[p] = node(p)
        /\ \A p \in DOMAIN tree \ P : tree'[p] = tree[p]
        /\ tree' = [p \in DOMAIN tree' |-> tree'[p]]
    <2> DEFINE M == {x \in Nodes(l) : IsDir(Parent(x[1])) /\ ~IsDir(x[1])}
               made(N) ==
                  [p \in DOMAIN tree \cup {x[1] : x \in N} |->
                      IF \E x \in N : p = x[1]
                      THEN Entry(l.type, <<l.major, CHOOSE n \in Minors(l) : <<p, n>> \in N>>, Owned(l))
                      ELSE IF p \in {x[1] : x \in Nodes(l)}
                           THEN [tree[p] EXCEPT !.perm.mode = l.mode] ELSE tree[p]]
    <2>1. Complains(M # Nodes(l)) /\ tree' = made(M)
      <3>1. PICK N \in {M} : Complains(N # Nodes(l)) /\ tree' = made(N)
        BY DEF TakeNodes
      <3> HIDE DEF M, made
      <3> QED BY <3>1
    <2>2. M = Nodes(l)
      <3> HIDE DEF M
      <3> QED BY <2>1 DEF Complains
    <2>3. tree' = made(Nodes(l))
      <3> HIDE DEF M, made
      <3> QED BY <2>1, <2>2
    <2>4. \A x \in Nodes(l) : IsDir(Parent(x[1])) /\ ~IsDir(x[1])
      BY <2>2
    <2> HIDE DEF M
    <2>5. DOMAIN tree' = DOMAIN tree \cup P /\ tree' = [p \in DOMAIN tree' |-> tree'[p]]
      BY <2>3
    <2>6. ASSUME NEW p \in P
          PROVE  tree'[p] = node(p)
      <3>1. \E x \in Nodes(l) : p = x[1]
        BY <2>6
      <3> QED BY <2>3, <2>6, <3>1
    <2>7. ASSUME NEW p \in DOMAIN tree \ P
          PROVE  tree'[p] = tree[p]
      <3>1. ~\E x \in Nodes(l) : p = x[1]
        BY <2>7
      <3> QED BY <2>3, <2>7, <3>1
    <2> QED BY <2>4, <2>5, <2>6, <2>7
  <1>3. \A p : AskedFor(l, p) <=> p \in P
    <2>1. ASSUME NEW p, AskedFor(l, p) PROVE p \in P
      <3>1. PICK y \in Asks(l) : y[1] = p
        BY <2>1 DEF AskedFor
      <3>2. PICK x \in Nodes(l) : x[1] = y[1]
        BY <1>1, NodesAre
      <3> QED BY <3>1, <3>2
    <2>2. ASSUME NEW p \in P PROVE AskedFor(l, p)
      <3>1. PICK x \in Nodes(l) : x[1] = p
        BY <2>2
      <3> QED BY <1>1, <3>1, NodesAre
    <2> QED BY <2>1, <2>2
  <1>4. ASSUME NEW y \in Asks(l)
        PROVE  y[1] \in P /\ number(y[1]) = y[2] % (UINT_MAX + 1)
    <2>1. PICK x \in Nodes(l) : x[1] = y[1] /\ x = <<x[1], x[2]>>
      BY <1>1, NodesAre
    <2> DEFINE p == y[1]
               n == number(p)
    <2>2. x[2] \in Minors(l) /\ <<p, x[2]>> \in Nodes(l)
      BY <2>1 DEF Minors
    <2>3. <<p, n>> \in Nodes(l)
      BY <2>2
    <2> HIDE DEF n, p
    <2>4. <<p, n>>[1] = y[1] /\ <<p, n>>[2] = n
      BY DEF p
    <2>5. n = y[2] % (UINT_MAX + 1)
      BY <1>1, <2>3, <2>4, NodesAre
    <2> QED BY <2>1, <2>5 DEF n, p
  <1>5. ASSUME NEW p \in P
        PROVE  /\ node(p).kind = l.type /\ node(p).perm = Owned(l)
               /\ node(p).dev = <<l.major, number(p)>> /\ IsEntry(node(p))
    <2> DEFINE v == <<l.major, number(p)>>
               o == Owned(l)
    <2>1. o = Perm(o.uid, o.gid, o.mode)
      BY DEF Owned, Perm
    <2>2. node(p) = Entry(l.type, v, o)
      OBVIOUS
    <2> HIDE DEF v, o, node
    <2>3. node(p).kind = l.type /\ node(p).dev = v /\ node(p).perm = o
      BY <2>2 DEF Entry
    <2>4. IsEntry(node(p))
      BY <2>1, <2>2, <2>3 DEF IsEntry
    <2> QED BY <2>3, <2>4 DEF v, o
  <1> HIDE DEF node, number
  <1>6. ASSUME NEW p \in P
        PROVE  /\ tree'[p].kind = l.type /\ tree'[p].perm = Owned(l) /\ IsEntry(tree'[p])
               /\ tree'[p].dev = <<l.major, number(p)>>
               /\ p \in DOMAIN tree => tree[p].kind # "d"
    <2>1. tree'[p] = node(p)
      BY <1>2
    <2>2. PICK x \in Nodes(l) : x[1] = p
      OBVIOUS
    <2>3. ~IsDir(p)
      BY <1>2, <2>2
    <2> QED BY <1>5, <2>1, <2>3 DEF IsDir
  <1> HIDE DEF P
  <1>7. IsTree(tree')
    <2>1. ASSUME NEW p \in DOMAIN tree'
          PROVE  IsEntry(tree'[p]) /\ (tree'[p].kind \in {"d", "f"} => tree'[p].dev = Unnumbered)
      <3>1. CASE p \in P
        BY <1>1, <1>6, <3>1
      <3>2. CASE p \notin P
        <4>1. p \in DOMAIN tree /\ tree'[p] = tree[p]
          BY <1>2, <3>2
        <4> QED BY <4>1 DEF IsTree
      <3> QED BY <3>1, <3>2
    <2> QED BY <1>2, <2>1 DEF IsTree
  <1>8. \A q : IsDir(q) => DirIn(tree', q)
    <2>1. ASSUME NEW q \in DOMAIN tree, tree[q].kind = "d"
          PROVE  q \in DOMAIN tree' /\ tree'[q].kind = "d"
      BY <1>2, <1>6, <2>1
    <2> QED BY <2>1 DEF IsDir, DirIn
  <1>9. \A y \in Asks(l) : y[1] # <<>> /\ DirIn(tree', Parent(y[1]))
    <2> SUFFICES ASSUME NEW y \in Asks(l) PROVE y[1] # <<>> /\ DirIn(tree', Parent(y[1]))
      OBVIOUS
    <2>1. PICK x \in Nodes(l) : x[1] = y[1]
      BY <1>1, NodesAre
    <2>2. IsDir(Parent(y[1])) /\ ~IsDir(y[1])
      BY <1>2, <2>1
    <2> QED BY <1>8, <2>2 DEF IsDir
  <1>10. ASSUME NEW p \in DOMAIN tree
         PROVE  (tree'[p].kind = "d" <=> tree[p].kind = "d") /\ (p \notin P => tree'[p] = tree[p])
    <2>1. CASE p \in P
      BY <1>1, <1>6, <2>1
    <2>2. CASE p \notin P
      BY <1>2, <2>2
    <2> QED BY <2>1, <2>2
  <1> QED BY <1>1, <1>2, <1>3, <1>4, <1>6, <1>7, <1>9, <1>10 DEF Does


\* Of the first n numbers that are in S, one is the last.
LEMMA Latest ==
    ASSUME NEW n \in Nat, NEW S \in SUBSET (1 .. n), S # {}
    PROVE  \E i \in S : \A j \in i + 1 .. n : j \notin S
  <1> DEFINE below == {p \in Nat \X Nat : p[1] < p[2]}
             R == {n - i : i \in S}
  <1>1. IsWellFoundedOn(below, Nat)
    BY NatLessThanWellFounded DEF OpToRel
  <1> HIDE DEF below
  <1>2. R \in SUBSET Nat /\ R # {}
    <2>1. \A i \in S : i \in 1 .. n
      OBVIOUS
    <2>2. \A i \in 1 .. n : n - i \in Nat
      OBVIOUS
    <2> QED BY <2>1, <2>2
  <1> HIDE DEF R
  <1>3. PICK r \in R : \A m \in R : ~(<<m, r>> \in below)
    BY <1>1, <1>2, WFMin
  <1>4. PICK i \in S : r = n - i
    BY <1>3 DEF R
  <1>5. ASSUME NEW j \in i + 1 .. n, j \in S
        PROVE  FALSE
    <2>1. n - j \in R
      BY <1>5 DEF R
    <2>2. i \in Nat /\ j \in Nat /\ i < j /\ j <= n
      OBVIOUS
    <2>3. n - j < n - i /\ n - j \in Nat /\ n - i \in Nat
      BY <2>2
    <2> QED BY <1>3, <1>4, <2>1, <2>3 DEF below
  <1> QED BY <1>5

LEMMA LastExists ==
    ASSUME NEW d, NEW n \in Nat, NEW p
    PROVE  /\ (\E i \in 1 .. n : Mentions(d[i], p)) => \E i \in 1 .. n : LastMention(d, n, i, p)
           /\ (\E i \in 1 .. n : Renumbers(d[i], p)) => \E i \in 1 .. n : LastNumber(d, n, i, p)
  <1>1. ASSUME NEW k \in 1 .. n, Mentions(d[k], p)
        PROVE  \E i \in 1 .. n : LastMention(d, n, i, p)
    <2> DEFINE S == {i \in 1 .. n : Mentions(d[i], p)}
    <2>1. PICK i \in S : \A j \in i + 1 .. n : j \notin S
      <3>1. S \in SUBSET (1 .. n) /\ S # {}
        BY <1>1
      <3> HIDE DEF S
      <3> QED BY <3>1, Latest
    <2>2. \A j \in i + 1 .. n : j \in 1 .. n
      OBVIOUS
    <2> QED BY <2>1, <2>2 DEF LastMention
  <1>2. ASSUME NEW k \in 1 .. n, Renumbers(d[k], p)
        PROVE  \E i \in 1 .. n : LastNumber(d, n, i, p)
    <2> DEFINE S == {i \in 1 .. n : Renumbers(d[i], p)}
    <2>1. PICK i \in S : \A j \in i + 1 .. n : j \notin S
      <3>1. S \in SUBSET (1 .. n) /\ S # {}
        BY <1>2
      <3> HIDE DEF S
      <3> QED BY <3>1, Latest
    <2>2. \A j \in i + 1 .. n : j \in 1 .. n
      OBVIOUS
    <2> QED BY <2>1, <2>2 DEF LastNumber
  <1> QED BY <1>1, <1>2

\* With one line more, that line is the last about what it mentions, and about
\* everything else the last is the one it was.
LEMMA LastGrows ==
    ASSUME NEW d, NEW n \in Nat, NEW p, NEW i \in 1 .. n + 1
    PROVE  /\ LastMention(d, n + 1, i, p) =>
                IF Mentions(d[n + 1], p) THEN i = n + 1 ELSE i \in 1 .. n /\ LastMention(d, n, i, p)
           /\ LastNumber(d, n + 1, i, p) =>
                IF Renumbers(d[n + 1], p) THEN i = n + 1 ELSE i \in 1 .. n /\ LastNumber(d, n, i, p)
  <1>1. i = n + 1 \/ (i \in 1 .. n /\ n + 1 \in i + 1 .. n + 1)
    OBVIOUS
  <1>2. \A j \in i + 1 .. n : j \in i + 1 .. n + 1
    OBVIOUS
  <1> QED BY <1>1, <1>2 DEF LastMention, LastNumber

\* What a line has asked for is there, and stays.
LEMMA TakenThere ==
    ASSUME NEW l, NEW t, Taken(l, t), NEW p, Mentions(l, p)
    PROVE  p \in DOMAIN t
  <1>1. Counts(l)
    BY DEF Mentions
  <1>2. PICK x \in Asks(l) : x[1] = p
    BY DEF Mentions, AskedFor
  <1>3. CASE NodeLine(l)
    BY <1>1, <1>2, <1>3 DEF Taken
  <1>4. CASE l.type \in {"d", "f"}
    <2>1. p = l.name
      BY <1>4, OneName DEF Mentions
    <2> QED BY <1>1, <1>4, <2>1 DEF Taken
  <1> QED BY <1>1, <1>3, <1>4 DEF Taken

LEMMA TakenStays ==
    ASSUME NEW l, NEW t, NEW u, Taken(l, t), DOMAIN t \subseteq DOMAIN u,
           \A p \in DOMAIN t : u[p].kind = "d" <=> t[p].kind = "d"
    PROVE  Taken(l, u)
  <1>1. \A q : DirIn(t, q) => DirIn(u, q)
    BY DEF DirIn
  <1> QED BY <1>1 DEF Taken


\* One more line is taken, or skipped without complaint.
LEMMA TreeGrows ==
    ASSUME NEW d, NEW n \in Nat, NEW l, l = d[n + 1], TreeTrue(d, n, tree),
           \/ Counts(l) /\ Known(l) /\ (NodeLine(l) \/ l.type \in {"d", "f"}) /\ Does(l)
           \/ ~Counts(l) /\ (l.fields = 0 \/ l.comment) /\ tree' = tree,
           l.fields \in Nat
    PROVE  TreeTrue(d, n + 1, tree')
  <1>1. IsTree(tree)
    BY DEF TreeTrue
  <1>2. \A i \in 1 .. n + 1 : i \in 1 .. n \/ i = n + 1
    OBVIOUS
  <1>3. \A p : Mentions(l, p) <=> Counts(l) /\ AskedFor(l, p)
    BY DEF Mentions
  <1>4. ASSUME NEW p, \E i \in 1 .. n : Mentions(d[i], p)
        PROVE  p \in DOMAIN tree
    BY <1>4, TakenThere DEF TreeTrue
  <1>5. CASE ~Counts(l) /\ (l.fields = 0 \/ l.comment) /\ tree' = tree
    <2>1. Taken(l, tree) /\ \A p : ~Mentions(l, p) /\ ~Renumbers(l, p)
      BY <1>5 DEF Taken, Mentions, Renumbers
    <2>2. FilesFirst(d, n + 1)
      <3>1. \A i \in 1 .. n + 1 : Counts(d[i]) => i \in 1 .. n
        BY <1>2, <1>5
      <3> QED BY <3>1 DEF FilesFirst, TreeTrue
    <2>3. ASSUME NEW p \in DOMAIN tree
          PROVE  PathTrue(d, n + 1, tree[p], p)
      <3>1. PathTrue(d, n, tree[p], p)
        BY DEF TreeTrue
      <3>2. \A i \in 1 .. n + 1 :
               /\ LastMention(d, n + 1, i, p) => i \in 1 .. n /\ LastMention(d, n, i, p)
               /\ LastNumber(d, n + 1, i, p) => i \in 1 .. n /\ LastNumber(d, n, i, p)
        BY <2>1, LastGrows
      <3>3. \A i \in 1 .. n : i \in 1 .. n + 1
        OBVIOUS
      <3> QED BY <3>1, <3>2, <3>3 DEF PathTrue
    <2>4. \A i \in 1 .. n + 1 : Taken(d[i], tree)
      BY <1>2, <2>1 DEF TreeTrue
    <2> QED BY <1>1, <1>5, <2>2, <2>3, <2>4 DEF TreeTrue
  <1>6. CASE Counts(l) /\ Known(l) /\ (NodeLine(l) \/ l.type \in {"d", "f"}) /\ Does(l)
    <2>1. Owned(l) = Perm(Ids[User(l)], Ids[Group(l)], l.mode)
      BY DEF Owned
    <2>2. l.fields >= 5 => User(l) = l.user /\ Group(l) = l.group
      BY DEF User, Group
    <2>3. Taken(l, tree')
      <3>1. l.fields >= 5 => {l.user, l.group} \subseteq DOMAIN Ids
        BY <1>6, <2>2 DEF Known
      <3>2. NodeLine(l) => \A x \in Asks(l) :
               /\ x[1] \in DOMAIN tree' /\ tree'[x[1]].kind # "d"
               /\ x[1] # <<>> /\ DirIn(tree', Parent(x[1]))
        BY <1>6 DEF Does, NodeLine
      <3>3. l.type = "f" => l.name \in DOMAIN tree' /\ tree'[l.name].kind # "d"
        BY <1>6 DEF Does
      <3> QED BY <1>6, <3>1, <3>2, <3>3 DEF Taken, Does
    <2>4. \A i \in 1 .. n + 1 : Taken(d[i], tree')
      <3>1. \A i \in 1 .. n : Taken(d[i], tree')
        <4>1. /\ DOMAIN tree \subseteq DOMAIN tree'
              /\ \A p \in DOMAIN tree : tree'[p].kind = "d" <=> tree[p].kind = "d"
          BY <1>6 DEF Does
        <4> QED BY <4>1, TakenStays DEF TreeTrue
      <3> QED BY <1>2, <2>3, <3>1
    <2>5. FilesFirst(d, n + 1)
      <3> SUFFICES ASSUME NEW i \in 1 .. n + 1, Counts(d[i]), d[i].type = "f",
                          NEW j \in 1 .. i - 1, Renumbers(d[j], d[i].name)
                   PROVE  FALSE
        BY DEF FilesFirst
      <3>1. CASE i \in 1 .. n
        BY <3>1 DEF TreeTrue, FilesFirst
      <3>2. CASE i = n + 1
        <4> DEFINE p == l.name
        <4>1. p \in DOMAIN tree /\ tree[p].kind = "f" /\ j \in 1 .. n /\ Renumbers(d[j], p)
          BY <1>6, <3>2 DEF Does
        <4>2. PICK k \in 1 .. n : LastNumber(d, n, k, p)
          BY <4>1, LastExists
        <4>3. tree[p].kind = d[k].type /\ NodeLine(d[k])
          BY <4>1, <4>2 DEF TreeTrue, PathTrue, LastNumber, Renumbers
        <4> QED BY <4>1, <4>3 DEF NodeLine
      <3> QED BY <1>2, <3>1, <3>2
    <2>6. ASSUME NEW p \in DOMAIN tree'
          PROVE  PathTrue(d, n + 1, tree'[p], p)
      <3> DEFINE e == tree'[p]
      <3>1. ASSUME NEW i \in 1 .. n + 1, LastMention(d, n + 1, i, p)
            PROVE  /\ e.perm.mode = d[i].mode
                   /\ d[i].fields >= 5 =>
                         e.perm.uid = Ids[d[i].user] /\ e.perm.gid = Ids[d[i].group]
        <4>1. CASE Mentions(l, p)
          <5>1. i = n + 1
            BY <3>1, <4>1, LastGrows
          <5>2. e.perm = Owned(l)
            BY <1>3, <1>6, <4>1 DEF Does
          <5>3. e.perm.uid = Ids[User(l)] /\ e.perm.gid = Ids[Group(l)] /\ e.perm.mode = l.mode
            BY <2>1, <5>2 DEF Perm
          <5> QED BY <2>2, <5>1, <5>3
        <4>2. CASE ~Mentions(l, p)
          <5>1. i \in 1 .. n /\ LastMention(d, n, i, p)
            BY <3>1, <4>2, LastGrows
          <5>2. p \in DOMAIN tree
            BY <1>4, <5>1 DEF LastMention
          <5>3. tree'[p] = tree[p]
            BY <1>3, <1>6, <4>2, <5>2 DEF Does
          <5> QED BY <5>1, <5>2, <5>3 DEF TreeTrue, PathTrue
        <4> QED BY <4>1, <4>2
      <3>2. ASSUME NEW i \in 1 .. n + 1, LastNumber(d, n + 1, i, p)
            PROVE  /\ e.kind = d[i].type
                   /\ \A x \in Asks(d[i]) : x[1] = p => e.dev = <<d[i].major, x[2] % (UINT_MAX + 1)>>
        <4>1. CASE Renumbers(l, p)
          <5>1. i = n + 1 /\ NodeLine(l)
            BY <3>2, <4>1, LastGrows DEF Renumbers
          <5>2. PICK y \in Asks(l) : y[1] = p
            BY <4>1 DEF Renumbers, Mentions, AskedFor
          <5> QED BY <1>6, <5>1, <5>2 DEF Does
        <4>2. CASE ~Renumbers(l, p)
          <5>1. i \in 1 .. n /\ LastNumber(d, n, i, p)
            BY <3>2, <4>2, LastGrows
          <5>2. p \in DOMAIN tree
            BY <1>4, <5>1 DEF LastNumber, Renumbers
          <5>3. tree'[p].kind = tree[p].kind /\ tree'[p].dev = tree[p].dev
            BY <1>3, <1>6, <4>2, <5>2 DEF Does, Renumbers
          <5> QED BY <5>1, <5>2, <5>3 DEF TreeTrue, PathTrue
        <4> QED BY <4>1, <4>2
      <3>3. ASSUME \A i \in 1 .. n + 1 : ~Renumbers(d[i], p)
            PROVE  e.kind \in {"d", "f"}
        <4>1. ~Renumbers(l, p) /\ \A i \in 1 .. n : ~Renumbers(d[i], p)
          BY <3>3
        <4>2. CASE p \in DOMAIN tree
          <5>1. tree'[p].kind = tree[p].kind
            BY <1>3, <1>6, <4>1, <4>2 DEF Does, Renumbers
          <5> QED BY <4>1, <4>2, <5>1 DEF TreeTrue, PathTrue
        <4>3. CASE p \notin DOMAIN tree
          <5>1. NodeLine(l) => l.type # "d" /\ ~AskedFor(l, p)
            BY <1>3, <1>6, <4>1 DEF Renumbers, NodeLine
          <5> QED BY <1>6, <4>3, <5>1 DEF Does
        <4> QED BY <4>2, <4>3
      <3>4. ASSUME \A i \in 1 .. n + 1 : ~Mentions(d[i], p)
            PROVE  e.perm.uid = 0 /\ e.perm.gid = 0
        <4>1. ~AskedFor(l, p) /\ \A i \in 1 .. n : ~Mentions(d[i], p)
          BY <1>3, <1>6, <3>4
        <4>2. CASE p \in DOMAIN tree
          BY <1>6, <4>1, <4>2 DEF Does, TreeTrue, PathTrue
        <4>3. CASE p \notin DOMAIN tree
          BY <1>6, <4>1, <4>3 DEF Does
        <4> QED BY <4>2, <4>3
      <3> QED BY <3>1, <3>2, <3>3, <3>4 DEF PathTrue
    <2> QED BY <1>6, <2>4, <2>5, <2>6 DEF TreeTrue, Does
  <1> QED BY <1>5, <1>6


LEMMA MinorsAsked ==
    ASSUME NEW l, IsDevice(l), NEW x \in Asks(l)
    PROVE  x[2] \in Nat
  <1> DEFINE a == l.minor
             b == l.start
             c == l.inc
             m == l.count
  <1>1. a \in Nat /\ b \in Nat /\ c \in Nat /\ m \in Nat
    BY DeviceNumbers
  <1>2. x[2] = a \/ \E k \in b .. b + m - 1 : x[2] = a + (k - b) * c
    BY DEF Asks
  <1> HIDE DEF a, b, c, m
  <1>3. ASSUME NEW k \in b .. b + m - 1
        PROVE  a + (k - b) * c \in Nat
    <2>1. k - b \in Nat
      BY <1>1
    <2> QED BY <1>1, <2>1
  <1> QED BY <1>1, <1>2, <1>3

\* When the whole table has been taken, the last line about a path has got it.
LEMMA TreeAsTabled ==
    ASSUME NEW d, Len(d) \in Nat, DOMAIN d = 1 .. Len(d), \A i \in DOMAIN d : IsDevice(d[i]),
           TreeTrue(d, Len(d), tree)
    PROVE  NodesAsTabled(d)
  <1> DEFINE n == Len(d)
  <1> SUFFICES ASSUME NEW i \in 1 .. n, NEW x \in Asks(d[i]), Counts(d[i]),
                      \A j \in i + 1 .. n : Counts(d[j]) => ~AskedFor(d[j], x[1])
               PROVE  LET l == d[i]
                          there == tree[x[1]] IN
                      /\ x[1] \in DOMAIN tree
                      /\ l.type # "d" => there.kind = l.type
                      /\ l.type \notin {"d", "f"} /\ x[2] <= UINT_MAX => there.dev = <<l.major, x[2]>>
                      /\ there.perm.mode = l.mode
                      /\ l.fields >= 5 => there.perm.uid = Ids[l.user] /\ there.perm.gid = Ids[l.group]
    BY DEF NodesAsTabled
  <1> DEFINE l == d[i]
             p == x[1]
  <1>1. Mentions(l, p) /\ LastMention(d, n, i, p)
    BY DEF Mentions, LastMention, AskedFor
  <1>2. Taken(l, tree)
    BY DEF TreeTrue
  <1>3. p \in DOMAIN tree
    BY <1>1, <1>2, TakenThere
  <1>4. PathTrue(d, n, tree[p], p)
    BY <1>3 DEF TreeTrue
  <1>5. /\ tree[p].perm.mode = l.mode
        /\ l.fields >= 5 => tree[p].perm.uid = Ids[l.user] /\ tree[p].perm.gid = Ids[l.group]
    BY <1>1, <1>4 DEF PathTrue
  <1>6. CASE NodeLine(l)
    <2>1. LastNumber(d, n, i, p)
      BY <1>1, <1>6 DEF LastNumber, LastMention, Renumbers
    <2>2. tree[p].kind = l.type /\ tree[p].dev = <<l.major, x[2] % (UINT_MAX + 1)>>
      BY <1>4, <2>1 DEF PathTrue
    <2>3. x[2] <= UINT_MAX => x[2] % (UINT_MAX + 1) = x[2]
      <3>1. x[2] \in Nat /\ UINT_MAX \in Nat
        BY MinorsAsked, IdsAssumption
      <3> QED BY <3>1, Remainder
    <2> QED BY <1>3, <1>5, <2>2, <2>3
  <1>7. CASE l.type = "d"
    BY <1>3, <1>5, <1>7
  <1>8. CASE l.type = "f"
    <2>1. p = l.name /\ ~NodeLine(l)
      BY <1>1, <1>8, OneName DEF Mentions, NodeLine
    <2>2. ASSUME NEW j \in 1 .. n
          PROVE  ~Renumbers(d[j], p)
      <3>1. CASE j \in 1 .. i - 1
        BY <1>8, <2>1, <3>1 DEF TreeTrue, FilesFirst
      <3>2. CASE j = i
        BY <2>1, <3>2 DEF Renumbers
      <3>3. CASE j \in i + 1 .. n
        BY <1>1, <3>3 DEF LastMention, Renumbers
      <3> QED BY <3>1, <3>2, <3>3
    <2>3. tree[p].kind \in {"d", "f"}
      BY <1>4, <2>2 DEF PathTrue
    <2>4. tree[p].kind # "d"
      BY <1>2, <1>8, <2>1 DEF Taken
    <2> QED BY <1>3, <1>5, <1>8, <2>3, <2>4
  <1> QED BY <1>2, <1>6, <1>7, <1>8 DEF Taken

\* A new fakeroot session has ordinary files and directories of root's.
LEMMA TreeBegins ==
    ASSUME NEW d
    PROVE  TreeTrue(d, 0, Faked)
  <1> DEFINE t == Faked
             old(p) == tree[p]
  <1>1. /\ t = [p \in DOMAIN t |-> t[p]] /\ DOMAIN t = DOMAIN tree
        /\ \A p \in DOMAIN t : t[p] = Entry(IF old(p).kind = "d" THEN "d" ELSE "f", Unnumbered,
                                             Perm(0, 0, old(p).perm.mode))
    BY DEF Faked
  <1>2. ASSUME NEW p \in DOMAIN t
        PROVE  /\ IsEntry(t[p]) /\ t[p].dev = Unnumbered /\ t[p].kind \in {"d", "f"}
               /\ t[p].perm.uid = 0 /\ t[p].perm.gid = 0
    <2> DEFINE k == IF old(p).kind = "d" THEN "d" ELSE "f"
               o == Perm(0, 0, old(p).perm.mode)
    <2>1. k \in {"d", "f"} /\ o.uid = 0 /\ o.gid = 0 /\ o = Perm(o.uid, o.gid, o.mode)
      BY DEF Perm
    <2>2. t[p] = Entry(k, Unnumbered, o)
      BY <1>1
    <2> HIDE DEF k, o, t
    <2>3. t[p].kind = k /\ t[p].dev = Unnumbered /\ t[p].perm = o
      BY <2>2 DEF Entry
    <2> QED BY <2>1, <2>2, <2>3 DEF IsEntry
  <1> HIDE DEF t
  <1>3. \A i \in 1 .. 0 : FALSE
    OBVIOUS
  <1>4. IsTree(t)
    BY <1>1, <1>2 DEF IsTree
  <1>5. \A p \in DOMAIN t : PathTrue(d, 0, t[p], p)
    BY <1>2, <1>3 DEF PathTrue
  <1>6. TreeTrue(d, 0, t)
    BY <1>3, <1>4, <1>5 DEF TreeTrue, FilesFirst
  <1> QED BY <1>6 DEF t


-----------------------------------------------------------------------------
(* The jobs of a make.                                                       *)

AllJobs == KernelJob \cup {"tar"} \cup Range(config.targets)

GivenInv ==
    /\ config \in Configs
    /\ IsList(asked.devices) /\ \A i \in DOMAIN asked.devices : IsDevice(asked.devices[i])

\* What a configuration has, one assumption at a time.
LEMMA ConfigIs ==
    ASSUME NEW c \in Configs
    PROVE  /\ c.kernel \in BOOLEAN /\ c.initramfs \in BOOLEAN /\ c.dtb \in BOOLEAN
           /\ c.goals \subseteq {"all", "linux", "rebuild", "menuconfig", "dirclean", "tar"}
           /\ \A d \in c.devices : IsList(d) /\ \A i \in DOMAIN d : IsDevice(d[i])
           /\ c.targets \in Seq(Range(c.targets)) /\ IsInjective(c.targets)
           /\ Range(c.targets) \cap (KernelJob \cup {"kernel"}) = {}
           /\ c.initramfs \/ c.dtb => c.kernel
           /\ c.initramfs <=> "rebuild" \in Range(c.targets)
           /\ \A k \in DOMAIN c.targets : c.targets[k] = "rebuild" =>
                 \E i \in 1 .. k - 1 : c.targets[i] = "cpio"
  <1>1. {c.kernel, c.initramfs, c.dtb} \subseteq BOOLEAN
    BY ConfigsAssumption
  <1>2. c.targets \in Seq(Range(c.targets))
    BY ConfigsAssumption DEF IsList
  <1> QED BY <1>1, <1>2, ConfigsAssumption

LEMMA ElementsIn ==
    ASSUME NEW S, NEW s \in Seq(S)
    PROVE  Range(s) \subseteq S /\ \A T : S \subseteq T => s \in Seq(T)
  <1>1. \A i \in DOMAIN s : s[i] \in S
    BY LenProperties, ElementOfSeq
  <1>2. \A T : S \subseteq T => s \in Seq(T)
    BY SeqMonotonic
  <1> QED BY <1>1, <1>2 DEF Range

\* What is done to the kernel before the images, if there is one.
KernelFirst(s) ==
    \/ s = <<"configure", "build", "install">>
    \/ /\ Len(s) = 4 /\ s[1] = "forget"
       /\ s[2] = "configure" /\ s[3] = "build" /\ s[4] = "install"

LEMMA LinuxJobsAre ==
    /\ LinuxJobs \in Seq(KernelJob) /\ <<"forget">> \o LinuxJobs \in Seq(KernelJob)
    /\ ~config.kernel => LinuxJobs = <<>> /\ <<"forget">> \o LinuxJobs = <<"forget">>
    /\ config.kernel => KernelFirst(LinuxJobs) /\ KernelFirst(<<"forget">> \o LinuxJobs)
  <1> DEFINE one == <<"forget">>
             three == <<"configure", "build", "install">>
  <1>1. <<>> \in Seq(KernelJob) /\ one \in Seq(KernelJob) /\ three \in Seq(KernelJob)
    BY DEF KernelJob
  <1>2. one \o <<>> = one
    BY <1>1, ConcatEmptySeq
  <1>3. /\ Len(one) = 1 /\ one[1] = "forget" /\ Len(three) = 3
        /\ three[1] = "configure" /\ three[2] = "build" /\ three[3] = "install"
    OBVIOUS
  <1>4. LinuxJobs = IF config.kernel THEN three ELSE <<>>
    BY DEF LinuxJobs
  <1> HIDE DEF one, three
  <1>5. /\ one \o three \in Seq(KernelJob) /\ Len(one \o three) = Len(one) + Len(three)
        /\ \A i \in 1 .. Len(one) + Len(three) :
              (one \o three)[i] = IF i <= Len(one) THEN one[i] ELSE three[i - Len(one)]
    BY <1>1, ConcatProperties
  <1>6. KernelFirst(three) /\ KernelFirst(one \o three)
    <2>1. KernelFirst(three)
      BY DEF KernelFirst, three
    <2>2. KernelFirst(one \o three)
      BY <1>3, <1>5 DEF KernelFirst
    <2> QED BY <2>1, <2>2
  <1>7. CASE config.kernel
    BY <1>1, <1>4, <1>5, <1>6, <1>7 DEF one
  <1>8. CASE ~config.kernel
    BY <1>1, <1>2, <1>4, <1>8 DEF one
  <1> QED BY <1>7, <1>8

\* The jobs of a goal are the kernel's, and then the targets.
World == goal \in {"all", "rebuild"} /\ outcome \in {"running", "ok"}
Goals == {"all", "linux", "rebuild", "menuconfig", "dirclean", "tar"}

JobParts(g, s, t) ==
    /\ s \in Seq(KernelJob) /\ t \in Seq(AllJobs) /\ Range(t) \cap KernelJob = {} /\ IsInjective(t)
    /\ Jobs[g] = s \o t
    /\ (\E x \in DOMAIN s : s[x] = "install") => KernelFirst(s)
    /\ \A k \in DOMAIN t : t[k] = "rebuild" => \E i \in 1 .. k - 1 : t[i] = "cpio"
    /\ g \in {"all", "rebuild"} => t = config.targets /\ (config.kernel => KernelFirst(s))

LEMMA JobsAre ==
    ASSUME config \in Configs, NEW g \in Goals
    PROVE  \E s, t : JobParts(g, s, t)
  <1>0. /\ Range(config.targets) \cap KernelJob = {} /\ IsInjective(config.targets)
        /\ \A k \in DOMAIN config.targets : config.targets[k] = "rebuild" =>
              \E i \in 1 .. k - 1 : config.targets[i] = "cpio"
        /\ config.targets \in Seq(AllJobs)
    <2>1. config.targets \in Seq(Range(config.targets)) /\ Range(config.targets) \subseteq AllJobs
      BY ConfigIs DEF AllJobs
    <2>2. config.targets \in Seq(AllJobs)
      BY <2>1, ElementsIn
    <2> QED BY <2>2, ConfigIs
  <1>1. /\ LinuxJobs \in Seq(KernelJob) /\ <<"forget">> \o LinuxJobs \in Seq(KernelJob)
        /\ config.kernel => KernelFirst(LinuxJobs) /\ KernelFirst(<<"forget">> \o LinuxJobs)
        /\ ~config.kernel => LinuxJobs = <<>> /\ <<"forget">> \o LinuxJobs = <<"forget">>
    BY LinuxJobsAre
  <1>2. \A x : ~(x \in DOMAIN <<>>)
    OBVIOUS
  <1>3. <<>> \in Seq(AllJobs) /\ Range(<<>>) = {} /\ <<>> \in Seq(KernelJob) /\ IsInjective(<<>>)
    BY DEF Range, IsInjective
  <1>4. CASE g = "all"
    <2>1. Jobs[g] = LinuxJobs \o config.targets
      BY <1>4 DEF Jobs
    <2>2. config.kernel \/ \A x \in DOMAIN LinuxJobs : FALSE
      BY <1>1, <1>2
    <2>3. JobParts(g, LinuxJobs, config.targets)
      BY <1>0, <1>1, <2>1, <2>2 DEF JobParts
    <2> QED BY <2>3
  <1>5. CASE g = "rebuild"
    <2> DEFINE s == <<"forget">> \o LinuxJobs
    <2>1. Jobs[g] = s \o config.targets
      BY <1>5 DEF Jobs
    <2>2. (\E x \in DOMAIN s : s[x] = "install") => config.kernel
      <3>1. CASE ~config.kernel
        <4>1. s = <<"forget">>
          BY <1>1, <3>1
        <4> QED BY <4>1
      <3> QED BY <3>1
    <2> HIDE DEF s
    <2>3. s \in Seq(KernelJob) /\ (config.kernel => KernelFirst(s))
      BY <1>1 DEF s
    <2>4. JobParts(g, s, config.targets)
      BY <1>0, <2>1, <2>2, <2>3 DEF JobParts
    <2> QED BY <2>4
  <1>6. CASE g = "linux"
    <2>1. LinuxJobs \o <<>> = LinuxJobs
      BY <1>1, ConcatEmptySeq
    <2>2. Jobs[g] = LinuxJobs
      BY <1>6 DEF Jobs
    <2>3. config.kernel \/ \A x \in DOMAIN LinuxJobs : FALSE
      BY <1>1, <1>2
    <2>4. JobParts(g, LinuxJobs, <<>>)
      BY <1>1, <1>2, <1>3, <1>6, <2>1, <2>2, <2>3 DEF JobParts
    <2> QED BY <2>4
  <1>7. CASE g = "menuconfig"
    <2> DEFINE s == <<"configure", "edit">>
    <2>1. Jobs[g] = s
      BY <1>7 DEF Jobs
    <2>2. s \in Seq(KernelJob) /\ \A x \in DOMAIN s : s[x] # "install"
      BY DEF KernelJob
    <2> HIDE DEF s
    <2>3. s \o <<>> = s
      BY <2>2, ConcatEmptySeq
    <2>4. JobParts(g, s, <<>>)
      BY <1>2, <1>3, <1>7, <2>1, <2>2, <2>3 DEF JobParts
    <2> QED BY <2>4
  <1>8. CASE g = "dirclean"
    <2> DEFINE s == <<"dirclean">>
    <2>1. Jobs[g] = s
      BY <1>8 DEF Jobs
    <2>2. s \in Seq(KernelJob) /\ \A x \in DOMAIN s : s[x] # "install"
      BY DEF KernelJob
    <2> HIDE DEF s
    <2>3. s \o <<>> = s
      BY <2>2, ConcatEmptySeq
    <2>4. JobParts(g, s, <<>>)
      BY <1>2, <1>3, <1>8, <2>1, <2>2, <2>3 DEF JobParts
    <2> QED BY <2>4
  <1>9. CASE g = "tar"
    <2> DEFINE t == <<"tar">>
    <2>1. Jobs[g] = t
      BY <1>9 DEF Jobs
    <2>2. t \in Seq(AllJobs) /\ IsInjective(t) /\ \A x \in DOMAIN t : t[x] = "tar"
      BY DEF AllJobs, IsInjective
    <2> HIDE DEF t
    <2>3. <<>> \o t = t
      BY <2>2, ConcatEmptySeq
    <2>4. Range(t) \cap KernelJob = {}
      <3>1. "tar" \notin KernelJob
        BY DEF KernelJob
      <3> QED BY <2>2, <3>1 DEF Range
    <2>5. JobParts(g, <<>>, t)
      BY <1>2, <1>3, <1>9, <2>1, <2>2, <2>3, <2>4 DEF JobParts
    <2> QED BY <2>5
  <1> QED BY <1>4, <1>5, <1>6, <1>7, <1>8, <1>9 DEF Goals


Undoes == {"forget", "edit", "dirclean"}

\* The kernel is compiled before it is installed, and after that linked with the images.
BuiltFirst(s, x) == \E y \in 1 .. x - 1 : s[y] = "build" /\ \A z \in y .. x : s[z] \notin Undoes
LastInstall(s, x) == s[x] = "install" /\ \A z \in DOMAIN s : z > x => s[z] \notin Undoes
LinkedLast(s, x) ==
    /\ \A y \in DOMAIN s : y > x => s[y] \notin KernelJob \cup {"cpio"}
    /\ \E y \in 1 .. x - 1 : s[y] = "cpio"

\* A row of jobs: its kernel part, and behind it the others.
LEMMA JobsApart ==
    ASSUME NEW g, NEW s, NEW t, JobParts(g, s, t), NEW j, j = Jobs[g]
    PROVE  /\ j \in Seq(AllJobs) /\ Len(s) \in Nat /\ Len(t) \in Nat
           /\ Len(j) = Len(s) + Len(t) /\ DOMAIN j = 1 .. Len(j)
           /\ \A x \in 1 .. Len(s) : x \in DOMAIN j /\ j[x] = s[x]
           /\ \A x \in 1 .. Len(t) : Len(s) + x \in DOMAIN j /\ j[Len(s) + x] = t[x]
           /\ \A x \in DOMAIN j : x \in 1 .. Len(s) \/ x - Len(s) \in 1 .. Len(t)
           /\ \A x \in 1 .. Len(t) : t[x] \notin KernelJob
  <1>1. s \in Seq(AllJobs) /\ t \in Seq(AllJobs)
    <2>1. KernelJob \subseteq AllJobs
      BY DEF AllJobs
    <2> QED BY <2>1, ElementsIn DEF JobParts
  <1>2. j = s \o t
    BY DEF JobParts
  <1>3. /\ j \in Seq(AllJobs) /\ Len(j) = Len(s) + Len(t)
        /\ \A x \in 1 .. Len(s) + Len(t) : j[x] = IF x <= Len(s) THEN s[x] ELSE t[x - Len(s)]
    BY <1>1, <1>2, ConcatProperties
  <1>4. /\ Len(s) \in Nat /\ Len(t) \in Nat /\ DOMAIN j = 1 .. Len(j)
        /\ DOMAIN t = 1 .. Len(t)
    BY <1>1, <1>3, LenProperties
  <1>5. \A x \in 1 .. Len(t) : t[x] \notin KernelJob
    BY <1>4 DEF JobParts, Range
  <1> DEFINE m == Len(s)
             n == Len(t)
  <1>6. m \in Nat /\ n \in Nat /\ Len(j) = m + n /\ DOMAIN j = 1 .. m + n
    BY <1>3, <1>4
  <1>7. \A x \in 1 .. m + n : j[x] = IF x <= m THEN s[x] ELSE t[x - m]
    BY <1>3
  <1> HIDE DEF m, n
  <1>8. \A x \in 1 .. n : m + x - m = x /\ ~(m + x <= m) /\ m + x \in 1 .. m + n
    BY <1>6
  <1>9. \A x \in 1 .. n : m + x \in DOMAIN j /\ j[m + x] = t[x]
    BY <1>6, <1>7, <1>8
  <1>10. /\ \A x \in 1 .. m : x \in DOMAIN j /\ j[x] = s[x]
         /\ \A x \in DOMAIN j : x \in 1 .. m \/ x - m \in 1 .. n
    BY <1>6, <1>7
  <1> QED BY <1>3, <1>4, <1>5, <1>9, <1>10 DEF m, n

LEMMA JobsOrdered ==
    ASSUME NEW g, NEW s, NEW t, JobParts(g, s, t), NEW j, j = Jobs[g]
    PROVE  /\ \A x \in DOMAIN j : j[x] = "install" => BuiltFirst(j, x)
           /\ g \in {"all", "rebuild"} /\ config.kernel => \E x \in DOMAIN j : LastInstall(j, x)
           /\ \A x \in DOMAIN j : j[x] = "rebuild" => LinkedLast(j, x)
           /\ g \in {"all", "rebuild"} => Range(config.targets) \subseteq Range(j)
  <1>1. /\ Len(s) \in Nat /\ Len(t) \in Nat
        /\ Len(j) = Len(s) + Len(t) /\ DOMAIN j = 1 .. Len(j)
        /\ \A x \in 1 .. Len(s) : x \in DOMAIN j /\ j[x] = s[x]
        /\ \A x \in 1 .. Len(t) : Len(s) + x \in DOMAIN j /\ j[Len(s) + x] = t[x]
        /\ \A x \in DOMAIN j : x \in 1 .. Len(s) \/ x - Len(s) \in 1 .. Len(t)
        /\ \A x \in 1 .. Len(t) : t[x] \notin KernelJob
    BY JobsApart
  <1>2. DOMAIN s = 1 .. Len(s) /\ DOMAIN t = 1 .. Len(t) /\ \A x \in DOMAIN s : s[x] \in KernelJob
    <2>1. s \in Seq(KernelJob) /\ t \in Seq(AllJobs)
      BY DEF JobParts
    <2> QED BY <2>1, LenProperties, ElementOfSeq
  <1>3. \A x \in DOMAIN j : j[x] \in KernelJob => x \in 1 .. Len(s) /\ j[x] = s[x]
    BY <1>1
  <1>4. \A x \in DOMAIN j : j[x] \notin KernelJob =>
           x > Len(s) /\ x - Len(s) \in 1 .. Len(t) /\ j[x] = t[x - Len(s)]
    BY <1>1, <1>2
  <1>5. "install" \in KernelJob /\ "build" \in KernelJob /\ Undoes \subseteq KernelJob
        /\ "configure" \notin Undoes /\ "install" \notin Undoes /\ "build" \notin Undoes
    BY DEF KernelJob, Undoes
  <1>6. KernelFirst(s) => \E n \in 2 .. Len(s) :
           /\ n = Len(s) /\ n \in DOMAIN j /\ n - 1 \in DOMAIN j
           /\ j[n] = "install" /\ j[n - 1] = "build"
           /\ \A x \in 1 .. n - 1 : j[x] # "install"
    <2>1. CASE s = <<"configure", "build", "install">>
      <3>1. Len(s) = 3 /\ s[1] = "configure" /\ s[2] = "build" /\ s[3] = "install"
        BY <2>1
      <3>2. \A x \in 1 .. 2 : x = 1 \/ x = 2
        OBVIOUS
      <3> QED BY <1>1, <3>1, <3>2
    <2>2. CASE /\ Len(s) = 4 /\ s[1] = "forget"
               /\ s[2] = "configure" /\ s[3] = "build" /\ s[4] = "install"
      <3>1. \A x \in 1 .. 3 : x = 1 \/ x = 2 \/ x = 3
        OBVIOUS
      <3> QED BY <1>1, <2>2, <3>1
    <2> QED BY <2>1, <2>2 DEF KernelFirst
  <1>7. ASSUME NEW x \in DOMAIN j, j[x] = "install"
        PROVE  BuiltFirst(j, x)
    <2>1. x \in 1 .. Len(s) /\ s[x] = "install"
      BY <1>3, <1>5, <1>7
    <2>2. KernelFirst(s)
      BY <1>2, <2>1 DEF JobParts
    <2>3. PICK n \in 2 .. Len(s) :
             /\ n = Len(s) /\ j[n] = "install" /\ j[n - 1] = "build"
             /\ \A y \in 1 .. n - 1 : j[y] # "install"
      BY <1>6, <2>2
    <2>4. x = n /\ n - 1 \in 1 .. x - 1
      BY <1>1, <1>7, <2>1, <2>3
    <2>5. \A z \in n - 1 .. n : z = n \/ z = n - 1
      BY <2>3
    <2> QED BY <1>5, <2>3, <2>4, <2>5 DEF BuiltFirst
  <1>8. ASSUME g \in {"all", "rebuild"}, config.kernel
        PROVE  \E x \in DOMAIN j : LastInstall(j, x)
    <2>1. KernelFirst(s)
      BY <1>8 DEF JobParts
    <2>2. PICK n \in 2 .. Len(s) : n = Len(s) /\ n \in DOMAIN j /\ j[n] = "install"
      BY <1>6, <2>1
    <2>3. \A z \in DOMAIN j : z > n => j[z] \notin KernelJob
      BY <1>1, <1>3, <2>2
    <2> QED BY <1>5, <2>2, <2>3 DEF LastInstall
  <1>9. ASSUME NEW x \in DOMAIN j, j[x] = "rebuild"
        PROVE  LinkedLast(j, x)
    <2>1. "rebuild" \notin KernelJob /\ "cpio" \notin KernelJob
      BY DEF KernelJob
    <2>2. x > Len(s) /\ x - Len(s) \in 1 .. Len(t) /\ t[x - Len(s)] = "rebuild"
      BY <1>4, <1>9, <2>1
    <2>3. PICK i \in 1 .. x - Len(s) - 1 : t[i] = "cpio"
      BY <1>2, <2>2 DEF JobParts
    <2>4. \A y \in DOMAIN j : y > x => j[y] # "cpio"
      <3> SUFFICES ASSUME NEW y \in DOMAIN j, y > x, j[y] = "cpio" PROVE FALSE
        OBVIOUS
      <3>1. y - Len(s) \in 1 .. Len(t) /\ t[y - Len(s)] = "cpio"
        BY <1>4, <2>1
      <3>2. i \in 1 .. Len(t) /\ i # y - Len(s)
        BY <1>1, <2>2, <2>3
      <3>3. IsInjective(t)
        BY DEF JobParts
      <3> QED BY <1>2, <2>3, <3>1, <3>2, <3>3 DEF IsInjective
    <2>5. \A y \in DOMAIN j : y > x => j[y] \notin KernelJob
      <3> SUFFICES ASSUME NEW y \in DOMAIN j, y > x, j[y] \in KernelJob PROVE FALSE
        OBVIOUS
      <3>1. y \in 1 .. Len(s)
        BY <1>3
      <3> QED BY <1>1, <2>2, <3>1
    <2>6. Len(s) + i \in 1 .. x - 1 /\ j[Len(s) + i] = "cpio"
      <3>1. i \in 1 .. Len(t) /\ Len(s) + i \in 1 .. x - 1
        BY <1>1, <2>2, <2>3
      <3> QED BY <1>1, <2>3, <3>1
    <2> QED BY <2>4, <2>5, <2>6 DEF LinkedLast
  <1>10. ASSUME g \in {"all", "rebuild"}
         PROVE  Range(config.targets) \subseteq Range(j)
    <2>1. t = config.targets
      BY <1>10 DEF JobParts
    <2>2. \A x \in DOMAIN t : \E y \in DOMAIN j : j[y] = t[x]
      BY <1>1, <1>2
    <2> QED BY <2>1, <2>2 DEF Range
  <1> QED BY <1>7, <1>8, <1>9, <1>10


KernelSteps ==
    \/ \E j \in LinuxJob : UpToDateJob(j)
    \/ Configure \/ Build \/ Install \/ Rebuild \/ Forget \/ Dirclean

\* make has come to a job of the kernel, and goes on to the next one.
KernelJobDone ==
    /\ outcome = "running" /\ jobs # <<>> /\ at = ""
    /\ jobs' = Tail(jobs) /\ Kept /\ UNCHANGED <<outcome, at, warning, mishaps>>
    /\ Head(jobs) \in LinuxJob \cup Undoes
    /\ Head(jobs) \notin Undoes => stamps \subseteq stamps'
    /\ Head(jobs) \in LinuxJob => Head(jobs) \in stamps'
    /\ remade \subseteq remade'
    /\ DOMAIN binaries' = DOMAIN binaries
    /\ \A i \in DOMAIN binaries : i # "kernel" =>
          \/ binaries'[i] = binaries[i]
          \/ Head(jobs) = "configure" /\ i = "cpio" /\ binaries[i].kind = "none"
    /\ Head(jobs) \notin {"install", "rebuild"} => binaries'["kernel"] = binaries["kernel"]

LEMMA KernelJobs ==
    LinuxJob = {"configure", "build", "install", "rebuild"}
  BY DEF LinuxJob, Prerequisites

LEMMA RunsEffect ==
    ASSUME NEW j \in LinuxJob, Runs(j)
    PROVE  /\ outcome = "running" /\ jobs # <<>> /\ at = "" /\ Head(jobs) = j
           /\ jobs' = Tail(jobs) /\ Kept /\ UNCHANGED <<outcome, at, warning, mishaps>>
           /\ stamps' = stamps \cup {j} /\ remade' = remade \cup {j}
  BY DEF Runs, Comes, Next1

LEMMA KernelStepDone ==
    ASSUME KernelSteps
    PROVE  KernelJobDone
  <1>0. LinuxJob \cap Undoes = {}
    BY KernelJobs DEF Undoes
  <1>1. ASSUME NEW j \in LinuxJob, UpToDateJob(j)
        PROVE  KernelJobDone
    <2>1. j \in stamps
      BY <1>1 DEF UpToDateJob, OutOfDate
    <2> QED BY <1>1, <2>1 DEF UpToDateJob, Comes, Next1, KernelJobDone
  <1>2. CASE Configure
    <2>1. Runs("configure") /\ "configure" \in LinuxJob
      BY <1>2, KernelJobs DEF Configure
    <2>2. binaries' = IF config.initramfs /\ binaries["cpio"].kind = "none"
                      THEN [binaries EXCEPT !["cpio"].kind = "empty"] ELSE binaries
      BY <1>2 DEF Configure
    <2>3. /\ DOMAIN binaries' = DOMAIN binaries /\ binaries'["kernel"] = binaries["kernel"]
          /\ \A i \in DOMAIN binaries : i # "kernel" =>
                \/ binaries'[i] = binaries[i]
                \/ i = "cpio" /\ binaries[i].kind = "none"
      BY <2>2
    <2> QED BY <2>1, <2>3, RunsEffect DEF KernelJobDone
  <1>3. CASE Build
    <2>1. Runs("build") /\ "build" \in LinuxJob /\ binaries' = binaries
      BY <1>3, KernelJobs DEF Build
    <2> QED BY <2>1, RunsEffect DEF KernelJobDone
  <1>4. ASSUME NEW z, CopyKernel(z)
        PROVE  /\ DOMAIN binaries' = DOMAIN binaries
               /\ \A i \in DOMAIN binaries : i # "kernel" => binaries'[i] = binaries[i]
    BY <1>4 DEF CopyKernel
  <1>5. CASE Install
    <2>1. Runs("install") /\ "install" \in LinuxJob /\ CopyKernel(zImage)
      BY <1>5, KernelJobs DEF Install
    <2> QED BY <1>4, <2>1, RunsEffect DEF KernelJobDone
  <1>6. CASE Rebuild
    <2>1. Runs("rebuild") /\ "rebuild" \in LinuxJob /\ CopyKernel(zImage')
      BY <1>6, KernelJobs DEF Rebuild
    <2> QED BY <1>4, <2>1, RunsEffect DEF KernelJobDone
  <1>7. CASE Forget
    <2>1. Head(jobs) \in Undoes /\ jobs # <<>> /\ at = "" /\ outcome = "running"
      BY <1>7 DEF Forget, Comes, Undoes
    <2> QED BY <1>0, <1>7, <2>1 DEF Forget, Next1, KernelJobDone
  <1>8. CASE Dirclean
    <2>1. Head(jobs) \in Undoes /\ jobs # <<>> /\ at = "" /\ outcome = "running"
      BY <1>8 DEF Dirclean, Comes, Undoes
    <2> QED BY <1>0, <1>8, <2>1 DEF Dirclean, Next1, KernelJobDone
  <1> QED BY <1>1, <1>2, <1>3, <1>5, <1>6, <1>7, <1>8 DEF KernelSteps

\* A recipe fails or is interrupted; under fakeroot, the image may be lost.
Broken ==
    /\ outcome' = "failed" /\ jobs' = <<>> /\ at' = ""
    /\ UNCHANGED <<config, asked, makes, goal, stamps, zImage, warning, remade>>
    /\ \/ binaries' = binaries
       \/ \E b : binaries' = [binaries EXCEPT ![Head(jobs)] = b] /\ at = "fakeroot"

\* An image is whole.
Archived ==
    /\ at = "fakeroot" /\ Ended /\ at' = "restore"
    /\ Kept /\ UNCHANGED <<outcome, jobs, remade, stamps, zImage, warning, mishaps>>
    /\ binaries' = [binaries EXCEPT ![Head(jobs)] =
           [kind |-> "whole", make |-> makes, passwd |-> passwd, group |-> group,
            tree |-> tree, devs |-> devs, warning |-> warning]]

LEMMA BrokenSteps ==
    ASSUME LinuxFails \/ UsersFail \/ Interrupt \/ Archive
    PROVE  Broken \/ Archived
  <1>1. CASE LinuxFails
    BY <1>1 DEF LinuxFails, Stops, Kept, Broken
  <1>2. CASE UsersFail
    BY <1>2 DEF UsersFail, Stops, Kept, Broken
  <1>3. CASE Interrupt
    <2>1. binaries' \in {binaries, [binaries EXCEPT ![Head(jobs)] = Blank]}
      BY <1>3 DEF Interrupt
    <2> QED BY <1>3, <2>1 DEF Interrupt, Stops, Broken
  <1>4. CASE Archive
    <2> DEFINE b(k) == [kind |-> k, make |-> makes, passwd |-> passwd, group |-> group,
                        tree |-> tree, devs |-> devs, warning |-> warning]
    <2>1. at = "fakeroot" /\ Ended /\ Kept /\ UNCHANGED <<remade, stamps, zImage, warning>>
      BY <1>4 DEF Archive
    <2>2. PICK kind \in {"whole", "part"} :
             /\ binaries' = [binaries EXCEPT ![Head(jobs)] = b(kind)]
             /\ IF kind = "whole"
                THEN at' = "restore" /\ UNCHANGED <<mishaps, outcome, jobs>>
                ELSE mishaps < config.mishaps /\ mishaps' = mishaps + 1 /\ Stops
      BY <1>4 DEF Archive
    <2> HIDE DEF b
    <2>3. CASE kind = "whole"
      <3>1. b("whole") = [kind |-> "whole", make |-> makes, passwd |-> passwd, group |-> group,
                          tree |-> tree, devs |-> devs, warning |-> warning]
        BY DEF b
      <3> QED BY <2>1, <2>2, <2>3, <3>1 DEF Archived
    <2>4. CASE kind # "whole"
      BY <2>1, <2>2, <2>4 DEF Broken, Stops, Kept
    <2> QED BY <2>3, <2>4
  <1> QED BY <1>1, <1>2, <1>3, <1>4

LEMMA ImageSteps ==
    ASSUME ImageNext
    PROVE  \/ \E g \in config.goals, t \in config.users, d \in config.devices : MakeStarts(g, t, d)
           \/ KernelJobDone /\ KernelSteps
           \/ MakeEnds \/ Broken \/ Archived
           \/ Prepare \/ EnterUsers \/ Fakeroot \/ MakeNodes \/ Restore
  <1>1. KernelSteps => KernelJobDone
    BY KernelStepDone
  <1>2. LinuxFails \/ UsersFail \/ Interrupt \/ Archive => Broken \/ Archived
    BY BrokenSteps
  <1> QED BY <1>1, <1>2 DEF ImageNext, KernelSteps


ControlInv ==
    /\ jobs \in Seq(AllJobs)
    /\ at \in {"", "users", "fakeroot", "restore"}
    /\ at # "" => outcome = "running" /\ jobs # <<>> /\ Head(jobs) \in ImageNames
    /\ outcome # "running" => jobs = <<>>
    /\ DOMAIN binaries = {"kernel"} \cup ImageNames

LEMMA GivenStarts == ImageInit => GivenInv
  <1> SUFFICES ASSUME ImageInit PROVE GivenInv
    OBVIOUS
  <1>1. config \in Configs /\ asked.devices = <<>>
    BY DEF ImageInit
  <1>2. IsList(<<>>) /\ \A i \in DOMAIN <<>> : FALSE
    BY DEF IsList
  <1> QED BY <1>1, <1>2 DEF GivenInv

LEMMA GivenStays ==
    ASSUME GivenInv, [ImageNext]_ivars
    PROVE  GivenInv'
  <1>1. ASSUME config' = config, asked' = asked
        PROVE  GivenInv'
    BY <1>1 DEF GivenInv
  <1>2. CASE UNCHANGED ivars
    BY <1>1, <1>2 DEF ivars, makevars
  <1>3. ASSUME NEW g \in config.goals, NEW t \in config.users, NEW d \in config.devices,
               MakeStarts(g, t, d)
        PROVE  GivenInv'
    <2>1. config' = config /\ asked'.devices = d
      BY <1>3 DEF MakeStarts
    <2>2. IsList(d) /\ \A i \in DOMAIN d : IsDevice(d[i])
      BY ConfigIs DEF GivenInv
    <2> QED BY <2>1, <2>2 DEF GivenInv
  <1>4. CASE MakeEnds
    BY <1>1, <1>4 DEF MakeEnds
  <1>5. CASE KernelJobDone \/ Archived \/ Restore
    BY <1>1, <1>5 DEF KernelJobDone, Archived, Restore, Kept
  <1>6. CASE Broken
    BY <1>1, <1>6 DEF Broken
  <1>7. CASE Prepare \/ Fakeroot
    BY <1>1, <1>7 DEF Prepare, Fakeroot
  <1>8. CASE EnterUsers \/ MakeNodes
    BY <1>1, <1>8 DEF EnterUsers, MakeNodes, makevars
  <1> QED BY <1>2, <1>3, <1>4, <1>5, <1>6, <1>7, <1>8, ImageSteps

LEMMA ControlStarts == ImageInit => ControlInv
  <1>1. ImageInit => jobs = <<>> /\ at = "" /\ DOMAIN binaries = {"kernel"} \cup ImageNames
    BY DEF ImageInit
  <1>2. <<>> \in Seq(AllJobs)
    OBVIOUS
  <1> QED BY <1>1, <1>2 DEF ControlInv

LEMMA ControlStays ==
    ASSUME GivenInv, ControlInv, [ImageNext]_ivars
    PROVE  ControlInv'
  <1>0. jobs \in Seq(AllJobs) /\ DOMAIN binaries = {"kernel"} \cup ImageNames
    BY DEF ControlInv
  <1>1. config' = config => AllJobs' = AllJobs /\ ImageNames' = ImageNames
    BY DEF AllJobs, ImageNames
  <1>2. jobs # <<>> => Tail(jobs) \in Seq(AllJobs)
    BY <1>0, HeadTailProperties
  <1>3. \A b : DOMAIN [binaries EXCEPT ![Head(jobs)] = b] = DOMAIN binaries
    OBVIOUS
  <1>4. <<>> \in Seq(AllJobs)
    OBVIOUS
  <1>5. CASE UNCHANGED ivars
    BY <1>1, <1>5 DEF ivars, makevars, ControlInv
  <1>6. ASSUME NEW g \in config.goals, NEW t \in config.users, NEW d \in config.devices,
               MakeStarts(g, t, d)
        PROVE  ControlInv'
    <2>1. g \in Goals
      BY ConfigIs DEF GivenInv, Goals
    <2>2. PICK r, s : JobParts(g, r, s)
      BY <2>1, JobsAre DEF GivenInv
    <2>3. Jobs[g] \in Seq(AllJobs)
      BY <2>2, JobsApart
    <2>4. /\ config' = config /\ outcome' = "running" /\ jobs' = Jobs[g]
          /\ at' = at /\ binaries' = binaries /\ outcome # "running"
      BY <1>6 DEF MakeStarts
    <2> QED BY <1>1, <2>3, <2>4 DEF ControlInv
  <1>7. CASE MakeEnds
    BY <1>1, <1>4, <1>7 DEF MakeEnds, ControlInv
  <1>8. CASE KernelJobDone
    BY <1>1, <1>2, <1>8 DEF KernelJobDone, Kept, ControlInv
  <1>9. CASE Broken
    BY <1>1, <1>3, <1>4, <1>9 DEF Broken, ControlInv
  <1>10. CASE Archived
    BY <1>1, <1>3, <1>10 DEF Archived, Kept, ControlInv
  <1>11. CASE Restore
    BY <1>1, <1>2, <1>11 DEF Restore, Next1, Kept, ControlInv
  <1>12. CASE Prepare
    BY <1>1, <1>12 DEF Prepare, Generating, ControlInv
  <1>13. CASE Fakeroot
    BY <1>1, <1>13 DEF Fakeroot, ControlInv
  <1>14. CASE EnterUsers \/ MakeNodes
    BY <1>1, <1>14 DEF EnterUsers, MakeNodes, makevars, ControlInv
  <1> QED
    BY <1>5, <1>6, <1>7, <1>8, <1>9, <1>10, <1>11, <1>12, <1>13, <1>14, ImageSteps


-----------------------------------------------------------------------------
(* makedevs in a make.                                                       *)

\* The lines u are those of d after the first n.
Rest(d, n, u) ==
    /\ u \in Seq(Range(d)) /\ n \in 0 .. Len(d) /\ Len(u) = Len(d) - n
    /\ \A k \in 1 .. Len(u) : u[k] = d[n + k]

AreDevices(d) ==
    /\ d \in Seq(Range(d)) /\ Len(d) \in Nat /\ DOMAIN d = 1 .. Len(d)
    /\ \A i \in DOMAIN d : IsDevice(d[i])

LEMMA AskedDevices ==
    ASSUME GivenInv
    PROVE  AreDevices(asked.devices)
  <1>1. asked.devices \in Seq(Range(asked.devices))
    BY DEF GivenInv, IsList
  <1>2. Len(asked.devices) \in Nat /\ DOMAIN asked.devices = 1 .. Len(asked.devices)
    BY <1>1, LenProperties
  <1> QED BY <1>1, <1>2 DEF GivenInv, AreDevices

LEMMA RestFalls ==
    ASSUME NEW d, AreDevices(d), NEW n, NEW u, Rest(d, n, u), u # <<>>
    PROVE  /\ n \in Nat /\ n + 1 \in 1 .. Len(d) /\ Rest(d, n + 1, Tail(u)) /\ IsDevice(d[n + 1])
           /\ \A l : (\E i \in DOMAIN u \cap {1} : l = u[i]) => l = d[n + 1]
  <1>1. u \in Seq(Range(d)) /\ Len(u) = Len(d) - n /\ n \in 0 .. Len(d) /\ Len(d) \in Nat
        /\ \A k \in 1 .. Len(u) : u[k] = d[n + k]
    BY DEF Rest, AreDevices
  <1>2. Len(u) \in Nat /\ Len(u) # 0 /\ DOMAIN u = 1 .. Len(u)
    BY <1>1, LenProperties, EmptySeq
  <1>3. /\ Tail(u) \in Seq(Range(d)) /\ Len(Tail(u)) = Len(u) - 1
        /\ \A k \in 1 .. Len(Tail(u)) : Tail(u)[k] = u[k + 1]
    BY <1>1, HeadTailProperties
  <1>4. n \in Nat /\ n + 1 \in 1 .. Len(d) /\ n + 1 \in 0 .. Len(d)
        /\ Len(Tail(u)) = Len(d) - (n + 1)
    BY <1>1, <1>2, <1>3
  <1>5. ASSUME NEW k \in 1 .. Len(Tail(u))
        PROVE  Tail(u)[k] = d[n + 1 + k]
    <2>1. k + 1 \in 1 .. Len(u) /\ n + (k + 1) = n + 1 + k
      BY <1>1, <1>2, <1>3
    <2> QED BY <1>1, <1>3, <2>1
  <1>6. u[1] = d[n + 1]
    BY <1>1, <1>2
  <1> QED BY <1>3, <1>4, <1>5, <1>6 DEF Rest, AreDevices

LEMMA RestEnds ==
    ASSUME NEW d, AreDevices(d), NEW n, Rest(d, n, <<>>)
    PROVE  n = Len(d)
  <1> DEFINE m == Len(d)
  <1>1. Len(<<>>) = 0 /\ Len(<<>>) = m - n /\ n \in 0 .. m /\ m \in Nat
    BY DEF Rest, AreDevices
  <1> HIDE DEF m
  <1>2. n = m
    BY <1>1
  <1> QED BY <1>2 DEF m

\* makedevs takes one line of d, or ends.
LEMMA MakedevsStep ==
    ASSUME NEW d, AreDevices(d), NEW n, Rest(d, n, unread), devs \in {"reading", "ok"}, MakedevsNext
    PROVE  /\ devs = "reading"
           /\ \/ Exits
              \/ \E l : /\ l = d[n + 1] /\ n \in Nat /\ n + 1 \in 1 .. Len(d) /\ IsDevice(l)
                        /\ \/ Dies(l)
                           \/ /\ SkipLine(l) \/ TakeDirectory(l) \/ TakeFile(l)
                                 \/ TakeNodes(l) \/ TakeOther(l)
                              /\ Rest(d, n + 1, unread')
  <1>1. CASE Exits
    BY <1>1 DEF Exits
  <1>2. ASSUME NEW l \in {unread[i] : i \in DOMAIN unread \cap {1}},
               \/ SkipLine(l) \/ Dies(l) \/ TakeDirectory(l) \/ TakeFile(l)
               \/ TakeNodes(l) \/ TakeOther(l)
        PROVE  /\ devs = "reading" /\ l = d[n + 1]
               /\ n \in Nat /\ n + 1 \in 1 .. Len(d) /\ IsDevice(l)
               /\ Dies(l) \/ Rest(d, n + 1, unread')
    <2>1. Is(l)
      BY <1>2 DEF SkipLine, Dies, TakeDirectory, TakeFile, TakeNodes, TakeOther, Takes
    <2>2. unread # <<>> /\ devs = "reading"
      BY <2>1 DEF Is
    <2>3. Dies(l) \/ unread' = Tail(unread)
      BY <1>2 DEF SkipLine, TakeDirectory, TakeFile, TakeNodes, TakeOther, Takes, Read
    <2>4. \E i \in DOMAIN unread \cap {1} : l = unread[i]
      BY <1>2
    <2>5. /\ n \in Nat /\ n + 1 \in 1 .. Len(d) /\ Rest(d, n + 1, Tail(unread)) /\ IsDevice(d[n + 1])
          /\ \A k : (\E i \in DOMAIN unread \cap {1} : k = unread[i]) => k = d[n + 1]
      BY <2>2, RestFalls
    <2>6. l = d[n + 1]
      BY <2>4, <2>5
    <2>7. Dies(l) \/ Rest(d, n + 1, unread')
      <3>1. CASE unread' = Tail(unread)
        BY <2>5, <3>1
      <3> QED BY <2>3, <3>1
    <2> QED BY <2>2, <2>5, <2>6, <2>7
  <1>3. CASE ~Exits
    <2>1. PICK l \in {unread[i] : i \in DOMAIN unread \cap {1}} :
             \/ SkipLine(l) \/ Dies(l) \/ TakeDirectory(l) \/ TakeFile(l)
             \/ TakeNodes(l) \/ TakeOther(l)
      BY <1>3, Zenon DEF MakedevsNext
    <2>2. /\ devs = "reading" /\ l = d[n + 1]
          /\ n \in Nat /\ n + 1 \in 1 .. Len(d) /\ IsDevice(l)
          /\ Dies(l) \/ Rest(d, n + 1, unread')
      BY <1>2, <2>1
    <2>3. \/ Dies(l)
          \/ /\ SkipLine(l) \/ TakeDirectory(l) \/ TakeFile(l)
                \/ TakeNodes(l) \/ TakeOther(l)
             /\ Rest(d, n + 1, unread')
      BY <2>1, <2>2
    <2> QED BY <2>2, <2>3
  <1> QED BY <1>1, <1>3

\* A line that is taken without complaint does what it asks for.
LEMMA LineDoes ==
    ASSUME NEW l, IsDevice(l), IsTree(tree), devs = "reading", devs' # "failed",
           \/ SkipLine(l) \/ TakeDirectory(l) \/ TakeFile(l) \/ TakeNodes(l) \/ TakeOther(l)
    PROVE  \/ Counts(l) /\ Known(l) /\ (NodeLine(l) \/ l.type \in {"d", "f"}) /\ Does(l)
           \/ ~Counts(l) /\ (l.fields = 0 \/ l.comment) /\ tree' = tree
  <1>1. CASE SkipLine(l)
    <2>1. l.comment \in BOOLEAN
      BY DEF IsDevice
    <2> QED BY <1>1, <2>1 DEF SkipLine, Complains
  <1>2. CASE TakeDirectory(l)
    BY <1>2, DirectoryDoes DEF TakeDirectory, Takes
  <1>3. CASE TakeFile(l)
    BY <1>3, FileDoes DEF TakeFile, Takes
  <1>4. CASE TakeNodes(l)
    BY <1>4, NodesDo DEF TakeNodes, Takes, NodeLine
  <1>5. CASE TakeOther(l)
    BY <1>5 DEF TakeOther, Complains
  <1> QED BY <1>1, <1>2, <1>3, <1>4, <1>5


\* While makedevs has nothing to complain of, the files are what the lines that it
\* has taken make of them.
HasTaken == Len(asked.devices) - Len(unread)
Going == at = "fakeroot" /\ devs \in {"reading", "ok"}
NodesInv ==
    Going =>
        /\ Rest(asked.devices, HasTaken, unread)
        /\ devs = "ok" => unread = <<>>
        /\ TreeTrue(asked.devices, HasTaken, tree)

LEMMA HasTakenIs ==
    ASSUME NEW d, AreDevices(d), NEW n, NEW u, Rest(d, n, u)
    PROVE  Len(d) - Len(u) = n
  <1> DEFINE m == Len(d)
             k == Len(u)
  <1>1. n \in 0 .. m /\ k = m - n /\ m \in Nat
    BY DEF Rest, AreDevices
  <1> HIDE DEF m, k
  <1>2. m - k = n
    BY <1>1
  <1> QED BY <1>2 DEF m, k

LEMMA RestBegins ==
    ASSUME NEW d, AreDevices(d)
    PROVE  Rest(d, 0, d)
  <1> DEFINE m == Len(d)
  <1>1. d \in Seq(Range(d)) /\ m \in Nat
    BY DEF AreDevices
  <1>2. 0 \in 0 .. m /\ m - 0 = m /\ \A k \in 1 .. m : 0 + k = k
    BY <1>1
  <1> QED BY <1>1, <1>2 DEF Rest

LEMMA NodesStep ==
    ASSUME NEW d, AreDevices(d), NEW n, Rest(d, n, unread), TreeTrue(d, n, tree),
           devs \in {"reading", "ok"}, devs = "ok" => unread = <<>>,
           MakedevsNext, devs' \in {"reading", "ok"}
    PROVE  \E m : Rest(d, m, unread') /\ TreeTrue(d, m, tree') /\ (devs' = "ok" => unread' = <<>>)
  <1>1. CASE Exits
    BY <1>1 DEF Exits
  <1>2. CASE ~Exits
    <2>1. PICK l : /\ l = d[n + 1] /\ n \in Nat /\ n + 1 \in 1 .. Len(d) /\ IsDevice(l)
                   /\ \/ Dies(l)
                      \/ /\ SkipLine(l) \/ TakeDirectory(l) \/ TakeFile(l)
                            \/ TakeNodes(l) \/ TakeOther(l)
                         /\ Rest(d, n + 1, unread')
      BY <1>2, MakedevsStep
    <2>2. ~Dies(l)
      BY DEF Dies
    <2>3. devs = "reading"
      BY MakedevsStep
    <2>4. IsTree(tree)
      BY DEF TreeTrue
    <2>5. \/ Counts(l) /\ Known(l) /\ (NodeLine(l) \/ l.type \in {"d", "f"}) /\ Does(l)
          \/ ~Counts(l) /\ (l.fields = 0 \/ l.comment) /\ tree' = tree
      BY <2>1, <2>2, <2>3, <2>4, LineDoes
    <2>6. l.fields \in Nat
      BY <2>1, DeviceNumbers
    <2>7. TreeTrue(d, n + 1, tree')
      BY <2>1, <2>5, <2>6, TreeGrows
    <2>8. devs' # "ok"
      BY <2>1, <2>2, <2>3 DEF SkipLine, TakeDirectory, TakeFile, TakeNodes, TakeOther, Complains
    <2> QED BY <2>1, <2>2, <2>7, <2>8
  <1> QED BY <1>1, <1>2

LEMMA NodesStay ==
    ASSUME GivenInv, ControlInv, NodesInv, [ImageNext]_ivars
    PROVE  NodesInv'
  <1> DEFINE d == asked.devices
  <1>0. AreDevices(d)
    BY AskedDevices
  <1>1. ASSUME NEW m, Rest(d, m, unread'), TreeTrue(d, m, tree'), devs' = "ok" => unread' = <<>>,
               asked' = asked
        PROVE  NodesInv'
    <2>1. HasTaken' = m
      BY <1>0, <1>1, HasTakenIs DEF HasTaken
    <2> QED BY <1>1, <2>1 DEF NodesInv
  <1>2. ASSUME UNCHANGED <<asked, mvars>>, at' = "fakeroot" => at = "fakeroot"
        PROVE  NodesInv'
    BY <1>2 DEF NodesInv, HasTaken, Going, mvars
  <1>3. ASSUME at' # "fakeroot"
        PROVE  NodesInv'
    BY <1>3 DEF NodesInv, Going
  <1>4. CASE UNCHANGED ivars
    BY <1>2, <1>4 DEF ivars, makevars
  <1>5. ASSUME NEW g \in config.goals, NEW t \in config.users, NEW e \in config.devices,
               MakeStarts(g, t, e)
        PROVE  NodesInv'
    BY <1>3, <1>5 DEF MakeStarts, ControlInv
  <1>6. CASE MakeEnds
    BY <1>3, <1>6 DEF MakeEnds, ControlInv
  <1>7. CASE KernelJobDone \/ Broken \/ Archived \/ Restore \/ Prepare
    BY <1>3, <1>7 DEF KernelJobDone, Broken, Archived, Restore, Prepare
  <1>8. CASE EnterUsers
    BY <1>2, <1>8 DEF EnterUsers, makevars
  <1>9. CASE Fakeroot
    <2>1. asked' = asked /\ tree' = Faked /\ unread' = d /\ devs' = "reading"
      BY <1>9 DEF Fakeroot, MakedevsStarts
    <2>2. Rest(d, 0, unread') /\ TreeTrue(d, 0, tree')
      BY <1>0, <2>1, RestBegins, TreeBegins
    <2> QED BY <1>1, <2>1, <2>2
  <1>10. CASE MakeNodes
    <2>1. MakedevsNext /\ asked' = asked /\ at' = at /\ at = "fakeroot"
      BY <1>10 DEF MakeNodes, makevars
    <2>2. CASE devs' \notin {"reading", "ok"}
      BY <2>2 DEF NodesInv, Going
    <2>3. CASE devs' \in {"reading", "ok"}
      <3>1. devs \in {"reading", "ok"}
        BY <2>1, <2>3 DEF MakedevsNext, SkipLine, Dies, TakeDirectory, TakeFile, TakeNodes, TakeOther,
                          Exits, Complains, Takes, Is
      <3>2. \E m : Rest(d, m, unread') /\ TreeTrue(d, m, tree') /\ (devs' = "ok" => unread' = <<>>)
        BY <1>0, <2>1, <2>3, <3>1, NodesStep DEF NodesInv, Going
      <3> QED BY <1>1, <2>1, <3>2
    <2> QED BY <2>2, <2>3
  <1> QED BY <1>4, <1>5, <1>6, <1>7, <1>8, <1>9, <1>10, ImageSteps

\* Each image has the nodes that its table asks for, whatever earlier images, in this
\* make or others, have left in TARGET_DIR: in TreeTrue, the last line about a path
\* says what it is, and makedevs would have complained of a file in the way.
THEOREM NodesCorrect == ImageSpec => []NodesTrue
  <1>1. ImageInit => GivenInv /\ ControlInv /\ NodesInv
    BY GivenStarts, ControlStarts DEF ImageInit, NodesInv, Going
  <1>2. GivenInv /\ ControlInv /\ NodesInv /\ [ImageNext]_ivars =>
            (GivenInv /\ ControlInv /\ NodesInv)'
    BY GivenStays, ControlStays, NodesStay
  <1>3. GivenInv /\ NodesInv => NodesTrue
    <2> SUFFICES ASSUME GivenInv, NodesInv, at = "fakeroot", devs = "ok"
                 PROVE  NodesAsTabled(asked.devices)
      BY DEF NodesTrue, NodesAsTabled
    <2> DEFINE d == asked.devices
    <2>1. AreDevices(d) /\ Rest(d, HasTaken, <<>>) /\ TreeTrue(d, HasTaken, tree)
      BY AskedDevices DEF NodesInv, Going
    <2>2. TreeTrue(d, Len(d), tree)
      BY <2>1, RestEnds
    <2> QED BY <2>1, <2>2, TreeAsTabled DEF AreDevices
  <1> QED BY <1>1, <1>2, <1>3, PTL DEF ImageSpec


-----------------------------------------------------------------------------
(* The kernel.                                                               *)

\* The kernel is built before it is installed, the one that is installed last stays,
\* and with an initramfs it is linked again when the image it carries is there.
OrderInv ==
    /\ \A x \in DOMAIN jobs : jobs[x] = "install" =>
          BuiltFirst(jobs, x) \/ ("build" \in stamps /\ \A z \in 1 .. x : jobs[z] \notin Undoes)
    /\ World /\ config.kernel =>
          \/ \E x \in DOMAIN jobs : LastInstall(jobs, x)
          \/ "install" \in stamps /\ \A z \in DOMAIN jobs : jobs[z] \notin Undoes
    /\ \A x \in DOMAIN jobs : jobs[x] = "rebuild" =>
          \/ LinkedLast(jobs, x)
          \/ "cpio" \in remade /\ \A y \in DOMAIN jobs : y > x => jobs[y] \notin KernelJob \cup {"cpio"}
    /\ World /\ config.initramfs =>
          \/ "rebuild" \in Range(jobs)
          \/ /\ binaries["kernel"].root = Root
             /\ \A z \in DOMAIN jobs : jobs[z] \notin KernelJob \cup {"cpio"}

LEMMA TailOf ==
    ASSUME NEW S, NEW j \in Seq(S), j # <<>>, NEW u, u = Tail(j)
    PROVE  /\ Len(j) \in Nat /\ DOMAIN j = 1 .. Len(j) /\ 1 \in DOMAIN j /\ Head(j) = j[1]
           /\ DOMAIN u = 1 .. Len(j) - 1
           /\ \A x \in DOMAIN u : x + 1 \in DOMAIN j /\ u[x] = j[x + 1]
           /\ \A x \in DOMAIN j : x # 1 => x - 1 \in DOMAIN u /\ u[x - 1] = j[x]
  <1>1. /\ Len(j) \in Nat /\ DOMAIN j = 1 .. Len(j) /\ Len(j) # 0
    BY LenProperties, EmptySeq
  <1>2. /\ u \in Seq(S) /\ Len(u) = Len(j) - 1 /\ \A i \in 1 .. Len(u) : u[i] = j[i + 1]
    BY HeadTailProperties
  <1>3. DOMAIN u = 1 .. Len(u)
    BY <1>2, LenProperties
  <1>4. Head(j) = j[1]
    OBVIOUS
  <1>5. ASSUME NEW x \in DOMAIN j, x # 1
        PROVE  x - 1 \in DOMAIN u /\ u[x - 1] = j[x]
    <2>1. x - 1 \in DOMAIN u /\ x - 1 + 1 = x
      BY <1>1, <1>2, <1>3, <1>5
    <2> QED BY <1>2, <1>3, <2>1
  <1> QED BY <1>1, <1>2, <1>3, <1>4, <1>5

LEMMA OrderPops ==
    ASSUME ControlInv, OrderInv, jobs # <<>>, outcome = "running", outcome' = "running",
           jobs' = Tail(jobs), config' = config, goal' = goal,
           Head(jobs) \notin Undoes => stamps \subseteq stamps',
           Head(jobs) \in {"build", "install"} => Head(jobs) \in stamps',
           remade \subseteq remade', Head(jobs) = "cpio" => "cpio" \in remade',
           config.initramfs /\ Head(jobs) = "rebuild" /\ "cpio" \in remade =>
               binaries'["kernel"].root = Root',
           config.initramfs /\ Head(jobs) \notin KernelJob \cup {"cpio", "rebuild"} =>
               binaries'["kernel"].root = binaries["kernel"].root /\ Root' = Root
    PROVE  OrderInv'
  <1> DEFINE j == jobs
             u == jobs'
             h == Head(jobs)
             n == Len(jobs)
             built == "build" \in stamps
             built2 == "build" \in stamps'
  <1>1. /\ n \in Nat /\ DOMAIN j = 1 .. n /\ 1 \in DOMAIN j /\ h = j[1]
        /\ DOMAIN u = 1 .. n - 1
        /\ \A x \in DOMAIN u : x + 1 \in DOMAIN j /\ u[x] = j[x + 1]
        /\ \A x \in DOMAIN j : x # 1 => x - 1 \in DOMAIN u /\ u[x - 1] = j[x]
    <2>1. j \in Seq(AllJobs) /\ j # <<>> /\ u = Tail(j)
      BY DEF ControlInv
    <2> HIDE DEF j, u
    <2>2. /\ Len(j) \in Nat /\ DOMAIN j = 1 .. Len(j) /\ 1 \in DOMAIN j /\ Head(j) = j[1]
          /\ DOMAIN u = 1 .. Len(j) - 1
          /\ \A x \in DOMAIN u : x + 1 \in DOMAIN j /\ u[x] = j[x + 1]
          /\ \A x \in DOMAIN j : x # 1 => x - 1 \in DOMAIN u /\ u[x - 1] = j[x]
      BY <2>1, TailOf
    <2> QED BY <2>2 DEF j
  <1>2. World' = World
    BY DEF World
  <1>3. "build" \notin Undoes /\ "install" \notin Undoes
    BY DEF Undoes
  <1>4. ASSUME NEW x \in DOMAIN u, u[x] = "install"
        PROVE  BuiltFirst(u, x) \/ (built2 /\ \A z \in 1 .. x : u[z] \notin Undoes)
    <2>1. x + 1 \in DOMAIN j /\ j[x + 1] = "install" /\ x \in Nat /\ x + 1 - 1 = x
      BY <1>1, <1>4
    <2>2. \A z \in 1 .. x : z \in DOMAIN u /\ u[z] = j[z + 1] /\ z + 1 \in 1 .. x + 1
      BY <1>1
    <2>3. CASE BuiltFirst(j, x + 1)
      <3>1. PICK y \in 1 .. x + 1 - 1 :
               j[y] = "build" /\ \A z \in y .. x + 1 : j[z] \notin Undoes
        BY <2>3 DEF BuiltFirst
      <3>2. CASE y = 1
        <4>1. \A z \in 1 .. x : u[z] \notin Undoes
          BY <2>2, <3>1, <3>2
        <4> QED BY <1>1, <3>1, <3>2, <4>1
      <3>3. CASE y # 1
        <4>1. y - 1 \in 1 .. x - 1 /\ y \in DOMAIN j
          BY <1>1, <2>1, <3>1, <3>3
        <4>2. u[y - 1] = "build"
          BY <1>1, <3>1, <3>3, <4>1
        <4>3. \A z \in y - 1 .. x : u[z] \notin Undoes
          <5> SUFFICES ASSUME NEW z \in y - 1 .. x PROVE u[z] \notin Undoes
            OBVIOUS
          <5>1. z \in 1 .. x /\ z + 1 \in y .. x + 1
            BY <2>1, <4>1
          <5> QED BY <2>2, <3>1, <5>1
        <4> QED BY <4>1, <4>2, <4>3 DEF BuiltFirst
      <3> QED BY <3>2, <3>3
    <2>4. CASE built /\ \A z \in 1 .. x + 1 : j[z] \notin Undoes
      <3>1. h \notin Undoes
        BY <1>1, <2>1, <2>4
      <3>2. \A z \in 1 .. x : u[z] \notin Undoes
        BY <2>2, <2>4
      <3> QED BY <2>4, <3>1, <3>2
    <2> QED BY <2>1, <2>3, <2>4 DEF OrderInv
  <1>5. ASSUME World, config.kernel
        PROVE  \/ \E x \in DOMAIN u : LastInstall(u, x)
               \/ "install" \in stamps' /\ \A z \in DOMAIN u : u[z] \notin Undoes
    <2>1. CASE \E x \in DOMAIN j : LastInstall(j, x)
      <3>1. PICK x \in DOMAIN j : LastInstall(j, x)
        BY <2>1
      <3>2. CASE x = 1
        <4>1. "install" \in stamps'
          BY <1>1, <3>1, <3>2 DEF LastInstall
        <4>2. \A z \in DOMAIN u : u[z] \notin Undoes
          BY <1>1, <3>1, <3>2 DEF LastInstall
        <4> QED BY <4>1, <4>2
      <3>3. CASE x # 1
        <4>1. x - 1 \in DOMAIN u /\ u[x - 1] = "install"
          BY <1>1, <3>1, <3>3 DEF LastInstall
        <4>2. \A z \in DOMAIN u : z > x - 1 => z + 1 > x
          BY <1>1
        <4>3. LastInstall(u, x - 1)
          BY <1>1, <3>1, <4>1, <4>2 DEF LastInstall
        <4> QED BY <4>1, <4>3
      <3> QED BY <3>2, <3>3
    <2>2. CASE "install" \in stamps /\ \A z \in DOMAIN j : j[z] \notin Undoes
      <3>1. "install" \in stamps'
        BY <1>1, <2>2
      <3>2. \A z \in DOMAIN u : u[z] \notin Undoes
        BY <1>1, <2>2
      <3> QED BY <3>1, <3>2
    <2> QED BY <1>5, <2>1, <2>2 DEF OrderInv
  <1>6. ASSUME NEW x \in DOMAIN u, u[x] = "rebuild"
        PROVE  \/ LinkedLast(u, x)
               \/ "cpio" \in remade' /\ \A y \in DOMAIN u : y > x => u[y] \notin KernelJob \cup {"cpio"}
    <2>1. x + 1 \in DOMAIN j /\ j[x + 1] = "rebuild" /\ x + 1 - 1 = x
      BY <1>1, <1>6
    <2>2. \A y \in DOMAIN u : y > x => u[y] \notin KernelJob \cup {"cpio"}
      <3>1. \A y \in DOMAIN u : y > x => y + 1 > x + 1
        BY <1>1
      <3>2. \A y \in DOMAIN j : y > x + 1 => j[y] \notin KernelJob \cup {"cpio"}
        BY <2>1 DEF OrderInv, LinkedLast
      <3> QED BY <1>1, <3>1, <3>2
    <2>3. CASE LinkedLast(j, x + 1)
      <3>1. PICK y \in 1 .. x : j[y] = "cpio"
        BY <2>1, <2>3 DEF LinkedLast
      <3>2. CASE y = 1
        BY <1>1, <2>2, <3>1, <3>2
      <3>3. CASE y # 1
        <4>1. y \in DOMAIN j /\ y - 1 \in 1 .. x - 1
          BY <1>1, <3>1, <3>3
        <4>2. u[y - 1] = "cpio"
          BY <1>1, <3>1, <3>3, <4>1
        <4> QED BY <2>2, <4>1, <4>2 DEF LinkedLast
      <3> QED BY <3>2, <3>3
    <2>4. CASE "cpio" \in remade
      BY <2>2, <2>4
    <2> QED BY <2>1, <2>3, <2>4 DEF OrderInv
  <1>7. ASSUME World, config.initramfs
        PROVE  \/ "rebuild" \in Range(u)
               \/ /\ binaries'["kernel"].root = Root'
                  /\ \A z \in DOMAIN u : u[z] \notin KernelJob \cup {"cpio"}
    <2>1. CASE "rebuild" \in Range(j)
      <3>1. PICK x \in DOMAIN j : j[x] = "rebuild"
        BY <2>1 DEF Range
      <3>2. CASE x # 1
        BY <1>1, <3>1, <3>2 DEF Range
      <3>3. CASE x = 1
        <4>1. \A y \in 1 .. 1 - 1 : FALSE
          OBVIOUS
        <4>2. "cpio" \in remade /\ \A y \in DOMAIN j : y > 1 => j[y] \notin KernelJob \cup {"cpio"}
          BY <3>1, <3>3, <4>1 DEF OrderInv, LinkedLast
        <4>3. \A z \in DOMAIN u : z + 1 > 1
          BY <1>1
        <4>4. \A z \in DOMAIN u : u[z] \notin KernelJob \cup {"cpio"}
          BY <1>1, <4>2, <4>3
        <4>5. h = "rebuild"
          BY <1>1, <3>1, <3>3
        <4> QED BY <1>7, <4>2, <4>4, <4>5
      <3> QED BY <3>2, <3>3
    <2>2. CASE "rebuild" \notin Range(j)
      <3>1. /\ binaries["kernel"].root = Root
            /\ \A z \in DOMAIN j : j[z] \notin KernelJob \cup {"cpio"}
        BY <1>7, <2>2 DEF OrderInv
      <3>2. h # "rebuild" /\ h \notin KernelJob \cup {"cpio"}
        BY <1>1, <2>2, <3>1 DEF Range
      <3>3. \A z \in DOMAIN u : u[z] \notin KernelJob \cup {"cpio"}
        BY <1>1, <3>1
      <3> QED BY <1>7, <3>1, <3>2, <3>3
    <2> QED BY <2>1, <2>2
  <1>8. config'.kernel = config.kernel /\ config'.initramfs = config.initramfs
    OBVIOUS
  <1> QED BY <1>2, <1>4, <1>5, <1>6, <1>7, <1>8 DEF OrderInv


\* An image is none of the kernel's jobs, nor its file.
LEMMA NamesApart ==
    ASSUME GivenInv, NEW i \in ImageNames
    PROVE  i \notin KernelJob \cup {"rebuild", "kernel"}
  BY ConfigIs DEF GivenInv, ImageNames

LEMMA CpioThere ==
    ASSUME GivenInv, ControlInv, config.initramfs
    PROVE  "cpio" \in DOMAIN binaries /\ "kernel" \in DOMAIN binaries
  <1>1. "rebuild" \in Range(config.targets)
    BY ConfigIs DEF GivenInv
  <1>2. PICK k \in DOMAIN config.targets : config.targets[k] = "rebuild"
    BY <1>1 DEF Range
  <1>3. PICK i \in 1 .. k - 1 : config.targets[i] = "cpio"
    BY <1>2, ConfigIs DEF GivenInv
  <1>4. i \in DOMAIN config.targets
    <2>1. config.targets \in Seq(Range(config.targets))
      BY ConfigIs DEF GivenInv
    <2>2. DOMAIN config.targets = 1 .. Len(config.targets) /\ Len(config.targets) \in Nat
      BY <2>1, LenProperties
    <2> QED BY <2>2
  <1>5. "cpio" \in ImageNames
    BY <1>3, <1>4 DEF ImageNames, Range
  <1> QED BY <1>5 DEF ControlInv

\* What happens to an image leaves the kernel alone.
LEMMA ImageAlone ==
    ASSUME GivenInv, ControlInv, at = "fakeroot", NEW b,
           binaries' = [binaries EXCEPT ![Head(jobs)] = b]
    PROVE  /\ binaries'["kernel"] = binaries["kernel"]
           /\ \A i \in DOMAIN binaries : i # Head(jobs) => binaries'[i] = binaries[i]
           /\ Head(jobs) \in DOMAIN binaries /\ binaries'[Head(jobs)] = b
  <1>1. Head(jobs) # "kernel" /\ Head(jobs) \in DOMAIN binaries /\ "kernel" \in DOMAIN binaries
    <2>1. Head(jobs) \in ImageNames
      BY DEF ControlInv
    <2> QED BY <2>1, NamesApart DEF ControlInv
  <1> QED BY <1>1

LEMMA RebuildLinks ==
    ASSUME GivenInv, ControlInv, config.initramfs, KernelSteps, Head(jobs) = "rebuild", "cpio" \in remade
    PROVE  binaries'["kernel"].root = Root'
  <1>1. ~OutOfDate("rebuild", Prerequisites["rebuild"]) => FALSE
    BY DEF OutOfDate, Prerequisites
  <1>2. Rebuild
    <2>1. \A j \in LinuxJob : ~UpToDateJob(j)
      BY <1>1 DEF UpToDateJob, Comes
    <2>2. ~Configure /\ ~Build /\ ~Install /\ ~Forget /\ ~Dirclean
      BY DEF Configure, Build, Install, Forget, Dirclean, Runs, Comes
    <2> QED BY <2>1, <2>2 DEF KernelSteps
  <1>3. /\ zImage' = IF zImage.linked /\ zImage.root = Root
                     THEN [zImage EXCEPT !.dtbs = @ + 0]
                     ELSE [linked |-> TRUE, root |-> Root, dtbs |-> 0]
        /\ binaries' = [binaries EXCEPT !["kernel"] =
              [kind |-> "whole", make |-> makes, root |-> zImage'.root, dtbs |-> zImage'.dtbs]]
        /\ config' = config
    BY <1>2 DEF Rebuild, Link, CopyKernel, Runs, Kept
  <1>4. zImage'.root = Root
    BY <1>3
  <1>5. "cpio" \in DOMAIN binaries /\ "kernel" \in DOMAIN binaries
    BY CpioThere
  <1>6. binaries'["kernel"].root = zImage'.root /\ binaries'["cpio"] = binaries["cpio"]
    BY <1>3, <1>5
  <1>7. Root' = Root
    BY <1>3, <1>6 DEF Root
  <1> QED BY <1>4, <1>6, <1>7

LEMMA OrderStays ==
    ASSUME GivenInv, ControlInv, OrderInv, [ImageNext]_ivars
    PROVE  OrderInv'
  <1>1. ASSUME UNCHANGED <<config, goal, outcome, jobs, stamps, remade, binaries>>
        PROVE  OrderInv'
    BY <1>1 DEF OrderInv, World, Root
  <1>2. CASE UNCHANGED ivars
    BY <1>1, <1>2 DEF ivars, makevars
  <1>3. ASSUME NEW g \in config.goals, NEW t \in config.users, NEW d \in config.devices,
               MakeStarts(g, t, d)
        PROVE  OrderInv'
    <2>1. g \in Goals
      BY ConfigIs DEF GivenInv, Goals
    <2>2. PICK r, s : JobParts(g, r, s)
      BY <2>1, JobsAre DEF GivenInv
    <2>3. config' = config /\ goal' = g /\ outcome' = "running" /\ jobs' = Jobs[g]
      BY <1>3 DEF MakeStarts
    <2>4. /\ \A x \in DOMAIN jobs' : jobs'[x] = "install" => BuiltFirst(jobs', x)
          /\ g \in {"all", "rebuild"} /\ config.kernel =>
                \E x \in DOMAIN jobs' : LastInstall(jobs', x)
          /\ \A x \in DOMAIN jobs' : jobs'[x] = "rebuild" => LinkedLast(jobs', x)
          /\ g \in {"all", "rebuild"} => Range(config.targets) \subseteq Range(jobs')
      BY <2>2, <2>3, JobsOrdered
    <2>5. g \in {"all", "rebuild"} /\ config.initramfs => "rebuild" \in Range(jobs')
      BY <2>4, ConfigIs DEF GivenInv
    <2> QED BY <2>3, <2>4, <2>5 DEF OrderInv, World
  <1>4. CASE MakeEnds
    <2>1. UNCHANGED <<config, goal, jobs, stamps, remade, binaries>> /\ World' = World
      BY <1>4 DEF MakeEnds, World
    <2> QED BY <2>1 DEF OrderInv, Root
  <1>5. CASE KernelJobDone /\ KernelSteps
    <2>1. LinuxJob \cup Undoes \subseteq KernelJob \cup {"rebuild"}
      BY KernelJobs DEF KernelJob, Undoes
    <2>2. "build" \in LinuxJob /\ "install" \in LinuxJob /\ "cpio" \notin LinuxJob \cup Undoes
      BY KernelJobs DEF Undoes
    <2>3. config.initramfs /\ Head(jobs) = "rebuild" /\ "cpio" \in remade =>
               binaries'["kernel"].root = Root'
      BY <1>5, RebuildLinks
    <2>4. outcome = "running" /\ jobs # <<>> /\ jobs' = Tail(jobs) /\ outcome' = "running"
          /\ config' = config /\ goal' = goal /\ remade \subseteq remade'
      BY <1>5 DEF KernelJobDone, Kept
    <2>5. Head(jobs) \in LinuxJob \cup Undoes
      BY <1>5 DEF KernelJobDone
    <2>6. /\ Head(jobs) \notin Undoes => stamps \subseteq stamps'
          /\ Head(jobs) \in {"build", "install"} => Head(jobs) \in stamps'
      BY <1>5, <2>2 DEF KernelJobDone
    <2> QED BY <2>1, <2>2, <2>3, <2>4, <2>5, <2>6, OrderPops
  <1>6. CASE Broken
    <2>1. jobs' = <<>> /\ ~World'
      BY <1>6 DEF Broken, World
    <2>2. \A x \in DOMAIN <<>> : FALSE
      OBVIOUS
    <2> QED BY <2>1, <2>2 DEF OrderInv
  <1>7. CASE Archived
    <2>1. at = "fakeroot" /\ UNCHANGED <<config, goal, outcome, jobs, stamps, remade>>
      BY <1>7 DEF Archived, Kept
    <2>2. \E b : binaries' = [binaries EXCEPT ![Head(jobs)] = b]
      BY <1>7 DEF Archived
    <2>3. /\ binaries'["kernel"] = binaries["kernel"]
          /\ \A i \in DOMAIN binaries : i # Head(jobs) => binaries'[i] = binaries[i]
      BY <2>1, <2>2, ImageAlone
    <2>4. ASSUME config.initramfs, \A z \in DOMAIN jobs : jobs[z] \notin KernelJob \cup {"cpio"}
          PROVE  Root' = Root
      <3>1. jobs # <<>> /\ jobs \in Seq(AllJobs)
        BY <2>1 DEF ControlInv
      <3>2. Head(jobs) # "cpio"
        BY <2>4, <3>1, TailOf
      <3>3. binaries'["cpio"] = binaries["cpio"]
        BY <2>3, <2>4, <3>2, CpioThere
      <3> QED BY <2>1, <3>3 DEF Root
    <2>5. World' = World
      BY <2>1 DEF World
    <2> QED BY <2>1, <2>3, <2>4, <2>5 DEF OrderInv
  <1>8. CASE Prepare
    BY <1>1, <1>8 DEF Prepare
  <1>9. CASE EnterUsers \/ MakeNodes
    BY <1>1, <1>9 DEF EnterUsers, MakeNodes, makevars
  <1>10. CASE Fakeroot
    BY <1>1, <1>10 DEF Fakeroot
  <1>11. CASE Restore
    <2>1. /\ at = "restore" /\ remade' = remade \cup {Head(jobs)} /\ jobs' = Tail(jobs)
          /\ UNCHANGED <<config, goal, outcome, stamps, binaries>>
      BY <1>11 DEF Restore, Next1, Kept
    <2>2. outcome = "running" /\ jobs # <<>> /\ Head(jobs) \in ImageNames
      BY <2>1 DEF ControlInv
    <2>3. Head(jobs) \notin KernelJob \cup {"rebuild", "kernel"} /\ {"build", "install"} \subseteq KernelJob
      BY <2>2, NamesApart DEF KernelJob
    <2>4. Root' = Root
      BY <2>1 DEF Root
    <2> QED BY <2>1, <2>2, <2>3, <2>4, OrderPops
  <1> QED BY <1>2, <1>3, <1>4, <1>5, <1>6, <1>7, <1>8, <1>9, <1>10, <1>11, ImageSteps


\* What the kernel's stamps promise of its files.
Appends == config.dtb /\ ~config.initramfs
KernelInv ==
    /\ zImage = [linked |-> zImage.linked, root |-> zImage.root, dtbs |-> zImage.dtbs]
    /\ zImage.dtbs \in Nat
    /\ "build" \in stamps /\ Appends => zImage.dtbs > 0
    /\ "install" \in stamps =>
          binaries["kernel"].kind = "whole" /\ (Appends => binaries["kernel"].dtbs > 0)

LEMMA LinkEffect ==
    ASSUME KernelInv, NEW n \in Nat, Link(n)
    PROVE  /\ zImage' = [linked |-> zImage'.linked, root |-> zImage'.root, dtbs |-> zImage'.dtbs]
           /\ zImage'.dtbs \in Nat /\ (n > 0 => zImage'.dtbs > 0)
  <1> DEFINE l == zImage.linked
             r == zImage.root
             k == zImage.dtbs
             new == [linked |-> TRUE, root |-> Root, dtbs |-> n]
             more == [linked |-> l, root |-> r, dtbs |-> k + n]
  <1>1. zImage = [linked |-> l, root |-> r, dtbs |-> k] /\ k \in Nat
    BY DEF KernelInv
  <1>2. [zImage EXCEPT !.dtbs = @ + n] = more
    <2> HIDE DEF l, r, k
    <2> QED BY <1>1
  <1>3. zImage' = new \/ zImage' = more
    BY <1>2 DEF Link
  <1>4. CASE zImage' = new
    BY <1>4
  <1>5. CASE zImage' = more
    <2>1. zImage'.linked = l /\ zImage'.root = r /\ zImage'.dtbs = k + n
      BY <1>5
    <2> HIDE DEF l, r, k
    <2>2. k + n \in Nat /\ (n > 0 => k + n > 0)
      BY <1>1
    <2> QED BY <1>5, <2>1, <2>2
  <1> QED BY <1>3, <1>4, <1>5

LEMMA CopyEffect ==
    ASSUME ControlInv, NEW z, CopyKernel(z)
    PROVE  /\ binaries'["kernel"].kind = "whole" /\ binaries'["kernel"].dtbs = z.dtbs
  <1>1. "kernel" \in DOMAIN binaries
    BY DEF ControlInv
  <1> QED BY <1>1 DEF CopyKernel

LEMMA KernelStarts == ImageInit => KernelInv
  <1> SUFFICES ASSUME ImageInit PROVE KernelInv
    OBVIOUS
  <1>1. stamps = {} /\ zImage = [linked |-> FALSE, root |-> Blank, dtbs |-> 0]
    BY DEF ImageInit, Unlinked
  <1> QED BY <1>1 DEF KernelInv

LEMMA KernelStays ==
    ASSUME GivenInv, ControlInv, OrderInv, KernelInv, [ImageNext]_ivars
    PROVE  KernelInv'
  <1>1. ASSUME UNCHANGED <<config, stamps, zImage>>, binaries'["kernel"] = binaries["kernel"]
        PROVE  KernelInv'
    BY <1>1 DEF KernelInv, Appends
  <1>2. CASE UNCHANGED ivars
    BY <1>1, <1>2 DEF ivars, makevars
  <1>3. ASSUME NEW g \in config.goals, NEW t \in config.users, NEW d \in config.devices,
               MakeStarts(g, t, d)
        PROVE  KernelInv'
    BY <1>1, <1>3 DEF MakeStarts
  <1>4. CASE MakeEnds
    BY <1>1, <1>4 DEF MakeEnds
  <1>5. CASE KernelSteps
    <2>0. KernelJobDone
      BY <1>5, KernelStepDone
    <2>1. config' = config /\ Appends' = Appends
      BY <2>0 DEF KernelJobDone, Kept, Appends
    <2>2. ASSUME NEW j \in LinuxJob, UpToDateJob(j)
          PROVE  KernelInv'
      BY <1>1, <2>1, <2>2 DEF UpToDateJob
    <2>3. CASE Configure
      <3>1. stamps' = stamps \cup {"configure"} /\ zImage' = [zImage EXCEPT !.linked = FALSE]
            /\ Head(jobs) = "configure"
        BY <2>3 DEF Configure, Runs, Comes
      <3>2. binaries'["kernel"] = binaries["kernel"]
        BY <2>0, <3>1 DEF KernelJobDone
      <3>3. /\ zImage' = [linked |-> FALSE, root |-> zImage.root, dtbs |-> zImage.dtbs]
            /\ zImage'.dtbs = zImage.dtbs
        BY <3>1 DEF KernelInv
      <3> QED BY <2>1, <3>1, <3>2, <3>3 DEF KernelInv
    <2>4. CASE Build
      <3>1. stamps' = stamps \cup {"build"} /\ Link(IF config.dtb THEN 1 ELSE 0) /\ binaries' = binaries
        BY <2>4 DEF Build, Runs
      <3>2. PICK n \in {0, 1} : n = IF config.dtb THEN 1 ELSE 0
        OBVIOUS
      <3>3. /\ zImage' = [linked |-> zImage'.linked, root |-> zImage'.root, dtbs |-> zImage'.dtbs]
            /\ zImage'.dtbs \in Nat /\ (n > 0 => zImage'.dtbs > 0)
        BY <3>1, <3>2, LinkEffect
      <3>4. Appends => n > 0
        BY <3>2 DEF Appends
      <3> QED BY <2>1, <3>1, <3>3, <3>4 DEF KernelInv
    <2>5. CASE Install
      <3>1. stamps' = stamps \cup {"install"} /\ CopyKernel(zImage) /\ zImage' = zImage
            /\ Head(jobs) = "install" /\ jobs # <<>>
        BY <2>5 DEF Install, Runs, Comes
      <3>2. binaries'["kernel"].kind = "whole" /\ binaries'["kernel"].dtbs = zImage.dtbs
        BY <3>1, CopyEffect
      <3>3. "build" \in stamps
        <4>1. 1 \in DOMAIN jobs /\ jobs[1] = "install"
          <5>1. jobs \in Seq(AllJobs)
            BY DEF ControlInv
          <5> QED BY <3>1, <5>1, TailOf
        <4>2. \A y \in 1 .. 1 - 1 : FALSE
          OBVIOUS
        <4> QED BY <4>1, <4>2 DEF OrderInv, BuiltFirst
      <3> QED BY <2>1, <3>1, <3>2, <3>3 DEF KernelInv
    <2>6. CASE Rebuild
      <3>1. stamps' = stamps \cup {"rebuild"} /\ CopyKernel(zImage') /\ Link(0)
            /\ Head(jobs) = "rebuild" /\ jobs # <<>>
        BY <2>6 DEF Rebuild, Runs, Comes
      <3>2. binaries'["kernel"].kind = "whole"
        BY <3>1, CopyEffect
      <3>3. /\ zImage' = [linked |-> zImage'.linked, root |-> zImage'.root, dtbs |-> zImage'.dtbs]
            /\ zImage'.dtbs \in Nat
        BY <3>1, LinkEffect
      <3>4. config.initramfs
        <4>1. jobs \in Seq(AllJobs)
          BY DEF ControlInv
        <4>2. "rebuild" \in AllJobs
          BY <3>1, <4>1, HeadTailProperties
        <4>3. "rebuild" \in Range(config.targets)
          BY <4>2 DEF AllJobs, KernelJob
        <4> QED BY <4>3, ConfigIs DEF GivenInv
      <3> QED BY <2>1, <3>1, <3>2, <3>3, <3>4 DEF KernelInv, Appends
    <2>7. CASE Forget
      <3>1. PICK c \in BOOLEAN : zImage' = [zImage EXCEPT !.linked = @ /\ ~c]
        BY <2>7 DEF Forget
      <3>2. stamps' = stamps \ {"build", "install"}
        BY <2>7 DEF Forget
      <3> DEFINE linked == zImage.linked /\ ~c
      <3>3. zImage' = [zImage EXCEPT !.linked = linked]
        BY <3>1
      <3> HIDE DEF linked
      <3>4. zImage' = [linked |-> linked, root |-> zImage.root, dtbs |-> zImage.dtbs]
        BY <3>3 DEF KernelInv
      <3> QED BY <2>1, <3>2, <3>4 DEF KernelInv
    <2>8. CASE Dirclean
      <3>1. stamps' = {} /\ zImage' = [linked |-> FALSE, root |-> Blank, dtbs |-> 0]
        BY <2>8 DEF Dirclean, Unlinked
      <3> QED BY <3>1 DEF KernelInv
    <2> QED BY <1>5, <2>2, <2>3, <2>4, <2>5, <2>6, <2>7, <2>8 DEF KernelSteps
  <1>6. CASE Broken
    <2>1. binaries'["kernel"] = binaries["kernel"]
      BY <1>6, ImageAlone DEF Broken
    <2> QED BY <1>1, <1>6, <2>1 DEF Broken
  <1>7. CASE Archived
    <2>1. binaries'["kernel"] = binaries["kernel"]
      BY <1>7, ImageAlone DEF Archived
    <2> QED BY <1>1, <1>7, <2>1 DEF Archived, Kept
  <1>8. CASE Prepare \/ Fakeroot
    BY <1>1, <1>8 DEF Prepare, Fakeroot
  <1>9. CASE EnterUsers \/ MakeNodes
    BY <1>1, <1>9 DEF EnterUsers, MakeNodes, makevars
  <1>10. CASE Restore
    BY <1>1, <1>10 DEF Restore, Kept
  <1> QED BY <1>2, <1>3, <1>4, <1>5, <1>6, <1>7, <1>8, <1>9, <1>10, ImageSteps


-----------------------------------------------------------------------------
(* The images of one make.                                                   *)

\* The images that this make has generated.
Generated == {i \in ImageNames : i \notin Range(jobs)}
             \cup {i \in ImageNames : at = "restore" /\ i = Head(jobs)}

ImageOf(b) ==
    [kind |-> b.kind, make |-> b.make, passwd |-> b.passwd, group |-> b.group,
     tree |-> b.tree, devs |-> b.devs, warning |-> b.warning]
IsWhole(b) == b = ImageOf(b) /\ b.kind = "whole" /\ b.make = makes /\ b.warning = FALSE

\* They have the users of TARGET_DIR, or those that mkusers, which runs again, has found.
HasUsers(b) ==
    /\ table = asked.users
    /\ IF at = "users" THEN last = {<<table, b.group, b.passwd>>}
       ELSE status = "ok" /\ b.group = group /\ b.passwd = passwd

WholeInv ==
    /\ at \in {"users", "fakeroot"} => warning = FALSE /\ table = asked.users
    /\ at = "fakeroot" => status = "ok"
    /\ World /\ at = "" /\ Generated # {} => warning = TRUE
    /\ ImageNames = {} => warning = TRUE
    /\ World => \A i \in Generated : IsWhole(binaries[i]) /\ HasUsers(binaries[i])

LEMMA WorksKeeps ==
    ASSUME Works
    PROVE  table' = table /\ last' = last
  BY DEF Works, Skip, NextLoop, Done, AddFixedGroup, AddAutoGroup, NoFreeGid,
         AddUser, LeaveUser, RefuseUser, LoseUser, Goes, Abort, Stop

\* Jobs that are no images leave the generated images what they are.
LEMMA GeneratedStay ==
    ASSUME GivenInv, ControlInv, WholeInv, KernelJobDone, World
    PROVE  /\ Generated' \subseteq Generated
           /\ \A i \in Generated : binaries'[i] = binaries[i]
  <1>1. /\ jobs \in Seq(AllJobs) /\ jobs # <<>> /\ jobs' = Tail(jobs) /\ at' = "" /\ config' = config
        /\ Head(jobs) \in LinuxJob \cup Undoes
    BY DEF KernelJobDone, Kept, ControlInv
  <1>2. \A i \in ImageNames : i # Head(jobs) /\ i # "kernel"
    <2>1. LinuxJob \cup Undoes \subseteq KernelJob \cup {"rebuild"}
      BY KernelJobs DEF KernelJob, Undoes
    <2> QED BY <1>1, <2>1, NamesApart
  <1>3. \A x \in DOMAIN jobs : x # 1 => x - 1 \in DOMAIN jobs' /\ jobs'[x - 1] = jobs[x]
    BY <1>1, TailOf
  <1>4. Head(jobs) = jobs[1]
    BY <1>1, TailOf
  <1>5. ASSUME NEW i \in Generated'
        PROVE  i \in Generated
    <2>1. i \in ImageNames /\ i \notin Range(jobs')
      BY <1>1, <1>5 DEF Generated, ImageNames
    <2>2. i \notin Range(jobs)
      BY <1>2, <1>3, <1>4, <2>1 DEF Range
    <2> QED BY <2>1, <2>2 DEF Generated
  <1>6. ASSUME NEW i \in Generated
        PROVE  binaries'[i] = binaries[i]
    <2>1. i \in ImageNames /\ i \in DOMAIN binaries
      BY DEF Generated, ControlInv
    <2>2. binaries[i].kind # "none"
      BY DEF WholeInv, IsWhole
    <2> QED BY <1>2, <2>1, <2>2 DEF KernelJobDone
  <1> QED BY <1>5, <1>6

LEMMA RestoreGenerated ==
    ASSUME ControlInv, config' = config, at = "restore", at' = "", jobs' = Tail(jobs)
    PROVE  Generated' \subseteq Generated
  <1> SUFFICES ASSUME NEW i \in Generated' PROVE i \in Generated
    OBVIOUS
  <1>1. i \in ImageNames /\ i \notin Range(jobs')
    BY DEF Generated, ImageNames
  <1>2. /\ Head(jobs) = jobs[1]
        /\ \A x \in DOMAIN jobs : x # 1 => x - 1 \in DOMAIN jobs' /\ jobs'[x - 1] = jobs[x]
    <2>1. jobs \in Seq(AllJobs) /\ jobs # <<>>
      BY DEF ControlInv
    <2> QED BY <2>1, TailOf
  <1>3. i = Head(jobs) \/ i \notin Range(jobs)
    <2> SUFFICES ASSUME NEW x \in DOMAIN jobs, i = jobs[x], x # 1 PROVE FALSE
      BY <1>2 DEF Range
    <2>1. x - 1 \in DOMAIN jobs' /\ i = jobs'[x - 1]
      BY <1>2
    <2> QED BY <1>1, <2>1 DEF Range
  <1> QED BY <1>1, <1>3 DEF Generated

LEMMA WholeStarts == ImageInit => WholeInv
  BY DEF ImageInit, WholeInv, World

LEMMA WholeStays ==
    ASSUME GivenInv, ControlInv, WholeInv, RerunIdle, [ImageNext]_ivars
    PROVE  WholeInv'
  <1>0. config' = config => ImageNames' = ImageNames
    BY DEF ImageNames
  <1>1. ASSUME UNCHANGED <<config, asked, makes, goal, jobs, at, binaries, warning>>, World' => World,
               UNCHANGED <<table, last>>, UNCHANGED <<status, group, passwd>> \/ at = "users"
        PROVE  WholeInv'
    <2>1. Generated' = Generated
      BY <1>0, <1>1 DEF Generated
    <2> QED BY <1>0, <1>1, <2>1 DEF WholeInv, IsWhole, HasUsers
  <1>2. CASE UNCHANGED ivars
    BY <1>1, <1>2 DEF ivars, makevars, vars, files, World
  <1>3. ASSUME NEW g \in config.goals, NEW t \in config.users, NEW d \in config.devices,
               MakeStarts(g, t, d)
        PROVE  WholeInv'
    <2>1. g \in Goals
      BY ConfigIs DEF GivenInv, Goals
    <2>2. PICK r, s : JobParts(g, r, s)
      BY <2>1, JobsAre DEF GivenInv
    <2>3. config' = config /\ goal' = g /\ jobs' = Jobs[g] /\ at' = "" /\ warning' = warning
      BY <1>3 DEF MakeStarts, ControlInv
    <2>4. g \in {"all", "rebuild"} => Range(config.targets) \subseteq Range(jobs')
      BY <2>2, <2>3, JobsOrdered
    <2>5. World' => Generated' = {}
      BY <2>3, <2>4 DEF World, Generated, ImageNames
    <2> QED BY <1>0, <2>3, <2>5 DEF WholeInv
  <1>4. CASE MakeEnds
    BY <1>1, <1>4 DEF MakeEnds, vars, files, World
  <1>5. CASE KernelJobDone
    <2>1. /\ at' = "" /\ at = "" /\ UNCHANGED <<config, asked, makes, goal, outcome, warning>>
          /\ UNCHANGED <<table, status, group, passwd>>
      BY <1>5 DEF KernelJobDone, Kept, vars, files
    <2>2. CASE ~World
      BY <1>0, <2>1, <2>2 DEF WholeInv, World
    <2>3. CASE World
      <3>1. Generated' \subseteq Generated /\ \A i \in Generated : binaries'[i] = binaries[i]
        BY <1>5, <2>3, GeneratedStay
      <3> QED BY <1>0, <2>1, <2>3, <3>1 DEF WholeInv, IsWhole, HasUsers
    <2> QED BY <2>2, <2>3
  <1>6. CASE Broken
    BY <1>0, <1>6 DEF Broken, WholeInv, World
  <1>7. CASE Archived
    <2>1. /\ at = "fakeroot" /\ at' = "restore"
          /\ UNCHANGED <<config, asked, makes, goal, outcome, jobs, warning>>
          /\ UNCHANGED <<table, status, group, passwd>>
      BY <1>7 DEF Archived, Kept, vars, files
    <2> DEFINE b == [kind |-> "whole", make |-> makes, passwd |-> passwd, group |-> group,
                     tree |-> tree, devs |-> devs, warning |-> warning]
    <2>2. binaries' = [binaries EXCEPT ![Head(jobs)] = b]
      BY <1>7 DEF Archived
    <2>3. IsWhole(b)
      BY <2>1 DEF IsWhole, ImageOf, WholeInv
    <2>4. b.group = group /\ b.passwd = passwd
      OBVIOUS
    <2> HIDE DEF b
    <2>5. /\ \A i \in DOMAIN binaries : i # Head(jobs) => binaries'[i] = binaries[i]
          /\ binaries'[Head(jobs)] = b
      BY <2>1, <2>2, ImageAlone
    <2>6. Generated' \subseteq Generated \cup {Head(jobs)} /\ Generated' \subseteq DOMAIN binaries
      BY <1>0, <2>1 DEF Generated, ControlInv
    <2>7. table = asked.users /\ status = "ok"
      BY <2>1 DEF WholeInv
    <2>8. ASSUME World, NEW i \in Generated'
          PROVE  IsWhole(binaries[i])' /\ HasUsers(binaries[i])'
      <3>1. CASE i = Head(jobs)
        BY <2>1, <2>3, <2>4, <2>5, <2>7, <3>1 DEF IsWhole, HasUsers
      <3>2. CASE i # Head(jobs)
        <4>1. i \in Generated /\ binaries'[i] = binaries[i]
          BY <2>5, <2>6, <3>2
        <4>2. IsWhole(binaries[i]) /\ HasUsers(binaries[i])
          BY <2>8, <4>1 DEF WholeInv
        <4> QED BY <2>1, <4>1, <4>2 DEF IsWhole, HasUsers
      <3> QED BY <3>1, <3>2
    <2>9. World' = World
      BY <2>1 DEF World
    <2> QED BY <1>0, <2>1, <2>8, <2>9 DEF WholeInv
  <1>8. CASE Prepare
    <2>1. /\ at = "" /\ at' = "users" /\ warning' = FALSE
          /\ UNCHANGED <<config, asked, makes, goal, outcome, jobs, binaries>>
          /\ Head(jobs) \in ImageNames
      BY <1>8 DEF Prepare, Generating
    <2>2. table' = asked.users /\ last' = IF status = "ok" THEN {<<table, group, passwd>>} ELSE {}
      BY <1>8 DEF Prepare, Start
    <2>3. Generated' = Generated
      BY <1>0, <2>1 DEF Generated
    <2>4. World' = World
      BY <2>1 DEF World
    <2>5. ASSUME World, NEW i \in Generated
          PROVE  IsWhole(binaries[i])' /\ HasUsers(binaries[i])'
      <3>1. IsWhole(binaries[i]) /\ HasUsers(binaries[i])
        BY <2>5 DEF WholeInv
      <3>2. last' = {<<table', binaries'[i].group, binaries'[i].passwd>>}
        BY <2>1, <2>2, <3>1 DEF HasUsers
      <3> QED BY <2>1, <2>2, <3>1, <3>2 DEF IsWhole, HasUsers
    <2> QED BY <1>0, <2>1, <2>2, <2>3, <2>4, <2>5 DEF WholeInv
  <1>9. CASE EnterUsers
    <2>1. UNCHANGED <<table, last>>
      BY <1>9, WorksKeeps DEF EnterUsers
    <2>2. UNCHANGED makevars /\ at = "users"
      BY <1>9 DEF EnterUsers
    <2> QED BY <1>1, <2>1, <2>2 DEF makevars, World
  <1>10. CASE Fakeroot
    <2>1. /\ at = "users" /\ at' = "fakeroot" /\ status = "ok"
          /\ UNCHANGED <<config, asked, makes, goal, outcome, jobs, binaries, warning>>
          /\ UNCHANGED <<table, status, group, passwd>>
      BY <1>10 DEF Fakeroot, vars, files
    <2>2. Generated' = Generated /\ World' = World
      BY <1>0, <2>1 DEF Generated, World
    <2>3. ASSUME World, NEW i \in Generated
          PROVE  IsWhole(binaries[i])' /\ HasUsers(binaries[i])'
      <3>1. IsWhole(binaries[i]) /\ HasUsers(binaries[i])
        BY <2>3 DEF WholeInv
      <3> DEFINE r == <<table, binaries[i].group, binaries[i].passwd>>
      <3>2. last = {r}
        BY <2>1, <3>1 DEF HasUsers
      <3>3. r \in last /\ last # {}
        BY <3>2
      <3>4. group = r[2] /\ passwd = r[3]
        BY <2>1, <3>3 DEF RerunIdle
      <3> QED BY <2>1, <3>1, <3>4 DEF IsWhole, HasUsers
    <2>4. warning = FALSE /\ table = asked.users
      BY <2>1 DEF WholeInv
    <2> QED BY <1>0, <2>1, <2>2, <2>3, <2>4 DEF WholeInv
  <1>11. CASE MakeNodes
    BY <1>1, <1>11 DEF MakeNodes, makevars, vars, files, World
  <1>12. CASE Restore
    <2>1. /\ at = "restore" /\ at' = "" /\ warning' = TRUE /\ jobs' = Tail(jobs)
          /\ UNCHANGED <<config, asked, makes, goal, outcome, binaries>>
          /\ UNCHANGED <<table, status, group, passwd>>
      BY <1>12 DEF Restore, Next1, Kept, vars, files
    <2>3. Generated' \subseteq Generated
      BY <2>1, RestoreGenerated
    <2>4. World' = World
      BY <2>1 DEF World
    <2> QED BY <1>0, <2>1, <2>3, <2>4 DEF WholeInv, IsWhole, HasUsers
  <1> QED
    BY <1>2, <1>3, <1>4, <1>5, <1>6, <1>7, <1>8, <1>9, <1>10, <1>11, <1>12, ImageSteps


-----------------------------------------------------------------------------
(* The files of the images of one make.                                      *)

Complete(d) == \A l \in Range(d) : l.fields >= 5

\* The files t, of which makedevs has taken the first n lines of d, are on their way
\* to r, where the makedevs of an earlier image has arrived.
Follows(d, n, t, r) ==
    /\ DOMAIN t = DOMAIN r
    /\ \A p \in DOMAIN r :
          /\ t[p].kind = "d" <=> r[p].kind = "d"
          /\ (\A i \in 1 .. n : ~Mentions(d[i], p)) => t[p].perm.mode = r[p].perm.mode

\* The files that were given the same owners, modes and numbers, and have the same
\* directories, are the same.
LEMMA TreesAgree ==
    ASSUME NEW d, AreDevices(d), Complete(d), NEW t, NEW r,
           TreeTrue(d, Len(d), t), TreeTrue(d, Len(d), r), Follows(d, Len(d), t, r)
    PROVE  t = r
  <1> DEFINE n == Len(d)
  <1>0. n \in Nat /\ DOMAIN d = 1 .. n
    BY DEF AreDevices
  <1>1. DOMAIN t = DOMAIN r /\ t = [p \in DOMAIN t |-> t[p]] /\ r = [p \in DOMAIN r |-> r[p]]
    BY DEF Follows, TreeTrue, IsTree
  <1>2. ASSUME NEW p \in DOMAIN r
        PROVE  t[p] = r[p]
    <2> DEFINE e == t[p]
               f == r[p]
    <2>1. PathTrue(d, n, e, p) /\ PathTrue(d, n, f, p)
      BY <1>1 DEF TreeTrue
    <2>2. /\ IsEntry(e) /\ (e.kind \in {"d", "f"} => e.dev = Unnumbered)
          /\ IsEntry(f) /\ (f.kind \in {"d", "f"} => f.dev = Unnumbered)
      BY <1>1 DEF TreeTrue, IsTree
    <2>3. /\ e.kind = "d" <=> f.kind = "d"
          /\ (\A i \in 1 .. n : ~Mentions(d[i], p)) => e.perm.mode = f.perm.mode
      BY DEF Follows
    <2> HIDE DEF e, f
    <2>4. e.perm.mode = f.perm.mode /\ e.perm.uid = f.perm.uid /\ e.perm.gid = f.perm.gid
      <3>1. CASE \A i \in 1 .. n : ~Mentions(d[i], p)
        BY <2>1, <2>3, <3>1 DEF PathTrue
      <3>2. CASE \E i \in 1 .. n : Mentions(d[i], p)
        <4>1. PICK i \in 1 .. n : LastMention(d, n, i, p)
          BY <1>0, <3>2, LastExists
        <4>2. d[i].fields >= 5
          BY <1>0 DEF Complete, Range
        <4> QED BY <2>1, <4>1, <4>2 DEF PathTrue
      <3> QED BY <3>1, <3>2
    <2>5. e.kind = f.kind /\ e.dev = f.dev
      <3>1. CASE \A i \in 1 .. n : ~Renumbers(d[i], p)
        <4>1. e.kind \in {"d", "f"} /\ f.kind \in {"d", "f"}
          BY <2>1, <3>1 DEF PathTrue
        <4> QED BY <2>2, <2>3, <4>1
      <3>2. CASE \E i \in 1 .. n : Renumbers(d[i], p)
        <4>1. PICK i \in 1 .. n : LastNumber(d, n, i, p)
          BY <1>0, <3>2, LastExists
        <4>2. PICK x \in Asks(d[i]) : x[1] = p
          BY <4>1 DEF LastNumber, Renumbers, Mentions, AskedFor
        <4> QED BY <2>1, <4>1, <4>2 DEF PathTrue
      <3> QED BY <3>1, <3>2
    <2>6. e = f
      BY <2>2, <2>4, <2>5 DEF IsEntry
    <2> QED BY <2>6 DEF e, f
  <1> QED BY <1>1, <1>2

\* The second makedevs cannot complain of a line that the first has taken, and creates nothing.
LEMMA LineFollows ==
    ASSUME NEW d, AreDevices(d), Complete(d), NEW n \in Nat, n + 1 \in 1 .. Len(d),
           NEW r, TreeTrue(d, Len(d), r), Follows(d, n, tree, r), TreeTrue(d, n, tree),
           NEW l, l = d[n + 1], devs = "reading",
           SkipLine(l) \/ Dies(l) \/ TakeDirectory(l) \/ TakeFile(l) \/ TakeNodes(l) \/ TakeOther(l)
    PROVE  devs' = "reading"
  <1>1. /\ Taken(l, r) /\ l.fields >= 5 /\ IsDevice(l)
    BY DEF TreeTrue, AreDevices, Complete, Range
  <1>2. \A p : DirIn(r, p) <=> IsDir(p)
    BY DEF Follows, DirIn, IsDir
  <1>3. \A p \in DOMAIN r : p \in DOMAIN tree /\ (r[p].kind = "d" <=> tree[p].kind = "d")
    BY DEF Follows
  <1>4. CASE SkipLine(l)
    BY <1>1, <1>4 DEF SkipLine, Complains, Taken
  <1>5. Counts(l) => Known(l)
    <2>1. l.fields \in Nat
      BY <1>1, DeviceNumbers
    <2>2. User(l) = l.user /\ Group(l) = l.group
      BY <1>1, <2>1 DEF User, Group
    <2> QED BY <1>1, <2>2 DEF Known, Taken
  <1>6. CASE Dies(l)
    BY <1>5, <1>6 DEF Dies
  <1>7. CASE TakeDirectory(l)
    <2>1. Counts(l) /\ l.type = "d" /\ Complains(Barred(l.name))
      BY <1>7 DEF TakeDirectory, Takes
    <2>2. ~Barred(l.name)
      BY <1>1, <1>2, <2>1 DEF Taken, Barred
    <2> QED BY <2>1, <2>2 DEF Complains
  <1>8. CASE TakeFile(l)
    <2>1. Counts(l) /\ l.type = "f"
      BY <1>8 DEF TakeFile, Takes
    <2> DEFINE fits == l.name \in DOMAIN tree /\ tree[l.name].kind = "f"
    <2>2. \E there \in {fits} : Complains(~there)
      BY <1>8 DEF TakeFile
    <2>3. l.name \in DOMAIN tree /\ tree[l.name].kind # "d"
      BY <1>1, <1>3, <2>1 DEF Taken
    <2>4. \A j \in 1 .. n : ~Renumbers(d[j], l.name)
      <3>1. \A j \in 1 .. n : j \in 1 .. n + 1 - 1
        OBVIOUS
      <3> QED BY <2>1, <3>1 DEF TreeTrue, FilesFirst
    <2>5. tree[l.name].kind \in {"d", "f"}
      BY <2>3, <2>4 DEF TreeTrue, PathTrue
    <2>6. fits
      BY <2>3, <2>5
    <2> HIDE DEF fits
    <2> QED BY <2>2, <2>6 DEF Complains
  <1>9. CASE TakeNodes(l)
    <2>1. Counts(l) /\ NodeLine(l)
      BY <1>9 DEF TakeNodes, Takes, NodeLine
    <2> DEFINE fit == {x \in Nodes(l) : IsDir(Parent(x[1])) /\ ~IsDir(x[1])}
    <2>2. \E made \in {fit} : Complains(made # Nodes(l))
      BY <1>9 DEF TakeNodes
    <2>3. ASSUME NEW x \in Nodes(l)
          PROVE  IsDir(Parent(x[1])) /\ ~IsDir(x[1])
      <3>1. PICK y \in Asks(l) : y[1] = x[1]
        BY <1>1, <2>1, NodesAre DEF AskedFor
      <3>2. /\ x[1] \in DOMAIN r /\ r[x[1]].kind # "d"
            /\ x[1] # <<>> /\ DirIn(r, Parent(x[1]))
        BY <1>1, <2>1, <3>1 DEF Taken
      <3> QED BY <1>2, <3>2 DEF DirIn
    <2>4. fit = Nodes(l)
      BY <2>3
    <2> HIDE DEF fit
    <2> QED BY <2>2, <2>4 DEF Complains
  <1>10. CASE TakeOther(l)
    <2>1. Counts(l) /\ l.type \notin {"c", "b", "p", "d", "f"}
      BY <1>10 DEF TakeOther, Takes
    <2> QED BY <1>1, <2>1 DEF Taken, NodeLine
  <1> QED BY <1>4, <1>6, <1>7, <1>8, <1>9, <1>10


LEMMA AboveNamed ==
    ASSUME NEW p, IsSequence(p), NEW q \in Above(p)
    PROVE  q # <<>>
  <1>1. PICK k \in 1 .. Len(p) - 1 : q = SubSeq(p, 1, k)
    BY DEF Above
  <1>2. Len(p) \in Nat /\ p = [i \in 1 .. Len(p) |-> p[i]]
    BY DEF IsSequence
  <1>3. k \in Int /\ 1 <= k /\ \A i \in 1 .. k : p[i] \in Range(p)
    <2>1. \A i \in 1 .. k : i \in DOMAIN p
      BY <1>2
    <2> QED BY <1>2, <2>1 DEF Range
  <1>4. Len(q) = k - 1 + 1
    BY <1>1, <1>3, SubSeqProperties
  <1> QED BY <1>3, <1>4

LEMMA FollowsOn ==
    ASSUME NEW d, NEW n \in Nat, n + 1 \in 1 .. Len(d),
           NEW r, TreeTrue(d, Len(d), r), Follows(d, n, tree, r),
           NEW l, l = d[n + 1], IsDevice(l),
           \/ Counts(l) /\ Known(l) /\ (NodeLine(l) \/ l.type \in {"d", "f"}) /\ Does(l)
           \/ ~Counts(l) /\ (l.fields = 0 \/ l.comment) /\ tree' = tree
    PROVE  Follows(d, n + 1, tree', r)
  <1>1. /\ Taken(l, r) /\ DOMAIN tree = DOMAIN r
        /\ \A p \in DOMAIN r :
              /\ tree[p].kind = "d" <=> r[p].kind = "d"
              /\ (\A i \in 1 .. n : ~Mentions(d[i], p)) => tree[p].perm.mode = r[p].perm.mode
    BY DEF TreeTrue, Follows
  <1>2. \A p : (\A i \in 1 .. n + 1 : ~Mentions(d[i], p)) =>
                   ~Mentions(l, p) /\ \A i \in 1 .. n : ~Mentions(d[i], p)
    <2>1. n + 1 \in 1 .. n + 1 /\ \A i \in 1 .. n : i \in 1 .. n + 1
      OBVIOUS
    <2> QED BY <2>1
  <1>3. CASE ~Counts(l) /\ tree' = tree
    BY <1>1, <1>2, <1>3 DEF Follows
  <1>4. CASE Counts(l) /\ Does(l)
    <2>1. \A p : Mentions(l, p) <=> AskedFor(l, p)
      BY <1>4 DEF Mentions
    <2>2. ASSUME NEW p \in DOMAIN tree'
          PROVE  p \in DOMAIN tree
      <3> SUFFICES ASSUME p \notin DOMAIN tree PROVE FALSE
        OBVIOUS
      <3>1. AskedFor(l, p) \/ (l.type = "d" /\ p \in Above(l.name))
        BY <1>4 DEF Does
      <3>2. ~AskedFor(l, p)
        BY <1>1, <2>1, TakenThere
      <3>3. l.type = "d" /\ p \in Above(l.name) /\ DirIn(r, p)
        BY <1>1, <1>4, <3>1, <3>2 DEF Taken
      <3>4. p # <<>>
        BY <3>3, AboveNamed DEF IsDevice
      <3> QED BY <1>1, <3>3, <3>4 DEF DirIn
    <2>3. DOMAIN tree' = DOMAIN r
      BY <1>1, <1>4, <2>2 DEF Does
    <2>4. ASSUME NEW p \in DOMAIN r
          PROVE  /\ tree'[p].kind = "d" <=> r[p].kind = "d"
                 /\ (\A i \in 1 .. n + 1 : ~Mentions(d[i], p)) =>
                       tree'[p].perm.mode = r[p].perm.mode
      <3>1. /\ tree'[p].kind = "d" <=> tree[p].kind = "d"
            /\ ~AskedFor(l, p) => tree'[p] = tree[p]
        BY <1>1, <1>4 DEF Does
      <3> QED BY <1>1, <1>2, <2>1, <3>1
    <2> QED BY <2>3, <2>4 DEF Follows
  <1> QED BY <1>3, <1>4

\* The images of a make agree on the files that makedevs has not complained of.
SameTree(b) ==
    /\ TreeTrue(asked.devices, Len(asked.devices), b.tree)
    /\ IF at = "fakeroot"
       THEN devs \in {"reading", "ok"} /\ Follows(asked.devices, HasTaken, tree, b.tree)
       ELSE tree = b.tree
TreesInv ==
    World /\ Complete(asked.devices) =>
        \A i \in Generated : binaries[i].devs = "ok" => SameTree(binaries[i])

LEMMA TreesNodes ==
    ASSUME GivenInv, NodesInv, at = "fakeroot", at' = "fakeroot", MakedevsNext, UNCHANGED asked,
           NEW b, SameTree(b), Complete(asked.devices)
    PROVE  devs' \in {"reading", "ok"} /\ Follows(asked.devices, HasTaken', tree', b.tree)
  <1> DEFINE d == asked.devices
             n == HasTaken
             r == b.tree
  <1>1. /\ AreDevices(d) /\ devs \in {"reading", "ok"}
        /\ TreeTrue(d, Len(d), r) /\ Follows(d, n, tree, r)
    BY AskedDevices DEF SameTree
  <1>2. Rest(d, n, unread) /\ TreeTrue(d, n, tree)
    BY <1>1 DEF NodesInv, Going
  <1>3. asked'.devices = d
    OBVIOUS
  <1>4. ASSUME NEW m, Rest(d, m, unread')
        PROVE  HasTaken' = m
    BY <1>1, <1>3, <1>4, HasTakenIs DEF HasTaken
  <1> HIDE DEF d, n, r
  <1>5. CASE Exits
    <2>1. devs' = "ok" /\ tree' = tree /\ unread' = unread
      BY <1>5 DEF Exits
    <2>2. HasTaken' = n
      BY <1>2, <1>4, <2>1
    <2> QED BY <1>1, <2>1, <2>2 DEF d, r
  <1>6. CASE ~Exits
    <2>1. PICK l : /\ l = d[n + 1] /\ n \in Nat /\ n + 1 \in 1 .. Len(d) /\ IsDevice(l)
                   /\ \/ Dies(l)
                      \/ /\ SkipLine(l) \/ TakeDirectory(l) \/ TakeFile(l)
                            \/ TakeNodes(l) \/ TakeOther(l)
                         /\ Rest(d, n + 1, unread')
      BY <1>1, <1>2, <1>6, MakedevsStep
    <2>2. devs = "reading"
      BY <1>1, <1>2, MakedevsStep
    <2>3. Complete(d)
      BY DEF d
    <2>4. devs' = "reading"
      BY <1>1, <1>2, <2>1, <2>2, <2>3, LineFollows
    <2>5. ~Dies(l)
      BY <2>4 DEF Dies
    <2>6. IsTree(tree)
      BY <1>2 DEF TreeTrue
    <2>7. \/ Counts(l) /\ Known(l) /\ (NodeLine(l) \/ l.type \in {"d", "f"}) /\ Does(l)
          \/ ~Counts(l) /\ (l.fields = 0 \/ l.comment) /\ tree' = tree
      BY <2>1, <2>2, <2>4, <2>5, <2>6, LineDoes
    <2>8. Follows(d, n + 1, tree', r)
      BY <1>1, <2>1, <2>7, FollowsOn
    <2>9. HasTaken' = n + 1
      BY <1>4, <2>1, <2>5
    <2> QED BY <2>4, <2>8, <2>9 DEF d, r
  <1> QED BY <1>5, <1>6

LEMMA TreesStart == ImageInit => TreesInv
  BY DEF ImageInit, TreesInv, World

LEMMA TreesStay ==
    ASSUME GivenInv, ControlInv, NodesInv, WholeInv, TreesInv, [ImageNext]_ivars
    PROVE  TreesInv'
  <1>0. config' = config => ImageNames' = ImageNames
    BY DEF ImageNames
  <1>1. ASSUME UNCHANGED <<asked, goal, tree>>, World' => World, at # "fakeroot", at' # "fakeroot",
               World => Generated' \subseteq Generated /\ \A i \in Generated : binaries'[i] = binaries[i]
        PROVE  TreesInv'
    BY <1>1 DEF TreesInv, SameTree
  <1>2. CASE UNCHANGED ivars
    <2>1. Generated' = Generated /\ World' = World
      BY <1>0, <1>2 DEF ivars, makevars, Generated, World
    <2> QED BY <1>2, <2>1 DEF ivars, makevars, mvars, TreesInv, SameTree, HasTaken
  <1>3. ASSUME NEW g \in config.goals, NEW t \in config.users, NEW d \in config.devices,
               MakeStarts(g, t, d)
        PROVE  TreesInv'
    <2>1. g \in Goals
      BY ConfigIs DEF GivenInv, Goals
    <2>2. PICK r, s : JobParts(g, r, s)
      BY <2>1, JobsAre DEF GivenInv
    <2>3. config' = config /\ goal' = g /\ jobs' = Jobs[g] /\ at' = ""
      BY <1>3 DEF MakeStarts, ControlInv
    <2>4. g \in {"all", "rebuild"} => Range(config.targets) \subseteq Range(jobs')
      BY <2>2, <2>3, JobsOrdered
    <2>5. World' => Generated' = {}
      BY <2>3, <2>4 DEF World, Generated, ImageNames
    <2> QED BY <2>5 DEF TreesInv
  <1>4. CASE MakeEnds
    <2>1. UNCHANGED <<asked, goal, tree, config, jobs, at, binaries>> /\ World' = World
      BY <1>4 DEF MakeEnds, mvars, World
    <2>2. Generated' = Generated /\ at # "fakeroot"
      BY <1>0, <1>4, <2>1 DEF Generated, ControlInv, MakeEnds
    <2> QED BY <1>1, <2>1, <2>2
  <1>5. CASE KernelJobDone
    <2>1. UNCHANGED <<asked, goal, tree, outcome>> /\ at = "" /\ at' = ""
      BY <1>5 DEF KernelJobDone, Kept, mvars
    <2>2. World' = World
      BY <2>1 DEF World
    <2>3. World => Generated' \subseteq Generated /\ \A i \in Generated : binaries'[i] = binaries[i]
      BY <1>5, GeneratedStay
    <2> QED BY <1>1, <2>1, <2>2, <2>3
  <1>6. CASE Broken
    BY <1>6 DEF Broken, TreesInv, World
  <1>7. CASE Archived
    <2>1. /\ at = "fakeroot" /\ at' = "restore" /\ Ended
          /\ UNCHANGED <<config, asked, goal, outcome, jobs, tree, devs>>
      BY <1>7 DEF Archived, Kept, mvars
    <2> DEFINE b == [kind |-> "whole", make |-> makes, passwd |-> passwd, group |-> group,
                     tree |-> tree, devs |-> devs, warning |-> warning]
               d == asked.devices
    <2>2. binaries' = [binaries EXCEPT ![Head(jobs)] = b]
      BY <1>7 DEF Archived
    <2>3. b.tree = tree /\ b.devs = devs
      OBVIOUS
    <2> HIDE DEF b
    <2>4. /\ \A i \in DOMAIN binaries : i # Head(jobs) => binaries'[i] = binaries[i]
          /\ binaries'[Head(jobs)] = b
      BY <2>1, <2>2, ImageAlone
    <2>5. Generated' \subseteq Generated \cup {Head(jobs)} /\ Generated' \subseteq DOMAIN binaries
      BY <1>0, <2>1 DEF Generated, ControlInv
    <2>6. AreDevices(d)
      BY AskedDevices
    <2>7. devs \in {"reading", "ok"} =>
              HasTaken = Len(d) /\ TreeTrue(d, Len(d), tree)
      <3> SUFFICES ASSUME devs \in {"reading", "ok"}
                   PROVE  HasTaken = Len(d) /\ TreeTrue(d, Len(d), tree)
        OBVIOUS
      <3>1. Rest(d, HasTaken, <<>>) /\ TreeTrue(d, HasTaken, tree)
        BY <2>1 DEF Ended, NodesInv, Going
      <3>2. HasTaken = Len(d)
        BY <2>6, <3>1, RestEnds
      <3> QED BY <3>1, <3>2
    <2>8. ASSUME World, Complete(d), NEW i \in Generated', binaries'[i].devs = "ok"
          PROVE  TreeTrue(d, Len(d), binaries'[i].tree) /\ tree = binaries'[i].tree
      <3>1. CASE i = Head(jobs)
        BY <2>3, <2>4, <2>7, <2>8, <3>1
      <3>2. CASE i # Head(jobs)
        <4>1. i \in Generated /\ binaries'[i] = binaries[i]
          BY <2>4, <2>5, <3>2
        <4>2. SameTree(binaries[i])
          BY <2>8, <4>1 DEF TreesInv
        <4>3. /\ TreeTrue(d, Len(d), binaries[i].tree) /\ devs \in {"reading", "ok"}
              /\ Follows(d, HasTaken, tree, binaries[i].tree)
          BY <2>1, <4>2 DEF SameTree
        <4>4. tree = binaries[i].tree
          BY <2>6, <2>7, <2>8, <4>3, TreesAgree
        <4> QED BY <4>1, <4>3, <4>4
      <3> QED BY <3>1, <3>2
    <2>9. World' = World
      BY <2>1 DEF World
    <2> QED BY <2>1, <2>8, <2>9 DEF TreesInv, SameTree
  <1>8. CASE Prepare
    <2>1. UNCHANGED <<asked, goal, tree, config, jobs, outcome, binaries>> /\ at = "" /\ at' = "users"
      BY <1>8 DEF Prepare, mvars
    <2>2. Generated' = Generated /\ World' = World
      BY <1>0, <2>1 DEF Generated, World
    <2> QED BY <1>1, <2>1, <2>2
  <1>9. CASE EnterUsers
    <2>1. UNCHANGED <<asked, goal, tree, config, jobs, outcome, binaries, at>> /\ at = "users"
      BY <1>9 DEF EnterUsers, makevars, mvars
    <2>2. Generated' = Generated /\ World' = World
      BY <1>0, <2>1 DEF Generated, World
    <2> QED BY <1>1, <2>1, <2>2
  <1>10. CASE Fakeroot
    <2>1. /\ at = "users" /\ at' = "fakeroot"
          /\ UNCHANGED <<config, asked, goal, outcome, jobs, binaries>>
          /\ tree' = Faked /\ unread' = asked.devices /\ devs' = "reading"
      BY <1>10 DEF Fakeroot, MakedevsStarts
    <2>2. Generated' = Generated /\ World' = World
      BY <1>0, <2>1 DEF Generated, World
    <2>3. HasTaken' = 0
      <3>1. AreDevices(asked.devices)
        BY AskedDevices
      <3> QED BY <2>1, <3>1, RestBegins, HasTakenIs DEF HasTaken
    <2>4. Follows(asked.devices, 0, tree', tree)
      BY <2>1 DEF Follows, Faked, Entry, Perm
    <2> QED BY <2>1, <2>2, <2>3, <2>4 DEF TreesInv, SameTree
  <1>11. CASE MakeNodes
    <2>1. /\ at = "fakeroot" /\ MakedevsNext
          /\ UNCHANGED <<config, asked, goal, outcome, jobs, binaries, at>>
      BY <1>11 DEF MakeNodes, makevars
    <2>2. Generated' = Generated /\ World' = World
      BY <1>0, <2>1 DEF Generated, World
    <2>3. ASSUME World, Complete(asked.devices), NEW i \in Generated, binaries[i].devs = "ok"
          PROVE  SameTree(binaries[i])'
      <3>1. SameTree(binaries[i])
        BY <2>3 DEF TreesInv
      <3>2. devs' \in {"reading", "ok"} /\ Follows(asked.devices, HasTaken', tree', binaries[i].tree)
        BY <2>1, <2>3, <3>1, TreesNodes
      <3> QED BY <2>1, <3>1, <3>2 DEF SameTree
    <2> QED BY <2>1, <2>2, <2>3 DEF TreesInv
  <1>12. CASE Restore
    <2>1. /\ at = "restore" /\ at' = "" /\ jobs' = Tail(jobs)
          /\ UNCHANGED <<config, asked, goal, outcome, binaries, tree>>
      BY <1>12 DEF Restore, Next1, Kept, mvars
    <2>2. Generated' \subseteq Generated
      BY <1>0, <2>1, RestoreGenerated
    <2>3. World' = World
      BY <2>1 DEF World
    <2> QED BY <1>1, <2>1, <2>2, <2>3
  <1> QED
    BY <1>2, <1>3, <1>4, <1>5, <1>6, <1>7, <1>8, <1>9, <1>10, <1>11, <1>12, ImageSteps


\* After a make that succeeds, whatever makes and mishaps there were before, all
\* images are whole, of this make, with the users that TARGET_DIR has, and agree on
\* files and nodes; the kernel has its initramfs or its device tree.  That mkusers,
\* run again for each image, changes nothing is RerunWithin.
ImagesInv == GivenInv /\ ControlInv /\ OrderInv /\ KernelInv /\ NodesInv /\ WholeInv /\ TreesInv

THEOREM ImageCorrect == ImageSpec => []ImageTrue
  <1>1. ImageInit => ImagesInv
    <2> SUFFICES ASSUME ImageInit PROVE ImagesInv
      OBVIOUS
    <2>1. NodesInv
      BY DEF ImageInit, NodesInv, Going
    <2>2. OrderInv
      <3>1. jobs = <<>> /\ ~World
        BY DEF ImageInit, World
      <3>2. \A x \in DOMAIN <<>> : FALSE
        OBVIOUS
      <3> QED BY <3>1, <3>2 DEF OrderInv
    <2> QED BY <2>1, <2>2, GivenStarts, ControlStarts, KernelStarts, WholeStarts, TreesStart DEF ImagesInv
  <1>2. ImagesInv /\ RerunIdle /\ [ImageNext]_ivars => ImagesInv'
    BY GivenStays, ControlStays, OrderStays, KernelStays, NodesStay, WholeStays, TreesStay DEF ImagesInv
  <1>3. ImagesInv => ImageTrue
    <2> SUFFICES ASSUME ImagesInv, outcome = "ok", goal \in {"all", "rebuild"}
                 PROVE  /\ warning = TRUE
                        /\ \A i \in Images :
                              /\ i.kind = "whole" /\ i.make = makes /\ i.warning = FALSE
                              /\ i.passwd = passwd /\ i.group = group
                        /\ \A i, j \in Images :
                              i.devs = "ok" /\ j.devs = "ok" /\ Complete(asked.devices) => i.tree = j.tree
                        /\ config.kernel => binaries["kernel"].kind = "whole"
                        /\ config.initramfs => binaries["kernel"].root = Root
                        /\ Appends => binaries["kernel"].dtbs > 0
      BY DEF ImageTrue, Complete, Appends
    <2>1. World /\ jobs = <<>> /\ at = ""
      BY DEF World, ImagesInv, ControlInv
    <2>2. \A x : x \notin Range(<<>>)
      BY DEF Range
    <2>3. Generated = ImageNames
      BY <2>1, <2>2 DEF Generated
    <2>4. warning = TRUE
      BY <2>1, <2>3 DEF ImagesInv, WholeInv
    <2>5. ASSUME NEW i \in Images
          PROVE  /\ i.kind = "whole" /\ i.make = makes /\ i.warning = FALSE
                 /\ i.passwd = passwd /\ i.group = group
                 /\ i.devs = "ok" /\ Complete(asked.devices) => i.tree = tree
      <3>1. PICK k \in ImageNames : i = binaries[k]
        BY DEF Images
      <3>2. IsWhole(i) /\ HasUsers(i)
        BY <2>1, <2>3, <3>1 DEF ImagesInv, WholeInv
      <3>3. i.devs = "ok" /\ Complete(asked.devices) => SameTree(i)
        BY <2>1, <2>3, <3>1 DEF ImagesInv, TreesInv
      <3> QED BY <2>1, <3>2, <3>3 DEF IsWhole, HasUsers, SameTree
    <2>6. config.kernel => "install" \in stamps
      <3>1. \A x \in DOMAIN <<>> : FALSE
        OBVIOUS
      <3> QED BY <2>1, <3>1 DEF ImagesInv, OrderInv
    <2>7. /\ config.kernel => binaries["kernel"].kind = "whole"
          /\ Appends /\ config.kernel => binaries["kernel"].dtbs > 0
      BY <2>6 DEF ImagesInv, KernelInv
    <2>8. config.initramfs => binaries["kernel"].root = Root
      BY <2>1, <2>2 DEF ImagesInv, OrderInv
    <2>9. Appends => config.kernel
      BY ConfigIs DEF ImagesInv, GivenInv, Appends
    <2> QED BY <2>4, <2>5, <2>7, <2>8, <2>9
  <1> QED BY <1>1, <1>2, <1>3, RerunWithin, PTL DEF ImageSpec


=============================================================================
