-------------------------- MODULE ApplyPatchesProofs --------------------------
(***************************************************************************)
(* apply-patches.sh applies patches in the order its comments describe,    *)
(* and all of them where it looks for them in the right place: theorems    *)
(* about ApplyPatches for every tree of directories, however deep.         *)
(*                                                                         *)
(* The reference of both properties, Meant, is recursive over the          *)
(* directories and over the names in them.  The first two sections show    *)
(* that the recursions are well-founded, which gives their equations; the  *)
(* proofs about the script need nothing else of them.                      *)
(***************************************************************************)
EXTENDS ApplyPatches, SequenceTheorems, NaturalsInduction, WellFoundedInduction, TLAPS

-----------------------------------------------------------------------------
(* FlattenSeq.                                                             *)

\* Concatenation, under a name that the provers leave alone.
Cat(u, v) == u \o v

LEMMA CatProperties ==
    ASSUME NEW S, NEW u \in Seq(S), NEW v \in Seq(S)
    PROVE  /\ Cat(u, v) \in Seq(S) /\ Len(Cat(u, v)) = Len(u) + Len(v)
           /\ \A i \in 1 .. Len(u) + Len(v) :
                 Cat(u, v)[i] = IF i <= Len(u) THEN u[i] ELSE v[i - Len(u)]
           /\ Cat(u, <<>>) = u /\ Cat(<<>>, u) = u
  BY ConcatProperties, ConcatEmptySeq DEF Cat

LEMMA CatAssociative ==
    \A S : \A u, v, w \in Seq(S) : Cat(Cat(u, v), w) = Cat(u, Cat(v, w))
  BY ConcatAssociative DEF Cat

\* A nonempty set of naturals has a least element.
LEMMA Smallest ==
    ASSUME NEW S \in SUBSET Nat, S # {}
    PROVE  \E n \in S : \A m \in S : n <= m
  <1> DEFINE lesser == {p \in Nat \X Nat : p[1] < p[2]}
  <1>1. IsWellFoundedOn(lesser, Nat)
    BY NatLessThanWellFounded DEF OpToRel
  <1> HIDE DEF lesser
  <1>2. PICK n \in S : \A m \in S : ~(<<m, n>> \in lesser)
    BY <1>1, WFMin
  <1>3. \A m \in S : m < n => <<m, n>> \in lesser
    BY DEF lesser
  <1>4. ASSUME NEW m \in S
        PROVE  n <= m
    <2>1. m \in Nat /\ n \in Nat
      OBVIOUS
    <2>2. ~(m < n)
      BY <1>2, <1>3
    <2> QED BY <2>1, <2>2
  <1> QED BY <1>4

\* One turn of the recursion.
Joined(f, s, i) == IF i = 1 THEN s[i] ELSE Cat(f[i - 1], s[i])
Joins(f, s) == f = [i \in 1 .. Len(s) |-> Joined(f, s, i)]

\* The recursion of FlattenSeq has a solution, however long the sequence.
LEMMA JoinedExists ==
    ASSUME NEW s, NEW n \in Nat
    PROVE  \E f : f = [i \in 1 .. n |-> Joined(f, s, i)]
  <1> DEFINE Solved(m) == \E f : f = [i \in 1 .. m |-> Joined(f, s, i)]
             bad == {m \in Nat : ~Solved(m)}
  <1> SUFFICES ASSUME bad # {} PROVE FALSE
    OBVIOUS
  <1>1. PICK m \in bad : \A k \in bad : m <= k
    BY Smallest
  <1>2. m # 0
    <2> DEFINE f == [i \in 1 .. 0 |-> s]
    <2>1. f = [i \in 1 .. 0 |-> Joined(f, s, i)]
      OBVIOUS
    <2> QED BY <2>1
  <1>3. PICK f : f = [i \in 1 .. m - 1 |-> Joined(f, s, i)]
    BY <1>1, <1>2
  <1> DEFINE g == [i \in 1 .. m |-> Joined(f, s, i)]
  <1>4. \A i \in 1 .. m - 1 : f[i] = Joined(f, s, i)
    BY <1>3
  <1>5. \A i \in 1 .. m - 1 : g[i] = f[i]
    BY <1>4
  <1>6. ASSUME NEW i \in 1 .. m
        PROVE  Joined(g, s, i) = Joined(f, s, i)
    <2>1. i = 1 \/ i - 1 \in 1 .. m - 1
      BY <1>1
    <2>2. i = 1 \/ g[i - 1] = f[i - 1]
      BY <2>1, <1>5
    <2> HIDE DEF g
    <2> QED BY <2>2 DEF Joined
  <1>7. g = [i \in 1 .. m |-> Joined(g, s, i)]
    BY <1>6
  <1> QED BY <1>7

LEMMA FlattenIs ==
    ASSUME NEW s, Len(s) \in Nat \ {0}
    PROVE  \E f : Joins(f, s) /\ FlattenSeq(s) = f[Len(s)]
  <1> DEFINE f == CHOOSE f : f = [i \in 1 .. Len(s) |-> Joined(f, s, i)]
  <1>1. f = [i \in 1 .. Len(s) |-> Joined(f, s, i)]
    BY JoinedExists
  <1>2. FlattenSeq(s) = f[Len(s)]
    BY DEF FlattenSeq, Joined, Cat
  <1> QED BY <1>1, <1>2 DEF Joins

\* All sequences joined so far are sequences.
LEMMA JoinedType ==
    ASSUME NEW S, NEW s \in Seq(Seq(S)), NEW f, Joins(f, s),
           NEW i \in 1 .. Len(s)
    PROVE  f[i] \in Seq(S)
  <1> DEFINE n == Len(s)
             bad == {j \in 1 .. n : f[j] \notin Seq(S)}
  <1>1. n \in Nat /\ \A j \in 1 .. n : s[j] \in Seq(S) /\ f[j] = Joined(f, s, j)
    BY LenProperties, ElementOfSeq DEF Joins
  <1> HIDE DEF n
  <1> SUFFICES ASSUME bad # {} PROVE FALSE
    BY DEF n
  <1>2. bad \in SUBSET Nat
    BY <1>1
  <1>3. PICK m \in bad : \A k \in bad : m <= k
    BY <1>2, Smallest
  <1>4. m \in 1 .. n /\ m \in Nat /\ f[m] \notin Seq(S)
    BY <1>1
  <1> HIDE DEF bad
  <1>5. CASE m = 1
    BY <1>1, <1>4, <1>5 DEF Joined
  <1>6. CASE m # 1
    <2>1. m - 1 \in 1 .. n /\ m - 1 \in Nat /\ m - 1 < m
      BY <1>1, <1>4, <1>6
    <2>2. m - 1 \notin bad
      BY <1>3, <1>4, <2>1
    <2>3. f[m - 1] \in Seq(S)
      BY <2>1, <2>2 DEF bad
    <2>4. f[m] = Cat(f[m - 1], s[m])
      BY <1>1, <1>4, <1>6 DEF Joined
    <2>5. s[m] \in Seq(S)
      BY <1>1, <1>4
    <2>6. Cat(f[m - 1], s[m]) \in Seq(S)
      BY <2>3, <2>5, CatProperties
    <2> QED BY <1>4, <2>4, <2>6
  <1> QED BY <1>5, <1>6

LEMMA FlattenEmpty == FlattenSeq(<<>>) = <<>>
  BY DEF FlattenSeq

LEMMA FlattenType ==
    ASSUME NEW S, NEW s \in Seq(Seq(S))
    PROVE  FlattenSeq(s) \in Seq(S)
  <1>1. CASE s = <<>>
    BY <1>1, FlattenEmpty, EmptySeq
  <1>2. CASE s # <<>>
    <2>1. Len(s) \in Nat \ {0}
      BY <1>2, EmptySeq
    <2>2. PICK f : Joins(f, s) /\ FlattenSeq(s) = f[Len(s)]
      BY <2>1, FlattenIs
    <2>3. Len(s) \in 1 .. Len(s)
      BY <2>1
    <2> QED BY <2>2, <2>3, JoinedType
  <1> QED BY <1>1, <1>2

\* What is joined from the second sequence on, and what is joined from the first.
LEMMA JoinedShift ==
    ASSUME NEW S, NEW s \in Seq(Seq(S)), s # <<>>,
           NEW f, Joins(f, s), NEW g, Joins(g, Tail(s)),
           NEW i \in 1 .. Len(Tail(s))
    PROVE  f[i + 1] = Cat(s[1], g[i])
  <1> DEFINE t == Tail(s)
             n == Len(t)
  <1>1. /\ n \in Nat /\ t \in Seq(Seq(S)) /\ Len(s) = n + 1
        /\ \A j \in 1 .. n : t[j] = s[j + 1]
    BY HeadTailProperties, LenProperties
  <1>2. s[1] \in Seq(S) /\ \A j \in 1 .. n : t[j] \in Seq(S) /\ g[j] \in Seq(S)
    <2>1. 1 \in 1 .. Len(s)
      BY <1>1
    <2>2. s[1] \in Seq(S)
      BY <2>1, ElementOfSeq
    <2>3. ASSUME NEW j \in 1 .. n
          PROVE  t[j] \in Seq(S) /\ g[j] \in Seq(S)
      <3>1. t[j] \in Seq(S)
        BY <1>1, ElementOfSeq
      <3> HIDE DEF t
      <3>2. g[j] \in Seq(S)
        BY <1>1, JoinedType DEF t
      <3> QED BY <3>1, <3>2
    <2> QED BY <2>2, <2>3
  <1>3. \A j \in 1 .. n + 1 : f[j] = Joined(f, s, j)
    BY <1>1 DEF Joins
  <1>4. \A j \in 1 .. n : g[j] = Joined(g, t, j)
    BY DEF Joins
  <1> DEFINE Shifted(j) == f[j + 1] = Cat(s[1], g[j])
             bad == {j \in 1 .. n : ~Shifted(j)}
  <1> HIDE DEF Shifted
  <1> SUFFICES ASSUME bad # {} PROVE FALSE
    BY DEF Shifted
  <1> HIDE DEF t, n
  <1>5. bad \in SUBSET Nat
    BY <1>1
  <1>6. PICK m \in bad : \A k \in bad : m <= k
    BY <1>5, Smallest
  <1>7. m \in 1 .. n /\ m \in Nat /\ ~Shifted(m)
    BY <1>1
  <1> HIDE DEF bad
  <1>8. m + 1 \in 1 .. n + 1 /\ m + 1 # 1 /\ (m + 1) - 1 = m
    BY <1>1, <1>7
  <1>9. f[m + 1] = Cat(f[m], t[m]) /\ t[m] \in Seq(S)
    BY <1>1, <1>2, <1>3, <1>7, <1>8 DEF Joined
  <1>10. CASE m = 1
    <2>1. f[1] = s[1] /\ g[1] = t[1]
      <3>1. 1 \in 1 .. n /\ 1 \in 1 .. n + 1
        BY <1>1, <1>7, <1>10
      <3> QED BY <1>3, <1>4, <3>1 DEF Joined
    <2> QED BY <1>7, <1>9, <1>10, <2>1 DEF Shifted
  <1>11. CASE m # 1
    <2>1. m - 1 \in 1 .. n /\ m - 1 \in Nat /\ m - 1 < m /\ (m - 1) + 1 = m
      BY <1>1, <1>7, <1>11
    <2>2. m - 1 \notin bad
      BY <1>6, <1>7, <2>1
    <2>3. f[m] = Cat(s[1], g[m - 1]) /\ g[m - 1] \in Seq(S)
      BY <1>2, <2>1, <2>2 DEF bad, Shifted
    <2>4. g[m] = Cat(g[m - 1], t[m])
      BY <1>4, <1>7, <1>11 DEF Joined
    <2>5. Cat(Cat(s[1], g[m - 1]), t[m]) = Cat(s[1], Cat(g[m - 1], t[m]))
      BY <1>2, <1>9, <2>3, CatAssociative
    <2>6. f[m + 1] = Cat(Cat(s[1], g[m - 1]), t[m])
      BY <1>9, <2>3
    <2> QED BY <1>7, <2>4, <2>5, <2>6 DEF Shifted
  <1> QED BY <1>10, <1>11

\* The sequences are joined from the left; this is the same as from the right.
LEMMA FlattenHead ==
    ASSUME NEW S, NEW s \in Seq(Seq(S)), s # <<>>
    PROVE  FlattenSeq(s) = Cat(Head(s), FlattenSeq(Tail(s)))
  <1> DEFINE n == Len(s)
             t == Tail(s)
             m == n - 1
  <1>1. n \in Nat \ {0} /\ s[1] \in Seq(S) /\ Head(s) = s[1]
    BY EmptySeq, ElementOfSeq
  <1>2. t \in Seq(Seq(S)) /\ Len(t) = m /\ \A i \in 1 .. m : t[i] = s[i + 1]
    BY HeadTailProperties
  <1>3. PICK f : Joins(f, s) /\ FlattenSeq(s) = f[n]
    BY <1>1, FlattenIs
  <1>4. \A i \in 1 .. n : f[i] = Joined(f, s, i)
    BY <1>3 DEF Joins
  <1>5. m \in Nat /\ n = m + 1
    BY <1>1
  <1> HIDE DEF n, t, m
  <1>6. CASE m = 0
    <2>1. t = <<>>
      BY <1>2, <1>6, EmptySeq
    <2>2. FlattenSeq(s) = s[1]
      BY <1>3, <1>4, <1>5, <1>6 DEF Joined
    <2> QED BY <1>1, <2>1, <2>2, FlattenEmpty, CatProperties DEF t
  <1>7. CASE m # 0
    <2>1. Len(t) \in Nat \ {0}
      BY <1>2, <1>5, <1>7
    <2>2. PICK g : Joins(g, t) /\ FlattenSeq(t) = g[Len(t)]
      BY <2>1, FlattenIs
    <2>3. Len(s) = m + 1 /\ m \in 1 .. Len(Tail(s))
      BY <1>2, <1>5, <1>7 DEF t, n
    <2>4. f[m + 1] = Cat(s[1], g[m])
      <3>1. Joins(g, Tail(s))
        BY <2>2 DEF t
      <3> QED BY <1>3, <2>3, <3>1, JoinedShift
    <2> QED BY <1>1, <1>2, <1>3, <1>5, <2>2, <2>4 DEF t
  <1> QED BY <1>6, <1>7

-----------------------------------------------------------------------------
(* Behind: the recursion over the directories.                             *)

\* The directories behind the names of directory d.
Inner(t, d) == {Inside[d][n] : n \in Range(t[d].names) \cap (Archive \cup Sub)}

Solves(f, t, D) == f = [d \in D |-> Row(f, d, t[d].names)]
Closed(t, D) == D \in SUBSET Dir /\ \A d \in D : Inner(t, d) \subseteq D

LEMMA BehindIs ==
    ASSUME NEW t
    PROVE  Behind(t) = CHOOSE f : Solves(f, t, Dir)
  BY DEF Behind, Solves

LEMMA InnermostOf ==
    ASSUME NEW t \in Trees, NEW D \in SUBSET Dir, D # {}
    PROVE  \E d \in D : Inner(t, d) \cap D = {}
  <1>1. PICK d \in D : \A n \in t[d].files \cap (Archive \cup Sub) : Inside[d][n] \notin D
    BY TreeAssumption DEF Innermost
  <1>2. Range(t[d].names) \cap (Archive \cup Sub) \subseteq t[d].files
    BY TreeAssumption
  <1>3. Inner(t, d) \cap D = {}
    BY <1>1, <1>2 DEF Inner
  <1> QED BY <1>3

\* A name is of a patch, of another file, or of what is behind the directory.
LEMMA NameKinds ==
    ASSUME NEW t \in Trees, NEW d \in Dir, NEW n \in Range(t[d].names)
    PROVE  /\ n \in Patch \/ n \in Other \/ n \in Archive \cup Sub
           /\ n \in Patch => n \notin Other /\ n \notin Archive \cup Sub
           /\ n \in Other => n \notin Patch /\ n \notin Archive \cup Sub
           /\ n \in Archive \cup Sub => Inside[d][n] \in Dir /\ Inside[d][n] \in Inner(t, d)
  <1>1. t[d].names \in Seq(Patch \cup Other \cup Archive \cup Sub)
    BY TreeAssumption
  <1>2. n \in Patch \cup Other \cup Archive \cup Sub
    BY <1>1, RangeOfSeq
  <1>3. n \in Archive \cup Sub => Inside[d][n] \in Dir
    BY TreeAssumption
  <1> QED BY <1>2, <1>3, TreeAssumption DEF Inner

LEMMA ItemIs ==
    ASSUME NEW t \in Trees, NEW d \in Dir, NEW n \in Range(t[d].names), NEW behind
    PROVE  /\ n \in Patch => Item(behind, d, n) = << <<d, n>> >>
           /\ n \in Other => Item(behind, d, n) = <<>>
           /\ n \in Archive \cup Sub => Item(behind, d, n) = behind[Inside[d][n]]
  BY NameKinds DEF Item

\* What is behind a directory depends on what is behind those in it alone.
LEMMA RowDepends ==
    ASSUME NEW t \in Trees, NEW d \in Dir, NEW f, NEW g,
           \A e \in Inner(t, d) : f[e] = g[e]
    PROVE  Row(f, d, t[d].names) = Row(g, d, t[d].names)
  <1> DEFINE names == t[d].names
  <1>1. ASSUME NEW i \in DOMAIN names
        PROVE  Item(f, d, names[i]) = Item(g, d, names[i])
    <2>1. names[i] \in Range(names)
      BY DEF Range
    <2>2. names[i] \in Archive \cup Sub => f[Inside[d][names[i]]] = g[Inside[d][names[i]]]
      BY <2>1, NameKinds
    <2> QED BY <2>2 DEF Item
  <1>2. [i \in DOMAIN names |-> Item(f, d, names[i])] = [i \in DOMAIN names |-> Item(g, d, names[i])]
    BY <1>1
  <1> QED BY <1>2 DEF Row

\* Two solutions agree where both are defined.
LEMMA SolutionsAgree ==
    ASSUME NEW t \in Trees, NEW D, NEW E, Closed(t, D), Closed(t, E),
           NEW f, NEW g, Solves(f, t, D), Solves(g, t, E),
           NEW d \in D \cap E
    PROVE  f[d] = g[d]
  <1> DEFINE bad == {e \in D \cap E : f[e] # g[e]}
  <1> SUFFICES ASSUME bad # {} PROVE FALSE
    OBVIOUS
  <1>1. bad \in SUBSET Dir
    BY DEF Closed
  <1>2. PICK e \in bad : Inner(t, e) \cap bad = {}
    BY <1>1, InnermostOf
  <1>3. e \in D /\ e \in E /\ e \in Dir /\ f[e] # g[e]
    BY <1>1
  <1>4. \A c \in Inner(t, e) : f[c] = g[c]
    BY <1>2, <1>3 DEF Closed
  <1>5. Row(f, e, t[e].names) = Row(g, e, t[e].names)
    BY <1>3, <1>4, RowDepends
  <1>6. f[e] = Row(f, e, t[e].names) /\ g[e] = Row(g, e, t[e].names)
    BY <1>3 DEF Solves
  <1> QED BY <1>3, <1>5, <1>6

\* Where every directory but one has its solution, and the one has none of the
\* others in it, all have.
LEMMA SolutionGrows ==
    ASSUME NEW t \in Trees, NEW D, Closed(t, D), NEW h, Solves(h, t, D),
           NEW d \in Dir \ D, Inner(t, d) \subseteq D
    PROVE  Closed(t, D \cup {d}) /\ \E g : Solves(g, t, D \cup {d})
  <1> DEFINE g == [e \in D \cup {d} |-> IF e = d THEN Row(h, d, t[d].names) ELSE h[e]]
  <1>1. \A e \in D : e # d /\ g[e] = h[e] /\ Inner(t, e) \subseteq D /\ e \in Dir
    BY DEF Closed
  <1>2. g[d] = Row(h, d, t[d].names)
    OBVIOUS
  <1>3. g = [e \in D \cup {d} |-> g[e]]
    OBVIOUS
  <1> HIDE DEF g
  <1>4. ASSUME NEW e \in D \cup {d}
        PROVE  g[e] = Row(g, e, t[e].names)
    <2>1. e \in Dir /\ \A c \in Inner(t, e) : g[c] = h[c]
      BY <1>1
    <2>2. Row(g, e, t[e].names) = Row(h, e, t[e].names)
      BY <2>1, RowDepends
    <2>3. e \in D => h[e] = Row(h, e, t[e].names)
      BY DEF Solves
    <2> QED BY <1>1, <1>2, <2>2, <2>3
  <1>5. Solves(g, t, D \cup {d})
    BY <1>3, <1>4 DEF Solves
  <1>6. Closed(t, D \cup {d})
    BY DEF Closed
  <1> QED BY <1>5, <1>6

\* The union of what is solved is solved.
LEMMA SolutionsJoin ==
    ASSUME NEW t \in Trees, NEW W,
           \A D \in W : Closed(t, D) /\ \E f : Solves(f, t, D)
    PROVE  Closed(t, UNION W) /\ \E g : Solves(g, t, UNION W)
  <1> DEFINE sol(D) == CHOOSE f : Solves(f, t, D)
             home(d) == CHOOSE D \in W : d \in D
             U == UNION W
             g == [d \in U |-> sol(home(d))[d]]
  <1>1. \A D \in W : Closed(t, D) /\ Solves(sol(D), t, D)
    OBVIOUS
  <1>2. \A d \in U : home(d) \in W /\ d \in home(d)
    OBVIOUS
  <1>3. \A d \in U : g[d] = sol(home(d))[d]
    OBVIOUS
  <1>4. g = [d \in U |-> g[d]]
    OBVIOUS
  <1>5. \A D \in W : D \subseteq U
    OBVIOUS
  <1>6. Closed(t, U)
    BY <1>1 DEF Closed
  <1> HIDE DEF g, home, sol, U
  <1>7. ASSUME NEW d \in U
        PROVE  g[d] = Row(g, d, t[d].names)
    <2> DEFINE D == home(d)
    <2>1. D \in W /\ d \in D /\ Closed(t, D) /\ Solves(sol(D), t, D)
      BY <1>1, <1>2
    <2>2. d \in Dir /\ Inner(t, d) \subseteq D
      BY <2>1 DEF Closed
    <2>3. ASSUME NEW c \in Inner(t, d)
          PROVE  g[c] = sol(D)[c]
      <3>1. c \in D /\ c \in U
        BY <1>5, <2>1, <2>2
      <3>2. home(c) \in W /\ c \in home(c) /\ Closed(t, home(c)) /\ Solves(sol(home(c)), t, home(c))
        BY <1>1, <1>2, <3>1
      <3>3. c \in D \cap home(c)
        BY <3>1, <3>2
      <3>4. sol(D)[c] = sol(home(c))[c]
        BY <2>1, <3>2, <3>3, SolutionsAgree
      <3> QED BY <1>3, <3>1, <3>4
    <2>4. Row(g, d, t[d].names) = Row(sol(D), d, t[d].names)
      BY <2>2, <2>3, RowDepends
    <2>5. sol(D)[d] = Row(sol(D), d, t[d].names)
      BY <2>1 DEF Solves
    <2> QED BY <1>3, <2>4, <2>5
  <1>8. Solves(g, t, U)
    BY <1>4, <1>7 DEF Solves
  <1> QED BY <1>6, <1>8 DEF U

\* Behind satisfies its equation, whatever the depth of the directories.
LEMMA BehindRow ==
    ASSUME NEW t \in Trees
    PROVE  \A d \in Dir : Behind(t)[d] = Row(Behind(t), d, t[d].names)
  <1> DEFINE Solved(D) == Closed(t, D) /\ \E f : Solves(f, t, D)
             W == {D \in SUBSET Dir : Solved(D)}
             U == UNION W
             rest == Dir \ U
  <1>1. Solved(U)
    BY SolutionsJoin
  <1>2. rest = {}
    <2> SUFFICES ASSUME rest # {} PROVE FALSE
      OBVIOUS
    <2>1. rest \in SUBSET Dir
      OBVIOUS
    <2>2. PICK d \in rest : Inner(t, d) \cap rest = {}
      <3> HIDE DEF rest
      <3> QED BY <2>1, InnermostOf
    <2>3. Inner(t, d) \subseteq Dir
      BY NameKinds DEF Inner
    <2>4. Inner(t, d) \subseteq U /\ d \in Dir \ U
      BY <2>2, <2>3
    <2>5. Solved(U \cup {d})
      <3> HIDE DEF U
      <3> QED BY <1>1, <2>4, SolutionGrows
    <2>6. U \cup {d} \in W
      BY <2>5 DEF Closed
    <2> QED BY <2>4, <2>6
  <1>3. U = Dir
    BY <1>1, <1>2 DEF Closed
  <1>4. Solves(Behind(t), t, Dir)
    <2>1. \E f : Solves(f, t, Dir)
      BY <1>1, <1>3
    <2> QED BY <2>1, BehindIs
  <1> QED BY <1>4 DEF Solves

\* What a patch is known by.
Known == Dir \X Patch

LEMMA ItemType ==
    ASSUME NEW t \in Trees, NEW d \in Dir, NEW n \in Range(t[d].names), NEW behind,
           \A e \in Inner(t, d) : behind[e] \in Seq(Known)
    PROVE  Item(behind, d, n) \in Seq(Known)
  <1>1. CASE n \in Patch
    <2>1. <<d, n>> \in Known
      BY <1>1 DEF Known
    <2>2. Item(behind, d, n) = << <<d, n>> >>
      BY <1>1, ItemIs
    <2> QED BY <2>1, <2>2
  <1>2. CASE n \in Other
    <2>1. Item(behind, d, n) = <<>>
      BY <1>2, ItemIs
    <2> QED BY <2>1, EmptySeq
  <1>3. CASE n \in Archive \cup Sub
    <2>1. Item(behind, d, n) = behind[Inside[d][n]]
      BY <1>3, ItemIs
    <2> QED BY <1>3, <2>1, NameKinds
  <1> QED BY <1>1, <1>2, <1>3, NameKinds

LEMMA BehindType ==
    ASSUME NEW t \in Trees, NEW d \in Dir
    PROVE  Behind(t)[d] \in Seq(Known)
  <1> DEFINE B == Behind(t)
             bad == {e \in Dir : B[e] \notin Seq(Known)}
  <1> SUFFICES ASSUME bad # {} PROVE FALSE
    OBVIOUS
  <1>1. bad \in SUBSET Dir
    OBVIOUS
  <1>2. PICK e \in bad : Inner(t, e) \cap bad = {}
    BY <1>1, InnermostOf
  <1>3. e \in Dir /\ B[e] \notin Seq(Known)
    OBVIOUS
  <1>4. Inner(t, e) \subseteq Dir
    BY <1>3, NameKinds DEF Inner
  <1>5. \A c \in Inner(t, e) : B[c] \in Seq(Known)
    BY <1>2, <1>4
  <1> DEFINE names == t[e].names
             items == [i \in DOMAIN names |-> Item(B, e, names[i])]
  <1>6. ASSUME NEW i \in DOMAIN names
        PROVE  Item(B, e, names[i]) \in Seq(Known)
    <2>1. names[i] \in Range(names)
      BY DEF Range
    <2> QED BY <1>3, <1>5, <2>1, ItemType
  <1>7. items \in Seq(Seq(Known))
    <2>1. DOMAIN names = 1 .. Len(names) /\ Len(names) \in Nat
      BY <1>3, TreeAssumption, LenProperties
    <2> HIDE DEF names
    <2> QED BY <1>6, <2>1, IsASeq
  <1>8. B[e] = FlattenSeq(items)
    BY <1>3, BehindRow DEF Row
  <1> QED BY <1>3, <1>7, <1>8, FlattenType

-----------------------------------------------------------------------------
(* What a scan still stands for: of its names, of the scans below it and of *)
(* the directories that follow in the loop.                                *)

LEMMA TailIs ==
    ASSUME NEW S, NEW s \in Seq(S), s # <<>>
    PROVE  Tail(s) = [i \in 1 .. Len(s) - 1 |-> s[i + 1]]
  <1> DEFINE t == Tail(s)
  <1>1. /\ t \in Seq(S) /\ Len(t) = Len(s) - 1
        /\ \A i \in 1 .. Len(t) : t[i] = s[i + 1]
    BY HeadTailProperties
  <1> HIDE DEF t
  <1>2. t \in [1 .. Len(t) -> S]
    BY <1>1, LenProperties
  <1>3. t = [i \in 1 .. Len(s) - 1 |-> s[i + 1]]
    BY <1>1, <1>2
  <1> QED BY <1>3 DEF t

LEMMA RowEmpty == ASSUME NEW b, NEW d PROVE Row(b, d, <<>>) = <<>>
  <1> DEFINE items == [i \in DOMAIN <<>> |-> Item(b, d, <<>>[i])]
  <1>1. items = <<>>
    OBVIOUS
  <1> QED BY <1>1, FlattenEmpty DEF Row

LEMMA RowHead ==
    ASSUME NEW t \in Trees, NEW d \in Dir, NEW names \in Seq(Range(t[d].names))
    PROVE  /\ Row(Behind(t), d, names) \in Seq(Known)
           /\ names # <<>> =>
                 Row(Behind(t), d, names) =
                   Cat(Item(Behind(t), d, Head(names)), Row(Behind(t), d, Tail(names)))
  <1> DEFINE item(n) == Item(Behind(t), d, n)
             items == [i \in 1 .. Len(names) |-> item(names[i])]
  <1>1. \A n \in Range(t[d].names) : item(n) \in Seq(Known)
    <2>1. Inner(t, d) \subseteq Dir
      BY NameKinds DEF Inner
    <2>2. \A e \in Inner(t, d) : Behind(t)[e] \in Seq(Known)
      BY <2>1, BehindType
    <2> QED BY <2>2, ItemType
  <1>2. /\ DOMAIN names = 1 .. Len(names) /\ Len(names) \in Nat
        /\ \A i \in 1 .. Len(names) : names[i] \in Range(t[d].names)
    BY LenProperties, ElementOfSeq
  <1> HIDE DEF item
  <1>3. items \in Seq(Seq(Known)) /\ Len(items) = Len(names)
    BY <1>1, <1>2, IsASeq
  <1>4. Row(Behind(t), d, names) = FlattenSeq(items)
    BY <1>2 DEF Row, item
  <1>5. ASSUME names # <<>>
        PROVE  FlattenSeq(items) = Cat(item(Head(names)), Row(Behind(t), d, Tail(names)))
    <2> DEFINE after == [i \in 1 .. Len(Tail(names)) |-> item(Tail(names)[i])]
    <2>1. Len(names) \in Nat \ {0} /\ Head(names) = names[1]
      BY <1>5, EmptySeq
    <2>2. /\ Tail(names) \in Seq(Range(t[d].names)) /\ Len(Tail(names)) = Len(names) - 1
          /\ \A i \in 1 .. Len(Tail(names)) : Tail(names)[i] = names[i + 1]
      BY <1>5, HeadTailProperties
    <2>3. items # <<>> /\ Head(items) = items[1] /\ items[1] = item(names[1])
      BY <1>3, <2>1
    <2>4. Tail(items) = after
      <3>1. \A i \in 1 .. Len(Tail(names)) : items[i + 1] = item(Tail(names)[i])
        BY <2>1, <2>2
      <3> HIDE DEF items
      <3>2. Tail(items) = [i \in 1 .. Len(items) - 1 |-> items[i + 1]]
        BY <1>3, <2>3, TailIs
      <3> QED BY <1>3, <2>2, <3>1, <3>2
    <2>5. DOMAIN Tail(names) = 1 .. Len(Tail(names))
      BY <2>2, LenProperties
    <2>6. Row(Behind(t), d, Tail(names)) = FlattenSeq(after)
      BY <2>5 DEF Row, item
    <2> HIDE DEF items, after
    <2>7. FlattenSeq(items) = Cat(Head(items), FlattenSeq(Tail(items)))
      BY <1>3, <2>3, FlattenHead
    <2> QED BY <2>1, <2>3, <2>4, <2>6, <2>7
  <1>6. FlattenSeq(items) \in Seq(Known)
    BY <1>3, FlattenType
  <1> QED BY <1>4, <1>5, <1>6 DEF item

\* What a loop has still to apply when it is at its i-th directory: all that is
\* behind those after it.
After(t, dirs, i) == FlattenSeq([j \in 1 .. Len(dirs) - i |-> Behind(t)[dirs[i + j]]])

LEMMA AfterAll ==
    ASSUME NEW t \in Trees, NEW dirs \in Seq(Dir)
    PROVE  FlattenSeq([i \in DOMAIN dirs |-> Behind(t)[dirs[i]]]) = After(t, dirs, 0)
  <1>1. DOMAIN dirs = 1 .. Len(dirs) - 0 /\ Len(dirs) \in Nat
    BY LenProperties
  <1>2. \A i \in 1 .. Len(dirs) - 0 : 0 + i = i
    BY <1>1
  <1> QED BY <1>1, <1>2 DEF After

LEMMA AfterStep ==
    ASSUME NEW t \in Trees, NEW dirs \in Seq(Dir), NEW i \in 0 .. Len(dirs)
    PROVE  /\ After(t, dirs, i) \in Seq(Known)
           /\ i = Len(dirs) => After(t, dirs, i) = <<>>
           /\ i < Len(dirs) =>
                 After(t, dirs, i) = Cat(Behind(t)[dirs[i + 1]], After(t, dirs, i + 1))
  <1> DEFINE n == Len(dirs) - i
             b(j) == Behind(t)[dirs[i + j]]
             s == [j \in 1 .. n |-> b(j)]
  <1>1. n \in Nat /\ Len(dirs) \in Nat /\ i \in Nat
    BY LenProperties
  <1>2. \A j \in 1 .. n : i + j \in 1 .. Len(dirs)
    BY <1>1
  <1>3. \A j \in 1 .. n : b(j) \in Seq(Known)
    BY <1>2, BehindType, ElementOfSeq
  <1>4. After(t, dirs, i) = FlattenSeq(s)
    BY DEF After
  <1> HIDE DEF b
  <1>5. s \in Seq(Seq(Known)) /\ Len(s) = n
    BY <1>1, <1>3, IsASeq
  <1>6. CASE i = Len(dirs)
    <2>1. n = 0
      BY <1>1, <1>6
    <2>2. s = <<>>
      BY <1>5, <2>1, EmptySeq
    <2>3. After(t, dirs, i) = <<>> /\ After(t, dirs, i) \in Seq(Known)
      BY <1>4, <2>2, FlattenEmpty, EmptySeq
    <2> QED BY <1>1, <1>6, <2>3
  <1>7. CASE i < Len(dirs)
    <2> DEFINE r == [j \in 1 .. Len(dirs) - (i + 1) |-> Behind(t)[dirs[(i + 1) + j]]]
    <2>0. n \in Nat \ {0}
      BY <1>1, <1>7
    <2>1. s # <<>> /\ Head(s) = b(1) /\ n \in Nat \ {0}
      <3> HIDE DEF n
      <3>1. s[1] = b(1)
        BY <2>0
      <3>2. s # <<>>
        BY <1>5, <2>0, EmptySeq
      <3> QED BY <2>0, <3>1, <3>2
    <2>2. Tail(s) = [j \in 1 .. n - 1 |-> s[j + 1]]
      <3> HIDE DEF s, n
      <3> QED BY <1>5, <2>1, TailIs
    <2>3. \A j \in 1 .. n - 1 : s[j + 1] = Behind(t)[dirs[(i + 1) + j]]
      <3>1. ASSUME NEW j \in 1 .. n - 1
            PROVE  s[j + 1] = Behind(t)[dirs[(i + 1) + j]]
        <4>1. j + 1 \in 1 .. n /\ i + (j + 1) = (i + 1) + j
          BY <1>1
        <4>2. s[j + 1] = b(j + 1)
          BY <4>1
        <4> QED BY <4>1, <4>2 DEF b
      <3> QED BY <3>1
    <2>4. n - 1 = Len(dirs) - (i + 1)
      BY <1>1
    <2>5. Tail(s) = r
      <3> HIDE DEF s, n
      <3> QED BY <2>2, <2>3, <2>4
    <2>6. After(t, dirs, i + 1) = FlattenSeq(Tail(s))
      BY <2>5 DEF After
    <2> HIDE DEF s, r, n
    <2>7. FlattenSeq(s) = Cat(Head(s), FlattenSeq(Tail(s)))
      BY <1>5, <2>1, FlattenHead
    <2>8. FlattenSeq(s) \in Seq(Known)
      BY <1>5, FlattenType
    <2> QED BY <1>1, <1>4, <1>7, <2>1, <2>6, <2>7, <2>8 DEF b
  <1> QED BY <1>1, <1>6, <1>7

LEMMA PushProperties ==
    ASSUME NEW S, NEW x \in S, NEW s \in Seq(S)
    PROVE  /\ <<x>> \o s \in Seq(S) /\ <<x>> \o s # <<>> /\ Len(<<x>> \o s) = Len(s) + 1
           /\ Head(<<x>> \o s) = x /\ Tail(<<x>> \o s) = s
           /\ \A i \in 1 .. Len(s) + 1 : (<<x>> \o s)[i] = IF i = 1 THEN x ELSE s[i - 1]
  <1> DEFINE u == <<x>> \o s
  <1>1. <<x>> \in Seq(S) /\ Len(<<x>>) = 1 /\ <<x>>[1] = x
    OBVIOUS
  <1>2. /\ u \in Seq(S) /\ Len(u) = Len(s) + 1 /\ Len(s) \in Nat
        /\ \A i \in 1 .. Len(s) + 1 : u[i] = IF i <= 1 THEN <<x>>[i] ELSE s[i - 1]
    BY <1>1, ConcatProperties, LenProperties
  <1> HIDE DEF u
  <1>3. \A i \in 1 .. Len(s) + 1 : u[i] = IF i = 1 THEN x ELSE s[i - 1]
    BY <1>1, <1>2
  <1>4. u # <<>> /\ Head(u) = x
    BY <1>2, <1>3, EmptySeq
  <1>5. Tail(u) = s
    <2>1. /\ Tail(u) \in Seq(S) /\ Len(Tail(u)) = Len(s)
          /\ \A i \in 1 .. Len(s) : Tail(u)[i] = u[i + 1]
      BY <1>2, <1>4, HeadTailProperties
    <2>2. \A i \in 1 .. Len(s) : u[i + 1] = s[i]
      BY <1>2, <1>3
    <2> DEFINE v == Tail(u)
    <2> HIDE DEF v
    <2>3. v = s
      BY <2>1, <2>2, SeqEqual DEF v
    <2> QED BY <2>3 DEF v
  <1> QED BY <1>2, <1>3, <1>4, <1>5 DEF u

\* The active scans: where each is, and the names it has still to read.
Scans(t, where, s) ==
    /\ where \in Seq(Dir) /\ s \in Seq(Seq(Patch \cup Other \cup Archive \cup Sub))
    /\ Len(where) = Len(s)
    /\ \A k \in 1 .. Len(s) : s[k] \in Seq(Range(t[where[k]].names))
Ahead(t, where, s) ==
    FlattenSeq([k \in 1 .. Len(s) |-> Row(Behind(t), where[k], s[k])])

LEMMA AheadEmpty == ASSUME NEW t, NEW where PROVE Ahead(t, where, <<>>) = <<>>
  <1> DEFINE r == [k \in 1 .. Len(<<>>) |-> Row(Behind(t), where[k], <<>>[k])]
  <1>1. r = <<>>
    OBVIOUS
  <1> QED BY <1>1, FlattenEmpty DEF Ahead

LEMMA ScansHead ==
    ASSUME NEW t, NEW where, NEW s, Scans(t, where, s), s # <<>>
    PROVE  /\ where # <<>> /\ Head(where) \in Dir /\ Head(where) = where[1]
           /\ Head(s) = s[1] /\ Head(s) \in Seq(Range(t[Head(where)].names))
           /\ Head(s) \in Seq(Patch \cup Other \cup Archive \cup Sub)
           /\ Scans(t, Tail(where), Tail(s))
  <1> DEFINE N == Patch \cup Other \cup Archive \cup Sub
  <1> HIDE DEF N
  <1>1. where \in Seq(Dir) /\ s \in Seq(Seq(N)) /\ Len(where) = Len(s)
    BY DEF Scans, N
  <1>2. Len(s) \in Nat \ {0} /\ Head(s) = s[1] /\ s[1] \in Seq(N)
    BY <1>1, EmptySeq, HeadTailProperties
  <1>3. where # <<>>
    BY <1>1, <1>2, EmptySeq
  <1>4. Head(where) = where[1] /\ where[1] \in Dir
    BY <1>1, <1>2, <1>3, ElementOfSeq
  <1>5. /\ Tail(s) \in Seq(Seq(N)) /\ Len(Tail(s)) = Len(s) - 1
        /\ \A i \in 1 .. Len(s) - 1 : Tail(s)[i] = s[i + 1]
    BY <1>1, HeadTailProperties
  <1>6. /\ Tail(where) \in Seq(Dir) /\ Len(Tail(where)) = Len(s) - 1
        /\ \A i \in 1 .. Len(s) - 1 : Tail(where)[i] = where[i + 1]
    BY <1>1, <1>3, HeadTailProperties
  <1>7. \A k \in 1 .. Len(s) : s[k] \in Seq(Range(t[where[k]].names))
    BY DEF Scans
  <1>8. ASSUME NEW k \in 1 .. Len(Tail(s))
        PROVE  Tail(s)[k] \in Seq(Range(t[Tail(where)[k]].names))
    <2>1. k \in 1 .. Len(s) - 1 /\ k + 1 \in 1 .. Len(s)
      BY <1>2, <1>5
    <2> QED BY <1>5, <1>6, <1>7, <2>1
  <1>9. Scans(t, Tail(where), Tail(s))
    BY <1>5, <1>6, <1>8 DEF Scans, N
  <1>10. s[1] \in Seq(Range(t[where[1]].names))
    BY <1>2, <1>7
  <1> QED BY <1>2, <1>3, <1>4, <1>9, <1>10 DEF N

LEMMA AheadHead ==
    ASSUME NEW t \in Trees, NEW where, NEW s, Scans(t, where, s)
    PROVE  /\ Ahead(t, where, s) \in Seq(Known)
           /\ s # <<>> => Ahead(t, where, s) = Cat(Row(Behind(t), Head(where), Head(s)),
                                                  Ahead(t, Tail(where), Tail(s)))
  <1> DEFINE N == Patch \cup Other \cup Archive \cup Sub
             n == Len(s)
             row(k) == Row(Behind(t), where[k], s[k])
             rows == [k \in 1 .. n |-> row(k)]
  <1> HIDE DEF N
  <1>1. /\ where \in Seq(Dir) /\ s \in Seq(Seq(N)) /\ Len(where) = n /\ n \in Nat
        /\ \A k \in 1 .. n : s[k] \in Seq(Range(t[where[k]].names))
    BY LenProperties DEF Scans, N
  <1> HIDE DEF n
  <1>2. \A k \in 1 .. n : row(k) \in Seq(Known)
    <2>1. \A k \in 1 .. n : where[k] \in Dir
      BY <1>1, ElementOfSeq
    <2> QED BY <1>1, <2>1, RowHead
  <1>3. Ahead(t, where, s) = FlattenSeq(rows)
    BY DEF Ahead, n
  <1> HIDE DEF row
  <1>4. rows \in Seq(Seq(Known)) /\ Len(rows) = n
    BY <1>1, <1>2, IsASeq
  <1>5. ASSUME s # <<>>
        PROVE  Ahead(t, where, s) = Cat(Row(Behind(t), Head(where), Head(s)),
                                        Ahead(t, Tail(where), Tail(s)))
    <2> DEFINE ts == Tail(s)
               tw == Tail(where)
    <2>1. n \in Nat \ {0} /\ where # <<>> /\ Head(s) = s[1] /\ Head(where) = where[1]
      BY <1>1, <1>5, EmptySeq, ScansHead DEF n
    <2>2. Len(ts) = n - 1 /\ \A i \in 1 .. n - 1 : ts[i] = s[i + 1]
      BY <1>1, <1>5, HeadTailProperties DEF n
    <2>3. \A i \in 1 .. n - 1 : tw[i] = where[i + 1]
      BY <1>1, <2>1, HeadTailProperties DEF n
    <2> HIDE DEF ts, tw
    <2>4. rows # <<>> /\ rows[1] = row(1)
      BY <1>4, <2>1, EmptySeq
    <2>5. Head(rows) = row(1)
      BY <2>4
    <2>6. \A i \in 1 .. n - 1 : rows[i + 1] = Row(Behind(t), tw[i], ts[i])
      <3>1. \A i \in 1 .. n - 1 : i + 1 \in 1 .. n
        BY <2>1
      <3> QED BY <2>2, <2>3, <3>1 DEF row
    <2> HIDE DEF rows
    <2>7. Tail(rows) = [i \in 1 .. Len(ts) |-> Row(Behind(t), tw[i], ts[i])]
      <3>1. Tail(rows) = [i \in 1 .. Len(rows) - 1 |-> rows[i + 1]]
        BY <1>4, <2>4, TailIs
      <3> QED BY <1>4, <2>2, <2>6, <3>1
    <2>8. FlattenSeq(Tail(rows)) = Ahead(t, tw, ts)
      BY <2>7 DEF Ahead
    <2>9. FlattenSeq(rows) = Cat(Head(rows), FlattenSeq(Tail(rows)))
      BY <1>4, <2>4, FlattenHead
    <2> QED BY <1>3, <2>1, <2>5, <2>8, <2>9 DEF row, ts, tw
  <1>6. FlattenSeq(rows) \in Seq(Known)
    BY <1>4, FlattenType
  <1> QED BY <1>3, <1>5, <1>6

\* A scan more, on top.
LEMMA ScansPush ==
    ASSUME NEW t \in Trees, NEW where, NEW s, Scans(t, where, s),
           NEW d \in Dir, NEW names \in Seq(Range(t[d].names))
    PROVE  /\ Scans(t, <<d>> \o where, <<names>> \o s)
           /\ Ahead(t, <<d>> \o where, <<names>> \o s) =
                 Cat(Row(Behind(t), d, names), Ahead(t, where, s))
  <1> DEFINE N == Patch \cup Other \cup Archive \cup Sub
             w2 == <<d>> \o where
             s2 == <<names>> \o s
  <1> HIDE DEF N
  <1>1. /\ where \in Seq(Dir) /\ s \in Seq(Seq(N)) /\ Len(where) = Len(s) /\ Len(s) \in Nat
        /\ \A k \in 1 .. Len(s) : s[k] \in Seq(Range(t[where[k]].names))
    BY LenProperties DEF Scans, N
  <1>2. names \in Seq(N)
    <2>1. Range(t[d].names) \subseteq N
      BY TreeAssumption, RangeOfSeq DEF N
    <2> QED BY <2>1, SeqMonotonic
  <1>3. /\ w2 \in Seq(Dir) /\ w2 # <<>> /\ Len(w2) = Len(s) + 1 /\ Head(w2) = d /\ Tail(w2) = where
        /\ \A i \in 1 .. Len(s) + 1 : w2[i] = IF i = 1 THEN d ELSE where[i - 1]
    BY <1>1, PushProperties
  <1>4. /\ s2 \in Seq(Seq(N)) /\ s2 # <<>> /\ Len(s2) = Len(s) + 1 /\ Head(s2) = names /\ Tail(s2) = s
        /\ \A i \in 1 .. Len(s) + 1 : s2[i] = IF i = 1 THEN names ELSE s[i - 1]
    BY <1>1, <1>2, PushProperties
  <1> HIDE DEF w2, s2
  <1>5. ASSUME NEW k \in 1 .. Len(s2)
        PROVE  s2[k] \in Seq(Range(t[w2[k]].names))
    <2>1. k \in 1 .. Len(s) + 1
      BY <1>4
    <2>2. CASE k = 1
      BY <1>3, <1>4, <2>1, <2>2
    <2>3. CASE k # 1
      <3>1. k - 1 \in 1 .. Len(s)
        BY <1>1, <2>1, <2>3
      <3> QED BY <1>1, <1>3, <1>4, <2>1, <2>3, <3>1
    <2> QED BY <2>2, <2>3
  <1>6. Scans(t, w2, s2)
    BY <1>3, <1>4, <1>5 DEF Scans, N
  <1>7. Ahead(t, w2, s2) = Cat(Row(Behind(t), d, names), Ahead(t, where, s))
    <2>1. Ahead(t, w2, s2) = Cat(Row(Behind(t), Head(w2), Head(s2)), Ahead(t, Tail(w2), Tail(s2)))
      BY <1>4, <1>6, AheadHead
    <2> QED BY <1>3, <1>4, <2>1
  <1> QED BY <1>6, <1>7 DEF w2, s2

LEMMA HeadAndTail ==
    ASSUME NEW S, NEW s \in Seq(S), s # <<>>
    PROVE  s = <<Head(s)>> \o Tail(s)
  <1> DEFINE u == <<Head(s)>> \o Tail(s)
  <1>1. /\ Head(s) \in S /\ Tail(s) \in Seq(S) /\ Len(Tail(s)) = Len(s) - 1 /\ Head(s) = s[1]
        /\ \A i \in 1 .. Len(s) - 1 : Tail(s)[i] = s[i + 1]
        /\ Len(s) \in Nat \ {0}
    BY HeadTailProperties, EmptySeq
  <1>2. /\ u \in Seq(S) /\ Len(u) = Len(Tail(s)) + 1
        /\ \A i \in 1 .. Len(Tail(s)) + 1 : u[i] = IF i = 1 THEN Head(s) ELSE Tail(s)[i - 1]
    BY <1>1, PushProperties
  <1> HIDE DEF u
  <1>3. Len(u) = Len(s)
    BY <1>1, <1>2
  <1>4. ASSUME NEW i \in 1 .. Len(s)
        PROVE  u[i] = s[i]
    <2>1. u[i] = IF i = 1 THEN s[1] ELSE Tail(s)[i - 1]
      BY <1>1, <1>2
    <2>2. i # 1 => i - 1 \in 1 .. Len(s) - 1 /\ (i - 1) + 1 = i
      BY <1>1
    <2>3. i # 1 => Tail(s)[i - 1] = s[i]
      BY <1>1, <2>2
    <2> QED BY <2>1, <2>3
  <1>5. u = s
    BY <1>2, <1>3, <1>4, SeqEqual
  <1> QED BY <1>5 DEF u

\* The scan on top reads its next name.
LEMMA ScansTurn ==
    ASSUME NEW t \in Trees, NEW where, NEW s, Scans(t, where, s), s # <<>>, Head(s) # <<>>
    PROVE  LET w == Head(where)
               n == Head(Head(s))
               rest == <<Tail(Head(s))>> \o Tail(s)
           IN  /\ w \in Dir /\ n \in Range(t[w].names)
               /\ Item(Behind(t), w, n) \in Seq(Known)
               /\ Scans(t, where, rest) /\ Ahead(t, where, rest) \in Seq(Known)
               /\ Ahead(t, where, s) = Cat(Item(Behind(t), w, n), Ahead(t, where, rest))
  <1> DEFINE w == Head(where)
             names == Head(s)
             n == Head(names)
             rest == <<Tail(names)>> \o Tail(s)
             B == Behind(t)
             below == Ahead(t, Tail(where), Tail(s))
  <1>1. /\ where # <<>> /\ w \in Dir /\ names \in Seq(Range(t[w].names))
        /\ Scans(t, Tail(where), Tail(s)) /\ where \in Seq(Dir)
    BY ScansHead DEF Scans
  <1>2. n \in Range(t[w].names) /\ Tail(names) \in Seq(Range(t[w].names))
    BY <1>1, HeadTailProperties
  <1>3. where = <<w>> \o Tail(where)
    BY <1>1, HeadAndTail
  <1>4. Item(B, w, n) \in Seq(Known)
    <2>1. Inner(t, w) \subseteq Dir
      BY <1>1, NameKinds DEF Inner
    <2>2. \A e \in Inner(t, w) : B[e] \in Seq(Known)
      BY <2>1, BehindType
    <2> QED BY <1>1, <1>2, <2>2, ItemType
  <1>5. Ahead(t, where, s) = Cat(Row(B, w, names), below) /\ below \in Seq(Known)
    BY <1>1, AheadHead
  <1>6. /\ Row(B, w, names) = Cat(Item(B, w, n), Row(B, w, Tail(names)))
        /\ Row(B, w, Tail(names)) \in Seq(Known)
    BY <1>1, <1>2, RowHead
  <1>7. Scans(t, where, rest) /\ Ahead(t, where, rest) = Cat(Row(B, w, Tail(names)), below)
    BY <1>1, <1>2, <1>3, ScansPush
  <1>8. Ahead(t, where, rest) \in Seq(Known)
    BY <1>7, AheadHead
  <1> HIDE DEF w, names, n, rest, B, below
  <1>9. Ahead(t, where, s) = Cat(Item(B, w, n), Ahead(t, where, rest))
    BY <1>4, <1>5, <1>6, <1>7, CatAssociative
  <1> QED BY <1>1, <1>2, <1>4, <1>7, <1>8, <1>9 DEF w, names, n, rest, B

\* The script starts on a directory.
LEMMA ScansStart ==
    ASSUME NEW t \in Trees, NEW d \in Dir
    PROVE  Scans(t, <<d>>, <<t[d].names>>) /\ Ahead(t, <<d>>, <<t[d].names>>) = Behind(t)[d]
  <1>1. Scans(t, <<>>, <<>>)
    BY EmptySeq DEF Scans
  <1>2. t[d].names \in Seq(Range(t[d].names))
    BY TreeAssumption, SeqOfRange
  <1>3. <<d>> \o <<>> = <<d>> /\ <<t[d].names>> \o <<>> = <<t[d].names>>
    OBVIOUS
  <1>4. /\ Scans(t, <<d>>, <<t[d].names>>)
        /\ Ahead(t, <<d>>, <<t[d].names>>) = Cat(Row(Behind(t), d, t[d].names), Ahead(t, <<>>, <<>>))
    BY <1>1, <1>2, <1>3, ScansPush
  <1>5. Ahead(t, <<>>, <<>>) = <<>>
    BY AheadEmpty
  <1>6. Row(Behind(t), d, t[d].names) = Behind(t)[d] /\ Behind(t)[d] \in Seq(Known)
    BY BehindRow, BehindType
  <1> QED BY <1>4, <1>5, <1>6, CatProperties

-----------------------------------------------------------------------------
(* Sequences in the order of another.                                      *)

LEMMA InOrderMore ==
    ASSUME NEW S, NEW s \in Seq(S), NEW t \in Seq(S), NEW u \in Seq(S), InOrderOf(s, t)
    PROVE  InOrderOf(s, Cat(t, u))
  <1> DEFINE v == Cat(t, u)
  <1>1. /\ v \in Seq(S) /\ Len(v) = Len(t) + Len(u) /\ Len(t) \in Nat /\ Len(u) \in Nat
        /\ DOMAIN t = 1 .. Len(t) /\ DOMAIN v = 1 .. Len(v)
    BY CatProperties, LenProperties
  <1>2. \A i \in 1 .. Len(t) + Len(u) : v[i] = IF i <= Len(t) THEN t[i] ELSE u[i - Len(t)]
    BY CatProperties
  <1> HIDE DEF v
  <1>3. \A k \in DOMAIN t : k \in DOMAIN v /\ v[k] = t[k]
    BY <1>1, <1>2
  <1>4. Range(t) \subseteq Range(v)
    BY <1>3 DEF Range
  <1>5. ASSUME NEW i \in DOMAIN s, NEW j \in DOMAIN s, i < j
        PROVE  \E k, l \in DOMAIN v : k < l /\ v[k] = s[i] /\ v[l] = s[j]
    <2>1. PICK k \in DOMAIN t, l \in DOMAIN t : k < l /\ t[k] = s[i] /\ t[l] = s[j]
      BY <1>5 DEF InOrderOf
    <2> QED BY <1>3, <2>1
  <1>6. IsInjective(s) /\ Range(s) \subseteq Range(t)
    BY DEF InOrderOf
  <1> QED BY <1>4, <1>5, <1>6 DEF InOrderOf, v

LEMMA InOrderAppend ==
    ASSUME NEW S, NEW s \in Seq(S), NEW t \in Seq(S), NEW e \in S, InOrderOf(s, t),
           e \notin Range(s)
    PROVE  InOrderOf(Append(s, e), Cat(t, <<e>>))
  <1> DEFINE u == Append(s, e)
             one == <<e>>
             v == Cat(t, one)
             n == Len(s)
             m == Len(t)
  <1>1. /\ u \in Seq(S) /\ n \in Nat /\ DOMAIN s = 1 .. n /\ DOMAIN u = 1 .. n + 1
        /\ \A i \in 1 .. n : u[i] = s[i]
        /\ u[n + 1] = e
    BY AppendProperties, LenProperties
  <1>2. one \in Seq(S) /\ Len(one) = 1 /\ one[1] = e
    OBVIOUS
  <1> HIDE DEF one
  <1>3. /\ v \in Seq(S) /\ Len(v) = m + 1 /\ m \in Nat /\ DOMAIN t = 1 .. m
        /\ \A i \in 1 .. m + 1 : v[i] = IF i <= m THEN t[i] ELSE one[i - m]
    <2>1. /\ v \in Seq(S) /\ Len(v) = Len(t) + Len(one)
          /\ \A i \in 1 .. Len(t) + Len(one) : v[i] = IF i <= Len(t) THEN t[i] ELSE one[i - Len(t)]
      BY <1>2, CatProperties
    <2>2. m \in Nat /\ DOMAIN t = 1 .. m
      BY LenProperties
    <2> HIDE DEF v
    <2> QED BY <1>2, <2>1, <2>2
  <1> HIDE DEF v
  <1>4. DOMAIN v = 1 .. m + 1
    BY <1>3, LenProperties
  <1>5. (\A i \in 1 .. m : v[i] = t[i]) /\ v[m + 1] = e
    <2>1. \A i \in 1 .. m : v[i] = t[i]
      BY <1>3
    <2>2. m + 1 \in 1 .. m + 1 /\ ~(m + 1 <= m) /\ (m + 1) - m = 1
      BY <1>3
    <2> QED BY <1>2, <1>3, <2>1, <2>2
  <1>6. IsInjective(s) /\ Range(s) \subseteq Range(t)
    BY DEF InOrderOf
  <1> HIDE DEF u, n, m
  <1>7. ASSUME NEW i \in DOMAIN u
        PROVE  i \in DOMAIN s \/ i = n + 1
    BY <1>1
  <1>8. \A i \in DOMAIN s : u[i] = s[i] /\ s[i] \in Range(s)
    BY <1>1 DEF Range
  <1>9. IsInjective(u)
    <2> SUFFICES ASSUME NEW a \in DOMAIN u, NEW b \in DOMAIN u, u[a] = u[b] PROVE a = b
      BY DEF IsInjective
    <2>1. \A a1, b1 \in DOMAIN s : s[a1] = s[b1] => a1 = b1
      BY <1>6 DEF IsInjective
    <2> QED BY <1>1, <1>7, <1>8, <2>1
  <1>10. Range(u) \subseteq Range(v)
    <2> SUFFICES ASSUME NEW i \in DOMAIN u PROVE u[i] \in Range(v)
      BY DEF Range
    <2>1. e \in Range(v)
      <3>1. m + 1 \in DOMAIN v
        BY <1>3, <1>4
      <3> QED BY <1>5, <3>1 DEF Range
    <2>2. Range(t) \subseteq Range(v)
      <3>1. \A k \in DOMAIN t : k \in DOMAIN v /\ v[k] = t[k]
        BY <1>3, <1>4, <1>5
      <3> QED BY <3>1 DEF Range
    <2> QED BY <1>1, <1>6, <1>7, <1>8, <2>1, <2>2
  <1>11. ASSUME NEW i \in DOMAIN u, NEW j \in DOMAIN u, i < j
         PROVE  \E k, l \in DOMAIN v : k < l /\ v[k] = u[i] /\ v[l] = u[j]
    <2>1. i \in DOMAIN s
      BY <1>1, <1>11
    <2>2. CASE j \in DOMAIN s
      <3>1. PICK k \in DOMAIN t, l \in DOMAIN t : k < l /\ t[k] = s[i] /\ t[l] = s[j]
        BY <1>11, <2>1, <2>2 DEF InOrderOf
      <3>2. k \in DOMAIN v /\ l \in DOMAIN v /\ v[k] = t[k] /\ v[l] = t[l]
        BY <1>3, <1>4, <1>5
      <3> QED BY <1>8, <2>1, <2>2, <3>1, <3>2
    <2>3. CASE j = n + 1
      <3>1. s[i] \in Range(t)
        BY <1>6, <1>8, <2>1
      <3>2. PICK k \in DOMAIN t : t[k] = s[i]
        BY <3>1 DEF Range
      <3>3. k \in DOMAIN v /\ v[k] = u[i] /\ m + 1 \in DOMAIN v /\ k < m + 1
        BY <1>3, <1>4, <1>5, <1>8, <2>1, <3>2
      <3>4. v[m + 1] = u[j]
        BY <1>1, <1>5, <2>3
      <3> QED BY <3>3, <3>4
    <2> QED BY <1>7, <2>2, <2>3
  <1>12. InOrderOf(u, v)
    BY <1>9, <1>10, <1>11 DEF InOrderOf
  <1> QED BY <1>12 DEF u, v, one

LEMMA RangeTail ==
    ASSUME NEW S, NEW s \in Seq(S), s # <<>>
    PROVE  Range(s) = {Head(s)} \cup Range(Tail(s))
  <1> DEFINE t == Tail(s)
             n == Len(s)
  <1>1. /\ n \in Nat \ {0} /\ Head(s) = s[1] /\ DOMAIN s = 1 .. n
        /\ t \in Seq(S) /\ Len(t) = n - 1 /\ \A i \in 1 .. n - 1 : t[i] = s[i + 1]
    BY EmptySeq, LenProperties, HeadTailProperties
  <1>2. DOMAIN t = 1 .. n - 1
    <2> HIDE DEF t
    <2> QED BY <1>1, LenProperties
  <1> HIDE DEF t, n
  <1>3. Range(s) = {s[i] : i \in 1 .. n} /\ Range(t) = {t[i] : i \in 1 .. n - 1}
    BY <1>1, <1>2 DEF Range
  <1>4. ASSUME NEW i \in 1 .. n
        PROVE  s[i] \in {s[1]} \cup Range(t)
    <2>1. i = 1 \/ (i - 1 \in 1 .. n - 1 /\ (i - 1) + 1 = i)
      BY <1>1
    <2>2. i = 1 \/ t[i - 1] = s[i]
      BY <1>1, <2>1
    <2> QED BY <1>3, <2>1, <2>2
  <1>5. s[1] \in Range(s)
    <2>1. 1 \in 1 .. n
      BY <1>1
    <2> QED BY <1>3, <2>1
  <1>6. ASSUME NEW i \in 1 .. n - 1
        PROVE  t[i] \in Range(s)
    <2>1. i + 1 \in 1 .. n
      BY <1>1
    <2> QED BY <1>1, <1>3, <2>1
  <1>7. Range(s) \subseteq {s[1]} \cup Range(t)
    BY <1>3, <1>4
  <1>8. Range(t) \subseteq Range(s)
    BY <1>3, <1>6
  <1> QED BY <1>1, <1>5, <1>7, <1>8 DEF t

LEMMA RangeAppend ==
    ASSUME NEW S, NEW s \in Seq(S), NEW e \in S
    PROVE  Range(Append(s, e)) = Range(s) \cup {e}
  <1> DEFINE u == Append(s, e)
             n == Len(s)
  <1>1. /\ u \in Seq(S) /\ n \in Nat /\ DOMAIN s = 1 .. n /\ DOMAIN u = 1 .. n + 1
        /\ \A i \in 1 .. n : u[i] = s[i]
        /\ u[n + 1] = e
    BY AppendProperties, LenProperties
  <1> HIDE DEF u, n
  <1>2. Range(s) = {s[i] : i \in 1 .. n} /\ Range(u) = {u[i] : i \in 1 .. n + 1}
    BY <1>1 DEF Range
  <1>3. n + 1 \in 1 .. n + 1 /\ \A i \in 1 .. n + 1 : i \in 1 .. n \/ i = n + 1
    BY <1>1
  <1>4. \A i \in 1 .. n : i \in 1 .. n + 1
    BY <1>1
  <1>5. Range(u) = Range(s) \cup {e}
    BY <1>1, <1>2, <1>3, <1>4
  <1> QED BY <1>5 DEF u

-----------------------------------------------------------------------------
(* No patch is out of order.                                               *)

Ordered == InOrderOf(applied, Meant)

\* What the directory that the path names lists and has is applied or still to be
\* looked at, by the scan on top, which is then in that directory: whoever looks
\* for one of its patches from another directory finds it applied, and is refused,
\* and nobody finds a subdirectory or an archive from another directory.
Listed(d) == (Range(tree[d].names) \cap tree[d].files) \ Other
Looked(where) ==
    path # Nowhere =>
        /\ path \in Dir
        /\ \A n \in Listed(path) :
              \/ <<path, n>> \in Range(applied)
              \/ todo # <<>> /\ Head(where) = path /\ n \in Range(Cur)

\* What is meant to be applied is what the script is past, what its scans have
\* ahead and what follows in the loop; what is applied is some of the first.
Scanning(past, where) ==
    /\ past \in Seq(Known) /\ Scans(tree, where, todo)
    /\ Cat(past, Cat(Ahead(tree, where, todo), After(tree, loop.dirs, at))) = Meant
    /\ InOrderOf(applied, past)
    /\ Looked(where)

OrderInv ==
    /\ tree \in Trees /\ loop \in Loops(tree) /\ applied \in Seq(Known)
    /\ Ordered
    /\ status = "running" =>
          at \in 1 .. Len(loop.dirs) /\ \E past, where : Scanning(past, where)

LEMMA LoopType ==
    ASSUME tree \in Trees, loop \in Loops(tree)
    PROVE  /\ loop.dirs \in Seq(Dir) /\ Len(loop.dirs) \in Nat \ {0}
           /\ \A i \in 1 .. Len(loop.dirs) : loop.dirs[i] \in Dir
           /\ Meant = After(tree, loop.dirs, 0)
  <1>1. loop.dirs \in Seq(Dir) /\ loop.dirs # <<>>
    BY TreeAssumption
  <1>2. Len(loop.dirs) \in Nat \ {0}
    BY <1>1, EmptySeq
  <1>3. \A i \in 1 .. Len(loop.dirs) : loop.dirs[i] \in Dir
    BY <1>1, ElementOfSeq
  <1>4. Meant = After(tree, loop.dirs, 0)
    BY <1>1, AfterAll DEF Meant
  <1> QED BY <1>1, <1>2, <1>3, <1>4

\* The scans of a directory that the script starts on.
LEMMA Started ==
    ASSUME NEW t \in Trees, NEW dirs \in Seq(Dir), NEW i \in 1 .. Len(dirs)
    PROVE  LET d == dirs[i] IN
           /\ d \in Dir /\ Scans(t, <<d>>, <<t[d].names>>)
           /\ Cat(Ahead(t, <<d>>, <<t[d].names>>), After(t, dirs, i)) = After(t, dirs, i - 1)
  <1> DEFINE d == dirs[i]
             names == t[d].names
  <1>1. d \in Dir /\ Len(dirs) \in Nat
    BY ElementOfSeq, LenProperties
  <1>2. Scans(t, <<d>>, <<names>>) /\ Ahead(t, <<d>>, <<names>>) = Behind(t)[d]
    BY <1>1, ScansStart
  <1>3. i - 1 \in 0 .. Len(dirs) /\ i - 1 < Len(dirs) /\ (i - 1) + 1 = i
    BY <1>1
  <1>4. After(t, dirs, i - 1) = Cat(Behind(t)[dirs[i]], After(t, dirs, i))
    BY <1>3, AfterStep
  <1> QED BY <1>1, <1>2, <1>4

\* A run of the script has ended.
LEMMA OrderOver ==
    ASSUME OrderInv, status = "running", UNCHANGED <<given, applied>>, NEW result, Over(result),
           result \in {"ok", "failed"}, NEW past \in Seq(Known),
           Cat(past, After(tree, loop.dirs, at)) = Meant,
           InOrderOf(applied, past)
    PROVE  OrderInv'
  <1>1. /\ tree \in Trees /\ loop \in Loops(tree) /\ applied \in Seq(Known) /\ Ordered
        /\ at \in 1 .. Len(loop.dirs)
    BY DEF OrderInv
  <1>2. UNCHANGED <<tree, loop, applied, Meant>>
    BY DEF given, Meant
  <1>3. Ordered'
    BY <1>1, <1>2 DEF Ordered
  <1>4. CASE at < Len(loop.dirs) /\ Run(at + 1)
    <2>1. /\ at + 1 \in 1 .. Len(loop.dirs) /\ (at + 1) - 1 = at /\ Len(loop.dirs) \in Nat
      BY <1>1, <1>4, LoopType
    <2>2. at' = at + 1 /\ path' = loop.dirs[at + 1] /\ todo' = <<tree[loop.dirs[at + 1]].names>>
      BY <1>4 DEF Run
    <2>0. PICK d : d = loop.dirs[at + 1]
      OBVIOUS
    <2>3. /\ d \in Dir /\ Scans(tree, <<d>>, <<tree[d].names>>)
          /\ Cat(Ahead(tree, <<d>>, <<tree[d].names>>), After(tree, loop.dirs, at + 1))
                = After(tree, loop.dirs, at)
      BY <1>1, <2>0, <2>1, LoopType, Started
    <2>4. path' = d /\ todo' = <<tree[d].names>> /\ Head(<<d>>) = d
      BY <2>0, <2>2
    <2>5. Looked(<<d>>)'
      <3>1. todo' # <<>> /\ Cur' = tree[d].names
        BY <2>4 DEF Cur
      <3> QED BY <1>2, <2>3, <2>4, <3>1 DEF Looked, Listed
    <2>6. Scans(tree', <<d>>, todo') /\ InOrderOf(applied', past)
      BY <1>2, <2>3, <2>4
    <2>7. Cat(past, Cat(Ahead(tree', <<d>>, todo'), After(tree', loop'.dirs, at'))) = Meant'
      BY <1>2, <2>2, <2>3, <2>4
    <2>8. Scanning(past, <<d>>)'
      BY <2>5, <2>6, <2>7 DEF Scanning
    <2> QED BY <1>1, <1>2, <1>3, <2>1, <2>2, <2>8 DEF OrderInv
  <1>5. CASE Ends(result)
    <2>1. status' # "running"
      BY <1>5 DEF Ends
    <2> QED BY <1>1, <1>2, <1>3, <2>1 DEF OrderInv
  <1> QED BY <1>4, <1>5 DEF Over

LEMMA OrderInit == Init => OrderInv
  <1> SUFFICES ASSUME Init PROVE OrderInv
    OBVIOUS
  <1>1. /\ tree \in Trees /\ loop \in Loops(tree) /\ at = 1 /\ path = loop.dirs[1]
        /\ todo = <<tree[loop.dirs[1]].names>> /\ applied = <<>>
    BY DEF Init
  <1> DEFINE d == loop.dirs[1]
  <1>2. /\ loop.dirs \in Seq(Dir) /\ 1 \in 1 .. Len(loop.dirs) /\ 1 - 1 = 0
        /\ Meant = After(tree, loop.dirs, 0) /\ Len(loop.dirs) \in Nat
    BY <1>1, LoopType
  <1>3. /\ d \in Dir /\ Scans(tree, <<d>>, <<tree[d].names>>)
        /\ Cat(Ahead(tree, <<d>>, <<tree[d].names>>), After(tree, loop.dirs, 1)) = Meant
    BY <1>1, <1>2, Started
  <1>4. Meant \in Seq(Known)
    BY <1>1, <1>2, AfterStep
  <1>5. \A t : InOrderOf(<<>>, t)
    BY DEF InOrderOf, IsInjective, Range
  <1>6. Looked(<<d>>)
    <2>1. Head(<<d>>) = d /\ todo # <<>> /\ Cur = tree[d].names
      BY <1>1 DEF Cur
    <2> QED BY <1>1, <1>3, <2>1 DEF Looked, Listed
  <1>7. <<>> \in Seq(Known) /\ Cat(<<>>, Meant) = Meant
    BY <1>4, EmptySeq, CatProperties
  <1>8. Scanning(<<>>, <<d>>)
    BY <1>1, <1>3, <1>5, <1>6, <1>7 DEF Scanning
  <1> QED BY <1>1, <1>2, <1>5, <1>7, <1>8 DEF OrderInv, Ordered

\* The scan on top goes past a name.
LEMMA OrderTurn ==
    ASSUME OrderInv, Goes, todo' = Rest, UNCHANGED <<at, status>>,
           NEW past, NEW where, Scanning(past, where),
           applied' \in Seq(Known),
           InOrderOf(applied', Cat(past, Item(Behind(tree), Head(where), Name))),
           Looked(where)'
    PROVE  OrderInv'
  <1> DEFINE item == Item(Behind(tree), Head(where), Name)
             rest == Ahead(tree, where, Rest)
             after == After(tree, loop.dirs, at)
  <1>1. /\ tree \in Trees /\ loop \in Loops(tree) /\ at \in 1 .. Len(loop.dirs)
        /\ past \in Seq(Known) /\ Scans(tree, where, todo)
        /\ Cat(past, Cat(Ahead(tree, where, todo), after)) = Meant
        /\ todo # <<>> /\ Cur # <<>>
    BY DEF OrderInv, Scanning, Goes
  <1>2. UNCHANGED <<tree, loop, Meant, at, status>>
    BY DEF Goes, given, Meant
  <1>3. Cur = Head(todo)
    BY <1>1, ScansHead DEF Cur
  <1>4. /\ item \in Seq(Known) /\ rest \in Seq(Known) /\ Scans(tree, where, Rest)
        /\ Ahead(tree, where, todo) = Cat(item, rest)
    BY <1>1, <1>3, ScansTurn DEF Rest, Name
  <1>5. after \in Seq(Known)
    <2>1. at \in 0 .. Len(loop.dirs) /\ loop.dirs \in Seq(Dir)
      BY <1>1, LoopType
    <2> QED BY <1>1, <2>1, AfterStep
  <1>0. PICK past2 : past2 = Cat(past, item)
    OBVIOUS
  <1> HIDE DEF item, rest, after
  <1>6. past2 \in Seq(Known) /\ Cat(rest, after) \in Seq(Known)
    BY <1>0, <1>1, <1>4, <1>5, CatProperties
  <1>7. Cat(past2, Cat(rest, after)) = Meant
    <2>1. Cat(Cat(item, rest), after) = Cat(item, Cat(rest, after))
      BY <1>4, <1>5, CatAssociative
    <2>2. Cat(past2, Cat(rest, after)) = Cat(past, Cat(item, Cat(rest, after)))
      BY <1>0, <1>1, <1>4, <1>6, CatAssociative
    <2> QED BY <1>1, <1>4, <2>1, <2>2
  <1>8. InOrderOf(applied', past2)
    BY <1>0 DEF item
  <1>9. Scanning(past2, where)'
    <2>1. Scans(tree', where, todo') /\ InOrderOf(applied', past2)
      BY <1>2, <1>4, <1>8
    <2>2. Cat(past2, Cat(Ahead(tree', where, todo'), After(tree', loop'.dirs, at'))) = Meant'
      BY <1>2, <1>7 DEF rest, after
    <2> QED BY <1>6, <2>1, <2>2 DEF Scanning
  <1>10. Ordered'
    <2>1. InOrderOf(applied', Cat(past2, Cat(rest, after)))
      BY <1>6, <1>8, InOrderMore
    <2> QED BY <1>2, <1>7, <2>1 DEF Ordered
  <1> QED BY <1>1, <1>2, <1>9, <1>10 DEF OrderInv

\* What holds when the scan on top has read a name.
LEMMA TurnFacts ==
    ASSUME OrderInv, Goes, NEW past, NEW where, Scanning(past, where)
    PROVE  /\ tree \in Trees /\ Head(where) \in Dir /\ Name \in Range(tree[Head(where)].names)
           /\ past \in Seq(Known) /\ applied \in Seq(Known) /\ InOrderOf(applied, past)
           /\ Item(Behind(tree), Head(where), Name) \in Seq(Known)
           /\ InOrderOf(applied, Cat(past, Item(Behind(tree), Head(where), Name)))
           /\ Cur \in Seq(Patch \cup Other \cup Archive \cup Sub) /\ Cur # <<>> /\ Cur = Head(todo)
           /\ Rest # <<>> /\ Rest[1] = Tail(Cur)
           /\ Range(Cur) = {Name} \cup Range(Tail(Cur))
  <1> DEFINE N == Patch \cup Other \cup Archive \cup Sub
  <1> HIDE DEF N
  <1>1. /\ tree \in Trees /\ past \in Seq(Known) /\ applied \in Seq(Known)
        /\ Scans(tree, where, todo) /\ InOrderOf(applied, past) /\ todo # <<>> /\ Cur # <<>>
    BY DEF OrderInv, Scanning, Goes
  <1>2. Cur = Head(todo) /\ Cur \in Seq(N)
    BY <1>1, ScansHead DEF Cur, N
  <1>3. /\ Head(where) \in Dir /\ Name \in Range(tree[Head(where)].names)
        /\ Item(Behind(tree), Head(where), Name) \in Seq(Known)
    BY <1>1, <1>2, ScansTurn DEF Name
  <1>4. InOrderOf(applied, Cat(past, Item(Behind(tree), Head(where), Name)))
    BY <1>1, <1>3, InOrderMore
  <1>5. Range(Cur) = {Name} \cup Range(Tail(Cur))
    BY <1>1, <1>2, RangeTail DEF Name
  <1>6. Rest # <<>> /\ Rest[1] = Tail(Cur)
    <2>1. Tail(Cur) \in Seq(N)
      BY <1>1, <1>2, HeadTailProperties
    <2>2. todo \in Seq(Seq(N))
      BY <1>1 DEF Scans, N
    <2>3. Tail(todo) \in Seq(Seq(N))
      BY <1>1, <2>2, HeadTailProperties
    <2> DEFINE u == Tail(Cur)
               v == Tail(todo)
    <2> HIDE DEF u, v
    <2>4. <<u>> \o v # <<>> /\ Len(v) \in Nat /\ (<<u>> \o v)[1] = u
      <3>1. u \in Seq(N) /\ v \in Seq(Seq(N))
        BY <2>1, <2>3 DEF u, v
      <3>2. Len(v) \in Nat /\ 1 \in 1 .. Len(v) + 1
        BY <3>1, LenProperties
      <3> QED BY <3>1, <3>2, PushProperties
    <2> QED BY <2>4 DEF Rest, u, v
  <1> QED BY <1>1, <1>2, <1>3, <1>4, <1>5, <1>6 DEF N

LEMMA OrderApply == OrderInv /\ NoneAstray(tree) /\ Apply => OrderInv'
  <1> SUFFICES ASSUME OrderInv, NoneAstray(tree), Apply PROVE OrderInv'
    OBVIOUS
  <1>1. /\ Goes /\ Name \in Patch /\ Holds(path, Name) /\ ~Refuses(<<path, Name>>)
        /\ applied' = Append(applied, <<path, Name>>)
        /\ todo' = Rest /\ UNCHANGED <<at, path, status>>
    BY DEF Apply
  <1>2. PICK past, where : Scanning(past, where)
    BY <1>1 DEF OrderInv, Goes
  <1> DEFINE e == <<path, Name>>
  <1>3. /\ tree \in Trees /\ Head(where) \in Dir /\ Name \in Range(tree[Head(where)].names)
        /\ past \in Seq(Known) /\ applied \in Seq(Known) /\ InOrderOf(applied, past)
        /\ Rest # <<>> /\ Rest[1] = Tail(Cur) /\ Range(Cur) = {Name} \cup Range(Tail(Cur))
    BY <1>1, <1>2, TurnFacts
  <1>4. /\ path # Nowhere /\ path \in Dir /\ Name \in Listed(path)
        /\ Name \in Range(tree[path].names) /\ e \notin Range(applied)
    <2>1. path # Nowhere /\ Name \in tree[path].files /\ e \notin Range(applied)
      BY <1>1 DEF Holds, Refuses
    <2>2. path \in Dir
      BY <1>2, <2>1 DEF Scanning, Looked
    <2>3. Name \in Range(tree[path].names)
      BY <1>3, <2>1, <2>2 DEF NoneAstray
    <2> QED BY <1>1, <2>1, <2>2, <2>3, TreeAssumption DEF Listed
  <1>5. Head(where) = path
    BY <1>2, <1>4 DEF Scanning, Looked
  <1>6. e \in Known
    BY <1>1, <1>4 DEF Known
  <1>7. Item(Behind(tree), Head(where), Name) = <<e>>
    BY <1>1, <1>3, <1>4, <1>5, ItemIs
  <1> HIDE DEF e
  <1>8. applied' = Append(applied, e)
    BY <1>1 DEF e
  <1>9. applied' \in Seq(Known) /\ Range(applied') = Range(applied) \cup {e}
    BY <1>3, <1>6, <1>8, AppendProperties, RangeAppend
  <1>10. InOrderOf(applied', Cat(past, Item(Behind(tree), Head(where), Name)))
    BY <1>3, <1>4, <1>6, <1>7, <1>8, InOrderAppend
  <1>11. Looked(where)'
    <2>1. UNCHANGED <<tree, path>> /\ todo' # <<>> /\ Cur' = Tail(Cur)
      BY <1>1, <1>3 DEF Goes, given, Cur
    <2>2. ASSUME NEW n \in Listed(path)
          PROVE  <<path, n>> \in Range(applied') \/ n \in Range(Cur')
      <3>1. <<path, n>> \in Range(applied) \/ n \in Range(Cur)
        BY <1>2, <1>4, <2>2 DEF Scanning, Looked, Listed
      <3>2. n = Name => <<path, n>> \in Range(applied')
        BY <1>9 DEF e
      <3> QED BY <1>3, <1>9, <2>1, <3>1, <3>2
    <2> QED BY <1>4, <1>5, <2>1, <2>2 DEF Looked, Listed
  <1> QED BY <1>1, <1>2, <1>9, <1>10, <1>11, OrderTurn

\* The scan on top goes past what it does not apply.
LEMMA OrderPast ==
    ASSUME OrderInv, Goes, todo' = Rest, UNCHANGED <<at, path, applied, status>>,
           Name \in Other \/ ~Holds(path, Name)
    PROVE  OrderInv'
  <1>1. PICK past, where : Scanning(past, where)
    BY DEF OrderInv, Goes
  <1>2. /\ applied \in Seq(Known)
        /\ InOrderOf(applied, Cat(past, Item(Behind(tree), Head(where), Name)))
        /\ Rest # <<>> /\ Rest[1] = Tail(Cur) /\ Range(Cur) = {Name} \cup Range(Tail(Cur))
    BY <1>1, TurnFacts
  <1>3. UNCHANGED <<tree, path, applied>> /\ todo' # <<>> /\ Cur' = Tail(Cur)
    BY <1>2 DEF Goes, given, Cur
  <1>4. Looked(where)'
    <2>1. ASSUME path # Nowhere, NEW n \in Listed(path)
          PROVE  <<path, n>> \in Range(applied) \/ (Head(where) = path /\ n \in Range(Cur'))
      <3>1. n # Name
        BY <2>1 DEF Holds, Listed
      <3>2. <<path, n>> \in Range(applied) \/ (Head(where) = path /\ n \in Range(Cur))
        BY <1>1, <2>1 DEF Scanning, Looked, Listed
      <3> QED BY <1>2, <1>3, <3>1, <3>2
    <2>2. path # Nowhere => path \in Dir
      BY <1>1 DEF Scanning, Looked, Listed
    <2> QED BY <1>3, <2>1, <2>2 DEF Looked, Listed
  <1> QED BY <1>1, <1>2, <1>3, <1>4, OrderTurn

LEMMA OrderUnpackNothing ==
    ASSUME OrderInv, Goes, todo' = Rest, path' = Nowhere, UNCHANGED <<at, applied, status>>
    PROVE  OrderInv'
  <1>1. PICK past, where : Scanning(past, where)
    BY DEF OrderInv, Goes
  <1>2. /\ applied \in Seq(Known)
        /\ InOrderOf(applied, Cat(past, Item(Behind(tree), Head(where), Name)))
    BY <1>1, TurnFacts
  <1>3. Looked(where)'
    BY DEF Looked, Listed
  <1> QED BY <1>1, <1>2, <1>3, OrderTurn

LEMMA OrderInto ==
    ASSUME OrderInv, NoneAstray(tree), Goes, Name \in Sub \cup Archive, Holds(path, Name),
           path' = Inside[path][Name],
           todo' = <<tree[path'].names>> \o Rest, UNCHANGED <<at, applied, status>>
    PROVE  OrderInv'
  <1>1. PICK past, where : Scanning(past, where)
    BY DEF OrderInv, Goes
  <1>2. /\ tree \in Trees /\ Head(where) \in Dir /\ Name \in Range(tree[Head(where)].names)
        /\ loop \in Loops(tree) /\ at \in 1 .. Len(loop.dirs) /\ applied \in Seq(Known) /\ Ordered
        /\ Cur = Head(todo) /\ Cur # <<>> /\ todo # <<>>
    BY <1>1, TurnFacts DEF OrderInv, Goes
  <1>3. PICK d : d = Inside[path][Name]
    OBVIOUS
  <1>0. path \in Dir /\ Head(where) = path
    <2>1. path # Nowhere /\ Name \in tree[path].files
      BY DEF Holds
    <2>2. path \in Dir
      BY <1>1, <2>1 DEF Scanning, Looked
    <2>3. Name \in Listed(path)
      BY <1>2, <2>1, <2>2, TreeAssumption DEF NoneAstray, Listed
    <2>4. <<path, Name>> \notin Range(applied)
      <3>1. Range(applied) \subseteq Known
        BY <1>2, RangeOfSeq
      <3>2. Name \notin Patch
        BY TreeAssumption
      <3> QED BY <3>1, <3>2 DEF Known
    <2> QED BY <1>1, <2>1, <2>2, <2>3, <2>4 DEF Scanning, Looked
  <1>4. d \in Dir /\ Item(Behind(tree), Head(where), Name) = Behind(tree)[d]
    <2>1. Name \in Archive \cup Sub
      OBVIOUS
    <2>2. Inside[Head(where)][Name] \in Dir
      BY <1>2, <2>1, NameKinds
    <2>3. Item(Behind(tree), Head(where), Name) = Behind(tree)[Inside[Head(where)][Name]]
      BY <1>2, <2>1, ItemIs
    <2> QED BY <1>0, <1>3, <2>2, <2>3
  <1>5. /\ Scans(tree, where, todo)
        /\ Scans(tree, where, Rest)
        /\ Ahead(tree, where, todo) = Cat(Behind(tree)[d], Ahead(tree, where, Rest))
    <2>1. Scans(tree, where, todo)
      BY <1>1 DEF Scanning
    <2> QED BY <1>2, <1>4, <2>1, ScansTurn DEF Rest, Name
  <1>6. tree[d].names \in Seq(Range(tree[d].names))
    BY <1>2, <1>4, TreeAssumption, SeqOfRange
  <1>7. PICK where2 : where2 = <<d>> \o where
    OBVIOUS
  <1>8. todo' = <<tree[d].names>> \o Rest
    BY <1>3
  <1>9. /\ Scans(tree, where2, todo')
        /\ Ahead(tree, where2, todo') = Cat(Row(Behind(tree), d, tree[d].names), Ahead(tree, where, Rest))
    BY <1>2, <1>4, <1>5, <1>6, <1>7, <1>8, ScansPush
  <1>10. Ahead(tree, where2, todo') = Ahead(tree, where, todo)
    BY <1>2, <1>4, <1>5, <1>9, BehindRow
  <1>11. UNCHANGED <<tree, loop, Meant, at, applied, status>> /\ path' = d
    BY <1>3 DEF Goes, given, Meant
  <1>12. todo' # <<>> /\ Cur' = tree[d].names /\ Head(where2) = d
    <2> DEFINE N == Patch \cup Other \cup Archive \cup Sub
               u == tree[d].names
               v == Rest
    <2> HIDE DEF N, u, v
    <2>1. v \in Seq(Seq(N)) /\ u \in Seq(N) /\ where \in Seq(Dir)
      BY <1>2, <1>4, <1>5, TreeAssumption DEF Scans, N, u, v
    <2>2. Len(v) \in Nat /\ 1 \in 1 .. Len(v) + 1
      BY <2>1, LenProperties
    <2>3. <<u>> \o v # <<>> /\ (<<u>> \o v)[1] = u
      BY <2>1, <2>2, PushProperties
    <2>4. Head(<<d>> \o where) = d
      BY <1>4, <2>1, PushProperties
    <2> QED BY <1>7, <1>8, <2>3, <2>4 DEF Cur, u, v
  <1>13. Looked(where2)'
    BY <1>4, <1>11, <1>12 DEF Looked, Listed
  <1>14. Scanning(past, where2)'
    <2>1. /\ past \in Seq(Known) /\ InOrderOf(applied', past)
          /\ Cat(past, Cat(Ahead(tree, where, todo), After(tree, loop.dirs, at))) = Meant
      BY <1>1, <1>11 DEF Scanning
    <2>2. Scans(tree', where2, todo')
      BY <1>9, <1>11
    <2>3. Cat(past, Cat(Ahead(tree', where2, todo'), After(tree', loop'.dirs, at'))) = Meant'
      BY <1>10, <1>11, <2>1
    <2> QED BY <1>13, <2>1, <2>2, <2>3 DEF Scanning
  <1>15. Ordered'
    BY <1>2, <1>11 DEF Ordered
  <1> QED BY <1>2, <1>11, <1>14, <1>15 DEF OrderInv

LEMMA OrderReturn == OrderInv /\ Return => OrderInv'
  <1> SUFFICES ASSUME OrderInv, Return PROVE OrderInv'
    OBVIOUS
  <1>1. /\ status = "running" /\ todo # <<>> /\ Cur = <<>> /\ todo' = Tail(todo)
        /\ UNCHANGED <<given, at, path, applied, status>>
    BY DEF Return
  <1>2. PICK past, where : Scanning(past, where)
    BY <1>1 DEF OrderInv
  <1>3. /\ tree \in Trees /\ loop \in Loops(tree) /\ at \in 1 .. Len(loop.dirs)
        /\ applied \in Seq(Known) /\ Ordered
        /\ past \in Seq(Known) /\ Scans(tree, where, todo) /\ InOrderOf(applied, past)
        /\ Cat(past, Cat(Ahead(tree, where, todo), After(tree, loop.dirs, at))) = Meant
    BY <1>1, <1>2 DEF OrderInv, Scanning
  <1>4. PICK where2 : where2 = Tail(where)
    OBVIOUS
  <1>5. Head(todo) = <<>> /\ Scans(tree, where2, todo')
    BY <1>1, <1>3, <1>4, ScansHead DEF Cur
  <1>6. Ahead(tree, where, todo) = Ahead(tree, where2, todo')
    <2>1. Ahead(tree, where, todo) =
             Cat(Row(Behind(tree), Head(where), Head(todo)), Ahead(tree, where2, todo'))
      BY <1>1, <1>3, <1>4, AheadHead
    <2>2. Row(Behind(tree), Head(where), Head(todo)) = <<>>
      BY <1>5, RowEmpty
    <2>3. Ahead(tree, where2, todo') \in Seq(Known)
      BY <1>3, <1>5, AheadHead
    <2> QED BY <2>1, <2>2, <2>3, CatProperties
  <1>7. UNCHANGED <<tree, loop, Meant, at, path, applied, status>>
    BY <1>1 DEF given, Meant
  <1>8. Looked(where2)'
    <2>1. Range(Cur) = {}
      BY <1>1 DEF Range
    <2> QED BY <1>2, <1>7, <2>1 DEF Scanning, Looked, Listed
  <1>9. Scanning(past, where2)'
    <2>1. Scans(tree', where2, todo') /\ InOrderOf(applied', past)
      BY <1>3, <1>5, <1>7
    <2>2. Cat(past, Cat(Ahead(tree', where2, todo'), After(tree', loop'.dirs, at'))) = Meant'
      BY <1>3, <1>6, <1>7
    <2> QED BY <1>3, <1>8, <2>1, <2>2 DEF Scanning
  <1>10. Ordered'
    BY <1>3, <1>7 DEF Ordered
  <1> QED BY <1>3, <1>7, <1>9, <1>10 DEF OrderInv

\* What the scans had ahead is passed over when the run ends.
LEMMA OrderEnds ==
    ASSUME OrderInv, status = "running", UNCHANGED <<given, applied>>, NEW result, Over(result),
           result \in {"ok", "failed"}
    PROVE  OrderInv'
  <1>1. PICK past, where : Scanning(past, where)
    BY DEF OrderInv
  <1> DEFINE ahead == Ahead(tree, where, todo)
             after == After(tree, loop.dirs, at)
  <1>2. /\ tree \in Trees /\ loop \in Loops(tree) /\ at \in 1 .. Len(loop.dirs)
        /\ applied \in Seq(Known)
        /\ past \in Seq(Known) /\ Scans(tree, where, todo) /\ InOrderOf(applied, past)
        /\ Cat(past, Cat(ahead, after)) = Meant
    BY <1>1 DEF OrderInv, Scanning
  <1>3. ahead \in Seq(Known)
    BY <1>2, AheadHead
  <1>4. after \in Seq(Known)
    <2>1. at \in 0 .. Len(loop.dirs) /\ loop.dirs \in Seq(Dir)
      BY <1>2, LoopType
    <2> QED BY <1>2, <2>1, AfterStep
  <1> HIDE DEF ahead, after
  <1>5. Cat(past, ahead) \in Seq(Known) /\ Cat(Cat(past, ahead), after) = Meant
    BY <1>2, <1>3, <1>4, CatProperties, CatAssociative
  <1>6. InOrderOf(applied, Cat(past, ahead))
    BY <1>2, <1>3, InOrderMore
  <1> QED BY <1>5, <1>6, OrderOver DEF after

LEMMA OrderStep == OrderInv /\ NoneAstray(tree) /\ [Next]_vars => OrderInv'
  <1> SUFFICES ASSUME OrderInv, NoneAstray(tree), [Next]_vars PROVE OrderInv'
    OBVIOUS
  <1>1. CASE Apply
    BY <1>1, OrderApply
  <1>2. CASE Refuse
    BY <1>2, OrderEnds DEF Refuse, Goes
  <1>3. CASE ApplyNothing
    BY <1>3, OrderPast DEF ApplyNothing
  <1>4. CASE Skip
    <2>1. Name \in Other \/ ~Holds(path, Name)
      BY <1>4 DEF Skip
    <2> QED BY <1>4, <2>1, OrderPast DEF Skip
  <1>5. CASE Descend
    <2>1. CASE /\ Name \in Archive /\ path' = Nowhere /\ todo' = Rest
      BY <1>5, <2>1, OrderUnpackNothing DEF Descend
    <2>2. CASE /\ Holds(path, Name) /\ path' = Inside[path][Name]
               /\ todo' = <<tree[path'].names>> \o Rest
      BY <1>5, <2>2, OrderInto DEF Descend
    <2> QED BY <1>5, <2>1, <2>2 DEF Descend
  <1>6. CASE Return
    BY <1>6, OrderReturn
  <1>7. CASE Done
    BY <1>7, OrderEnds DEF Done
  <1>8. CASE UNCHANGED vars
    <2>1. UNCHANGED <<tree, loop, at, path, todo, applied, status, Meant, Cur>>
      BY <1>8 DEF vars, given, Meant, Cur
    <2>2. ASSUME NEW past, NEW where, Scanning(past, where)
          PROVE  Scanning(past, where)'
      <3>1. Looked(where)'
        BY <2>1, <2>2 DEF Scanning, Looked, Listed
      <3> QED BY <2>1, <2>2, <3>1 DEF Scanning
    <2> QED BY <2>1, <2>2 DEF OrderInv, Ordered
  <1> QED BY <1>1, <1>2, <1>3, <1>4, <1>5, <1>6, <1>7, <1>8 DEF Next

\* What holds whether or not a file goes astray.
Placed ==
    /\ tree \in Trees /\ loop \in Loops(tree) /\ applied \in Seq(Known)
    /\ path \in Dir \cup {Nowhere} /\ at \in 1 .. Len(loop.dirs)

LEMMA PlacedInit == Init => Placed
  <1> SUFFICES ASSUME Init PROVE Placed
    OBVIOUS
  <1>1. /\ tree \in Trees /\ loop \in Loops(tree) /\ at = 1 /\ path = loop.dirs[1]
        /\ applied = <<>>
    BY DEF Init
  <1>2. Len(loop.dirs) \in Nat \ {0} /\ \A i \in 1 .. Len(loop.dirs) : loop.dirs[i] \in Dir
    BY <1>1, LoopType
  <1> QED BY <1>1, <1>2, EmptySeq DEF Placed

LEMMA PlacedStep == Placed /\ [Next]_vars => Placed'
  <1> SUFFICES ASSUME Placed, [Next]_vars PROVE Placed'
    OBVIOUS
  <1>1. /\ Len(loop.dirs) \in Nat \ {0} /\ \A i \in 1 .. Len(loop.dirs) : loop.dirs[i] \in Dir
        /\ at \in 1 .. Len(loop.dirs)
    BY LoopType DEF Placed
  <1>2. UNCHANGED given
    BY DEF Next, Apply, Refuse, ApplyNothing, Skip, Descend, Return, Done, Goes, vars
  <1>3. UNCHANGED <<tree, loop>>
    BY <1>2 DEF given
  <1>4. ASSUME NEW result, Over(result)
        PROVE  at' \in 1 .. Len(loop.dirs) /\ path' \in Dir \cup {Nowhere}
    <2>1. CASE at < Len(loop.dirs) /\ Run(at + 1)
      <3>1. at + 1 \in 1 .. Len(loop.dirs)
        BY <1>1, <2>1
      <3> QED BY <1>1, <2>1, <3>1 DEF Run
    <2>2. CASE Ends(result)
      BY <1>1, <2>2 DEF Ends, Placed
    <2> QED BY <1>4, <2>1, <2>2 DEF Over
  <1>5. applied' \in Seq(Known)
    <2>1. CASE Apply
      <3>1. path \in Dir /\ Name \in Patch /\ applied' = Append(applied, <<path, Name>>)
        BY <2>1 DEF Apply, Holds, Placed
      <3>2. <<path, Name>> \in Known
        BY <3>1 DEF Known
      <3> QED BY <3>1, <3>2, AppendProperties DEF Placed
    <2>2. CASE UNCHANGED applied
      BY <2>2 DEF Placed
    <2> QED BY <2>1, <2>2 DEF Next, Refuse, ApplyNothing, Skip, Descend, Return, Done, vars
  <1>6. at' \in 1 .. Len(loop.dirs) /\ path' \in Dir \cup {Nowhere}
    <2>1. CASE Refuse \/ Done
      BY <1>4, <2>1 DEF Refuse, Done
    <2>2. CASE Descend
      <3>1. Name \in Archive \cup Sub /\ UNCHANGED at
        BY <2>2 DEF Descend
      <3>2. CASE Holds(path, Name) /\ path' = Inside[path][Name]
        <4>1. path \in Dir
          BY <3>2 DEF Holds, Placed
        <4> QED BY <1>1, <3>1, <3>2, <4>1, TreeAssumption
      <3>3. CASE path' = Nowhere
        BY <1>1, <3>1, <3>3
      <3> QED BY <2>2, <3>2, <3>3 DEF Descend
    <2>3. CASE UNCHANGED <<at, path>>
      BY <1>1, <2>3 DEF Placed
    <2> QED BY <2>1, <2>2, <2>3 DEF Next, Apply, ApplyNothing, Skip, Return, vars
  <1> QED BY <1>3, <1>5, <1>6 DEF Placed

\* No step changes the tree.
LEMMA TreeStays == [Next]_vars => (NoneAstray(tree)' => NoneAstray(tree))
  <1> SUFFICES ASSUME [Next]_vars PROVE NoneAstray(tree)' => NoneAstray(tree)
    OBVIOUS
  <1>1. UNCHANGED given
    BY DEF Next, Apply, Refuse, ApplyNothing, Skip, Descend, Return, Done, Goes, vars
  <1>2. UNCHANGED tree
    BY <1>1 DEF given
  <1> QED BY <1>2 DEF NoneAstray

\* No patch is applied out of order or twice, and none that is not meant to be,
\* whatever path scan_patchdir is left with when it returns to its caller: where
\* no directory has a file it does not list under a name that another one lists.
THEOREM InOrderCorrect == Spec => []InOrder
  <1> DEFINE Inv == NoneAstray(tree) => OrderInv
  <1>1. Init => Inv
    BY OrderInit
  <1>2. Inv /\ [Next]_vars => Inv'
    BY OrderStep, TreeStays
  <1>3. Inv => InOrder
    BY DEF OrderInv, Ordered, InOrder
  <1> HIDE DEF Inv
  <1> QED BY <1>1, <1>2, <1>3, PTL DEF Spec

-----------------------------------------------------------------------------
(* All is applied where nothing follows a subdirectory or an archive.      *)

\* Nothing follows the names of what is behind the directory.
LastOnly(names) == \A i \in DOMAIN names : names[i] \in Archive \cup Sub => i = Len(names)

LEMMA LastOnlyTail ==
    ASSUME NEW S, NEW s \in Seq(S), s # <<>>, LastOnly(s)
    PROVE  LastOnly(Tail(s)) /\ (Head(s) \in Archive \cup Sub => Tail(s) = <<>>)
  <1> DEFINE t == Tail(s)
             n == Len(s)
  <1>1. /\ n \in Nat \ {0} /\ Head(s) = s[1] /\ DOMAIN s = 1 .. n
        /\ t \in Seq(S) /\ Len(t) = n - 1 /\ \A i \in 1 .. n - 1 : t[i] = s[i + 1]
    BY EmptySeq, LenProperties, HeadTailProperties
  <1>2. DOMAIN t = 1 .. n - 1
    <2> HIDE DEF t
    <2> QED BY <1>1, LenProperties
  <1>3. \A i \in 1 .. n : s[i] \in Archive \cup Sub => i = n
    BY <1>1 DEF LastOnly
  <1> HIDE DEF t, n
  <1>4. ASSUME NEW i \in 1 .. n - 1, t[i] \in Archive \cup Sub
        PROVE  i = n - 1
    <2>1. i + 1 \in 1 .. n
      BY <1>1
    <2>2. i + 1 = n
      BY <1>1, <1>3, <1>4, <2>1
    <2> QED BY <1>1, <2>2
  <1>5. s[1] \in Archive \cup Sub => n = 1
    BY <1>1, <1>3
  <1>6. n = 1 => t = <<>>
    BY <1>1, EmptySeq
  <1> QED BY <1>1, <1>2, <1>4, <1>5, <1>6 DEF LastOnly, t

\* Of a sequence in which nothing is twice, nothing at hand has been before.
LEMMA NotTwice ==
    ASSUME NEW S, NEW s \in Seq(S), NEW v \in Seq(S), Len(v) # 0, IsInjective(Cat(s, v))
    PROVE  v[1] \notin Range(s)
  <1> DEFINE w == Cat(s, v)
             n == Len(s)
  <1>1. /\ w \in Seq(S) /\ Len(w) = Len(s) + Len(v)
        /\ \A i \in 1 .. Len(s) + Len(v) : w[i] = IF i <= Len(s) THEN s[i] ELSE v[i - Len(s)]
    BY CatProperties
  <1>2. n \in Nat /\ DOMAIN s = 1 .. n /\ Len(v) \in Nat \ {0}
    BY LenProperties
  <1> HIDE DEF w
  <1>3. DOMAIN w = 1 .. n + Len(v)
    BY <1>1, LenProperties
  <1>4. n + 1 \in DOMAIN w /\ w[n + 1] = v[1]
    <2>1. n + 1 \in 1 .. n + Len(v) /\ ~(n + 1 <= n) /\ (n + 1) - n = 1
      BY <1>2
    <2> QED BY <1>1, <1>3, <2>1
  <1>5. ASSUME NEW i \in DOMAIN s, s[i] = v[1]
        PROVE  FALSE
    <2>1. i \in DOMAIN w /\ w[i] = v[1] /\ i # n + 1
      BY <1>1, <1>2, <1>3, <1>5
    <2>2. IsInjective(w)
      BY DEF w
    <2> QED BY <1>4, <2>1, <2>2 DEF IsInjective
  <1> QED BY <1>5 DEF Range

\* The hypotheses of AppliedWhenLast that no step changes.
Plain == NothingFollows(tree) /\ AllThere(tree) /\ Noticed

\* The scans below the one on top have come to their ends, and that one, if it has
\* names left, is in the directory that the path names; what is applied and what is
\* left are what is meant to be.
Straight(left) ==
    /\ left \in Seq(Known) /\ list = applied
    /\ Cat(applied, Cat(left, After(tree, loop.dirs, at))) = Meant
    /\ Range(left) \subseteq Range(Behind(tree)[loop.dirs[at]])
    /\ todo \in Seq(Seq(Patch \cup Other \cup Archive \cup Sub))
    /\ todo # <<>> => Range(Tail(todo)) \subseteq {<<>>}
    /\ todo = <<>> \/ Head(todo) = <<>> => left = <<>>
    /\ todo # <<>> /\ Head(todo) # <<>> =>
          /\ path \in Dir /\ Head(todo) \in Seq(Range(tree[path].names))
          /\ LastOnly(Head(todo))
          /\ left = Row(Behind(tree), path, Head(todo))

AppliedInv ==
    /\ tree \in Trees /\ loop \in Loops(tree) /\ applied \in Seq(Known)
    /\ Plain /\ status = "running" => at \in 1 .. Len(loop.dirs) /\ \E left : Straight(left)
    /\ AppliedWhenLast

\* No step changes the hypotheses: without them there is nothing to show.
LEMMA PlainStays ==
    ASSUME UNCHANGED given
    PROVE  UNCHANGED <<tree, loop, refused, Meant>> /\ Plain' = Plain
  <1>1. UNCHANGED <<tree, loop, refused>>
    BY DEF given
  <1>2. Meant' = Meant
    BY <1>1 DEF Meant
  <1>3. (Noticed' <=> Noticed) /\ (NothingFollows(tree)' <=> NothingFollows(tree))
        /\ (AllThere(tree)' <=> AllThere(tree))
    BY <1>1, <1>2 DEF Noticed, NothingFollows, AllThere
  <1> QED BY <1>1, <1>2, <1>3 DEF Plain

\* The script starts on directory d.
LEMMA StartedStraight ==
    ASSUME NEW t \in Trees, NEW d \in Dir, NothingFollows(t)
    PROVE  /\ <<t[d].names>> \in Seq(Seq(Patch \cup Other \cup Archive \cup Sub))
           /\ <<t[d].names>> # <<>> /\ Head(<<t[d].names>>) = t[d].names
           /\ Tail(<<t[d].names>>) = <<>> /\ Range(<<>>) = {}
           /\ t[d].names \in Seq(Range(t[d].names)) /\ LastOnly(t[d].names)
           /\ Behind(t)[d] \in Seq(Known) /\ Behind(t)[d] = Row(Behind(t), d, t[d].names)
           /\ t[d].names = <<>> => Behind(t)[d] = <<>>
  <1> DEFINE names == t[d].names
  <1>1. names \in Seq(Patch \cup Other \cup Archive \cup Sub)
    BY TreeAssumption
  <1>2. Behind(t)[d] \in Seq(Known) /\ Behind(t)[d] = Row(Behind(t), d, names)
    BY BehindType, BehindRow
  <1>3. LastOnly(names)
    BY DEF NothingFollows, LastOnly
  <1>4. names \in Seq(Range(names))
    BY <1>1, SeqOfRange
  <1>5. names = <<>> => Behind(t)[d] = <<>>
    BY <1>2, RowEmpty
  <1>6. Range(<<>>) = {}
    BY DEF Range
  <1> HIDE DEF names
  <1>7. /\ <<names>> \in Seq(Seq(Patch \cup Other \cup Archive \cup Sub))
        /\ <<names>> # <<>> /\ Head(<<names>>) = names /\ Tail(<<names>>) = <<>>
    BY <1>1
  <1> QED BY <1>2, <1>3, <1>4, <1>5, <1>6, <1>7 DEF names

\* What holds when the scan on top has read a name.
LEMMA StraightTurn ==
    ASSUME AppliedInv, Plain, Goes, NEW left, Straight(left)
    PROVE  /\ Cur = Head(todo) /\ path \in Dir /\ path # Nowhere
           /\ Name \in Range(tree[path].names) /\ Holds(path, Name)
           /\ Item(Behind(tree), path, Name) \in Seq(Known)
           /\ Row(Behind(tree), path, Tail(Cur)) \in Seq(Known)
           /\ left = Cat(Item(Behind(tree), path, Name), Row(Behind(tree), path, Tail(Cur)))
           /\ Tail(Cur) \in Seq(Range(tree[path].names)) /\ LastOnly(Tail(Cur))
           /\ Name \in Archive \cup Sub => Tail(Cur) = <<>>
           /\ Rest \in Seq(Seq(Patch \cup Other \cup Archive \cup Sub)) /\ Rest # <<>>
           /\ Head(Rest) = Tail(Cur) /\ Tail(Rest) = Tail(todo)
           /\ Range(Rest) = {Tail(Cur)} \cup Range(Tail(todo))
           /\ Range(Tail(todo)) \subseteq {<<>>}
  <1> DEFINE N == Patch \cup Other \cup Archive \cup Sub
  <1> HIDE DEF N
  <1>1. /\ tree \in Trees /\ todo \in Seq(Seq(N)) /\ todo # <<>> /\ Cur # <<>>
        /\ Range(Tail(todo)) \subseteq {<<>>} /\ AllThere(tree)
    BY DEF AppliedInv, Plain, Goes, Straight, N
  <1>2. Cur = Head(todo) /\ Cur \in Seq(N) /\ Tail(todo) \in Seq(Seq(N))
    <2>1. Head(todo) = todo[1]
      BY <1>1
    <2> QED BY <1>1, <2>1, HeadTailProperties DEF Cur
  <1>3. /\ path \in Dir /\ Cur \in Seq(Range(tree[path].names)) /\ LastOnly(Cur)
        /\ left = Row(Behind(tree), path, Cur)
    BY <1>1, <1>2 DEF Straight
  <1>4. /\ Name \in Range(tree[path].names) /\ Tail(Cur) \in Seq(Range(tree[path].names))
        /\ LastOnly(Tail(Cur)) /\ (Name \in Archive \cup Sub => Tail(Cur) = <<>>)
    BY <1>1, <1>3, HeadTailProperties, LastOnlyTail DEF Name
  <1>5. path # Nowhere /\ Holds(path, Name)
    BY <1>1, <1>3, <1>4, TreeAssumption DEF Holds, AllThere
  <1>6. /\ Row(Behind(tree), path, Tail(Cur)) \in Seq(Known)
        /\ left = Cat(Item(Behind(tree), path, Name), Row(Behind(tree), path, Tail(Cur)))
    BY <1>1, <1>3, <1>4, RowHead DEF Name
  <1>7. Item(Behind(tree), path, Name) \in Seq(Known)
    <2>1. Inner(tree, path) \subseteq Dir
      BY <1>1, <1>3, NameKinds DEF Inner
    <2>2. \A e \in Inner(tree, path) : Behind(tree)[e] \in Seq(Known)
      BY <1>1, <2>1, BehindType
    <2> QED BY <1>1, <1>3, <1>4, <2>2, ItemType
  <1>8. /\ Rest \in Seq(Seq(N)) /\ Rest # <<>> /\ Head(Rest) = Tail(Cur) /\ Tail(Rest) = Tail(todo)
        /\ Range(Rest) = {Tail(Cur)} \cup Range(Tail(todo))
    <2>1. Tail(Cur) \in Seq(N)
      BY <1>1, <1>2, HeadTailProperties
    <2>2. /\ Rest \in Seq(Seq(N)) /\ Rest # <<>> /\ Head(Rest) = Tail(Cur)
          /\ Tail(Rest) = Tail(todo)
      BY <1>2, <2>1, PushProperties DEF Rest
    <2>3. Range(Rest) = {Head(Rest)} \cup Range(Tail(Rest))
      BY <2>2, RangeTail
    <2> QED BY <2>2, <2>3
  <1> QED BY <1>1, <1>2, <1>3, <1>4, <1>5, <1>6, <1>7, <1>8 DEF N

\* A step within a run of the script.
LEMMA AppliedWithin ==
    ASSUME AppliedInv, Plain, status = "running", UNCHANGED <<given, at, status>>,
           applied' \in Seq(Known), NEW left, Straight(left)'
    PROVE  AppliedInv'
  <1>1. /\ UNCHANGED <<tree, loop, at, status>> /\ status' = "running"
    BY PlainStays
  <1>2. AppliedWhenLast'
    BY <1>1 DEF AppliedWhenLast
  <1> QED BY <1>1, <1>2 DEF AppliedInv

LEMMA AfterType ==
    ASSUME tree \in Trees, loop \in Loops(tree), at \in 1 .. Len(loop.dirs)
    PROVE  After(tree, loop.dirs, at) \in Seq(Known)
  <1>1. at \in 0 .. Len(loop.dirs) /\ loop.dirs \in Seq(Dir)
    BY LoopType
  <1> QED BY <1>1, AfterStep

\* The scan on top goes past a name, and what the name stands for is applied.
LEMMA AppliedTurn ==
    ASSUME AppliedInv, Plain, Goes, NEW left, Straight(left),
           todo' = Rest, UNCHANGED <<at, path, status>>,
           applied' = Cat(applied, Item(Behind(tree), path, Name)), list' = applied'
    PROVE  AppliedInv'
  <1>1. PICK item, rest, after :
           /\ item = Item(Behind(tree), path, Name) /\ rest = Row(Behind(tree), path, Tail(Cur))
           /\ after = After(tree, loop.dirs, at)
    OBVIOUS
  <1>2. /\ item \in Seq(Known) /\ rest \in Seq(Known) /\ left = Cat(item, rest)
        /\ path \in Dir /\ Tail(Cur) \in Seq(Range(tree[path].names)) /\ LastOnly(Tail(Cur))
        /\ Rest \in Seq(Seq(Patch \cup Other \cup Archive \cup Sub)) /\ Rest # <<>>
        /\ Head(Rest) = Tail(Cur) /\ Tail(Rest) = Tail(todo)
        /\ Range(Tail(todo)) \subseteq {<<>>}
    BY <1>1, StraightTurn
  <1>3. /\ tree \in Trees /\ loop \in Loops(tree) /\ at \in 1 .. Len(loop.dirs)
        /\ applied \in Seq(Known) /\ status = "running"
        /\ Cat(applied, Cat(left, after)) = Meant
        /\ Range(left) \subseteq Range(Behind(tree)[loop.dirs[at]])
    BY <1>1 DEF AppliedInv, Straight, Goes
  <1>4. after \in Seq(Known)
    BY <1>1, <1>3, AfterType
  <1>5. applied' = Cat(applied, item) /\ applied' \in Seq(Known)
    BY <1>1, <1>2, <1>3, CatProperties
  <1>6. Cat(applied', Cat(rest, after)) = Meant
    <2>1. Cat(rest, after) \in Seq(Known)
      BY <1>2, <1>4, CatProperties
    <2>2. Cat(Cat(applied, item), Cat(rest, after)) = Cat(applied, Cat(item, Cat(rest, after)))
      BY <1>2, <1>3, <2>1, CatAssociative
    <2>3. Cat(Cat(item, rest), after) = Cat(item, Cat(rest, after))
      BY <1>2, <1>4, CatAssociative
    <2> QED BY <1>2, <1>3, <1>5, <2>2, <2>3
  <1>7. Range(rest) \subseteq Range(left)
    BY <1>2, RangeConcatenation DEF Cat
  <1>8. UNCHANGED <<given, tree, loop, Meant, at, path>>
    BY PlainStays DEF Goes
  <1>9. Tail(Cur) = <<>> => rest = <<>>
    BY <1>1, RowEmpty
  <1>10. Straight(rest)'
    <2>1. After(tree', loop'.dirs, at') = after /\ Behind(tree') = Behind(tree)
      BY <1>1, <1>8
    <2>2. /\ Cat(applied', Cat(rest, After(tree', loop'.dirs, at'))) = Meant'
          /\ Range(rest) \subseteq Range(Behind(tree')[loop'.dirs[at']])
      BY <1>3, <1>6, <1>7, <1>8, <2>1
    <2>3. todo' = Rest /\ Head(todo') = Tail(Cur) /\ Tail(todo') = Tail(todo)
      BY <1>2
    <2>4. /\ path' \in Dir /\ Head(todo') \in Seq(Range(tree'[path'].names)) /\ LastOnly(Head(todo'))
          /\ rest = Row(Behind(tree'), path', Head(todo'))
      BY <1>1, <1>2, <1>8, <2>1, <2>3
    <2> QED BY <1>2, <1>9, <2>2, <2>3, <2>4 DEF Straight
  <1> QED BY <1>3, <1>5, <1>8, <1>10, AppliedWithin

LEMMA AppliedApply ==
    ASSUME AppliedInv, Plain, Apply
    PROVE  AppliedInv'
  <1>1. /\ Goes /\ Name \in Patch /\ applied' = Append(applied, <<path, Name>>)
        /\ list' = Append(list, <<path, Name>>)
        /\ todo' = Rest /\ UNCHANGED <<at, path, status>>
    BY DEF Apply
  <1>2. PICK left : Straight(left)
    BY <1>1 DEF AppliedInv, Goes
  <1>3. path \in Dir /\ Name \in Range(tree[path].names) /\ tree \in Trees /\ applied \in Seq(Known)
    BY <1>1, <1>2, StraightTurn DEF AppliedInv
  <1>4. Item(Behind(tree), path, Name) = << <<path, Name>> >>
    BY <1>1, <1>3, ItemIs
  <1>5. <<path, Name>> \in Known
    BY <1>1, <1>3 DEF Known
  <1>6. Append(applied, <<path, Name>>) = Cat(applied, << <<path, Name>> >>)
    BY <1>3, <1>5, AppendIsConcat DEF Cat
  <1>7. list = applied
    BY <1>2 DEF Straight
  <1> QED BY <1>1, <1>2, <1>4, <1>6, <1>7, AppliedTurn

\* The step fails.  The loop of the kernel is at its last directory, as a patch that is
\* refused does not fit: there is none twice.
LEMMA AppliedRefuse ==
    ASSUME AppliedInv, Plain, Refuse
    PROVE  AppliedInv'
  <1>1. /\ Goes /\ Name \in Patch /\ Refuses(<<path, Name>>) /\ Over("failed")
        /\ UNCHANGED applied
    BY DEF Refuse
  <1>2. PICK left : Straight(left)
    BY <1>1 DEF AppliedInv, Goes
  <1>3. /\ tree \in Trees /\ loop \in Loops(tree) /\ at \in 1 .. Len(loop.dirs)
        /\ applied \in Seq(Known)
    BY <1>1 DEF AppliedInv, Goes
  <1>4. PICK e, rest, after :
           /\ e = <<path, Name>> /\ rest = Row(Behind(tree), path, Tail(Cur))
           /\ after = After(tree, loop.dirs, at)
    OBVIOUS
  <1>5. /\ path \in Dir /\ Name \in Range(tree[path].names)
        /\ rest \in Seq(Known) /\ left = Cat(Item(Behind(tree), path, Name), rest)
    BY <1>1, <1>2, <1>4, StraightTurn
  <1>6. PICK one : one = <<e>>
    OBVIOUS
  <1>7. e \in Known /\ one \in Seq(Known) /\ Len(one) = 1 /\ one[1] = e
    <2>1. e \in Known
      BY <1>1, <1>4, <1>5 DEF Known
    <2> QED BY <1>6, <2>1
  <1>8. left = Cat(one, rest)
    BY <1>1, <1>3, <1>4, <1>5, <1>6, ItemIs
  <1>9. left \in Seq(Known) /\ after \in Seq(Known)
    BY <1>3, <1>4, <1>5, <1>7, <1>8, AfterType, CatProperties
  <1>10. Len(left) \in Nat \ {0} /\ left[1] = e
    <2>1. Len(rest) \in Nat /\ 1 \in 1 .. Len(one) + Len(rest) /\ 1 <= Len(one)
      BY <1>5, <1>7, LenProperties
    <2>2. Len(left) = Len(one) + Len(rest)
      BY <1>5, <1>7, <1>8, CatProperties
    <2>3. left[1] = one[1]
      <3>1. \A i \in 1 .. Len(one) + Len(rest) :
               Cat(one, rest)[i] = IF i <= Len(one) THEN one[i] ELSE rest[i - Len(one)]
        BY <1>5, <1>7, CatProperties
      <3> QED BY <1>8, <2>1, <3>1
    <2> QED BY <1>7, <2>1, <2>2, <2>3
  <1>11. Cat(left, after) \in Seq(Known) /\ Len(Cat(left, after)) # 0 /\ Cat(left, after)[1] = e
    <2>1. Len(after) \in Nat /\ 1 \in 1 .. Len(left) + Len(after) /\ 1 <= Len(left)
      BY <1>9, <1>10, LenProperties
    <2>2. Len(Cat(left, after)) = Len(left) + Len(after)
      BY <1>9, CatProperties
    <2>3. Cat(left, after)[1] = left[1]
      BY <1>9, <2>1, CatProperties
    <2>4. Cat(left, after) \in Seq(Known)
      BY <1>9, CatProperties
    <2> QED BY <1>10, <2>1, <2>2, <2>3, <2>4
  <1>12. e \in Range(Behind(tree)[loop.dirs[at]])
    <2>1. 1 \in DOMAIN left
      BY <1>9, <1>10, LenProperties
    <2>2. e \in Range(left)
      BY <1>10, <2>1 DEF Range
    <2> QED BY <1>2, <2>2 DEF Straight
  <1>13. Ends("failed")
    <2> SUFFICES ASSUME at < Len(loop.dirs), loop.by = "kernel" PROVE FALSE
      BY <1>1 DEF Over
    <2>1. at \in 1 .. Len(loop.dirs) - 1
      BY <1>3, LoopType
    <2>2. refused \cap Range(Behind(tree)[loop.dirs[at]]) = {} /\ IsInjective(Meant)
      BY <2>1 DEF Plain, Noticed
    <2>3. IsInjective(Cat(applied, Cat(left, after)))
      BY <1>2, <1>4, <2>2 DEF Straight
    <2>4. e \notin Range(applied)
      BY <1>3, <1>11, <2>3, NotTwice
    <2>5. e \in refused
      BY <1>1, <1>4, <2>4 DEF Refuses
    <2> QED BY <1>12, <2>2, <2>5
  <1>14. status' = "failed"
    BY <1>13 DEF Ends
  <1>15. UNCHANGED <<tree, loop, applied>>
    BY <1>1, PlainStays DEF Goes
  <1> QED BY <1>3, <1>14, <1>15 DEF AppliedInv, AppliedWhenLast

LEMMA AppliedSkip ==
    ASSUME AppliedInv, Plain, Skip
    PROVE  AppliedInv'
  <1>1. /\ Goes /\ (Name \in Other \/ (Name \in Sub /\ ~Holds(path, Name)))
        /\ todo' = Rest /\ UNCHANGED <<at, path, applied, list, status>>
    BY DEF Skip
  <1>2. PICK left : Straight(left)
    BY <1>1 DEF AppliedInv, Goes
  <1>3. /\ path \in Dir /\ Name \in Range(tree[path].names) /\ tree \in Trees /\ Holds(path, Name)
        /\ applied \in Seq(Known) /\ list = applied
    BY <1>1, <1>2, StraightTurn DEF AppliedInv, Straight
  <1>4. Item(Behind(tree), path, Name) = <<>>
    BY <1>1, <1>3, ItemIs
  <1>5. applied' = Cat(applied, Item(Behind(tree), path, Name))
    BY <1>1, <1>3, <1>4, CatProperties
  <1> QED BY <1>1, <1>2, <1>3, <1>5, AppliedTurn

\* Nothing follows the name of what is scanned now.
LEMMA AppliedDescend ==
    ASSUME AppliedInv, Plain, Descend
    PROVE  AppliedInv'
  <1>1. /\ Goes /\ Name \in Sub \cup Archive /\ UNCHANGED <<at, applied, list, status>>
    BY DEF Descend
  <1>2. PICK left : Straight(left)
    BY <1>1 DEF AppliedInv, Goes
  <1>3. /\ tree \in Trees /\ loop \in Loops(tree) /\ at \in 1 .. Len(loop.dirs)
        /\ applied \in Seq(Known) /\ status = "running" /\ NothingFollows(tree)
    BY <1>1 DEF AppliedInv, Goes, Plain
  <1>4. /\ path \in Dir /\ Name \in Range(tree[path].names) /\ Holds(path, Name)
        /\ Item(Behind(tree), path, Name) \in Seq(Known)
        /\ left = Cat(Item(Behind(tree), path, Name), Row(Behind(tree), path, Tail(Cur)))
        /\ Tail(Cur) = <<>>
        /\ Rest \in Seq(Seq(Patch \cup Other \cup Archive \cup Sub))
        /\ Range(Rest) = {Tail(Cur)} \cup Range(Tail(todo)) /\ Range(Tail(todo)) \subseteq {<<>>}
    BY <1>1, <1>2, StraightTurn
  <1>5. path' = Inside[path][Name] /\ todo' = <<tree[path'].names>> \o Rest
    BY <1>4 DEF Descend
  <1>6. PICK d, names : d = Inside[path][Name] /\ names = tree[d].names
    OBVIOUS
  <1>7. d \in Dir /\ Item(Behind(tree), path, Name) = Behind(tree)[d]
    <2>1. Name \in Archive \cup Sub
      BY <1>1
    <2>2. Inside[path][Name] \in Dir
      BY <1>3, <1>4, <2>1, NameKinds
    <2>3. Item(Behind(tree), path, Name) = Behind(tree)[Inside[path][Name]]
      BY <1>3, <1>4, <2>1, ItemIs
    <2> QED BY <1>6, <2>2, <2>3
  <1>8. left = Behind(tree)[d]
    <2>1. Row(Behind(tree), path, Tail(Cur)) = <<>>
      BY <1>4, RowEmpty
    <2> QED BY <1>4, <1>7, <2>1, CatProperties
  <1>9. /\ names \in Seq(Patch \cup Other \cup Archive \cup Sub)
        /\ names \in Seq(Range(names)) /\ LastOnly(names)
        /\ Behind(tree)[d] = Row(Behind(tree), d, names)
        /\ names = <<>> => Behind(tree)[d] = <<>>
    BY <1>3, <1>6, <1>7, StartedStraight, TreeAssumption
  <1>10. path' = d /\ todo' = <<names>> \o Rest
    BY <1>5, <1>6
  <1>11. /\ todo' \in Seq(Seq(Patch \cup Other \cup Archive \cup Sub))
         /\ Head(todo') = names /\ Tail(todo') = Rest
    BY <1>4, <1>9, <1>10, PushProperties
  <1>12. UNCHANGED <<given, tree, loop, Meant, at, applied, list, status>>
    BY <1>1, PlainStays DEF Goes
  <1>13. Range(Tail(todo')) \subseteq {<<>>}
    BY <1>4, <1>11
  <1>14. Straight(left)'
    <2>1. /\ left \in Seq(Known) /\ list' = applied'
          /\ Cat(applied', Cat(left, After(tree', loop'.dirs, at'))) = Meant'
          /\ Range(left) \subseteq Range(Behind(tree')[loop'.dirs[at']])
      BY <1>2, <1>12 DEF Straight
    <2>2. /\ path' \in Dir /\ Head(todo') \in Seq(Range(tree'[path'].names)) /\ LastOnly(Head(todo'))
          /\ left = Row(Behind(tree'), path', Head(todo'))
      BY <1>6, <1>7, <1>8, <1>9, <1>10, <1>11, <1>12
    <2>3. Head(todo') = <<>> => left = <<>>
      BY <1>8, <1>9, <1>11
    <2>4. todo' # <<>>
      BY <1>4, <1>9, <1>10, PushProperties
    <2> QED BY <1>11, <1>13, <2>1, <2>2, <2>3, <2>4 DEF Straight
  <1> QED BY <1>3, <1>12, <1>14, AppliedWithin

\* The scan that goes on has come to its end as well.
LEMMA AppliedReturn ==
    ASSUME AppliedInv, Plain, Return
    PROVE  AppliedInv'
  <1>1. /\ status = "running" /\ todo # <<>> /\ Cur = <<>> /\ todo' = Tail(todo)
        /\ UNCHANGED <<given, at, path, applied, list, status>>
    BY DEF Return
  <1>2. PICK left : Straight(left)
    BY <1>1 DEF AppliedInv
  <1> DEFINE N == Patch \cup Other \cup Archive \cup Sub
  <1> HIDE DEF N
  <1>3. /\ todo \in Seq(Seq(N)) /\ Range(todo') \subseteq {<<>>}
        /\ (todo = <<>> \/ Head(todo) = <<>> => left = <<>>)
        /\ applied \in Seq(Known)
    BY <1>1, <1>2 DEF Straight, AppliedInv, N
  <1>4. Head(todo) = <<>>
    BY <1>1, <1>3, HeadTailProperties DEF Cur
  <1>5. left = <<>>
    BY <1>3, <1>4
  <1>6. todo' \in Seq(Seq(N))
    BY <1>1, <1>3, HeadTailProperties
  <1>7. todo' # <<>> => Head(todo') = <<>> /\ Range(Tail(todo')) \subseteq {<<>>}
    <2>1. todo' # <<>> => Range(todo') = {Head(todo')} \cup Range(Tail(todo'))
      BY <1>6, RangeTail
    <2> QED BY <1>3, <2>1
  <1>8. UNCHANGED <<tree, loop, Meant>>
    BY <1>1, PlainStays
  <1>9. Straight(left)'
    <2>1. /\ left \in Seq(Known) /\ list' = applied'
          /\ Cat(applied', Cat(left, After(tree', loop'.dirs, at'))) = Meant'
          /\ Range(left) \subseteq Range(Behind(tree')[loop'.dirs[at']])
      BY <1>1, <1>2, <1>8 DEF Straight
    <2> QED BY <1>5, <1>6, <1>7, <2>1 DEF Straight, N
  <1> QED BY <1>1, <1>3, <1>9, AppliedWithin

LEMMA AppliedDone ==
    ASSUME AppliedInv, Plain, Done
    PROVE  AppliedInv'
  <1>1. /\ status = "running" /\ todo = <<>> /\ Over("ok") /\ UNCHANGED <<given, applied, list>>
    BY DEF Done
  <1>2. PICK left : Straight(left)
    BY <1>1 DEF AppliedInv
  <1>3. /\ tree \in Trees /\ loop \in Loops(tree) /\ at \in 1 .. Len(loop.dirs)
        /\ applied \in Seq(Known) /\ NothingFollows(tree)
    BY <1>1 DEF AppliedInv, Plain
  <1>4. UNCHANGED <<tree, loop, Meant, applied, list>> /\ (Plain' <=> Plain)
    BY <1>1, PlainStays
  <1>5. Cat(applied, After(tree, loop.dirs, at)) = Meant /\ list = applied
    <2>1. left = <<>> /\ Cat(applied, Cat(left, After(tree, loop.dirs, at))) = Meant /\ list = applied
      BY <1>1, <1>2 DEF Straight
    <2>2. After(tree, loop.dirs, at) \in Seq(Known)
      BY <1>3, AfterType
    <2> QED BY <2>1, <2>2, CatProperties
  <1>6. CASE at < Len(loop.dirs) /\ Run(at + 1)
    <2>1. at + 1 \in 1 .. Len(loop.dirs) /\ at \in 0 .. Len(loop.dirs) /\ loop.dirs \in Seq(Dir)
      BY <1>3, <1>6, LoopType
    <2>2. PICK d, names : d = loop.dirs[at + 1] /\ names = tree[d].names
      OBVIOUS
    <2>3. at' = at + 1 /\ path' = d /\ todo' = <<names>> /\ status' = status
      BY <1>6, <2>2 DEF Run
    <2>4. PICK b : b = Behind(tree)[d]
      OBVIOUS
    <2>5. /\ d \in Dir /\ b \in Seq(Known)
          /\ <<names>> \in Seq(Seq(Patch \cup Other \cup Archive \cup Sub))
          /\ <<names>> # <<>> /\ Head(<<names>>) = names
          /\ Tail(<<names>>) = <<>> /\ Range(<<>>) = {}
          /\ names \in Seq(Range(names)) /\ LastOnly(names)
          /\ b = Row(Behind(tree), d, names)
          /\ names = <<>> => b = <<>>
      <3>1. d \in Dir
        BY <1>3, <2>1, <2>2, LoopType
      <3> QED BY <1>3, <2>2, <2>4, <3>1, StartedStraight
    <2>6. After(tree, loop.dirs, at) = Cat(b, After(tree, loop.dirs, at + 1))
      BY <1>3, <1>6, <2>1, <2>2, <2>4, AfterStep
    <2>7. Straight(b)'
      <3>1. /\ list' = applied'
            /\ Cat(applied', Cat(b, After(tree', loop'.dirs, at'))) = Meant'
            /\ Range(b) \subseteq Range(Behind(tree')[loop'.dirs[at']])
        BY <1>4, <1>5, <2>2, <2>3, <2>4, <2>6
      <3>2. /\ todo' # <<>> /\ Head(todo') = names /\ Range(Tail(todo')) \subseteq {<<>>}
            /\ todo' \in Seq(Seq(Patch \cup Other \cup Archive \cup Sub))
        BY <2>3, <2>5
      <3>3. /\ path' \in Dir /\ Head(todo') \in Seq(Range(tree'[path'].names))
            /\ LastOnly(Head(todo')) /\ b = Row(Behind(tree'), path', Head(todo'))
        BY <1>4, <2>2, <2>3, <2>5, <3>2
      <3> QED BY <2>5, <3>1, <3>2, <3>3 DEF Straight
    <2>8. status' # "ok"
      BY <1>1, <2>3
    <2> QED BY <1>3, <1>4, <2>1, <2>3, <2>7, <2>8 DEF AppliedInv, AppliedWhenLast
  <1>7. CASE ~(at < Len(loop.dirs)) /\ Ends("ok")
    <2>1. at = Len(loop.dirs) /\ at \in 0 .. Len(loop.dirs) /\ loop.dirs \in Seq(Dir)
      BY <1>3, <1>7, LoopType
    <2>2. After(tree, loop.dirs, at) = <<>>
      BY <1>3, <2>1, AfterStep
    <2>3. applied = Meant
      BY <1>3, <1>5, <2>2, CatProperties
    <2>4. status' = "ok"
      BY <1>7 DEF Ends
    <2> QED BY <1>3, <1>4, <1>5, <2>3, <2>4 DEF AppliedInv, AppliedWhenLast
  <1> QED BY <1>1, <1>6, <1>7 DEF Over

LEMMA AppliedInit == Init => AppliedInv
  <1> SUFFICES ASSUME Init PROVE AppliedInv
    OBVIOUS
  <1>1. /\ tree \in Trees /\ loop \in Loops(tree) /\ at = 1 /\ path = loop.dirs[1]
        /\ todo = <<tree[loop.dirs[1]].names>> /\ applied = <<>> /\ list = <<>>
        /\ status = "running"
    BY DEF Init
  <1>2. /\ loop.dirs \in Seq(Dir) /\ 1 \in 1 .. Len(loop.dirs) /\ 0 \in 0 .. Len(loop.dirs)
        /\ 0 < Len(loop.dirs) /\ Meant = After(tree, loop.dirs, 0) /\ loop.dirs[1] \in Dir
    BY <1>1, LoopType
  <1>3. applied \in Seq(Known) /\ AppliedWhenLast
    BY <1>1, EmptySeq DEF AppliedWhenLast
  <1>4. ASSUME Plain
        PROVE  \E left : Straight(left)
    <2>1. PICK d, names, b : d = loop.dirs[1] /\ names = tree[d].names /\ b = Behind(tree)[d]
      OBVIOUS
    <2>2. /\ d \in Dir /\ b \in Seq(Known)
          /\ <<names>> \in Seq(Seq(Patch \cup Other \cup Archive \cup Sub))
          /\ <<names>> # <<>> /\ Head(<<names>>) = names
          /\ Tail(<<names>>) = <<>> /\ Range(<<>>) = {}
          /\ names \in Seq(Range(names)) /\ LastOnly(names)
          /\ b = Row(Behind(tree), d, names)
          /\ names = <<>> => b = <<>>
      <3>1. NothingFollows(tree) /\ d \in Dir
        BY <1>2, <1>4, <2>1 DEF Plain
      <3> QED BY <1>1, <2>1, <3>1, StartedStraight
    <2>3. path = d /\ todo = <<names>>
      BY <1>1, <2>1
    <2>4. Cat(applied, Cat(b, After(tree, loop.dirs, at))) = Meant
      <3>1. After(tree, loop.dirs, 0) = Cat(b, After(tree, loop.dirs, 1)) /\ Meant \in Seq(Known)
        BY <1>1, <1>2, <2>1, AfterStep
      <3> QED BY <1>1, <1>2, <3>1, CatProperties
    <2>5. Straight(b)
      BY <1>1, <2>1, <2>2, <2>3, <2>4 DEF Straight
    <2> QED BY <2>5
  <1> QED BY <1>1, <1>2, <1>3, <1>4 DEF AppliedInv

LEMMA AppliedStep == Placed /\ AppliedInv /\ [Next]_vars => AppliedInv'
  <1> SUFFICES ASSUME Placed, AppliedInv, [Next]_vars PROVE AppliedInv'
    OBVIOUS
  <1>1. CASE UNCHANGED vars
    <2>1. UNCHANGED <<given, tree, loop, at, path, todo, applied, list, status, Meant>> /\ (Plain' <=> Plain)
      BY <1>1, PlainStays DEF vars
    <2>2. ASSUME NEW left, Straight(left)
          PROVE  Straight(left)'
      BY <2>1, <2>2 DEF Straight
    <2>3. AppliedWhenLast'
      BY <2>1 DEF AppliedInv, AppliedWhenLast, Plain
    <2> QED BY <2>1, <2>2, <2>3 DEF AppliedInv
  <1>2. CASE Next /\ ~Plain
    <2>1. UNCHANGED given
      BY <1>2 DEF Next, Apply, Refuse, ApplyNothing, Skip, Descend, Return, Done, Goes
    <2>2. ~Plain' /\ UNCHANGED <<tree, loop>>
      BY <1>2, <2>1, PlainStays
    <2>3. applied' \in Seq(Known)
      BY PlacedStep DEF Placed
    <2> QED BY <2>2, <2>3 DEF AppliedInv, AppliedWhenLast, Plain
  <1>3. CASE Next /\ Plain
    <2>1. CASE ApplyNothing
      <3>1. Goes /\ ~Holds(path, Name)
        BY <2>1 DEF ApplyNothing
      <3>2. PICK left : Straight(left)
        BY <1>3, <3>1 DEF AppliedInv, Goes
      <3> QED BY <1>3, <3>1, <3>2, StraightTurn
    <2> QED BY <1>3, <2>1, AppliedApply, AppliedRefuse, AppliedSkip, AppliedDescend,
               AppliedReturn, AppliedDone DEF Next
  <1> QED BY <1>1, <1>2, <1>3

\* A step that succeeds has applied every patch of its directories, in order, and
\* listed what it has applied: provided that nothing follows a subdirectory or an
\* archive, that all that is listed is there and, for the kernel, that none is
\* meant twice and all fit but those of the last directory.
THEOREM AppliedCorrect == Spec => []AppliedWhenLast
  <1>1. AppliedInv => AppliedWhenLast
    BY DEF AppliedInv
  <1>2. Init => Placed /\ AppliedInv
    BY PlacedInit, AppliedInit
  <1>3. Placed /\ AppliedInv /\ [Next]_vars => (Placed /\ AppliedInv)'
    BY PlacedStep, AppliedStep
  <1> QED BY <1>1, <1>2, <1>3, PTL DEF Spec

=============================================================================
