-------------------------- MODULE PkgInstallProofs --------------------------
(***************************************************************************)
(* What a make that succeeds has installed, and in which order, and what a *)
(* make does again: a step that is done anew takes those after it along,   *)
(* and <pkg>-rebuild installs the source the developer meant.  Theorems    *)
(* about PkgBuild for every set of packages and every acyclic dependency   *)
(* relation.  Where opkg-cl takes a package for installed, they speak of   *)
(* the .opk that it was given (Got).                                       *)
(***************************************************************************)
EXTENDS PkgBuildProofs

-----------------------------------------------------------------------------
(* Dependencies.                                                           *)

\* Needs(P) has the packages of P and all that its own members depend on.
LEMMA NeedsClosed ==
    ASSUME NEW P \in SUBSET Pkg
    PROVE  /\ P \subseteq Needs(P) /\ Needs(P) \subseteq Pkg
           /\ \A p \in Needs(P) : Deps[p] \subseteq Needs(P)
  <1>1. Needs(P) = {q \in Pkg :
                       \A S \in SUBSET Pkg :
                          P \subseteq S /\ (\A p \in S : Deps[p] \subseteq S) => q \in S}
    BY DEF Needs, Closure
  <1>2. \A p \in Pkg : Deps[p] \subseteq Pkg
    BY PkgAssumption
  <1>3. ASSUME NEW p \in Needs(P), NEW d \in Deps[p], NEW S \in SUBSET Pkg,
               P \subseteq S, \A r \in S : Deps[r] \subseteq S
        PROVE  d \in S
    BY <1>1, <1>3
  <1> QED BY <1>1, <1>2, <1>3

\* What fewer packages need, more packages need.
LEMMA NeedsMonotone ==
    ASSUME NEW P \in SUBSET Pkg, NEW Q \in SUBSET Pkg, P \subseteq Q
    PROVE  Needs(P) \subseteq Needs(Q)
  BY DEF Needs, Closure

\* Only "make" and "make clean" name no package.
GoalNamed == (goal \in NoPkgGoal) <=> (subject = NoPkg)

\* Every installation of a package is one of its steps.
LEMMA InstallsAreSteps ==
    ASSUME NEW p \in Pkg
    PROVE  Installs(p) \subseteq Steps(p) \cap InstallStep
  BY DEF Installs, Steps, AllSteps, InstallStep

\* A goal that configures a package also wants every step of its dependencies.
LEMMA DepsWanted ==
    ASSUME NEW g \in Goal, NEW q \in Pkg \cup {NoPkg}, (g \in NoPkgGoal) <=> (q = NoPkg),
           NEW p \in Pkg, <<p, "configure">> \in Wanted(g, q),
           NEW d \in Deps[p], NEW s \in Steps(d)
    PROVE  <<d, s>> \in Wanted(g, q)
  <1>1. d \in Pkg /\ s \in Step
    BY PkgAssumption, StepsType
  <1>2. ASSUME NEW P \in SUBSET Pkg, TaskOf(Needs(P), <<p, "configure">>)
        PROVE  TaskOf(Needs(P), <<d, s>>)
    BY <1>2, NeedsClosed DEF TaskOf
  <1>3. CASE g \in WorldGoal /\ TaskOf(World, <<p, "configure">>)
    <2>1. Enabled \cup Base \in SUBSET Pkg
      BY PkgAssumption
    <2> QED BY <1>1, <1>2, <1>3, <2>1 DEF Wanted, World, Task
  <1>4. CASE g = "pkg" /\ TaskOf(Needs({q}), <<p, "configure">>)
    <2>1. {q} \in SUBSET Pkg
      BY <1>4 DEF NoPkgGoal
    <2> QED BY <1>1, <1>2, <1>4, <2>1 DEF Wanted, Task
  <1>5. CASE \E h \in LastStep(g) :
               \/ p = q /\ "configure" \in Upto(q, h)
               \/ "configure" \in Upto(q, h) /\ TaskOf(Needs(Deps[q]), <<p, "configure">>)
    <2> PICK h \in LastStep(g) :
               \/ p = q /\ "configure" \in Upto(q, h)
               \/ "configure" \in Upto(q, h) /\ TaskOf(Needs(Deps[q]), <<p, "configure">>)
      BY <1>5
    <2>1. q \in Pkg
      BY DEF LastStep, NoPkgGoal, Step, InstallStep
    <2>2. Deps[q] \in SUBSET Pkg
      BY <2>1, PkgAssumption
    <2>3. TaskOf(Needs(Deps[q]), <<d, s>>)
      <3>1. CASE p = q
        BY <3>1, <2>2, NeedsClosed DEF TaskOf
      <3>2. CASE p # q
        BY <3>2, <1>2, <2>2
      <3> QED BY <3>1, <3>2
    <2> QED BY <1>1, <2>3 DEF Wanted, Task
  <1> QED BY <1>3, <1>4, <1>5 DEF Wanted

\* When make configures a package, it has dealt with all its dependencies do.
LEMMA DepsDealt ==
    ASSUME TypeOK, OrderInv, GoalNamed, NEW p \in Pkg,
           CanDo(p, "configure") \/ <<p, "configure">> \in Dealt,
           NEW d \in Deps[p], NEW s \in Steps(d)
    PROVE  <<d, s>> \in Dealt
  <1>1. <<p, "configure">> \in Wanted(goal, subject)
    BY PlanNow DEF CanDo, OrderInv, DealtInOrder, Dealt
  <1>2. <<d, s>> \in Wanted(goal, subject)
    BY <1>1, DepsWanted DEF TypeOK, GoalNamed
  <1>3. Precedes(goal, <<d, s>>, <<p, "configure">>)
    BY DEF Precedes
  <1>4. <<d, s>> \notin todo
    BY <1>3 DEF CanDo, OrderInv, DealtInOrder
  <1> QED BY <1>2, <1>4, PlanNow DEF Dealt

-----------------------------------------------------------------------------
(* Products.                                                               *)

\* The two steps whose stamps mean nothing: what the running make has packed and
\* given to opkg-cl is what it last compiled.
ProductsMade ==
    result = "running" =>
        \A p \in Pkg : \A s \in {"xpackage", "target"} : <<p, s>> \in Dealt =>
            Got(p, s) # Absent /\ Got(p, s) = have[p]["build"]

\* What opkg-cl has taken for installed it was given: there is an .opk of it.
KeptPacked == \A p \in kept : have[p]["xpackage"] # Absent

InstallInv == GoalNamed /\ ProductsMade /\ KeptPacked /\ WorldInstalled

\* What the running make has installed is there, in the version last compiled.
LEMMA DealtInstalled ==
    ASSUME TypeOK, StampInv, ProductsMade, result = "running",
           NEW p \in Pkg, NEW s \in InstallStep \cup {"xpackage"}, <<p, s>> \in Dealt
    PROVE  Got(p, s) # Absent /\ Got(p, s) = have[p]["build"]
  <1>1. CASE s \in {"xpackage", "target"}
    BY <1>1 DEF ProductsMade
  <1>2. CASE s \in {"host", "staging", "images"}
    <2>1. s \in stamps[p] /\ s \notin AlwaysRun
      BY <1>2 DEF StampInv, DealtStamped, Step, InstallStep, AlwaysRun, Removal
    <2>2. have[p]["build"] = Tree(p)
      BY <1>2, BuildReady
    <2> QED BY <1>2, <2>1, <2>2 DEF StampInv, StampMeansDone, StampMeansFresh, Got
  <1> QED BY <1>1, <1>2 DEF InstallStep

\* A package is not compiled again once it has been packed.
LEMMA BuildBefore ==
    ASSUME TypeOK, OrderInv, NEW p \in Pkg, NEW s \in {"xpackage", "target"}, <<p, s>> \in Dealt
    PROVE  <<p, "build">> \in Dealt /\ (s = "target" => <<p, "xpackage">> \in Dealt)
  <1>1. s \in AllSteps(p) /\ \A r \in Upto(p, s) \ {s} : <<p, r>> \in Dealt
    BY LeadersDealt DEF OrderInv, Step, InstallStep
  <1> QED BY <1>1, UptoValue DEF BuildSteps

\* A recipe that leaves a product keeps the products of this make.
LEMMA MakingProducts ==
    ASSUME TypeOK, StampInv, ProductsMade, KeptPacked, NEW p \in Pkg, Making(p)
    PROVE  ProductsMade' /\ KeptPacked'
  <1> PICK s \in Step, v \in Nat : Made(p, s, v)
    BY MakingEffect
  <1>1. /\ CanDo(p, s) /\ todo' = todo \ {<<p, s>>} /\ UNCHANGED <<goal, subject, result>>
        /\ <<p, s>> \in todo
    BY DEF Made, Ran, Runs, CanDo
  <1>2. Dealt' = Dealt \cup {<<p, s>>} /\ result = "running"
    BY <1>1, DealtGrows DEF StampInv
  <1>3. /\ Got(p, s)' = Input(p, s)
        /\ \A q \in Pkg : \A r \in Step :
              <<q, r>> # <<p, s>> /\ (q = p /\ r = "target" => s # "xpackage") =>
                  Got(q, r)' = Got(q, r)
    BY MadeGot
  <1>4. /\ "build" \in Step /\ {"xpackage", "target"} \subseteq Step
        /\ \A q : Got(q, "build") = have[q]["build"] /\ Got(q, "xpackage") = have[q]["xpackage"]
    BY DEF Step, InstallStep, Got
  <1>5. s = "target" => /\ <<p, "xpackage">> \in Dealt
                        /\ have[p]["xpackage"] # Absent
                        /\ have[p]["xpackage"] = have[p]["build"]
    <2> SUFFICES ASSUME s = "target"
                 PROVE  <<p, "xpackage">> \in Dealt
      BY <1>2, <1>4 DEF ProductsMade
    <2>1. s \in AllSteps(p) /\ \A x \in Upto(p, s) \ {s} : <<p, x>> \in Dealt
      BY <1>1, LeadersDealt DEF StampInv
    <2> QED BY <2>1, UptoValue
  <1>6. ProductsMade'
    <2> SUFFICES ASSUME NEW q \in Pkg, NEW r \in {"xpackage", "target"}, <<q, r>> \in Dealt'
                 PROVE  Got(q, r)' # Absent /\ Got(q, r)' = Got(q, "build")'
      BY <1>4 DEF ProductsMade, Got
    <2>1. CASE <<q, r>> = <<p, s>>
      <3>1. have[p]["build"] # Absent
        BY <1>1, <2>1, BuildReady
      <3>2. Got(q, "build")' = have[p]["build"]
        BY <1>3, <1>4, <2>1
      <3>3. Input(p, s) = have[p]["build"]
        BY <1>5, <2>1 DEF Input
      <3> QED BY <1>3, <2>1, <3>1, <3>2, <3>3
    <2>2. CASE <<q, r>> # <<p, s>>
      <3>1. <<q, r>> \in Dealt
        BY <1>2, <2>2
      <3>2. <<q, "build">> \in Dealt /\ (r = "target" => <<q, "xpackage">> \in Dealt)
        BY <3>1, BuildBefore DEF StampInv, OrderInv
      <3>3. <<q, "build">> # <<p, s>> /\ (r = "target" => <<q, "xpackage">> # <<p, s>>)
        BY <3>2, <1>1 DEF Dealt
      <3>4. Got(q, r)' = Got(q, r) /\ Got(q, "build")' = Got(q, "build")
        BY <1>3, <1>4, <2>2, <3>3
      <3> QED BY <3>1, <3>4, <1>2, <1>4 DEF ProductsMade
    <2> QED BY <2>1, <2>2
  <1>7. kept' \subseteq Pkg
    BY RecipeType DEF Making, Recipe, TypeOK
  <1>8. KeptPacked'
    <2> SUFFICES ASSUME NEW q \in kept' PROVE have'[q]["xpackage"] # Absent
      BY DEF KeptPacked
    <2>1. q = p => s # "xpackage"
      BY DEF Made, Keeps
    <2>2. q \in Pkg /\ (q \in kept \/ (q = p /\ s = "target"))
      <3>1. CASE q = p
        BY <3>1 DEF Made, Keeps, TypeOK, KeptPacked
      <3>2. CASE q # p
        <4>1. q \in Pkg
          BY <1>7
        <4> QED BY <3>2, <4>1 DEF Made, Keeps
      <3> QED BY <3>1, <3>2
    <2>3. have'[q]["xpackage"] = have[q]["xpackage"]
      BY <1>4, <2>1, <2>2 DEF Made
    <2> QED BY <2>2, <2>3, <1>5 DEF KeptPacked
  <1> QED BY <1>6, <1>8

\* A removal takes away nothing that this make has packed or installed.
LEMMA RemovingProducts ==
    ASSUME TypeOK, StampInv, ProductsMade, KeptPacked, NEW p \in Pkg, Removing(p)
    PROVE  ProductsMade' /\ KeptPacked'
  <1> PICK s \in Removal : Removed(p, s)
    BY RemovingEffect
  <1>1. CanDo(p, s) /\ todo' = todo \ {<<p, s>>} /\ UNCHANGED <<goal, subject, result>>
    BY DEF Removed, Ran, Runs
  <1>2. Dealt' = Dealt \cup {<<p, s>>} /\ result = "running"
    BY <1>1, DealtGrows DEF StampInv
  <1>3. s \notin {"xpackage", "target"} /\ {"xpackage", "target"} \subseteq Step
    BY DEF Removal, Step, InstallStep
  <1>4. KeptPacked'
    BY <1>3 DEF KeptPacked, Removed, TypeOK
  <1>5. CASE s \in {"clear", "clear_configure"}
    BY <1>2, <1>3, <1>5, <1>4 DEF ProductsMade, Removed, Got
  <1>6. CASE s \in {"uninstall", "clean", "dirclean"}
    <2>1. \A r \in {"xpackage", "target"} : <<p, r>> \notin Dealt
      BY <1>1, <1>6, RemovalTasks DEF StampInv, Step, InstallStep
    <2>2. \A q \in Pkg \ {p} : have'[q] = have[q] /\ (q \in kept' <=> q \in kept)
      BY DEF Removed
    <2>3. \A q \in Pkg \ {p} : \A r : Got(q, r)' = Got(q, r)
      BY <2>2 DEF Got
    <2> QED BY <1>2, <1>3, <1>4, <2>1, <2>2, <2>3 DEF ProductsMade
  <1> QED BY <1>5, <1>6 DEF Removal

\* When nothing is left to do for "all", the world is installed.
LEMMA FinishInstalled ==
    ASSUME TypeOK, StampInv, ProductsMade, Finish
    PROVE  WorldInstalled'
  <1>1. todo = {} /\ result = "running" /\ UNCHANGED <<have, kept, goal, subject>>
    BY DEF Finish, Exits, files
  <1>2. SUFFICES ASSUME goal \in WorldGoal, NEW p \in World, NEW s \in Installs(p)
                 PROVE  Got(p, s) # Absent /\ Got(p, s) = have[p]["build"]
    BY <1>1 DEF WorldInstalled, Got
  <1>3. p \in Pkg /\ s \in Steps(p) /\ s \in InstallStep
    BY PkgAssumption, NeedsClosed, InstallsAreSteps DEF World
  <1>4. <<p, s>> \in Wanted(goal, subject)
    BY <1>2, <1>3, StepsType DEF Wanted, TaskOf, Task
  <1>5. <<p, s>> \in Dealt
    BY <1>1, <1>4, PlanNow DEF Dealt
  <1> QED BY <1>1, <1>3, <1>5, DealtInstalled

\* The invariant is inductive.
LEMMA InstalledStep ==
    ASSUME TypeOK, StampInv, InstallInv, [Next]_vars
    PROVE  InstallInv'
  <1> USE DEF InstallInv
  \* A make that runs on, or that fails, has not succeeded.
  <1>1. ASSUME UNCHANGED <<goal, subject>>, result' # "ok"
        PROVE  GoalNamed' /\ WorldInstalled'
    BY <1>1 DEF GoalNamed, WorldInstalled
  <1>2. CASE UNCHANGED <<files, make, fails>>
    BY <1>2 DEF files, make, GoalNamed, ProductsMade, KeptPacked, WorldInstalled, Dealt, Got
  <1>3. CASE Finish
    <2>1. GoalNamed' /\ ProductsMade' /\ KeptPacked'
      BY <1>3 DEF Finish, Exits, files, GoalNamed, ProductsMade, KeptPacked
    <2> QED BY <2>1, <1>3, FinishInstalled
  <1>4. CASE MakeClean
    BY <1>4 DEF MakeClean, Exits, GoalNamed, ProductsMade, KeptPacked, WorldInstalled, WorldGoal
  <1>5. ASSUME Exits("failed"), KeptPacked'
        PROVE  InstallInv'
    BY <1>1, <1>5 DEF Exits, ProductsMade
  <1>6. ASSUME NEW p \in Pkg, NEW s, Ran(p, s), OrderInv
        PROVE  GoalNamed' /\ WorldInstalled'
    <2>1. result = "running" /\ UNCHANGED <<goal, subject, result>>
      BY <1>6 DEF Ran, Runs, CanDo, OrderInv, DealtInOrder
    <2> QED BY <1>1, <2>1
  <1>7. CASE \E p \in Pkg : Making(p)
    BY <1>6, <1>7, MakingProducts, MakingEffect DEF Made, StampInv, OrderInv
  <1>8. CASE \E p \in Pkg : Removing(p)
    BY <1>6, <1>8, RemovingProducts, RemovingEffect DEF Removed, StampInv, OrderInv
  <1>9. CASE \E p \in Pkg, s \in Step : UpToDate(p, s)
    <2> PICK p \in Pkg, s \in Step : UpToDate(p, s)
      BY <1>9
    <2>1. /\ s \notin AlwaysRun /\ CanDo(p, s) /\ todo' = todo \ {<<p, s>>}
          /\ UNCHANGED <<have, kept, goal, subject, result>>
      BY DEF UpToDate, files
    <2>2. Dealt' = Dealt \cup {<<p, s>>} /\ result = "running"
      BY <2>1, DealtGrows DEF StampInv
    <2>3. ProductsMade' /\ KeptPacked'
      BY <2>1, <2>2 DEF ProductsMade, KeptPacked, AlwaysRun, Got
    <2> QED BY <1>1, <2>1, <2>2, <2>3
  <1>10. CASE \E p \in Pkg, s \in Step : RemoveStamp(p, s)
    BY <1>10 DEF RemoveStamp, make, GoalNamed, ProductsMade, KeptPacked, WorldInstalled, Got
  <1>11. CASE \E g \in Goal, p \in Pkg \cup {NoPkg} : Start(g, p)
    BY <1>11 DEF Start, files, Dealt, GoalNamed, ProductsMade, KeptPacked, WorldInstalled
  <1>12. CASE \E p \in Pkg : Failure(p)
    <2>1. KeptPacked'
      BY <1>12, FailureEffect DEF KeptPacked, TypeOK
    <2> QED BY <1>5, <1>12, <2>1, FailureEffect
  <1>13. CASE UNCHANGED files /\ Exits("failed")
    BY <1>5, <1>13 DEF files, KeptPacked
  <1> QED
    BY <1>2, <1>3, <1>4, <1>7, <1>8, <1>9, <1>10, <1>11, <1>12, <1>13, NextEffect

LEMMA InstallCorrect ==
    ASSUME StampAssumption
    PROVE  Spec => []InstallInv
  <1>1. Init => InstallInv
    BY DEF Init, InstallInv, GoalNamed, NoPkgGoal, ProductsMade, KeptPacked, WorldInstalled
  <1>2. TypeOK /\ StampInv /\ InstallInv /\ [Next]_vars => InstallInv'
    BY InstalledStep
  <1> QED BY <1>1, <1>2, TypeCorrect, StampCorrect, PTL DEF Spec

\* After a make of the whole configuration that succeeds, every package of it
\* and all it depends on is installed everywhere it asks for, in the version
\* last compiled: whatever was removed, failed or was interrupted before.
THEOREM WorldInstalledCorrect ==
    ASSUME StampAssumption
    PROVE  Spec => []WorldInstalled
  <1>1. InstallInv => WorldInstalled
    BY DEF InstallInv
  <1> QED BY <1>1, InstallCorrect, PTL

-----------------------------------------------------------------------------
(* Dependency order.                                                       *)

\* What a package depends on is complete when make comes to configure it, and
\* when make has done so.
LEMMA DepsInstalled ==
    ASSUME TypeOK, StampInv, GoalNamed, ProductsMade, NEW p \in Pkg,
           CanDo(p, "configure") \/ <<p, "configure">> \in Dealt, result = "running",
           NEW d \in Deps[p], NEW s \in Installs(d)
    PROVE  Got(d, s) # Absent
  <1>1. d \in Pkg
    BY PkgAssumption
  <1>2. s \in Steps(d) /\ s \in InstallStep
    BY <1>1, InstallsAreSteps
  <1>3. <<d, s>> \in Dealt
    BY <1>2, DepsDealt DEF StampInv, OrderInv
  <1> QED BY <1>1, <1>2, <1>3, DealtInstalled

\* No package is configured before everything it depends on is installed.
THEOREM DepsFirstCorrect ==
    ASSUME StampAssumption
    PROVE  Spec => DepsFirst
  <1> DEFINE Ordered == \A p \in Pkg : Configure(p) =>
                           \A d \in Deps[p] : \A s \in Installs(d) : Got(d, s) # Absent
  <1>1. TypeOK /\ StampInv /\ InstallInv => Ordered
    <2> SUFFICES ASSUME TypeOK, StampInv, InstallInv, NEW p \in Pkg, Configure(p),
                        NEW d \in Deps[p], NEW s \in Installs(d)
                 PROVE  Got(d, s) # Absent
      OBVIOUS
    <2>1. CanDo(p, "configure")
      BY DEF Configure, Ran, Runs
    <2>2. result = "running"
      BY <2>1 DEF StampInv, DealtInOrder, CanDo
    <2> QED BY <2>1, <2>2, DepsInstalled DEF InstallInv
  <1>2. TypeOK /\ StampInv /\ InstallInv /\ [Next]_vars => [Ordered]_vars
    BY <1>1
  <1> QED BY <1>2, TypeCorrect, StampCorrect, InstallCorrect, PTL DEF Spec, DepsFirst

-----------------------------------------------------------------------------
(* The refinement of Delivery.                                             *)

\* At the start nothing is delivered but the packages that install nothing.
LEMMA DeliveryInit == Init => D!Init
  <1> SUFFICES ASSUME Init PROVE Delivered = {p \in Pkg : Installs(p) = {}}
    BY DEF D!Init
  <1>1. \A p \in Pkg : \A s \in Installs(p) : Got(p, s) = Absent
    BY InstallsAreSteps DEF Init, Got, Step
  <1> QED BY <1>1 DEF Delivered

\* A step that gives no package anything it lacked withdraws some, or stutters.
LEMMA DeliveryLost ==
    ASSUME \A q \in Pkg : \A s \in InstallStep : Got(q, s)' # Absent => Got(q, s) # Absent
    PROVE  D!Next
  <1> DEFINE lost == Delivered \ Delivered'
  <1>1. Delivered' \subseteq Delivered
    BY InstallsAreSteps DEF Delivered
  <1>2. Delivered' = Delivered \ lost
    BY <1>1
  <1>3. lost \in SUBSET Pkg
    BY DEF Delivered
  <1> QED BY <1>2, <1>3 DEF D!Next, D!Withdraw

\* ... and so does one that takes away products, and forgets what was kept.
LEMMA DeliveryTaken ==
    ASSUME InstallInv, kept' \subseteq kept,
           \A q \in Pkg : \A s \in InstallStep : have'[q][s] \in {have[q][s], Absent},
           \A q \in Pkg : q \in kept' => have'[q]["xpackage"] = have[q]["xpackage"]
    PROVE  D!Next
  <1> SUFFICES ASSUME NEW q \in Pkg, NEW s \in InstallStep, Got(q, s)' # Absent
               PROVE  Got(q, s) # Absent
    BY DeliveryLost
  <1>1. CASE s = "target" /\ q \in kept
    BY <1>1 DEF Got, InstallInv, KeptPacked
  <1>2. CASE ~(s = "target" /\ q \in kept)
    BY <1>2 DEF Got
  <1> QED BY <1>1, <1>2

\* The recipes deliver a package when all it depends on has been delivered.
LEMMA DeliveryMaking ==
    ASSUME TypeOK, StampInv, InstallInv, NEW p \in Pkg, Making(p)
    PROVE  D!Next
  <1> PICK s \in Step, v \in Nat : Made(p, s, v)
    BY MakingEffect
  <1>1. CanDo(p, s)
    BY DEF Made, Ran, Runs
  <1>2. result = "running"
    BY <1>1 DEF StampInv, DealtInOrder, CanDo
  <1>3. \A q \in Pkg : \A r \in Step :
            <<q, r>> # <<p, s>> /\ (q = p /\ r = "target" => s # "xpackage") =>
                Got(q, r)' = Got(q, r)
    BY MadeGot
  <1>4. CASE s \notin InstallStep
    <2> SUFFICES ASSUME NEW q \in Pkg, NEW r \in InstallStep, Got(q, r) = Absent
                 PROVE  Got(q, r)' = Absent
      BY DeliveryLost
    <2>1. r \in Step /\ r # s
      BY <1>4 DEF Step
    <2>2. CASE q = p /\ r = "target" /\ s = "xpackage"
      <3>1. p \notin kept /\ have[p]["target"] = Absent
        BY <2>2 DEF Got, InstallInv, KeptPacked
      <3>2. p \notin kept' /\ have'[p]["target"] = have[p]["target"]
        BY <2>1, <2>2 DEF Made, Keeps
      <3> QED BY <2>2, <3>1, <3>2 DEF Got
    <2> QED BY <2>1, <2>2, <1>3
  <1>5. CASE s \in InstallStep
    <2>1. \A q \in Pkg \ {p} : \A r \in Installs(q) : Got(q, r)' = Got(q, r)
      BY <1>3, InstallsAreSteps DEF Step
    <2>2. CASE p \in Delivered' /\ p \notin Delivered
      <3>1. \A r \in Upto(p, s) \ {s} : <<p, r>> \in Dealt
        BY <1>1, LeadersDealt DEF StampInv
      <3>2. "configure" \in Upto(p, s) \ {s}
        <4>1. s \in AllSteps(p)
          BY <1>1, LeadersStamped
        <4>2. BuildSteps(p) \subseteq Upto(p, s)
          BY <4>1, <1>5, UptoValue DEF InstallStep
        <4> QED BY <4>2, <1>5 DEF BuildSteps, InstallStep
      <3>3. \A d \in Deps[p] : \A r \in Installs(d) : Got(d, r) # Absent
        BY <1>2, <3>1, <3>2, DepsInstalled DEF InstallInv
      <3>4. Deps[p] \subseteq Delivered
        BY <3>3, PkgAssumption DEF Delivered
      <3>5. Delivered' = Delivered \cup {p}
        BY <2>1, <2>2 DEF Delivered
      <3> QED BY <3>4, <3>5 DEF D!Next, D!Deliver
    <2>3. CASE ~(p \in Delivered' /\ p \notin Delivered)
      <3>1. Delivered' \subseteq Delivered /\ Delivered \ Delivered' \in SUBSET Pkg
        BY <2>1, <2>3 DEF Delivered
      <3>2. Delivered' = Delivered \ (Delivered \ Delivered')
        BY <3>1
      <3> QED BY <3>1, <3>2 DEF D!Next, D!Withdraw
    <2> QED BY <2>2, <2>3
  <1> QED BY <1>4, <1>5

\* Every step of the build is a step of Delivery, or leaves what is delivered
\* as it is.
LEMMA DeliveryStep ==
    ASSUME TypeOK, StampInv, InstallInv, [Next]_vars
    PROVE  [D!Next]_Delivered
  <1>1. CASE UNCHANGED <<have, kept>>
    BY <1>1 DEF Delivered, Got
  <1>2. CASE MakeClean
    <2>1. \A q \in Pkg : \A s \in InstallStep : Got(q, s)' = Absent
      BY <1>2 DEF MakeClean, Step, Got
    <2> QED BY <2>1, DeliveryLost
  <1>3. CASE \E p \in Pkg : Making(p)
    BY <1>3, DeliveryMaking
  <1>4. CASE \E p \in Pkg : Removing(p)
    <2> PICK p \in Pkg, s \in Removal : Removed(p, s)
      BY <1>4, RemovingEffect
    <2>1. /\ \A q \in Pkg : \A r \in InstallStep : have'[q][r] \in {have[q][r], Absent}
          /\ kept' \subseteq kept
          /\ \A q \in Pkg : q \in kept' => have'[q]["xpackage"] = have[q]["xpackage"]
      BY DEF Removed, Step
    <2> QED BY <2>1, DeliveryTaken
  <1>5. CASE \E p \in Pkg : Failure(p)
    <2>1. /\ \A q \in Pkg : \A r \in InstallStep : have'[q][r] \in {have[q][r], Absent}
          /\ kept' \subseteq kept
          /\ \A q \in Pkg : q \in kept' => have'[q]["xpackage"] = have[q]["xpackage"]
      BY <1>5, FailureEffect DEF Step
    <2> QED BY <2>1, DeliveryTaken
  <1>6. CASE \/ UNCHANGED files \/ Finish
             \/ \E p \in Pkg, s \in Step : UpToDate(p, s) \/ RemoveStamp(p, s)
             \/ \E g \in Goal, p \in Pkg \cup {NoPkg} : Start(g, p)
    BY <1>1, <1>6 DEF Finish, UpToDate, RemoveStamp, Start, files
  <1> QED BY <1>2, <1>3, <1>4, <1>5, <1>6, NextEffect DEF files

\* The build implements Delivery: a package becomes complete in staging, target
\* and images only when all it depends on is complete, through every order
\* of the recipes, every failure and every removal.
THEOREM DeliveryCorrect ==
    ASSUME StampAssumption
    PROVE  Spec => DeliversInOrder
  <1>1. Init => D!Init
    BY DeliveryInit
  <1>2. TypeOK /\ StampInv /\ InstallInv /\ [Next]_vars => [D!Next]_Delivered
    BY DeliveryStep
  <1> QED
    BY <1>1, <1>2, TypeCorrect, StampCorrect, InstallCorrect, PTL
       DEF Spec, DeliversInOrder, D!Spec

-----------------------------------------------------------------------------
(* No make of the whole configuration fails by itself.                     *)

\* host-opkg is in BASE_TARGETS, no package that is built with it is installed
\* by opkg-cl, and no goal but "all" and those that end in it goes as far as an
\* installation.
OpkgAssumption ==
    /\ HostOpkg \in Base
    /\ \A p \in BasePkgs : "target" \notin Installs(p)
    /\ Goals \subseteq WorldGoal \cup {"makeclean", "dirclean",
                                    "source", "extract", "rsync", "patch"}

\* When make comes to a target installation, host-opkg has been built.
LEMMA OpkgThere ==
    ASSUME TypeOK, StampInv, OpkgAssumption, goal \in Goals,
           NEW p \in Pkg, CanDo(p, "target")
    PROVE  have[HostOpkg]["host"] # Absent
  <1>1. <<p, "target">> \in Wanted(goal, subject) /\ result = "running"
    BY PlanNow DEF CanDo, StampInv, DealtInOrder
  <1>2. "target" \in AllSteps(p)
    BY LeadersStamped DEF Step, InstallStep
  <1>3. p \notin BasePkgs
    BY <1>2 DEF OpkgAssumption, AllSteps, BuildSteps, PrepSteps
  <1>4. HostOpkg \in Pkg /\ HostOpkg \in BasePkgs /\ HostOpkg \in World
    <2>1. Base \in SUBSET Pkg /\ Enabled \cup Base \in SUBSET Pkg
      BY PkgAssumption
    <2>2. Base \subseteq Needs(Base) /\ Needs(Base) \subseteq Needs(Enabled \cup Base)
      BY <2>1, NeedsClosed, NeedsMonotone
    <2> QED BY <2>2, PkgAssumption DEF OpkgAssumption, BasePkgs, World
  <1>5. "host" \in Steps(HostOpkg) /\ "host" \in Step
    BY <1>4, PkgAssumption, InstallsAreSteps DEF Installs, Step, InstallStep
  <1>6. goal \in WorldGoal
    <2>1. \A h \in {"source", "extract", "rsync", "patch"} :
              "target" \notin Upto(subject, h) /\ "configure" \notin Upto(subject, h)
      BY DEF Upto, AllSteps, BuildSteps, PrepSteps, Installs
    <2>2. CASE goal \in {"source", "extract", "rsync", "patch"}
      BY <1>1, <2>1, <2>2 DEF Wanted, WorldGoal, LastStep, Step
    <2>3. CASE goal \in {"makeclean", "dirclean"}
      BY <1>1, <2>3 DEF Wanted, WorldGoal, LastStep, Step, InstallStep
    <2> QED BY <2>2, <2>3 DEF OpkgAssumption
  <1>7. <<HostOpkg, "host">> \in Wanted(goal, subject)
    BY <1>4, <1>5, <1>6 DEF Wanted, TaskOf, Task
  <1>8. <<HostOpkg, "host">> \in BaseTasks
    BY <1>4, <1>5 DEF BaseTasks, Tasks, TaskOf
  <1>9. Precedes(goal, <<HostOpkg, "host">>, <<p, "target">>)
    BY <1>3, <1>6, <1>8 DEF Precedes, Step, InstallStep
  <1>10. <<HostOpkg, "host">> \in Dealt
    BY <1>7, <1>9, PlanNow DEF CanDo, Dealt
  <1>11. "host" \in stamps[HostOpkg] /\ "host" \notin AlwaysRun
    BY <1>1, <1>4, <1>5, <1>10 DEF StampInv, DealtStamped, AlwaysRun, Removal
  <1> QED BY <1>4, <1>11 DEF StampInv, StampMeansDone

\* As long as nothing has failed by itself, a tree that has patches has the stamp
\* that keeps make from patching it again.
PatchesStamped == \A p \in Pkg : applied[p] > 0 => "patch" \in stamps[p]

SucceedInv ==
    /\ result = "running" => goal \in Goals
    /\ fails = 0 => StampInv /\ PatchesStamped /\ result # "failed"

\* Only a patch step that runs to its end patches a tree, and only the removals
\* that also remove the tree take its stamp away.
LEMMA RecipePatches ==
    ASSUME TypeOK, PatchesStamped, NEW p \in Pkg, Making(p) \/ Removing(p)
    PROVE  PatchesStamped'
  <1>1. ASSUME UNCHANGED applied, \A q \in Pkg : "patch" \in stamps[q] => "patch" \in stamps'[q]
        PROVE  PatchesStamped'
    BY <1>1 DEF PatchesStamped
  <1>2. CASE Patch(p)
    BY <1>2 DEF Patch, Touch, PatchesStamped, TypeOK
  <1>3. CASE Making(p) /\ ~Patch(p)
    <2>1. UNCHANGED applied
      BY <1>3 DEF Making, Download, Extract, Rsync, Configure, Build, Install, XPackage, XPkg
    <2>2. \A q \in Pkg : stamps[q] \subseteq stamps'[q]
      BY <1>3, MakingEffect DEF Made
    <2> QED BY <2>1, <2>2, <1>1
  <1>4. CASE Clear(p) \/ ClearConfigure(p) \/ Uninstall(p) \/ Clean(p)
    <2>1. UNCHANGED applied
      BY <1>4 DEF Clear, ClearConfigure, Uninstall, Uninstalled, Clean
    <2>2. PICK gone : "patch" \notin gone /\ stamps' = [stamps EXCEPT ![p] = @ \ gone]
      BY <1>4 DEF Clear, ClearConfigure, Uninstall, Uninstalled, Clean, Clearable
    <2>3. \A q \in Pkg : "patch" \in stamps[q] => "patch" \in stamps'[q]
      BY <2>2 DEF TypeOK
    <2> QED BY <2>1, <2>3, <1>1
  <1>5. CASE Dirclean(p)
    BY <1>5 DEF Dirclean, PatchesStamped, TypeOK
  <1> QED BY <1>2, <1>3, <1>4, <1>5 DEF Removing

LEMMA SucceedStep ==
    ASSUME OpkgAssumption, TypeOK, SucceedInv, [Next]_vars
    PROVE  SucceedInv'
  <1>1. result' = "running" => goal' \in Goals
    <2>1. CASE \E g \in Goal, p \in Pkg \cup {NoPkg} : Start(g, p)
      BY <2>1 DEF Start
    <2>2. CASE result' # "running" \/ UNCHANGED <<goal, result>>
      BY <2>2 DEF SucceedInv
    <2> QED
      BY <2>1, <2>2, NextEffect, MakingEffect, RemovingEffect, FailureEffect
         DEF make, Finish, MakeClean, Exits, Made, Removed, Ran, UpToDate, RemoveStamp
  <1>2. SUFFICES ASSUME fails' = 0
                 PROVE  StampInv' /\ PatchesStamped' /\ result' # "failed"
    BY <1>1 DEF SucceedInv
  <1>3. ~Interrupt /\ \A p \in Pkg : ~Failure(p)
    BY <1>2, FailureEffect DEF TypeOK, Interrupt
  \* A recipe that runs to its end lets make run on, and is no failure.
  <1>0. ASSUME NEW p \in Pkg, Making(p) \/ Removing(p)
        PROVE  UNCHANGED <<goal, result, fails>>
    BY <1>0, MakingEffect, RemovingEffect DEF Made, Removed, Ran
  <1>4. fails = 0
    <2>1. CASE \E p \in Pkg : Making(p) \/ Removing(p)
      BY <1>0, <1>2, <2>1
    <2>2. CASE \/ Finish \/ MakeClean \/ \E p \in Pkg : PatchRejected(p) \/ OpkgMissing(p)
      BY <1>2, <2>2 DEF Finish, MakeClean, PatchRejected, OpkgMissing
    <2>3. CASE \/ \E p \in Pkg, s \in Step : UpToDate(p, s) \/ RemoveStamp(p, s)
               \/ \E g \in Goal, p \in Pkg \cup {NoPkg} : Start(g, p)
      BY <1>2, <2>3 DEF UpToDate, RemoveStamp, Start
    <2> QED BY <1>2, <1>3, <2>1, <2>2, <2>3, NextEffect
  <1>5. StampInv /\ PatchesStamped /\ result # "failed"
    BY <1>4 DEF SucceedInv
  <1>6. StampInv'
    BY <1>3, <1>5, StampStep DEF Failure
  <1>7. ASSUME NEW p \in Pkg
        PROVE  ~PatchRejected(p) /\ ~OpkgMissing(p)
    <2>1. ~PatchRejected(p)
      BY <1>5 DEF PatchesStamped, PatchRejected, Runs, AlwaysRun, Removal
    <2>2. ASSUME OpkgMissing(p) PROVE FALSE
      <3>1. CanDo(p, "target") /\ have[HostOpkg]["host"] = Absent
        BY <2>2 DEF OpkgMissing, Runs
      <3>2. goal \in Goals
        BY <3>1, <1>5 DEF SucceedInv, StampInv, DealtInOrder, CanDo
      <3> QED BY <3>1, <3>2, <1>5, OpkgThere
    <2> QED BY <2>1, <2>2
  <1>8. result' # "failed"
    <2>1. CASE \E p \in Pkg : Making(p) \/ Removing(p)
      BY <1>0, <1>5, <2>1
    <2>2. CASE Finish \/ MakeClean
      BY <2>2 DEF Finish, MakeClean, Exits
    <2>3. CASE \/ \E p \in Pkg, s \in Step : UpToDate(p, s) \/ RemoveStamp(p, s)
               \/ \E g \in Goal, p \in Pkg \cup {NoPkg} : Start(g, p)
      BY <1>5, <2>3 DEF make, UpToDate, RemoveStamp, Start
    <2> QED BY <1>3, <1>5, <1>7, <2>1, <2>2, <2>3, NextEffect DEF make
  <1>9. PatchesStamped'
    <2>1. CASE UNCHANGED <<stamps, applied>>
      BY <2>1, <1>5 DEF PatchesStamped
    <2>2. CASE MakeClean
      BY <2>2 DEF MakeClean, PatchesStamped
    <2>3. CASE \E p \in Pkg, s \in Step : RemoveStamp(p, s)
      BY <2>3, <1>5, BoundAssumption DEF RemoveStamp, PatchesStamped, TypeOK, InstallStep
    <2>4. CASE \E p \in Pkg : Making(p) \/ Removing(p)
      BY <2>4, <1>5, RecipePatches
    <2> QED
      BY <2>1, <2>2, <2>3, <2>4, <1>3, <1>7, NextEffect DEF files, Finish, UpToDate, Start
  <1> QED BY <1>6, <1>8, <1>9

\* As long as no recipe fails by itself and nobody interrupts make, no make of
\* the whole configuration fails: opkg-cl, which every target installation needs
\* and no package names as a dependency, has been built in time, and no tree is
\* given to patch(1) a second time.
THEOREM MakeSucceedsCorrect ==
    ASSUME OpkgAssumption
    PROVE  Spec => []MakeSucceeds
  <1>1. Init => SucceedInv
    BY DEF Init, SucceedInv, PatchesStamped, StampInv, StampMeansDone, StampMeansFresh,
           SourceFirst, DealtInOrder, DealtStamped
  <1>2. TypeOK /\ SucceedInv /\ [Next]_vars => SucceedInv'
    BY SucceedStep
  <1>3. SucceedInv => MakeSucceeds
    BY DEF SucceedInv, MakeSucceeds
  <1> QED BY <1>1, <1>2, <1>3, TypeCorrect, PTL DEF Spec

-----------------------------------------------------------------------------
(* A step that is done anew.                                               *)

\* What RerunGoesDown rests on: no removal, of make or by hand, takes the stamp
\* of a step and leaves those of the steps after it.  "-clean" does (the images
\* and host stamps stay), and so does the -clean-for-rebuild that stops half-way.
RerunAssumption ==
    /\ StampAssumption
    /\ "clean" \notin Goals
    /\ ByHand \cap {"configure", "build"} = {}

\* The stamps of a package go down together: what is installed is compiled, and
\* what is compiled is configured.
StampChain ==
    \A p \in Pkg :
        /\ "build" \in stamps[p] => "configure" \in stamps[p]
        /\ stamps[p] \cap {"host", "staging", "images"} # {} => "build" \in stamps[p]

\* Between the two removals of -reconfigure make does nothing else.
ClearFirst ==
    <<subject, "clear_configure">> \in todo /\ <<subject, "clear">> \in Dealt =>
        stamps[subject] \cap Clearable = {}

\* A step that this make had to run is run again or has no stamp further down;
\* the steps that are never stamped are always run.
RunsDown ==
    result = "running" => \A p \in Pkg :
        /\ <<p, "configure">> \in ran => <<p, "build">> \in ran \/ "build" \notin stamps[p]
        /\ \A s \in {"host", "staging", "images"} :
              <<p, "build">> \in ran => <<p, s>> \in ran \/ s \notin stamps[p]
        /\ \A s \in {"xpackage", "target"} : <<p, s>> \in Dealt => <<p, s>> \in ran

RerunInv ==
    /\ result = "running" => goal \in Goals
    /\ StampChain /\ ClearFirst /\ RunsDown

\* What the invariant is for: what is dealt with has its stamp, so it was run.
LEMMA RerunMeans ==
    ASSUME OrderInv, RerunInv
    PROVE  RerunGoesDown
  <1> SUFFICES ASSUME result = "running", NEW p \in Pkg
               PROVE  /\ <<p, "configure">> \in ran /\ <<p, "build">> \in Dealt =>
                            <<p, "build">> \in ran
                      /\ \A s \in InstallStep :
                            <<p, "build">> \in ran /\ <<p, s>> \in Dealt => <<p, s>> \in ran
    BY DEF RerunGoesDown
  <1>1. \A s \in {"build", "host", "staging", "images"} :
            <<p, s>> \in Dealt => s \in stamps[p]
    BY DEF OrderInv, DealtStamped, Step, InstallStep, AlwaysRun, Removal
  <1> QED BY <1>1 DEF RerunInv, RunsDown, InstallStep

\* A recipe that leaves a product.
LEMMA MakingReruns ==
    ASSUME TypeOK, StampInv, RerunInv, NEW p \in Pkg, Making(p)
    PROVE  RerunInv'
  <1> PICK s \in Step, v \in Nat : Made(p, s, v)
    BY MakingEffect
  <1>1. /\ CanDo(p, s) /\ (s \in AlwaysRun \/ s \notin stamps[p])
        /\ todo' = todo \ {<<p, s>>} /\ ran' = ran \cup {<<p, s>>}
        /\ UNCHANGED <<goal, subject, result>>
    BY DEF Made, Ran, Runs
  <1>2. Dealt' = Dealt \cup {<<p, s>>} /\ result = "running"
    BY <1>1, DealtGrows DEF StampInv
  <1>3. /\ \A q \in Pkg : stamps[q] \subseteq stamps'[q]
        /\ \A q \in Pkg \ {p} : stamps'[q] = stamps[q]
        /\ stamps'[p] \subseteq stamps[p] \cup {s}
    BY DEF Made
  <1>4. s = "build" => "configure" \in stamps[p]
    <2>1. s = "build" => Upto(p, s) = BuildSteps(p)
      BY <1>1, LeadersStamped, UptoValue
    <2> QED BY <2>1, <1>1, LeadersStamped DEF BuildSteps, AlwaysRun, Removal
  <1>5. s \in {"host", "staging", "images"} => "build" \in stamps[p]
    BY <1>1, BuildReady
  <1>6. StampChain'
    BY <1>3, <1>4, <1>5 DEF RerunInv, StampChain
  <1>7. ClearFirst'
    <2>1. \A q : Precedes(goal, <<q, "clear_configure">>, <<p, s>>)
      BY DEF Precedes
    <2>2. <<subject, "clear_configure">> \notin todo
      BY <1>1, <2>1 DEF CanDo
    <2> QED BY <1>1, <2>2 DEF ClearFirst
  <1>8. RunsDown'
    <2> SUFFICES ASSUME NEW q \in Pkg
                 PROVE  /\ <<q, "configure">> \in ran' => <<q, "build">> \in ran' \/ "build" \notin stamps'[q]
                        /\ \A r \in {"host", "staging", "images"} :
                              <<q, "build">> \in ran' => <<q, r>> \in ran' \/ r \notin stamps'[q]
                        /\ \A r \in {"xpackage", "target"} : <<q, r>> \in Dealt' => <<q, r>> \in ran'
      BY DEF RunsDown
    <2>1. CASE q # p
      BY <1>1, <1>2, <1>3, <2>1 DEF RerunInv, RunsDown
    <2>2. CASE q = p
      <3>1. <<p, "configure">> \in ran' => <<p, "build">> \in ran' \/ "build" \notin stamps'[p]
        BY <1>1, <1>2, <1>3 DEF RerunInv, RunsDown, StampChain, AlwaysRun, Removal
      <3>2. ASSUME NEW r \in {"host", "staging", "images"}, <<p, "build">> \in ran'
            PROVE  <<p, r>> \in ran' \/ r \notin stamps'[p]
        BY <1>1, <1>2, <1>3, <3>2 DEF RerunInv, RunsDown, StampChain, AlwaysRun, Removal
      <3>3. ASSUME NEW r \in {"xpackage", "target"}, <<p, r>> \in Dealt'
            PROVE  <<p, r>> \in ran'
        BY <1>1, <1>2, <3>3 DEF RerunInv, RunsDown
      <3> QED BY <2>2, <3>1, <3>2, <3>3
    <2> QED BY <2>1, <2>2
  <1> QED BY <1>1, <1>6, <1>7, <1>8 DEF RerunInv

\* A recipe that removes: -clean-for-rebuild before the configuration.
LEMMA RemovingReruns ==
    ASSUME RerunAssumption, TypeOK, StampInv, RerunInv, NEW p \in Pkg, Removing(p)
    PROVE  RerunInv'
  <1> PICK s \in Removal : Removed(p, s)
    BY RemovingEffect
  <1>1. /\ CanDo(p, s) /\ todo' = todo \ {<<p, s>>} /\ ran' = ran \cup {<<p, s>>}
        /\ UNCHANGED <<goal, subject, result>>
    BY DEF Removed, Ran, Runs
  <1>2. Dealt' = Dealt \cup {<<p, s>>} /\ result = "running"
    BY <1>1, DealtGrows DEF StampInv
  <1>3. /\ \A q \in Pkg : stamps'[q] \subseteq stamps[q]
        /\ \A q \in Pkg \ {p} : stamps'[q] = stamps[q]
        /\ stamps'[p] = stamps[p] \ TakenBy(s)
    BY DEF Removed
  <1>4. s \notin Step
    BY DEF Removal, Step, InstallStep
  <1>5. s # "clean"
    BY <1>1, <1>2, RemovalTasks DEF StampInv, RerunAssumption, RerunInv
  \* The configuration goes when the objects and the installations have gone.
  <1>6. s = "clear_configure" => stamps[p] \cap Clearable = {}
    <2> SUFFICES ASSUME s = "clear_configure" PROVE stamps[p] \cap Clearable = {}
      OBVIOUS
    <2>1. p = subject /\ <<p, s>> \in Wanted(goal, subject) /\ <<p, s>> \in todo
      BY <1>1, RemovalTasks, PlanNow DEF StampInv, DealtInOrder, CanDo
    <2>2. goal = "reconfigure"
      <3>1. \A P : ~TaskOf(P, <<p, s>>)
        BY <1>4, StepsType DEF TaskOf
      <3>2. \A h : s \notin Upto(subject, h)
        BY <1>4, <2>1, StepsType
      <3> QED BY <2>1, <3>1, <3>2 DEF Wanted
    <2>3. <<p, "clear">> \in Wanted(goal, subject)
      BY <2>1, <2>2 DEF Wanted, Task, Removal
    <2>4. Precedes(goal, <<p, "clear">>, <<p, "clear_configure">>)
      BY DEF Precedes, StepOrder
    <2>5. <<p, "clear">> \in Dealt
      BY <1>1, <2>3, <2>4, PlanNow DEF CanDo, Dealt
    <2> QED BY <2>1, <2>5 DEF RerunInv, ClearFirst
  <1>7. StampChain'
    <2> SUFFICES ASSUME NEW q \in Pkg
                 PROVE  /\ "build" \in stamps'[q] => "configure" \in stamps'[q]
                        /\ stamps'[q] \cap {"host", "staging", "images"} # {} => "build" \in stamps'[q]
      BY DEF StampChain
    <2>1. CASE q # p
      BY <2>1, <1>3 DEF RerunInv, StampChain
    <2>2. CASE q = p /\ s = "clear"
      BY <2>2, <1>3 DEF TakenBy, Clearable
    <2>3. CASE q = p /\ s = "clear_configure"
      BY <2>3, <1>3, <1>6 DEF TakenBy, Clearable
    <2>4. CASE q = p /\ s = "uninstall"
      BY <2>4, <1>3 DEF TakenBy, RerunInv, StampChain
    <2>5. CASE q = p /\ s = "dirclean"
      BY <2>5, <1>3 DEF TakenBy, TypeOK
    <2> QED BY <2>1, <2>2, <2>3, <2>4, <2>5, <1>5 DEF Removal
  <1>8. ClearFirst'
    <2>1. CASE <<p, s>> = <<subject, "clear">>
      <3>1. subject \in Pkg /\ stamps'[subject] = stamps[subject] \ Clearable
        BY <2>1, <1>3 DEF TakenBy
      <3> QED BY <3>1, <1>1 DEF ClearFirst
    <2>2. CASE <<p, s>> # <<subject, "clear">>
      <3>1. SUFFICES ASSUME <<subject, "clear_configure">> \in todo', <<subject, "clear">> \in Dealt'
                     PROVE  stamps'[subject] \cap Clearable = {}
        BY <1>1 DEF ClearFirst
      <3>2. <<subject, "clear_configure">> \in todo /\ <<subject, "clear">> \in Dealt
        BY <2>2, <3>1, <1>1, <1>2
      <3>3. subject \in Pkg
        BY <3>2 DEF TypeOK, Task
      <3> QED BY <3>2, <3>3, <1>3 DEF RerunInv, ClearFirst
    <2> QED BY <2>1, <2>2
  <1>9. RunsDown'
    BY <1>1, <1>2, <1>3, <1>4 DEF RerunInv, RunsDown, Step, InstallStep
  <1> QED BY <1>1, <1>7, <1>8, <1>9 DEF RerunInv

LEMMA RerunStep ==
    ASSUME RerunAssumption, TypeOK, StampInv, RerunInv, [Next]_vars
    PROVE  RerunInv'
  <1>1. CASE UNCHANGED <<files, make, fails>>
    <2>1. UNCHANGED <<stamps, goal, subject, todo, ran, result>> /\ Dealt' = Dealt
      BY <1>1 DEF files, make, Dealt
    <2> QED BY <2>1 DEF RerunInv, StampChain, ClearFirst, RunsDown
  <1>2. ASSUME NEW r \in {"ok", "failed"}, Exits(r), StampChain'
        PROVE  RerunInv'
    BY <1>2 DEF Exits, RerunInv, ClearFirst, RunsDown
  <1>3. CASE MakeClean
    <2>1. StampChain'
      BY <1>3 DEF MakeClean, StampChain
    <2> QED BY <1>2, <1>3, <2>1 DEF MakeClean
  <1>4. CASE Finish \/ (UNCHANGED files /\ Exits("failed"))
    <2>1. StampChain' /\ \E r \in {"ok", "failed"} : Exits(r)
      BY <1>4 DEF Finish, files, RerunInv, StampChain
    <2> QED BY <2>1, <1>2
  <1>5. CASE \E p \in Pkg, s \in Step : UpToDate(p, s)
    <2> PICK p \in Pkg, s \in Step : UpToDate(p, s)
      BY <1>5
    <2>1. /\ s \notin AlwaysRun /\ CanDo(p, s) /\ todo' = todo \ {<<p, s>>}
          /\ UNCHANGED <<stamps, goal, subject, ran, result>>
      BY DEF UpToDate, files
    <2>2. Dealt' = Dealt \cup {<<p, s>>} /\ result = "running"
      BY <2>1, DealtGrows DEF StampInv
    <2>3. s # "clear"
      BY <2>1 DEF AlwaysRun, Removal
    <2> QED BY <2>1, <2>2, <2>3 DEF RerunInv, StampChain, ClearFirst, RunsDown, AlwaysRun
  <1>6. CASE \E p \in Pkg : Failure(p)
    <2>1. /\ Exits("failed")
          /\ \A q \in Pkg : stamps'[q] \in {stamps[q], stamps[q] \ {"staging", "target", "xpackage"}}
      BY <1>6, FailureEffect DEF RerunAssumption, StampAssumption, ClearFails, CleanFails, Fails
    <2>2. StampChain'
      BY <2>1 DEF RerunInv, StampChain
    <2> QED BY <2>1, <2>2, <1>2
  <1>7. CASE \E p \in Pkg, s \in Step : RemoveStamp(p, s)
    <2> PICK p \in Pkg, s \in Step : RemoveStamp(p, s)
      BY <1>7
    <2>1. /\ result # "running" /\ s \in ByHand
          /\ UNCHANGED <<goal, subject, todo, ran, result>>
          /\ \A q \in Pkg : stamps'[q] \in {stamps[q], stamps[q] \ {s}}
      BY DEF RemoveStamp, make, TypeOK
    <2>2. s \notin {"configure", "build"}
      BY <2>1 DEF RerunAssumption
    <2>3. StampChain'
      BY <2>1, <2>2 DEF RerunInv, StampChain
    <2> QED BY <2>1, <2>3 DEF RerunInv, ClearFirst, RunsDown, StampInv, DealtInOrder
  <1>8. CASE \E g \in Goal, p \in Pkg \cup {NoPkg} : Start(g, p)
    <2>1. Dealt' = {} /\ ran' = {} /\ goal' \in Goals /\ UNCHANGED stamps
      BY <1>8 DEF Start, Dealt, files
    <2> QED BY <2>1 DEF RerunInv, StampChain, ClearFirst, RunsDown
  <1> QED
    BY <1>1, <1>3, <1>4, <1>5, <1>6, <1>7, <1>8, NextEffect, MakingReruns, RemovingReruns

\* A package configured anew is compiled anew, and one compiled anew is installed
\* anew, in the make that did it: no stamp stops the chain, through any sequence
\* of failures, -rebuild, -reconfigure, -uninstall and -dirclean.
THEOREM RerunGoesDownCorrect ==
    ASSUME RerunAssumption
    PROVE  Spec => []RerunGoesDown
  <1>1. Init => RerunInv
    BY DEF Init, RerunInv, StampChain, ClearFirst, RunsDown
  <1>2. TypeOK /\ StampInv /\ RerunInv /\ [Next]_vars => RerunInv'
    BY RerunStep
  <1>3. StampInv /\ RerunInv => RerunGoesDown
    BY RerunMeans DEF StampInv, OrderInv
  <1>4. StampAssumption
    BY DEF RerunAssumption
  <1> QED BY <1>1, <1>2, <1>3, <1>4, TypeCorrect, StampCorrect, PTL DEF Spec

-----------------------------------------------------------------------------
(* What -rebuild installs.                                                 *)

\* The source of a package that is not developed in place does not change.
EditKnown == \A p \in Pkg \ Override : edit[p] = 1

\* The stamps of the download, the extraction and the synchronisation are never
\* over a product that is missing, not even when a removal stops half-way.
SourceKept ==
    \A p \in Pkg : \A s \in stamps[p] \cap {"source", "extract", "rsync"} : have[p][s] # Absent

\* The source is never older than it was when the running make was started.
AskedKnown == result = "running" /\ subject \in Pkg => asked <= edit[subject]

\* Once -clean-for-rebuild has run, a stamp of the package stands for something
\* at least as new as what was asked for, and so does what has been packed.
Rebuilt ==
    result = "running" /\ <<subject, "clear">> \in Dealt =>
        /\ \A s \in stamps[subject] \cap {"rsync", "build", "host", "staging", "images"} :
              have[subject][s] >= asked
        /\ \A s \in {"xpackage", "target"} : <<subject, s>> \in Dealt => Got(subject, s) >= asked

RebuildInv == EditKnown /\ SourceKept /\ AskedKnown /\ Rebuilt /\ RebuildDelivers

\* When make comes to a step, the stamps before it are there, even if removals
\* have stopped half-way.
LEMMA LeadersThere ==
    ASSUME TypeOK, OrderInv, NEW p \in Pkg, NEW s \in Step, CanDo(p, s)
    PROVE  /\ result = "running" /\ s \in AllSteps(p)
           /\ \A r \in Upto(p, s) \ {s} : <<p, r>> \in Dealt
           /\ \A r \in Upto(p, s) \ ({s} \cup AlwaysRun) : r \in stamps[p]
  <1>1. result = "running"
    BY DEF OrderInv, DealtInOrder, CanDo
  <1>2. s \in AllSteps(p) /\ \A r \in Upto(p, s) \ {s} : <<p, r>> \in Dealt
    BY LeadersDealt DEF OrderInv
  <1>3. Upto(p, s) \subseteq Step
    BY StepsType
  <1> QED BY <1>1, <1>2, <1>3 DEF OrderInv, DealtStamped

\* The tree that a step works on after -clean-for-rebuild is new enough.
LEMMA TreeNewEnough ==
    ASSUME TypeOK, OrderInv, RebuildInv, subject \in Pkg, <<subject, "clear">> \in Dealt,
           CanDo(subject, "build")
    PROVE  Tree(subject) >= asked
  <1>1. /\ result = "running" /\ "build" \in AllSteps(subject) /\ "build" \in Step
        /\ \A r \in Upto(subject, "build") \ ({"build"} \cup AlwaysRun) : r \in stamps[subject]
    BY LeadersThere DEF Step
  <1>2. SourceStep(subject) \in stamps[subject]
    <2>1. SourceStep(subject) \in BuildSteps(subject)
      BY DEF SourceStep, BuildSteps, PrepSteps
    <2>2. Upto(subject, "build") = BuildSteps(subject)
      BY <1>1, UptoValue
    <2>3. SourceStep(subject) \notin {"build"} \cup AlwaysRun
      BY DEF SourceStep, AlwaysRun, Removal
    <2> QED BY <1>1, <2>1, <2>2, <2>3
  <1>3. CASE subject \in Override
    BY <1>1, <1>2, <1>3 DEF RebuildInv, Rebuilt, SourceStep, Tree
  <1>4. CASE subject \notin Override
    <2>1. have[subject]["extract"] # Absent /\ Tree(subject) = have[subject]["extract"]
      BY <1>2, <1>4 DEF RebuildInv, SourceKept, SourceStep, Tree
    <2>2. have[subject]["extract"] \in Nat
      BY DEF TypeOK, MaybeVersion, Step
    <2>3. asked \in Nat /\ asked <= 1
      BY <1>1, <1>4 DEF RebuildInv, AskedKnown, EditKnown, TypeOK, MaybeVersion
    <2> QED BY <2>1, <2>2, <2>3 DEF Absent
  <1> QED BY <1>3, <1>4

\* A step of -rebuild leaves a product that is new enough.
LEMMA MadeNewEnough ==
    ASSUME TypeOK, OrderInv, RebuildInv, subject \in Pkg,
           <<subject, "clear">> \in Dealt,
           NEW s \in {"rsync", "build", "host", "staging", "images", "xpackage", "target"},
           CanDo(subject, s)
    PROVE  Input(subject, s) >= asked
  <1> DEFINE p == subject
  <1>1. /\ result = "running" /\ s \in AllSteps(p) /\ s \in Step
        /\ \A r \in Upto(p, s) \ {s} : <<p, r>> \in Dealt
        /\ \A r \in Upto(p, s) \ ({s} \cup AlwaysRun) : r \in stamps[p]
    BY LeadersThere DEF Step, InstallStep
  <1>2. CASE s = "rsync"
    BY <1>1, <1>2 DEF Input, RebuildInv, AskedKnown, TypeOK, Version, MaybeVersion
  <1>3. CASE s = "build"
    BY <1>3, TreeNewEnough DEF Input
  <1>4. CASE s \in {"host", "staging", "images", "xpackage"}
    <2>1. Upto(p, s) = BuildSteps(p) \cup {s}
      BY <1>1, <1>4, UptoValue
    <2>2. "build" \in stamps[p]
      BY <1>1, <1>4, <2>1 DEF BuildSteps, AlwaysRun, Removal
    <2> QED BY <1>1, <1>4, <2>2 DEF Input, RebuildInv, Rebuilt
  <1>5. CASE s = "target"
    <2>1. <<p, "xpackage">> \in Dealt
      BY <1>1, <1>5, UptoValue
    <2> QED BY <1>1, <1>5, <2>1 DEF Input, Got, RebuildInv, Rebuilt
  <1> QED BY <1>2, <1>3, <1>4, <1>5

\* The subject of a make that has a -clean-for-rebuild is a package, and the
\* goal is -rebuild or -reconfigure.
LEMMA ClearMeansRebuild ==
    ASSUME TypeOK, DealtInOrder, <<subject, "clear">> \in Dealt
    PROVE  subject \in Pkg /\ goal \in {"rebuild", "reconfigure"}
  <1>1. <<subject, "clear">> \in Wanted(goal, subject)
    BY PlanNow DEF Dealt
  <1>2. "clear" \notin Step
    BY DEF Step, InstallStep
  <1>3. subject \in Pkg
    BY <1>1, WantedType DEF Task
  <1>4. \A P : ~TaskOf(P, <<subject, "clear">>)
    BY <1>2, <1>3, StepsType DEF TaskOf
  <1>5. \A h : "clear" \notin Upto(subject, h)
    BY <1>2, <1>3, StepsType
  <1> QED BY <1>1, <1>3, <1>4, <1>5 DEF Wanted

\* A recipe that leaves a product.
LEMMA MakingRebuilds ==
    ASSUME TypeOK, OrderInv, RebuildInv, NEW p \in Pkg, Making(p)
    PROVE  SourceKept' /\ Rebuilt'
  <1> PICK s \in Step, v \in Nat : Made(p, s, v)
    BY MakingEffect
  <1>1. /\ CanDo(p, s) /\ todo' = todo \ {<<p, s>>}
        /\ UNCHANGED <<goal, subject, asked, result>>
        /\ s # "target" => v = Input(p, s)
    BY DEF Made, Ran, Runs
  <1>2. Dealt' = Dealt \cup {<<p, s>>} /\ result = "running"
    BY <1>1, DealtGrows DEF OrderInv
  <1>3. /\ \A q \in Pkg \ {p} : stamps'[q] = stamps[q]
        /\ stamps'[p] \subseteq stamps[p] \cup {s}
        /\ \A q \in Pkg : \A r \in Step :
              have'[q][r] = IF q = p /\ r = s THEN v ELSE have[q][r]
        /\ Got(p, s)' = Input(p, s)
        /\ \A q \in Pkg : \A r \in Step :
              <<q, r>> # <<p, s>> /\ (q = p /\ r = "target" => s # "xpackage") =>
                  Got(q, r)' = Got(q, r)
    BY MadeGot DEF Made
  <1>4. s \in {"source", "extract", "rsync"} => v # Absent
    <2>1. CASE s \in {"source", "rsync"}
      BY <1>1, <2>1 DEF Input, TypeOK, Version, Absent
    <2>2. CASE s = "extract"
      <3>1. s \in AllSteps(p) /\ \A r \in Upto(p, s) \ ({s} \cup AlwaysRun) : r \in stamps[p]
        BY <1>1, LeadersThere
      <3>2. Upto(p, s) = {"source", "extract"}
        BY <2>2, <3>1, UptoValue
      <3>3. "source" \in stamps[p]
        BY <2>2, <3>1, <3>2 DEF AlwaysRun, Removal
      <3> QED BY <1>1, <2>2, <3>3 DEF Input, RebuildInv, SourceKept
    <2> QED BY <2>1, <2>2
  <1>5. SourceKept'
    BY <1>3, <1>4 DEF RebuildInv, SourceKept, Step
  <1>6. Rebuilt'
    <2> SUFFICES ASSUME <<subject, "clear">> \in Dealt',
                        NEW r \in {"rsync", "build", "host", "staging", "images", "xpackage", "target"},
                        r \in stamps'[subject] \/ <<subject, r>> \in Dealt',
                        r \in {"xpackage", "target"} => <<subject, r>> \in Dealt',
                        r \notin {"xpackage", "target"} => r \in stamps'[subject]
                 PROVE  Got(subject, r)' >= asked
      BY <1>1 DEF Rebuilt, Got
    <2>1. <<subject, "clear">> \in Dealt
      BY <1>2 DEF Step, InstallStep
    <2>2. subject \in Pkg /\ r \in Step
      BY <2>1, ClearMeansRebuild DEF OrderInv, Step, InstallStep
    <2>3. CASE p = subject /\ r = s
      <3>1. Input(subject, r) >= asked
        BY <1>1, <2>1, <2>2, <2>3, MadeNewEnough
      <3> QED BY <1>1, <1>3, <2>2, <2>3, <3>1
    <2>4. CASE ~(p = subject /\ r = s)
      <3>1. Got(subject, r)' = Got(subject, r)
        <4>1. CASE p = subject /\ r = "target" /\ s = "xpackage"
          <5>1. <<p, "target">> \in Dealt
            BY <1>2, <2>4, <4>1
          <5>2. <<p, "xpackage">> \in Dealt
            BY <5>1, BuildBefore
          <5> QED BY <5>2, <1>1, <4>1 DEF CanDo, Dealt
        <4>2. CASE ~(p = subject /\ r = "target" /\ s = "xpackage")
          <5> PICK q \in Pkg : q = subject
            BY <2>2
          <5>1. <<q, r>> # <<p, s>>
            BY <2>4
          <5>2. Got(q, r)' = Got(q, r)
            BY <1>3, <2>2, <4>2, <5>1
          <5> QED BY <5>2, <1>1 DEF Got
        <4> QED BY <4>1, <4>2
      <3>2. CASE r \in {"xpackage", "target"}
        <4>1. <<subject, r>> \in Dealt
          BY <1>2, <2>4, <3>2
        <4> QED BY <1>2, <2>1, <3>1, <3>2, <4>1 DEF RebuildInv, Rebuilt
      <3>3. CASE r \notin {"xpackage", "target"}
        <4>1. r \in stamps[subject]
          BY <1>3, <2>2, <2>4, <3>3
        <4> QED BY <1>2, <2>1, <3>1, <3>3, <4>1 DEF RebuildInv, Rebuilt, Got
      <3> QED BY <3>2, <3>3
    <2> QED BY <2>3, <2>4
  <1> QED BY <1>5, <1>6

\* A recipe that removes.
LEMMA RemovingRebuilds ==
    ASSUME TypeOK, OrderInv, RebuildInv, NEW p \in Pkg, Removing(p)
    PROVE  SourceKept' /\ Rebuilt'
  <1> PICK s \in Removal : Removed(p, s)
    BY RemovingEffect
  <1>1. /\ CanDo(p, s) /\ todo' = todo \ {<<p, s>>}
        /\ UNCHANGED <<goal, subject, asked, result>>
    BY DEF Removed, Ran, Runs
  <1>2. Dealt' = Dealt \cup {<<p, s>>} /\ result = "running"
    BY <1>1, DealtGrows DEF OrderInv
  <1>3. /\ \A q \in Pkg : stamps'[q] \subseteq stamps[q]
        /\ \A q \in Pkg \ {p} : have'[q] = have[q]
        /\ \A r \in stamps'[p] : have'[p][r] = have[p][r]
        /\ s \in {"clear", "clear_configure"} => have' = have /\ kept' = kept
        /\ stamps'[p] = stamps[p] \ TakenBy(s)
    BY DEF Removed
  <1>4. SourceKept'
    BY <1>3 DEF RebuildInv, SourceKept
  <1>5. Rebuilt'
    <2> SUFFICES ASSUME <<subject, "clear">> \in Dealt'
                 PROVE  Rebuilt'
      BY <1>1 DEF Rebuilt
    <2>1. CASE <<subject, "clear">> \in Dealt
      <3>1. subject \in Pkg /\ goal \in {"rebuild", "reconfigure"}
        BY <2>1, ClearMeansRebuild DEF OrderInv
      <3>2. s \in {"clear", "clear_configure"}
        BY <1>1, <3>1, RemovalTasks DEF OrderInv, Removal
      <3>3. \A r \in {"xpackage", "target"} : <<subject, r>> \in Dealt' => <<subject, r>> \in Dealt
        BY <1>2, <3>2
      <3> QED BY <1>1, <1>2, <1>3, <2>1, <3>1, <3>2, <3>3 DEF RebuildInv, Rebuilt, Got
    <2>2. CASE <<subject, "clear">> \notin Dealt
      <3>1. p = subject /\ s = "clear"
        BY <1>2, <2>2
      <3>2. \A r \in Step : <<subject, r>> \notin Dealt
        BY <1>1, <3>1, RemovalTasks DEF OrderInv
      <3>3. \A r \in {"xpackage", "target"} : <<subject, r>> \notin Dealt'
        BY <1>2, <3>1, <3>2 DEF Step, InstallStep
      <3>4. stamps'[subject] \cap {"rsync", "build", "host", "staging", "images"} = {}
        BY <1>3, <3>1 DEF TakenBy, Clearable
      <3> QED BY <1>1, <3>3, <3>4 DEF Rebuilt
    <2> QED BY <2>1, <2>2
  <1> QED BY <1>4, <1>5

\* When nothing of a -rebuild is left to do, the package is installed anew.
LEMMA FinishRebuilt ==
    ASSUME TypeOK, OrderInv, RebuildInv, Finish
    PROVE  RebuildDelivers'
  <1>1. todo = {} /\ result = "running" /\ UNCHANGED <<have, kept, goal, subject, asked>>
    BY DEF Finish, Exits, files
  <1>2. SUFFICES ASSUME goal \in {"rebuild", "reconfigure"}, subject \in World,
                        NEW s \in Installs(subject)
                 PROVE  Got(subject, s) >= asked
    BY <1>1 DEF RebuildDelivers, Got
  <1>3. subject \in Pkg /\ s \in Steps(subject) /\ s \in InstallStep
    BY <1>2, PkgAssumption, NeedsClosed, InstallsAreSteps DEF World
  <1>4. /\ <<subject, s>> \in Wanted(goal, subject)
        /\ <<subject, "clear">> \in Wanted(goal, subject)
    BY <1>2, <1>3, StepsType DEF Wanted, WorldGoal, TaskOf, Task, Removal
  <1>5. <<subject, s>> \in Dealt /\ <<subject, "clear">> \in Dealt
    BY <1>1, <1>4, PlanNow DEF Dealt
  <1>6. s # "target" => s \in stamps[subject]
    BY <1>1, <1>3, <1>5 DEF OrderInv, DealtStamped, Step, InstallStep, AlwaysRun, Removal
  <1> QED BY <1>1, <1>3, <1>5, <1>6 DEF RebuildInv, Rebuilt, Got, InstallStep

LEMMA RebuildStep ==
    ASSUME TypeOK, OrderInv, RebuildInv, [Next]_vars
    PROVE  RebuildInv'
  <1>1. EditKnown'
    <2>1. CASE \E p \in Pkg : Edit(p)
      BY <2>1 DEF Edit, RebuildInv, EditKnown, TypeOK
    <2>2. CASE edit' = edit
      BY <2>2 DEF RebuildInv, EditKnown
    <2>3. CASE \E p \in Pkg : Making(p) \/ Removing(p)
      <3>1. edit' = edit
        BY <2>3, MakingEffect, RemovingEffect DEF Made, Removed, Ran
      <3> QED BY <3>1, <2>2
    <2>4. CASE \E p \in Pkg : Failure(p)
      BY <2>2, <2>4, FailureEffect DEF Exits
    <2> QED
      BY <2>1, <2>2, <2>3, <2>4, NextEffect
         DEF Finish, MakeClean, Exits, UpToDate, RemoveStamp, Start
  <1>2. CASE UNCHANGED <<files, make, fails>> /\ (edit' = edit \/ \E p \in Pkg : Edit(p))
    <2>1. UNCHANGED <<stamps, have, kept, goal, subject, asked, todo, result>> /\ Dealt' = Dealt
      BY <1>2 DEF files, make, Dealt
    <2>2. AskedKnown'
      <3> SUFFICES ASSUME result = "running", subject \in Pkg PROVE asked <= edit'[subject]
        BY <2>1 DEF AskedKnown
      <3>1. asked <= edit[subject] /\ asked \in Nat /\ edit[subject] \in Nat
        BY DEF RebuildInv, AskedKnown, TypeOK, MaybeVersion, Version
      <3>2. edit'[subject] = edit[subject] \/ edit'[subject] = edit[subject] + 1
        BY <1>2 DEF Edit, TypeOK
      <3> QED BY <3>1, <3>2
    <2> QED BY <1>1, <2>1, <2>2 DEF RebuildInv, SourceKept, Rebuilt, RebuildDelivers, Got
  <1>3. CASE Finish
    <2>1. AskedKnown' /\ Rebuilt' /\ SourceKept'
      BY <1>3 DEF Finish, Exits, files, AskedKnown, Rebuilt, RebuildInv, SourceKept
    <2> QED BY <1>1, <1>3, <2>1, FinishRebuilt DEF RebuildInv
  <1>4. CASE MakeClean
    BY <1>1, <1>4 DEF MakeClean, Exits, RebuildInv, AskedKnown, Rebuilt, SourceKept, RebuildDelivers
  <1>5. ASSUME Exits("failed"), SourceKept'
        PROVE  RebuildInv'
    BY <1>1, <1>5 DEF Exits, RebuildInv, AskedKnown, Rebuilt, RebuildDelivers
  <1>6. CASE UNCHANGED files /\ Exits("failed")
    BY <1>5, <1>6 DEF files, RebuildInv, SourceKept
  <1>7. CASE \E p \in Pkg : Failure(p)
    <2> PICK p \in Pkg : Failure(p)
      BY <1>7
    <2>1. SourceKept'
      <3> SUFFICES ASSUME NEW q \in Pkg, NEW r \in stamps'[q] \cap {"source", "extract", "rsync"}
                   PROVE  have'[q][r] # Absent
        BY DEF SourceKept
      <3>1. r \in stamps[q] /\ r \in Step /\ r \notin AlwaysRun /\ r # "build"
        BY FailureEffect DEF Step, AlwaysRun, Removal
      <3>2. have'[q][r] = have[q][r]
        BY <3>1, FailureEffect
      <3> QED BY <3>1, <3>2 DEF RebuildInv, SourceKept
    <2> QED BY <1>5, <2>1, FailureEffect
  <1>8. CASE \E p \in Pkg : Making(p) \/ Removing(p)
    <2> PICK p \in Pkg : Making(p) \/ Removing(p)
      BY <1>8
    <2>1. SourceKept' /\ Rebuilt'
      BY MakingRebuilds, RemovingRebuilds
    <2>2. result = "running" /\ UNCHANGED <<edit, subject, asked, result>>
      BY MakingEffect, RemovingEffect DEF Made, Removed, Ran, Runs, CanDo, OrderInv, DealtInOrder
    <2> QED BY <1>1, <2>1, <2>2 DEF RebuildInv, AskedKnown, RebuildDelivers
  <1>9. CASE \E p \in Pkg, s \in Step : UpToDate(p, s)
    <2> PICK p \in Pkg, s \in Step : UpToDate(p, s)
      BY <1>9
    <2>1. /\ s \notin AlwaysRun /\ CanDo(p, s) /\ todo' = todo \ {<<p, s>>}
          /\ UNCHANGED <<stamps, have, kept, edit, goal, subject, asked, result>>
      BY DEF UpToDate, files
    <2>2. Dealt' = Dealt \cup {<<p, s>>} /\ result = "running"
      BY <2>1, DealtGrows DEF OrderInv
    <2>3. s # "clear"
      BY <2>1 DEF AlwaysRun, Removal
    <2> QED
      BY <1>1, <2>1, <2>2, <2>3
         DEF RebuildInv, SourceKept, AskedKnown, Rebuilt, RebuildDelivers, Got, AlwaysRun
  <1>10. CASE \E p \in Pkg, s \in Step : RemoveStamp(p, s)
    <2>1. /\ result # "running" /\ UNCHANGED <<have, kept, goal, subject, asked, result>>
          /\ \A q \in Pkg : stamps'[q] \subseteq stamps[q]
      BY <1>10 DEF RemoveStamp, make, TypeOK
    <2> QED BY <1>1, <2>1 DEF RebuildInv, SourceKept, AskedKnown, Rebuilt, RebuildDelivers, Got
  <1>11. CASE \E g \in Goal, p \in Pkg \cup {NoPkg} : Start(g, p)
    <2> PICK g \in Goal, p \in Pkg \cup {NoPkg} : Start(g, p)
      BY <1>11
    <2>1. /\ Dealt' = {} /\ result' = "running" /\ subject' = p
          /\ asked' = (IF p = NoPkg THEN Absent ELSE edit[p])
          /\ UNCHANGED <<stamps, have, edit>>
      BY DEF Start, Dealt, files
    <2>2. AskedKnown'
      BY <2>1, PkgAssumption DEF AskedKnown, TypeOK, Version
    <2> QED BY <1>1, <2>1, <2>2 DEF RebuildInv, SourceKept, Rebuilt, RebuildDelivers, Got
  <1> QED
    BY <1>2, <1>3, <1>4, <1>6, <1>7, <1>8, <1>9, <1>10, <1>11, NextEffect

\* A <pkg>-rebuild or -reconfigure that succeeds has installed the source as it
\* was when the command was given, or newer: whatever makes failed before, even
\* in the middle of a -clean or of an earlier -rebuild.
THEOREM RebuildDeliversCorrect == Spec => []RebuildDelivers
  <1>1. Init => RebuildInv
    BY DEF Init, RebuildInv, EditKnown, SourceKept, AskedKnown, Rebuilt, RebuildDelivers, Got
  <1>2. TypeOK /\ OrderInv /\ RebuildInv /\ [Next]_vars => RebuildInv'
    BY RebuildStep
  <1>3. RebuildInv => RebuildDelivers
    BY DEF RebuildInv
  <1> QED BY <1>1, <1>2, <1>3, TypeCorrect, OrderCorrect, PTL DEF Spec

\* The developer who retries does nothing that Spec does not allow, so the
\* theorems hold of the run that checks RebuildDelivers as well.
LEMMA RetryWithin == RetrySpec => Spec
  <1>1. ASSUME RetryNext PROVE Next
    <2>1. "all" \in Goal /\ "dirclean" \in Goal /\ "clean" \in Goal /\ "rebuild" \in Goal
      BY DEF Goal
    <2>2. Spoilt \subseteq Pkg
      BY DEF Spoilt, HalfPatched, HalfCleaned
    <2>3. CASE Retry
      BY <2>1, <2>2, <2>3 DEF Retry, Next
    <2>4. CASE Develop
      BY <2>1, <2>4, PkgAssumption DEF Develop, Next
    <2> QED BY <1>1, <2>3, <2>4 DEF RetryNext, Next
  <1>2. [RetryNext]_vars => [Next]_vars
    BY <1>1
  <1> QED BY <1>2, PTL DEF RetrySpec, Spec

=============================================================================
