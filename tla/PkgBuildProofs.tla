--------------------------- MODULE PkgBuildProofs ---------------------------
(***************************************************************************)
(* Theorems about PkgBuild, for every set of packages, dependency relation *)
(* and choice of fallible recipes.                                         *)
(***************************************************************************)
EXTENDS PkgBuild, TLAPS

-----------------------------------------------------------------------------
(* Type correctness.                                                       *)

\* Every goal asks for tasks of known packages only.
LEMMA WantedType ==
    ASSUME NEW g, NEW p
    PROVE  Wanted(g, p) \subseteq Task
  BY DEF Wanted

LEMMA PlanValue ==
    ASSUME NEW g \in Goal, NEW p \in Pkg \cup {NoPkg}
    PROVE  Plan[g][p] = Wanted(g, p)
  BY DEF Plan

\* ... in particular the make that is running.
LEMMA PlanNow == TypeOK => Plan[goal][subject] = Wanted(goal, subject)
  BY PlanValue DEF TypeOK

\* A step that leaves a product of a known version keeps the types.
LEMMA RecipeType ==
    ASSUME TypeOK, NEW p \in Pkg, Recipe(p)
    PROVE  TypeOK'
  <1> USE PkgAssumption, BoundAssumption
  <1>1. Tree(p) \in MaybeVersion
    BY DEF TypeOK, Tree, SourceStep, Step
  <1>2. edit[p] \in MaybeVersion
    BY DEF TypeOK, MaybeVersion, Version
  <1>3. \A s \in Step : have[p][s] \in MaybeVersion
    BY DEF TypeOK
  <1>4. ASSUME NEW s \in Step \cup Removal, Ran(p, s)
        PROVE  /\ edit' \in [Pkg -> Version] /\ goal' \in Goal
               /\ subject' \in Pkg \cup {NoPkg} /\ asked' \in MaybeVersion
               /\ todo' \subseteq Task /\ ran' \subseteq Task
               /\ result' \in {"none", "running", "ok", "failed"}
               /\ fails' \in 0 .. MaxFail
    BY <1>4 DEF TypeOK, Ran, Task
  <1>5. ASSUME NEW s \in Step, NEW v \in MaybeVersion, Leave(p, s, v)
        PROVE  have' \in [Pkg -> [Step -> MaybeVersion]]
    BY <1>5 DEF TypeOK, Leave
  <1>6. ASSUME NEW s \in Step, Touch(p, s)
        PROVE  stamps' \in [Pkg -> SUBSET Step]
    BY <1>6 DEF TypeOK, Touch
  <1>7. CASE Download(p)
    BY <1>7, <1>2, <1>4, <1>5, <1>6 DEF TypeOK, Download, Step
  <1>8. CASE Extract(p)
    BY <1>8, <1>3, <1>4, <1>5, <1>6 DEF TypeOK, Extract, Step
  <1>9. CASE Rsync(p)
    BY <1>9, <1>2, <1>4, <1>5, <1>6 DEF TypeOK, Rsync, Step
  <1>10. CASE Patch(p)
    <2>1. /\ applied' \in [Pkg -> Nat]
          /\ \A q \in Pkg : applied'[q] <= Patches[q]
      BY <1>10 DEF TypeOK, Patch
    <2> QED BY <1>10, <2>1, <1>1, <1>4, <1>5, <1>6 DEF TypeOK, Patch, Step
  <1>11. CASE PatchRejected(p) \/ OpkgMissing(p)
    BY <1>11 DEF TypeOK, PatchRejected, OpkgMissing, Exits, files, Task
  <1>12. CASE Configure(p) \/ Build(p)
    BY <1>12, <1>1, <1>4, <1>5, <1>6 DEF TypeOK, Configure, Build, Step
  <1>13. CASE \E s \in InstallStep : Install(p, s)
    <2> PICK s \in InstallStep : Install(p, s)
      BY <1>13
    <2>1. have[p]["build"] \in MaybeVersion /\ s \in Step
      BY <1>3 DEF Step
    <2> QED BY <2>1, <1>4, <1>5, <1>6 DEF TypeOK, Install
  <1>14. CASE XPackage(p)
    <2>1. listed' \in [Pkg -> 0 .. MaxList]
      BY <1>14 DEF TypeOK, XPackage
    <2> QED BY <1>14, <2>1, <1>3, <1>4, <1>5 DEF TypeOK, XPackage, Step
  <1>15. CASE XPkg(p)
    BY <1>15, <1>3, <1>4, <1>5, <1>6 DEF TypeOK, XPkg, Step, InstallStep
  <1>16. CASE Clear(p) \/ ClearConfigure(p)
    <2>1. Ran(p, "clear") \/ Ran(p, "clear_configure")
      BY <1>16 DEF Clear, ClearConfigure
    <2>2. stamps \in [Pkg -> SUBSET Step]
      BY DEF TypeOK
    <2>3. PICK gone : stamps' = [stamps EXCEPT ![p] = @ \ gone]
      BY <1>16 DEF Clear, ClearConfigure
    <2>4. stamps' \in [Pkg -> SUBSET Step]
      BY <2>2, <2>3
    <2> QED BY <1>16, <2>1, <2>4, <1>4 DEF TypeOK, Clear, ClearConfigure, Removal
  <1>17. CASE Uninstall(p)
    BY <1>17, <1>4 DEF TypeOK, Uninstall, Uninstalled, Removal, MaybeVersion, Absent
  <1>18. CASE Clean(p)
    <2>1. Absent \in MaybeVersion /\ "build" \in Step
      BY DEF Absent, MaybeVersion, Step
    <2> QED BY <1>18, <2>1, <1>4, <1>5 DEF TypeOK, Clean, Removal
  <1>19. CASE Dirclean(p)
    BY <1>19, <1>4 DEF TypeOK, Dirclean, Removal, MaybeVersion, Absent
  <1>20. CASE \E s \in Step : UpToDate(p, s)
    BY <1>20 DEF TypeOK, UpToDate, files
  <1> QED
    BY <1>7, <1>8, <1>9, <1>10, <1>11, <1>12, <1>13, <1>14, <1>15, <1>16,
       <1>17, <1>18, <1>19, <1>20 DEF Recipe

\* A recipe that fails keeps the types.
LEMMA FailureType ==
    ASSUME TypeOK, NEW p \in Pkg, Failure(p)
    PROVE  TypeOK'
  <1> USE PkgAssumption, BoundAssumption
  <1>1. ASSUME NEW s, Fails(p, s)
        PROVE  /\ edit' \in [Pkg -> Version] /\ goal' \in Goal
               /\ subject' \in Pkg \cup {NoPkg} /\ asked' \in MaybeVersion
               /\ todo' \subseteq Task /\ ran' \subseteq Task
               /\ result' \in {"none", "running", "ok", "failed"}
               /\ fails' \in 0 .. MaxFail
    BY <1>1 DEF TypeOK, Fails, Exits
  <1>2. ASSUME NEW s \in Step, Leave(p, s, Absent)
        PROVE  have' \in [Pkg -> [Step -> MaybeVersion]]
    BY <1>2 DEF TypeOK, Leave, Absent, MaybeVersion
  <1>3. CASE \E s \in Step : StepFails(p, s)
    BY <1>3, <1>1, <1>2 DEF TypeOK, StepFails
  <1>4. CASE PatchFails(p)
    <2>1. have' \in [Pkg -> [Step -> MaybeVersion]]
      BY <1>4, <1>2 DEF PatchFails, Step
    <2>2. /\ applied' \in [Pkg -> Nat]
          /\ \A q \in Pkg : applied'[q] <= Patches[q]
      BY <1>4 DEF TypeOK, PatchFails
    <2> QED BY <1>4, <1>1, <2>1, <2>2 DEF TypeOK, PatchFails
  <1>5. CASE ClearFails(p)
    BY <1>5, <1>1 DEF TypeOK, ClearFails
  <1>6. CASE UninstallFails(p)
    BY <1>6, <1>1 DEF TypeOK, UninstallFails, Uninstalled, Absent, MaybeVersion
  <1>7. CASE CleanFails(p)
    BY <1>7, <1>1, <1>2 DEF TypeOK, CleanFails, Step
  <1> QED BY <1>3, <1>4, <1>5, <1>6, <1>7 DEF Failure

\* Every variable keeps its type, whatever recipe fails and whatever stamp the
\* developer removes.
THEOREM TypeCorrect == Spec => []TypeOK
  <1> USE PkgAssumption, BoundAssumption
  <1>1. Init => TypeOK
    BY DEF Init, TypeOK, Absent, MaybeVersion, Version, Goal
  <1>2. TypeOK /\ [Next]_vars => TypeOK'
    <2> SUFFICES ASSUME TypeOK, [Next]_vars PROVE TypeOK'
      OBVIOUS
    <2>1. CASE UNCHANGED vars
      BY <2>1 DEF TypeOK, vars, files, make
    <2>2. CASE Finish \/ Interrupt
      BY <2>2 DEF TypeOK, Finish, Interrupt, Exits, files
    <2>3. CASE MakeClean
      BY <2>3 DEF TypeOK, MakeClean, Exits, Absent, MaybeVersion
    <2>4. CASE \E p \in Pkg : Recipe(p)
      BY <2>4, RecipeType
    <2>5. CASE \E p \in Pkg : Failure(p)
      BY <2>5, FailureType
    <2>6. CASE \E p \in Pkg : Edit(p)
      BY <2>6 DEF TypeOK, Edit, files, make, Version
    <2>7. CASE \E p \in Pkg, s \in Step : RemoveStamp(p, s)
      BY <2>7 DEF TypeOK, RemoveStamp, make
    <2>8. CASE \E g \in Goal, p \in Pkg \cup {NoPkg} : Start(g, p)
      BY <2>8, WantedType, PlanValue, BoundAssumption DEF TypeOK, Start, files, Absent, MaybeVersion, Version
    <2> QED
      BY <2>1, <2>2, <2>3, <2>4, <2>5, <2>6, <2>7, <2>8 DEF Next, Running
  <1> QED BY <1>1, <1>2, PTL DEF Spec

-----------------------------------------------------------------------------
(* The order in which make works.                                          *)

\* The steps of a package, and those that lead to one, are known steps.
LEMMA StepsType ==
    ASSUME NEW p \in Pkg
    PROVE  /\ AllSteps(p) \subseteq Step /\ Steps(p) \subseteq AllSteps(p)
           /\ \A s : Upto(p, s) \subseteq AllSteps(p)
  BY DEF Upto, Steps, AllSteps, BuildSteps, PrepSteps, Installs, Step, InstallStep

\* "Leads to" is transitive.
LEMMA UptoTransitive ==
    ASSUME NEW p \in Pkg, NEW g \in Step, NEW s \in Upto(p, g)
    PROVE  Upto(p, s) \subseteq Upto(p, g)
  <1>1. s \in AllSteps(p)
    BY DEF Upto
  <1>2. SUFFICES ASSUME NEW r \in Upto(p, s) PROVE r \in Upto(p, g)
    OBVIOUS
  <1> QED BY <1>1, <1>2 DEF Upto, AllSteps, BuildSteps, PrepSteps, Installs, Step, InstallStep

\* A goal that wants a step of a package wants all the steps that lead to it,
\* and the step is one the package has.
LEMMA WantedClosed ==
    ASSUME NEW g \in Goal, NEW q, NEW p \in Pkg, NEW s \in Step,
           <<p, s>> \in Wanted(g, q)
    PROVE  /\ s \in AllSteps(p)
           /\ \A r \in Upto(p, s) : <<p, r>> \in Wanted(g, q)
  <1>1. ASSUME NEW P, TaskOf(P, <<p, s>>)
        PROVE  /\ s \in AllSteps(p)
               /\ \A r \in Upto(p, s) : TaskOf(P, <<p, r>>) /\ <<p, r>> \in Task
    <2>1. s \in Steps(p) /\ Steps(p) = AllSteps(p) /\ p \in P
      BY <1>1 DEF TaskOf, Steps
    <2>2. Upto(p, s) \subseteq Steps(p) /\ Steps(p) \subseteq Step
      BY <2>1, StepsType
    <2> QED BY <2>1, <2>2 DEF TaskOf, Task
  <1>2. ASSUME NEW h \in Step, s \in Upto(p, h)
        PROVE  /\ s \in AllSteps(p)
               /\ \A r \in Upto(p, s) : r \in Upto(p, h) /\ <<p, r>> \in Task
    <2>1. s \in AllSteps(p)
      BY <1>2 DEF Upto
    <2>2. Upto(p, s) \subseteq Upto(p, h)
      BY <1>2, UptoTransitive
    <2>3. Upto(p, s) \subseteq Step
      BY StepsType
    <2> QED BY <2>1, <2>2, <2>3 DEF Task
  <1>3. CASE g \in WorldGoal /\ TaskOf(World, <<p, s>>)
    BY <1>3, <1>1 DEF Wanted
  <1>4. CASE g = "pkg" /\ TaskOf(Needs({q}), <<p, s>>)
    BY <1>4, <1>1 DEF Wanted
  <1>5. CASE \E h \in LastStep(g) :
               \/ p = q /\ s \in Upto(q, h)
               \/ "configure" \in Upto(q, h) /\ TaskOf(Needs(Deps[q]), <<p, s>>)
    <2> PICK h \in LastStep(g) :
               \/ p = q /\ s \in Upto(q, h)
               \/ "configure" \in Upto(q, h) /\ TaskOf(Needs(Deps[q]), <<p, s>>)
      BY <1>5
    <2>0. h \in Step
      BY DEF LastStep, Step
    <2>1. CASE p = q /\ s \in Upto(q, h)
      BY <2>0, <2>1, <1>2 DEF Wanted
    <2>2. CASE "configure" \in Upto(q, h) /\ TaskOf(Needs(Deps[q]), <<p, s>>)
      BY <2>2, <1>1 DEF Wanted
    <2> QED BY <2>1, <2>2
  <1> QED BY <1>3, <1>4, <1>5 DEF Wanted, LastStep, Step, InstallStep

\* The steps that lead to each step a package has.
LEMMA UptoValue ==
    ASSUME NEW p \in Pkg, NEW b \in AllSteps(p)
    PROVE  /\ b \in {"source", "rsync"} => Upto(p, b) = {b}
           /\ b = "extract" => Upto(p, b) = {"source", "extract"}
           /\ b = "patch" => Upto(p, b) = {"source", "extract", "patch"}
           /\ b = "configure" => Upto(p, b) = PrepSteps(p) \cup {"configure"}
           /\ b = "build" => Upto(p, b) = BuildSteps(p)
           /\ b \in {"xpackage", "host", "staging", "images"} =>
                 Upto(p, b) = BuildSteps(p) \cup {b}
           /\ b = "target" => Upto(p, b) = BuildSteps(p) \cup {"xpackage", "target"}
  BY DEF Upto, AllSteps, BuildSteps, PrepSteps, Installs

\* When make comes to a step, every step that leads to it is dealt with; so it
\* is when make has been there already.
LEMMA LeadersDealt ==
    ASSUME TypeOK, DealtInOrder, NEW p \in Pkg, NEW s \in Step,
           CanDo(p, s) \/ <<p, s>> \in Dealt
    PROVE  /\ s \in AllSteps(p)
           /\ \A r \in Upto(p, s) \ {s} : <<p, r>> \in Dealt
  <1> DEFINE W == Wanted(goal, subject)
  <1>0. Plan[goal][subject] = W
    BY PlanNow
  <1>1. <<p, s>> \in W
    BY <1>0 DEF CanDo, DealtInOrder, Dealt
  <1>2. \A b \in Step : <<p, b>> \in W =>
           b \in AllSteps(p) /\ \A r \in Upto(p, b) : <<p, r>> \in W
    BY WantedClosed DEF TypeOK
  <1>3. ASSUME NEW a, NEW b, <<a, b>> \in StepOrder[p],
               <<p, a>> \in W, <<p, b>> \in Dealt \/ b = s
        PROVE  <<p, a>> \in Dealt
    <2>1. \A g : Precedes(g, <<p, a>>, <<p, b>>)
      BY <1>3 DEF Precedes
    <2> QED BY <2>1, <1>0, <1>3 DEF CanDo, DealtInOrder, Dealt
  <1>4. /\ <<"source", "extract">> \in StepOrder[p]
        /\ <<"extract", "patch">> \in StepOrder[p]
        /\ <<PrepStep(p), "configure">> \in StepOrder[p]
        /\ <<"configure", "build">> \in StepOrder[p]
        /\ <<"xpackage", "target">> \in StepOrder[p]
        /\ \A b \in {"xpackage", "host", "staging", "images"} :
              <<"build", b>> \in StepOrder[p]
    BY DEF StepOrder
  \* The task <<p, b>> is dealt with, or it is the one make has come to.
  <1> DEFINE Reached(b) == <<p, b>> \in Dealt \/ b = s
             Led(b) == \A r \in Upto(p, b) \ {b} : <<p, r>> \in Dealt
  <1>5. \A b \in Step : Reached(b) => <<p, b>> \in W
    BY <1>0, <1>1 DEF Dealt
  <1> HIDE DEF W
  <1>6. Reached("extract") => Led("extract")
    BY <1>2, <1>3, <1>4, <1>5, UptoValue DEF Step
  <1>7. Reached("patch") => Led("patch")
    BY <1>2, <1>3, <1>4, <1>5, <1>6, UptoValue DEF Step
  <1>8. Reached("configure") => Led("configure")
    <2> SUFFICES ASSUME Reached("configure") PROVE Led("configure")
      OBVIOUS
    <2>1. /\ Upto(p, "configure") = PrepSteps(p) \cup {"configure"}
          /\ \A r \in Upto(p, "configure") : <<p, r>> \in W
      BY <1>2, <1>5, UptoValue DEF Step
    <2>2. PrepStep(p) \in PrepSteps(p)
      BY DEF PrepStep, PrepSteps
    <2>3. <<p, PrepStep(p)>> \in Dealt
      BY <2>1, <2>2, <1>3, <1>4
    <2>4. CASE p \in Override
      BY <2>1, <2>3, <2>4 DEF PrepStep, PrepSteps
    <2>5. CASE p \notin Override
      <3>1. PrepStep(p) = "patch" /\ PrepSteps(p) = {"source", "extract", "patch"}
        BY <2>5 DEF PrepStep, PrepSteps
      <3>2. Upto(p, "patch") = {"source", "extract", "patch"}
        BY <3>1, UptoValue DEF AllSteps, BuildSteps
      <3> QED BY <2>1, <2>3, <3>1, <3>2, <1>7
    <2> QED BY <2>4, <2>5
  <1>9. Reached("build") => Led("build")
    <2> SUFFICES ASSUME Reached("build") PROVE Led("build")
      OBVIOUS
    <2>1. /\ Upto(p, "build") = BuildSteps(p)
          /\ \A r \in Upto(p, "build") : <<p, r>> \in W
      BY <1>2, <1>5, UptoValue DEF Step
    <2>2. <<p, "configure">> \in Dealt
      BY <2>1, <1>3, <1>4 DEF BuildSteps
    <2>3. Upto(p, "configure") = PrepSteps(p) \cup {"configure"}
      BY UptoValue DEF AllSteps, BuildSteps
    <2> QED BY <2>1, <2>2, <2>3, <1>8 DEF BuildSteps
  <1>10. ASSUME NEW b \in {"xpackage", "host", "staging", "images"}, Reached(b)
         PROVE  Led(b)
    <2>1. /\ Upto(p, b) = BuildSteps(p) \cup {b}
          /\ \A r \in Upto(p, b) : <<p, r>> \in W
      BY <1>2, <1>5, <1>10, UptoValue DEF Step, InstallStep
    <2>2. <<p, "build">> \in Dealt
      BY <2>1, <1>3, <1>4, <1>10 DEF BuildSteps
    <2>3. Upto(p, "build") = BuildSteps(p)
      BY UptoValue DEF AllSteps, BuildSteps
    <2> QED BY <2>1, <2>2, <2>3, <1>9
  <1>11. Reached("target") => Led("target")
    <2> SUFFICES ASSUME Reached("target") PROVE Led("target")
      OBVIOUS
    <2>1. /\ Upto(p, "target") = BuildSteps(p) \cup {"xpackage", "target"}
          /\ \A r \in Upto(p, "target") : <<p, r>> \in W
      BY <1>2, <1>5, UptoValue DEF Step, InstallStep
    <2>2. <<p, "xpackage">> \in Dealt
      BY <2>1, <1>3, <1>4
    <2>3. Upto(p, "xpackage") = BuildSteps(p) \cup {"xpackage"}
      BY <2>2, <1>2, <1>5, UptoValue DEF Step
    <2> QED BY <2>1, <2>2, <2>3, <1>10
  <1>12. CASE s \in {"source", "rsync"}
    BY <1>1, <1>2, <1>12, UptoValue
  <1> QED
    BY <1>1, <1>2, <1>6, <1>7, <1>8, <1>9, <1>10, <1>11, <1>12 DEF Step, InstallStep

-----------------------------------------------------------------------------
(* What the actions do.                                                    *)

\* The recipes that leave a product, and those that remove.
Making(p) ==
    \/ Download(p) \/ Extract(p) \/ Rsync(p) \/ Patch(p) \/ Configure(p) \/ Build(p)
    \/ \E s \in InstallStep : Install(p, s)
    \/ XPackage(p) \/ XPkg(p)

Removing(p) ==
    Clear(p) \/ ClearConfigure(p) \/ Uninstall(p) \/ Clean(p) \/ Dirclean(p)

\* The version of what step s of p makes its product from.
Input(p, s) ==
    IF s \in {"source", "rsync"} THEN edit[p]
    ELSE IF s = "extract" THEN have[p]["source"]
    ELSE IF s \in {"patch", "configure", "build"} THEN Tree(p)
    ELSE IF s = "target" THEN have[p]["xpackage"]
    ELSE have[p]["build"]

\* Recipe s of p deals with what opkg-cl has taken for installed: only a package
\* it is given is added, and one that is packed again is dropped.
Keeps(p, s) ==
    /\ \A q \in Pkg \ {p} : q \in kept' <=> q \in kept
    /\ s \notin {"xpackage", "target"} => kept' = kept
    /\ s = "xpackage" => p \notin kept'

\* Step s of p leaves version v of its product, and its stamp if it has one.
Made(p, s, v) ==
    /\ Ran(p, s) /\ v \in Nat
    /\ v = Input(p, s) \/ (s = "target" /\ p \in kept')
    /\ Keeps(p, s)
    /\ \A q \in Pkg : \A r \in Step :
          have'[q][r] = IF q = p /\ r = s THEN v ELSE have[q][r]
    /\ \A q \in Pkg : stamps[q] \subseteq stamps'[q]
    /\ \A q \in Pkg \ {p} : stamps'[q] = stamps[q]
    /\ stamps'[p] \subseteq stamps[p] \cup {s}
    /\ s \notin AlwaysRun => s \in stamps'[p]

\* Every recipe that leaves a product is of this form.
LEMMA MakingEffect ==
    ASSUME TypeOK, NEW p \in Pkg, Making(p)
    PROVE  \E s \in Step, v \in Nat : Made(p, s, v)
  <1>1. \A r \in Step : have[p][r] \in Nat
    BY DEF TypeOK, MaybeVersion
  <1>2. \A s \in Step : Input(p, s) \in Nat
    BY <1>1 DEF Input, Tree, SourceStep, Step, TypeOK, Version
  <1>3. ASSUME NEW s \in Step, NEW v \in Nat, Ran(p, s), Leave(p, s, v),
               Touch(p, s) \/ (s \in AlwaysRun /\ UNCHANGED stamps),
               v = Input(p, s) \/ (s = "target" /\ p \in kept'), Keeps(p, s)
        PROVE  \E r \in Step, w \in Nat : Made(p, r, w)
    <2>1. \A q \in Pkg : \A r \in Step :
              have'[q][r] = IF q = p /\ r = s THEN v ELSE have[q][r]
      BY <1>3 DEF Leave, TypeOK
    <2>2. /\ \A q \in Pkg : stamps[q] \subseteq stamps'[q]
          /\ \A q \in Pkg \ {p} : stamps'[q] = stamps[q]
          /\ stamps'[p] \subseteq stamps[p] \cup {s}
          /\ s \notin AlwaysRun => s \in stamps'[p]
      BY <1>3 DEF Touch, TypeOK
    <2> QED BY <1>3, <2>1, <2>2 DEF Made
  <1>4. CASE Download(p)
    BY <1>4, <1>2, <1>3 DEF Download, Input, Keeps, Step
  <1>5. CASE Extract(p)
    BY <1>5, <1>2, <1>3 DEF Extract, Input, Keeps, Step
  <1>6. CASE Rsync(p)
    BY <1>6, <1>2, <1>3 DEF Rsync, Input, Keeps, Step
  <1>7. CASE Patch(p)
    BY <1>7, <1>2, <1>3 DEF Patch, Input, Keeps, Step
  <1>8. CASE Configure(p)
    BY <1>8, <1>2, <1>3 DEF Configure, Input, Keeps, Step
  <1>9. CASE Build(p)
    BY <1>9, <1>2, <1>3 DEF Build, Input, Keeps, Step
  <1>10. CASE \E s \in InstallStep : Install(p, s)
    <2> PICK s \in {"host", "staging", "images"} : Install(p, s)
      BY <1>10 DEF Install
    <2>1. /\ Ran(p, s) /\ Leave(p, s, have[p]["build"]) /\ Touch(p, s) /\ Keeps(p, s)
          /\ s \in Step /\ have[p]["build"] = Input(p, s)
      BY DEF Install, Input, Keeps, Step, InstallStep
    <2> QED BY <2>1, <1>2, <1>3
  <1>11. CASE XPackage(p)
    <2>1. /\ Ran(p, "xpackage") /\ Leave(p, "xpackage", Input(p, "xpackage"))
          /\ UNCHANGED stamps /\ Keeps(p, "xpackage")
      BY <1>11 DEF XPackage, Input, Keeps
    <2>2. "xpackage" \in Step \cap AlwaysRun
      BY DEF Step, AlwaysRun
    <2> QED BY <2>1, <2>2, <1>2, <1>3
  <1>12. CASE XPkg(p)
    <2>1. Ran(p, "target") /\ Touch(p, "target") /\ "target" \in Step
      BY <1>12 DEF XPkg, Step, InstallStep
    <2>2. CASE Leave(p, "target", have[p]["xpackage"]) /\ kept' = kept \ {p}
      <3>1. Leave(p, "target", Input(p, "target")) /\ Keeps(p, "target")
        BY <2>2 DEF Input, Keeps
      <3> QED BY <2>1, <3>1, <1>2, <1>3
    <2>3. CASE UNCHANGED have /\ kept' = kept \cup {p}
      <3>1. /\ Leave(p, "target", have[p]["target"]) /\ have[p]["target"] \in Nat
            /\ Keeps(p, "target") /\ p \in kept'
        BY <2>1, <2>3, <1>1 DEF Leave, Keeps, TypeOK
      <3> QED BY <2>1, <3>1, <1>3
    <2> QED BY <1>12, <2>2, <2>3 DEF XPkg
  <1> QED
    BY <1>4, <1>5, <1>6, <1>7, <1>8, <1>9, <1>10, <1>11, <1>12 DEF Making

\* What an installation has been given changes with its own recipe, and with the
\* packing of the .opk.
LEMMA MadeGot ==
    ASSUME TypeOK, NEW p \in Pkg, NEW s \in Step, NEW v \in Nat, Made(p, s, v)
    PROVE  /\ Got(p, s)' = Input(p, s)
           /\ \A q \in Pkg : \A r \in Step :
                 <<q, r>> # <<p, s>> /\ (q = p /\ r = "target" => s # "xpackage") =>
                     Got(q, r)' = Got(q, r)
  <1>1. "xpackage" \in Step
    BY DEF Step
  <1>2. \A q \in Pkg : \A r \in Step :
            have'[q][r] = IF q = p /\ r = s THEN v ELSE have[q][r]
    BY DEF Made
  <1>3. Got(p, s)' = Input(p, s)
    <2>1. CASE s = "target"
      BY <1>1, <1>2, <2>1 DEF Got, Input, Made
    <2>2. CASE s # "target"
      BY <1>2, <2>2 DEF Got, Made
    <2> QED BY <2>1, <2>2
  <1>4. ASSUME NEW q \in Pkg, NEW r \in Step, <<q, r>> # <<p, s>>,
               q = p /\ r = "target" => s # "xpackage"
        PROVE  Got(q, r)' = Got(q, r)
    <2>1. have'[q][r] = have[q][r]
      BY <1>2, <1>4
    <2>2. CASE r = "target"
      <3>1. (q \in kept' <=> q \in kept) /\ have'[q]["xpackage"] = have[q]["xpackage"]
        BY <1>1, <1>2, <1>4, <2>2 DEF Made, Keeps
      <3> QED BY <2>1, <3>1 DEF Got
    <2>3. CASE r # "target"
      BY <2>1, <2>3 DEF Got
    <2> QED BY <2>2, <2>3
  <1> QED BY <1>3, <1>4

\* The stamps that a removal takes.
TakenBy(s) ==
    IF s = "clear" THEN Clearable
    ELSE IF s = "clear_configure" THEN {"configure"}
    ELSE IF s = "uninstall" THEN {"staging", "target", "xpackage"}
    ELSE IF s = "clean" THEN {"build"}
    ELSE Step

\* Removal s of p takes away stamps and products of p and nothing else.
Removed(p, s) ==
    /\ Ran(p, s)
    /\ \A q \in Pkg : stamps'[q] \subseteq stamps[q]
    /\ \A q \in Pkg \ {p} : stamps'[q] = stamps[q] /\ have'[q] = have[q]
    /\ \A r \in Step : have'[p][r] \in {have[p][r], Absent}
    /\ \A r \in stamps'[p] : have'[p][r] = have[p][r]
    /\ s \in {"clear", "clear_configure"} => have' = have /\ kept' = kept
    /\ stamps'[p] = stamps[p] \ TakenBy(s)
    /\ kept' \in {kept, kept \ {p}}
    /\ have'[p]["xpackage"] = have[p]["xpackage"]

\* Every recipe that removes is of this form.
LEMMA RemovingEffect ==
    ASSUME TypeOK, NEW p \in Pkg, Removing(p)
    PROVE  \E s \in Removal : Removed(p, s)
  <1>1. \A q \in Pkg : stamps[q] \subseteq Step
    BY DEF TypeOK
  <1>2. CASE Clear(p)
    <2>1. Removed(p, "clear")
      BY <1>2 DEF Clear, Removed, TakenBy, TypeOK
    <2> QED BY <2>1 DEF Removal
  <1>3. CASE ClearConfigure(p)
    <2>1. Removed(p, "clear_configure")
      BY <1>3 DEF ClearConfigure, Removed, TakenBy, TypeOK
    <2> QED BY <2>1 DEF Removal
  <1>4. CASE Uninstall(p)
    <2> PICK gone \in SUBSET {"staging", "target"} : Uninstalled(p, gone)
      BY <1>4 DEF Uninstall
    <2>1. /\ \A q \in Pkg : stamps'[q] = IF q = p THEN stamps[p] \ {"staging", "target", "xpackage"}
                                                   ELSE stamps[q]
          /\ \A q \in Pkg \ {p} : have'[q] = have[q]
          /\ \A r \in Step : have'[p][r] = IF r \in gone THEN Absent ELSE have[p][r]
      BY DEF Uninstalled, TypeOK
    <2>2. \A r \in stamps'[p] : have'[p][r] = have[p][r]
      BY <2>1, <1>1
    <2>3. have'[p]["xpackage"] = have[p]["xpackage"] /\ kept' = kept \ {p}
      BY <2>1 DEF Uninstalled, Step
    <2>4. Removed(p, "uninstall")
      BY <1>4, <2>1, <2>2, <2>3 DEF Uninstall, Removed, TakenBy
    <2> QED BY <2>4 DEF Removal
  <1>5. CASE Clean(p)
    <2>1. /\ \A q \in Pkg : stamps'[q] = IF q = p THEN stamps[p] \ {"build"} ELSE stamps[q]
          /\ \A q \in Pkg \ {p} : have'[q] = have[q]
          /\ \A r \in Step : have'[p][r] = have[p][r] \/ (r = "build" /\ have'[p][r] = Absent)
      BY <1>5 DEF Clean, Leave, TypeOK
    <2>2. \A r \in stamps'[p] : have'[p][r] = have[p][r]
      BY <2>1, <1>1
    <2>3. have'[p]["xpackage"] = have[p]["xpackage"]
      BY <2>1 DEF Step
    <2>4. Removed(p, "clean")
      BY <1>5, <2>1, <2>2, <2>3 DEF Clean, Removed, TakenBy
    <2> QED BY <2>4 DEF Removal
  <1>6. CASE Dirclean(p)
    <2>1. /\ \A q \in Pkg : stamps'[q] = IF q = p THEN {} ELSE stamps[q]
          /\ \A q \in Pkg \ {p} : have'[q] = have[q]
          /\ \A r \in Step : have'[p][r] \in {have[p][r], Absent}
      BY <1>6 DEF Dirclean, TypeOK
    <2>3. have'[p]["xpackage"] = have[p]["xpackage"]
      BY <1>6 DEF Dirclean, TypeOK, Step, InBuildDir
    <2>4. Removed(p, "dirclean")
      BY <1>1, <1>6, <2>1, <2>3 DEF Dirclean, Removed, TakenBy
    <2> QED BY <2>4 DEF Removal
  <1> QED BY <1>2, <1>3, <1>4, <1>5, <1>6 DEF Removing

\* A failing recipe leaves stamps and products alone, except that its own
\* product may be left half-made, and the removals may stop half-way.
LEMMA FailureEffect ==
    ASSUME TypeOK, NEW p \in Pkg, Failure(p)
    PROVE  /\ Exits("failed") /\ fails' = fails + 1
           /\ \A q \in Pkg : stamps'[q] \subseteq stamps[q]
           /\ \A q \in Pkg : \A r \in Step : have'[q][r] \in {have[q][r], Absent}
           /\ \/ /\ \A q \in Pkg : \A r \in stamps'[q] \ AlwaysRun : have'[q][r] = have[q][r]
                 /\ \A q \in Pkg : stamps'[q] = stamps[q]
                                      \/ stamps'[q] = stamps[q] \ {"staging", "target", "xpackage"}
              \/ ClearFails(p) /\ have' = have
              \/ CleanFails(p) /\ \A q \in Pkg : \A r \in Step \ {"build"} : have'[q][r] = have[q][r]
           /\ kept' \subseteq kept
           /\ \A q \in Pkg : q \in kept' => have'[q]["xpackage"] = have[q]["xpackage"]
  <1> USE DEF Fails
  <1>1. \A q \in Pkg : stamps[q] \subseteq Step
    BY DEF TypeOK
  <1>2. ASSUME NEW s \in Step, Runs(p, s), UNCHANGED stamps,
               Leave(p, s, Absent) \/ UNCHANGED have
        PROVE  /\ \A q \in Pkg : \A r \in Step : have'[q][r] \in {have[q][r], Absent}
               /\ \A q \in Pkg : \A r \in stamps'[q] \ AlwaysRun : have'[q][r] = have[q][r]
    <2>1. \A q \in Pkg : \A r \in Step :
              have'[q][r] = have[q][r] \/ (q = p /\ r = s /\ have'[q][r] = Absent)
      BY <1>2 DEF Leave, TypeOK
    <2>2. s \in AlwaysRun \/ s \notin stamps[p]
      BY <1>2 DEF Runs
    <2> QED BY <1>1, <1>2, <2>1, <2>2
  <1>3. CASE \E s \in Step : StepFails(p, s)
    <2> PICK s \in Step : StepFails(p, s)
      BY <1>3
    <2>1. /\ kept' \subseteq kept
          /\ \A q \in Pkg : q \in kept' => have'[q]["xpackage"] = have[q]["xpackage"]
      BY DEF StepFails, Leave, TypeOK, Step
    <2> QED BY <1>2, <2>1 DEF StepFails
  <1>4. CASE PatchFails(p)
    <2>1. \A q \in Pkg : have'[q]["xpackage"] = have[q]["xpackage"]
      BY <1>4 DEF PatchFails, Leave, TypeOK, Step
    <2> QED BY <1>2, <1>4, <2>1 DEF PatchFails, Step
  <1>5. CASE ClearFails(p)
    BY <1>5 DEF ClearFails, TypeOK
  <1>6. CASE UninstallFails(p)
    <2> PICK gone \in SUBSET {"staging", "target"} : Uninstalled(p, gone)
      BY <1>6 DEF UninstallFails
    <2>1. /\ \A q \in Pkg : stamps'[q] = IF q = p THEN stamps[p] \ {"staging", "target", "xpackage"}
                                                   ELSE stamps[q]
          /\ \A q \in Pkg : \A r \in Step :
                have'[q][r] = IF q = p /\ r \in gone THEN Absent ELSE have[q][r]
          /\ kept' = kept \ {p}
      BY DEF Uninstalled, TypeOK
    <2>2. \A q \in Pkg : have'[q]["xpackage"] = have[q]["xpackage"]
      BY <2>1 DEF Step
    <2> QED BY <1>1, <1>6, <2>1, <2>2 DEF UninstallFails
  <1>7. CASE CleanFails(p)
    <2>1. \A q \in Pkg : have'[q]["xpackage"] = have[q]["xpackage"]
      BY <1>7 DEF CleanFails, Leave, TypeOK, Step
    <2> QED BY <1>7, <2>1 DEF CleanFails, Leave, TypeOK
  <1> QED BY <1>3, <1>4, <1>5, <1>6, <1>7 DEF Failure

\* The steps of make and of the developer, by what they do.
LEMMA NextEffect ==
    ASSUME TypeOK, [Next]_vars
    PROVE  \/ /\ UNCHANGED <<files, make, fails>>
              /\ edit' = edit \/ \E p \in Pkg : Edit(p)
           \/ Finish
           \/ MakeClean
           \/ UNCHANGED files /\ Exits("failed")
                 /\ (Interrupt \/ \E p \in Pkg : PatchRejected(p) \/ OpkgMissing(p))
           \/ \E p \in Pkg : Making(p)
           \/ \E p \in Pkg : Removing(p)
           \/ \E p \in Pkg, s \in Step : UpToDate(p, s)
           \/ \E p \in Pkg : Failure(p)
           \/ \E p \in Pkg, s \in Step : RemoveStamp(p, s)
           \/ \E g \in Goal, p \in Pkg \cup {NoPkg} : Start(g, p)
  <1>1. CASE UNCHANGED vars
    BY <1>1 DEF vars
  <1>2. CASE \E p \in Pkg : Recipe(p)
    BY <1>2 DEF Recipe, Making, Removing, PatchRejected, OpkgMissing
  <1>3. CASE \E p \in Pkg : Edit(p)
    BY <1>3 DEF Edit
  <1>4. CASE Interrupt
    BY <1>4 DEF Interrupt
  <1> QED BY <1>1, <1>2, <1>3, <1>4 DEF Next, Running
-----------------------------------------------------------------------------
(* make deals with its tasks in order.                                     *)

OrderInv == DealtInOrder /\ DealtStamped

\* A task is dealt with only when nothing that comes before it is left to do.
LEMMA DealtGrows ==
    ASSUME DealtInOrder, NEW p, NEW s, CanDo(p, s),
           todo' = todo \ {<<p, s>>}, UNCHANGED <<goal, subject, result>>
    PROVE  /\ DealtInOrder' /\ result = "running"
           /\ Dealt' = Dealt \cup {<<p, s>>}
  <1>1. <<p, s>> \in Plan[goal][subject]
    BY DEF CanDo, DealtInOrder
  <1>2. Dealt' = Dealt \cup {<<p, s>>}
    BY <1>1 DEF Dealt, CanDo
  <1> QED BY <1>2 DEF DealtInOrder, CanDo

\* -rebuild removes stamps before make has dealt with any step at all; the
\* other removals concern a package none of whose installations is wanted.
LEMMA RemovalTasks ==
    ASSUME TypeOK, DealtInOrder, NEW p \in Pkg, NEW s \in Removal, CanDo(p, s)
    PROVE  /\ s \in {"clear", "clear_configure"} =>
                 \A r \in Step, q \in Pkg : <<q, r>> \notin Dealt
           /\ s \in {"uninstall", "clean"} =>
                 \A r \in {"build", "xpackage"} \cup InstallStep : <<p, r>> \notin Dealt
           /\ s = "dirclean" => \A r \in Step : <<p, r>> \notin Dealt
           /\ s \in {"clear", "clear_configure"} =>
                 p = subject /\ goal \in {"rebuild", "reconfigure"}
           /\ s \in {"uninstall", "clean", "dirclean"} => goal = s \/ goal = "clean"
  <1>1. <<p, s>> \in Wanted(goal, subject) /\ <<p, s>> \in todo
    BY PlanNow DEF CanDo, DealtInOrder
  <1>2. s \notin Step
    BY DEF Removal, Step, InstallStep
  <1>3. \A P : ~TaskOf(P, <<p, s>>)
    BY <1>2, StepsType DEF TaskOf
  <1>4. \A r : Upto(p, r) \subseteq Step /\ Upto(subject, r) \subseteq AllSteps(subject)
    BY StepsType DEF Upto
  <1>5. AllSteps(subject) \subseteq Step
    BY DEF AllSteps, BuildSteps, PrepSteps, Installs, Step, InstallStep
  <1>6. CASE s \in {"clear", "clear_configure"}
    <2>1. \A q, r : r \in Step => Precedes(goal, <<p, s>>, <<q, r>>)
      BY <1>6 DEF Precedes
    <2>2. p = subject /\ goal \in {"rebuild", "reconfigure"}
      BY <1>1, <1>2, <1>3, <1>4, <1>5, <1>6 DEF Wanted
    <2> QED BY <2>1, <2>2, <1>1, <1>6 DEF DealtInOrder
  <1>7. CASE s \in {"uninstall", "clean"}
    <2>1. p = subject /\ goal \in {"uninstall", "clean"} /\ (s = "clean" => goal = "clean")
      BY <1>1, <1>2, <1>3, <1>4, <1>5, <1>7 DEF Wanted
    <2>2. ASSUME NEW r \in {"build", "xpackage"} \cup InstallStep
          PROVE  <<p, r>> \notin Wanted(goal, subject)
      <3>1. p \notin Needs(Deps[p])
        BY AcyclicAssumption
      <3>2. ~TaskOf(Needs(Deps[p]), <<p, r>>)
        BY <3>1 DEF TaskOf
      <3>3. r \notin Upto(p, "configure")
        BY DEF Upto, BuildSteps, PrepSteps, InstallStep
      <3> QED BY <2>1, <3>2, <3>3 DEF Wanted, WorldGoal, LastStep, Step, InstallStep
    <2> QED BY <1>7, <2>1, <2>2, PlanNow DEF Dealt
  <1>8. CASE s = "dirclean"
    <2>1. goal = "dirclean"
      BY <1>1, <1>2, <1>3, <1>4, <1>5, <1>8 DEF Wanted
    <2>2. \A r \in Step : <<p, r>> \notin Wanted(goal, subject)
      BY <2>1 DEF Wanted, WorldGoal, LastStep, Step, InstallStep
    <2> QED BY <1>8, <2>1, <2>2, PlanNow DEF Dealt
  <1> QED BY <1>6, <1>7, <1>8 DEF Removal

\* A make that ends has nothing left to deal with.
LEMMA ExitsInOrder ==
    ASSUME NEW r \in {"ok", "failed"}, Exits(r)
    PROVE  OrderInv'
  BY DEF Exits, OrderInv, DealtInOrder, DealtStamped, Dealt

\* A removal takes stamps away only from tasks not dealt with.
LEMMA RemovalSpares ==
    ASSUME TypeOK, OrderInv, NEW p \in Pkg, NEW s \in Removal, Removed(p, s)
    PROVE  \A q \in Pkg : \A r \in Step \ AlwaysRun :
               r \in stamps[q] /\ <<q, r>> \in Dealt => r \in stamps'[q]
  <1>1. CanDo(p, s)
    BY DEF Removed, Ran, Runs
  <1>2. CASE s \in {"clear", "clear_configure", "dirclean"}
    BY <1>1, <1>2, RemovalTasks DEF OrderInv, Removed
  <1>3. CASE s \in {"uninstall", "clean"}
    <2>1. /\ \A r \in {"build", "xpackage"} \cup InstallStep : <<p, r>> \notin Dealt
          /\ \A q \in Pkg \ {p} : stamps'[q] = stamps[q]
          /\ \/ stamps'[p] = stamps[p] \ {"staging", "target", "xpackage"}
             \/ stamps'[p] = stamps[p] \ {"build"}
      BY <1>1, <1>3, RemovalTasks DEF OrderInv, Removed, TakenBy
    <2> QED BY <2>1 DEF InstallStep
  <1> QED BY <1>2, <1>3 DEF Removal

\* The order of the tasks is kept by every step of make and of the developer.
LEMMA OrderStep ==
    ASSUME TypeOK, OrderInv, [Next]_vars
    PROVE  OrderInv'
  <1>1. CASE UNCHANGED <<files, make, fails>>
    BY <1>1 DEF files, make, OrderInv, DealtInOrder, DealtStamped, Dealt
  <1>2. CASE \E r \in {"ok", "failed"} : Exits(r)
    BY <1>2, ExitsInOrder
  <1>3. ASSUME NEW p \in Pkg, Making(p)
        PROVE  OrderInv'
    <2> PICK s \in Step, v \in Nat : Made(p, s, v)
      BY <1>3, MakingEffect
    <2>1. /\ CanDo(p, s) /\ todo' = todo \ {<<p, s>>} /\ UNCHANGED <<goal, subject, result>>
      BY DEF Made, Ran, Runs
    <2>2. DealtInOrder' /\ Dealt' = Dealt \cup {<<p, s>>}
      BY <2>1, DealtGrows DEF OrderInv
    <2>3. /\ \A q \in Pkg : stamps[q] \subseteq stamps'[q]
          /\ s \notin AlwaysRun => s \in stamps'[p]
      BY DEF Made
    <2> QED BY <2>1, <2>2, <2>3 DEF OrderInv, DealtStamped
  <1>4. ASSUME NEW p \in Pkg, Removing(p)
        PROVE  OrderInv'
    <2> PICK s \in Removal : Removed(p, s)
      BY <1>4, RemovingEffect
    <2>1. /\ CanDo(p, s) /\ todo' = todo \ {<<p, s>>} /\ UNCHANGED <<goal, subject, result>>
      BY DEF Removed, Ran, Runs
    <2>2. DealtInOrder' /\ Dealt' = Dealt \cup {<<p, s>>}
      BY <2>1, DealtGrows DEF OrderInv
    <2>3. s \notin Step
      BY DEF Removal, Step, InstallStep
    <2> QED BY <2>1, <2>2, <2>3, RemovalSpares DEF OrderInv, DealtStamped
  <1>5. ASSUME NEW p \in Pkg, NEW s \in Step, UpToDate(p, s)
        PROVE  OrderInv'
    <2>1. /\ CanDo(p, s) /\ s \in stamps[p] /\ todo' = todo \ {<<p, s>>}
          /\ UNCHANGED <<stamps, goal, subject, result>>
      BY <1>5 DEF UpToDate, files
    <2>2. DealtInOrder' /\ Dealt' = Dealt \cup {<<p, s>>}
      BY <2>1, DealtGrows DEF OrderInv
    <2> QED BY <2>1, <2>2 DEF OrderInv, DealtStamped
  <1>6. ASSUME NEW p \in Pkg, NEW s \in Step, RemoveStamp(p, s)
        PROVE  OrderInv'
    BY <1>6 DEF RemoveStamp, make, OrderInv, DealtInOrder, DealtStamped, Dealt
  <1>7. ASSUME NEW g \in Goal, NEW p \in Pkg \cup {NoPkg}, Start(g, p)
        PROVE  OrderInv'
    <2>1. Dealt' = {} /\ todo' \subseteq Plan'[goal'][subject'] /\ result' = "running"
      BY <1>7 DEF Start, Dealt
    <2> QED BY <2>1 DEF OrderInv, DealtInOrder, DealtStamped
  <1>8. CASE Finish \/ MakeClean
    BY <1>2, <1>8 DEF Finish, MakeClean
  <1>9. CASE \E p \in Pkg : Failure(p)
    BY <1>2, <1>9, FailureEffect
  <1> QED BY <1>1, <1>2, <1>3, <1>4, <1>5, <1>6, <1>7, <1>8, <1>9, NextEffect

\* make works on what the goal wants and on nothing else, in the order of the
\* prerequisite lists, and what it has dealt with has its stamp: whatever
\* recipe fails, and wherever a removal stops.
THEOREM OrderCorrect == Spec => []OrderInv
  <1>1. Init => OrderInv
    BY DEF Init, OrderInv, DealtInOrder, DealtStamped
  <1>2. TypeOK /\ OrderInv /\ [Next]_vars => OrderInv'
    BY OrderStep
  <1> QED BY <1>1, <1>2, TypeCorrect, PTL DEF Spec
-----------------------------------------------------------------------------
(* Stamps.                                                                 *)

\* What the stamps rest on: every <pkg>-clean-for-rebuild and every CLEAN_CMDS
\* runs to its end.
StampAssumption == {"clear", "clean"} \cap Fallible = {}

\* When make comes to a step, the steps that lead to it have their stamps.
LEMMA LeadersStamped ==
    ASSUME TypeOK, StampInv, NEW p \in Pkg, NEW s \in Step,
           CanDo(p, s) \/ (result = "running" /\ <<p, s>> \in Dealt)
    PROVE  /\ result = "running" /\ s \in AllSteps(p)
           /\ \A r \in Upto(p, s) \ ({s} \cup AlwaysRun) :
                 r \in stamps[p] /\ have[p][r] # Absent
  <1>1. result = "running"
    BY DEF StampInv, DealtInOrder, CanDo
  <1>2. /\ s \in AllSteps(p)
        /\ \A r \in Upto(p, s) \ {s} : <<p, r>> \in Dealt
    BY <1>1, LeadersDealt DEF StampInv
  <1>3. Upto(p, s) \subseteq Step
    BY StepsType
  <1> QED BY <1>1, <1>2, <1>3 DEF StampInv, DealtStamped, StampMeansDone

\* The tree a step works on is there, under its stamp.
LEMMA TreeReady ==
    ASSUME TypeOK, StampInv, NEW p \in Pkg,
           NEW s \in {"patch", "configure", "build", "host", "staging", "images"},
           CanDo(p, s)
    PROVE  SourceStep(p) \in stamps[p] /\ Tree(p) # Absent
  <1>1. /\ s \in AllSteps(p)
        /\ \A r \in Upto(p, s) \ ({s} \cup AlwaysRun) :
              r \in stamps[p] /\ have[p][r] # Absent
    BY LeadersStamped DEF Step, InstallStep
  <1>2. SourceStep(p) \in Upto(p, s) \ ({s} \cup AlwaysRun)
    BY <1>1, UptoValue
       DEF SourceStep, AllSteps, BuildSteps, PrepSteps, Installs, AlwaysRun, Removal
  <1> QED BY <1>1, <1>2 DEF Tree

\* What is installed was compiled from the tree: the stamp of the build says so.
LEMMA BuildReady ==
    ASSUME TypeOK, StampInv, NEW p \in Pkg,
           NEW s \in {"host", "staging", "images", "xpackage", "target"},
           CanDo(p, s) \/ (result = "running" /\ <<p, s>> \in Dealt)
    PROVE  /\ "build" \in stamps[p] /\ have[p]["build"] # Absent
           /\ have[p]["build"] = Tree(p)
  <1>1. /\ s \in AllSteps(p)
        /\ \A r \in Upto(p, s) \ ({s} \cup AlwaysRun) :
              r \in stamps[p] /\ have[p][r] # Absent
    BY LeadersStamped DEF Step, InstallStep
  <1>2. "build" \in Upto(p, s) \ ({s} \cup AlwaysRun)
    BY <1>1, UptoValue DEF BuildSteps, AlwaysRun, Removal
  <1> QED BY <1>1, <1>2 DEF StampInv, StampMeansFresh

\* The input of a step whose stamp means something is there.
LEMMA InputReady ==
    ASSUME TypeOK, StampInv, NEW p \in Pkg, NEW s \in Step \ AlwaysRun, CanDo(p, s)
    PROVE  Input(p, s) # Absent
  <1>1. CASE s \in {"source", "rsync"}
    BY <1>1 DEF Input, TypeOK, Version, Absent
  <1>2. CASE s = "extract"
    <2>1. "source" \in Upto(p, s) \ ({s} \cup AlwaysRun)
      <3>1. s \in AllSteps(p) /\ s \in Step
        BY LeadersStamped
      <3>2. Upto(p, s) = {"source", "extract"}
        BY <1>2, <3>1, UptoValue
      <3> QED BY <1>2, <3>2 DEF AlwaysRun, Removal
    <2> QED BY <1>2, <2>1, LeadersStamped DEF Input
  <1>3. CASE s \in {"patch", "configure", "build"}
    BY <1>3, TreeReady DEF Input
  <1>4. CASE s \in {"host", "staging", "images"}
    BY <1>4, BuildReady DEF Input
  <1> QED BY <1>1, <1>2, <1>3, <1>4 DEF Step, InstallStep, AlwaysRun

\* A recipe that leaves a product keeps the three invariants of the stamps.
LEMMA MakingStamped ==
    ASSUME TypeOK, StampInv, NEW p \in Pkg, Making(p)
    PROVE  StampMeansDone' /\ StampMeansFresh' /\ SourceFirst'
  <1> PICK s \in Step, v \in Nat : Made(p, s, v)
    BY MakingEffect
  <1>1. CanDo(p, s) /\ (s \in AlwaysRun \/ s \notin stamps[p])
    BY DEF Made, Ran, Runs
  <1>2. s \notin AlwaysRun => v = Input(p, s) /\ v # Absent
    BY <1>1, InputReady DEF Made, AlwaysRun
  <1>3. s \in {"build", "host", "staging", "images"} => v = Tree(p) /\ SourceStep(p) \in stamps[p]
    BY <1>1, <1>2, BuildReady, TreeReady DEF Input, AlwaysRun, Removal
  <1>4. /\ \A q \in Pkg : stamps[q] \subseteq stamps'[q]
        /\ \A q \in Pkg \ {p} : stamps'[q] = stamps[q]
        /\ stamps'[p] \subseteq stamps[p] \cup {s}
        /\ \A q \in Pkg : \A r \in Step :
              have'[q][r] = IF q = p /\ r = s THEN v ELSE have[q][r]
    BY DEF Made
  <1>5. StampMeansDone'
    BY <1>2, <1>4 DEF StampInv, StampMeansDone, TypeOK
  <1>6. \A q \in Pkg : SourceStep(q) \in Step /\ SourceStep(q) \in {"extract", "rsync"}
    BY DEF SourceStep, Step
  <1>7. SourceFirst'
    BY <1>3, <1>4 DEF StampInv, SourceFirst, SourceStep
  <1>8. s = SourceStep(p) => stamps'[p] \cap {"build", "host", "staging", "images"} = {}
    BY <1>1, <1>4, <1>6 DEF StampInv, SourceFirst, AlwaysRun, Removal
  <1>9. \A q \in Pkg : ~(q = p /\ s = SourceStep(p)) => Tree(q)' = Tree(q)
    BY <1>4, <1>6 DEF Tree, SourceStep
  <1>10. StampMeansFresh'
    <2> SUFFICES ASSUME NEW q \in Pkg,
                        NEW r \in stamps'[q] \cap {"build", "host", "staging", "images"}
                 PROVE  have'[q][r] = Tree(q)'
      BY DEF StampMeansFresh
    <2>1. r \in Step
      BY DEF Step, InstallStep
    <2>2. ~(q = p /\ s = SourceStep(p))
      BY <1>8
    <2>3. CASE q = p /\ r = s
      BY <2>3, <2>1, <2>2, <1>3, <1>4, <1>9
    <2>4. CASE ~(q = p /\ r = s)
      BY <2>4, <2>1, <2>2, <1>4, <1>9 DEF StampInv, StampMeansFresh
    <2> QED BY <2>3, <2>4
  <1> QED BY <1>5, <1>7, <1>10

\* Removing stamps, and products that have no stamp, does no harm as long as
\* the stamp of the source tree is not removed from under the others.
LEMMA StampsRemoved ==
    ASSUME TypeOK, StampInv,
           \A q \in Pkg : stamps'[q] \subseteq stamps[q],
           \A q \in Pkg : \A r \in stamps'[q] \ AlwaysRun : have'[q][r] = have[q][r],
           \A q \in Pkg : stamps'[q] \cap {"build", "host", "staging", "images"} # {}
                             => SourceStep(q) \in stamps'[q]
    PROVE  StampMeansDone' /\ StampMeansFresh' /\ SourceFirst'
  <1>1. StampMeansDone'
    BY DEF StampInv, StampMeansDone
  <1>2. SourceFirst'
    BY DEF SourceFirst, SourceStep
  <1>3. \A q \in Pkg : SourceStep(q) \in stamps'[q] => Tree(q)' = Tree(q)
    BY DEF SourceStep, Tree, AlwaysRun, Removal
  <1>4. StampMeansFresh'
    BY <1>3 DEF StampInv, StampMeansFresh, AlwaysRun, Removal
  <1> QED BY <1>1, <1>2, <1>4

\* ... and this is how every recipe that removes goes about it.
LEMMA RemovingStamped ==
    ASSUME TypeOK, StampInv, NEW p \in Pkg, Removing(p)
    PROVE  StampMeansDone' /\ StampMeansFresh' /\ SourceFirst'
  <1> PICK s \in Removal : Removed(p, s)
    BY RemovingEffect
  <1>1. /\ \A q \in Pkg : stamps'[q] \subseteq stamps[q]
        /\ \A q \in Pkg : \A r \in stamps'[q] : have'[q][r] = have[q][r]
        /\ \A q \in Pkg \ {p} : stamps'[q] = stamps[q]
    BY DEF Removed, TypeOK
  <1>2. stamps'[p] \in {stamps[p] \ Clearable, stamps[p] \ {"configure"}, stamps[p] \ {"build"},
                        stamps[p] \ {"staging", "target", "xpackage"}, {}}
    BY DEF Removed, TakenBy, Removal, TypeOK
  <1>3. \A q \in Pkg : stamps'[q] \cap {"build", "host", "staging", "images"} # {}
                           => SourceStep(q) \in stamps'[q]
    BY <1>1, <1>2 DEF StampInv, SourceFirst, SourceStep, Clearable
  <1> QED BY <1>1, <1>3, StampsRemoved

\* The invariant is inductive, as long as no -clean and no -clean-for-rebuild
\* stops half-way.
LEMMA StampStep ==
    ASSUME TypeOK, StampInv, [Next]_vars, \A p \in Pkg : ~ClearFails(p) /\ ~CleanFails(p)
    PROVE  StampInv'
  <1>1. OrderInv'
    BY OrderStep DEF StampInv, OrderInv
  <1> SUFFICES StampMeansDone' /\ StampMeansFresh' /\ SourceFirst'
    BY <1>1 DEF StampInv, OrderInv
  <1>2. CASE UNCHANGED <<stamps, have>>
    BY <1>2 DEF StampInv, StampMeansDone, StampMeansFresh, SourceFirst, Tree
  <1>3. CASE MakeClean
    BY <1>3 DEF MakeClean, StampMeansDone, StampMeansFresh, SourceFirst
  <1>4. CASE \E p \in Pkg : Failure(p)
    <2>1. /\ \A q \in Pkg : stamps'[q] \subseteq stamps[q]
          /\ \A q \in Pkg : \A r \in stamps'[q] \ AlwaysRun : have'[q][r] = have[q][r]
          /\ \A q \in Pkg : stamps'[q] \in {stamps[q], stamps[q] \ {"staging", "target", "xpackage"}}
      BY <1>4, FailureEffect
    <2>2. \A q \in Pkg : stamps'[q] \cap {"build", "host", "staging", "images"} # {}
                             => SourceStep(q) \in stamps'[q]
      BY <2>1 DEF StampInv, SourceFirst, SourceStep
    <2> QED BY <2>1, <2>2, StampsRemoved
  <1>5. CASE \E p \in Pkg, s \in Step : RemoveStamp(p, s)
    <2> PICK p \in Pkg, s \in Step : RemoveStamp(p, s)
      BY <1>5
    <2>1. /\ s \in ByHand /\ have' = have
          /\ \A q \in Pkg : stamps'[q] \subseteq stamps[q]
          /\ \A q \in Pkg : \A r \in stamps[q] \ {s} : r \in stamps'[q]
      BY DEF RemoveStamp, TypeOK
    <2>2. \A q \in Pkg : stamps'[q] \cap {"build", "host", "staging", "images"} # {}
                             => SourceStep(q) \in stamps'[q]
      BY <2>1, BoundAssumption DEF StampInv, SourceFirst, SourceStep, InstallStep
    <2> QED BY <2>1, <2>2, StampsRemoved
  <1>6. CASE Finish \/ (\E p \in Pkg, s \in Step : UpToDate(p, s))
                    \/ \E g \in Goal, p \in Pkg \cup {NoPkg} : Start(g, p)
    BY <1>2, <1>6 DEF Finish, UpToDate, Start, files
  <1> QED
    BY <1>2, <1>3, <1>4, <1>5, <1>6, NextEffect, MakingStamped, RemovingStamped DEF files

\* No sequence of makes, edits, failures and interruptions leaves a stamp over
\* a product that is missing or half-made, or over the objects or the
\* installation of an earlier tree; and make deals with things in their order.
THEOREM StampCorrect ==
    ASSUME StampAssumption
    PROVE  Spec => []StampInv
  <1>1. Init => StampInv
    BY DEF Init, StampInv, StampMeansDone, StampMeansFresh, SourceFirst,
           DealtInOrder, DealtStamped
  <1>2. \A p \in Pkg : ~ClearFails(p) /\ ~CleanFails(p)
    BY DEF StampAssumption, ClearFails, CleanFails, Fails
  <1>3. TypeOK /\ StampInv /\ [Next]_vars => StampInv'
    BY <1>2, StampStep
  <1> QED BY <1>1, <1>3, TypeCorrect, PTL DEF Spec

\* However often the patch step fails half-way and is retried, and whatever is
\* removed in between, a tree with the stamp of the patch step has each of the
\* package's patches exactly once.
THEOREM PatchedOnceCorrect == Spec => []PatchedOnce
  <1>1. Init => PatchedOnce
    BY DEF Init, PatchedOnce
  <1>2. TypeOK /\ PatchedOnce /\ [Next]_vars => PatchedOnce'
    <2> SUFFICES ASSUME TypeOK, PatchedOnce, [Next]_vars PROVE PatchedOnce'
      OBVIOUS
    <2>1. ASSUME UNCHANGED applied, \A q \in Pkg : "patch" \in stamps'[q] => "patch" \in stamps[q]
          PROVE  PatchedOnce'
      BY <2>1 DEF PatchedOnce
    <2>2. ASSUME NEW p \in Pkg, NEW s \in Step, s # "patch", Touch(p, s)
          PROVE  \A q \in Pkg : "patch" \in stamps'[q] => "patch" \in stamps[q]
      BY <2>2 DEF Touch, TypeOK
    <2>3. CASE UNCHANGED <<stamps, applied>>
      BY <2>3, <2>1
    <2>4. CASE MakeClean
      BY <2>4 DEF MakeClean, PatchedOnce
    <2>5. CASE \E p \in Pkg : Recipe(p)
      <3> PICK p \in Pkg : Recipe(p)
        BY <2>5
      <3>1. CASE Patch(p)
        <4>1. /\ Patches[p] \in Nat /\ applied[p] = 0
              /\ applied' = [applied EXCEPT ![p] = applied[p] + Patches[p]]
              /\ stamps' = [stamps EXCEPT ![p] = stamps[p] \cup {"patch"}]
          BY <3>1, PkgAssumption DEF Patch, Touch
        <4>2. applied'[p] = Patches[p]
          BY <4>1 DEF TypeOK
        <4>3. \A q \in Pkg \ {p} : applied'[q] = applied[q] /\ stamps'[q] = stamps[q]
          BY <4>1 DEF TypeOK
        <4> QED BY <4>2, <4>3 DEF PatchedOnce
      <3>2. CASE Dirclean(p)
        BY <3>2 DEF Dirclean, TypeOK, PatchedOnce
      <3>3. CASE \/ Download(p) \/ Extract(p) \/ Rsync(p) \/ Configure(p) \/ Build(p) \/ XPkg(p)
        BY <3>3, <2>1, <2>2
           DEF Download, Extract, Rsync, Configure, Build, XPkg, Step, InstallStep
      <3>4. CASE \E s \in InstallStep : Install(p, s)
        BY <3>4, <2>1, <2>2 DEF Install, Step, InstallStep
      <3>5. CASE Clear(p) \/ ClearConfigure(p) \/ Uninstall(p) \/ Clean(p)
        BY <3>5, <2>1 DEF Clear, ClearConfigure, Uninstall, Uninstalled, Clean, TypeOK
      <3>6. CASE XPackage(p) \/ PatchRejected(p) \/ OpkgMissing(p)
                 \/ \E s \in Step : UpToDate(p, s)
        BY <3>6, <2>3 DEF XPackage, PatchRejected, OpkgMissing, UpToDate, files
      <3> QED BY <3>1, <3>2, <3>3, <3>4, <3>5, <3>6 DEF Recipe
    <2>6. CASE \E p \in Pkg : Failure(p)
      <3> PICK p \in Pkg : Failure(p)
        BY <2>6
      <3>1. CASE PatchFails(p)
        <4>1. "patch" \notin stamps[p] /\ stamps' = stamps
          BY <3>1 DEF PatchFails, Fails, Runs, AlwaysRun, Removal
        <4>2. \A q \in Pkg \ {p} : applied'[q] = applied[q]
          BY <3>1 DEF PatchFails, TypeOK
        <4> QED BY <4>1, <4>2 DEF PatchedOnce
      <3>2. CASE (\E s \in Step : StepFails(p, s)) \/ CleanFails(p)
        BY <3>2, <2>3 DEF StepFails, CleanFails
      <3>3. CASE ClearFails(p) \/ UninstallFails(p)
        BY <3>3, <2>1 DEF ClearFails, UninstallFails, Uninstalled, TypeOK
      <3> QED BY <3>1, <3>2, <3>3 DEF Failure
    <2>7. CASE \E p \in Pkg, s \in Step : RemoveStamp(p, s)
      BY <2>7, <2>1 DEF RemoveStamp, TypeOK
    <2>8. CASE \/ UNCHANGED vars \/ Finish \/ Interrupt \/ \E p \in Pkg : Edit(p)
               \/ \E g \in Goal, p \in Pkg \cup {NoPkg} : Start(g, p)
      BY <2>8, <2>3 DEF vars, Finish, Interrupt, Edit, Start, files
    <2> QED BY <2>4, <2>5, <2>6, <2>7, <2>8 DEF Next, Running
  <1> QED BY <1>1, <1>2, TypeCorrect, PTL DEF Spec

=============================================================================
