-------------------------- MODULE DownloadProofs --------------------------
(***************************************************************************)
(* Theorems about Download, for every list of sources, any number of       *)
(* builds and any number of failures: what one build at a time never does  *)
(* to the archive, and what builds that share DL_DIR never leave behind.   *)
(***************************************************************************)
EXTENDS Download, TLAPS

AnyKind == Direct \cup Clones
PC == {"idle", "test", "fetch", "clone", "write", "move", "drop", "clean", "stamped"}

\* The sources tried are in the list, and only the builds of the situation run.
TypeInv ==
    /\ config \in Configs /\ at \in [Build -> Nat]
    /\ \A b \in Build : at[b] \in 1 .. Len(Sources(config))
    /\ file \in [Name -> {None, Whole} \cup Build]
    /\ pc \in [Build -> PC]
    /\ out \in [Build -> Name \cup {None}]
    /\ \A b \in Build \ config.builds : pc[b] = "idle"

-----------------------------------------------------------------------------
\* The list of sources holds kinds of sources and nothing else.
LEMMA SourceKinds ==
    ASSUME NEW c \in Configs
    PROVE  Sources(c) \in Seq(AnyKind)
  <1> DEFINE W == Seq(AnyKind)
  <1>1. ASSUME NEW used, NEW kind, used => kind \in AnyKind
        PROVE  Optional(used, kind) \in W
    <2>1. CASE used
      BY <1>1, <2>1 DEF Optional
    <2>2. CASE ~used
      BY <2>2 DEF Optional
    <2> QED BY <2>1, <2>2
  <1>2. Optional(c.backup, "wget") \in W
    BY <1>1 DEF AnyKind, Direct
  <1>3. Optional(c.primary # None, c.primary) \in W
    BY <1>1, DownloadAssumption DEF AnyKind, Direct
  <1>4. Optional(c.site # None, c.site) \in W
    BY <1>1, DownloadAssumption DEF AnyKind
  <1>5. <<>> \in W /\ \A s, t \in W : s \o t \in W
    OBVIOUS
  <1>6. (IF c.only THEN <<>>
         ELSE Optional(c.site # None, c.site) \o Optional(c.backup, "wget")) \in W
    BY <1>2, <1>4, <1>5
  <1> HIDE DEF W
  <1>7. Sources(c) \in W
    BY <1>3, <1>5, <1>6 DEF Sources
  <1> QED BY <1>7 DEF W

\* So each source that a build tries is of some kind.
LEMMA KindTyped ==
    ASSUME TypeInv, NEW b \in Build
    PROVE  Kind(b) \in AnyKind
  BY SourceKinds DEF TypeInv, Kind

\* Going on to the next source stays in the list, and writes no file.
LEMMA NextSourceEffect ==
    ASSUME TypeInv, NEW b \in Build, NextSource(b)
    PROVE  /\ at' \in [Build -> Nat]
           /\ \A c \in Build : at'[c] \in 1 .. Len(Sources(config))
           /\ Go(b, "test") \/ Go(b, "idle")
           /\ \A c \in Build \ {b} : at'[c] = at[c]
  <1>1. Len(Sources(config)) \in Nat
    BY SourceKinds DEF TypeInv
  <1>2. CASE at[b] < Len(Sources(config))
    <2>1. at' = [at EXCEPT ![b] = @ + 1] /\ Go(b, "test")
      BY <1>2 DEF NextSource
    <2> QED BY <1>1, <1>2, <2>1 DEF TypeInv
  <1>3. CASE ~(at[b] < Len(Sources(config)))
    BY <1>3 DEF NextSource, TypeInv
  <1> QED BY <1>2, <1>3

\* Every step is one of some build of the situation, which moves its own pc only.
LEMMA StepOfOne ==
    ASSUME TypeInv, NEW b \in Build, Start(b) \/ Step(b) \/ Crash(b) \/ Again(b)
    PROVE  /\ config' = config /\ b \in config.builds
           /\ \E where \in PC : Go(b, where)
  <1>1. pc[b] # "idle" => b \in config.builds
    BY DEF TypeInv
  <1> USE NextSourceEffect DEF PC
  <1>2. CASE Start(b)
    BY <1>2 DEF Start
  <1>3. CASE Found(b) \/ Missing(b) \/ Open(b) \/ Clone(b) \/ CloneRefused(b) \/ Pack(b)
    BY <1>1, <1>3 DEF Found, Missing, Open, Clone, CloneRefused, Pack
  <1>4. CASE Written(b) \/ Move(b) \/ Drop(b) \/ Clean(b)
    BY <1>1, <1>4 DEF Written, Move, Drop, Clean
  <1>5. CASE ConnectFails(b) \/ CloneFails(b) \/ WriteFails(b)
    BY <1>1, <1>5 DEF ConnectFails, CloneFails, WriteFails
  <1>6. CASE Crash(b) \/ Again(b)
    BY <1>1, <1>6 DEF Crash, Again
  <1> QED BY <1>2, <1>3, <1>4, <1>5, <1>6 DEF Step

LEMMA TypeStep ==
    ASSUME TypeInv, [Next]_vars
    PROVE  TypeInv'
  <1>1. CASE UNCHANGED vars
    BY <1>1 DEF vars, TypeInv, Sources, Optional
  <1>2. ASSUME NEW b \in Build, Start(b) \/ Step(b) \/ Crash(b) \/ Again(b)
        PROVE  TypeInv'
    <2>1. /\ config' = config /\ b \in config.builds
          /\ pc' \in [Build -> PC] /\ \A c \in Build \ {b} : pc'[c] = pc[c]
      BY <1>2, StepOfOne DEF Go, TypeInv
    <2>2. Sources(config)' = Sources(config)
      BY <2>1 DEF Sources, Optional
    <2>3. Len(Sources(config)) \in Nat
      BY SourceKinds DEF TypeInv
    <2>4. ASSUME at' \in [Build -> Nat],
                 \A c \in Build : at'[c] \in 1 .. Len(Sources(config)),
                 file' \in [Name -> {None, Whole} \cup Build],
                 out' \in [Build -> Name \cup {None}]
          PROVE  TypeInv'
      BY <2>1, <2>2, <2>4 DEF TypeInv
    <2> USE DEF TypeInv
    <2>5. CASE Start(b)
      BY <2>3, <2>4, <2>5 DEF Start
    <2>6. CASE Found(b) \/ Missing(b) \/ Clone(b) \/ Clean(b) \/ Again(b)
      BY <2>4, <2>6 DEF Found, Missing, Clone, Clean, Again
    <2>7. CASE CloneRefused(b) \/ ConnectFails(b) \/ CloneFails(b)
      BY <2>4, <2>7, NextSourceEffect DEF CloneRefused, ConnectFails, CloneFails
    <2>8. CASE Open(b) \/ Pack(b)
      BY <2>4, <2>8 DEF Open, Pack, Truncate, Output, Name
    <2>9. CASE Written(b)
      BY <2>4, <2>9 DEF Written
    <2>10. CASE Move(b)
      BY <2>4, <2>10 DEF Move, AfterMove, Name
    <2>11. CASE Drop(b)
      BY <2>4, <2>11, NextSourceEffect DEF Drop, AfterDrop, Name
    <2>12. CASE WriteFails(b)
      BY <2>4, <2>12, NextSourceEffect DEF WriteFails
    <2>13. CASE Crash(b)
      BY <2>4, <2>13 DEF Crash
    <2> QED BY <1>2, <2>5, <2>6, <2>7, <2>8, <2>9, <2>10, <2>11, <2>12, <2>13 DEF Step
  <1> QED BY <1>1, <1>2 DEF Next

LEMMA TypeInit == Init => TypeInv
  <1> SUFFICES ASSUME Init PROVE TypeInv
    OBVIOUS
  <1>1. config \in Configs /\ Sources(config) # <<>>
    BY DEF Init
  <1>2. Len(Sources(config)) \in Nat /\ 1 <= Len(Sources(config))
    BY <1>1, SourceKinds
  <1> QED BY <1>1, <1>2 DEF Init, TypeInv, PC, Name

-----------------------------------------------------------------------------
(* One build at a time, and failures that leave nothing but a temporary      *)
(* file.                                                                     *)

Writing(b) == pc[b] = "write" /\ Kind(b) # "wget"

\* The archive is not there while the recipe looks for a source, whole when it
\* has left the last one, and in between only what a lone build writes to it.
LoneState(b) ==
    /\ pc[b] \in {"fetch", "clone"} => file["archive"] = None
    /\ pc[b] = "clone" => Kind(b) \in Clones
    /\ pc[b] = "write" =>
          /\ out[b] = Output(b) /\ file[Output(b)] = b
          /\ Kind(b) # "wget" => at[b] \notin config.down
    /\ pc[b] = "move" => file["tmp"] = Whole
    /\ pc[b] \in {"stamped", "clean"} => file["archive"] = Whole

LoneInv ==
    Alone /\ Harmless =>
        /\ \A b \in config.builds : LoneState(b)
        /\ file["archive"] \in {None, Whole} \/ \E b \in config.builds : Writing(b)

\* What can stop half-way is then wget, and what is down never gets so far.
LEMMA StopsHarmless ==
    ASSUME TypeInv, Harmless, NEW b \in Build, NEW what \in {"write", "crash"},
           Breaks(b, what), what = "write" => at[b] \notin config.down \/ Kind(b) = "wget"
    PROVE  Kind(b) = "wget"
  <1>1. CASE at[b] \in config.down /\ what # "crash"
    BY <1>1
  <1>2. CASE ~(at[b] \in config.down /\ what # "crash")
    <2>1. <<Kind(b), what>> \in config.fallible
      BY <1>2 DEF Breaks
    <2> QED BY <2>1 DEF Harmless
  <1> QED BY <1>1, <1>2

\* The step of a lone build, as LoneInv sees it: the next source, if any, is of
\* a kind of its own, but no file is open then.
LEMMA LoneStepOf ==
    ASSUME TypeInv, Harmless, NEW b \in Build, LoneState(b),
           file["archive"] \in {None, Whole} \/ Writing(b),
           config' = config, at' = at => Kind(b)' = Kind(b),
           Start(b) \/ Step(b) \/ Crash(b) \/ Again(b)
    PROVE  LoneState(b)' /\ (file'["archive"] \in {None, Whole} \/ Writing(b)')
  <1> USE DownloadAssumption
  <1>0. /\ pc \in [Build -> PC] /\ file \in [Name -> {None, Whole} \cup Build]
        /\ out \in [Build -> Name \cup {None}]
    BY DEF TypeInv
  <1>1. CASE Start(b) \/ Found(b) \/ Missing(b) \/ Clone(b) \/ Clean(b) \/ Again(b)
    BY <1>0, <1>1
       DEF Start, Found, Missing, Clone, Clean, Again, Go, LoneState, Writing
  <1>2. ASSUME pc[b] # "write" \/ Kind(b) = "wget", file' = file,
               pc' = [pc EXCEPT ![b] = "test"] \/ pc' = [pc EXCEPT ![b] = "idle"]
        PROVE  LoneState(b)' /\ file'["archive"] \in {None, Whole}
    BY <1>0, <1>2 DEF LoneState, Writing
  <1>3. CASE CloneRefused(b) \/ ConnectFails(b) \/ CloneFails(b)
    <2>1. file' = file /\ pc[b] # "write" /\ NextSource(b)
      BY <1>3 DEF CloneRefused, ConnectFails, CloneFails
    <2> QED BY <1>2, <2>1, NextSourceEffect DEF Go
  <1>4. CASE Open(b)
    BY <1>0, <1>4 DEF Open, Go, Truncate, Output, LoneState, Writing, Name
  <1>5. CASE Pack(b)
    BY <1>0, <1>5 DEF Pack, Go, Truncate, Output, LoneState, Writing, Name, Clones
  <1>6. CASE Written(b)
    BY <1>0, <1>6 DEF Written, Go, Output, LoneState, Writing, Name, Clones
  <1>7. CASE Move(b)
    <2>1. file["tmp"] = Whole /\ pc[b] = "move"
      BY <1>7 DEF Move, LoneState
    <2>2. Go(b, "stamped") /\ file'["archive"] = Whole
      BY <1>7, <2>1 DEF Move
    <2> QED BY <1>0, <2>2 DEF Go, LoneState
  <1>8. CASE Drop(b)
    <2>1. file'["archive"] = file["archive"] /\ pc[b] = "drop" /\ NextSource(b)
      BY <1>0, <1>8 DEF Drop, Name
    <2>2. pc'[b] \in {"test", "idle"}
      BY <1>0, <2>1, NextSourceEffect DEF Go
    <2> QED BY <2>1, <2>2 DEF LoneState, Writing
  <1>9. CASE WriteFails(b)
    <2>1. pc[b] = "write" /\ Breaks(b, "write")
      BY <1>9 DEF WriteFails
    <2>2. at[b] \notin config.down \/ Kind(b) = "wget"
      BY <2>1 DEF LoneState
    <2>3. Kind(b) = "wget"
      BY <2>1, <2>2, StopsHarmless
    <2>4. Go(b, "drop") /\ file' = file
      BY <1>9, <2>3 DEF WriteFails
    <2> QED BY <1>0, <2>3, <2>4 DEF Go, LoneState, Writing
  <1>10. CASE Crash(b)
    <2>1. Kind(b) = "wget"
      BY <1>10, StopsHarmless DEF Crash
    <2>2. Go(b, "idle") /\ file' = file
      BY <1>10 DEF Crash
    <2> QED BY <1>0, <1>2, <2>1, <2>2 DEF Go
  <1> QED BY <1>1, <1>3, <1>4, <1>5, <1>6, <1>7, <1>8, <1>9, <1>10 DEF Step

LEMMA LoneStep ==
    ASSUME TypeInv, LoneInv, [Next]_vars
    PROVE  LoneInv'
  <1>1. CASE UNCHANGED vars
    <2> USE <1>1 DEF vars
    <2>1. \A b : Kind(b)' = Kind(b)
      BY DEF Kind, Sources, Optional
    <2> QED BY <2>1 DEF LoneInv, LoneState, Writing, Alone, Harmless, Output
  <1>2. ASSUME NEW b \in Build, Start(b) \/ Step(b) \/ Crash(b) \/ Again(b)
        PROVE  LoneInv'
    <2>1. config' = config /\ b \in config.builds
      BY <1>2, StepOfOne
    <2> SUFFICES ASSUME Alone, Harmless
                 PROVE  /\ \A c \in config.builds : LoneState(c)'
                        /\ file'["archive"] \in {None, Whole}
                           \/ \E c \in config.builds : Writing(c)'
      BY <2>1 DEF LoneInv, Alone, Harmless
    <2>2. \A c \in config.builds : c = b
      BY <2>1 DEF Alone
    <2>3. LoneState(b) /\ (file["archive"] \in {None, Whole} \/ Writing(b))
      BY <2>1, <2>2 DEF LoneInv
    <2>4. at' = at => Kind(b)' = Kind(b)
      BY <2>1 DEF Kind, Sources, Optional
    <2>5. LoneState(b)' /\ (file'["archive"] \in {None, Whole} \/ Writing(b)')
      BY <1>2, <2>1, <2>3, <2>4, LoneStepOf
    <2> QED BY <2>1, <2>2, <2>5
  <1> QED BY <1>1, <1>2 DEF Next

LEMMA LoneInit == Init => LoneInv
  <1> SUFFICES ASSUME Init PROVE LoneInv
    OBVIOUS
  <1>1. \A b \in config.builds : pc[b] = "idle"
    BY DownloadAssumption DEF Init
  <1> QED BY <1>1 DEF Init, LoneInv, LoneState, Name

-----------------------------------------------------------------------------
(* What the properties ask for.                                              *)

\* The archive is whole under the stamp of a lone build, whatever its sources
\* and their failures, if these leave nothing but a temporary file.
THEOREM StampedWholeCorrect == Spec => []StampedWhole
  <1>1. TypeInv /\ LoneInv => StampedWhole
    BY DEF TypeInv, LoneInv, LoneState, StampedWhole, Stamped
  <1> QED BY <1>1, TypeInit, TypeStep, LoneInit, LoneStep, PTL DEF Spec

\* A step of a lone build puts nothing in the place of a whole archive but
\* another.
LEMMA KeptByStep ==
    ASSUME TypeInv, LoneInv, Alone, Harmless, [Next]_vars, file["archive"] = Whole
    PROVE  file'["archive"] = Whole
  <1> USE DownloadAssumption
  <1>1. ASSUME NEW b \in Build, Start(b) \/ Step(b) \/ Crash(b) \/ Again(b),
               file'["archive"] # file["archive"]
        PROVE  file'["archive"] = Whole
    <2>1. file \in [Name -> {None, Whole} \cup Build] /\ LoneState(b)
      BY <1>1, StepOfOne DEF LoneInv, TypeInv
    <2>2. CASE Open(b)
      BY <2>1, <2>2 DEF Open, LoneState
    <2>3. CASE Pack(b)
      BY <2>1, <2>3 DEF Pack, LoneState
    <2>4. CASE Written(b)
      BY <1>1, <2>4 DEF Written, Name
    <2>5. CASE Move(b)
      BY <2>1, <2>5 DEF Move, LoneState
    <2>6. CASE Drop(b)
      BY <1>1, <2>1, <2>6 DEF Drop, Name
    <2> QED BY <1>1, <2>2, <2>3, <2>4, <2>5, <2>6
            DEF Step, Start, Crash, Again, Found, Missing, Clone, CloneRefused, Clean,
                ConnectFails, CloneFails, WriteFails
  <1> QED BY <1>1 DEF Next, vars

\* No step of a lone build empties a whole archive, or puts a part in its place.
THEOREM ArchiveKeptCorrect == Spec => ArchiveKept
  <1>1. TypeInv /\ LoneInv /\ [Next]_vars
        => [Alone /\ Harmless /\ file["archive"] = Whole => file'["archive"] = Whole]_vars
    BY KeptByStep
  <1> QED BY <1>1, TypeInit, TypeStep, LoneInit, LoneStep, PTL DEF Spec, ArchiveKept

-----------------------------------------------------------------------------
(* Builds that share DL_DIR.                                                 *)

Unfinished(n, b) == file[n] = b /\ pc[b] = "write" /\ out[b] = n

\* Nobody fails half-way: an unfinished file is being written under its name by
\* the build that emptied it last.
EarlyInv ==
    Early => \A n \in Name : file[n] \in {None, Whole} \/ \E b \in Build : Unfinished(n, b)

\* A step of any build finishes, moves, removes or leaves what was unfinished.
LEMMA EarlyStepOf ==
    ASSUME TypeInv, Early, NEW b \in Build, Start(b) \/ Step(b) \/ Crash(b) \/ Again(b),
           \A n \in Name : file[n] \in {None, Whole} \/ \E c \in Build : Unfinished(n, c)
    PROVE  \A n \in Name : file'[n] \in {None, Whole} \/ \E c \in Build : Unfinished(n, c)'
  <1> USE DownloadAssumption
  <1>0. /\ pc \in [Build -> PC] /\ file \in [Name -> {None, Whole} \cup Build]
        /\ out \in [Build -> Name \cup {None}]
    BY DEF TypeInv
  <1>1. ASSUME file' = file, out' = out, pc[b] # "write",
               \A c \in Build \ {b} : pc'[c] = pc[c]
        PROVE  \A n \in Name : file'[n] \in {None, Whole} \/ \E c \in Build : Unfinished(n, c)'
    BY <1>1 DEF Unfinished
  <1>2. \A c \in Build \ {b} : pc'[c] = pc[c]
    BY <1>0, StepOfOne DEF Go
  <1>3. CASE \/ Start(b) \/ Found(b) \/ Missing(b) \/ Clone(b) \/ CloneRefused(b)
             \/ Clean(b) \/ ConnectFails(b) \/ CloneFails(b) \/ Again(b)
    BY <1>1, <1>2, <1>3 DEF Start, Found, Missing, Clone, CloneRefused, Clean, ConnectFails,
                            CloneFails, Again
  <1>4. ASSUME NEW m \in Name, pc[b] # "write", Truncate(b, m), Go(b, "write")
        PROVE  \A n \in Name : file'[n] \in {None, Whole} \/ \E c \in Build : Unfinished(n, c)'
    BY <1>0, <1>4 DEF Truncate, Go, Unfinished
  <1>5. CASE Open(b) \/ Pack(b)
    BY <1>4, <1>5 DEF Open, Pack, Output, Name
  <1>6. CASE Written(b)
    <2>1. file' = [n \in Name |-> IF n = out[b] /\ file[n] = b THEN Whole ELSE file[n]]
      BY <1>6 DEF Written
    <2>2. \A c \in Build \ {b} : out'[c] = out[c]
      BY <1>0, <1>6 DEF Written
    <2> QED BY <1>0, <1>2, <2>1, <2>2 DEF Unfinished
  <1>7. CASE Move(b)
    <2>1. CASE file["tmp"] = None
      BY <1>1, <1>2, <1>7, <2>1 DEF Move
    <2>2. CASE file["tmp"] # None
      <3>1. /\ pc[b] = "move" /\ file'["tmp"] = None /\ file'["archive"] = file["tmp"]
            /\ \A c \in Build : out'[c] = AfterMove(c)
        BY <1>7, <2>2 DEF Move
      <3> QED BY <1>0, <1>2, <3>1 DEF Unfinished, AfterMove, Name
    <2> QED BY <2>1, <2>2
  <1>8. CASE Drop(b)
    <2>1. /\ pc[b] = "drop" /\ file' = [file EXCEPT !["tmp"] = None]
          /\ \A c \in Build : out'[c] = AfterDrop(c)
      BY <1>8 DEF Drop
    <2> QED BY <1>0, <1>2, <2>1 DEF Unfinished, AfterDrop, Name
  <1>9. ~WriteFails(b) /\ ~Crash(b)
    BY DEF WriteFails, Crash, Breaks, Early
  <1> QED BY <1>3, <1>5, <1>6, <1>7, <1>8, <1>9 DEF Step

LEMMA EarlyStep ==
    ASSUME TypeInv, EarlyInv, [Next]_vars
    PROVE  EarlyInv'
  <1>1. CASE UNCHANGED vars
    BY <1>1 DEF vars, EarlyInv, Early, Unfinished
  <1>2. ASSUME NEW b \in Build, Start(b) \/ Step(b) \/ Crash(b) \/ Again(b)
        PROVE  EarlyInv'
    <2>1. config' = config
      BY <1>2, StepOfOne
    <2> SUFFICES ASSUME Early
                 PROVE  \A n \in Name :
                            file'[n] \in {None, Whole} \/ \E c \in Build : Unfinished(n, c)'
      BY <2>1 DEF EarlyInv, Early
    <2>2. \A n \in Name : file[n] \in {None, Whole} \/ \E c \in Build : Unfinished(n, c)
      BY DEF EarlyInv
    <2> QED BY <1>2, <2>2, EarlyStepOf
  <1> QED BY <1>1, <1>2 DEF Next

\* When no build is downloading, the archive is whole or absent, of a lone build
\* with harmless failures and of any number of them that fail early.
THEOREM QuietCorrect == Spec => []QuietMeansWhole
  <1>1. Init => EarlyInv
    BY DEF Init, EarlyInv
  <1>2. TypeInv /\ LoneInv /\ EarlyInv => QuietMeansWhole
    <2> SUFFICES ASSUME TypeInv, LoneInv, EarlyInv,
                        \A b \in Build : pc[b] \in {"idle", "stamped"},
                        (Alone /\ Harmless) \/ Early
                 PROVE  file["archive"] \in {None, Whole}
      BY DEF QuietMeansWhole
    <2>1. \A b \in Build : pc[b] # "write"
      OBVIOUS
    <2>2. config.builds \subseteq Build
      BY DownloadAssumption DEF TypeInv
    <2>3. CASE Alone /\ Harmless
      BY <2>1, <2>2, <2>3 DEF LoneInv, Writing
    <2>4. CASE Early
      BY <2>1, <2>4 DEF EarlyInv, Unfinished, Name
    <2> QED BY <2>3, <2>4
  <1> QED BY <1>1, <1>2, TypeInit, TypeStep, LoneInit, LoneStep, EarlyStep, PTL DEF Spec

=============================================================================
