--------------------------- MODULE HostScanProofs ---------------------------
(***************************************************************************)
(* Proofs about HostScan.  CommandInv is the inductive invariant of the    *)
(* scan command, WatcherInv that of the daemon.  Both rest on one fact     *)
(* about the tree (TreeChanged): whoever changes a file stamps it with a       *)
(* change later than every listing and every scan that has begun.          *)
(***************************************************************************)
EXTENDS HostScan, FiniteSetTheorems, TLAPS

\* Every step leaves the tree alone, or is a change of it.
TreeUnchanged == UNCHANGED treeVars
TreeChanged ==
    /\ clock < MaxChanges
    /\ clock' = clock + 1
    /\ \A p \in Paths : \/ version'[p] = version[p] /\ content'[p] = content[p]
                        \/ version'[p] = clock + 1

----------------------------------------------------------------------------
(* Facts about the constants and the operators.                             *)

LEMMA EnginesAre == Engines = {"hash", "pattern", "heuristic", "entropy"}
BY DEF Engines, Order, Positions

LEMMA EngineFindingType ==
    ASSUME NEW p \in Paths, NEW i \in Positions
    PROVE  /\ EngineFinding(p, i) \in Finding
           /\ EngineFinding(p, i).file = p
           /\ EngineFinding(p, i).by = Order[i]
BY DEF EngineFinding, Finding, Engines

\* What an engine says is no skip, and what an archive is reported for is no engine's.
LEMMA ByEngineOrNot ==
    /\ \A p \in Paths, i \in Positions : ByEngine(EngineFinding(p, i))
    /\ \A outcome \in Outcomes : \A o \in outcome, q \in Paths :
         /\ [file |-> q, member |-> o.member, by |-> o.by] \in Finding
         /\ ~ ByEngine([file |-> q, member |-> o.member, by |-> o.by])
<1>1. ASSUME NEW p \in Paths, NEW i \in Positions
      PROVE  ByEngine(EngineFinding(p, i))
  <2>1. Order[i] # "skipped"
    BY DEF Positions, Order
  <2> QED BY <2>1 DEF ByEngine, EngineFinding
<1>2. ASSUME NEW outcome \in Outcomes, NEW o \in outcome, NEW q \in Paths
      PROVE  /\ [file |-> q, member |-> o.member, by |-> o.by] \in Finding
             /\ ~ ByEngine([file |-> q, member |-> o.member, by |-> o.by])
  <2>1. o \in [member : Members, by : Engines \union {"skipped"}]
               \union [member : {Itself}, by : {"skipped"}]
    BY OutcomesAssumption
  <2> QED BY <2>1, MembersAssumption DEF ByEngine, Finding
<1> QED BY <1>1, <1>2

\* A path that is no link is its own name, and is read as what it is.
LEMMA NoLinkStays ==
    ASSUME NEW p \in Paths
    PROVE  /\ Resolved(p) \subseteq Paths
           /\ ~ IsLink(p) => Resolved(p) \subseteq {p} /\ ReadAs(p) \subseteq {content[p]}
<1>1. Reached(p) \subseteq Paths
  BY DEF Reached
<1>2. ASSUME ~ IsLink(p)
      PROVE  Reached(p) \subseteq {p}
  <2>1. {p} \in SUBSET Paths /\ p \in {p} /\ \A r \in {p} : IsLink(r) => Target(r) \in {p}
    BY <1>2
  <2> QED BY <2>1 DEF Reached
<1> QED BY <1>1, <1>2 DEF Resolved, ReadAs

LEMMA LastEngineType == index \in BOOLEAN /\ entropy \in BOOLEAN => LastEngine \in Positions
BY DEF LastEngine, Positions

LEMMA WriteChanges ==
    ASSUME TreeTypeOK, NEW p \in Paths, NEW c \in Contents \union {Absent}, Write(p, c)
    PROVE  TreeChanged /\ TreeTypeOK'
<1>1. clock + 1 \in 0 .. MaxChanges /\ clock \in Nat
  BY ChangesAssumption DEF TreeTypeOK, Write
<1>2. version' \in [Paths -> 0 .. (clock + 1)]
  BY <1>1 DEF TreeTypeOK, Write
<1>3. content' \in [Paths -> Contents \union {Absent}]
  BY DEF TreeTypeOK, Write
<1>4. \A q \in Paths : \/ version'[q] = version[q] /\ content'[q] = content[q]
                       \/ version'[q] = clock + 1
  BY DEF TreeTypeOK, Write
<1> QED BY <1>1, <1>2, <1>3, <1>4 DEF TreeTypeOK, TreeChanged, Write

LEMMA MoveChanges ==
    ASSUME TreeTypeOK, NEW p \in Paths, NEW q \in Paths, Move(p, q)
    PROVE  TreeChanged /\ TreeTypeOK'
<1>1. clock + 1 \in 0 .. MaxChanges /\ clock \in Nat
  BY ChangesAssumption DEF TreeTypeOK, Move
<1>2. version' \in [Paths -> 0 .. (clock + 1)]
  BY <1>1 DEF TreeTypeOK, Move
<1>3. content' \in [Paths -> Contents \union {Absent}]
  BY DEF TreeTypeOK, Move
<1>4. \A r \in Paths : \/ version'[r] = version[r] /\ content'[r] = content[r]
                       \/ version'[r] = clock + 1
  BY DEF TreeTypeOK, Move
<1> QED BY <1>1, <1>2, <1>3, <1>4 DEF TreeTypeOK, TreeChanged, Move

LEMMA TreeStepChanges ==
    ASSUME TreeTypeOK, TreeStep
    PROVE  TreeChanged /\ TreeTypeOK' /\ UNCHANGED commandVars
<1>1. UNCHANGED commandVars
  BY DEF TreeStep
<1>2. CASE \E p \in Paths, c \in Contents : SeenWrite(p, c)
  BY <1>1, <1>2, WriteChanges DEF SeenWrite
<1>3. CASE \E p \in Paths : SeenDelete(p)
  BY <1>1, <1>3, WriteChanges DEF SeenDelete, Delete
<1>4. CASE \E p, q \in Paths : SeenMove(p, q)
  BY <1>1, <1>4, MoveChanges DEF SeenMove
<1> QED BY <1>2, <1>3, <1>4 DEF TreeStep

----------------------------------------------------------------------------
(* The invariant of the command.                                            *)

\* The walk has not come to a file yet.
Waiting(p) == p \in todo \/ DirOf[p] \in toList

\* Where the walk is: the files it has not come to are untouched, and the one it
\* is at is no longer in any list.
WalkInv ==
    /\ \A d \in toList : listedAt[d] = Unlisted
    /\ \A d \in Dirs : listedAt[d] <= clock
    /\ \A p \in todo : DirOf[p] \notin toList
    /\ \A p \in Paths : Waiting(p) =>
         /\ p # current
         /\ raisedAt[p] = NotRaised
         /\ p \notin walked
    /\ current # NoPath => /\ raisedAt[current] = NotRaised
                           /\ current \in walked
    /\ cmd \in {"detect", "unpack", "scan"} <=> current # NoPath
    /\ cmd \in {"detect", "unpack"} => at = 1
    /\ cmd = "scan" => at <= LastEngine
    /\ cmd \in {"save", "report"} => toList = {} /\ todo = {}

\* What the findings of the engines are worth: those of the file at hand are what the
\* engines so far have to say, those of a file that is done what all that ran have.
Made == {f \in findings : ByEngine(f)}
FindingsInv ==
    /\ \A f \in Made : f.file \in walked
    /\ total = Cardinality(walked)
    /\ current # NoPath /\ Unchanged(current) =>
         FindingsOf(Made, current) = Said(current, 1 .. (at - 1))
    /\ \A p \in Paths : ~ Waiting(p) /\ p # current /\ Scannable(p) =>
         FindingsOf(Made, p) = Said(p, RanOn(p))

\* Where the others come from: an archive is reported under its own name, or it has
\* become a link since it was listed.
OthersInv ==
    /\ unpacked \subseteq walked
    /\ \A p \in walked : Unchanged(p) => ~ IsLink(p)
    /\ \A f \in findings : \/ ByEngine(f)
                           \/ f.file \in unpacked
                           \/ \E q \in walked \ {f.file} : ~ Unchanged(q)

\* A report and its exit code are made together, when everything was taken, and it
\* names the files that stayed by their own names.
ReportInv ==
    /\ report # NoReport =>
         /\ cmd = "done" /\ toList = {} /\ todo = {}
         /\ exit = ExitCode(report)
         /\ \E name \in [Paths -> Paths] :
              /\ report = Summary(Renamed(findings, name), total)
              /\ \A p \in walked : Unchanged(p) => name[p] = p
    /\ exit = Clean => report # NoReport

CommandInv == CommandTypeOK /\ WalkInv /\ FindingsInv /\ OthersInv /\ ReportInv

----------------------------------------------------------------------------
(* Type correctness.                                                        *)

LEMMA KeysFinite ==
    ASSUME NEW fs, fs \subseteq Finding, NEW engines
    PROVE  /\ KeysBy(fs, engines) \subseteq Paths \X (Members \union {Itself})
           /\ IsFiniteSet(KeysBy(fs, engines))
           /\ Cardinality(KeysBy(fs, engines)) \in Nat
<1>1. KeysBy(fs, engines) \subseteq Paths \X (Members \union {Itself})
  BY DEF KeysBy, Key, Finding
<1>2. IsFiniteSet(Members \union {Itself})
  BY FS_AddElement, MembersAssumption
<1>3. IsFiniteSet(Paths \X (Members \union {Itself}))
  BY <1>2, FS_Product, PathsAssumption
<1>4. IsFiniteSet(KeysBy(fs, engines))
  BY <1>1, <1>3, FS_Subset
<1> QED BY <1>1, <1>4, FS_CardinalityType

LEMMA SummaryType ==
    ASSUME NEW fs, fs \subseteq Finding, NEW k \in Nat
    PROVE  /\ Summary(fs, k) \in Reports
           /\ Summary(fs, k).infected = Cardinality(InfectedPaths(fs))
           /\ Summary(fs, k).suspicious = Cardinality(SuspiciousPaths(fs))
           /\ Summary(fs, k).clean = CleanCount(k, Cardinality(InfectedPaths(fs))
                                                    + Cardinality(SuspiciousPaths(fs)))
           /\ Summary(fs, k).findings = fs
           /\ Summary(fs, k).total = k
           /\ IsFiniteSet(InfectedPaths(fs)) /\ IsFiniteSet(SuspiciousPaths(fs))
<1> DEFINE infected == Cardinality(InfectedPaths(fs))
<1> DEFINE suspicious == Cardinality(SuspiciousPaths(fs))
<1>1. IsFiniteSet(InfectedPaths(fs)) /\ infected \in Nat
  BY KeysFinite DEF InfectedPaths
<1>2. IsFiniteSet(SuspiciousPaths(fs)) /\ suspicious \in Nat
  BY KeysFinite, FS_Subset, FS_CardinalityType DEF SuspiciousPaths
<1>3. CleanCount(k, infected + suspicious) \in Nat
  BY <1>1, <1>2 DEF CleanCount
<1>4. Summary(fs, k) = [findings |-> fs, total |-> k, infected |-> infected,
                        suspicious |-> suspicious,
                        clean |-> CleanCount(k, infected + suspicious)]
  BY DEF Summary
<1> HIDE DEF infected, suspicious
<1>5. Summary(fs, k) \in Reports
  BY <1>1, <1>2, <1>3, <1>4 DEF Reports
<1> QED BY <1>1, <1>2, <1>4, <1>5 DEF infected, suspicious

LEMMA RenamedType ==
    ASSUME NEW fs, fs \subseteq Finding, NEW name \in [Paths -> Paths]
    PROVE  Renamed(fs, name) \subseteq Finding
BY DEF Renamed, Finding

LEMMA ExitCodeType ==
    ASSUME NEW r
    PROVE  ExitCode(r) \in {Clean, Infected} /\ ExitCode(r) # Error
BY DEF ExitCode, Clean, Infected, Error

LEMMA CommandStepTyped ==
    ASSUME TreeTypeOK, CommandTypeOK, WalkInv, Command
    PROVE  CommandTypeOK'
<1> USE DEF CommandTypeOK, Commands, options, walkVars, fileVars, resultVars, treeVars,
            Finish, GiveUp, BreakOff, FileDone
<1>1. CASE Start \/ StartFails \/ StartRaises \/ RootGone \/ Detect \/ WalkEnds \/ SaveIndex
           \/ SaveFails \/ ReportFails \/ ReportRaises
  BY <1>1 DEF Start, StartFails, StartRaises, RootGone, Detect, WalkEnds, SaveIndex, SaveFails,
       ReportFails, ReportRaises, Error, Infected
<1>2. CASE UnpackArchive
  <2>1. PICK outcome \in Outcomes, q \in Resolved(current) :
          findings' = findings \union
            {[file |-> q, member |-> o.member, by |-> o.by] : o \in outcome}
    BY <1>2 DEF UnpackArchive
  <2>2. cmd = "unpack" /\ current \in Paths
    BY <1>2 DEF UnpackArchive, WalkInv
  <2>3. q \in Paths
    BY <2>2, NoLinkStays
  <2>4. findings' \subseteq Finding
    <3>1. \A o \in outcome : [file |-> q, member |-> o.member, by |-> o.by] \in Finding
      BY <2>3, ByEngineOrNot
    <3> QED BY <2>1, <3>1
  <2>5. /\ cmd' = "walk" /\ current' = NoPath /\ at' = 1
        /\ unpacked' = unpacked \union {current}
        /\ UNCHANGED <<options, walkVars, raisedAt, total, walked, report, exit>>
    BY <1>2 DEF UnpackArchive
  <2> QED BY <2>2, <2>4, <2>5 DEF Positions
<1>3. CASE Engine
  <2>1. current \in Paths /\ at \in Positions
    BY <1>3 DEF Engine, WalkInv
  <2>2. findings' \subseteq Finding
    BY <1>3, <2>1, EngineFindingType DEF Engine
  <2>3. at' \in Positions
    BY <1>3, <2>1 DEF Engine, LastEngine, Positions, WalkInv
  <2> QED BY <1>3, <2>2, <2>3 DEF Engine
<1>4. CASE EngineRaises \/ UnpackBreaks
  <2>1. current \in Paths /\ at \in 1 .. NotRaised
    BY <1>4 DEF EngineRaises, UnpackBreaks, Positions, NotRaised, WalkInv
  <2> QED BY <1>4, <2>1 DEF EngineRaises, UnpackBreaks, Positions, Infected
<1>5. CASE WriteReport
  <2>1. report' \in Reports
    <3>1. PICK name \in Resolutions : report' = Summary(Renamed(findings, name), total)
      BY <1>5 DEF WriteReport
    <3>2. name \in [Paths -> Paths]
      BY DEF Resolutions
    <3> QED BY <3>1, <3>2, RenamedType, SummaryType
  <2>2. exit' \in {Clean, Infected}
    BY <1>5, ExitCodeType DEF WriteReport
  <2> QED BY <1>5, <2>1, <2>2 DEF WriteReport
<1>6. ASSUME NEW d \in Dirs, List(d) \/ ListFails(d)
      PROVE  CommandTypeOK'
  <2>1. clock \in Unlisted .. MaxChanges
    BY ChangesAssumption DEF TreeTypeOK, Unlisted
  <2> QED BY <1>6, <2>1 DEF List, ListFails, Reaches
<1>7. ASSUME NEW p \in Paths, PassOver(p) \/ StatFails(p) \/ Take(p)
      PROVE  CommandTypeOK'
  BY <1>7 DEF PassOver, StatFails, Take, NotRaised, Positions
<1> QED BY <1>1, <1>2, <1>3, <1>4, <1>5, <1>6, <1>7 DEF Command, CommandStep

----------------------------------------------------------------------------
(* Steps of the tree.  A file that changes is no longer unchanged since its  *)
(* directory was listed, so the invariant says nothing of it.                *)

LEMMA TreeKeepsCommand ==
    ASSUME TreeTypeOK, CommandInv, TreeChanged, UNCHANGED commandVars
    PROVE  CommandInv'
<1> USE DEF CommandInv
<1>1. UNCHANGED <<cmd, index, unpack, entropy, toList, todo, listedAt, current, at,
                  raisedAt, unpacked, findings, total, walked, report, exit>>
  BY DEF commandVars, options, walkVars, fileVars, resultVars
<1>2. CommandTypeOK'
  BY <1>1 DEF CommandTypeOK
<1>3. clock \in Nat /\ clock' = clock + 1
  BY DEF TreeChanged, TreeTypeOK
<1>4. WalkInv'
  <2>1. \A d \in Dirs : listedAt[d] \in Int
    BY DEF CommandTypeOK, Unlisted
  <2>2. \A d \in Dirs : listedAt'[d] <= clock'
    BY <1>1, <1>3, <2>1 DEF WalkInv
  <2> QED BY <1>1, <2>2 DEF WalkInv, Waiting, LastEngine
<1>5. ASSUME NEW p \in Paths, Unchanged(p)'
      PROVE  content'[p] = content[p] /\ Unchanged(p)
  <2>1. listedAt[DirOf[p]] <= clock /\ listedAt[DirOf[p]] \in Int
    BY DirsAssumption DEF WalkInv, CommandTypeOK, Unlisted
  <2>2. version'[p] # clock + 1
    BY <1>1, <1>3, <1>5, <2>1 DEF Unchanged
  <2>3. version'[p] = version[p] /\ content'[p] = content[p]
    BY <2>2 DEF TreeChanged
  <2> QED BY <1>1, <1>5, <2>3 DEF Unchanged
<1>6. FindingsInv'
  <2>2. ASSUME current # NoPath, Unchanged(current)'
        PROVE  FindingsOf(Made, current) = Said(current, 1 .. (at - 1))'
    <3>1. current \in Paths /\ current' = current
      BY <1>1, <2>2 DEF CommandTypeOK
    <3>2. content'[current] = content[current] /\ Unchanged(current)
      BY <1>1, <1>5, <2>2, <3>1 DEF Unchanged
    <3>3. Said(current, 1 .. (at - 1))' = Said(current, 1 .. (at - 1))
      BY <1>1, <3>2 DEF Said
    <3> QED BY <2>2, <3>2, <3>3 DEF FindingsInv
  <2>3. ASSUME NEW p \in Paths, ~ Waiting(p), p # current, Scannable(p)'
        PROVE  FindingsOf(Made, p) = Said(p, RanOn(p))'
    <3>1. content'[p] = content[p] /\ Scannable(p)
      BY <1>1, <1>5, <2>3 DEF Scannable, Passed
    <3>2. Said(p, RanOn(p))' = Said(p, RanOn(p))
      BY <1>1, <3>1 DEF Said, RanOn, LastEngine
    <3> QED BY <2>3, <3>1, <3>2 DEF FindingsInv
  <2> QED BY <1>1, <2>2, <2>3 DEF FindingsInv, Waiting, CommandTypeOK, FindingsOf, Made
<1>7. \A p \in walked : Unchanged(p)' => Unchanged(p) /\ (IsLink(p)' <=> IsLink(p))
  BY <1>5 DEF CommandTypeOK, IsLink
<1>8. OthersInv'
  BY <1>1, <1>7 DEF OthersInv
<1>9. ReportInv'
  <2>1. CASE report = NoReport
    BY <1>1, <2>1 DEF ReportInv
  <2>2. CASE report # NoReport
    <3>1. PICK name \in [Paths -> Paths] :
            /\ report = Summary(Renamed(findings, name), total)
            /\ \A p \in walked : Unchanged(p) => name[p] = p
      BY <2>2 DEF ReportInv
    <3>2. \A p \in walked' : Unchanged(p)' => name[p] = p
      BY <1>1, <1>7, <3>1
    <3> QED BY <1>1, <2>2, <3>1, <3>2 DEF ReportInv
  <2> QED BY <2>1, <2>2
<1> QED BY <1>2, <1>4, <1>6, <1>8, <1>9

----------------------------------------------------------------------------
(* Steps of the command.                                                    *)

\* Steps that leave the walk and the findings where they are.
Still ==
    /\ UNCHANGED <<toList, todo, listedAt, current, at, raisedAt, unpacked, findings,
                   total, walked, index, unpack, entropy>>
    /\ current = NoPath

LEMMA StillSteps ==
    ASSUME WalkInv,
           Start \/ StartFails \/ StartRaises \/ RootGone \/ WalkEnds \/ SaveIndex \/ SaveFails
           \/ ReportFails \/ ReportRaises \/ WriteReport
    PROVE  /\ Still
           /\ cmd' \notin {"detect", "unpack", "scan"}
           /\ cmd' \in {"save", "report"} => toList = {} /\ todo = {}
BY DEF WalkInv, Still, Start, StartFails, StartRaises, RootGone, WalkEnds, SaveIndex,
   SaveFails, ReportFails, ReportRaises, WriteReport, GiveUp, BreakOff, Finish,
   options, walkVars, fileVars, resultVars

LEMMA CommandStepWalk ==
    ASSUME TreeTypeOK, CommandInv, Command
    PROVE  WalkInv'
<1> USE DEF CommandInv, options, walkVars, fileVars, resultVars, treeVars
<1>0. /\ clock' = clock /\ clock \in Nat
      /\ \A d \in Dirs : listedAt[d] \in Int
  BY DEF Command, TreeTypeOK, CommandTypeOK, Unlisted
<1>1. CASE Start \/ StartFails \/ StartRaises \/ RootGone \/ WalkEnds \/ SaveIndex
           \/ SaveFails \/ ReportFails \/ ReportRaises \/ WriteReport
  BY <1>0, <1>1, StillSteps DEF Still, WalkInv, Waiting
<1>2. CASE Detect
  <2>1. LastEngine >= 1 /\ LastEngine' = LastEngine
    BY <1>2 DEF Detect, LastEngine
  <2> QED BY <1>0, <1>2, <2>1 DEF Detect, WalkInv, Waiting
<1>3. CASE UnpackArchive
  BY <1>0, <1>3, MembersAssumption DEF UnpackArchive, FileDone, WalkInv, Waiting, CommandTypeOK
<1>4. CASE EngineRaises \/ UnpackBreaks
  BY <1>0, <1>4, MembersAssumption DEF EngineRaises, UnpackBreaks, BreakOff, Finish,
     FileDone, WalkInv, Waiting, CommandTypeOK
<1>5. CASE Engine
  <2>1. /\ at <= LastEngine /\ LastEngine \in Positions /\ LastEngine' = LastEngine
        /\ at \in Positions /\ current # NoPath
    BY <1>5, LastEngineType DEF Engine, LastEngine, WalkInv, CommandTypeOK
  <2>2. CASE at = LastEngine
    BY <1>0, <1>5, <2>1, <2>2, MembersAssumption DEF Engine, FileDone, WalkInv, Waiting
  <2>3. CASE at # LastEngine
    <3>1. at + 1 <= LastEngine
      BY <2>1, <2>3 DEF Positions
    <3> QED BY <1>0, <1>5, <2>1, <2>3, <3>1 DEF Engine, WalkInv, Waiting
  <2> QED BY <2>2, <2>3
<1>6. ASSUME NEW d \in Dirs, List(d)
      PROVE  WalkInv'
  <2>1. /\ todo = {} /\ d \in toList /\ current = NoPath /\ cmd = "walk"
        /\ toList' = toList \ {d}
        /\ todo' = {p \in Paths : DirOf[p] = d /\ Holds(p)}
        /\ listedAt' = [listedAt EXCEPT ![d] = clock]
    BY <1>6 DEF List, Reaches, WalkInv
  <2>2. \A e \in Dirs : listedAt'[e] = IF e = d THEN clock ELSE listedAt[e]
    BY <2>1 DEF CommandTypeOK
  <2>3. \A p \in Paths : Waiting(p)' => Waiting(p)
    BY <2>1 DEF Waiting
  <2>4. toList' \subseteq Dirs
    BY <2>1 DEF CommandTypeOK
  <2> QED BY <1>0, <1>6, <2>1, <2>2, <2>3, <2>4 DEF List, WalkInv
<1>7. ASSUME NEW d \in Dirs, ListFails(d)
      PROVE  WalkInv'
  BY <1>0, <1>7 DEF ListFails, Reaches, WalkInv, Waiting
<1>8. ASSUME NEW p \in Paths, PassOver(p) \/ StatFails(p)
      PROVE  WalkInv'
  <2>1. p \in todo /\ DirOf[p] \notin toList /\ cmd = "walk" /\ current = NoPath
    BY <1>8 DEF PassOver, StatFails, WalkInv
  <2>2. \A q \in Paths : Waiting(q)' => Waiting(q) /\ q # p
    BY <1>8, <2>1 DEF PassOver, StatFails, Waiting
  <2>3. \A q \in Paths : q # p => raisedAt'[q] = raisedAt[q]
    BY <1>8 DEF PassOver, StatFails, CommandTypeOK
  <2> QED BY <1>0, <1>8, <2>1, <2>2, <2>3 DEF PassOver, StatFails, WalkInv
<1>9. ASSUME NEW p \in Paths, Take(p)
      PROVE  WalkInv'
  <2>1. p \in todo /\ DirOf[p] \notin toList /\ cmd = "walk" /\ raisedAt[p] = NotRaised
    BY <1>9 DEF Take, WalkInv, Waiting
  <2>2. \A q \in Paths : Waiting(q)' => Waiting(q) /\ q # p
    BY <1>9, <2>1 DEF Take, Waiting
  <2>3. p # NoPath
    BY MembersAssumption
  <2> QED BY <1>0, <1>9, <2>1, <2>2, <2>3 DEF Take, WalkInv
<1> QED BY <1>1, <1>2, <1>3, <1>4, <1>5, <1>6, <1>7, <1>8, <1>9 DEF Command, CommandStep

LEMMA CommandStepFindings ==
    ASSUME TreeTypeOK, CommandInv, Command
    PROVE  FindingsInv'
<1> USE DEF CommandInv, options, walkVars, fileVars, resultVars
<1>0. /\ UNCHANGED <<content, version, clock>> /\ clock \in Nat
      /\ \A d \in Dirs : listedAt[d] \in Int
      /\ \A p \in Paths : version[p] \in Nat /\ DirOf[p] \in Dirs
  BY DirsAssumption DEF Command, TreeTypeOK, CommandTypeOK, Unlisted, treeVars
<1>1. CASE Start \/ StartFails \/ StartRaises \/ RootGone \/ WalkEnds \/ SaveIndex
           \/ SaveFails \/ ReportFails \/ ReportRaises \/ WriteReport
  <2>1. Still
    BY <1>1, StillSteps
  <2>2. /\ UNCHANGED <<toList, todo, listedAt, raisedAt, unpacked, total, walked, index,
                       entropy>>
        /\ current = NoPath /\ current' = NoPath /\ Made' = Made
    BY <2>1 DEF Still, Made
  <2>3. ASSUME NEW p \in Paths, ~ Waiting(p)', Scannable(p)'
        PROVE  FindingsOf(Made', p) = Said(p, RanOn(p))'
    <3>1. p # current /\ ~ Waiting(p) /\ Scannable(p)
      BY <1>0, <2>2, <2>3, MembersAssumption DEF Waiting, Scannable, Unchanged, Passed
    <3>2. Said(p, RanOn(p))' = Said(p, RanOn(p))
      BY <1>0, <2>2 DEF Said, RanOn, LastEngine
    <3> QED BY <2>2, <3>1, <3>2 DEF FindingsInv
  <2>4. \A f \in Made' : f.file \in walked
    BY <2>2 DEF FindingsInv
  <2> QED BY <2>2, <2>3, <2>4 DEF FindingsInv
<1>2. CASE Detect
  <2>1. UNCHANGED <<toList, todo, listedAt, current, at, raisedAt, unpacked, findings, total,
                    walked, index, entropy>>
    BY <1>2 DEF Detect
  <2>2. Made' = Made
    BY <2>1 DEF Made
  <2> QED BY <1>0, <2>1, <2>2 DEF FindingsInv, FindingsOf, Waiting, Scannable, Unchanged,
          Passed, Said, RanOn, LastEngine
<1>3. CASE UnpackArchive
  <2>1. PICK outcome \in Outcomes, q \in Resolved(current) :
          findings' = findings \union
            {[file |-> q, member |-> o.member, by |-> o.by] : o \in outcome}
    BY <1>3 DEF UnpackArchive
  <2>2. Made' = Made
    <3>1. q \in Paths
      BY <1>3, NoLinkStays DEF UnpackArchive, WalkInv, CommandTypeOK
    <3>2. \A f \in findings' : ByEngine(f) => f \in findings
      BY <2>1, <3>1, ByEngineOrNot
    <3> QED BY <2>1, <3>2 DEF Made
  <2>3. /\ current' = NoPath /\ unpacked' = unpacked \union {current} /\ current \in walked
        /\ UNCHANGED <<index, entropy, toList, todo, listedAt, raisedAt, total, walked>>
    BY <1>3 DEF UnpackArchive, FileDone, WalkInv
  <2>4. \A f \in Made' : f.file \in walked
    BY <2>2 DEF FindingsInv
  <2>5. ASSUME NEW p \in Paths, ~ Waiting(p)', Scannable(p)'
        PROVE  FindingsOf(Made', p) = Said(p, RanOn(p))'
    <3>1. p # current /\ ~ Waiting(p) /\ Scannable(p)
      BY <1>0, <2>3, <2>5 DEF Waiting, Scannable, Unchanged, Passed
    <3>2. Said(p, RanOn(p))' = Said(p, RanOn(p))
      BY <1>0, <2>3 DEF Said, RanOn, LastEngine
    <3> QED BY <2>2, <3>1, <3>2 DEF FindingsInv
  <2> QED BY <2>3, <2>4, <2>5 DEF FindingsInv
<1>4. CASE EngineRaises \/ UnpackBreaks
  <2>1. /\ current' = NoPath /\ raisedAt' = [raisedAt EXCEPT ![current] = at]
        /\ UNCHANGED <<index, entropy, toList, todo, listedAt, unpacked, findings, total, walked>>
    BY <1>4 DEF EngineRaises, UnpackBreaks, BreakOff, FileDone
  <2>2. /\ current \in Paths /\ current # NoPath /\ at \in Positions
        /\ LastEngine \in Positions /\ at <= LastEngine
    BY <1>4, LastEngineType DEF EngineRaises, UnpackBreaks, WalkInv, CommandTypeOK, Positions
  <2>3. ASSUME NEW p \in Paths, ~ Waiting(p)', Scannable(p)'
        PROVE  FindingsOf(Made, p) = Said(p, RanOn(p))'
    <3>1. ~ Waiting(p) /\ Scannable(p)
      BY <1>0, <2>1, <2>3 DEF Waiting, Scannable, Unchanged, Passed
    <3>2. CASE p = current
      <4>1. raisedAt'[p] = at
        BY <2>1, <2>2, <3>2 DEF CommandTypeOK
      <4>2. RanOn(p)' = 1 .. (at - 1)
        BY <2>1, <2>2, <4>1 DEF RanOn, LastEngine, Positions
      <4>3. Said(p, RanOn(p))' = Said(p, 1 .. (at - 1))
        BY <1>0, <4>2 DEF Said
      <4>4. FindingsOf(Made, current) = Said(current, 1 .. (at - 1))
        BY <2>2, <3>1, <3>2 DEF FindingsInv, Scannable
      <4> QED BY <3>2, <4>3, <4>4
    <3>3. CASE p # current
      <4>1. raisedAt'[p] = raisedAt[p]
        BY <2>1, <3>3 DEF CommandTypeOK
      <4>2. Said(p, RanOn(p))' = Said(p, RanOn(p))
        BY <1>0, <2>1, <4>1 DEF Said, RanOn, LastEngine
      <4> QED BY <3>1, <3>3, <4>2 DEF FindingsInv
    <3> QED BY <3>2, <3>3
  <2>4. Made' = Made
    BY <2>1 DEF Made
  <2> QED BY <2>1, <2>3, <2>4 DEF FindingsInv
<1>5. CASE Engine
  <2>1. /\ current \in Paths /\ current # NoPath /\ at \in Positions
        /\ LastEngine \in Positions /\ at <= LastEngine /\ raisedAt[current] = NotRaised
        /\ current \in walked
    BY <1>5, LastEngineType DEF Engine, WalkInv, CommandTypeOK
  <2>2. UNCHANGED <<index, entropy, toList, todo, listedAt, raisedAt, unpacked, total, walked>>
    BY <1>5 DEF Engine
  <2>3. PICK c \in ReadAs(current) :
          findings' = IF Order[at] \in Flags[c] THEN findings \union {EngineFinding(current, at)}
                      ELSE findings
    BY <1>5 DEF Engine
  <2>11. Made' = IF Order[at] \in Flags[c] THEN Made \union {EngineFinding(current, at)} ELSE Made
    BY <2>1, <2>3, ByEngineOrNot DEF Made
  <2>12. Unchanged(current) => c = content[current]
    BY <2>1, <2>3, NoLinkStays DEF OthersInv
  <2>4. EngineFinding(current, at).file = current
    BY <2>1, EngineFindingType
  <2>5. \A p : p # current => FindingsOf(Made', p) = FindingsOf(Made, p)
    BY <2>4, <2>11 DEF FindingsOf
  <2>6. \A f \in Made' : f.file \in walked
    BY <2>1, <2>4, <2>11 DEF FindingsInv
  <2>7. Unchanged(current) => FindingsOf(Made', current) = Said(current, 1 .. at)
    <3>1. 1 .. at = (1 .. (at - 1)) \union {at}
      BY <2>1 DEF Positions
    <3>2. Said(current, 1 .. at) =
            Said(current, 1 .. (at - 1)) \union
              (IF Order[at] \in Flags[content[current]] THEN {EngineFinding(current, at)} ELSE {})
      BY <3>1 DEF Said
    <3>3. FindingsOf(Made', current) =
            FindingsOf(Made, current) \union
              (IF Order[at] \in Flags[c] THEN {EngineFinding(current, at)} ELSE {})
      BY <2>4, <2>11 DEF FindingsOf
    <3> QED BY <2>1, <2>12, <3>2, <3>3 DEF FindingsInv
  <2>8. ASSUME NEW p \in Paths, ~ Waiting(p)', Scannable(p)', p # current
        PROVE  FindingsOf(Made', p) = Said(p, RanOn(p))'
    <3>1. ~ Waiting(p) /\ Scannable(p)
      BY <1>0, <2>2, <2>8 DEF Waiting, Scannable, Unchanged, Passed
    <3>2. Said(p, RanOn(p))' = Said(p, RanOn(p))
      BY <1>0, <2>2 DEF Said, RanOn, LastEngine
    <3> QED BY <2>5, <2>8, <3>1, <3>2 DEF FindingsInv
  <2>9. CASE at = LastEngine
    <3>1. current' = NoPath
      BY <1>5, <2>9 DEF Engine, FileDone
    <3>4. ASSUME NEW p \in Paths, p = current, Scannable(p)'
          PROVE  FindingsOf(Made', p) = Said(p, RanOn(p))'
      <4>1. raisedAt'[p] = NotRaised
        BY <2>1, <2>2, <3>4
      <4>2. RanOn(p)' = 1 .. at
        BY <2>1, <2>2, <2>9, <4>1 DEF RanOn, LastEngine, Positions, NotRaised
      <4>3. Said(p, RanOn(p))' = Said(p, 1 .. at)
        BY <1>0, <4>2 DEF Said
      <4>4. Unchanged(p)
        BY <1>0, <2>2, <3>4 DEF Scannable, Unchanged
      <4> QED BY <2>7, <3>4, <4>3, <4>4
    <3> QED BY <2>2, <2>6, <2>8, <3>1, <3>4 DEF FindingsInv
  <2>10. CASE at # LastEngine
    <3>1. current' = current /\ at' = at + 1
      BY <1>5, <2>10 DEF Engine
    <3>2. (1 .. (at - 1))' = 1 .. at
      BY <2>1, <3>1 DEF Positions
    <3>3. Said(current, 1 .. (at - 1))' = Said(current, 1 .. at)
      BY <1>0, <3>1, <3>2 DEF Said
    <3>4. Unchanged(current)' => Unchanged(current)
      BY <1>0, <2>2, <3>1 DEF Unchanged
    <3> QED BY <2>2, <2>6, <2>7, <2>8, <3>1, <3>3, <3>4 DEF FindingsInv
  <2> QED BY <2>9, <2>10
<1>6. ASSUME NEW d \in Dirs, List(d) \/ ListFails(d)
      PROVE  FindingsInv'
  <2>1. /\ d \in toList /\ toList' \subseteq toList /\ listedAt[d] = Unlisted /\ todo = {}
        /\ UNCHANGED <<index, entropy, current, raisedAt, unpacked, findings, total, walked>>
        /\ current = NoPath
    BY <1>6 DEF List, ListFails, Reaches, WalkInv
  <2>2. ASSUME NEW p \in Paths, ~ Waiting(p)', Scannable(p)'
        PROVE  ~ Waiting(p) /\ Scannable(p)
    <3>1. CASE DirOf[p] \in toList
      <4>1. CASE List(d)
        <5>1. DirOf[p] = d
          BY <2>2, <3>1, <4>1 DEF List, Waiting
        <5>2. ~ Holds(p)
          BY <2>2, <4>1, <5>1 DEF List, Waiting
        <5> QED BY <1>0, <2>2, <5>2 DEF Holds, Scannable, Passed
      <4>2. CASE ListFails(d)
        <5>1. listedAt'[DirOf[p]] = -1
          BY <3>1, <4>2 DEF ListFails, WalkInv, Unlisted
        <5> QED BY <1>0, <2>2, <5>1 DEF Scannable, Unchanged
      <4> QED BY <1>6, <4>1, <4>2
    <3>2. CASE DirOf[p] \notin toList
      <4>1. DirOf[p] # d /\ DirOf[p] \in Dirs
        BY <1>0, <2>1, <3>2
      <4>2. listedAt'[DirOf[p]] = listedAt[DirOf[p]]
        BY <1>6, <4>1 DEF List, ListFails, CommandTypeOK
      <4>3. ~ Waiting(p)
        BY <2>1, <3>2 DEF Waiting
      <4> QED BY <1>0, <2>1, <2>2, <4>2, <4>3 DEF Scannable, Unchanged, Passed
    <3> QED BY <3>1, <3>2
  <2>3. \A p \in Paths : Said(p, RanOn(p))' = Said(p, RanOn(p))
    BY <1>0, <2>1 DEF Said, RanOn, LastEngine
  <2> QED BY <2>1, <2>2, <2>3 DEF FindingsInv, FindingsOf, Made
<1>7. ASSUME NEW p \in Paths, PassOver(p) \/ StatFails(p)
      PROVE  FindingsInv'
  <2>1. /\ p \in todo /\ todo' = todo \ {p} /\ current = NoPath
        /\ p \notin walked
        /\ UNCHANGED <<index, entropy, toList, listedAt, current, unpacked, findings, total, walked>>
        /\ \A q \in Paths : q # p => raisedAt'[q] = raisedAt[q]
        /\ Made' = Made
    BY <1>7 DEF PassOver, StatFails, WalkInv, Waiting, CommandTypeOK, Made
  <2>2. ASSUME NEW q \in Paths, ~ Waiting(q)', Scannable(q)'
        PROVE  FindingsOf(Made, q) = Said(q, RanOn(q))'
    <3>1. CASE q # p
      <4>1. ~ Waiting(q) /\ Scannable(q)
        BY <1>0, <2>1, <2>2, <3>1 DEF Waiting, Scannable, Unchanged, Passed
      <4>2. Said(q, RanOn(q))' = Said(q, RanOn(q))
        BY <1>0, <2>1, <3>1 DEF Said, RanOn, LastEngine
      <4> QED BY <2>1, <4>1, <4>2, MembersAssumption DEF FindingsInv
    <3>2. CASE q = p
      <4>1. StatFails(p)
        BY <1>0, <1>7, <2>2, <3>2 DEF PassOver, Scannable, Passed
      <4>2. raisedAt'[p] = 1
        BY <4>1 DEF StatFails, CommandTypeOK
      <4>3. RanOn(p)' = {}
        BY <4>2 DEF RanOn
      <4>4. Said(p, RanOn(p))' = {}
        BY <4>3 DEF Said
      <4>5. FindingsOf(Made, p) = {}
        BY <2>1 DEF FindingsInv, FindingsOf
      <4> QED BY <3>2, <4>4, <4>5
    <3> QED BY <3>1, <3>2
  <2> QED BY <2>1, <2>2 DEF FindingsInv
<1>8. ASSUME NEW p \in Paths, Take(p)
      PROVE  FindingsInv'
  <2>1. /\ p \in todo /\ todo' = todo \ {p} /\ current = NoPath /\ current' = p /\ at' = 1
        /\ p \notin walked /\ walked' = walked \union {p} /\ total' = total + 1
        /\ UNCHANGED <<index, entropy, toList, listedAt, raisedAt, unpacked, findings>>
        /\ Made' = Made
    BY <1>8 DEF Take, WalkInv, Waiting, Made
  <2>2. total' = Cardinality(walked')
    <3>1. IsFiniteSet(walked)
      BY PathsAssumption, FS_Subset DEF CommandTypeOK
    <3> QED BY <2>1, <3>1, FS_AddElement DEF FindingsInv
  <2>3. FindingsOf(Made, p) = {}
    BY <2>1 DEF FindingsInv, FindingsOf
  <2>4. Said(current, 1 .. (at - 1))' = {}
    BY <2>1 DEF Said
  <2>5. ASSUME NEW q \in Paths, ~ Waiting(q)', q # p, Scannable(q)'
        PROVE  FindingsOf(Made, q) = Said(q, RanOn(q))'
    <3>1. ~ Waiting(q) /\ Scannable(q) /\ q # current
      BY <1>0, <2>1, <2>5, MembersAssumption DEF Waiting, Scannable, Unchanged, Passed
    <3>2. Said(q, RanOn(q))' = Said(q, RanOn(q))
      BY <1>0, <2>1 DEF Said, RanOn, LastEngine
    <3> QED BY <2>1, <3>1, <3>2 DEF FindingsInv
  <2> QED BY <2>1, <2>2, <2>3, <2>4, <2>5 DEF FindingsInv
<1> QED BY <1>1, <1>2, <1>3, <1>4, <1>5, <1>6, <1>7, <1>8 DEF Command, CommandStep

\* What stays of a file that was walked: a step of the command neither changes it nor
\* lists its directory again.
LEMMA WalkedStays ==
    ASSUME TreeTypeOK, CommandInv, Command
    PROVE  /\ walked \subseteq walked' /\ walked \subseteq Paths
           /\ content' = content /\ version' = version
           /\ \A p \in walked : listedAt'[DirOf[p]] = listedAt[DirOf[p]]
<1> USE DEF CommandInv, options, walkVars, fileVars, resultVars
<1>1. UNCHANGED <<content, version>>
  BY DEF Command, treeVars
<1>2. walked \subseteq walked'
  BY DEF Command, CommandStep, Start, StartFails, StartRaises, RootGone, Detect, UnpackArchive,
         UnpackBreaks, Engine, EngineRaises, WalkEnds, SaveIndex, SaveFails, WriteReport,
         ReportFails, ReportRaises, List, ListFails, PassOver, StatFails, Take, GiveUp, BreakOff
<1>3. ASSUME NEW p \in walked
      PROVE  listedAt'[DirOf[p]] = listedAt[DirOf[p]]
  <2>1. CASE \E d \in Dirs : List(d)
    <3>1. PICK d \in Dirs : List(d)
      BY <2>1
    <3>2. p \in Paths /\ DirOf[p] \notin toList /\ DirOf[p] \in Dirs
      BY DirsAssumption DEF CommandTypeOK, WalkInv, Waiting
    <3> QED BY <3>1, <3>2 DEF List, Reaches, CommandTypeOK
  <2>2. CASE ~ \E d \in Dirs : List(d)
    <3>1. listedAt' = listedAt
      BY <2>2 DEF Command, CommandStep, Start, StartFails, StartRaises, RootGone, Detect,
         UnpackArchive, UnpackBreaks, Engine, EngineRaises, WalkEnds, SaveIndex, SaveFails,
         WriteReport, ReportFails, ReportRaises, ListFails, PassOver, StatFails, Take, GiveUp,
         BreakOff
    <3> QED BY <3>1
  <2> QED BY <2>1, <2>2
<1> QED BY <1>1, <1>2, <1>3 DEF CommandTypeOK

LEMMA CommandStepOthers ==
    ASSUME TreeTypeOK, CommandInv, Command
    PROVE  OthersInv'
<1> USE DEF CommandInv, options, walkVars, fileVars, resultVars
<1>1. /\ walked \subseteq walked' /\ walked \subseteq Paths
      /\ content' = content /\ version' = version
      /\ \A p \in walked : listedAt'[DirOf[p]] = listedAt[DirOf[p]]
  BY WalkedStays
<1> USE DEF Unchanged, IsLink
<1>2. \A f \in findings :
        \/ ByEngine(f)
        \/ f.file \in unpacked
        \/ \E q \in walked' \ {f.file} : ~ (version'[q] <= listedAt'[DirOf[q]])
  BY <1>1 DEF OthersInv
<1>3. CASE UnpackArchive
  <2>1. PICK outcome \in Outcomes, q \in Resolved(current) :
          findings' = findings \union
            {[file |-> q, member |-> o.member, by |-> o.by] : o \in outcome}
    BY <1>3 DEF UnpackArchive
  <2>2. unpacked' = unpacked \union {current} /\ walked' = walked /\ current \in walked
    BY <1>3 DEF UnpackArchive, WalkInv
  <2>3. q = current \/ ~ Unchanged(current)
    BY <1>1, <2>2, NoLinkStays DEF OthersInv
  <2> QED BY <1>1, <1>2, <2>1, <2>2, <2>3 DEF OthersInv
<1>4. CASE Engine
  <2>1. current \in Paths /\ at \in Positions
    BY <1>4 DEF Engine, WalkInv, CommandTypeOK
  <2>2. findings' \subseteq findings \union {EngineFinding(current, at)}
        /\ UNCHANGED <<unpacked, walked>>
    BY <1>4 DEF Engine
  <2> QED BY <1>1, <1>2, <2>1, <2>2, ByEngineOrNot DEF OthersInv
<1>5. ASSUME NEW p \in Paths, Take(p)
      PROVE  OthersInv'
  <2>1. ~ IsLink(p)
    BY <1>5, LinksAssumption DEF Take, Passed, IsLink
  <2>2. walked' = walked \union {p} /\ UNCHANGED <<findings, unpacked>> /\ content' = content
    BY <1>5 DEF Take, Command, treeVars
  <2>3. ~ IsLink(p)'
    BY <2>1, <2>2 DEF IsLink
  <2> QED BY <1>1, <1>2, <2>2, <2>3 DEF OthersInv
<1>6. CASE ~ (UnpackArchive \/ Engine \/ \E p \in Paths : Take(p))
  <2>1. UNCHANGED <<findings, unpacked, walked>>
    BY <1>6 DEF Command, CommandStep, Start, StartFails, StartRaises, RootGone, Detect,
       UnpackBreaks, EngineRaises, WalkEnds, SaveIndex, SaveFails, WriteReport, ReportFails,
       ReportRaises, List, ListFails, PassOver, StatFails, GiveUp, BreakOff
  <2> QED BY <1>1, <1>2, <2>1 DEF OthersInv
<1> QED BY <1>3, <1>4, <1>5, <1>6

LEMMA CommandStepReport ==
    ASSUME TreeTypeOK, CommandInv, Command
    PROVE  ReportInv'
<1> USE DEF CommandInv, options, walkVars, fileVars, resultVars
<1>1. CASE WriteReport
  <2>1. /\ cmd = "report" /\ cmd' = "done"
        /\ exit' = ExitCode(report') /\ UNCHANGED <<toList, todo, findings, total, walked>>
    BY <1>1 DEF WriteReport, Finish
  <2>2. PICK name \in Resolutions : report' = Summary(Renamed(findings, name), total)
    BY <1>1 DEF WriteReport
  <2>3. name \in [Paths -> Paths] /\ \A p \in Paths : name[p] \in Resolved(p)
    BY DEF Resolutions
  <2>4. report' # NoReport
    <3>1. report' \in Reports
      BY <2>2, <2>3, RenamedType, SummaryType DEF CommandTypeOK
    <3> QED BY <3>1, NoReportAssumption
  <2>5. \A p \in walked' : Unchanged(p)' => name[p] = p
    <3>1. \A p \in walked : p \in Paths /\ (Unchanged(p)' => ~ IsLink(p))
      BY WalkedStays DEF OthersInv, Unchanged
    <3> QED BY <2>1, <2>3, <3>1, NoLinkStays
  <2> QED BY <2>1, <2>2, <2>3, <2>4, <2>5 DEF ReportInv, WalkInv
<1>2. CASE ~ WriteReport
  <2>1. cmd # "done"
    BY <1>2 DEF Command, CommandStep, Start, StartFails, StartRaises, RootGone, Detect,
       UnpackArchive, UnpackBreaks, Engine, EngineRaises, WalkEnds, SaveIndex, SaveFails, ReportFails, ReportRaises,
       List, ListFails, Reaches, PassOver, StatFails, Take
  <2>2. report = NoReport /\ exit # Clean
    BY <2>1 DEF ReportInv
  <2>3. report' = NoReport /\ (exit' = exit \/ exit' \in {Infected, Error})
    BY <1>2, <2>2 DEF Command, CommandStep, Start, StartFails, StartRaises, RootGone, Detect,
       UnpackArchive, UnpackBreaks, Engine, EngineRaises, WalkEnds, SaveIndex, SaveFails, ReportFails,
       ReportRaises, List, ListFails, PassOver, StatFails, Take, GiveUp, BreakOff, Finish
  <2> QED BY <2>2, <2>3 DEF ReportInv, Clean, Infected, Error
<1> QED BY <1>1, <1>2

LEMMA CommandInvInit == Init => TreeTypeOK /\ CommandInv
<1> SUFFICES ASSUME Init PROVE TreeTypeOK /\ CommandInv
  OBVIOUS
<1>1. TreeTypeOK
  BY ChangesAssumption DEF Init, TreeInit, TreeTypeOK
<1>2. /\ cmd \in {"off", "start"} /\ toList \subseteq Dirs /\ todo = {}
      /\ index \in BOOLEAN /\ unpack \in BOOLEAN /\ entropy \in BOOLEAN
      /\ listedAt = [d \in Dirs |-> Unlisted] /\ current = NoPath /\ at = 1
      /\ raisedAt = [p \in Paths |-> NotRaised] /\ unpacked = {}
      /\ findings = {} /\ total = 0 /\ walked = {} /\ report = NoReport /\ exit = NoExit
  BY DEF Init, CommandInit, CommandOff
<1>3. clock = 0 /\ version = [p \in Paths |-> 0]
  BY DEF Init, TreeInit
<1>4. CommandTypeOK
  BY <1>2, ChangesAssumption DEF CommandTypeOK, Commands, Positions, Unlisted, NotRaised
<1>5. WalkInv
  BY <1>2, <1>3, MembersAssumption DEF WalkInv, Waiting, Unlisted
<1>6. FindingsInv
  <2>1. total = Cardinality(walked)
    BY <1>2, FS_EmptySet
  <2>2. \A p \in Paths : ~ Unchanged(p)
    BY <1>2, <1>3, DirsAssumption DEF Unchanged, Unlisted
  <2> QED BY <1>2, <2>1, <2>2 DEF FindingsInv, Scannable, Made
<1>7. ReportInv /\ OthersInv
  BY <1>2 DEF ReportInv, OthersInv, Clean, NoExit
<1> QED BY <1>1, <1>4, <1>5, <1>6, <1>7 DEF CommandInv

LEMMA CommandInvStep == TreeTypeOK /\ CommandInv /\ [Next]_vars => (TreeTypeOK /\ CommandInv)'
<1> SUFFICES ASSUME TreeTypeOK, CommandInv, [Next]_vars PROVE (TreeTypeOK /\ CommandInv)'
  OBVIOUS
<1>1. CASE TreeStep
  BY <1>1, TreeStepChanges, TreeKeepsCommand
<1>2. CASE Command
  <2>1. TreeTypeOK'
    BY <1>2 DEF Command, TreeTypeOK, treeVars
  <2> QED BY <1>2, <2>1, CommandStepTyped, CommandStepWalk, CommandStepFindings,
          CommandStepOthers, CommandStepReport DEF CommandInv
<1>3. CASE UNCHANGED <<treeVars, commandVars>>
  <2>1. UNCHANGED <<content, version, clock, cmd, index, unpack, entropy, toList, todo,
                    listedAt, current, at, raisedAt, unpacked, findings, total, walked,
                    report, exit>>
    BY <1>3 DEF treeVars, commandVars, options, walkVars, fileVars, resultVars
  <2>2. TreeTypeOK' /\ CommandTypeOK' /\ ReportInv' /\ OthersInv'
    BY <2>1 DEF TreeTypeOK, CommandInv, CommandTypeOK, ReportInv, OthersInv, Unchanged, IsLink
  <2>3. WalkInv'
    BY <2>1 DEF CommandInv, WalkInv, Waiting, LastEngine
  <2>4. FindingsInv'
    BY <2>1 DEF CommandInv, FindingsInv, FindingsOf, Made, Waiting, Scannable, Unchanged,
       Passed, Said, RanOn, LastEngine
  <2> QED BY <2>2, <2>3, <2>4 DEF CommandInv
<1> QED BY <1>1, <1>2, <1>3 DEF Next, Observer, Main, Signal, vars

\* The inductive invariant of the scan command in a tree that changes: what the walk
\* has still to do, what the findings hold of every file that stayed, and what was
\* reported.
THEOREM CommandInvariant == Spec => [](TreeTypeOK /\ CommandInv)
BY CommandInvInit, CommandInvStep, PTL DEF Spec

----------------------------------------------------------------------------
(* How long a scan can take.                                                *)

WaitingFiles == {p \in Paths : Waiting(p)}

\* The steps a command has left at most: one for a directory, six for a file.
StepsLeft ==
    CASE cmd \in {"off", "done"} -> 0
      [] cmd = "report" -> 1
      [] cmd = "save" -> 2
      [] OTHER -> Cardinality(toList) + 6 * Cardinality(WaitingFiles) +
                  (CASE cmd = "start" -> 4
                     [] cmd = "walk" -> 3
                     [] cmd = "detect" -> 8
                     [] cmd \in {"unpack", "scan"} -> 8 - at)

\* Every step of the command brings it nearer to its end, and nothing the other
\* processes do to the tree takes it back: a listing is made once, so that files that
\* come and go cannot keep the walk busy (directory_walker.py lines 44-75, cli.py
\* lines 495-529).
CommandRunsDown == [][StepsLeft' < StepsLeft]_commandVars

LEMMA WaitingFinite ==
    ASSUME CommandTypeOK
    PROVE  /\ IsFiniteSet(WaitingFiles) /\ Cardinality(WaitingFiles) \in Nat
           /\ IsFiniteSet(toList) /\ Cardinality(toList) \in Nat
BY FS_Subset, FS_CardinalityType, PathsAssumption, DirsAssumption
   DEF WaitingFiles, CommandTypeOK

LEMMA StepsLeftNatural == CommandTypeOK => StepsLeft \in Nat
<1> SUFFICES ASSUME CommandTypeOK PROVE StepsLeft \in Nat
  OBVIOUS
<1>1. Cardinality(WaitingFiles) \in Nat /\ Cardinality(toList) \in Nat
  BY WaitingFinite
<1>2. cmd \in Commands /\ at \in 1 .. 4
  BY DEF CommandTypeOK, Positions
<1> QED BY <1>1, <1>2 DEF StepsLeft, Commands

\* A step that shortens what waits and leaves the walk where it is.
LEMMA ListingRunsDown ==
    ASSUME CommandTypeOK, CommandTypeOK', cmd = "walk", cmd' = "walk", NEW d \in toList,
           toList' \subseteq toList \ {d}, WaitingFiles' \subseteq WaitingFiles
    PROVE  StepsLeft' < StepsLeft
<1> DEFINE W == Cardinality(WaitingFiles)
           W1 == Cardinality(WaitingFiles')
           L == Cardinality(toList)
           L1 == Cardinality(toList')
<1>1. /\ IsFiniteSet(WaitingFiles) /\ IsFiniteSet(toList)
      /\ W \in Nat /\ W1 \in Nat /\ L \in Nat /\ L1 \in Nat
  <2>1. IsFiniteSet(WaitingFiles) /\ W \in Nat /\ IsFiniteSet(toList) /\ L \in Nat
    BY WaitingFinite
  <2>2. IsFiniteSet(WaitingFiles') /\ IsFiniteSet(toList')
    BY <2>1, FS_Subset
  <2> QED BY <2>1, <2>2, FS_CardinalityType
<1>2. W1 <= W
  BY <1>1, FS_Subset
<1>3. L1 <= L - 1
  <2>1. IsFiniteSet(toList \ {d}) /\ Cardinality(toList \ {d}) = L - 1
    BY <1>1, FS_RemoveElement
  <2>2. L1 <= Cardinality(toList \ {d})
    BY <2>1, FS_Subset
  <2> QED BY <1>1, <2>1, <2>2
<1>4. StepsLeft = L + 6 * W + 3 /\ StepsLeft' = L1 + 6 * W1 + 3
  BY DEF StepsLeft
<1> HIDE DEF W, W1, L, L1
<1> QED BY <1>1, <1>2, <1>3, <1>4

\* A step that takes a file.
LEMMA TakingRunsDown ==
    ASSUME CommandTypeOK, WalkInv, NEW p \in todo, todo' = todo \ {p}, toList' = toList,
           cmd = "walk", cmd' \in {"walk", "detect"}
    PROVE  StepsLeft' < StepsLeft
<1> DEFINE W == Cardinality(WaitingFiles)
           L == Cardinality(toList)
<1>1. p \in WaitingFiles /\ WaitingFiles' = WaitingFiles \ {p}
  BY DEF WaitingFiles, Waiting, WalkInv, CommandTypeOK
<1>2. IsFiniteSet(WaitingFiles) /\ W \in Nat /\ L \in Nat
  BY WaitingFinite
<1>3. Cardinality(WaitingFiles') = W - 1
  BY <1>1, <1>2, FS_RemoveElement
<1>4. StepsLeft = L + 6 * W + 3
  BY DEF StepsLeft
<1>5. StepsLeft' = L + 6 * (W - 1) + (IF cmd' = "walk" THEN 3 ELSE 8)
  BY <1>3 DEF StepsLeft
<1> HIDE DEF W, L
<1> QED BY <1>2, <1>4, <1>5

LEMMA CommandStepRunsDown ==
    ASSUME TreeTypeOK, CommandInv, Command
    PROVE  StepsLeft' < StepsLeft
<1> USE DEF CommandInv
<1> DEFINE W == Cardinality(WaitingFiles)
           L == Cardinality(toList)
<1>1. W \in Nat /\ L \in Nat
  BY WaitingFinite
<1>2. CommandTypeOK' /\ at \in 1 .. 4
  BY CommandStepTyped DEF CommandTypeOK, Positions
<1>3. CASE StartFails \/ StartRaises \/ RootGone \/ SaveFails \/ WriteReport
           \/ ReportFails \/ ReportRaises \/ UnpackBreaks
  <2>1. cmd \in {"start", "walk", "save", "report", "unpack"} /\ cmd' = "done"
    BY <1>3 DEF StartFails, StartRaises, RootGone, SaveFails, WriteReport, ReportFails,
                ReportRaises, UnpackBreaks, GiveUp, BreakOff, Finish
  <2>2. StepsLeft' = 0
    BY <2>1 DEF StepsLeft
  <2>3. StepsLeft > 0
    <3> HIDE DEF W, L
    <3> QED BY <1>1, <1>2, <2>1 DEF StepsLeft, W, L
  <2> QED BY <2>2, <2>3
<1>4. CASE Start \/ Detect \/ UnpackArchive \/ Engine \/ EngineRaises \/ WalkEnds \/ SaveIndex
  <2>1. /\ toList' = toList /\ WaitingFiles' = WaitingFiles
    BY <1>4 DEF Start, Detect, UnpackArchive, Engine, EngineRaises, WalkEnds, SaveIndex,
                walkVars, WaitingFiles, Waiting
  <2>2. Cardinality(toList)' = L /\ Cardinality(WaitingFiles)' = W
    BY <2>1
  <2>3. \/ cmd = "start" /\ cmd' = "walk"
        \/ cmd = "detect" /\ cmd' \in {"scan", "unpack"} /\ at' = at /\ at = 1
        \/ cmd \in {"scan", "unpack"} /\ cmd' = "walk"
        \/ cmd = "scan" /\ cmd' = "scan" /\ at' = at + 1
        \/ cmd = "walk" /\ cmd' \in {"save", "report"}
        \/ cmd = "save" /\ cmd' = "report"
    BY <1>4 DEF Start, Detect, UnpackArchive, Engine, EngineRaises, WalkEnds, SaveIndex,
                FileDone, WalkInv, fileVars
  <2> HIDE DEF W, L
  <2> QED BY <1>1, <1>2, <2>2, <2>3 DEF StepsLeft, W, L
<1>5. ASSUME NEW d \in Dirs, List(d) \/ ListFails(d)
      PROVE  StepsLeft' < StepsLeft
  <2>1. /\ cmd = "walk" /\ cmd' = "walk" /\ d \in toList /\ todo = {}
        /\ toList' \subseteq toList \ {d}
    BY <1>5 DEF List, ListFails, Reaches
  <2>2. todo' = {} \/ \A p \in todo' : DirOf[p] = d
    BY <1>5, <2>1 DEF List, ListFails
  <2>3. WaitingFiles' \subseteq WaitingFiles
    BY <2>1, <2>2 DEF WaitingFiles, Waiting
  <2> QED BY <1>2, <2>1, <2>3, ListingRunsDown
<1>6. ASSUME NEW p \in Paths, PassOver(p) \/ StatFails(p) \/ Take(p)
      PROVE  StepsLeft' < StepsLeft
  BY <1>6, TakingRunsDown DEF PassOver, StatFails, Take
<1> QED BY <1>3, <1>4, <1>5, <1>6 DEF Command, CommandStep

\* A scan takes at most six steps for a file, one for a directory and four more,
\* whatever is found, whatever fails, and however the tree changes meanwhile.
THEOREM ScanRunsDown == Spec => [](StepsLeft \in Nat) /\ CommandRunsDown
<1>1. CommandInv => StepsLeft \in Nat
  BY StepsLeftNatural DEF CommandInv
<1>2. TreeTypeOK /\ CommandInv /\ [Next]_vars => [StepsLeft' < StepsLeft]_commandVars
  <2> SUFFICES ASSUME TreeTypeOK, CommandInv, [Next]_vars
               PROVE  [StepsLeft' < StepsLeft]_commandVars
    OBVIOUS
  <2>1. CASE Command
    BY <2>1, CommandStepRunsDown
  <2>2. CASE ~ Command
    BY <2>2 DEF Next, TreeStep, Observer, Main, Signal, vars
  <2> QED BY <2>1, <2>2
<1> QED BY <1>1, <1>2, CommandInvariant, PTL DEF Spec, CommandRunsDown

----------------------------------------------------------------------------
(* What the invariant of the command gives.                                 *)

LEMMA AllDone ==
    ASSUME CommandInv, TreeTypeOK, report # NoReport
    PROVE  /\ \A p \in Paths : ~ Waiting(p) /\ p # current
           /\ exit = ExitCode(report)
           /\ \E name \in [Paths -> Paths] :
                /\ report = Summary(Renamed(findings, name), total)
                /\ report.findings = Renamed(findings, name)
                /\ Renamed(findings, name) \subseteq Finding /\ total \in Nat
                /\ \A p \in walked : Unchanged(p) => name[p] = p
<1>1. toList = {} /\ todo = {} /\ cmd = "done" /\ exit = ExitCode(report)
  BY DEF CommandInv, ReportInv
<1>2. current = NoPath
  BY <1>1 DEF CommandInv, WalkInv
<1>3. PICK name \in [Paths -> Paths] :
        /\ report = Summary(Renamed(findings, name), total)
        /\ \A p \in walked : Unchanged(p) => name[p] = p
  BY DEF CommandInv, ReportInv
<1>4. Renamed(findings, name) \subseteq Finding /\ total \in Nat
  BY RenamedType DEF CommandInv, CommandTypeOK
<1>5. report.findings = Renamed(findings, name)
  BY <1>3, <1>4, SummaryType
<1> QED BY <1>1, <1>2, <1>3, <1>4, <1>5, MembersAssumption DEF Waiting

\* What is renamed: a finding of an engine keeps all but its file, and that too if the
\* file stayed.
LEMMA RenamedIs ==
    ASSUME NEW fs, fs \subseteq Finding, NEW name \in [Paths -> Paths]
    PROVE  /\ \A f \in fs : ByEngine(f) /\ name[f.file] = f.file => f \in Renamed(fs, name)
           /\ \A g \in Renamed(fs, name) : \E f \in fs :
                /\ g.by = f.by /\ g.member = f.member
                /\ ByEngine(f) => g.file = name[f.file] /\ (name[f.file] = f.file => g = f)
                /\ ~ ByEngine(f) => g = f
           /\ \A f \in fs : \E g \in Renamed(fs, name) : g.by = f.by /\ g.member = f.member
<1>1. \A f \in fs : LET g == [f EXCEPT !.file = name[f.file]]
                   IN  /\ g.file = name[f.file] /\ g.by = f.by /\ g.member = f.member
                       /\ name[f.file] = f.file => g = f
  BY DEF Finding
<1> QED BY <1>1 DEF Renamed

LEMMA CompleteFromInv == TreeTypeOK /\ CommandInv => ReportComplete
<1> SUFFICES ASSUME TreeTypeOK, CommandInv, report # NoReport, NEW p \in Paths, Scannable(p)
             PROVE  /\ Said(p, RanOn(p)) \subseteq FindingsOf(report.findings, p)
                    /\ FindingsOf(report.findings, p) # Said(p, RanOn(p)) =>
                         \E q \in walked \ {p} : ~ Unchanged(q)
  BY DEF ReportComplete
<1> USE DEF CommandInv
<1>1. PICK name \in [Paths -> Paths] :
        /\ report.findings = Renamed(findings, name)
        /\ \A q \in walked : Unchanged(q) => name[q] = q
  BY AllDone
<1>2. findings \subseteq Finding /\ FindingsOf(Made, p) = Said(p, RanOn(p))
  BY AllDone DEF FindingsInv, CommandTypeOK
<1>3. Unchanged(p) /\ p \notin unpacked
  BY DEF Scannable
<1>4. Said(p, RanOn(p)) \subseteq FindingsOf(report.findings, p)
  BY <1>1, <1>2, <1>3, RenamedIs DEF FindingsOf, Made, FindingsInv
<1>5. ASSUME NEW g \in FindingsOf(report.findings, p), g \notin Said(p, RanOn(p))
      PROVE  \E q \in walked \ {p} : ~ Unchanged(q)
  <2>1. PICK f \in findings :
          /\ ByEngine(f) => g.file = name[f.file] /\ (name[f.file] = f.file => g = f)
          /\ ~ ByEngine(f) => g = f
    BY <1>1, <1>2, <1>5, RenamedIs DEF FindingsOf
  <2>2. g.file = p
    BY <1>5 DEF FindingsOf
  <2>3. CASE ByEngine(f)
    <3>1. f \in Made /\ f.file \in walked
      BY <2>3 DEF Made, FindingsInv
    <3>2. f.file # p
      BY <1>1, <1>2, <1>3, <1>5, <2>1, <2>2, <2>3, <3>1 DEF FindingsOf
    <3> QED BY <1>1, <2>1, <2>2, <2>3, <3>1, <3>2
  <2>4. CASE ~ ByEngine(f)
    BY <1>3, <2>1, <2>2, <2>4 DEF OthersInv
  <2> QED BY <2>3, <2>4
<1> QED BY <1>4, <1>5

\* A written report has of every file that was there and stayed what each engine that
\* ran on it has to say, under its name: none is lost to a failure of a later engine,
\* to other files that change or become links to it, or to directories that cannot be
\* read.  What else it says of the file comes from another that was changed.
THEOREM ReportIsComplete == Spec => []ReportComplete
BY CommandInvariant, CompleteFromInv, PTL

\* A report counts a path exactly if some finding is more than a skipped archive.
LEMMA FlaggedCounts ==
    ASSUME NEW fs, fs \subseteq Finding, NEW k \in Nat
    PROVE  ExitCode(Summary(fs, k)) = Infected <=> \E f \in fs : f.by # "skipped"
<1> DEFINE bad == {"hash", "pattern"}
           odd == {"heuristic", "entropy"}
<1>1. \A f \in fs : f.by # "skipped" <=> f.by \in bad \union odd
  BY EnginesAre DEF Finding
<1>2. InfectedPaths(fs) = {} <=> \A f \in fs : f.by \notin bad
  BY DEF InfectedPaths, KeysBy
<1>3. InfectedPaths(fs) = {} => (SuspiciousPaths(fs) = {} <=> \A f \in fs : f.by \notin odd)
  BY DEF SuspiciousPaths, KeysBy
<1>4. /\ Summary(fs, k).infected > 0 <=> InfectedPaths(fs) # {}
      /\ Summary(fs, k).suspicious > 0 <=> SuspiciousPaths(fs) # {}
  <2>1. /\ IsFiniteSet(InfectedPaths(fs)) /\ IsFiniteSet(SuspiciousPaths(fs))
        /\ Summary(fs, k).infected = Cardinality(InfectedPaths(fs))
        /\ Summary(fs, k).suspicious = Cardinality(SuspiciousPaths(fs))
    BY SummaryType
  <2>2. ASSUME NEW S, IsFiniteSet(S)
        PROVE  Cardinality(S) > 0 <=> S # {}
    BY <2>2, FS_EmptySet, FS_CardinalityType
  <2> QED BY <2>1, <2>2
<1>5. ExitCode(Summary(fs, k)) = Infected
        <=> InfectedPaths(fs) # {} \/ SuspiciousPaths(fs) # {}
  BY <1>4 DEF ExitCode, Infected, Clean
<1> QED BY <1>1, <1>2, <1>3, <1>5

LEMMA TruthfulFromInv == TreeTypeOK /\ CommandInv => ExitTruthful
<1> SUFFICES ASSUME TreeTypeOK, CommandInv PROVE ExitTruthful
  OBVIOUS
<1> USE DEF CommandInv
<1>1. report # NoReport =>
        (exit = Infected <=> \E f \in report.findings : f.by # "skipped")
  BY AllDone, FlaggedCounts
<1>2. exit = Error => report = NoReport
  BY AllDone, ExitCodeType
<1>3. exit = Clean => report # NoReport
  BY DEF ReportInv
<1>4. ASSUME exit = Clean, NEW p \in Paths, Scannable(p), NEW i \in RanOn(p)
      PROVE  Order[i] \notin Flags[content[p]]
  <2>1. \A f \in report.findings : f.by = "skipped"
    BY <1>1, <1>3, <1>4 DEF Clean, Infected
  <2>2. Said(p, RanOn(p)) \subseteq FindingsOf(report.findings, p)
    BY <1>3, <1>4, CompleteFromInv DEF ReportComplete
  <2>3. i \in Positions
    BY <1>4, LastEngineType DEF RanOn, Positions, CommandTypeOK
  <2>4. EngineFinding(p, i).by \in Engines
    BY <2>3, EngineFindingType DEF Engines
  <2>5. EngineFinding(p, i) \notin report.findings
    BY <2>1, <2>4, EnginesAre
  <2> QED BY <2>2, <2>5 DEF Said, FindingsOf
<1> QED BY <1>1, <1>2, <1>3, <1>4 DEF ExitTruthful

\* Exit code 0 comes only with a report and only if no engine flags a file it ran
\* on, 2 never with a report, and with a report 1 means there is a finding.
THEOREM ExitIsTruthful == Spec => []ExitTruthful
BY CommandInvariant, TruthfulFromInv, PTL

\* The two counts of a summary together are the paths with a finding.
LEMMA BadCount ==
    ASSUME NEW fs, fs \subseteq Finding
    PROVE  LET bad == InfectedPaths(fs) \union SuspiciousPaths(fs)
           IN  /\ bad = KeysBy(fs, Engines)
               /\ IsFiniteSet(bad)
               /\ Cardinality(bad) = Cardinality(InfectedPaths(fs))
                                       + Cardinality(SuspiciousPaths(fs))
<1> DEFINE I == InfectedPaths(fs)
           S == SuspiciousPaths(fs)
<1>1. I \union S = KeysBy(fs, Engines)
  BY EnginesAre DEF InfectedPaths, SuspiciousPaths, KeysBy
<1>2. IsFiniteSet(I) /\ IsFiniteSet(S)
  BY SummaryType
<1>3. I \intersect S = {}
  BY DEF SuspiciousPaths
<1>4. Cardinality(I) \in Nat /\ Cardinality(S) \in Nat
  BY <1>2, FS_CardinalityType
<1>5. /\ IsFiniteSet(I \union S)
      /\ Cardinality(I \union S) = Cardinality(I) + Cardinality(S) - Cardinality(I \intersect S)
  BY <1>2, FS_Union
<1>6. Cardinality(I \union S) = Cardinality(I) + Cardinality(S)
  BY <1>3, <1>4, <1>5, FS_EmptySet
<1> QED BY <1>1, <1>5, <1>6

\* A file named by a finding is counted at least once, and once if no member is.
LEMMA NamedCount ==
    ASSUME NEW fs, fs \subseteq Finding
    PROVE  LET bad == KeysBy(fs, Engines)
           IN  /\ IsFiniteSet(Named(fs))
               /\ Cardinality(Named(fs)) <= Cardinality(bad)
               /\ (\A f \in fs : f.member = Itself) => Cardinality(bad) = Cardinality(Named(fs))
<1> DEFINE bad == KeysBy(fs, Engines)
           toFile == [k \in bad |-> k[1]]
           toKey == [p \in Named(fs) |-> <<p, Itself>>]
<1>1. IsFiniteSet(bad)
  BY KeysFinite
<1>2. \A f \in fs : f.by \in Engines <=> f.by # "skipped"
  BY EnginesAre DEF Finding
<1>3. Named(fs) = {k[1] : k \in bad}
  <2>1. {g \in fs : g.by # "skipped"} = {g \in fs : g.by \in Engines}
    BY <1>2
  <2> DEFINE flagged == {g \in fs : g.by \in Engines}
  <2>2. Named(fs) = {f.file : f \in flagged} /\ bad = {<<f.file, f.member>> : f \in flagged}
    BY <2>1 DEF Named, KeysBy, Key
  <2> HIDE DEF flagged, bad
  <2>3. \A f \in flagged : <<f.file, f.member>>[1] = f.file
    OBVIOUS
  <2> QED BY <2>2, <2>3
<1>4. toFile \in Surjection(bad, Named(fs))
  BY <1>3 DEF Surjection
<1>5. IsFiniteSet(Named(fs)) /\ Cardinality(Named(fs)) <= Cardinality(bad)
  BY <1>1, <1>4, FS_Surjection
<1>6. ASSUME \A f \in fs : f.member = Itself
      PROVE  Cardinality(bad) = Cardinality(Named(fs))
  <2>1. bad = {<<p, Itself>> : p \in Named(fs)}
    BY <1>2, <1>6 DEF KeysBy, Key, Named
  <2>2. toKey \in Surjection(Named(fs), bad)
    BY <2>1 DEF Surjection
  <2>3. Cardinality(bad) <= Cardinality(Named(fs))
    BY <1>5, <2>2, FS_Surjection
  <2> QED BY <1>1, <1>5, <2>3, FS_CardinalityType
<1> QED BY <1>5, <1>6

LEMMA CountsFromInv == TreeTypeOK /\ CommandInv => CountsRight
<1> DEFINE flagged == {p \in Paths : Scannable(p) /\ Said(p, RanOn(p)) # {}}
           named == Named(report.findings)
<1> SUFFICES ASSUME TreeTypeOK, CommandInv, report # NoReport
             PROVE  /\ report.clean <= Cardinality(walked \ flagged)
                    /\ (\A p \in walked : Unchanged(p))
                       /\ (\A f \in report.findings : f.member = Itself) =>
                           /\ report.clean = Cardinality(walked \ named)
                           /\ report.clean + report.infected + report.suspicious
                                 = report.total
  BY DEF CountsRight
<1> USE DEF CommandInv
<1> DEFINE bad == report.infected + report.suspicious
           clean == report.clean
           all == Cardinality(walked)
           left == Cardinality(walked \ named)
           most == Cardinality(walked \ flagged)
<1>1. PICK name \in [Paths -> Paths] :
        /\ report = Summary(Renamed(findings, name), total)
        /\ report.findings = Renamed(findings, name)
        /\ Renamed(findings, name) \subseteq Finding /\ total \in Nat
        /\ \A p \in walked : Unchanged(p) => name[p] = p
  BY AllDone
<1>2. /\ IsFiniteSet(walked) /\ all \in Nat /\ total = all
      /\ findings \subseteq Finding /\ report.findings \subseteq Finding
  BY <1>1, PathsAssumption, FS_Subset, FS_CardinalityType DEF CommandTypeOK, FindingsInv
<1>3. /\ report.total = all
      /\ clean = CleanCount(all, bad)
      /\ report.infected \in Nat /\ report.suspicious \in Nat
  <2>1. Summary(Renamed(findings, name), total) \in Reports
    BY <1>1, SummaryType
  <2> QED BY <1>1, <1>2, <2>1, SummaryType DEF Reports
<1>4. bad = Cardinality(KeysBy(report.findings, Engines))
  <2>1. bad = Cardinality(InfectedPaths(report.findings))
                + Cardinality(SuspiciousPaths(report.findings))
    BY <1>1, SummaryType
  <2> QED BY <1>2, <2>1, BadCount
<1>5. /\ Cardinality(named) <= bad
      /\ (\A f \in report.findings : f.member = Itself) => bad = Cardinality(named)
      /\ Cardinality(named) \in Nat /\ IsFiniteSet(named)
  BY <1>2, <1>4, NamedCount, FS_CardinalityType
<1>6. flagged \subseteq walked /\ flagged \subseteq named
  <2> SUFFICES ASSUME NEW p \in flagged PROVE p \in walked /\ p \in named
    OBVIOUS
  <2>1. PICK i \in RanOn(p) : EngineFinding(p, i) \in Said(p, RanOn(p))
    BY DEF Said
  <2>2. i \in Positions
    BY LastEngineType DEF RanOn, Positions, CommandTypeOK
  <2>3. Said(p, RanOn(p)) = FindingsOf(Made, p)
    BY AllDone DEF FindingsInv
  <2>4. Said(p, RanOn(p)) \subseteq FindingsOf(report.findings, p)
    BY CompleteFromInv DEF ReportComplete
  <2>5. EngineFinding(p, i).file = p /\ EngineFinding(p, i).by # "skipped"
    BY <2>2, EngineFindingType, ByEngineOrNot DEF ByEngine
  <2> QED BY <2>1, <2>3, <2>4, <2>5 DEF FindingsOf, FindingsInv, Named
<1>7. most = all - Cardinality(flagged) /\ Cardinality(flagged) <= Cardinality(named)
      /\ Cardinality(flagged) \in Nat
  <2>1. walked \intersect flagged = flagged
    BY <1>6
  <2>2. most = all - Cardinality(walked \intersect flagged)
    BY <1>2, FS_Difference
  <2> QED BY <1>5, <1>6, <2>1, <2>2, FS_Subset, FS_CardinalityType
<1>8. clean = IF all > bad THEN all - bad ELSE 0
  BY <1>3 DEF CleanCount
<1>9. Cardinality(flagged) <= all
  BY <1>2, <1>6, FS_Subset
<1>10. ASSUME \A p \in walked : Unchanged(p), \A f \in report.findings : f.member = Itself
       PROVE  left = all - Cardinality(named) /\ left \in Nat /\ bad = Cardinality(named)
  <2>1. named \subseteq walked
    <3> SUFFICES ASSUME NEW g \in report.findings, g.by # "skipped" PROVE g.file \in walked
      BY DEF Named
    <3>1. PICK f \in findings : /\ g.by = f.by /\ g.member = f.member
                                /\ ByEngine(f) => g.file = name[f.file]
      BY <1>1, <1>2, RenamedIs
    <3>2. g.member = Itself
      BY <1>10
    <3>3. ByEngine(f)
      <4>1. f.member = Itself /\ f.by # "skipped"
        BY <3>1, <3>2
      <4> QED BY <4>1 DEF ByEngine
    <3>4. f.file \in walked
      BY <3>3 DEF FindingsInv, Made
    <3>5. name[f.file] = f.file
      BY <1>1, <1>10, <3>4
    <3>6. g.file = name[f.file]
      BY <3>1, <3>3
    <3> QED BY <3>4, <3>5, <3>6
  <2>2. walked \intersect named = named
    BY <2>1
  <2>3. bad = Cardinality(named)
    BY <1>5, <1>10
  <2>4. left = all - Cardinality(walked \intersect named) /\ IsFiniteSet(walked \ named)
    BY <1>2, FS_Difference
  <2>5. left \in Nat
    BY <2>4, FS_CardinalityType
  <2> QED BY <2>2, <2>3, <2>4, <2>5
<1> HIDE DEF flagged, named, clean, all, left, most
<1>11. bad \in Nat
  BY <1>3
<1>12. report.infected + report.suspicious = bad
  OBVIOUS
<1> HIDE DEF bad
<1>13. clean <= most
  BY <1>2, <1>5, <1>7, <1>8, <1>9, <1>11
<1>14. ASSUME \A p \in walked : Unchanged(p), \A f \in report.findings : f.member = Itself
       PROVE  clean = left /\ clean + bad = all
  BY <1>2, <1>8, <1>10, <1>11, <1>14
<1>15. clean + bad = all => report.clean + report.infected + report.suspicious = report.total
  <2>1. clean \in Nat
    BY <1>2, <1>8, <1>11
  <2> QED BY <1>3, <1>12, <2>1 DEF clean
<1> QED BY <1>13, <1>14, <1>15 DEF clean, left, most

\* The summary adds up: no file that stayed and that an engine flagged is counted as
\* clean, whatever became of the others; and if all stayed and no member of an archive
\* is named, the clean files are exactly those without a finding that is more than a
\* skip.
THEOREM CountsAreRight == Spec => []CountsRight
BY CommandInvariant, CountsFromInv, PTL

----------------------------------------------------------------------------
(* The invariant of the watcher.                                            *)

\* What the engines before position n have to say of a content.
Says(c, n) == {Order[i] : i \in {j \in 1 .. (n - 1) : Order[j] \in Flags[c]}}

\* A scan under way that is quiet has exactly that; and as long as the file is at
\* the version the scan began with, the scan is quiet and about its content.
ScanInv ==
    observer = "scan" =>
        /\ scan \in Scan
        /\ scan.content \notin Special
        /\ scan.version <= version[scan.path]
        /\ version[scan.path] = scan.version =>
             scan.quiet /\ content[scan.path] = scan.content
        /\ scan.quiet => scan.found = Says(scan.content, scan.at)

WatcherInv == WatcherTypeOK /\ ScanInv /\ LogExact

LEMMA SaysAll == ASSUME NEW c \in Contents PROVE Says(c, 5) = Flags[c]
<1>1. Flags[c] \subseteq Engines
  BY FlagsAssumption
<1>2. 1 .. (5 - 1) = Positions
  BY DEF Positions
<1> QED BY <1>1, <1>2 DEF Says, Engines

LEMMA SaysNext ==
    ASSUME NEW c, NEW n \in Positions
    PROVE  Says(c, n + 1) = Says(c, n) \union (IF Order[n] \in Flags[c] THEN {Order[n]} ELSE {})
<1>1. 1 .. ((n + 1) - 1) = (1 .. (n - 1)) \union {n}
  BY DEF Positions
<1> QED BY <1>1 DEF Says

LEMMA AnnounceType ==
    ASSUME queue \in Seq(Event), NEW p \in Paths,
           NEW kind \in {"created", "modified", "deleted", "moved"}, Announce(kind, p)
    PROVE  queue' \in Seq(Event)
<1>1. [kind |-> kind, path |-> p] \in Event
  BY DEF Event
<1> QED BY <1>1 DEF Announce

LEMMA TreeKeepsWatcher ==
    ASSUME TreeTypeOK, WatcherInv, TreeStep
    PROVE  WatcherInv'
<1> USE DEF WatcherInv
<1>1. /\ UNCHANGED <<main, observer, scan, log>>
      /\ queue' \in Seq(Event) /\ silent' \subseteq Paths /\ lost' \subseteq Paths
  <2>1. CASE \E p \in Paths, c \in Contents : SeenWrite(p, c)
    <3>1. PICK p \in Paths, c \in Contents : SeenWrite(p, c)
      BY <2>1
    <3>2. CASE Watches
      <4>1. \E kind \in {"created", "modified", "deleted", "moved"} : Announce(kind, p)
        BY <3>1, <3>2 DEF SeenWrite
      <4>2. queue' \in Seq(Event)
        BY <4>1, AnnounceType DEF WatcherTypeOK
      <4> QED BY <3>1, <3>2, <4>2 DEF SeenWrite, WatcherTypeOK
    <3>3. CASE ~ Watches
      BY <3>1, <3>3 DEF SeenWrite, WatcherTypeOK
    <3> QED BY <3>2, <3>3
  <2>2. CASE \E p \in Paths : SeenDelete(p)
    BY <2>2, AnnounceType DEF SeenDelete, WatcherTypeOK
  <2>3. CASE \E p, q \in Paths : SeenMove(p, q)
    <3>1. PICK p \in Paths, q \in Paths : SeenMove(p, q)
      BY <2>3
    <3>2. CASE Watches
      <4>1. queue' \in Seq(Event)
        BY <3>1, <3>2, AnnounceType DEF SeenMove, WatcherTypeOK
      <4> QED BY <3>1, <3>2, <4>1 DEF SeenMove, WatcherTypeOK
    <3>3. CASE ~ Watches
      BY <3>1, <3>3 DEF SeenMove, WatcherTypeOK
    <3> QED BY <3>2, <3>3
  <2> QED BY <2>1, <2>2, <2>3 DEF TreeStep
<1>2. WatcherTypeOK'
  BY <1>1 DEF WatcherTypeOK
<1>3. LogExact'
  BY <1>1 DEF LogExact
<1>4. ScanInv'
  <2>1. TreeChanged /\ clock \in Nat
    BY TreeStepChanges DEF TreeTypeOK
  <2>2. ASSUME observer = "scan"
        PROVE  /\ scan.version <= version'[scan.path]
               /\ version'[scan.path] = scan.version =>
                    scan.quiet /\ content'[scan.path] = scan.content
    <3>1. scan.path \in Paths /\ version[scan.path] \in 0 .. clock /\ scan.version \in Nat
          /\ scan.version <= version[scan.path]
      BY <2>2 DEF ScanInv, Scan, TreeTypeOK
    <3> QED BY <2>1, <2>2, <3>1 DEF TreeChanged, ScanInv
  <2> QED BY <1>1, <2>2 DEF ScanInv
<1> QED BY <1>2, <1>3, <1>4

LEMMA WatcherStepKeeps ==
    ASSUME TreeTypeOK, WatcherInv, Observer \/ Main \/ Signal
    PROVE  WatcherInv'
<1> USE DEF WatcherInv
<1>0. /\ UNCHANGED <<content, version, clock>>
      /\ \A p \in Paths : version[p] \in 0 .. MaxChanges /\ version[p] \in Nat
  BY ChangesAssumption DEF Observer, Main, Signal, treeVars, TreeTypeOK
<1>1. CASE Dispatch
  <2> DEFINE e == Head(queue)
             new == [path |-> e.path, version |-> version[e.path],
                     content |-> content[e.path], at |-> 1, found |-> {}, quiet |-> TRUE]
  <2>1. e \in Event /\ Tail(queue) \in Seq(Event)
    BY <1>1 DEF Dispatch, WatcherTypeOK
  <2>2. /\ queue' = Tail(queue) /\ UNCHANGED <<main, log, silent, lost>>
        /\ observer = "waiting"
    BY <1>1 DEF Dispatch
  <2>3. CASE e.kind \in Handled /\ IsFile(e.path)
    <3>1. scan' = new /\ observer' = "scan"
      BY <1>1, <2>3 DEF Dispatch
    <3>2. new \in Scan
      <4>1. e.path \in Paths /\ content[e.path] \in Contents
        BY <2>1, <2>3 DEF Event, IsFile, Holds, TreeTypeOK
      <4> HIDE DEF e
      <4> QED BY <1>0, <4>1 DEF Scan
    <3>3. Says(new.content, 1) = {}
      BY DEF Says
    <3>4. ScanInv'
      <4>1. e.path \in Paths /\ new.content \notin Special
        BY <2>1, <2>3 DEF Event, IsFile
      <4> HIDE DEF e
      <4> QED BY <1>0, <3>1, <3>2, <3>3, <4>1 DEF ScanInv
    <3> HIDE DEF new
    <3> QED BY <2>1, <2>2, <3>1, <3>2, <3>4 DEF WatcherTypeOK, LogExact
  <2>4. CASE ~ (e.kind \in Handled /\ IsFile(e.path))
    <3>1. UNCHANGED <<scan, observer>>
      BY <1>1, <2>4 DEF Dispatch
    <3> QED BY <2>1, <2>2, <3>1 DEF WatcherTypeOK, LogExact, ScanInv
  <2> QED BY <2>3, <2>4
<1>2. CASE ScanEngine
  <2>0. PICK c \in ReadAs(scan.path) :
          scan' = [scan EXCEPT
                     !.at = @ + 1,
                     !.found = IF Order[scan.at] \in Flags[c] THEN @ \union {Order[scan.at]}
                               ELSE @,
                     !.quiet = version[scan.path] = scan.version]
    BY <1>2 DEF ScanEngine
  <2> DEFINE found == IF Order[scan.at] \in Flags[c]
                      THEN scan.found \union {Order[scan.at]} ELSE scan.found
             quiet == version[scan.path] = scan.version
  <2>1. /\ observer = "scan" /\ scan \in Scan /\ scan.at \in Positions
        /\ UNCHANGED <<main, observer, queue, log, silent, lost>>
    BY <1>2 DEF ScanEngine, ScanInv
  <2>2. scan' = [scan EXCEPT !.at = scan.at + 1, !.found = found, !.quiet = quiet]
    BY <2>0
  <2>3. found \in SUBSET Engines /\ quiet \in BOOLEAN /\ scan.at + 1 \in 1 .. 5
    BY <2>1 DEF Scan, Engines, Positions
  <2> HIDE DEF found, quiet
  <2>4. /\ scan' \in Scan
        /\ scan'.at = scan.at + 1 /\ scan'.found = found /\ scan'.quiet = quiet
        /\ scan'.path = scan.path /\ scan'.version = scan.version
        /\ scan'.content = scan.content
    BY <2>1, <2>2, <2>3 DEF Scan
  <2>5. quiet => found = Says(scan.content, scan.at + 1)
    <3>1. quiet => c = scan.content /\ scan.found = Says(scan.content, scan.at)
      <4>1. quiet => content[scan.path] = scan.content /\ ~ IsLink(scan.path)
        BY <2>1, LinksAssumption DEF ScanInv, IsLink, quiet
      <4>2. scan.path \in Paths
        BY <2>1 DEF Scan
      <4> QED BY <2>0, <2>1, <4>1, <4>2, NoLinkStays DEF ScanInv, quiet
    <3>2. Says(scan.content, scan.at + 1) =
            Says(scan.content, scan.at) \union
              (IF Order[scan.at] \in Flags[scan.content] THEN {Order[scan.at]} ELSE {})
      BY <2>1, SaysNext
    <3> QED BY <3>1, <3>2 DEF found
  <2>6. scan.path \in Paths
    BY <2>1 DEF Scan
  <2>7. ScanInv'
    <3>1. scan.version <= version[scan.path]
          /\ (version[scan.path] = scan.version => content[scan.path] = scan.content)
          /\ scan.content \notin Special
      BY <2>1 DEF ScanInv
    <3> QED BY <1>0, <2>4, <2>5, <3>1 DEF ScanInv, quiet
  <2> QED BY <2>1, <2>4, <2>7 DEF WatcherTypeOK, LogExact
<1>3. CASE ScanRaises
  BY <1>3 DEF ScanRaises, ScanOver, LosesLast, WatcherTypeOK, LogExact, ScanInv, Scan
<1>4. CASE AppendLog \/ AppendFails
  <2>1. /\ observer = "scan" /\ scan \in Scan /\ scan.at \notin Positions
        /\ ScanOver
    BY <1>4 DEF AppendLog, AppendFails, ScanInv
  <2>2. scan.at = 5
    BY <2>1 DEF Scan, Positions
  <2>3. scan.quiet => scan.found = Flags[scan.content]
    BY <2>1, <2>2, SaysAll DEF ScanInv, Scan
  <2>4. PICK engines \in SUBSET scan.found, whole \in BOOLEAN :
          /\ log' \subseteq log \union {Lines(engines, whole)}
          /\ whole => engines = scan.found
    BY <1>4, <2>1 DEF AppendLog, AppendFails
  <2>5. Lines(engines, whole) \in Batch
    BY <2>1, <2>4 DEF Lines, Batch, Scan
  <2>6. lost' \subseteq Paths
    BY <1>4, <2>1 DEF AppendLog, AppendFails, LosesLast, WatcherTypeOK, Scan
  <2>7. LogExact'
    BY <2>3, <2>4 DEF LogExact, Lines
  <2> QED BY <2>1, <2>4, <2>5, <2>6, <2>7 DEF ScanOver, WatcherTypeOK, ScanInv
<1>5. CASE DispatchRaises \/ Terminate \/ LeaveLoop
  BY <1>0, <1>5 DEF DispatchRaises, Terminate, LeaveLoop, WatcherTypeOK, LogExact, ScanInv
<1>6. CASE Leave \/ KilledDaemon
  <2>1. /\ main' = "exited" /\ observer' = "ended" /\ queue' = <<>> /\ scan' = NoScan
        /\ UNCHANGED <<log, silent, lost>>
    BY <1>6 DEF Leave, KilledDaemon
  <2>2. queue' \in Seq(Event)
    BY <2>1
  <2>3. WatcherTypeOK' /\ ScanInv'
    BY <2>1, <2>2 DEF WatcherTypeOK, ScanInv
  <2>4. LogExact'
    BY <2>1 DEF LogExact
  <2> QED BY <2>3, <2>4
<1> QED BY <1>1, <1>2, <1>3, <1>4, <1>5, <1>6 DEF Observer, ObserverStep, Main, MainStep, Signal

LEMMA WatcherInvInit == Init => WatcherInv
<1> SUFFICES ASSUME Init PROVE WatcherInv
  OBVIOUS
<1>1. /\ main \in {"off", "loop"} /\ observer \in {"waiting", "ended"}
      /\ queue = <<>> /\ scan = NoScan /\ log = {} /\ silent \subseteq Paths /\ lost = {}
  BY DEF Init, WatcherInit, WatcherOff
<1> QED BY <1>1 DEF WatcherInv, WatcherTypeOK, ScanInv, LogExact

LEMMA WatcherInvStep == TreeTypeOK /\ WatcherInv /\ [Next]_vars => WatcherInv'
<1> SUFFICES ASSUME TreeTypeOK, WatcherInv, [Next]_vars PROVE WatcherInv'
  OBVIOUS
<1>1. CASE TreeStep
  BY <1>1, TreeKeepsWatcher
<1>2. CASE Observer \/ Main \/ Signal
  BY <1>2, WatcherStepKeeps
<1>3. CASE UNCHANGED <<treeVars, watcherVars>>
  BY <1>3 DEF treeVars, watcherVars, WatcherInv, WatcherTypeOK, ScanInv, LogExact
<1> QED BY <1>1, <1>2, <1>3 DEF Next, Command, vars

\* The inductive invariant of the watching daemon: what the scan under way has found
\* is what its file has to say, as long as the file did not change.
THEOREM WatcherInvariant == Spec => []WatcherInv
BY CommandInvariant, WatcherInvInit, WatcherInvStep, PTL DEF Spec

\* The variables keep their types.
THEOREM TypeCorrect == Spec => []TypeOK
<1>1. TreeTypeOK /\ CommandInv /\ WatcherInv => TypeOK
  BY DEF TypeOK, CommandInv, WatcherInv
<1> QED BY <1>1, CommandInvariant, WatcherInvariant, PTL

\* A scan during which the file did not change logs all its findings or none, and
\* nothing else; a failing engine leaves no line of those before it.
THEOREM LogIsExact == Spec => []LogExact
<1>1. WatcherInv => LogExact
  BY DEF WatcherInv
<1> QED BY <1>1, WatcherInvariant, PTL

----------------------------------------------------------------------------
(* Nothing is forgotten between an event and the log.                       *)

Pending(p) == \E i \in DOMAIN queue : queue[i].path = p /\ queue[i].kind \in Handled
UnderScan(p) == observer = "scan" /\ scan.path = p /\ scan.version = version[p]

\* The contents a file was last given by a create or a write, if flagged, are in the
\* log, or an event for the path waits in the queue, or the scan under way is of just
\* these contents: an event that the queue skipped, one that was handed over while a
\* scan ran, or a failure on earlier contents loses none.  It is the safety part of
\* LastWriteScanned (filesystem_watcher.py lines 18-34, daemon_scan_service.py lines
\* 49-101).
NothingForgotten ==
    Watches =>
        \A p \in Paths \ (silent \union lost) :
            Flagged(p) => Pending(p) \/ UnderScan(p) \/ LastScanned(p)

\* An event that is announced is in the queue, and so are those that were.
LEMMA AnnouncePends ==
    ASSUME queue \in Seq(Event), NEW q \in Paths,
           NEW kind \in {"created", "modified", "deleted", "moved"}, Announce(kind, q)
    PROVE  /\ kind \in Handled => Pending(q)'
           /\ \A p \in Paths : Pending(p) => Pending(p)'
<1> DEFINE e == [kind |-> kind, path |-> q]
<1>1. e \in Event /\ e.kind = kind /\ e.path = q
  BY DEF Event
<1> HIDE DEF e
<1>2. CASE queue # <<>> /\ queue[Len(queue)] = e
  <2>1. queue' = queue
    BY <1>2 DEF Announce, e
  <2>2. Len(queue) \in DOMAIN queue
    BY <1>2
  <2> QED BY <1>1, <1>2, <2>1, <2>2 DEF Pending
<1>3. CASE ~ (queue # <<>> /\ queue[Len(queue)] = e)
  <2>1. queue' = Append(queue, e)
    BY <1>3 DEF Announce, e
  <2>2. /\ DOMAIN queue' = 1 .. (Len(queue) + 1)
        /\ queue'[Len(queue) + 1] = e
        /\ \A i \in DOMAIN queue : i \in DOMAIN queue' /\ queue'[i] = queue[i]
    BY <1>1, <2>1
  <2>3. Len(queue) + 1 \in DOMAIN queue'
    BY <2>2
  <2> QED BY <1>1, <2>2, <2>3 DEF Pending
<1> QED BY <1>2, <1>3

\* A change of the tree either leaves what is known of a file as it was, or puts it
\* in the queue, or takes it out of the statement.
LEMMA TreeForgetsNothing ==
    ASSUME TreeTypeOK, WatcherInv, NothingForgotten, TreeStep
    PROVE  NothingForgotten'
<1> SUFFICES ASSUME Watches', NEW p \in Paths, p \notin silent' \union lost', Flagged(p)'
             PROVE  Pending(p)' \/ UnderScan(p)' \/ LastScanned(p)'
  BY DEF NothingForgotten
<1> DEFINE Kept == version'[p] = version[p] /\ content'[p] = content[p]
<1>1. queue \in Seq(Event) /\ version \in [Paths -> 0 .. clock]
      /\ content \in [Paths -> Contents \union {Absent}]
  BY DEF WatcherInv, WatcherTypeOK, TreeTypeOK
<1>2. UNCHANGED <<main, observer, scan, log>> /\ Watches
  BY DEF TreeStep, SeenWrite, SeenDelete, SeenMove, Watches
<1>3. ASSUME Kept, p \notin silent \union lost, Pending(p) => Pending(p)'
      PROVE  Pending(p)' \/ UnderScan(p)' \/ LastScanned(p)'
  <2>1. Flagged(p)
    BY <1>3 DEF Flagged, IsFile, Holds
  <2>2. Pending(p) \/ UnderScan(p) \/ LastScanned(p)
    BY <1>2, <1>3, <2>1 DEF NothingForgotten
  <2> QED BY <1>2, <1>3, <2>2 DEF UnderScan, LastScanned
<1>4. ASSUME NEW q \in Paths, NEW c \in Contents, SeenWrite(q, c)
      PROVE  Pending(p)' \/ UnderScan(p)' \/ LastScanned(p)'
  <2>1. PICK kind \in Handled : Announce(kind, q)
    BY <1>2, <1>4 DEF SeenWrite, Handled
  <2>2. kind \in {"created", "modified", "deleted", "moved"}
    BY DEF Handled
  <2>3. CASE q = p
    BY <1>1, <2>1, <2>2, <2>3, AnnouncePends
  <2>4. CASE q # p
    <3>1. Kept /\ p \notin silent \union lost
      BY <1>1, <1>2, <1>4, <2>4 DEF SeenWrite, Write
    <3>2. Pending(p) => Pending(p)'
      BY <1>1, <2>1, <2>2, AnnouncePends
    <3> QED BY <1>3, <3>1, <3>2
  <2> QED BY <2>3, <2>4
<1>5. ASSUME NEW q \in Paths, SeenDelete(q)
      PROVE  Pending(p)' \/ UnderScan(p)' \/ LastScanned(p)'
  <2>1. Announce("deleted", q) /\ q # p
    BY <1>1, <1>2, <1>5 DEF SeenDelete, Delete, Write, Flagged, IsFile, Holds
  <2>2. Kept /\ p \notin silent \union lost
    BY <1>1, <1>5, <2>1 DEF SeenDelete, Delete, Write
  <2>3. Pending(p) => Pending(p)'
    BY <1>1, <2>1, AnnouncePends
  <2> QED BY <1>3, <2>2, <2>3
<1>6. ASSUME NEW q \in Paths, NEW r \in Paths, SeenMove(q, r)
      PROVE  Pending(p)' \/ UnderScan(p)' \/ LastScanned(p)'
  <2>1. Announce("moved", q) /\ r # p
    BY <1>2, <1>6 DEF SeenMove
  <2>2. q # p
    BY <1>1, <1>6 DEF SeenMove, Move, Flagged, IsFile, Holds
  <2>3. Kept /\ p \notin silent \union lost
    BY <1>1, <1>2, <1>6, <2>1, <2>2 DEF SeenMove, Move
  <2>4. Pending(p) => Pending(p)'
    BY <1>1, <2>1, AnnouncePends
  <2> QED BY <1>3, <2>3, <2>4
<1> QED BY <1>4, <1>5, <1>6 DEF TreeStep

\* The event handed over is dropped only if there is nothing to scan, and a scan that
\* ends has logged its findings, unless it failed.
LEMMA DaemonForgetsNothing ==
    ASSUME TreeTypeOK, WatcherInv, NothingForgotten, Observer \/ Main \/ Signal
    PROVE  NothingForgotten'
<1> SUFFICES ASSUME Watches', NEW p \in Paths, p \notin silent' \union lost', Flagged(p)'
             PROVE  Pending(p)' \/ UnderScan(p)' \/ LastScanned(p)'
  BY DEF NothingForgotten
<1>1. UNCHANGED <<content, version, silent>> /\ Flagged(p)
  BY DEF Observer, ObserverStep, Main, MainStep, Signal, treeVars, Dispatch,
         DispatchRaises, ScanEngine, ScanRaises, AppendLog, AppendFails, ScanOver,
         Terminate, LeaveLoop, Leave, KilledDaemon, Flagged, IsFile, Holds
<1>2. Terminate \/ ObserverStep
  BY DEF Observer, Main, MainStep, Signal, LeaveLoop, Leave, KilledDaemon, Watches
<1>3. Watches /\ p \notin silent \union lost /\ log \subseteq log'
  BY <1>1, <1>2 DEF Terminate, ObserverStep, Dispatch, DispatchRaises, ScanEngine,
                    ScanRaises, AppendLog, AppendFails, ScanOver, LosesLast, Watches
<1>4. LastScanned(p) => LastScanned(p)'
  BY <1>1, <1>3 DEF LastScanned
<1>5. CASE LastScanned(p)
  BY <1>4, <1>5
<1>6. CASE Pending(p)
  <2>1. CASE Dispatch
    <3>1. PICK i \in DOMAIN queue : queue[i].path = p /\ queue[i].kind \in Handled
      BY <1>6 DEF Pending
    <3>2. queue \in Seq(Event) /\ queue # <<>> /\ queue' = Tail(queue)
      BY <2>1 DEF Dispatch, WatcherInv, WatcherTypeOK
    <3>3. CASE i = 1
      BY <1>1, <2>1, <3>1, <3>2, <3>3 DEF Dispatch, Flagged, UnderScan
    <3>4. CASE i # 1
      <4>1. i - 1 \in DOMAIN queue' /\ queue'[i - 1] = queue[i]
        BY <3>2, <3>4
      <4> QED BY <3>1, <4>1 DEF Pending
    <3> QED BY <3>3, <3>4
  <2>2. CASE ~ Dispatch
    <3>1. queue' = queue
      BY <1>2, <2>2 DEF Terminate, ObserverStep, DispatchRaises, ScanEngine,
                        ScanRaises, AppendLog, AppendFails, ScanOver
    <3> QED BY <1>6, <3>1 DEF Pending
  <2> QED BY <2>1, <2>2
<1>7. CASE UnderScan(p)
  <2>1. /\ observer = "scan" /\ scan \in Scan /\ scan.quiet /\ scan.content = content[p]
        /\ scan.found = Says(scan.content, scan.at)
    BY <1>7 DEF UnderScan, WatcherInv, ScanInv
  <2>2. Terminate \/ ScanEngine \/ AppendLog
    BY <1>2, <1>7 DEF ObserverStep, Dispatch, DispatchRaises, ScanRaises, AppendFails,
                      LosesLast, UnderScan
  <2>3. CASE Terminate
    BY <1>1, <1>7, <2>3 DEF Terminate, UnderScan
  <2>4. CASE ScanEngine
    BY <1>1, <1>7, <2>1, <2>4 DEF ScanEngine, UnderScan, Scan
  <2>5. CASE AppendLog
    <3>1. scan.at = 5
      BY <2>1, <2>5 DEF AppendLog, Scan, Positions
    <3>2. scan.found = Flags[content[p]] /\ scan.found # {}
      BY <1>1, <2>1, <3>1, SaysAll DEF Scan, Flagged
    <3>3. Lines(scan.found, TRUE) \in log'
      BY <2>5, <3>2 DEF AppendLog
    <3> QED BY <1>1, <1>7, <3>2, <3>3 DEF LastScanned, UnderScan, Lines
  <2> QED BY <2>2, <2>3, <2>4, <2>5
<1> QED BY <1>1, <1>3, <1>5, <1>6, <1>7 DEF NothingForgotten

\* Whatever was last written to a watched file is in the log, in the queue or being
\* scanned, in every state of the daemon, unless a scan or the log failed on it.
THEOREM NothingIsForgotten == Spec => []NothingForgotten
<1>1. Init => NothingForgotten
  BY DEF Init, WatcherInit, WatcherOff, NothingForgotten, Watches
<1>2. TreeTypeOK /\ WatcherInv /\ NothingForgotten /\ [Next]_vars => NothingForgotten'
  <2> SUFFICES ASSUME TreeTypeOK, WatcherInv, NothingForgotten, [Next]_vars
               PROVE  NothingForgotten'
    OBVIOUS
  <2>1. CASE UNCHANGED <<treeVars, watcherVars>>
    BY <2>1 DEF treeVars, watcherVars, NothingForgotten, Watches, Flagged, IsFile, Holds,
                Pending, UnderScan, LastScanned
  <2> QED BY <2>1, TreeForgetsNothing, DaemonForgetsNothing DEF Next, Command, vars
<1> QED BY <1>1, <1>2, CommandInvariant, WatcherInvariant, PTL DEF Spec

\* The steps the observer thread needs to be through with what it has: six for an
\* event, of which the first hands it over.
Backlog == 6 * Len(queue) + (IF observer = "scan" THEN 6 - scan.at ELSE 0)

\* The observer thread does nothing that does not bring it through, and a change of
\* the tree adds one event at most, whatever failed before.  With NothingForgotten
\* this says when a file is scanned: before the backlog of its event has run down.
BacklogRunsDown ==
    [][/\ Observer => Backlog' < Backlog \/ observer' = "ended"
       /\ TreeStep => Backlog' <= Backlog + 6]_vars

LEMMA ObserverRunsDown ==
    ASSUME WatcherInv, Observer
    PROVE  Backlog' < Backlog \/ observer' = "ended"
<1>1. queue \in Seq(Event) /\ Len(queue) \in Nat /\ (observer = "scan" => scan.at \in 1 .. 5)
  BY DEF WatcherInv, WatcherTypeOK, ScanInv, Scan
<1>2. CASE Dispatch
  <2>1. Len(queue') = Len(queue) - 1 /\ observer = "waiting"
    BY <1>1, <1>2 DEF Dispatch
  <2>2. observer' = "scan" => scan'.at = 1
    BY <1>2, <2>1 DEF Dispatch
  <2> QED BY <1>1, <2>1, <2>2 DEF Backlog
<1>3. CASE DispatchRaises
  BY <1>3 DEF DispatchRaises
<1>4. CASE ScanEngine
  <2>1. scan \in Scan /\ observer = "scan" /\ observer' = "scan" /\ queue' = queue
    BY <1>4 DEF ScanEngine, WatcherInv, ScanInv
  <2>2. scan'.at = scan.at + 1
    BY <1>4, <2>1 DEF ScanEngine, Scan
  <2> QED BY <1>1, <2>1, <2>2 DEF Backlog
<1>5. CASE ScanRaises \/ AppendLog \/ AppendFails
  <2>1. observer = "scan" /\ observer' = "waiting" /\ queue' = queue
    BY <1>5 DEF ScanRaises, AppendLog, AppendFails, ScanOver
  <2> QED BY <1>1, <2>1 DEF Backlog
<1> QED BY <1>2, <1>3, <1>4, <1>5 DEF Observer, ObserverStep

LEMMA TreeAddsOne ==
    ASSUME WatcherInv, TreeStep
    PROVE  Backlog' <= Backlog + 6
<1>1. queue \in Seq(Event) /\ Len(queue) \in Nat /\ (observer = "scan" => scan.at \in 1 .. 5)
  BY DEF WatcherInv, WatcherTypeOK, ScanInv, Scan
<1>2. UNCHANGED <<observer, scan>>
  BY DEF TreeStep, SeenWrite, SeenDelete, SeenMove
<1>3. queue' = queue \/ \E e : queue' = Append(queue, e)
  BY DEF TreeStep, SeenWrite, SeenDelete, SeenMove, Announce
<1>4. Len(queue') <= Len(queue) + 1 /\ Len(queue') \in Nat
  BY <1>1, <1>3
<1> QED BY <1>1, <1>2, <1>4 DEF Backlog

\* The observer thread works off its backlog, and every change costs it six steps at
\* most.
THEOREM WatcherCatchesUp == Spec => BacklogRunsDown
<1>1. WatcherInv /\ [Next]_vars =>
        [/\ Observer => Backlog' < Backlog \/ observer' = "ended"
         /\ TreeStep => Backlog' <= Backlog + 6]_vars
  BY ObserverRunsDown, TreeAddsOne
<1> QED BY <1>1, WatcherInvariant, PTL DEF Spec, BacklogRunsDown
=============================================================================
