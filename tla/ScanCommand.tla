----------------------------- MODULE ScanCommand -----------------------------
(***************************************************************************)
(* `sentinel scan`: run_scan and _scan_directory of presentation/cli.py,   *)
(* walk_files of infrastructure/directory_walker.py and the report of      *)
(* presentation/report.py.  Files change between any two of its steps.     *)
(*                                                                         *)
(* A directory is listed in one step, and an engine reads a file in one    *)
(* (PatternScan and FileIndex have the reads one by one).  An archive that *)
(* is unpacked has one of Outcomes (ArchiveScan has how it is reached).    *)
(* The report is built in one step.                                        *)
(***************************************************************************)
EXTENDS FileTree

CONSTANTS
    Dirs, Root, DirOf,  \* the directories, the one scanned, and where a path is
    Oversize,           \* the contents that --max-size passes over
    Archives,           \* the contents the archive detector recognises
    Members, Itself,    \* the names in archives, and the name of the file itself
    Outcomes,           \* what an archive scan finds: by member and engine
    Unencodable,        \* paths and members that are no UTF-8
    NoPath, NoReport

ASSUME DirsAssumption ==
    Root \in Dirs /\ IsFiniteSet(Dirs) /\ DirOf \in [Paths -> Dirs]
ASSUME KindsAssumption == Oversize \subseteq Contents /\ Archives \subseteq Contents
ASSUME MembersAssumption ==
    Itself \notin Members /\ IsFiniteSet(Members) /\ NoPath \notin Paths
ASSUME OutcomesAssumption ==
    Outcomes \subseteq SUBSET ([member : Members, by : Engines \union {"skipped"}]
                                \union [member : {Itself}, by : {"skipped"}])

Finding == [file : Paths, member : Members \union {Itself},
            by : Engines \union {"skipped"}]
Reports == [findings : SUBSET Finding, total : Nat, infected : Nat,
            suspicious : Nat, clean : Nat]

ASSUME NoReportAssumption == NoReport \notin Reports

VARIABLES
    cmd,                    \* what the command does next
    index, unpack, entropy, \* --use-index, --unpack-archives, not --no-entropy
    toList,                 \* the directories the walk has not reached
    todo,                   \* the files of a listed directory not yet taken
    current, at,            \* the file being scanned, and the engine that is next
    findings, total,        \* the lists of findings, and the files counted
    report, exit,
    walked,     \* history: the files the walk yielded
    unpacked,   \* history: the files scanned as an archive
    raisedAt,   \* history: the first engine an OSError kept from a file
    listedAt    \* history: the tree's clock when a directory was listed

options == <<index, unpack, entropy>>
walkVars == <<toList, todo, listedAt>>
fileVars == <<current, at, raisedAt, unpacked>>
resultVars == <<findings, total, walked>>
commandVars == <<cmd, options, walkVars, fileVars, resultVars, report, exit>>

Clean == 0
Infected == 1
Error == 2
NoExit == -1

Unlisted == -1
NotRaised == 5

\* With an index only the hash engine runs, with --no-entropy the first three.
LastEngine == IF index THEN 1 ELSE IF entropy THEN 4 ELSE 3

EngineFinding(p, i) == [file |-> p, member |-> Itself, by |-> Order[i]]
FindingsOf(fs, p) == {f \in fs : f.file = p}

----------------------------------------------------------------------------
CommandInit ==
    /\ cmd = "start"
    /\ index \in BOOLEAN /\ unpack \in BOOLEAN /\ entropy \in BOOLEAN
    /\ toList = Dirs /\ todo = {} /\ listedAt = [d \in Dirs |-> Unlisted]
    /\ current = NoPath /\ at = 1
    /\ raisedAt = [p \in Paths |-> NotRaised] /\ unpacked = {}
    /\ findings = {} /\ total = 0 /\ walked = {}
    /\ report = NoReport /\ exit = NoExit

Finish(code) == cmd' = "done" /\ exit' = code

\* The command gives up: a message, exit code 2 and no report.
GiveUp ==
    /\ Finish(Error)
    /\ UNCHANGED <<options, walkVars, fileVars, resultVars, report>>

\* Arguments, database, rules, archive backend, index and threshold are in order.
Start ==
    /\ cmd = "start"
    /\ cmd' = "walk"
    /\ UNCHANGED <<options, walkVars, fileVars, resultVars, report, exit>>

StartFails == cmd = "start" /\ GiveUp

\* An exception nothing catches: a traceback, exit code 1 and no report.
BreakOff == Finish(Infected) /\ UNCHANGED <<options, walkVars, resultVars, report>>

\* The database, the rules or the index exist and cannot be opened or are no UTF-8,
\* or a pattern that was validated is no hexadecimal string for bytes.fromhex.
StartRaises == cmd = "start" /\ BreakOff /\ UNCHANGED fileVars

\* The directory was removed since the arguments were checked.
RootGone == cmd = "walk" /\ toList = Dirs /\ GiveUp

\* os.walk reads the next directory, the root first, when the files of the one
\* before are done.
Reaches(d) ==
    /\ cmd = "walk"
    /\ todo = {}
    /\ d \in toList
    /\ toList = Dirs => d = Root

List(d) ==
    /\ Reaches(d)
    /\ toList' = toList \ {d}
    /\ todo' = {p \in Paths : DirOf[p] = d /\ Holds(p)}
    /\ listedAt' = [listedAt EXCEPT ![d] = clock]
    /\ UNCHANGED <<cmd, options, fileVars, resultVars, report, exit>>

\* A directory that cannot be read is logged and passed over, and what is below
\* it as well.
ListFails(d) ==
    /\ Reaches(d)
    /\ toList' = IF d = Root THEN {} ELSE toList \ {d}
    /\ UNCHANGED <<cmd, options, todo, listedAt, fileVars, resultVars, report, exit>>

Passed(p) == content[p] \in {Absent} \union Special \union Oversize

\* Deleted since, no regular file, or over the size limit.
PassOver(p) ==
    /\ cmd = "walk"
    /\ p \in todo
    /\ Passed(p)
    /\ todo' = todo \ {p}
    /\ UNCHANGED <<cmd, options, toList, listedAt, fileVars, resultVars, report, exit>>

\* The file cannot be looked at, or is not readable.
StatFails(p) ==
    /\ cmd = "walk"
    /\ p \in todo
    /\ todo' = todo \ {p}
    /\ raisedAt' = [raisedAt EXCEPT ![p] = 1]
    /\ UNCHANGED <<cmd, options, toList, listedAt, current, at, unpacked,
                   resultVars, report, exit>>

\* The walk yields a file.
Take(p) ==
    /\ cmd = "walk"
    /\ p \in todo
    /\ ~ Passed(p)
    /\ todo' = todo \ {p}
    /\ current' = p /\ at' = 1
    /\ total' = total + 1
    /\ walked' = walked \union {p}
    /\ cmd' = "detect"
    /\ UNCHANGED <<options, toList, listedAt, raisedAt, unpacked, findings, report, exit>>

\* detect_archive_type: a file it cannot open is no archive.
Detect ==
    /\ cmd = "detect"
    /\ \/ cmd' = "scan"
       \/ unpack /\ ReadAs(current) \intersect Archives # {} /\ cmd' = "unpack"
    /\ UNCHANGED <<options, walkVars, fileVars, resultVars, report, exit>>

\* The loop goes on with the next file.
FileDone == cmd' = "walk" /\ current' = NoPath /\ at' = 1

\* The scan of an archive begins with its resolved path, and names it so.
UnpackArchive ==
    /\ cmd = "unpack"
    /\ \E outcome \in Outcomes, q \in Resolved(current) :
         findings' = findings \union
                       {[file |-> q, member |-> o.member, by |-> o.by] : o \in outcome}
    /\ unpacked' = unpacked \union {current}
    /\ FileDone
    /\ UNCHANGED <<options, walkVars, raisedAt, total, walked, report, exit>>

\* Mutant: the findings of engines that ran before are dropped.
EngineRaisesDrops ==
    /\ cmd \in {"scan", "unpack"}
    /\ raisedAt' = [raisedAt EXCEPT ![current] = at]
    /\ findings' = {f \in findings : f.file # current}
    /\ FileDone
    /\ UNCHANGED <<options, walkVars, unpacked, total, walked, report, exit>>

\* An OSError of an engine, or of the archive scan, ends the scan of this file.
\* What engines before found stays.
EngineRaises ==
    /\ cmd \in {"scan", "unpack"}
    /\ raisedAt' = [raisedAt EXCEPT ![current] = at]
    /\ FileDone
    /\ UNCHANGED <<options, walkVars, unpacked, resultVars, report, exit>>

\* A malformed answer of the archive backend is a KeyError or ValueError (action
\* BackendMalformed of ArchiveScan), and a path that loops a RuntimeError up to Python
\* 3.12: it ends the scan of all files.
UnpackBreaks ==
    /\ cmd = "unpack"
    /\ raisedAt' = [raisedAt EXCEPT ![current] = at]
    /\ current' = NoPath /\ at' = 1
    /\ BreakOff
    /\ UNCHANGED unpacked

\* The engine that is next reads the file and has a finding or none.
Engine ==
    /\ cmd = "scan"
    /\ \E c \in ReadAs(current) :
         findings' = IF Order[at] \in Flags[c] THEN findings \union {EngineFinding(current, at)}
                     ELSE findings
    /\ IF at = LastEngine THEN FileDone ELSE at' = at + 1 /\ UNCHANGED <<current, cmd>>
    /\ UNCHANGED <<options, walkVars, raisedAt, unpacked, total, walked, report, exit>>

WalkEnds ==
    /\ cmd = "walk"
    /\ toList = {} /\ todo = {}
    /\ cmd' = IF index THEN "save" ELSE "report"
    /\ UNCHANGED <<options, walkVars, fileVars, resultVars, report, exit>>

SaveIndex ==
    /\ cmd = "save"
    /\ cmd' = "report"
    /\ UNCHANGED <<options, walkVars, fileVars, resultVars, report, exit>>

\* The index cannot be written: the findings are not reported either.
SaveFails == cmd = "save" /\ GiveUp

----------------------------------------------------------------------------
\* The report has the findings of the engines under the paths as they are resolved
\* when it is built, those of an archive as they are.
ByEngine(f) == f.member = Itself /\ f.by # "skipped"
Resolutions == {name \in [Paths -> Paths] : \A p \in Paths : name[p] \in Resolved(p)}
Renamed(fs, name) ==
    {IF ByEngine(f) THEN [f EXCEPT !.file = name[f.file]] ELSE f : f \in fs}

\* The paths of the report: a member of an archive is a path of its own.
Key(f) == <<f.file, f.member>>
KeysBy(fs, engines) == {Key(f) : f \in {g \in fs : g.by \in engines}}
InfectedPaths(fs) == KeysBy(fs, {"hash", "pattern"})

\* Mutant: a path may be infected and suspicious.
SuspiciousTwice(fs) == KeysBy(fs, {"heuristic", "entropy"})
SuspiciousPaths(fs) == KeysBy(fs, {"heuristic", "entropy"}) \ InfectedPaths(fs)

\* Mutant: the count may be negative.
CleanCountBare(n, bad) == n - bad
CleanCount(n, bad) == IF n > bad THEN n - bad ELSE 0

Summary(fs, n) ==
    LET infected == Cardinality(InfectedPaths(fs))
        suspicious == Cardinality(SuspiciousPaths(fs))
    IN  [findings |-> fs, total |-> n, infected |-> infected, suspicious |-> suspicious,
         clean |-> CleanCount(n, infected + suspicious)]

Encodable(fs) == \A f \in fs : f.file \notin Unencodable /\ f.member \notin Unencodable

\* Mutant: the exit code tells of infected files only.
ExitCodeInfected(r) == IF r.infected > 0 THEN Infected ELSE Clean
ExitCode(r) == IF r.infected > 0 \/ r.suspicious > 0 THEN Infected ELSE Clean

WriteReport ==
    /\ cmd = "report"
    /\ \E name \in Resolutions :
         /\ Encodable(Renamed(findings, name))
         /\ report' = Summary(Renamed(findings, name), total)
    /\ Finish(ExitCode(report'))
    /\ UNCHANGED <<options, walkVars, fileVars, resultVars>>

ReportFails == cmd = "report" /\ GiveUp

\* A name that is no UTF-8 raises UnicodeEncodeError, and up to Python 3.12 a path that
\* loops RuntimeError, which are no OSError.
ReportRaises ==
    /\ cmd = "report"
    /\ \/ \E name \in Resolutions : ~ Encodable(Renamed(findings, name))
       \/ \E f \in findings : ByEngine(f) /\ Loops(f.file)
    /\ BreakOff
    /\ UNCHANGED fileVars

\* A command that is killed takes no further step.
CommandStep ==
    \/ Start \/ StartFails \/ StartRaises \/ RootGone \/ Detect
    \/ UnpackArchive \/ UnpackBreaks \/ Engine \/ EngineRaises \/ WalkEnds
    \/ SaveIndex \/ SaveFails \/ WriteReport \/ ReportFails \/ ReportRaises
    \/ \E d \in Dirs : List(d) \/ ListFails(d)
    \/ \E p \in Paths : PassOver(p) \/ StatFails(p) \/ Take(p)

----------------------------------------------------------------------------
Commands == {"off", "start", "walk", "detect", "unpack", "scan", "save", "report", "done"}

CommandTypeOK ==
    /\ cmd \in Commands
    /\ index \in BOOLEAN /\ unpack \in BOOLEAN /\ entropy \in BOOLEAN
    /\ toList \subseteq Dirs /\ todo \subseteq Paths
    /\ current \in Paths \union {NoPath} /\ at \in Positions
    /\ findings \subseteq Finding /\ total \in Nat
    /\ report = NoReport \/ report \in Reports
    /\ exit \in {NoExit, Clean, Infected, Error}
    /\ walked \subseteq Paths /\ unpacked \subseteq Paths
    /\ raisedAt \in [Paths -> 1 .. NotRaised]
    /\ listedAt \in [Dirs -> Unlisted .. MaxChanges]

\* A file that was in its directory when that was listed, has not changed since,
\* is one the walk takes, and was not unpacked as an archive.
Unchanged(p) == version[p] <= listedAt[DirOf[p]]
Scannable(p) == Unchanged(p) /\ ~ Passed(p) /\ p \notin unpacked

\* The engines that ran on it: those in use, up to the first that raised.
RanOn(p) == {i \in 1 .. LastEngine : i < raisedAt[p]}

\* What these engines have to say of a file.
Said(p, positions) ==
    {EngineFinding(p, i) : i \in {j \in positions : Order[j] \in Flags[content[p]]}}

\* A written report is complete: of every such file it has what each engine that ran
\* on it has to say, under its own name.  This holds also if other files come, go and
\* change meanwhile, become links and are named as this one, if directories cannot be
\* read, and if a later engine fails on the file.  And it is exact: what else it has
\* under that name it has because another file that was scanned was changed since its
\* directory was listed (cli.py lines 495-529, directory_walker.py lines 44-75,
\* report.py lines 201-258).
ReportComplete ==
    report # NoReport =>
        \A p \in Paths : Scannable(p) =>
            LET said == Said(p, RanOn(p))
            IN  /\ said \subseteq FindingsOf(report.findings, p)
                /\ FindingsOf(report.findings, p) # said =>
                     \E q \in walked \ {p} : ~ Unchanged(q)

\* What an exit code says of the tree: 0 only with a report, and with no such file in
\* the directory that an engine which ran on it flags; 2 never with a report; with a
\* report, 1 exactly if some finding of it is more than a skipped archive (cli.py
\* lines 574-681).  Without a report 1 may be a traceback: see ExitDocumented.
ExitTruthful ==
    /\ exit = Clean =>
         /\ report # NoReport
         /\ \A p \in Paths : Scannable(p) =>
              \A i \in RanOn(p) : Order[i] \notin Flags[content[p]]
    /\ exit = Error => report = NoReport
    /\ report # NoReport =>
         (exit = Infected <=> \E f \in report.findings : f.by # "skipped")

\* "Exit codes: 0 clean, 1 infected or suspicious, 2 error" (README.md line 66): whoever
\* gets a 1 has something that was found.  An exception that nothing catches is a 1
\* of the interpreter's (cli.py lines 535-660).
ExitDocumented == exit = Infected => \E f \in findings : f.by # "skipped"

\* The files with a finding that is more than a skip.
Named(fs) == {f.file : f \in {g \in fs : g.by # "skipped"}}

\* The summary adds up.  No file that stayed and that an engine flagged is among the
\* clean ones it counts, not even if others became links and are named as the same
\* file.  And if all files the walk yielded stayed and no member of an archive is
\* named, the clean ones are exactly those that no finding other than a skip names,
\* and each of the others is counted once (report.py lines 53-77).
CountsRight ==
    report # NoReport =>
        LET flagged == {p \in Paths : Scannable(p) /\ Said(p, RanOn(p)) # {}}
        IN  /\ report.clean <= Cardinality(walked \ flagged)
            /\ (\A p \in walked : Unchanged(p)) /\ (\A f \in report.findings : f.member = Itself) =>
                   /\ report.clean = Cardinality(walked \ Named(report.findings))
                   /\ report.clean + report.infected + report.suspicious = report.total
=============================================================================
