--------------------------- MODULE ArchiveExtract ---------------------------
(***************************************************************************)
(* One run of an archive backend: extract under caps, then scan what was   *)
(* extracted and copy out the nested archives.  The same steps are in      *)
(* scan_archive_in_process of application/archive_scan_engine.py ("local") *)
(* and in main of scripts/sandbox_entrypoint.py ("sandbox"); where the two *)
(* differ, the action says so.                                             *)
(*                                                                         *)
(* The archive is external: it may yield any members, without end, break   *)
(* anywhere, and an external unpacker may write anything.                  *)
(***************************************************************************)
EXTENDS Integers, FiniteSets

CONSTANTS
    Names,      \* names of files below the extraction directory
    PlainName,  \* the name a stream that is no tar is decompressed to
    Sizes,      \* sizes of files
    MaxBytes, MaxFiles, \* the caps
    Absent      \* a name without a file

ASSUME NamesAssumption == IsFiniteSet(Names) /\ PlainName \in Names
ASSUME SizesAssumption == Sizes \subseteq Nat
ASSUME CapsAssumption == MaxBytes \in Nat /\ MaxFiles \in Nat

VARIABLES
    backend,     \* "local" or "sandbox"
    format,      \* how the archive is extracted
    pc,
    totalBytes, totalFiles, \* the counters of the extraction function
    work,        \* the files in the extraction directory
    toScan,      \* the files the walk under way has not reached: the one that
                 \* counts what an unpacker wrote, then the one that scans
    findings, nested,       \* the lists of the answer, by file
    met,         \* history: the usable members the archive yielded
    failed,      \* history: the files whose scan failed
    dropped      \* history: the nested archives the sandbox could not copy out

vars == <<backend, format, pc, totalBytes, totalFiles, work, toScan, findings,
          nested, met, failed, dropped>>
answer == <<toScan, findings, nested, failed, dropped>>
counters == <<totalBytes, totalFiles>>

Inside == {"clean", "infected", "archive"}
File == [size : Nat, inside : Inside]
Written == [size : Sizes, inside : Inside]

ASSUME AbsentAssumption == Absent \notin File

Present(w) == {n \in Names : w[n] # Absent}
Bytes(w) == UNION {{n} \X (1 .. w[n].size) : n \in Present(w)}
SizeOf(w) == Cardinality(Bytes(w))

----------------------------------------------------------------------------
Init ==
    /\ backend \in {"local", "sandbox"}
    /\ format = "unknown"
    /\ pc = "detect"
    /\ totalBytes = 0 /\ totalFiles = 0
    /\ work = [n \in Names |-> Absent]
    /\ toScan = {} /\ findings = {} /\ nested = {}
    /\ met = {} /\ failed = {} /\ dropped = {}

\* detect_archive_type, and the choice of an extraction function.  "stream" is
\* a gzip, bzip2 or xz file, "command" one for an external unpacker.  A missing
\* archive, or directories that cannot be made, end the run.
Detect ==
    /\ pc = "detect"
    /\ \/ \E f \in {"zip", "tar", "stream"} : format' = f /\ pc' = "members"
       \/ format' = "command" /\ pc' = "command"
       \/ format' = "unknown" /\ pc' \in {"skipped", "raised"}
    /\ UNCHANGED <<backend, counters, work, answer, met>>

\* One more file of this size is beyond a cap.
OverCap(size) == totalBytes + size > MaxBytes \/ totalFiles + 1 > MaxFiles

\* Mutant: the member is not counted.
MemberWrittenUncounted(n, file) ==
    /\ pc = "members"
    /\ ~ OverCap(file.size)
    /\ work' = [work EXCEPT ![n] = file]
    /\ totalBytes' = totalBytes + file.size
    /\ met' = met \union {n}
    /\ UNCHANGED <<backend, format, pc, totalFiles, answer>>

\* The next member of a zip or tar that is a file with a safe name; the others
\* are passed over.  A member of a name that was there replaces it.
MemberWritten(n, file) ==
    /\ pc = "members"
    /\ ~ OverCap(file.size)
    /\ work' = [work EXCEPT ![n] = file]
    /\ totalBytes' = totalBytes + file.size
    /\ totalFiles' = totalFiles + 1
    /\ met' = met \union {n}
    /\ UNCHANGED <<backend, format, pc, answer>>

\* Mutant: the loop is left, and what is there is scanned.
MemberOverCapBreaks(n, file) ==
    /\ pc = "members"
    /\ OverCap(file.size)
    /\ met' = met \union {n}
    /\ pc' = "walk"
    /\ toScan' = Present(work)
    /\ UNCHANGED <<backend, format, counters, work, findings, nested, failed, dropped>>

\* A member beyond a cap: the whole archive is skipped.
MemberOverCap(n, file) ==
    /\ pc = "members"
    /\ OverCap(file.size)
    /\ met' = met \union {n}
    /\ pc' = "skipped"
    /\ UNCHANGED <<backend, format, counters, work, answer>>

MembersEnd ==
    /\ pc = "members"
    /\ pc' = "walk"
    /\ toScan' = Present(work)
    /\ UNCHANGED <<backend, format, counters, work, findings, nested, met, failed, dropped>>

\* What an exception between two members leaves, or one in the data of a member,
\* of which less than the whole was written.
PartlyWritten ==
    {work} \union {[work EXCEPT ![n] = file] :
                     n \in Names, file \in {f \in Written : ~ OverCap(f.size + 1)}}

\* tarfile.ReadError: the archive is decompressed again as a plain stream, and its
\* bytes are counted from 0.  What the tar yielded stays in the directory.
TarBreaks ==
    /\ pc = "members"
    /\ format = "stream"
    /\ \E w \in PartlyWritten :
         work' = [w EXCEPT ![PlainName] = [size |-> 0, inside |-> "clean"]]
    /\ totalBytes' = 0
    /\ totalFiles' = 0
    /\ pc' = "plain"
    /\ UNCHANGED <<backend, format, answer, met>>

\* Mutant: the cap is looked at after the chunk was written.
PlainChunkLate(size) ==
    /\ pc = "plain"
    /\ totalBytes <= MaxBytes
    /\ totalBytes' = totalBytes + size
    /\ work' = [work EXCEPT ![PlainName].size = @ + size]
    /\ UNCHANGED <<backend, format, pc, totalFiles, answer, met>>

\* One chunk of the plain stream.
PlainChunk(size) ==
    /\ pc = "plain"
    /\ totalBytes + size <= MaxBytes
    /\ totalBytes' = totalBytes + size
    /\ work' = [work EXCEPT ![PlainName].size = @ + size]
    /\ UNCHANGED <<backend, format, pc, totalFiles, answer, met>>

\* Mutant: the file is unlinked, and what was listed before is scanned.
PlainOverCapScans(size) ==
    /\ pc = "plain"
    /\ totalBytes + size > MaxBytes
    /\ totalBytes' = totalBytes + size
    /\ work' = [work EXCEPT ![PlainName] = Absent]
    /\ toScan' = Present(work)
    /\ pc' = "walk"
    /\ UNCHANGED <<backend, format, totalFiles, findings, nested, met, failed, dropped>>

\* A chunk beyond the cap: the file is unlinked, the archive skipped.
PlainOverCap(size) ==
    /\ pc = "plain"
    /\ totalBytes + size > MaxBytes
    /\ totalBytes' = totalBytes + size
    /\ work' = [work EXCEPT ![PlainName] = Absent]
    /\ pc' = "skipped"
    /\ UNCHANGED <<backend, format, totalFiles, answer, met>>

\* The end of the stream, whose contents were whatever they were.
PlainEnd ==
    /\ pc = "plain"
    /\ \E i \in Inside : work' = [work EXCEPT ![PlainName].inside = i]
    /\ pc' = "walk"
    /\ toScan' = Present(work)
    /\ UNCHANGED <<backend, format, counters, findings, nested, met, failed, dropped>>

Unpacked == [Names -> Written \union {Absent}]

\* 7z or unrar-free wrote what it wants; the caps are applied to what is there.
Command ==
    /\ pc = "command"
    /\ work' \in Unpacked
    /\ toScan' = Present(work')
    /\ pc' = "count"
    /\ UNCHANGED <<backend, format, counters, findings, nested, met, failed, dropped>>

\* Mutant: the bytes are added up, the files are not.
CountFileBytes(n) ==
    /\ pc = "count"
    /\ n \in toScan
    /\ ~ OverCap(work[n].size)
    /\ totalBytes' = totalBytes + work[n].size
    /\ toScan' = toScan \ {n}
    /\ UNCHANGED <<backend, format, pc, totalFiles, work, findings, nested, met, failed, dropped>>

\* The next file of the directory, in any order.
CountFile(n) ==
    /\ pc = "count"
    /\ n \in toScan
    /\ ~ OverCap(work[n].size)
    /\ totalBytes' = totalBytes + work[n].size
    /\ totalFiles' = totalFiles + 1
    /\ toScan' = toScan \ {n}
    /\ UNCHANGED <<backend, format, pc, work, findings, nested, met, failed, dropped>>

\* With this file the archive is beyond a cap, and is skipped.
CountOverCap(n) ==
    /\ pc = "count"
    /\ n \in toScan
    /\ OverCap(work[n].size)
    /\ totalBytes' = totalBytes + work[n].size
    /\ totalFiles' = totalFiles + 1
    /\ pc' = "skipped"
    /\ UNCHANGED <<backend, format, work, answer, met>>

CountEnds ==
    /\ pc = "count"
    /\ toScan = {}
    /\ pc' = "walk"
    /\ toScan' = Present(work)
    /\ UNCHANGED <<backend, format, counters, work, findings, nested, met, failed, dropped>>

\* Any other exception of an unpacker, a missing or failing command, and its
\* time-out: the archive is skipped.
ExtractFails ==
    /\ \/ pc = "members" /\ work' \in PartlyWritten
       \/ pc = "command" /\ work' \in Unpacked
       \/ pc \in {"plain", "count"} /\ UNCHANGED work
    /\ pc' = "skipped"
    /\ UNCHANGED <<backend, format, counters, answer, met>>

----------------------------------------------------------------------------
\* The sandbox finds no signature DB or rules in its mount, or cannot load them.
NoRules ==
    /\ pc = "walk"
    /\ backend = "sandbox"
    /\ findings = {} /\ nested = {} /\ toScan = Present(work)
    /\ pc' \in {"skipped", "raised"}
    /\ UNCHANGED <<backend, format, counters, work, answer, met>>

\* A file that is no archive goes through the hash, pattern and heuristic engines.
ScanFile(n) ==
    /\ pc = "walk"
    /\ n \in toScan
    /\ work[n].inside # "archive"
    /\ toScan' = toScan \ {n}
    /\ findings' = IF work[n].inside = "infected" THEN findings \union {n} ELSE findings
    /\ UNCHANGED <<backend, format, pc, counters, work, nested, met, failed, dropped>>

\* An OSError in one of the engines is logged, and the file's findings are lost.
\* An archive that cannot be opened is taken for a file, and ends here too.
ScanFileFails(n) ==
    /\ pc = "walk"
    /\ n \in toScan
    /\ toScan' = toScan \ {n}
    /\ failed' = failed \union {n}
    /\ UNCHANGED <<backend, format, pc, counters, work, findings, nested, met, dropped>>

\* A nested archive is copied to the output directory and listed.
CopyNested(n) ==
    /\ pc = "walk"
    /\ n \in toScan
    /\ work[n].inside = "archive"
    /\ toScan' = toScan \ {n}
    /\ nested' = nested \union {n}
    /\ UNCHANGED <<backend, format, pc, counters, work, findings, met, failed, dropped>>

\* The copy fails: the sandbox logs that and goes on, in the host the exception
\* leaves scan_archive_in_process.
CopyNestedFails(n) ==
    /\ pc = "walk"
    /\ n \in toScan
    /\ work[n].inside = "archive"
    /\ IF backend = "sandbox"
       THEN /\ dropped' = dropped \union {n}
            /\ toScan' = toScan \ {n}
            /\ UNCHANGED pc
       ELSE /\ pc' = "raised"
            /\ UNCHANGED <<dropped, toScan>>
    /\ UNCHANGED <<backend, format, counters, work, findings, nested, met, failed>>

Answer ==
    /\ pc = "walk"
    /\ toScan = {}
    /\ pc' = "answered"
    /\ UNCHANGED <<backend, format, counters, work, answer, met>>

\* run_sandbox: the container is killed at its time-out, or by its limits, and the
\* answer is lost.  Or an exception that is no OSError leaves the walk.
RunBreaks ==
    /\ pc = "walk" \/ backend = "sandbox"
    /\ pc \notin {"skipped", "answered", "raised"}
    /\ pc' = "raised"
    /\ UNCHANGED <<backend, format, counters, work, answer, met>>

Next ==
    \/ Detect \/ MembersEnd \/ TarBreaks \/ PlainEnd
    \/ Command \/ CountEnds \/ ExtractFails \/ NoRules \/ Answer
    \/ RunBreaks
    \/ \E n \in Names, f \in Written : MemberWritten(n, f) \/ MemberOverCap(n, f)
    \/ \E size \in Sizes \ {0} : PlainChunk(size) \/ PlainOverCap(size)
    \/ \E n \in Names : \/ CountFile(n) \/ CountOverCap(n)
                        \/ ScanFile(n) \/ ScanFileFails(n)
                        \/ CopyNested(n) \/ CopyNestedFails(n)

\* One thread, and every external command has a time-out.  Members that are passed
\* over are not steps: a file holds finitely many of them.
Spec == Init /\ [][Next]_vars /\ WF_vars(Next)

----------------------------------------------------------------------------
Done == {"skipped", "answered", "raised"}

TypeOK ==
    /\ backend \in {"local", "sandbox"}
    /\ format \in {"unknown", "zip", "tar", "stream", "command"}
    /\ pc \in {"detect", "members", "plain", "command", "count", "walk"} \union Done
    /\ totalBytes \in Nat
    /\ totalFiles \in Nat
    /\ work \in [Names -> File \union {Absent}]
    /\ toScan \subseteq Present(work)
    /\ findings \subseteq Names
    /\ nested \subseteq Names
    /\ met \subseteq Names
    /\ failed \subseteq Names
    /\ dropped \subseteq Names

\* What the extraction functions of this code write never exceeds the caps, at
\* no moment and for no archive, one with endless files included; for a stream
\* that turns out to be no tar after some members it is at most twice the bytes
\* and one file more (archive_scan_engine.py lines 447-528).
DiskBounded ==
    /\ format \in {"zip", "tar"} => /\ SizeOf(work) <= MaxBytes
                                    /\ Cardinality(Present(work)) <= MaxFiles
    /\ format = "stream" => /\ SizeOf(work) <= 2 * MaxBytes
                            /\ Cardinality(Present(work)) <= MaxFiles + 1

\* What an external unpacker wrote is scanned only if all of it together is within
\* the caps: the loop that counts it, file by file and in any order, misses none
\* (archive_scan_engine.py lines 540-549).
CommandBounded ==
    format = "command" /\ pc \in {"walk", "answered"} =>
        /\ SizeOf(work) <= MaxBytes
        /\ Cardinality(Present(work)) <= MaxFiles

\* An answer that is no skip covers the archive: the names of all usable members
\* are in the directory, every infected file there is in the findings and every
\* archive in the nested ones.  The exceptions are the file that could not be
\* read, and the nested archive that could not be copied, which only the sandbox
\* drops.
AnswerCovers ==
    pc = "answered" =>
        /\ met \subseteq Present(work)
        /\ findings = {n \in Present(work) : work[n].inside = "infected"} \ failed
        /\ nested = {n \in Present(work) : work[n].inside = "archive"} \ (dropped \union failed)
        /\ dropped # {} => backend = "sandbox"

\* To the engine a run is one answer or a refusal: what the walk has found so far is
\* not seen before it is over, and not at all of a run that broke.
Backend == INSTANCE ArchiveBackend
               WITH status <- CASE pc = "answered" -> "unpacked"
                                [] pc \in {"skipped", "raised"} -> "refused"
                                [] OTHER -> "running",
                    infected <- IF pc = "answered" THEN findings ELSE {},
                    nested <- IF pc = "answered" THEN nested ELSE {}

Answers == Backend!Spec

\* The run ends also for an archive with endless files: the caps see to that.
Ends == <>(pc \in Done)
=============================================================================
