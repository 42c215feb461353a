---------------------------- MODULE ArchiveScan ----------------------------
(***************************************************************************)
(* ArchiveScanEngine.scan of application/archive_scan_engine.py: the stack *)
(* of archives still to open, the nesting depth of each, the temporary     *)
(* copies of nested archives, the counters and the findings.               *)
(*                                                                         *)
(* The backend (a Docker container or the host process) is external to the *)
(* engine: any archive may turn out to be unreadable, to be refused, or to *)
(* hold any infected entries and any nested archives, itself included.     *)
(***************************************************************************)
EXTENDS Integers, FiniteSets, SequencesExt

CONSTANTS Names,    \* names of entries in an archive
          MaxDepth  \* --archive-depth

ASSUME NamesAssumption == IsFiniteSet(Names)
ASSUME MaxDepthAssumption == MaxDepth \in Nat \ {0}

VARIABLES
    pc,
    stack,       \* [prov, depth] of the archives to open, last first
    current,     \* the entry popped last
    todo,        \* its nested archives the inner loop has not reached
    unpacked, skippedCount,
    findings,    \* [prov, kind]
    temps,       \* the archives whose copy under the temp directory exists
    opened       \* history: the archives unpacked

vars == <<pc, stack, current, todo, unpacked, skippedCount, findings, temps,
          opened>>

Provenance == Seq(Names)
StackEntry == [prov : Provenance, depth : Nat]
Finding == [prov : Provenance, kind : {"malware", "skipped"}]

----------------------------------------------------------------------------
\* The list and the sets of archives the properties are about.
StackProvs == {stack[i].prov : i \in DOMAIN stack}
TodoProvs == {Append(current.prov, n) : n \in todo}
SkippedProvs == {f.prov : f \in {g \in findings : g.kind = "skipped"}}

\* Mutant: the reason is put where the kind belongs.
ReportSkippedReason(p) ==
    /\ findings' = findings \union {[prov |-> p, kind |-> "backend-error"]}
    /\ skippedCount' = skippedCount + 1

\* _skipped_finding and the counter that goes with it.
ReportSkipped(p) ==
    /\ findings' = findings \union {[prov |-> p, kind |-> "skipped"]}
    /\ skippedCount' = skippedCount + 1

----------------------------------------------------------------------------
Init ==
    /\ pc = "loop"
    /\ stack = <<[prov |-> <<>>, depth |-> 1]>>
    /\ current = [prov |-> <<>>, depth |-> 1]
    /\ todo = {}
    /\ unpacked = 0
    /\ skippedCount = 0
    /\ findings = {}
    /\ temps = {}
    /\ opened = {}

\* stack.pop() of the outer loop.
Pop ==
    /\ pc = "loop"
    /\ stack # <<>>
    /\ current' = Last(stack)
    /\ stack' = Front(stack)

\* Mutant: the refusal is reported and not counted.
BackendRefusesUncounted ==
    /\ Pop
    /\ findings' = findings \union {[prov |-> current'.prov, kind |-> "skipped"]}
    /\ UNCHANGED <<pc, todo, unpacked, skippedCount, temps, opened>>

\* Mutant: a refused archive is put below the others, to be tried again.
BackendRefusesRetried ==
    /\ pc = "loop"
    /\ stack # <<>>
    /\ current' = Last(stack)
    /\ stack' = <<Last(stack)>> \o Front(stack)
    /\ UNCHANGED <<pc, todo, unpacked, skippedCount, findings, temps, opened>>

\* backend.run raises, or says that it skipped the archive: both are reported.
BackendRefuses ==
    /\ Pop
    /\ ReportSkipped(current'.prov)
    /\ UNCHANGED <<pc, todo, unpacked, temps, opened>>

\* The backend opened the archive: it names the entries that are archives
\* themselves, and among the others the infected ones.
BackendUnpacks ==
    /\ Pop
    /\ \E nested \in SUBSET Names : \E infected \in SUBSET (Names \ nested) :
         /\ findings' = findings \union
              {[prov |-> Append(current'.prov, n), kind |-> "malware"] : n \in infected}
         /\ todo' = nested
    /\ unpacked' = unpacked + 1
    /\ opened' = opened \union {current'.prov}
    /\ pc' = "nested"
    /\ UNCHANGED <<skippedCount, temps>>

\* Mutant: a malformed answer is swallowed, and the archive with it.
BackendMalformedSwallowed ==
    /\ Pop
    /\ UNCHANGED <<pc, todo, unpacked, skippedCount, findings, temps, opened>>

\* The backend's answer lacks a field or holds an unknown threat level, or the output
\* directory cannot be made, or not be removed after a refusal: the exception leaves
\* scan(), and what was refused is not reported either.
BackendMalformed ==
    /\ Pop
    /\ pc' = "raised"
    /\ UNCHANGED <<todo, unpacked, skippedCount, findings, temps, opened>>

\* One turn of the inner loop: the nested archive is too deep, or its copy is
\* not in the output directory.
NestedSkipped(n) ==
    /\ pc = "nested"
    /\ n \in todo
    /\ todo' = todo \ {n}
    /\ ReportSkipped(Append(current.prov, n))
    /\ UNCHANGED <<pc, stack, current, unpacked, temps, opened>>

NestedTooDeep(n) ==
    /\ current.depth + 1 > MaxDepth
    /\ NestedSkipped(n)

\* Mutant: no `continue` after the report, so the entry is pushed as well.
NestedMissingFallsThrough(n) ==
    /\ pc = "nested"
    /\ n \in todo
    /\ current.depth + 1 <= MaxDepth
    /\ ReportSkipped(Append(current.prov, n))
    /\ stack' = Append(stack, [prov |-> Append(current.prov, n),
                               depth |-> current.depth + 1])
    /\ temps' = temps \union {Append(current.prov, n)}
    /\ todo' = todo \ {n}
    /\ UNCHANGED <<pc, current, unpacked, opened>>

NestedMissing(n) ==
    /\ current.depth + 1 <= MaxDepth
    /\ NestedSkipped(n)

\* Mutant: the cap is compared with the depth of the archive just opened.
NestedPushedTooDeep(n) ==
    /\ pc = "nested"
    /\ n \in todo
    /\ current.depth <= MaxDepth
    /\ todo' = todo \ {n}
    /\ temps' = temps \union {Append(current.prov, n)}
    /\ stack' = Append(stack, [prov |-> Append(current.prov, n),
                               depth |-> current.depth + 1])
    /\ UNCHANGED <<pc, current, unpacked, skippedCount, findings, opened>>

\* It is copied out of the directory about to be removed, and pushed.
NestedPushed(n) ==
    /\ pc = "nested"
    /\ n \in todo
    /\ current.depth + 1 <= MaxDepth
    /\ todo' = todo \ {n}
    /\ temps' = temps \union {Append(current.prov, n)}
    /\ stack' = Append(stack, [prov |-> Append(current.prov, n),
                               depth |-> current.depth + 1])
    /\ UNCHANGED <<pc, current, unpacked, skippedCount, findings, opened>>

\* copy2 fails (a full disk): the file mkstemp made stays, and the exception
\* leaves scan() before the try whose finally cleans up.
NestedCopyFails(n) ==
    /\ pc = "nested"
    /\ n \in todo
    /\ current.depth + 1 <= MaxDepth
    /\ temps' = temps \union {Append(current.prov, n)}
    /\ pc' = "raised"
    /\ UNCHANGED <<stack, current, todo, unpacked, skippedCount, findings, opened>>

\* The inner loop fails before there is a copy (an entry lacks a field, mkstemp has no
\* room), or the output directory cannot be removed: a container that survived its
\* time-out may still write to it.  Copies made before stay.
NestedFails ==
    /\ pc = "nested"
    /\ pc' = "raised"
    /\ UNCHANGED <<stack, current, todo, unpacked, skippedCount, findings, temps,
                   opened>>

\* Mutant: the copies are removed together with the output directory.
NestedDoneRemovesCopies ==
    /\ pc = "nested"
    /\ todo = {}
    /\ pc' = "loop"
    /\ temps' = {}
    /\ UNCHANGED <<stack, current, todo, unpacked, skippedCount, findings, opened>>

\* The inner loop is over, and the output directory is removed.
NestedDone ==
    /\ pc = "nested"
    /\ todo = {}
    /\ pc' = "loop"
    /\ UNCHANGED <<stack, current, todo, unpacked, skippedCount, findings, temps,
                   opened>>

\* The outcome is returned, and _cleanup_temp_nested unlinks the copies of the
\* archives on the stack, which is empty.
Return ==
    /\ pc = "loop"
    /\ stack = <<>>
    /\ temps' = temps \ StackProvs
    /\ pc' = "returned"
    /\ UNCHANGED <<stack, current, todo, unpacked, skippedCount, findings, opened>>

Next ==
    \/ BackendRefuses \/ BackendUnpacks \/ BackendMalformed
    \/ \E n \in Names : \/ NestedTooDeep(n) \/ NestedMissing(n)
                        \/ NestedPushed(n) \/ NestedCopyFails(n)
    \/ NestedFails \/ NestedDone \/ Return

\* The scan is one thread, and every run of the backend is bounded by a timeout.
Spec == Init /\ [][Next]_vars /\ WF_vars(Next)

----------------------------------------------------------------------------
TypeOK ==
    /\ pc \in {"loop", "nested", "returned", "raised"}
    /\ stack \in Seq(StackEntry)
    /\ current \in StackEntry
    /\ todo \subseteq Names
    /\ unpacked \in Nat
    /\ skippedCount \in Nat
    /\ findings \subseteq Finding
    /\ temps \subseteq Provenance
    /\ opened \subseteq Provenance

\* The counters of the report add up at every moment: the archives counted as
\* unpacked and those with a skip finding are exactly as many as the counters
\* say, so no archive is counted and not shown, or shown and not counted.
CountersMatch ==
    /\ unpacked = Cardinality(opened)
    /\ skippedCount = Cardinality(SkippedProvs)

\* No archive is opened or skipped twice, or again after it was decided: what
\* waits on the stack or in the inner loop has not been decided yet.
DecidedOnce ==
    /\ opened \intersect SkippedProvs = {}
    /\ (opened \union SkippedProvs) \intersect (StackProvs \union TodoProvs) = {}
    /\ StackProvs \intersect TodoProvs = {}
    /\ \A i, j \in DOMAIN stack : stack[i].prov = stack[j].prov => i = j

\* The depth cap bounds what is opened, also for an archive that contains
\* itself (line 238).
DepthCapped == \A p \in opened : Len(p) < MaxDepth

\* An archive waiting on the stack still has its copy: the output directory it
\* came from is gone when it is popped (lines 203, 248-254).
CopiesOutlivePush == StackProvs \ {<<>>} \subseteq temps

\* The temporary copies of nested archives do not outlive the scan: what the
\* finally block with _cleanup_temp_nested is there for (lines 256-271).
TempsRemoved == pc = "returned" => temps = {}

\* Every archive found is accounted for, as the abstract specification says.
Account == INSTANCE ArchiveAccount
               WITH pending <- IF pc = "raised" THEN {}
                               ELSE StackProvs \union TodoProvs,
                    skipped <- SkippedProvs,
                    status <- CASE pc = "returned" -> "returned"
                                [] pc = "raised" -> "aborted"
                                [] OTHER -> "running"

Accounted == Account!Spec

\* The scan ends for every archive, also for one that contains itself.
Ends == <>(pc \in {"returned", "raised"})
============================================================================
