# Sentinel: specifications, model checking and proofs

Sentinel is a host-side malware scanner (`src/src/sentinel`, Python). This
directory holds TLA+ modules for its stateful parts, TLC configurations that
check them on small instances, and TLAPS proofs of the properties that do not
depend on the size of the instance. Line numbers below are of the files under
`src/src/sentinel/` unless a longer path is given.

`PROJECT.json` lists the components, runs, mutants, theorems and hazards, and
for every definition the source lines it stands for.

## 1. The system

### Components and their state

| Component | Source | State | Operations |
|---|---|---|---|
| Byte-pattern engine | `application/byte_pattern_scan_engine.py` | read buffer, its base offset, set of keys seen, results | read a block, search it, carry the overlap |
| Hash engine, signature repository, Bloom filter | `application/hash_scan_engine.py`, `repository/signature_repository.py`, `infrastructure/bloom_filter.py` | the two digest indexes, the bit array; built once, then read-only | load and validate, look up |
| Signature update | `application/update_signatures.py`, `repository/signature_db_writer.py`, `infrastructure/malshare_client.py` | the JSON database on disk, a temporary file | fetch, load, merge, validate, write, replace |
| File index | `repository/file_index_repository.py`, `application/indexed_hash_scan_engine.py` | entries in memory, the index file, a temporary file | load, lookup, upsert, save |
| Archive engine | `application/archive_scan_engine.py` (`ArchiveScanEngine`) | stack of archives, counters, findings, temporary copies | pop, unpack by a backend, push nested, report |
| Archive backends | the same file (`scan_archive_in_process`), `src/scripts/sandbox_entrypoint.py`, `infrastructure/docker_sandbox.py`, `infrastructure/archive_detector.py` | extraction directory, byte and file counters, the answer | detect, extract under caps, scan, copy nested archives |
| Daemon | `application/daemon_scan_service.py`, `infrastructure/pid_file.py`, `run_daemon` of `presentation/cli.py` | PID file, `_running`, the watcher thread | start, stop, status, SIGTERM |
| Watcher and the daemon's scans | `infrastructure/filesystem_watcher.py`, `daemon_scan_service.py` lines 49-101 | the observer's queue, the scan under way, the log | event, scan engine by engine, append to the log, stop with a 5 s join |
| Scan command and report | `_scan_directory`, `run_scan` of `presentation/cli.py`, `presentation/report.py`, `infrastructure/directory_walker.py` | the lists of results, counts, report, exit code | walk, run the engines, save the index, report |
| Heuristic and entropy engines | `application/heuristic_scan_engine.py`, `application/entropy_scan_engine.py`, the rule repository | none beyond a call | one read, one computation |

### How they interact

- The scan command and the watcher thread of the daemon call the engines
  directly, one file at a time. A backend of the archive engine does the same
  for the files of an archive, in the host process or in a container that gets
  the archive as a mount and answers with JSON.
- The database file is shared by `update` (writer) and by every scan, daemon
  and sandbox (readers) without a lock. The index file is shared the same way
  by scans with `--use-index`.
- A daemon and the `start`, `stop` and `status` commands know each other only
  through the PID file and `kill`.
- Files under scan are written by other processes at any time.

### What is hard

| Behaviour | Where | Correct means | Module |
|---|---|---|---|
| A match across two reads; short reads; a file rewritten during the search | pattern engine | found exactly once; the loop ends, memory is bounded | `PatternScan` |
| A dozen early exits of one loop; archives that contain themselves | archive engine | every archive is opened or reported, once; the depth cap holds | `ArchiveScan` |
| Endless members, a stream that is half a tar, unpackers that write what they want, copies that fail | backends | the caps hold; an answer that is no skip covers the archive | `ArchiveExtract` |
| Check-then-act on a PID file that is truncated before it is written; a signal before the flag it clears is set; a crash anywhere | daemon | one daemon, which stop stops | `DaemonLifecycle` |
| A cache keyed by size and time over files that change; two savers; failing saves | file index | no verdict from digests of other contents | `FileIndex` |
| Read, merge and replace without a lock; feeds that repeat themselves; a crash during a write | update | what was there stays; the result loads | `SignatureDb` |
| A tree that is written, deleted and renamed during the walk; an engine, a directory, the index or the report that fails half way | scan command | a report has all that the engines said of a file that stayed, under its name, also if others become links; counts add up; exit code 0 is no failure | `ScanCommand` |
| Events that arrive during a scan, repeat, or tell of a file that is gone; an engine that fails after another found something; an observer that dies | watcher | the last write of a file is scanned; the log is exact | `Watcher` |
| A false positive or negative of the filter; MD5 against SHA-256 | lookup | as without the filter | `SignatureLookup` |

Section `hazards` of `PROJECT.json` has the places one by one.

## 2. The modules

| Module | Models | Composes |
|---|---|---|
| `WholeSearch` | abstract specification: a search of the bytes read so far in one piece | |
| `PatternScan` | `scan_file_patterns` | implements `WholeSearch` (`INSTANCE ... WITH`) |
| `ArchiveAccount` | abstract specification: every archive met is decided once | |
| `ArchiveScan` | `ArchiveScanEngine.scan` | implements `ArchiveAccount` (`INSTANCE ... WITH`) |
| `ArchiveBackend` | abstract specification: what the engine knows of a backend, one refusal or one answer | |
| `ArchiveExtract` | one run of either backend | implements `ArchiveBackend` |
| `DaemonLifecycle` | `start`, `stop`, `status` and the daemon's main thread | |
| `FileIndex` | the index, the scans that share it, the writers of files | |
| `SignatureLookup` | repository, filter and `lookup_hashes`, as operators | |
| `SignatureDb` | updates and scans that share the database | extends `SignatureLookup` |
| `FileTree` | the files under scan and the processes that change them (external) | |
| `ScanCommand` | `run_scan`, `_scan_directory`, `walk_files`, the report and the exit code | extends `FileTree` |
| `Watcher` | the observer thread, `_scan_file`, the log, the end of the daemon's loop | extends `FileTree` |
| `HostScan` | one of the two callers of the engines over a tree that changes | extends `ScanCommand`, `Watcher` |
| `...Proofs` | theorems about the module of that name | |
| `NaturalSets` | two lemmas about sets of naturals that stand in for induction | |
| `MC...` | instances for TLC whose constants do not fit in a `.cfg` | |

How state and actions correspond to the code, module by module:

**PatternScan.** `buffer`, `bufferBase`, `results` and `fpos` are the locals of
the function and the offset of its file handle. One action, `ScanBlock`, is one
turn of the loop: read, search, de-duplicate, drop what was searched.
`ReturnEmpty`, `Open` and `EndOfFile` are the remaining paths; `Rewrite` is another process
that writes the file between two reads. A read returns fewer bytes than asked
only at the end of the file: the handle is a buffered one. `stream` is a history
variable with every byte the handle returned, which is what the search is
compared with: `Search` maps it to what `WholeSearch` has read.

**ArchiveScan.** `stack`, `unpacked`, `skippedCount` and `findings` are the
locals of `scan`; an archive is named by its provenance, the path of names from
the outermost one. A backend's answer is a choice of the actions
`BackendUnpacks`, `BackendRefuses` (skip or error) and `BackendMalformed` (an
answer that raises). The inner loop over nested archives is one action per way
an entry can go: too deep, missing, copied and pushed, copy failed. Other
exceptions that leave `scan`, from making or removing the output directory,
from `mkstemp` or an entry that lacks a field, are in `BackendMalformed` and
`NestedFails`. `temps` is the set of copies in the temp directory.

**ArchiveExtract.** `work` is the extraction directory: for every name the size
of the file and whether it is clean, infected or an archive. The extraction
functions are actions per member or chunk, and an external unpacker is one
arbitrary step, followed by the loop that counts what it left file by file, in any
order, until one is beyond a cap. `toScan` is what the walk under way has not
reached, of the counting loop and then of the scan. Members that are passed
over (directories, links, unsafe names) change nothing and are no steps. The walk then
takes the files in any order. `files_extracted` is left out: nothing reads it.
The digits of contents are left out as well, so a later member of the same name
simply replaces an earlier one.

**DaemonLifecycle.** Every run of a command is a process with a program counter;
each system call that touches the PID file, another process or `_running` is a
step. A `stop` may be refused by the operating system (`KillDenied`), and a daemon
that removed its file is still a process until `ExitDaemon`. `overlapped` and `hasty`
are history: a command was typed while another one, or the daemon it started, was
not through with the PID file; or even before the other had returned. `pidFile` is the file's text as the
daemon it names; truncation and write
are two steps, and `writers` tells which open handles still belong to the file at
the path. Signal delivery is part of `Kill`: the handler only clears `running`.
`--foreground` takes the same steps without the fork.

**FileIndex.** A file is a sequence of blocks, read one at a time; a digest is
the sequence of blocks it was computed from, so equal digests mean equal
contents. Time is a clock that stamps writes; many steps fit in one tick.
`seen`, the tick of the stat call, is history. The index file is replaced
atomically, its temporary file is written entry by entry. A save that fails leaves
that file or not: the `OSError` of its `unlink` is swallowed.

**SignatureLookup, SignatureDb.** An entry is its digests and two Booleans (has a
pattern, has a known threat level), all that validation, merging and lookup
branch on. The filter is the set of bits the keys set; `BitsOf` stands for the
double hashing and is any function. An update is a process: fetch, load, one
step per merged record, validation, one step per entry written, replace.

**FileTree.** For every path the content it has, and the number of the change
that brought it there. A content stands for all files that the engines, the size
limit and the archive detector treat alike: `Flags` gives for each the engines
with a finding in it, and may be anything. A path may be rewritten, deleted, or
renamed onto another one, at any time. Some contents are links (`Links`, `LinkTo`):
`Resolved` is where the way of links from a path ends, which `open` and
`Path.resolve` both follow, and `ReadAs` what is read there.

**ScanCommand.** `cmd` is the program counter; `toList` and `todo` are what
`os.walk` has still to list and to yield, `current` and `at` the file and the
engine that is next, `findings` the five lists of results in one set, with the
member for findings in an archive. Every early return of `run_scan` is a step
with exit code 2. `List` and `ListFails` are `os.walk` and its `onerror`,
`PassOver`, `StatFails` and `Take` the body of `walk_files`; an `OSError` in an
engine is `EngineRaises`. `InfectedPaths`, `SuspiciousPaths` and `CleanCount`
are the properties of `ScanReport`, where a member of an archive is a path of
its own. Three exceptions nothing catches end the command without a report:
`StartRaises` (a database, rules or index that cannot be opened or decoded, a
pattern `bytes.fromhex` refuses), `UnpackBreaks` (a malformed answer of an
archive backend) and `ReportRaises` (a name that is no UTF-8, for which
`write_text` raises a `UnicodeEncodeError`).
The findings are under the paths as walked until `build_report` resolves them
(`_abs` of `report.py`): `WriteReport` renames those of the engines by a `name` of
`Resolutions`, so that a file that became a link is reported under its target's
name, and two files may become one. Findings in an archive have the name its path
resolved to when the archive was opened.
`raisedAt`, `walked`, `unpacked` and `listedAt` are history.

**Watcher.** `queue` belongs to the watchdog library: events in order, an event
that repeats the last one skipped. `Dispatch` is the handler with its look at the
path; `ScanEngine` one engine of `_scan_file`, `AppendLog` and `AppendFails` the
log. `DispatchRaises` is the error that `is_symlink` or `is_file` lets through,
outside the handler's `try`: the observer thread ends, and the main loop after
it. `Leave` is the join, whether the observer had ended or the five seconds were
over. `silent` and `lost` are history: what no created or modified event told of,
and the contents on which a scan or a log failed.

**HostScan.** `Init` chooses the caller, the command with any options or the
daemon. They only read the tree and share nothing else, so a behaviour with both
is one of each.

### Abstractions to know of

- ScanCommand and Watcher: a directory is listed in one step, and an engine reads
  a file in one; `PatternScan` and `FileIndex` have the reads one by one. Below
  the root there is one level of directories, and directories themselves do not
  come and go, except that they become unreadable. With an index the
  verdict of the hash engine is taken as right, which is what `FileIndex`
  proves. An archive that is unpacked has one of `Outcomes`; `ArchiveScan` has how
  it is reached. The order of the report's lines and its layout are left out,
  and so is the empty file a failed `write_text` leaves.
- Links: all findings are resolved in one step, when the report is built. Only files
  become links, not the directories above them, and links lead into the tree. Where
  links run in a circle, `Resolved` is any of them; the code takes the first it
  comes back to (Python 3.13) or raises `RuntimeError` (up to 3.12), and both are in the
  model. A link that cannot be looked at (`OSError`, line 257) is left out.
- Watcher: the kernel loses no event (an overflow of the inotify queue is left
  out), and a write is one step with one event.

- FileIndex: writers stamp files with the clock. A tool that restores a
  modification time, and two writes in one tick of which the stat saw the first, are
  excluded by the premise `Settled`: no cache by size and time can detect them.
- SignatureDb: edits of the file by hand and the copy that `refresh` validates
  in the system temp directory are not modelled.
- DaemonLifecycle: a PID is not reused by a stranger, a PID is written in one
  piece. The watcher thread has only its start, its death and its stop.
- ArchiveScan and ArchiveExtract are not composed: ArchiveScan lets a backend
  refuse, or answer with any infected entries and any others that are archives.
  That this is all the engine can see of a run of ArchiveExtract is the theorem
  `RunIsABackend`; an answer that is malformed (`BackendMalformed`) is a container
  that keeps to no specification.

## 3. The runs

All runs finish within three minutes on two cores. CHECK_DEADLOCK is FALSE in all
of them because scans, updates and commands end.

| Run | Bounds | Distinct states | What it shows |
|---|---|---|---|
| `pattern_scan` | files up to 5 bytes over 2 values, patterns of 1 to 3 bytes, chunks of 1, 2 and 4, one rewrite | 93,812 | the chunked search finds what a search of the whole stream finds, and implements `WholeSearch` |
| `archive_scan` | 2 names, depth cap 3 | 540,692 | the account of archives, counters, cap, termination |
| `archive_extract` | 3 names, sizes 0 to 2, caps of 2 bytes and 2 files | 254,904 | the caps, the coverage of an answer, termination |
| `daemon_lifecycle` | 2 daemons, 1 stop, 1 status | 198,970 | what holds of the PID file when commands do not overlap, and what holds always |
| `file_index` | 2 scans, 2 files with 2 contents of one size, 2 writes, 3 ticks | 1,223,498 | no digest of other contents is used; the index changes only as a whole |
| `signature_db` | 2 updates, 1 scan, 4 digests in 3 bits, 5 databases, 4 feeds | 661,002 | what overlapping updates may and may not lose; lookups |
| `host_scan` | 2 directories with a path in each, 3 contents (flagged by 3 engines; an archive flagged by one; a link), 2 changes, 4 archive outcomes, 8 option sets | 1,092,938 | what report, counts, exit code and log tell of a tree that changes; the last write is scanned |

Five more runs each check one statement of the documentation or of the code's own
error messages that the code does not keep; TLC finds the trace, and `findings`
in `PROJECT.json` tells it:

| Run | Statement | What happens |
|---|---|---|
| `archive_temps` | the `finally` block removes the temporary copies | the stack it is given is empty; copies stay after every scan |
| `daemon_two` | a second `start` is refused | it is not, after the first one returned and until its daemon has written its PID |
| `daemon_lost_stop` | `stop` stops the running daemon | a SIGTERM before `_running = True` is overwritten |
| `file_index_relative` | the index maps absolute paths | it maps the paths as walked, and two directories share entries |
| `host_scan_exit` | exit code 1 is for infected and suspicious | an exception nothing catches ends in a 1 with nothing found: the trace is a database that cannot be opened |

### The properties

Each module has one type invariant, `TypeOK`. The others:

- `FoundExactly`, `OneResultPerKey`, `BoundedBuffer`, `Terminates` (PatternScan): no
  match is lost, invented or doubled at a block boundary, whatever the chunk
  size; memory stays bounded; the loop ends. `Searches`: the engine implements
  `WholeSearch`, so it reads on where it stopped and ends only at the end of
  the file as it is then.
- `Accounted` (ArchiveScan): the engine implements `ArchiveAccount`.
  `CountersMatch`, `DecidedOnce`, `DepthCapped`, `CopiesOutlivePush`, `Ends`.
- `DiskBounded`, `CommandBounded`, `AnswerCovers`, `Ends` (ArchiveExtract).
  `DiskBounded` states the bound that does hold for streams, twice the cap: when a tar
  breaks, its members stay and the plain stream is counted from 0 again, so the
  option's "cumulative extracted bytes" (`cli.py` line 170) is exceeded.
  `CommandBounded`: the loop that counts an unpacker's files misses none;
  `AnswerCovers` names its two exceptions: a file that cannot be read, and, in the
  sandbox only, a nested archive that cannot be copied out.
- `OrderlyUse` (while commands do not overlap at most one daemon is up, and the
  file names it), `CleanExit`, `AbsentIsTrue`, and the liveness property
  `HeardStops` (DaemonLifecycle).
- `CacheSound`, `VerdictsSound`, `SaveKeepsAll` (FileIndex). `IndexAtomic`: only a
  save that succeeds changes the index file, as a whole; one that fails, is killed or
  overtaken leaves it as it was. A temporary file may stay behind.
- `BaseKept`, `NothingLost`, `UpdateLoads`, `ImportsAreNew`, `LookupsRight`
  (SignatureDb).
- `ReportComplete`: of every file that stayed as it was listed, a written report
  has what each engine that ran on it says, under its own name, whatever the other
  files did, and became, and whichever later step failed. What else it has under
  that name it has because another scanned file was changed since its directory
  was listed, as one that is a link to this one now. `ExitTruthful`: 0 only with a
  report, and with no such file that an engine which ran on it flags; 2 never
  with a report; with a report, 1 exactly if it has a finding that is no skip.
  The premises say what the code does not promise: a directory that cannot be
  read is passed over with exit code 0, and exit code 1 without a report is the
  traceback of an exception nothing catches (`ExitDocumented`, which fails). `CountsRight`:
  no flagged file that stayed is among the clean ones that are counted, even if others
  are links to it now; and if all files stayed and no archive member is named, the
  clean ones are exactly those without a finding and the three counts add up.
- `LogExact`: of a file that did not change during its scan the log has all that
  the engines say or nothing. `LastWriteScanned` (liveness): while the daemon
  runs, the last contents a file was given by a create or a write are scanned and,
  if flagged, in the log, however many events came before or were skipped and
  whatever failed before. Its premises name what the code does not do: a
  file that came by a rename or was there first has no event the handler listens
  to, and a scan that fails is not tried again.

For every property of a passing run there is a mutant: an operator named beside
the definition it changes ("Mutant: ..."), which makes TLC find the property
violated. The mutants are not part of any specification.

### Why the bounds are enough

- `pattern_scan`: with chunks of 1 to 4 and patterns up to 3 bytes, the longest
  pattern is longer or shorter than the chunk size asked for, and a file of 5 bytes
  has up to five reads, so a match lies in one block, across two or three, and in
  an incomplete last one.
  The databases hold prefixes, suffixes and self-overlapping patterns and
  two entries of one name.
- `archive_scan`: depth 3 with two names has a parent, children and grandchildren,
  siblings that go different ways, and nesting beyond the cap.
- `archive_extract`: three names and caps of 2 have an archive within, exactly at
  and beyond each cap, and a stream with members beside its plain file.
- `daemon_lifecycle`: every hazard of the PID file is one of two daemons and one
  command; a second command of the other kind reads a file the first removed.
- `file_index`: one scan may hash while a file is written and a second use or
  overwrite its index; two writes make the content of a file return.
- `host_scan`: two changes are a write and another during or after its scan, a
  rename from the directory listed next to the one listed before or back, or a
  file that is replaced by a link between the walk and an engine. One path is in
  the root and one below it, so that either order of walk and change occurs. The
  contents have findings of the first, second and last engine, of the third
  only, and of a kind that is no file. The archive outcomes are nothing, a skip, two
  members with findings of several engines, and a member whose name is no UTF-8.
  `Oversize` is empty: it has the effect of `Special` on the walk.
- `signature_db`: two updates overlap at every step; the bits collide so that the
  filter has false positives.

The proofs remove all of these bounds for the safety properties of all the passing
runs.

### Fairness

- `PatternScan`: `WF(Scan)`; the scan is a thread with no blocking call but reads
  of a local file.
- `ArchiveScan`, `ArchiveExtract`: `WF(Next)`; one thread, and every backend and
  external command has a time-out.
- `DaemonLifecycle`: `WF` of each daemon's own steps: the loop sleeps half a
  second, the join of the watcher has a time-out. Nothing is assumed of commands,
  of crashes or of the watcher's death.
- `HostScan`: `WF` of the observer thread, which blocks only while its queue is
  empty and whose reads of files end, and of the main thread, which looks twice a
  second and joins with a time-out. Nothing is assumed of signals, of other
  processes, or of the scan command, which may be killed at any step.
- `FileIndex` and `SignatureDb` assume none and state no liveness.

## 4. The proofs

Each proof module has one inductive invariant, shown to hold initially and to be
kept by every action, from which the theorems follow. All leaves are checked
by tlapm with SMT, Zenon and LS4.

- `PatternScanProofs`. `IInv` relates the buffer to the stream: the buffer is the
  suffix of the stream that starts at `bufferBase` (`Carried`), and the stream is
  a prefix of a file nobody rewrote (`Followed`). `FoundExactly` alone is not
  inductive: that the carried bytes are long enough to hold the beginning
  of any later match is what makes the search of the next buffer complete
  (`SearchBuffer`, `OccursInSuffix`, `OccursInPrefix`). `EngineSearches` is the
  refinement of `WholeSearch`, which compares whole subsequences where the engine
  looks byte by byte (`LiesWhereItOccurs`) and takes the next part of the file
  (`ChunkIsNextPart`); `QuietFileSearched` says the same of the final state.
  Assumptions: patterns are not empty and finite in number, chunk sizes are
  positive, a file has a greatest length.
- `ArchiveScanProofs`. To `DecidedOnce` and the others `IInv` adds that a depth on
  the stack is the length of the provenance, that parents of everything known
  have been opened, and that the counters count finite sets. `ParentsOpened` is
  the key: children of an archive opened just now cannot be known yet, so nothing
  is pushed twice. `EngineAccounts` is the refinement: every step of the engine
  is a step of `ArchiveAccount` or a stutter. `WorkIsBounded` needs that the
  nestings within the cap are finitely many, by induction on the depth over a set
  (`InductionSet`). Assumptions: finitely many names, a positive depth cap (the
  command line refuses others).
- `DaemonLifecycleProofs`. `Orderly`, which holds until commands overlap: one
  command is under way at most, what it knows of daemons is true, a start that
  passed its check is alone, and the file names every daemon that is up. Beside
  it `NamesItsWriter` holds even when commands overlap and gives `CleanExit`.
  Assumptions: the constants are different things.
- `FileIndexProofs`. `Sound(e)`: an entry whose stat was settled holds the digest
  of the contents the file has for as long as the stat still matches. It must
  be stated of index, disk and half-made readings at once (`Soundness`): an
  entry travels between them. `DistinctPaths`, an explicit premise of the two
  soundness theorems, is what the relative path finding shows to be needed;
  `IndexIsAtomic` and `NothingLost` do without it.
- `SignatureDbProofs`. `Grown`: every list under way is the old one with new
  entries of new digests behind it; `Written`: what a temporary file holds was
  validated; `Alone`: without overlap at most one update has the list loaded,
  and its list has every digest of the file. `LookupRight` is about operators
  only and says the filter changes nothing for any `BitsOf`.

- `HostScanProofs`. One invariant per caller. For the command, `WalkInv` says where
  a file that stayed can be: not yet listed, still in `todo`, being scanned,
  taken, or kept out by a failure (`raisedAt`); `FindingsInv` that the findings of such a
  file are what the engines before `at`, or before the one that raised, say of its
  content; `OthersInv` where every other finding comes from: an archive under its own
  name, or one that is no longer what was listed; `ReportInv` carries them into the report
  with the names of that moment, which are the files' own for those that stayed
  (`NoLinkStays`). `ReportComplete` alone says nothing before there is a report. For the daemon, `ScanInv` says that
  what a scan has found is what the engines so far say of the content it began
  with, as long as the version is the same. The fact both rest on is
  `TreeChanged`: a change stamps a version beyond every one seen before, so what
  is unchanged at the end was unchanged all along. `CountsAreRight` is a
  chain of cardinalities (paths named against files walked, files flagged against
  both). Assumptions: finitely many paths, directories and members; the null values are no values.
- `ArchiveExtractProofs`. The bytes on disk are a set, one element per byte, so that
  a new or larger file adds an interval (`FileAdded`, `FileGrown`) and
  cardinalities can be compared. `Counted`: while members are written the
  counters are ahead of the disk and within the caps; in the plain stream,
  counted from 0, what the tar left lies beside it, which is where the bound of
  twice the cap comes from. `CountedWork` is the invariant of the loop that counts an
  unpacker's files: the counters are those of the files that left `toScan`, which gives `CommandIsBounded`.
  `Covered` is the loop invariant of the walk; it makes
  `RunIsABackend` a corollary: a file is infected or an archive, not both, and no
  step but `Answer` shows the engine anything. Assumptions: finitely many names,
  caps and sizes are natural numbers.

### What is proved of the liveness properties

TLAPS has no backend for ENABLED and fairness, so no liveness property is a
theorem. What each rests on besides fairness is one: a measure in the natural
numbers that every step of the thread in question lowers, and an invariant that
says the thread is heading for the right end.

| Liveness property (TLC) | Theorem | Measure and invariant |
|---|---|---|
| `Terminates` (PatternScan) | `SearchRunsDown` | bytes a file can have beyond the handle; a rewrite does not raise it |
| `Ends` (ArchiveScan) | `WorkIsBounded` | nestings within the depth cap not yet decided, three steps each; what is opened or skipped is counted by it |
| `Ends` (ArchiveExtract) | `RunIsBounded` | what the caps have left for members and for the plain stream, then the files of the walk and, for an unpacker, of the count |
| `HeardStops` (DaemonLifecycle) | `HeardIsFinal` | at most five steps from `watch` to the end; the flag, once down, stays down |
| `LastWriteScanned` (HostScan) | `NothingIsForgotten`, `WatcherCatchesUp` | six steps for each event and those of the scan under way; the last contents are in the log, in the queue or under scan |

`ScanRunsDown` says the same of the scan command, for which no liveness property
is stated because it may be killed: however the tree changes, a scan has at most
one step for each directory, six for each path and a few around the walk.

Stated for every value of the constants: all safety properties and action properties
of the passing runs. The two soundness theorems of `FileIndex` have the premise
`DistinctPaths`.

Only model-checked: the five liveness properties themselves, and the statements of
the violation runs, which are false. Where a proof needs induction over data (a
family has a maximum, the nestings are finite) it takes the least element of a set
or a set closed under successor (`NaturalSets`). No module declares a RECURSIVE
operator.

## 5. Not modelled

- Heuristic and entropy engines: one bounded read and a computation by
  Python's `re` or in floating point; no state and no interleaving.
- Malshare client: one HTTP request; its outcomes are `Fetch` and `Fails`.
- Docker command lines, argument parsing, formatting, logging, exports.
- The digits of digests and patterns: `_validate_entry` is reduced to what it
  branches on. What a pattern that passes `int(v, 16)` and fails `bytes.fromhex`
  does to a scan is `StartRaises`.

- The inotify queue of the kernel, the life of a container after a time-out
  (`docker kill` may fail or come too early), reuse of a PID by a stranger, two scan
  commands that write one report file: each is a hazard without a property, and
  needs a party outside the program.

## 6. Plan

Done, in the order of the plan: `PatternScan`, `ArchiveAccount` and `ArchiveScan`,
`DaemonLifecycle`, `FileIndex`, `SignatureLookup` and `SignatureDb`,
`ArchiveExtract`, then `FileTree`, `ScanCommand`, `Watcher` and `HostScan` (the
engines over the files of a directory by their two callers); proofs of all of
them; the abstract specifications `WholeSearch` and `ArchiveBackend` and the
measures behind the liveness properties.

Next:

1. An abstract specification of the signature database (a list that only grows
   while updates do not overlap) that `SignatureDb` implements, and a measure for
   an update.
2. A composition of `ArchiveScan` with the answers `ArchiveExtract` gives, so
   that dropped nested archives appear in the account, and of `ScanCommand` with it
   in place of `Outcomes`.
3. `DaemonLifecycle` with the observer of `Watcher` in place of its three steps, so
   that a failing scan and a `stop` meet the PID file.
4. Directories that come and go during the walk, and deeper trees.
5. PIDs that are reused, containers that outlive their time-out.
