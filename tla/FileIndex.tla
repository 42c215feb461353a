----------------------------- MODULE FileIndex -----------------------------
(***************************************************************************)
(* The persistent hash index of `sentinel scan --use-index`:               *)
(* repository/file_index_repository.py, scan_file_indexed and the branches *)
(* of _scan_directory and run_scan that use them.                          *)
(*                                                                         *)
(* Several runs share one index file, one after the other or at the same   *)
(* time, while the files they scan are being written.  A file is a         *)
(* sequence of blocks, of which compute_hashes reads one at a time; a      *)
(* digest stands for the blocks it was computed from.  Time passes in      *)
(* ticks of the clock that stamps files; any number of steps fits in one.  *)
(***************************************************************************)
EXTENDS Naturals, Sequences

CONSTANTS
    Files,
    Paths,
    PathOf,      \* the text by which the walk of a run names the file
    Block,
    Contents,    \* what a file can hold
    Runs,        \* the runs of sentinel scan
    Walked,      \* the files under the directory of each run
    NoIndex,     \* the index file does not exist
    NoTmp,       \* the run has no temporary file
    MaxTime,     \* bound: the last tick of the clock
    MaxWrites    \* bound: the writes to the files

Labels == {"start", "walk", "save", "saved", "error", "crashed"}

ASSUME PathsAssumption == PathOf \in [Files -> Paths]
ASSUME FilesAssumption ==
    /\ Files \intersect Labels = {}
    /\ Walked \in [Runs -> SUBSET Files]
ASSUME ContentsAssumption == Contents \subseteq Seq(Block)

\* Every file has a path of its own, as when every run is given an absolute
\* directory or is started in the same one: the walk joins names to the
\* directory it was given.
DistinctPaths == \A f, g \in Files : PathOf[f] = PathOf[g] => f = g

VARIABLES
    now,
    content,     \* the blocks of each file
    mtime,       \* the tick of its last write
    writes,
    disk,        \* the entries of the index file, or NoIndex
    tmp,         \* the entries in the temporary file of each run, or NoTmp
    pc,
    index,       \* FileIndexRepository of each run, as a set of entries
    todo,        \* the files its walk has still to yield
    reading,     \* compute_hashes: the stat before it and the blocks read so far
    verdicts     \* what each run went by in the signature lookup

files == <<now, content, mtime, writes>>
vars == <<files, disk, tmp, pc, index, todo, reading, verdicts>>

----------------------------------------------------------------------------
\* st_size is the length.  `seen` is the tick of the stat call, which the
\* code does not keep: a history field.
Stat == [size : Nat, mtime : Nat, seen : Nat]
StatOf(f) == [size |-> Len(content[f]), mtime |-> mtime[f], seen |-> now]

\* FileIndexEntry, less the scanned_at nothing reads.
Entry == [path : Paths, stat : Stat, hash : Seq(Block)]

\* What lookup_hashes was called with: the file, its stat, the digests, and
\* the stat the digests come with, an older one on a cache hit.
Verdict == [file : Files, stat : Stat, hash : Seq(Block), from : Stat]

\* What a run that computes no digests has read.
Nothing == [stat |-> [size |-> 0, mtime |-> 0, seen |-> 0], blocks |-> <<>>]

\* FileIndexRepository.lookup.
\* Mutant: an entry is taken by its size alone.
MatchesSize(e, f) == e.path = PathOf[f] /\ e.stat.size = Len(content[f])

Matches(e, f) ==
    /\ e.path = PathOf[f]
    /\ e.stat.size = Len(content[f])
    /\ e.stat.mtime = mtime[f]

\* Mutant of Upsert: the entry is stored without its digests.
UpsertBare(entries, e) ==
    {o \in entries : o.path # e.path} \union {[path |-> e.path, stat |-> e.stat]}

\* FileIndexRepository.upsert.
Upsert(entries, e) == {o \in entries : o.path # e.path} \union {e}

Goto(r, label) == pc' = [pc EXCEPT ![r] = label]

\* The process ends, and its memory is gone.
Exit(r, label) ==
    /\ Goto(r, label)
    /\ index' = [index EXCEPT ![r] = {}]
    /\ verdicts' = [verdicts EXCEPT ![r] = {}]
    /\ todo' = [todo EXCEPT ![r] = {}]
    /\ reading' = [reading EXCEPT ![r] = Nothing]

----------------------------------------------------------------------------
Init ==
    /\ now = 1
    /\ content \in [Files -> Contents]
    /\ mtime = [f \in Files |-> 0]
    /\ writes = 0
    /\ disk = NoIndex
    /\ tmp = [r \in Runs |-> NoTmp]
    /\ pc = [r \in Runs |-> "start"]
    /\ index = [r \in Runs |-> {}]
    /\ todo = [r \in Runs |-> {}]
    /\ reading = [r \in Runs |-> Nothing]
    /\ verdicts = [r \in Runs |-> {}]

Tick ==
    /\ now < MaxTime
    /\ now' = now + 1
    /\ UNCHANGED <<content, mtime, writes, disk, tmp, pc, index, todo, reading,
                   verdicts>>

\* A program writes the file and the file system stamps it with the clock.
Write(f, c) ==
    /\ writes < MaxWrites
    /\ c # content[f]
    /\ content' = [content EXCEPT ![f] = c]
    /\ mtime' = [mtime EXCEPT ![f] = now]
    /\ writes' = writes + 1
    /\ UNCHANGED <<now, disk, tmp, pc, index, todo, reading, verdicts>>

----------------------------------------------------------------------------
\* FileIndexRepository.load: no file is an empty index.
Load(r) ==
    /\ pc[r] = "start"
    /\ index' = [index EXCEPT ![r] = IF disk = NoIndex THEN {} ELSE disk]
    /\ todo' = [todo EXCEPT ![r] = Walked[r]]
    /\ Goto(r, "walk")
    /\ UNCHANGED <<files, disk, tmp, reading, verdicts>>

\* The file is there and is not a valid index: the run ends before it scans.
LoadFails(r) ==
    /\ pc[r] = "start"
    /\ disk # NoIndex
    /\ Exit(r, "error")
    /\ UNCHANGED <<files, disk, tmp>>

\* The walk or a step of the scan raises OSError: the file is passed over.
Skip(r, f) ==
    /\ pc[r] = "walk"
    /\ f \in todo[r]
    /\ todo' = [todo EXCEPT ![r] = @ \ {f}]
    /\ UNCHANGED <<files, disk, tmp, pc, index, reading, verdicts>>

\* The entry is fresh: its digests are looked up.
Hit(r, f) ==
    /\ pc[r] = "walk"
    /\ f \in todo[r]
    /\ \E e \in index[r] :
         /\ Matches(e, f)
         /\ verdicts' = [verdicts EXCEPT ![r] = @ \union
                {[file |-> f, stat |-> StatOf(f), hash |-> e.hash, from |-> e.stat]}]
    /\ todo' = [todo EXCEPT ![r] = @ \ {f}]
    /\ UNCHANGED <<files, disk, tmp, pc, index, reading>>

\* It is not: compute_hashes opens the file.
Miss(r, f) ==
    /\ pc[r] = "walk"
    /\ f \in todo[r]
    /\ ~ \E e \in index[r] : Matches(e, f)
    /\ reading' = [reading EXCEPT ![r] = [stat |-> StatOf(f), blocks |-> <<>>]]
    /\ todo' = [todo EXCEPT ![r] = @ \ {f}]
    /\ pc' = [pc EXCEPT ![r] = f]
    /\ UNCHANGED <<files, disk, tmp, index, verdicts>>

\* While its program counter is a file, the run computes that file's digests.
ReadBlock(r) ==
    /\ pc[r] \in Files
    /\ Len(reading[r].blocks) < Len(content[pc[r]])
    /\ reading' = [reading EXCEPT ![r].blocks = Append(@, content[pc[r]][Len(@) + 1])]
    /\ UNCHANGED <<files, disk, tmp, pc, index, todo, verdicts>>

\* Mutant of EndOfFile: the entry is stamped when it is made.
EndOfFileStat(r) ==
    /\ pc[r] \in Files
    /\ Len(reading[r].blocks) >= Len(content[pc[r]])
    /\ index' = [index EXCEPT ![r] = Upsert(@,
            [path |-> PathOf[pc[r]], stat |-> StatOf(pc[r]),
             hash |-> reading[r].blocks])]
    /\ verdicts' = [verdicts EXCEPT ![r] = @ \union
            {[file |-> pc[r], stat |-> reading[r].stat, hash |-> reading[r].blocks,
              from |-> reading[r].stat]}]
    /\ reading' = [reading EXCEPT ![r] = Nothing]
    /\ Goto(r, "walk")
    /\ UNCHANGED <<files, disk, tmp, todo>>

\* read() returned nothing: the entry is stored under the stat that came first.
EndOfFile(r) ==
    /\ pc[r] \in Files
    /\ Len(reading[r].blocks) >= Len(content[pc[r]])
    /\ index' = [index EXCEPT ![r] = Upsert(@,
            [path |-> PathOf[pc[r]], stat |-> reading[r].stat,
             hash |-> reading[r].blocks])]
    /\ verdicts' = [verdicts EXCEPT ![r] = @ \union
            {[file |-> pc[r], stat |-> reading[r].stat, hash |-> reading[r].blocks,
              from |-> reading[r].stat]}]
    /\ reading' = [reading EXCEPT ![r] = Nothing]
    /\ Goto(r, "walk")
    /\ UNCHANGED <<files, disk, tmp, todo>>

\* open or read raises OSError: nothing is stored.
ReadFails(r) ==
    /\ pc[r] \in Files
    /\ reading' = [reading EXCEPT ![r] = Nothing]
    /\ Goto(r, "walk")
    /\ UNCHANGED <<files, disk, tmp, index, todo, verdicts>>

----------------------------------------------------------------------------
\* The walk is over.  save: mkstemp beside the index.
MakeTmp(r) ==
    /\ pc[r] = "walk"
    /\ todo[r] = {}
    /\ tmp' = [tmp EXCEPT ![r] = {}]
    /\ Goto(r, "save")
    /\ UNCHANGED <<files, disk, index, todo, reading, verdicts>>

MakeTmpFails(r) ==
    /\ pc[r] = "walk"
    /\ todo[r] = {}
    /\ Exit(r, "error")
    /\ UNCHANGED <<files, disk, tmp>>

\* Mutant of WriteEntry: the entries are written to the index file itself.
WriteEntryInPlace(r, e) ==
    /\ pc[r] = "save"
    /\ e \in index[r] \ tmp[r]
    /\ tmp' = [tmp EXCEPT ![r] = @ \union {e}]
    /\ disk' = tmp'[r]
    /\ UNCHANGED <<files, pc, index, todo, reading, verdicts>>

\* json.dump writes one entry after the other.
WriteEntry(r, e) ==
    /\ pc[r] = "save"
    /\ e \in index[r] \ tmp[r]
    /\ tmp' = [tmp EXCEPT ![r] = @ \union {e}]
    /\ UNCHANGED <<files, disk, pc, index, todo, reading, verdicts>>

\* Mutant of Replace: the temporary file is moved before it is closed.
ReplaceEarly(r) ==
    /\ pc[r] = "save"
    /\ disk' = tmp[r]
    /\ tmp' = [tmp EXCEPT ![r] = NoTmp]
    /\ Exit(r, "saved")
    /\ UNCHANGED <<files>>

\* os.replace, once the file is written and closed.
Replace(r) ==
    /\ pc[r] = "save"
    /\ tmp[r] = index[r]
    /\ disk' = tmp[r]
    /\ tmp' = [tmp EXCEPT ![r] = NoTmp]
    /\ Exit(r, "saved")
    /\ UNCHANGED <<files>>

\* A write or the replacement fails: the temporary file is unlinked, and stays if
\* that fails as well.
SaveFails(r) ==
    /\ pc[r] = "save"
    /\ tmp' \in {tmp, [tmp EXCEPT ![r] = NoTmp]}
    /\ Exit(r, "error")
    /\ UNCHANGED <<files, disk>>

\* The process is killed, or interrupted: KeyboardInterrupt is no Exception.
Crash(r) ==
    /\ pc[r] \in {"walk", "save"} \union Files
    /\ Exit(r, "crashed")
    /\ UNCHANGED <<files, disk, tmp>>

Next ==
    \/ Tick
    \/ \E f \in Files, c \in Contents : Write(f, c)
    \/ \E r \in Runs :
         \/ Load(r) \/ LoadFails(r) \/ ReadBlock(r) \/ EndOfFile(r) \/ ReadFails(r)
         \/ \E f \in Files : Skip(r, f) \/ Hit(r, f) \/ Miss(r, f)
         \/ MakeTmp(r) \/ MakeTmpFails(r) \/ Replace(r) \/ SaveFails(r) \/ Crash(r)
         \/ \E e \in index[r] : WriteEntry(r, e)

Spec == Init /\ [][Next]_vars

----------------------------------------------------------------------------
TypeOK ==
    /\ now \in Nat
    /\ content \in [Files -> Contents]
    /\ mtime \in [Files -> Nat]
    /\ writes \in Nat
    /\ disk \in {NoIndex} \union SUBSET Entry
    /\ tmp \in [Runs -> {NoTmp} \union SUBSET Entry]
    /\ pc \in [Runs -> Labels \union Files]
    /\ index \in [Runs -> SUBSET Entry]
    /\ todo \in [Runs -> SUBSET Files]
    /\ reading \in [Runs -> [stat : Stat, blocks : Seq(Block)]]
    /\ verdicts \in [Runs -> SUBSET Verdict]

\* The stat was made after the tick of the last write it saw, so that a later
\* write cannot carry the same time.
Settled(s) == s.mtime < s.seen

\* The file still is as the stat found it.
Unchanged(f, s) == s.size = Len(content[f]) /\ s.mtime = mtime[f]

\* The entries of the index file, and those the runs hold.
Entries == UNION ({index[r] : r \in Runs} \union ({disk} \ {NoIndex}))

\* No entry, in memory or on disk, is taken for a file that has other contents,
\* whatever was written while or since its digests were computed, whichever run
\* made it and however many runs overwrote each other's index.
CacheSound ==
    \A f \in Files, e \in Entries :
        Settled(e.stat) /\ Matches(e, f) => e.hash = content[f]

\* What a run looked up for a file are the digests of what it holds, unless the
\* file was written since the stat of this run: by this or an earlier run, with
\* or without the index.
VerdictsSound ==
    \A r \in Runs : \A v \in verdicts[r] :
        Settled(v.from) /\ Settled(v.stat) /\ Unchanged(v.file, v.stat)
            => v.hash = content[v.file]

\* The index file is only ever replaced as a whole, by all the entries of a run that
\* ends as saved in that step: a save that fails half way, is killed or overtaken by
\* another run leaves the index as it was (file_index_repository.py lines 154-168).
IndexAtomic ==
    [][disk' # disk =>
         \E r \in Runs : pc[r] = "save" /\ pc'[r] = "saved" /\ disk' = index[r]]_vars

\* When a run replaces the index, the paths of all it looked up are in it, from
\* this scan or from the index it loaded.
SaveKeepsAll ==
    [][\A r \in Runs : pc[r] # "saved" /\ pc'[r] = "saved" =>
         \A v \in verdicts[r] : \E e \in disk' : e.path = PathOf[v.file]]_vars
============================================================================
