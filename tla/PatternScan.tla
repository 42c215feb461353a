---------------------------- MODULE PatternScan ----------------------------
(***************************************************************************)
(* The byte-pattern engine: scan_file_patterns of                          *)
(* application/byte_pattern_scan_engine.py.                                *)
(*                                                                         *)
(* The file is read in blocks.  The last max_pat_len - 1 bytes of a block  *)
(* are carried over, so that a pattern lying across two blocks is found,   *)
(* and everything found is deduplicated by signature name and absolute     *)
(* offset, because the carried bytes are searched twice.  Nothing locks    *)
(* the file: another process may rewrite it between two reads.             *)
(***************************************************************************)
EXTENDS Integers, Sequences, FiniteSetsExt

CONSTANTS
    Byte,        \* the bytes a file may hold
    Names,       \* the names of signatures
    NoPattern,   \* hex_pattern is None
    Databases,   \* the signature lists the engine may be called with
    ChunkSizes,  \* the chunk_size arguments it may be called with
    MaxFileLen,  \* bound on the length of the file
    MaxRewrites  \* bound on the writes another process makes meanwhile

Signature == [name : Names, pattern : (Seq(Byte) \ {<<>>}) \union {NoPattern}]

ASSUME DatabasesAssumption == Databases \subseteq Seq(Signature)
ASSUME ChunkSizesAssumption == ChunkSizes \subseteq Nat \ {0}
ASSUME NoPatternAssumption == NoPattern \notin Seq(Byte)
ASSUME BoundsAssumption == MaxFileLen \in Nat /\ MaxRewrites \in Nat

VARIABLES
    signatures,  \* the repository passed to the call
    chunkSize,
    file,        \* the bytes of the file now
    rewrites,    \* how often another process has written the file
    pc,
    fpos,        \* the offset of the open file handle
    buffer, bufferBase,
    results,     \* the PatternScanResults appended so far
    stream       \* history: every byte the handle has returned

vars == <<signatures, chunkSize, file, rewrites, pc, fpos, buffer, bufferBase,
          results, stream>>

----------------------------------------------------------------------------
\* _collect_patterns: the entries of the repository with a hex_pattern.
Patterns == {i \in DOMAIN signatures : signatures[i].pattern # NoPattern}

Pattern(i) == signatures[i].pattern

MaxPatLen == Max({Len(Pattern(i)) : i \in Patterns})
\* Mutant: one byte too few is carried over.
OverlapShort == IF MaxPatLen > 1 THEN MaxPatLen - 2 ELSE 0
Overlap == MaxPatLen - 1
ReadSize == Max({chunkSize, MaxPatLen})

\* The pattern p is in the bytes s at the zero-based offset o.
Occurs(p, s, o) ==
    /\ o \in Nat
    /\ o + Len(p) <= Len(s)
    /\ \A j \in 1..Len(p) : s[o + j] = p[j]

\* _find_all over a buffer, for one entry of the repository.
FindAll(i, buf) == {o \in 0..Len(buf) : Occurs(Pattern(i), buf, o)}

\* The key of a result, which the set `seen` of the code holds.
Key(r) == <<signatures[r.entry].name, r.offset>>
Seen == {Key(r) : r \in results}

\* Mutant: what the carried bytes show again is reported again.
NewResultsTwice(buf, base) ==
    LET hits == {r \in [entry : Patterns, offset : base..(base + Len(buf)),
                        block : {base + Len(buf)}] :
                   r.offset - base \in FindAll(r.entry, buf)}
    IN  {r \in hits : \A q \in hits : Key(q) = Key(r) => q.entry >= r.entry}

\* The results a buffer adds, entries in repository order: the first entry of
\* a name that matches at an offset not seen before is the one reported.
NewResults(buf, base) ==
    LET hits == {r \in [entry : Patterns, offset : base..(base + Len(buf)),
                        block : {base + Len(buf)}] :
                   r.offset - base \in FindAll(r.entry, buf)}
    IN  {r \in hits :
           /\ Key(r) \notin Seen
           /\ \A q \in hits : Key(q) = Key(r) => q.entry >= r.entry}

\* Mutant: the buffer is never trimmed.
DroppedNever(buf) == 0

\* How many bytes of a searched buffer are dropped before the next read.
Dropped(buf) == IF Len(buf) > Overlap THEN Len(buf) - Overlap ELSE 0

\* The absolute offset of the first byte kept.
\* Mutant: a buffer shorter than the overlap moves the base backwards.
NextBaseUnguarded(buf) == bufferBase + Len(buf) - Overlap
NextBase(buf) == bufferBase + Dropped(buf)

\* fh.read(read_size): fewer bytes only at the end of the file.
Chunk == SubSeq(file, fpos + 1, Min({fpos + ReadSize, Len(file)}))

----------------------------------------------------------------------------
Init ==
    /\ signatures \in Databases
    /\ chunkSize \in ChunkSizes
    /\ file \in UNION {[1..n -> Byte] : n \in 0..MaxFileLen}
    /\ rewrites = 0
    /\ pc = "open"
    /\ fpos = 0
    /\ buffer = <<>>
    /\ bufferBase = 0
    /\ results = {}
    /\ stream = <<>>

\* No entry has a pattern: the file is not even opened.
ReturnEmpty ==
    /\ pc = "open"
    /\ Patterns = {}
    /\ pc' = "done"
    /\ UNCHANGED <<signatures, chunkSize, file, rewrites, fpos, buffer,
                   bufferBase, results, stream>>

Open ==
    /\ pc = "open"
    /\ Patterns # {}
    /\ pc' = "read"
    /\ UNCHANGED <<signatures, chunkSize, file, rewrites, fpos, buffer,
                   bufferBase, results, stream>>

\* One turn of the loop: read, search the whole buffer, keep the overlap.
ScanBlock ==
    /\ pc = "read"
    /\ Chunk # <<>>
    /\ LET buf == buffer \o Chunk
       IN  /\ results' = results \union NewResults(buf, bufferBase)
           /\ bufferBase' = NextBase(buf)
           /\ buffer' = SubSeq(buf, Dropped(buf) + 1, Len(buf))
    /\ fpos' = fpos + Len(Chunk)
    /\ stream' = stream \o Chunk
    /\ UNCHANGED <<signatures, chunkSize, file, rewrites, pc>>

\* Mutant: a short read is taken for the end of the file.
EndOfFileShortRead ==
    /\ pc = "read"
    /\ Len(Chunk) < ReadSize
    /\ pc' = "done"
    /\ UNCHANGED <<signatures, chunkSize, file, rewrites, fpos, buffer,
                   bufferBase, results, stream>>

\* Mutant: the end is recognised by the position, not by the empty read.
EndOfFileByPosition ==
    /\ pc = "read"
    /\ fpos = Len(file)
    /\ pc' = "done"
    /\ UNCHANGED <<signatures, chunkSize, file, rewrites, fpos, buffer,
                   bufferBase, results, stream>>

\* The empty read that ends the loop.  The results are a set with one element
\* per (offset, name), so the final sort adds nothing to it.
EndOfFile ==
    /\ pc = "read"
    /\ Chunk = <<>>
    /\ pc' = "done"
    /\ UNCHANGED <<signatures, chunkSize, file, rewrites, fpos, buffer,
                   bufferBase, results, stream>>

\* Another process replaces, extends or truncates the file in place.
Rewrite ==
    /\ pc # "done"
    /\ rewrites < MaxRewrites
    /\ rewrites' = rewrites + 1
    /\ file' \in UNION {[1..n -> Byte] : n \in 0..MaxFileLen}
    /\ UNCHANGED <<signatures, chunkSize, pc, fpos, buffer, bufferBase, results,
                   stream>>

Scan == ReturnEmpty \/ Open \/ ScanBlock \/ EndOfFile

Next == Scan \/ Rewrite

\* The scan is one thread that is never blocked.
Spec == Init /\ [][Next]_vars /\ WF_vars(Scan)

----------------------------------------------------------------------------
\* Types, and what every state of the loop has in common.
TypeOK ==
    /\ signatures \in Databases
    /\ chunkSize \in ChunkSizes
    /\ file \in Seq(Byte)
    /\ rewrites \in Nat
    /\ pc \in {"open", "read", "done"}
    /\ fpos \in Nat
    /\ buffer \in Seq(Byte)
    /\ bufferBase \in Nat
    /\ results \subseteq [entry : Patterns, offset : Nat, block : Nat]
    /\ stream \in Seq(Byte)

\* What a search of the bytes s in one piece finds.
Occurrences(s) ==
    {k \in Names \X (0..Len(s)) :
       \E i \in Patterns : /\ signatures[i].name = k[1]
                           /\ Occurs(Pattern(i), s, k[2])}

\* After every block the results name exactly the occurrences in the bytes
\* read so far: none is lost at a block boundary, none is invented there,
\* whatever the chunk size and whoever rewrites the file (lines 71-102).
FoundExactly == Seen = Occurrences(stream)

\* A name is reported once per offset, although the carried bytes are searched
\* twice and several entries may share a name (lines 84-87).
OneResultPerKey ==
    \A r, q \in results : Key(r) = Key(q) => r = q

\* Between two reads only the overlap is held in memory, however long the
\* file is (lines 97-102).
BoundedBuffer == Patterns # {} => Len(buffer) <= Overlap

\* The engine is a search of the whole file: blocks, carried bytes, repeated hits and
\* the order of the repository do not show in what it finds, and it ends only at the
\* end of the file as it is then (lines 60-105).
Search == INSTANCE WholeSearch
              WITH patterns <- {[name |-> signatures[i].name, bytes |-> Pattern(i)] :
                                  i \in Patterns},
                   read <- stream,
                   found <- Seen,
                   status <- IF pc = "done" THEN "done" ELSE "running"

Searches == Search!Spec

\* The scan ends, also when the file shrinks below the read position (76-78).
Terminates == <>(pc = "done")

============================================================================
