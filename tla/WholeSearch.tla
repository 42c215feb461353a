---------------------------- MODULE WholeSearch ----------------------------
(***************************************************************************)
(* What a search of a file for patterns promises, without blocks, carried  *)
(* bytes and duplicates: whenever more of the file has been read, what is  *)
(* found is every place where a pattern lies in the bytes read so far.     *)
(* The file may change between two reads, and the search ends only when    *)
(* the file has nothing beyond what was read, or there are no patterns.    *)
(***************************************************************************)
EXTENDS Integers, Sequences

CONSTANTS Byte,  \* the bytes a file may hold
          Names  \* the names a pattern may have

VARIABLES patterns, \* the [name, bytes] to look for
          file,     \* the bytes of the file now
          read,     \* the bytes read so far
          found,    \* the places found, as <<name, offset>>
          status

vars == <<patterns, file, read, found, status>>

\* The pattern p is the part of s that begins at the zero-based offset o.
LiesAt(p, s, o) ==
    /\ o + Len(p.bytes) <= Len(s)
    /\ SubSeq(s, o + 1, o + Len(p.bytes)) = p.bytes

Places(s) ==
    {k \in Names \X (0..Len(s)) :
       \E p \in patterns : p.name = k[1] /\ LiesAt(p, s, k[2])}

Init ==
    /\ patterns \subseteq [name : Names, bytes : Seq(Byte) \ {<<>>}]
    /\ file \in Seq(Byte)
    /\ read = <<>>
    /\ found = {}
    /\ status = "running"

\* The file is read on, as far as it goes or less.
Read ==
    /\ patterns # {}
    /\ \E n \in (Len(read) + 1) .. Len(file) :
         read' = read \o SubSeq(file, Len(read) + 1, n)
    /\ found' = Places(read')
    /\ UNCHANGED <<patterns, file, status>>

Finish ==
    /\ patterns = {} \/ Len(file) <= Len(read)
    /\ status' = "done"
    /\ UNCHANGED <<patterns, file, read, found>>

\* Another process writes the file.
Write ==
    /\ file' \in Seq(Byte)
    /\ UNCHANGED <<patterns, read, found, status>>

Next == status = "running" /\ (Read \/ Finish \/ Write)

Spec == Init /\ [][Next]_vars
=============================================================================
