--------------------------- MODULE ArchiveBackend ---------------------------
(***************************************************************************)
(* What the archive engine knows of a backend: it runs for a while, and    *)
(* then once and for all it refuses the archive, or names the entries that *)
(* are infected and, apart from them, those that are archives.  ArchiveScan *)
(* has one step for such a run (BackendRefuses, BackendUnpacks), and       *)
(* nothing else of it is visible to the engine.                            *)
(***************************************************************************)
CONSTANT Names  \* names of entries in an archive

VARIABLES status, infected, nested

vars == <<status, infected, nested>>

Init == status = "running" /\ infected = {} /\ nested = {}

Refuse ==
    /\ status' = "refused"
    /\ UNCHANGED <<infected, nested>>

Unpack ==
    /\ status' = "unpacked"
    /\ nested' \in SUBSET Names
    /\ infected' \in SUBSET (Names \ nested')

Next == status = "running" /\ (Refuse \/ Unpack)

Spec == Init /\ [][Next]_vars
=============================================================================
