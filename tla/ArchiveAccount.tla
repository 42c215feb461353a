--------------------------- MODULE ArchiveAccount ---------------------------
(***************************************************************************)
(* What an archive scan promises, whatever the archives hold: every        *)
(* archive met, the one on the command line and all those nested in it, is *)
(* decided once.  It is opened, when it is no deeper than the cap, or it   *)
(* is reported as skipped.  Archives are named by their provenance, the    *)
(* path of entry names from the outermost archive.                         *)
(***************************************************************************)
EXTENDS Integers, Sequences

CONSTANTS Names,    \* names of entries in an archive
          MaxDepth  \* how many archives may be opened inside each other

VARIABLES pending,  \* archives met and not decided
          opened, skipped,
          status

vars == <<pending, opened, skipped, status>>

Children(p, found) == {Append(p, n) : n \in found}

Init ==
    /\ pending = {<<>>}
    /\ opened = {}
    /\ skipped = {}
    /\ status = "running"

Open(p) ==
    /\ p \in pending
    /\ Len(p) < MaxDepth
    /\ \E found \in SUBSET Names :
         pending' = (pending \ {p}) \union Children(p, found)
    /\ opened' = opened \union {p}
    /\ UNCHANGED <<skipped, status>>

Skip(p) ==
    /\ p \in pending
    /\ pending' = pending \ {p}
    /\ skipped' = skipped \union {p}
    /\ UNCHANGED <<opened, status>>

\* The scan returns when nothing is left to decide.
Return ==
    /\ pending = {}
    /\ status' = "returned"
    /\ UNCHANGED <<pending, opened, skipped>>

\* An exception ends the scan: what is pending stays undecided for ever.
Abort ==
    /\ pending' = {}
    /\ status' = "aborted"
    /\ UNCHANGED <<opened, skipped>>

Next ==
    /\ status = "running"
    /\ \/ \E p \in pending : Open(p) \/ Skip(p)
       \/ Return
       \/ Abort

Spec == Init /\ [][Next]_vars
=============================================================================
