------------------------------ MODULE FileTree ------------------------------
(***************************************************************************)
(* The files that the scan command and the watcher look at, and the other  *)
(* processes of the host that write, delete and rename them while they do. *)
(* All of it is external to the scanner.  A content stands for all files   *)
(* that the engines, the size limit and the archive detector treat alike.  *)
(***************************************************************************)
EXTENDS Integers, FiniteSets

CONSTANTS
    Paths,      \* the paths a file may be at
    Contents,   \* the contents a file may have
    Absent,     \* no file at the path
    Special,    \* contents that stand for a link, a pipe, a socket or a device
    Links, LinkTo, \* those that stand for a link, and where it leads from a path
    Flags,      \* for every content the engines that have a finding in it
    MaxChanges  \* bound: changes of the tree in one behaviour

\* The engines in the order both callers run them.
Order == <<"hash", "pattern", "heuristic", "entropy">>
Positions == 1 .. 4
Engines == {Order[i] : i \in Positions}

ASSUME PathsAssumption == IsFiniteSet(Paths)
ASSUME ContentsAssumption == Absent \notin Contents /\ Special \subseteq Contents
ASSUME LinksAssumption == Links \subseteq Special /\ LinkTo \in [Links -> [Paths -> Paths]]
ASSUME FlagsAssumption == Flags \in [Contents -> SUBSET Engines]
ASSUME ChangesAssumption == MaxChanges \in Nat

VARIABLES
    content,    \* the content of the file at a path
    version,    \* the change that brought it there, 0 for the first content
    clock       \* the number of changes so far

treeVars == <<content, version, clock>>

Holds(p) == content[p] # Absent
IsLink(p) == content[p] \in Links
Target(p) == LinkTo[content[p]][p]

\* The paths on the way that the links at p lead, p the first of them.
Reached(p) ==
    {q \in Paths : \A S \in SUBSET Paths :
        p \in S /\ (\A r \in S : IsLink(r) => Target(r) \in S) => q \in S}

\* Path.resolve: where the way ends.  If it runs into a loop, the code takes one of
\* the links of the loop.
Resolved(p) == {q \in Reached(p) : IsLink(q) => q \in Reached(Target(q))}
Loops(p) == \A q \in Resolved(p) : IsLink(q)

\* What open and read find at a path: nothing if the way ends nowhere.
ReadAs(p) == {content[q] : q \in {r \in Resolved(p) : Holds(r) /\ ~ IsLink(r)}}

TreeInit ==
    /\ content \in [Paths -> Contents \union {Absent}]
    /\ version = [p \in Paths |-> 0]
    /\ clock = 0

Write(p, c) ==
    /\ clock < MaxChanges
    /\ content' = [content EXCEPT ![p] = c]
    /\ version' = [version EXCEPT ![p] = clock + 1]
    /\ clock' = clock + 1

Delete(p) == Holds(p) /\ Write(p, Absent)

Move(p, q) ==
    /\ p # q
    /\ Holds(p)
    /\ clock < MaxChanges
    /\ content' = [content EXCEPT ![q] = content[p], ![p] = Absent]
    /\ version' = [version EXCEPT ![q] = clock + 1, ![p] = clock + 1]
    /\ clock' = clock + 1

TreeTypeOK ==
    /\ content \in [Paths -> Contents \union {Absent}]
    /\ version \in [Paths -> 0 .. clock]
    /\ clock \in 0 .. MaxChanges
=============================================================================
