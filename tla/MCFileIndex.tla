---------------------------- MODULE MCFileIndex ----------------------------
(***************************************************************************)
(* Instances of FileIndex: files whose paths differ, and files that runs,  *)
(* started in different directories, name by the same relative path.       *)
(***************************************************************************)
EXTENDS FileIndex, TLC

CONSTANTS f1, f2, r1, r2, a, b

AbsolutePaths == [f \in Files |-> f]
OneTree == [r \in Runs |-> Files]

OneRelativePath == [f \in Files |-> f1]
TwoTrees == (r1 :> {f1}) @@ (r2 :> {f2})

\* Two contents of one size, which only the time tells apart.
MCContents == {<<a, a>>, <<b, b>>}

\* Nothing tells the runs, the files or the blocks apart when PathOf is the
\* identity.
Symmetry == Permutations(Runs) \union Permutations(Files) \union Permutations(Block)
============================================================================
