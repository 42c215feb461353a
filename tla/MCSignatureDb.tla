--------------------------- MODULE MCSignatureDb ---------------------------
(***************************************************************************)
(* An instance of SignatureDb: two samples, whose records come with one or *)
(* both digests, and a filter of three bits in which they collide.         *)
(***************************************************************************)
EXTENDS SignatureDb, TLC

CONSTANTS m1, m2, s1, s2

MCBitsOf == (m1 :> {0, 1}) @@ (m2 :> {1, 2}) @@ (s1 :> {0, 2}) @@ (s2 :> {1})

E(m, s) == [md5 |-> m, sha256 |-> s, pattern |-> FALSE, known |-> TRUE]
PatternOnly == [md5 |-> None, sha256 |-> None, pattern |-> TRUE, known |-> TRUE]
UnknownLevel == [md5 |-> m1, sha256 |-> None, pattern |-> FALSE, known |-> FALSE]
R(m, s) == [md5 |-> m, sha256 |-> s]

MCBaseDbs == {NoFile, <<E(m1, s1)>>, <<PatternOnly, E(m1, None)>>,
              <<E(m1, None), E(m1, s1)>>, <<UnknownLevel>>}

\* A record that is known, one that is new, one of which one digest is new, one
\* that repeats itself, and one without a digest.
MCFeeds == {<<R(m1, s1), R(m2, None)>>, <<R(m2, s2), R(m2, None)>>,
            <<R(m1, s2)>>, <<R(None, None), R(None, s2), R(None, s2)>>}
============================================================================
