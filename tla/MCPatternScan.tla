--------------------------- MODULE MCPatternScan ---------------------------
(***************************************************************************)
(* PatternScan for TLC: two byte values, two names, and repositories with  *)
(* patterns of one to three bytes: prefixes and suffixes of each other,    *)
(* patterns that overlap themselves, an entry without a pattern, and two   *)
(* entries of the same name.                                               *)
(***************************************************************************)
EXTENDS PatternScan, TLC

CONSTANTS A, B, None

MCByte == {0, 1}
MCNames == {A, B}

Entry(n, p) == [name |-> n, pattern |-> p]

MCDatabases ==
    { <<>>,
      <<Entry(A, None)>>,
      <<Entry(A, <<1>>)>>,
      <<Entry(A, <<1, 1, 0>>)>>,
      <<Entry(A, <<0, 0>>), Entry(B, <<1, 0, 1>>)>>,
      <<Entry(A, <<1, 0, 1>>), Entry(A, <<1>>), Entry(B, <<0, 1>>)>> }
=============================================================================
