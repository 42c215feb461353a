----------------------------- MODULE MCHostScan -----------------------------
(* An instance of HostScan for TLC: two directories, one file in each.      *)
EXTENDS HostScan, TLC

CONSTANTS a, b, root, sub, mal, zip, link, m, n, u

MCDirOf == (a :> root) @@ (b :> sub)
MCFlags == (mal :> {"hash", "pattern", "entropy"}) @@ (zip :> {"heuristic"})
           @@ (link :> {})
MCLinkTo == link :> ((a :> b) @@ (b :> a))
MCOutcomes ==
    {{},
     {[member |-> Itself, by |-> "skipped"]},
     {[member |-> m, by |-> "hash"], [member |-> m, by |-> "heuristic"],
      [member |-> n, by |-> "entropy"]},
     {[member |-> u, by |-> "skipped"]}}
=============================================================================
