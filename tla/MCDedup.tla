------------------------------ MODULE MCDedup ------------------------------
(* Small instances of Dedup.                                                *)
EXTENDS Dedup, TLC

CONSTANTS a1, a2, a3, a4, b1, c1

Fact(ghsa, purl, manifest, symbols, direct, cvss) ==
  [ghsa |-> ghsa, purl |-> purl, major |-> 1, patched |-> "1.2", manifest |-> manifest,
   symbols |-> symbols, direct |-> direct, cvss |-> cvss]

\* Four alerts of one upgrade path, one that shares their package, and one that
\* shares a symbol with that one and a manifest with some of them.
MCFacts ==
     (a1 :> Fact("g", "p", "m", {}, FALSE, 75)) @@ (a2 :> Fact("g", "p", "n", {}, TRUE, 75))
  @@ (a3 :> Fact("g", "p", "m", {}, TRUE, 75))  @@ (a4 :> Fact("g", "p", "n", {}, FALSE, 98))
  @@ (b1 :> Fact("h", "p", "m", {"f"}, TRUE, 50)) @@ (c1 :> Fact("k", "q", "m", {"f"}, TRUE, 50))

MCUpgradePath ==
  [a \in Alerts |-> <<MCFacts[a].ghsa, MCFacts[a].purl, MCFacts[a].major, MCFacts[a].patched>>]

MCPlace == (a1 :> 1) @@ (a2 :> 2) @@ (a3 :> 3) @@ (a4 :> 4) @@ (b1 :> 5) @@ (c1 :> 6)
=============================================================================
