---------------------------- MODULE MCPublicScan ----------------------------
(* A small instance of PublicScan: two scanners, two commits of which one   *)
(* pins an affected dependency, and a branch that may point to either.      *)
EXTENDS PublicScan, TLC

CONSTANTS p1, p2, c1, c2, d1, main

Pins == c1 :> {d1} @@ c2 :> {}
=============================================================================
