------------------------------ MODULE Versions ------------------------------
(***************************************************************************)
(* harness/versions.py: what a version string is compared by, and the two  *)
(* questions the policy rules ask of a pair of versions; and the choice of *)
(* the fixing version among an OSV advisory's ranges (osv_scan.py).        *)
(*                                                                         *)
(* A version string is the numbers of its dotted core and the tokens that  *)
(* follow them ("rc1", "post1", "-beta.2"); a build suffix, an epoch and a *)
(* leading v are dropped by parse and left out.  A token is a natural: an  *)
(* integer token is itself, a word is WordBase plus its rank among words,  *)
(* which is the order _key gives them ((0, int) before (1, str)).          *)
(***************************************************************************)
EXTENDS Integers, Sequences, FiniteSets

WordBase == 100

\* A string no number can be read from, and the absence of a string: both are
\* None to try_parse.
Unparsable == [nums |-> <<>>, tail |-> <<>>]

Version == [nums : Seq(Nat), tail : Seq(Nat)]

V(nums) == [nums |-> nums, tail |-> <<>>]
Tagged(nums, tail) == [nums |-> nums, tail |-> tail]

Parses(text) == text.nums # <<>>

\* Version._key: four components, missing ones zero and the fifth and later
\* ones dropped; any trailing token makes the version a prerelease, a post
\* release too.
ReleaseKey(text) == [i \in 1..4 |-> IF i <= Len(text.nums) THEN text.nums[i] ELSE 0]
StableRank(text) == IF text.tail = <<>> THEN 1 ELSE 0

\* Python's order on tuples of numbers: the first difference decides, and a
\* proper prefix is the smaller.
LexLess(s, t) ==
  \/ \E i \in 1..Len(s) :
        /\ i <= Len(t)
        /\ s[i] < t[i]
        /\ \A j \in 1..(i - 1) : s[j] = t[j]
  \/ /\ Len(s) < Len(t)
     /\ \A j \in 1..Len(s) : s[j] = t[j]

Less(v, w) ==
  LET a == ReleaseKey(v) IN
  LET b == ReleaseKey(w) IN
  \/ LexLess(a, b)
  \/ a = b /\ StableRank(v) < StableRank(w)
  \/ a = b /\ StableRank(v) = StableRank(w) /\ LexLess(v.tail, w.tail)

AtLeast(v, w) == ~Less(v, w)

\* at_or_above and is_patch_level_bump: undecidable is not False.
AtOrAbove(resolved, target) ==
  IF ~(Parses(resolved) /\ Parses(target)) THEN "unknown"
  ELSE IF AtLeast(resolved, target) THEN "yes" ELSE "no"

IsPatchLevelBump(resolved, patched) ==
  IF ~(Parses(resolved) /\ Parses(patched)) THEN "unknown"
  ELSE IF /\ Less(resolved, patched)
          /\ SubSeq(ReleaseKey(resolved), 1, 2) = SubSeq(ReleaseKey(patched), 1, 2)
       THEN "yes" ELSE "no"

-----------------------------------------------------------------------------
(* osv_scan._patched_version.  An advisory is the sequence of its events on *)
(* one package, [kind, ver, block]; "introduced" is remembered within its   *)
(* block and every "fixed" closes the branch opened by the last one.        *)

RangeEvent == [kind : {"introduced", "fixed"}, ver : Version, block : Nat]

Introduced(events, i) ==
  LET before == {k \in 1..(i - 1) : /\ events[k].kind = "introduced"
                                    /\ events[k].block = events[i].block} IN
  IF before = {} THEN Unparsable
  ELSE events[CHOOSE k \in before : \A m \in before : m <= k].ver

Fixes(events) == {i \in 1..Len(events) : events[i].kind = "fixed" /\ Parses(events[i].ver)}

OnBranch(events, i, installed) ==
  /\ Parses(installed)
  /\ Parses(Introduced(events, i))
  /\ AtLeast(installed, Introduced(events, i))
  /\ Less(installed, events[i].ver)

Lowest(events, S) == events[CHOOSE i \in S : /\ \A j \in S : AtLeast(events[j].ver, events[i].ver)
                                             /\ \A j \in S : j < i => Less(events[i].ver, events[j].ver)].ver

\* Variant: the lowest fix of any branch.
LowestFix(events, installed) ==
  IF Fixes(events) = {} THEN Unparsable ELSE Lowest(events, Fixes(events))

PatchedVersion(events, installed) ==
  LET mine  == {i \in Fixes(events) : OnBranch(events, i, installed)} IN
  LET above == {i \in Fixes(events) : Less(installed, events[i].ver)} IN
  IF Fixes(events) = {} THEN Unparsable
  ELSE IF ~Parses(installed) THEN Lowest(events, Fixes(events))
  ELSE IF mine # {} THEN events[CHOOSE i \in mine : \A j \in mine : i <= j].ver
  ELSE IF above # {} THEN Lowest(events, above)
  ELSE Unparsable
=============================================================================
