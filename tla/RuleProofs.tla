----------------------------- MODULE RuleProofs -----------------------------
(***************************************************************************)
(* What the pure parts promise for every input: the order of versions, the *)
(* choice of the fixing version, the closure of a lockfile, and the engine *)
(* that takes the first rule that decides.                                 *)
(***************************************************************************)
EXTENDS PolicyRules, NaturalsInduction, WellFoundedInduction,
        SequenceTheorems, FiniteSetTheorems, TLAPS

-----------------------------------------------------------------------------
(* Natural numbers.                                                         *)

\* The first of some positions is one of them, and before the others.
LEMMA LeastIsMember ==
  ASSUME NEW S, S \subseteq Nat, S # {}
  PROVE  /\ (CHOOSE i \in S : \A j \in S : i <= j) \in S
         /\ \A j \in S : (CHOOSE i \in S : \A k \in S : i <= k) <= j
<1>1. PICK k \in S : \A j \in S : <<j, k>> \notin OpToRel(<, Nat)
  BY NatLessThanWellFounded, WFMin, Zenon
<1>2. ASSUME NEW j \in S PROVE k <= j
  <2>1. <<j, k>> \in Nat \X Nat
    OBVIOUS
  <2>2. ~(j < k)
    <3> SUFFICES ASSUME j < k PROVE FALSE
      OBVIOUS
    <3>1. <<j, k>>[1] < <<j, k>>[2]
      OBVIOUS
    <3>2. <<j, k>> \in OpToRel(<, Nat)
      BY <2>1, <3>1, Zenon DEF OpToRel
    <3> QED
      BY <1>1, <3>2
  <2> QED
    BY <2>1, <2>2
<1> QED
  BY <1>2

\* Induction over a set of numbers.
LEMMA InductionOverNat ==
  ASSUME NEW P, 0 \in P, \A n \in Nat : n \in P => n + 1 \in P
  PROVE  Nat \subseteq P
<1> SUFFICES ASSUME Nat \ P # {} PROVE FALSE
  OBVIOUS
<1> DEFINE S == Nat \ P
           n == CHOOSE i \in S : \A j \in S : i <= j
<1>1. n \in S /\ \A j \in S : n <= j
  BY LeastIsMember
<1> HIDE DEF n
<1>2. n # 0 /\ n \in Nat
  BY <1>1
<1>3. n - 1 \in Nat /\ n - 1 \notin S
  BY <1>1, <1>2
<1>4. (n - 1) + 1 \in P
  BY <1>3
<1> QED BY <1>1, <1>2, <1>4

-----------------------------------------------------------------------------
(* The order of versions.                                                   *)

\* The first difference decides.
LEMMA LexAt ==
  ASSUME NEW s, NEW t, NEW i \in 1..Len(s), i <= Len(t), s[i] < t[i],
         \A j \in 1..(i - 1) : s[j] = t[j]
  PROVE  LexLess(s, t)
BY DEF LexLess

\* A proper prefix is the smaller.
LEMMA LexPrefix ==
  ASSUME NEW s, NEW t, Len(s) < Len(t), \A j \in 1..Len(s) : s[j] = t[j]
  PROVE  LexLess(s, t)
BY DEF LexLess

\* Two sequences are equal or differ first somewhere: the order is total.
LEMMA LexTotal ==
  ASSUME NEW s \in Seq(Nat), NEW t \in Seq(Nat)
  PROVE  s = t \/ LexLess(s, t) \/ LexLess(t, s)
<1> DEFINE D == {i \in Nat : i \in 1..Len(s) /\ i <= Len(t) /\ s[i] # t[i]}
<1>0. /\ Len(s) \in Nat /\ Len(t) \in Nat
      /\ \A i \in 1..Len(s) : s[i] \in Nat
      /\ \A i \in 1..Len(t) : t[i] \in Nat
  OBVIOUS
<1>1. CASE D # {}
  <2> DEFINE i == CHOOSE k \in D : \A j \in D : k <= j
  <2>1. i \in D /\ \A j \in D : i <= j
    BY <1>1, LeastIsMember
  <2> HIDE DEF i
  <2>2. i \in 1..Len(s) /\ i \in 1..Len(t) /\ s[i] # t[i]
    BY <2>1
  <2>3. ASSUME NEW j \in 1..(i - 1) PROVE s[j] = t[j]
    <3>1. j \notin D
      BY <2>1
    <3>2. j \in Nat /\ j \in 1..Len(s) /\ j <= Len(t)
      BY <1>0, <2>2
    <3> QED BY <3>1, <3>2
  <2>4. s[i] < t[i] \/ t[i] < s[i]
    BY <1>0, <2>2
  <2>5. i <= Len(s) /\ i <= Len(t)
    BY <1>0, <2>2
  <2>6. s[i] < t[i] => LexLess(s, t)
    BY <2>2, <2>3, <2>5, LexAt, Zenon
  <2>7. \A j \in 1..(i - 1) : t[j] = s[j]
    BY <2>3
  <2>8. t[i] < s[i] => LexLess(t, s)
    BY <2>2, <2>5, <2>7, LexAt, Zenon
  <2> QED BY <2>4, <2>6, <2>8
<1>2. CASE D = {}
  <2>1. \A i \in 1..Len(s) : i <= Len(t) => s[i] = t[i]
    BY <1>0, <1>2
  <2>2. CASE Len(s) < Len(t)
    BY <1>0, <2>1, <2>2 DEF LexLess
  <2>3. CASE Len(t) < Len(s)
    BY <1>0, <2>1, <2>3 DEF LexLess
  <2>4. CASE Len(s) = Len(t)
    BY <1>0, <2>1, <2>4
  <2> QED BY <1>0, <2>2, <2>3, <2>4
<1> QED BY <1>1, <1>2

\* The smaller of the two positions where they first differ decides.
LEMMA LexTransitive ==
  ASSUME NEW s \in Seq(Nat), NEW t \in Seq(Nat), NEW u \in Seq(Nat), LexLess(s, t), LexLess(t, u)
  PROVE  LexLess(s, u)
<1>0. /\ Len(s) \in Nat /\ Len(t) \in Nat /\ Len(u) \in Nat
      /\ \A i \in 1..Len(s) : s[i] \in Nat
      /\ \A i \in 1..Len(t) : t[i] \in Nat
      /\ \A i \in 1..Len(u) : u[i] \in Nat
  OBVIOUS
\* Where the one is smaller: at a place, or behind its last.
<1> DEFINE At(x, y, i) == /\ i \in 1..Len(x) /\ i <= Len(y) /\ x[i] < y[i]
                          /\ \A j \in 1..(i - 1) : x[j] = y[j]
           Prefix(x, y) == Len(x) < Len(y) /\ \A j \in 1..Len(x) : x[j] = y[j]
<1>1. /\ Prefix(s, t) \/ \E i \in 1..Len(s) : At(s, t, i)
      /\ Prefix(t, u) \/ \E k \in 1..Len(t) : At(t, u, k)
  BY DEF LexLess
<1>2. CASE Prefix(s, t) /\ Prefix(t, u)
  <2>1. Len(s) < Len(u)
    BY <1>0, <1>2
  <2>2. ASSUME NEW j \in 1..Len(s) PROVE s[j] = u[j]
    <3>1. j \in 1..Len(t)
      BY <1>0, <1>2
    <3> QED BY <1>2, <3>1
  <2> QED BY <2>1, <2>2, LexPrefix
<1>3. ASSUME Prefix(s, t), NEW k \in 1..Len(t), At(t, u, k) PROVE LexLess(s, u)
  <2>1. CASE k <= Len(s)
    <3>1. k \in 1..Len(s) /\ k <= Len(u) /\ s[k] < u[k]
      BY <1>0, <1>3, <2>1
    <3>2. ASSUME NEW j \in 1..(k - 1) PROVE s[j] = u[j]
      <4>1. j \in 1..Len(s)
        BY <1>0, <2>1
      <4> QED BY <1>3, <4>1
    <3> QED BY <3>1, <3>2, LexAt, Zenon
  <2>2. CASE Len(s) < k
    <3>1. Len(s) < Len(u)
      BY <1>0, <1>3, <2>2
    <3>2. ASSUME NEW j \in 1..Len(s) PROVE s[j] = u[j]
      <4>1. j \in 1..(k - 1)
        BY <1>0, <2>2
      <4> QED BY <1>3, <4>1
    <3> QED BY <3>1, <3>2, LexPrefix
  <2> QED BY <1>0, <2>1, <2>2
<1>4. ASSUME NEW i \in 1..Len(s), At(s, t, i), Prefix(t, u) PROVE LexLess(s, u)
  <2>0. i \in 1..Len(t)
    BY <1>0, <1>4
  <2>1. i <= Len(u) /\ s[i] < u[i]
    BY <1>0, <1>4, <2>0
  <2>2. ASSUME NEW j \in 1..(i - 1) PROVE s[j] = u[j]
    <3>1. j \in 1..Len(t)
      BY <1>0, <2>0
    <3> QED BY <1>4, <3>1
  <2> QED BY <2>1, <2>2, LexAt, Zenon
<1>5. ASSUME NEW i \in 1..Len(s), At(s, t, i), NEW k \in 1..Len(t), At(t, u, k)
      PROVE  LexLess(s, u)
  <2> DEFINE n == IF i < k THEN i ELSE k
  <2>0. n \in 1..Len(s) /\ n \in 1..Len(t) /\ n \in 1..Len(u)
    <3>1. i \in 1..Len(s) /\ i <= Len(t) /\ k \in 1..Len(t) /\ k <= Len(u)
      BY <1>5
    <3>2. CASE i < k
      BY <1>0, <3>1, <3>2
    <3>3. CASE ~(i < k)
      BY <1>0, <3>1, <3>3
    <3> QED BY <3>2, <3>3
  <2>1. s[n] < u[n]
    <3>1. CASE i < k
      <4>1. i \in 1..(k - 1)
        BY <1>0, <3>1
      <4>2. s[i] < t[i] /\ t[i] = u[i]
        BY <1>5, <4>1
      <4> QED BY <3>1, <4>2
    <3>2. CASE i = k
      <4>1. s[i] < t[i] /\ t[i] < u[i] /\ i \in 1..Len(t) /\ i \in 1..Len(u)
        BY <1>5, <2>0, <3>2
      <4> QED BY <1>0, <3>2, <4>1
    <3>3. CASE k < i
      <4>1. k \in 1..(i - 1)
        BY <1>0, <3>3
      <4>2. s[k] = t[k] /\ t[k] < u[k]
        BY <1>5, <4>1
      <4> QED BY <3>3, <4>2
    <3> QED BY <1>0, <3>1, <3>2, <3>3
  <2>2. ASSUME NEW j \in 1..(n - 1) PROVE s[j] = u[j]
    <3>1. j \in 1..(i - 1) /\ j \in 1..(k - 1)
      BY <1>0, <2>0
    <3> QED BY <1>5, <3>1
  <2>3. n <= Len(u)
    BY <1>0, <2>0
  <2> HIDE DEF n
  <2> QED BY <2>0, <2>1, <2>2, <2>3, LexAt, Zenon
<1> QED BY <1>1, <1>2, <1>3, <1>4, <1>5

\* Nothing is smaller than itself.
LEMMA LexIrreflexive ==
  ASSUME NEW s \in Seq(Nat)
  PROVE  ~LexLess(s, s)
BY DEF LexLess

\* What versions are compared by are sequences of numbers.
LEMMA KeyType ==
  ASSUME NEW v \in Version
  PROVE  ReleaseKey(v) \in Seq(Nat) /\ v.tail \in Seq(Nat)
<1>1. ReleaseKey(v) \in [1..4 -> Nat]
  BY DEF ReleaseKey, Version
<1>2. ReleaseKey(v) \in Seq(Nat)
  BY <1>1, SeqDef, Zenon
<1> QED BY <1>2 DEF Version

\* The order is strict, and a version between two others is above the lower or
\* below the higher one.
LEMMA LessIsWeakOrder ==
  ASSUME NEW u \in Version, NEW v \in Version, NEW w \in Version
  PROVE  /\ ~Less(u, u)
         /\ Less(u, v) => ~Less(v, u)
         /\ Less(u, v) => Less(u, w) \/ Less(w, v)
<1> DEFINE a == ReleaseKey(u)
           b == ReleaseKey(v)
           c == ReleaseKey(w)
<1>1. /\ a \in Seq(Nat) /\ u.tail \in Seq(Nat)
      /\ b \in Seq(Nat) /\ v.tail \in Seq(Nat)
      /\ c \in Seq(Nat) /\ w.tail \in Seq(Nat)
  BY KeyType
<1>2. /\ StableRank(u) \in {0, 1} /\ StableRank(v) \in {0, 1} /\ StableRank(w) \in {0, 1}
  BY DEF StableRank
<1>3. \A s, t \in Seq(Nat) : /\ s = t \/ LexLess(s, t) \/ LexLess(t, s)
                             /\ ~LexLess(s, s)
  BY LexTotal, LexIrreflexive
<1>4. \A s, t, x \in Seq(Nat) : LexLess(s, t) /\ LexLess(t, x) => LexLess(s, x)
  BY LexTransitive
<1> HIDE DEF a, b, c
<1>5. /\ Less(u, u) <=> \/ LexLess(a, a) \/ LexLess(u.tail, u.tail)
                        \/ StableRank(u) < StableRank(u)
      /\ Less(u, v) <=> \/ LexLess(a, b)
                        \/ a = b /\ StableRank(u) < StableRank(v)
                        \/ a = b /\ StableRank(u) = StableRank(v) /\ LexLess(u.tail, v.tail)
      /\ Less(v, u) <=> \/ LexLess(b, a)
                        \/ b = a /\ StableRank(v) < StableRank(u)
                        \/ b = a /\ StableRank(v) = StableRank(u) /\ LexLess(v.tail, u.tail)
      /\ Less(u, w) <=> \/ LexLess(a, c)
                        \/ a = c /\ StableRank(u) < StableRank(w)
                        \/ a = c /\ StableRank(u) = StableRank(w) /\ LexLess(u.tail, w.tail)
      /\ Less(w, v) <=> \/ LexLess(c, b)
                        \/ c = b /\ StableRank(w) < StableRank(v)
                        \/ c = b /\ StableRank(w) = StableRank(v) /\ LexLess(w.tail, v.tail)
  BY DEF Less, a, b, c
<1>6. ~Less(u, u)
  BY <1>1, <1>2, <1>3, <1>5
<1>7. Less(u, v) => ~Less(v, u)
  BY <1>1, <1>2, <1>3, <1>4, <1>5
<1>8. Less(u, v) => Less(u, w) \/ Less(w, v)
  BY <1>1, <1>2, <1>3, <1>4, <1>5
<1> QED BY <1>6, <1>7, <1>8

\* Of finitely many versions one is the lowest: no other one is below it.
LEMMA LowestExists ==
  ASSUME NEW v, NEW n \in Nat, NEW S, S \subseteq 1..n, S # {}, \A i \in S : v[i] \in Version
  PROVE  \E i \in S : \A j \in S : ~Less(v[j], v[i])
<1> DEFINE Settled(T) == \E i \in T : \A j \in T : ~Less(v[j], v[i])
           P == {m \in Nat : \A T \in SUBSET S : T \subseteq 1..m /\ T # {} => Settled(T)}
<1>1. 0 \in P
  <2>1. 1..0 = {}
    OBVIOUS
  <2> QED BY <2>1
<1>2. ASSUME NEW m \in Nat, m \in P PROVE m + 1 \in P
  <2> SUFFICES ASSUME NEW T \in SUBSET S, T \subseteq 1..(m + 1), T # {} PROVE Settled(T)
    OBVIOUS
  <2>1. CASE m + 1 \notin T
    <3>1. T \subseteq 1..m
      BY <2>1
    <3> QED BY <1>2, <3>1
  <2>2. CASE T = {m + 1}
    <3>1. ~Less(v[m + 1], v[m + 1])
      BY <2>2, LessIsWeakOrder
    <3> QED BY <2>2, <3>1
  <2>3. CASE m + 1 \in T /\ T # {m + 1}
    <3> DEFINE R == T \ {m + 1}
    <3>1. R \subseteq 1..m /\ R # {} /\ R \in SUBSET S
      BY <2>3
    <3>2. PICK i \in R : \A j \in R : ~Less(v[j], v[i])
      BY <1>2, <3>1
    <3>3. CASE ~Less(v[m + 1], v[i])
      BY <3>2, <3>3
    <3>4. CASE Less(v[m + 1], v[i])
      <4>1. ASSUME NEW j \in T PROVE ~Less(v[j], v[m + 1])
        <5>1. v[j] \in Version /\ v[m + 1] \in Version /\ v[i] \in Version
          BY <2>3
        <5>2. CASE j = m + 1
          BY <5>1, <5>2, LessIsWeakOrder
        <5>3. CASE j # m + 1
          <6>1. ~Less(v[j], v[i])
            BY <3>2, <5>3
          <6>2. ~Less(v[i], v[m + 1])
            BY <3>4, <5>1, LessIsWeakOrder
          <6> QED BY <5>1, <6>1, <6>2, LessIsWeakOrder
        <5> QED BY <5>2, <5>3
      <4> QED BY <2>3, <4>1
    <3> QED BY <3>3, <3>4
  <2> QED BY <2>1, <2>2, <2>3
<1> HIDE DEF P
<1>3. n \in P
  BY <1>1, <1>2, InductionOverNat
<1> QED BY <1>3 DEF P

-----------------------------------------------------------------------------
(* The fixing version.                                                      *)

\* The choice of the lowest fix is one of those it chooses from.
LEMMA LowestIsMember ==
  ASSUME NEW events, Len(events) \in Nat, NEW S, S \subseteq 1..Len(events), S # {},
         \A i \in S : events[i].ver \in Version
  PROVE  \E i \in S : Lowest(events, S) = events[i].ver
<1> DEFINE Lowers(i) == \A j \in S : ~Less(events[j].ver, events[i].ver)
           M == {i \in S : Lowers(i)}
           first == CHOOSE i \in M : \A j \in M : i <= j
           Chosen(i) == /\ \A j \in S : AtLeast(events[j].ver, events[i].ver)
                        /\ \A j \in S : j < i => Less(events[i].ver, events[j].ver)
<1>1. M # {}
  <2> DEFINE v == [i \in S |-> events[i].ver]
  <2>1. \E i \in S : \A j \in S : ~Less(v[j], v[i])
    <3>1. \A i \in S : v[i] \in Version
      OBVIOUS
    <3> HIDE DEF v
    <3> QED BY <3>1, LowestExists
  <2> QED BY <2>1
<1>2. M \subseteq Nat
  <2>1. S \subseteq Nat
    OBVIOUS
  <2> QED BY <2>1
<1>3. first \in M /\ \A j \in M : first <= j
  <2> HIDE DEF M
  <2> QED BY <1>1, <1>2, LeastIsMember
<1> HIDE DEF first
<1>4. Chosen(first)
  <2>1. ASSUME NEW j \in S, j < first PROVE Less(events[first].ver, events[j].ver)
    <3>1. j \notin M
      BY <1>2, <1>3, <2>1
    <3>2. PICK k \in S : Less(events[k].ver, events[j].ver)
      BY <3>1
    <3>3. ~Less(events[k].ver, events[first].ver)
      BY <1>3
    <3> QED BY <1>3, <3>2, <3>3, LessIsWeakOrder
  <2> QED BY <1>3, <2>1 DEF AtLeast
<1>5. \E i \in S : Chosen(i)
  BY <1>3, <1>4
<1>6. (CHOOSE i \in S : Chosen(i)) \in S
  BY <1>5
<1>7. Lowest(events, S) = events[CHOOSE i \in S : Chosen(i)].ver
  BY DEF Lowest
<1> HIDE DEF Chosen
<1> QED BY <1>6, <1>7

\* Whatever the branches of an advisory, a version they hold vulnerable is not
\* at or above the patched version chosen for it.
THEOREM PatchedIsAbove ==
  ASSUME NEW events \in Seq(RangeEvent), NEW installed
  PROVE  AtOrAbove(installed, PatchedVersion(events, installed)) # "yes"
<1> DEFINE mine  == {i \in Fixes(events) : OnBranch(events, i, installed)}
           above == {i \in Fixes(events) : Less(installed, events[i].ver)}
<1>0. ~Parses(Unparsable)
  BY DEF Parses, Unparsable
<1>a. Len(events) \in Nat /\ \A i \in Fixes(events) : events[i].ver \in Version
  <2>1. \A e \in RangeEvent : e.ver \in Version
    BY DEF RangeEvent
  <2> QED BY <2>1 DEF Fixes
<1>1. CASE Fixes(events) = {}
  BY <1>0, <1>1 DEF PatchedVersion, AtOrAbove
<1>2. CASE ~Parses(installed)
  BY <1>2 DEF AtOrAbove
<1>3. CASE Fixes(events) # {} /\ Parses(installed) /\ mine # {}
  <2>1. mine \subseteq Nat
    BY DEF Fixes
  <2>2. (CHOOSE i \in mine : \A j \in mine : i <= j) \in mine
    <3> HIDE DEF mine
    <3> QED BY <1>3, <2>1, LeastIsMember
  <2>3. PatchedVersion(events, installed) = events[CHOOSE i \in mine : \A j \in mine : i <= j].ver
    BY <1>3 DEF PatchedVersion
  <2>4. Less(installed, PatchedVersion(events, installed))
    BY <2>2, <2>3 DEF OnBranch
  <2> QED BY <2>4 DEF AtOrAbove, AtLeast
<1>4. CASE Fixes(events) # {} /\ Parses(installed) /\ mine = {} /\ above # {}
  <2>1. PatchedVersion(events, installed) = Lowest(events, above)
    BY <1>4 DEF PatchedVersion
  <2>2. above \subseteq 1..Len(events)
    BY DEF Fixes
  <2>3. PICK i \in above : Lowest(events, above) = events[i].ver
    <3> HIDE DEF above
    <3>1. above \subseteq Fixes(events)
      BY DEF above
    <3> QED BY <1>a, <1>4, <2>2, <3>1, LowestIsMember
  <2>4. Less(installed, PatchedVersion(events, installed))
    BY <2>1, <2>3
  <2> QED BY <2>4 DEF AtOrAbove, AtLeast
<1>5. CASE Fixes(events) # {} /\ Parses(installed) /\ mine = {} /\ above = {}
  BY <1>0, <1>5 DEF PatchedVersion, AtOrAbove
<1> QED BY <1>1, <1>2, <1>3, <1>4, <1>5

-----------------------------------------------------------------------------
(* Iteration, and the packages of a build.                                  *)

\* A step of a set into itself can be repeated.
LEMMA IterationExists ==
  ASSUME NEW T, NEW start \in T, NEW F \in [T -> T]
  PROVE  \E f \in [Nat -> T] : f[0] = start /\ \A n \in Nat : f[n + 1] = F[f[n]]
<1> DEFINE Upto(n) == {g \in [0..n -> T] : g[0] = start /\ \A i \in 0..(n - 1) : g[i + 1] = F[g[i]]}
           P == {n \in Nat : \E g : Upto(n) = {g}}
           Cut(h, n) == [i \in 0..n |-> h[i]]
<1>1. ASSUME NEW n \in Nat, NEW h \in Upto(n + 1)
      PROVE  Cut(h, n) \in Upto(n)
  OBVIOUS
<1>2. 0 \in P
  <2> DEFINE g == [i \in 0..0 |-> start]
  <2>1. g \in Upto(0)
    OBVIOUS
  <2>2. ASSUME NEW h \in Upto(0) PROVE h = g
    <3>1. h \in [0..0 -> T] /\ h[0] = start
      OBVIOUS
    <3>2. \A i \in 0..0 : h[i] = g[i]
      BY <3>1
    <3> QED BY <3>1, <3>2
  <2>3. Upto(0) = {g}
    <3> HIDE DEF g, Upto
    <3> QED BY <2>1, <2>2
  <2> QED BY <2>3
<1>3. ASSUME NEW n \in Nat, n \in P PROVE n + 1 \in P
  <2>1. PICK g : Upto(n) = {g}
    BY <1>3
  <2>2. g \in Upto(n)
    BY <2>1
  <2> DEFINE h == [i \in 0..(n + 1) |-> IF i = n + 1 THEN F[g[n]] ELSE g[i]]
  <2>3. h \in Upto(n + 1)
    <3>1. h \in [0..(n + 1) -> T]
      BY <2>2
    <3>2. h[0] = start
      BY <2>2
    <3>3. ASSUME NEW i \in 0..((n + 1) - 1) PROVE h[i + 1] = F[h[i]]
      <4>1. CASE i = n
        BY <4>1
      <4>2. CASE i # n
        <5>1. i \in 0..(n - 1) /\ i + 1 # n + 1 /\ i # n + 1 /\ i + 1 \in 0..(n + 1) /\ i \in 0..(n + 1)
          BY <4>2
        <5> QED BY <5>1, <2>2
      <4> QED BY <4>1, <4>2
    <3> QED BY <3>1, <3>2, <3>3
  <2>4. ASSUME NEW k \in Upto(n + 1) PROVE k = h
    <3>1. Cut(k, n) = g
      BY <1>1, <2>1
    <3>2. \A i \in 0..n : k[i] = g[i]
      BY <3>1
    <3>3. k \in [0..(n + 1) -> T] /\ k[n + 1] = F[k[n]]
      <4>1. n \in 0..((n + 1) - 1)
        OBVIOUS
      <4> QED BY <4>1
    <3>4. ASSUME NEW i \in 0..(n + 1) PROVE k[i] = h[i]
      <4>1. i \in 0..n \/ i = n + 1
        OBVIOUS
      <4> QED BY <3>2, <3>3, <4>1
    <3> HIDE DEF Upto
    <3> QED BY <3>3, <3>4
  <2>5. Upto(n + 1) = {h}
    <3> HIDE DEF h, Upto
    <3> QED BY <2>3, <2>4
  <2>6. \E k : Upto(n + 1) = {k}
    <3> HIDE DEF Upto
    <3> QED BY <2>5
  <2>7. n + 1 \in Nat
    OBVIOUS
  <2> HIDE DEF Upto
  <2> QED BY <2>6, <2>7
<1>4. Nat \subseteq P
  <2> HIDE DEF P
  <2> QED BY <1>2, <1>3, InductionOverNat
<1> DEFINE The(n) == CHOOSE g : Upto(n) = {g}
           f == [n \in Nat |-> The(n)[n]]
<1>5. ASSUME NEW n \in Nat PROVE Upto(n) = {The(n)}
  BY <1>4
<1>6. ASSUME NEW n \in Nat PROVE The(n) \in [0..n -> T] /\ The(n)[0] = start
  <2>1. The(n) \in Upto(n)
    <3> HIDE DEF Upto, The
    <3> QED BY <1>5
  <2> QED BY <2>1
<1>7. f \in [Nat -> T]
  <2> HIDE DEF The
  <2> QED BY <1>6
<1>8. f[0] = start
  <2> HIDE DEF The
  <2> QED BY <1>6
<1>9. ASSUME NEW n \in Nat PROVE f[n + 1] = F[f[n]]
  <2>1. The(n + 1) \in Upto(n + 1) /\ Upto(n) = {The(n)}
    <3> HIDE DEF Upto, The
    <3>1. n + 1 \in Nat
      OBVIOUS
    <3> QED BY <1>5, <3>1
  <2>2. Cut(The(n + 1), n) = The(n)
    <3> HIDE DEF Upto, The, Cut
    <3> QED BY <1>1, <2>1
  <2>3. The(n + 1)[n] = The(n)[n]
    <3> HIDE DEF Upto, The
    <3>1. Cut(The(n + 1), n)[n] = The(n + 1)[n]
      OBVIOUS
    <3> QED BY <2>2, <3>1
  <2>4. The(n + 1)[n + 1] = F[The(n + 1)[n]]
    <3> HIDE DEF The
    <3>1. n \in 0..((n + 1) - 1)
      OBVIOUS
    <3> QED BY <2>1, <3>1
  <2> HIDE DEF The
  <2> QED BY <2>3, <2>4
<1> HIDE DEF f
<1> QED BY <1>7, <1>8, <1>9

\* Sets that only grow, within a finite set, and stay as they are once they did
\* not, have stopped after as many rounds as the set has members.
LEMMA GrowthStops ==
  ASSUME NEW N, IsFiniteSet(N), NEW f \in [Nat -> SUBSET N], NEW m \in Nat, Cardinality(N) <= m,
         \A k \in Nat : f[k] \subseteq f[k + 1],
         \A k \in Nat : f[k + 1] = f[k] => f[(k + 1) + 1] = f[k + 1]
  PROVE  f[m + 1] = f[m]
<1> DEFINE P == {k \in Nat : f[k + 1] = f[k] \/ Cardinality(f[k]) >= k}
<1>1. ASSUME NEW S \in SUBSET N
      PROVE  /\ IsFiniteSet(S) /\ Cardinality(S) \in Nat
             /\ \A T \in SUBSET S : IsFiniteSet(T) /\ Cardinality(T) \in Nat
                                    /\ Cardinality(T) <= Cardinality(S)
                                    /\ (Cardinality(T) = Cardinality(S) => T = S)
  <2>1. IsFiniteSet(S)
    BY FS_Subset
  <2> QED BY <2>1, FS_Subset, FS_CardinalityType
<1>2. 0 \in P
  BY <1>1
<1>3. ASSUME NEW k \in Nat, k \in P PROVE k + 1 \in P
  <2>1. CASE f[k + 1] = f[k]
    BY <2>1
  <2>2. CASE f[k + 1] # f[k] /\ Cardinality(f[k]) >= k
    <3>1. f[k] \in SUBSET f[k + 1] /\ f[k + 1] \in SUBSET N /\ f[k] \in SUBSET N
      OBVIOUS
    <3>2. /\ Cardinality(f[k]) \in Nat /\ Cardinality(f[k + 1]) \in Nat
          /\ Cardinality(f[k]) <= Cardinality(f[k + 1])
          /\ Cardinality(f[k]) # Cardinality(f[k + 1])
      BY <1>1, <2>2, <3>1
    <3>3. Cardinality(f[k + 1]) >= k + 1
      BY <2>2, <3>2
    <3> QED BY <3>3
  <2> QED BY <1>3, <2>1, <2>2
<1>4. m \in P
  <2> HIDE DEF P
  <2> QED BY <1>2, <1>3, InductionOverNat
<1>5. CASE Cardinality(f[m]) >= m
  <2>1. f[m] \in SUBSET N /\ f[m + 1] \in SUBSET N /\ N \in SUBSET N
    OBVIOUS
  <2>2. Cardinality(f[m]) = Cardinality(N)
    BY <1>1, <1>5, <2>1
  <2>3. f[m] = N
    BY <1>1, <2>1, <2>2
  <2> QED BY <2>1, <2>3
<1> QED BY <1>4, <1>5

\* What Closure repeats is what its definition says.
LEMMA GrownUnfolds ==
  ASSUME NEW graph, NEW start, start \subseteq DOMAIN graph
  PROVE  LET grown[k \in Nat] == IF k = 0 THEN start ELSE Grow(graph, grown[k - 1]) IN
         grown = [k \in Nat |-> IF k = 0 THEN start ELSE Grow(graph, grown[k - 1])]
<1> DEFINE nodes == Packages(graph)
           T == SUBSET nodes
           F == [S \in T |-> Grow(graph, S)]
<1>1. F \in [T -> T]
  <2>1. ASSUME NEW S \in T PROVE Grow(graph, S) \in T
    BY DEF Grow, Range, Packages
  <2> QED BY <2>1
<1>2. start \in T
  BY DEF Packages
<1>3. PICK f \in [Nat -> T] : f[0] = start /\ \A n \in Nat : f[n + 1] = F[f[n]]
  <2> HIDE DEF T, F
  <2> QED BY <1>1, <1>2, IterationExists
<1>4. f = [k \in Nat |-> IF k = 0 THEN start ELSE Grow(graph, f[k - 1])]
  <2>1. ASSUME NEW k \in Nat PROVE f[k] = IF k = 0 THEN start ELSE Grow(graph, f[k - 1])
    <3>1. CASE k = 0
      BY <1>3, <3>1
    <3>2. CASE k # 0
      <4>1. k - 1 \in Nat /\ (k - 1) + 1 = k
        BY <3>2
      <4>2. f[k] = F[f[k - 1]]
        BY <1>3, <4>1
      <4>3. f[k - 1] \in T
        BY <4>1
      <4> QED BY <3>2, <4>2, <4>3
    <3> QED BY <3>1, <3>2
  <2> HIDE DEF T
  <2> QED BY <2>1
<1>5. \E g : g = [k \in Nat |-> IF k = 0 THEN start ELSE Grow(graph, g[k - 1])]
  BY <1>4, Zenon
<1> QED BY <1>5

\* Round by round, within the packages of the graph.
LEMMA GrowthOfClosure ==
  ASSUME NEW graph, NEW seeds, IsFiniteSet(Packages(graph))
  PROVE  \E f \in [Nat -> SUBSET Packages(graph)] :
           /\ f[0] = seeds \cap DOMAIN graph
           /\ \A k \in Nat : f[k + 1] = Grow(graph, f[k])
           /\ Closure(graph, seeds) = f[Cardinality(Packages(graph))]
<1> DEFINE start == seeds \cap DOMAIN graph
           grown[k \in Nat] == IF k = 0 THEN start ELSE Grow(graph, grown[k - 1])
           P == {k \in Nat : grown[k] \in SUBSET Packages(graph)}
<1>1. Closure(graph, seeds) = grown[Cardinality(Packages(graph))]
  BY DEF Closure
<1>2. grown = [k \in Nat |-> IF k = 0 THEN start ELSE Grow(graph, grown[k - 1])]
  <2>1. start \subseteq DOMAIN graph
    OBVIOUS
  <2> HIDE DEF start
  <2> QED BY <2>1, GrownUnfolds
<1> HIDE DEF grown
<1>3. grown[0] = start
  BY <1>2
<1>4. ASSUME NEW k \in Nat PROVE grown[k + 1] = Grow(graph, grown[k])
  <2>1. k + 1 \in Nat /\ k + 1 # 0 /\ (k + 1) - 1 = k
    OBVIOUS
  <2> QED BY <1>2, <2>1
<1>5. 0 \in P
  BY <1>3 DEF Packages
<1>6. ASSUME NEW k \in Nat, k \in P PROVE k + 1 \in P
  BY <1>4, <1>6 DEF Grow, Range, Packages
<1>7. Nat \subseteq P
  <2> HIDE DEF P
  <2> QED BY <1>5, <1>6, InductionOverNat
<1>8. grown \in [Nat -> SUBSET Packages(graph)]
  BY <1>2, <1>7
<1> QED BY <1>1, <1>3, <1>4, <1>8

\* A closure holds its seeds and what its packages require.
LEMMA ClosureIsClosed ==
  ASSUME NEW graph, NEW seeds, IsFiniteSet(Packages(graph))
  PROVE  /\ Closure(graph, seeds) \subseteq Packages(graph)
         /\ seeds \cap DOMAIN graph \subseteq Closure(graph, seeds)
         /\ Grow(graph, Closure(graph, seeds)) = Closure(graph, seeds)
<1> DEFINE m == Cardinality(Packages(graph))
<1>1. m \in Nat
  BY FS_CardinalityType
<1>2. PICK f \in [Nat -> SUBSET Packages(graph)] :
        /\ f[0] = seeds \cap DOMAIN graph
        /\ \A k \in Nat : f[k + 1] = Grow(graph, f[k])
        /\ Closure(graph, seeds) = f[m]
  BY GrowthOfClosure
<1>3. \A k \in Nat : f[k] \subseteq f[k + 1]
  BY <1>2 DEF Grow
<1>4. \A k \in Nat : f[k + 1] = f[k] => f[(k + 1) + 1] = f[k + 1]
  <2>1. \A k \in Nat : f[(k + 1) + 1] = Grow(graph, f[k + 1])
    BY <1>2
  <2> QED BY <1>2, <2>1
<1>5. f[m + 1] = f[m]
  <2> HIDE DEF m
  <2>1. Cardinality(Packages(graph)) <= m
    BY <1>1 DEF m
  <2> QED BY <1>1, <1>3, <1>4, <2>1, GrowthStops
<1> DEFINE P == {k \in Nat : seeds \cap DOMAIN graph \subseteq f[k]}
<1>6. Nat \subseteq P
  <2>1. 0 \in P
    BY <1>2
  <2>2. \A k \in Nat : k \in P => k + 1 \in P
    BY <1>3
  <2> HIDE DEF P
  <2> QED BY <2>1, <2>2, InductionOverNat
<1> HIDE DEF m
<1> QED BY <1>1, <1>2, <1>5, <1>6

\* And it is within every set that does.
LEMMA ClosureIsLeast ==
  ASSUME NEW graph, NEW seeds, IsFiniteSet(Packages(graph)),
         NEW S, seeds \cap DOMAIN graph \subseteq S, Grow(graph, S) \subseteq S
  PROVE  Closure(graph, seeds) \subseteq S
<1> DEFINE m == Cardinality(Packages(graph))
<1>1. m \in Nat
  BY FS_CardinalityType
<1>2. PICK f \in [Nat -> SUBSET Packages(graph)] :
        /\ f[0] = seeds \cap DOMAIN graph
        /\ \A k \in Nat : f[k + 1] = Grow(graph, f[k])
        /\ Closure(graph, seeds) = f[m]
  BY GrowthOfClosure
<1> DEFINE P == {k \in Nat : f[k] \subseteq S}
<1>3. ASSUME NEW k \in Nat, k \in P PROVE k + 1 \in P
  <2>1. Grow(graph, f[k]) \subseteq Grow(graph, S)
    BY <1>3 DEF Grow
  <2> QED BY <1>2, <2>1
<1>4. Nat \subseteq P
  <2>1. 0 \in P
    BY <1>2
  <2> HIDE DEF P
  <2> QED BY <1>3, <2>1, InductionOverNat
<1> HIDE DEF m
<1> QED BY <1>1, <1>2, <1>4

\* For a lockfile of any size, the search finds the packages no build of the
\* seeds can do without, and no other.
THEOREM ClosureIsRequired ==
  ASSUME NEW graph, NEW seeds, IsFiniteSet(Packages(graph))
  PROVE  Closure(graph, seeds) = Required(graph, seeds)
<1>1. Closure(graph, seeds) \subseteq Required(graph, seeds)
  <2> SUFFICES ASSUME NEW p \in Closure(graph, seeds),
                      NEW S \in SUBSET Packages(graph),
                      seeds \cap DOMAIN graph \subseteq S, Grow(graph, S) \subseteq S
               PROVE  p \in S
    BY ClosureIsClosed DEF Required
  <2> QED BY ClosureIsLeast
<1>2. Required(graph, seeds) \subseteq Closure(graph, seeds)
  BY ClosureIsClosed DEF Required
<1> QED BY <1>1, <1>2

-----------------------------------------------------------------------------
(* The engine.                                                              *)

\* The engine's answer is the outcome of a rule that decides, or none.
LEMMA SomeRuleDecided ==
  ASSUME NEW rules \in Seq(DOMAIN OutcomeOf), NEW a, NEW f, Evaluate(rules, a, f) # NoOutcome
  PROVE  \E rule \in DOMAIN OutcomeOf :
           /\ Decides(rule, a, f)
           /\ Evaluate(rules, a, f) = OutcomeOf[rule]
           /\ \E i \in 1..Len(rules) : rules[i] = rule
<1> DEFINE deciding == {i \in 1..Len(rules) : Decides(rules[i], a, f)}
           first    == CHOOSE i \in deciding : \A j \in deciding : i <= j
<1>1. Evaluate(rules, a, f) = IF deciding = {} THEN NoOutcome ELSE OutcomeOf[rules[first]]
  BY Zenon DEF Evaluate
<1>2. deciding \subseteq Nat
  OBVIOUS
<1>3. first \in deciding
  <2> HIDE DEF deciding
  <2> QED BY <1>1, <1>2, LeastIsMember
<1>4. first \in 1..Len(rules) /\ Decides(rules[first], a, f)
  BY <1>3
<1> HIDE DEF first
<1>5. rules[first] \in DOMAIN OutcomeOf
  BY <1>4
<1> QED BY <1>1, <1>3, <1>4, <1>5

\* Every outcome carries the name of its rule.
LEMMA OutcomesAreNamed ==
  ASSUME NEW rule \in DOMAIN OutcomeOf
  PROVE  OutcomeOf[rule].rule = rule
BY DEF OutcomeOf, Outcome
=============================================================================
