---------------------------- MODULE PublicScanProofs ----------------------------
(***************************************************************************)
(* Proofs about PublicScan, for any number of scanners, commits and        *)
(* dependencies: trees are whole and stay, and coverage is honest.         *)
(***************************************************************************)
EXTENDS PublicScan, TLAPS

USE ScanAssumption

Places == {"idle", "ensure", "fetch", "checkout", "exists", "replace", "snapshot", "discover",
           "query", "alerts", "stages", "emit", "done", "failed", "killed"}
Cloning == {"ensure", "fetch", "checkout", "exists", "replace"}
Reading == {"snapshot", "discover", "query", "alerts", "stages"}
Ingesting == {"discover", "query", "alerts"}

Answers == [kind : {"absent", "none", "body"}, at : Nat]

\* The domains and ranges of the variables.
SharedTypes ==
  /\ now \in 0..MaxTime /\ pushes \in 0..MaxPushes /\ scans \in 0..MaxScans
  /\ head \in Commits
  /\ recorded \subseteq Commits
  /\ newest \in IF recorded = {} THEN {NoCommit} ELSE recorded
  /\ tree \in [Dirs -> {"none", "partial"} \cup Commits]
  /\ cache \in [Affected -> Answers]
  /\ \A d \in Affected : cache[d].at <= now
  /\ denied \subseteq Affected

OwnTypes ==
  /\ pc \in [Scanners -> Places]
  /\ scanned \in [Scanners -> Dirs \cup {NoCommit}]
  /\ wanted \in [Scanners -> Dirs \cup {NoCommit}]
  /\ fetched \in [Scanners -> Commits \cup {NoCommit}]
  /\ measuring \in [Scanners -> BOOLEAN]
  /\ staging \in [Scanners -> {"none", "init", "fetched", "whole"}]
  /\ pending \in [Scanners -> SUBSET Deps]
  /\ outcome \in [Scanners -> [Deps -> Outcomes]]
  /\ errors \in [Scanners -> BOOLEAN]

\* Where a scan is says which directories it has and what its checkout is for.
Located ==
  \A p \in Scanners :
    /\ pc[p] \in Cloning \cup Reading => wanted[p] \in Dirs
    /\ pc[p] \notin Ended => scanned[p] \in Dirs
    /\ pc[p] \notin Ended /\ ~measuring[p] => wanted[p] = scanned[p]
    /\ pc[p] \in Ingesting \/ measuring[p] => newest \in Commits
    /\ pc[p] \in {"stages", "emit"} => measuring[p]
    /\ pc[p] \in (Reading \cup Ended) \ {"stages"} => ~measuring[p]

\* The tree a scan has read stays readable until its report.
Readable ==
  \A p \in Scanners :
    pc[p] \in Ingesting \cup {"done"} \/ measuring[p] =>
      scanned[p] \in Dirs /\ tree[scanned[p]] \in Commits

\* A staging directory is complete only between the checkout and the rename.
Staged ==
  \A p \in Scanners :
    /\ pc[p] = "fetch" <=> staging[p] = "init"
    /\ pc[p] = "checkout" <=> staging[p] = "fetched"
    /\ pc[p] \in {"exists", "replace"} <=> staging[p] = "whole"
    /\ pc[p] \in {"checkout", "exists", "replace"} => fetched[p] \in Behind(wanted[p])

\* What is still to be asked about comes from the scanned tree's manifests.
Narrowed ==
  \A p \in Scanners :
    /\ pending[p] # {} => pc[p] \in {"query", "alerts"} /\ pending[p] \subseteq Manifests(p)
    /\ pc[p] = "alerts" => pending[p] \subseteq Affected

\* The inductive invariant the others rest on.
Base == SharedTypes /\ OwnTypes /\ Located /\ Readable /\ Staged /\ Narrowed /\ TreeIsWhole

\* Every affected dependency is on its way to an alert, as long as no error is recorded.
Accounted(p, d) ==
  \/ outcome[p][d] \in {"ingested", "ingest_failed"}
  \/ outcome[p][d] = "no_record" /\ d \in denied

\* A 404 in the cache is one OSV gave.
Denials == \A d \in Affected : cache[d].kind = "none" => d \in denied

\* What a scan without an error entry still knows of, from its queries to its end.
CoverageOf(p) ==
  ~errors[p] =>
    /\ pc[p] = "query" => Manifests(p) \subseteq pending[p]
    /\ pc[p] = "alerts" =>
         \A d \in Manifests(p) \cap Affected :
           d \in pending[p] \/ outcome[p][d] = "found" \/ Accounted(p, d)
    /\ measuring[p] \/ pc[p] = "done" =>
         \A d \in Manifests(p) \cap Affected : Accounted(p, d)

Coverage == \A p \in Scanners : CoverageOf(p)

\* No scan has begun, nothing is cloned, and the cache holds at most an old 404.
LEMMA BaseInit == Init => Base
<1> SUFFICES ASSUME Init PROVE Base
  OBVIOUS
<1>1. SharedTypes
  <2>1. cache \in [Affected -> Answers] /\ \A d \in Affected : cache[d].at <= now
    BY DEF Init, Absent, Answers
  <2> QED
    BY <2>1 DEF Init, SharedTypes
<1>2. OwnTypes
  BY DEF Init, OwnTypes, Places, Blank, Outcomes
<1>3. Located /\ Readable /\ Staged /\ Narrowed /\ TreeIsWhole
  BY DEF Init, Located, Readable, Staged, Narrowed, TreeIsWhole, Cloning, Reading, Ingesting, Ended
<1> QED
  BY <1>1, <1>2, <1>3 DEF Base

\* No step of any scanner takes a tree away or puts another in its place: only a
\* rename changes a directory, and it does so where there was none.
LEMMA TreesAreKept ==
  ASSUME Base, [Next]_vars
  PROVE  \A dir \in Dirs : tree[dir] \in Commits => tree'[dir] = tree[dir]
<1>1. ASSUME NEW p \in Scanners,
             \/ Start(p) \/ Cached(p) \/ Stage(p) \/ Fetch(p) \/ CheckOut(p)
             \/ GitFails(p) \/ Exists(p) \/ ReplaceRefused(p) \/ Snapshot(p) \/ Discover(p)
             \/ Query(p) \/ IngestEnds(p) \/ Emit(p) \/ Kill(p)
      PROVE  UNCHANGED tree
  BY <1>1 DEF Start, Cached, Stage, Fetch, CheckOut, GitFails, Exists, ReplaceRefused,
              Snapshot, Discover, Query, IngestEnds, Emit, Kill, Ends, shared
<1>2. ASSUME NEW p \in Scanners, NEW d \in Deps,
             \/ FromCache(p, d) \/ FromOsv(p, d) \/ OsvFails(p, d)
             \/ Ingest(p, d) \/ IngestFails(p, d)
      PROVE  UNCHANGED tree
  BY <1>2 DEF FromCache, FromOsv, OsvFails, Ingest, IngestFails, shared
<1>3. ASSUME Tick \/ Push \/ UNCHANGED vars PROVE UNCHANGED tree
  BY <1>3 DEF Tick, Push, vars
<1>4. ASSUME NEW p \in Scanners, Replace(p), NEW dir \in Dirs, tree[dir] \in Commits
      PROVE  tree'[dir] = tree[dir]
  BY <1>4 DEF Replace, Base, SharedTypes
<1> QED
  BY <1>1, <1>2, <1>3, <1>4 DEF Next, Scan, Rest

\* What a scan that has read a tree finds there are dependencies.
LEMMA ManifestsAreDeps ==
  ASSUME Base, NEW p \in Scanners, pc[p] \in Ingesting \cup {"done"} \/ measuring[p]
  PROVE  scanned[p] \in Dirs /\ tree[scanned[p]] \in Commits /\ Manifests(p) \subseteq Deps
BY DEF Base, Readable, Manifests, Deps

\* Checkouts, cache and snapshots keep their types.
LEMMA SharedTypesStep == Base /\ [Next]_vars => SharedTypes'
<1> SUFFICES ASSUME Base, [Next]_vars PROVE SharedTypes'
  OBVIOUS
<1> USE DEF Base, SharedTypes, OwnTypes, Located, Places, Answers, Ended,
            Cloning, Reading, Ingesting, Outcomes, shared, own
<1>1. CASE Tick
  BY <1>1 DEF Tick
<1>2. CASE Push
  BY <1>2 DEF Push
<1>3. ASSUME NEW p \in Scanners, Start(p) PROVE SharedTypes'
  BY <1>3 DEF Start, Blank
<1>4. ASSUME NEW p \in Scanners, Cached(p) PROVE SharedTypes'
  BY <1>4 DEF Cached, AfterCheckout
<1>5. ASSUME NEW p \in Scanners, Stage(p) PROVE SharedTypes'
  BY <1>5 DEF Stage
<1>6. ASSUME NEW p \in Scanners, Fetch(p) PROVE SharedTypes'
  BY <1>6 DEF Fetch
<1>7. ASSUME NEW p \in Scanners, CheckOut(p) PROVE SharedTypes'
  BY <1>7 DEF CheckOut
<1>8. ASSUME NEW p \in Scanners, GitFails(p) PROVE SharedTypes'
  BY <1>8 DEF GitFails, Ends, Blank
<1>9. ASSUME NEW p \in Scanners, Exists(p) PROVE SharedTypes'
  BY <1>9 DEF Exists, AfterCheckout
<1>10. ASSUME NEW p \in Scanners, Replace(p) PROVE SharedTypes'
  <2>1. Contents(p) \in Commits
    BY <1>10 DEF Replace, Contents, Staged, Behind, Dirs
  <2> QED
    BY <1>10, <2>1 DEF Replace
<1>11. ASSUME NEW p \in Scanners, ReplaceRefused(p) PROVE SharedTypes'
  BY <1>11 DEF ReplaceRefused, Ends, Blank
<1>12. ASSUME NEW p \in Scanners, Snapshot(p) PROVE SharedTypes'
  BY <1>12 DEF Snapshot
<1>13. ASSUME NEW p \in Scanners, Discover(p) PROVE SharedTypes'
  BY <1>13 DEF Discover
<1>14. ASSUME NEW p \in Scanners, Query(p) PROVE SharedTypes'
  BY <1>14 DEF Query
<1>15. ASSUME NEW p \in Scanners, IngestEnds(p) PROVE SharedTypes'
  BY <1>15 DEF IngestEnds
<1>16. ASSUME NEW p \in Scanners, Emit(p) PROVE SharedTypes'
  BY <1>16 DEF Emit
<1>17. ASSUME NEW p \in Scanners, Kill(p) PROVE SharedTypes'
  BY <1>17 DEF Kill, Ends, Blank
<1>18. ASSUME NEW p \in Scanners, NEW d \in Deps, FromCache(p, d) PROVE SharedTypes'
  BY <1>18 DEF FromCache, Answered
<1>19. ASSUME NEW p \in Scanners, NEW d \in Deps, FromOsv(p, d) PROVE SharedTypes'
  <2>1. d \in Affected
    BY <1>19 DEF FromOsv, Narrowed
  <2>0. PICK kind \in {"none", "body"} :
         /\ cache' = [cache EXCEPT ![d] = [kind |-> kind, at |-> now]]
         /\ denied' = IF kind = "none" THEN denied \cup {d} ELSE denied
    BY <1>19 DEF FromOsv
  <2>2. cache' \in [Affected -> Answers] /\ \A e \in Affected : cache'[e].at <= now
    BY <2>0, <2>1 DEF SharedTypes, Answers
  <2>3. denied' \subseteq Affected
    BY <2>0, <2>1 DEF SharedTypes
  <2> QED
    BY <1>19, <2>2, <2>3 DEF FromOsv, SharedTypes
<1>20. ASSUME NEW p \in Scanners, NEW d \in Deps, OsvFails(p, d) PROVE SharedTypes'
  BY <1>20 DEF OsvFails
<1>21. ASSUME NEW p \in Scanners, NEW d \in Deps, Ingest(p, d) PROVE SharedTypes'
  BY <1>21 DEF Ingest
<1>22. ASSUME NEW p \in Scanners, NEW d \in Deps, IngestFails(p, d) PROVE SharedTypes'
  BY <1>22 DEF IngestFails
<1>23. CASE UNCHANGED vars
  BY <1>23 DEF vars
<1> QED
  BY <1>1, <1>2, <1>3, <1>4, <1>5, <1>6, <1>7, <1>8, <1>9, <1>10, <1>11, <1>12, <1>13, <1>14,
     <1>15, <1>16, <1>17, <1>18, <1>19, <1>20, <1>21, <1>22, <1>23 DEF Next, Scan, Rest

\* A scan's own variables keep their types.
LEMMA OwnTypesStep == Base /\ [Next]_vars => OwnTypes'
<1> SUFFICES ASSUME Base, [Next]_vars PROVE OwnTypes'
  OBVIOUS
<1> USE DEF Base, SharedTypes, OwnTypes, Places, Outcomes, shared, own
<1>1. CASE Tick
  BY <1>1 DEF Tick
<1>2. CASE Push
  BY <1>2 DEF Push
<1>3. ASSUME NEW p \in Scanners, Start(p) PROVE OwnTypes'
  <2>1. {head} \cup Refs \subseteq Dirs
    BY DEF Dirs
  <2> QED
    BY <1>3, <2>1 DEF Start, Blank
<1>4. ASSUME NEW p \in Scanners, Cached(p) PROVE OwnTypes'
  BY <1>4 DEF Cached, AfterCheckout
<1>5. ASSUME NEW p \in Scanners, Stage(p) PROVE OwnTypes'
  BY <1>5 DEF Stage
<1>6. ASSUME NEW p \in Scanners, Fetch(p) PROVE OwnTypes'
  <2>1. Behind(wanted[p]) \subseteq Commits
    BY DEF Behind
  <2> QED
    BY <1>6, <2>1 DEF Fetch
<1>7. ASSUME NEW p \in Scanners, CheckOut(p) PROVE OwnTypes'
  BY <1>7 DEF CheckOut
<1>8. ASSUME NEW p \in Scanners, GitFails(p) PROVE OwnTypes'
  <2>1. CASE measuring[p]
    BY <1>8, <2>1 DEF GitFails
  <2>2. CASE ~measuring[p]
    <3>1. Ends(p, "failed") /\ UNCHANGED shared
      BY <1>8, <2>2 DEF GitFails
    <3> QED
      BY <3>1 DEF Ends, Blank
  <2> QED
    BY <2>1, <2>2
<1>9. ASSUME NEW p \in Scanners, Exists(p) PROVE OwnTypes'
  BY <1>9 DEF Exists, AfterCheckout
<1>10. ASSUME NEW p \in Scanners, Replace(p) PROVE OwnTypes'
  BY <1>10 DEF Replace, AfterCheckout, Contents
<1>11. ASSUME NEW p \in Scanners, ReplaceRefused(p) PROVE OwnTypes'
  BY <1>11 DEF ReplaceRefused, Ends, Blank
<1>12. ASSUME NEW p \in Scanners, Snapshot(p) PROVE OwnTypes'
  BY <1>12 DEF Snapshot
<1>13. ASSUME NEW p \in Scanners, Discover(p) PROVE OwnTypes'
  <2>0. PICK unread \in SUBSET Manifests(p) :
         /\ outcome' = [outcome EXCEPT ![p] = [d \in Deps |-> IF d \in unread THEN "gap" ELSE @[d]]]
         /\ errors' = [errors EXCEPT ![p] = unread # {}]
         /\ pending' = [pending EXCEPT ![p] = Manifests(p) \ unread]
    BY <1>13 DEF Discover
  <2>1. pc[p] = "discover"
    BY <1>13 DEF Discover
  <2>3. Manifests(p) \subseteq Deps
    BY <2>1, ManifestsAreDeps DEF Ingesting
  <2>4. outcome' \in [Scanners -> [Deps -> Outcomes]]
    BY <2>0 DEF OwnTypes, Outcomes
  <2>5. pending' \in [Scanners -> SUBSET Deps] /\ errors' \in [Scanners -> BOOLEAN]
    BY <2>0, <2>3 DEF OwnTypes
  <2> QED
    BY <1>13, <2>4, <2>5 DEF Discover, OwnTypes, Places
<1>14. ASSUME NEW p \in Scanners, Query(p) PROVE OwnTypes'
  BY <1>14 DEF Query
<1>15. ASSUME NEW p \in Scanners, IngestEnds(p) PROVE OwnTypes'
  <2>1. newest \in Dirs \cup {NoCommit}
    BY DEF Dirs
  <2>2. pc' \in [Scanners -> Places]
    BY <1>15 DEF IngestEnds
  <2> QED
    BY <1>15, <2>1, <2>2 DEF IngestEnds
<1>16. ASSUME NEW p \in Scanners, Emit(p) PROVE OwnTypes'
  BY <1>16 DEF Emit
<1>17. ASSUME NEW p \in Scanners, Kill(p) PROVE OwnTypes'
  BY <1>17 DEF Kill, Ends, Blank
<1>18. ASSUME NEW p \in Scanners, NEW d \in Deps, FromCache(p, d) PROVE OwnTypes'
  BY <1>18 DEF FromCache, Answered
<1>19. ASSUME NEW p \in Scanners, NEW d \in Deps, FromOsv(p, d) PROVE OwnTypes'
  BY <1>19 DEF FromOsv, Answered
<1>20. ASSUME NEW p \in Scanners, NEW d \in Deps, OsvFails(p, d) PROVE OwnTypes'
  BY <1>20 DEF OsvFails
<1>21. ASSUME NEW p \in Scanners, NEW d \in Deps, Ingest(p, d) PROVE OwnTypes'
  BY <1>21 DEF Ingest
<1>22. ASSUME NEW p \in Scanners, NEW d \in Deps, IngestFails(p, d) PROVE OwnTypes'
  BY <1>22 DEF IngestFails
<1>23. CASE UNCHANGED vars
  BY <1>23 DEF vars
<1> QED
  BY <1>1, <1>2, <1>3, <1>4, <1>5, <1>6, <1>7, <1>8, <1>9, <1>10, <1>11, <1>12, <1>13, <1>14,
     <1>15, <1>16, <1>17, <1>18, <1>19, <1>20, <1>21, <1>22, <1>23 DEF Next, Scan, Rest

\* A scan has the commits its place in the code needs.
LEMMA LocatedStep == Base /\ [Next]_vars => Located'
<1> SUFFICES ASSUME Base, [Next]_vars PROVE Located'
  OBVIOUS
<1> USE DEF Base, SharedTypes, OwnTypes, Located, Places, Ended, Cloning, Reading, Ingesting,
            shared, own
<1>1. CASE Tick
  BY <1>1 DEF Tick
<1>2. CASE Push
  BY <1>2 DEF Push
<1>3. ASSUME NEW p \in Scanners, Start(p) PROVE Located'
  <2>1. {head} \cup Refs \subseteq Dirs
    BY DEF Dirs
  <2> QED
    BY <1>3, <2>1 DEF Start
<1>4. ASSUME NEW p \in Scanners, Cached(p) PROVE Located'
  BY <1>4 DEF Cached, AfterCheckout
<1>5. ASSUME NEW p \in Scanners, Stage(p) PROVE Located'
  BY <1>5 DEF Stage
<1>6. ASSUME NEW p \in Scanners, Fetch(p) PROVE Located'
  BY <1>6 DEF Fetch
<1>7. ASSUME NEW p \in Scanners, CheckOut(p) PROVE Located'
  BY <1>7 DEF CheckOut
<1>8. ASSUME NEW p \in Scanners, GitFails(p) PROVE Located'
  BY <1>8 DEF GitFails, Ends, Blank
<1>9. ASSUME NEW p \in Scanners, Exists(p) PROVE Located'
  BY <1>9 DEF Exists, AfterCheckout
<1>10. ASSUME NEW p \in Scanners, Replace(p) PROVE Located'
  BY <1>10 DEF Replace, AfterCheckout, Contents
<1>11. ASSUME NEW p \in Scanners, ReplaceRefused(p) PROVE Located'
  BY <1>11 DEF ReplaceRefused, Ends, Blank
<1>12. ASSUME NEW p \in Scanners, Snapshot(p) PROVE Located'
  BY <1>12 DEF Snapshot
<1>13. ASSUME NEW p \in Scanners, Discover(p) PROVE Located'
  BY <1>13 DEF Discover
<1>14. ASSUME NEW p \in Scanners, Query(p) PROVE Located'
  BY <1>14 DEF Query
<1>15. ASSUME NEW p \in Scanners, IngestEnds(p) PROVE Located'
  <2>1. newest \in Commits /\ newest \in Dirs /\ pc[p] = "alerts"
    BY <1>15 DEF IngestEnds, Dirs
  <2>2. pc'[p] \in {"ensure", "emit"} /\ \A q \in Scanners \ {p} : pc'[q] = pc[q]
    BY <1>15 DEF IngestEnds
  <2>3. /\ wanted' = [wanted EXCEPT ![p] = newest] /\ measuring' = [measuring EXCEPT ![p] = TRUE]
        /\ scanned' = scanned /\ newest' = newest
    BY <1>15 DEF IngestEnds
  <2> QED
    BY <2>1, <2>2, <2>3
<1>16. ASSUME NEW p \in Scanners, Emit(p) PROVE Located'
  BY <1>16 DEF Emit
<1>17. ASSUME NEW p \in Scanners, Kill(p) PROVE Located'
  BY <1>17 DEF Kill, Ends, Blank
<1>18. ASSUME NEW p \in Scanners, NEW d \in Deps, FromCache(p, d) PROVE Located'
  BY <1>18 DEF FromCache, Answered
<1>19. ASSUME NEW p \in Scanners, NEW d \in Deps, FromOsv(p, d) PROVE Located'
  BY <1>19 DEF FromOsv, Answered
<1>20. ASSUME NEW p \in Scanners, NEW d \in Deps, OsvFails(p, d) PROVE Located'
  BY <1>20 DEF OsvFails
<1>21. ASSUME NEW p \in Scanners, NEW d \in Deps, Ingest(p, d) PROVE Located'
  BY <1>21 DEF Ingest
<1>22. ASSUME NEW p \in Scanners, NEW d \in Deps, IngestFails(p, d) PROVE Located'
  BY <1>22 DEF IngestFails
<1>23. CASE UNCHANGED vars
  BY <1>23 DEF vars
<1> QED
  BY <1>1, <1>2, <1>3, <1>4, <1>5, <1>6, <1>7, <1>8, <1>9, <1>10, <1>11, <1>12, <1>13, <1>14,
     <1>15, <1>16, <1>17, <1>18, <1>19, <1>20, <1>21, <1>22, <1>23 DEF Next, Scan, Rest

\* A scan that has read a tree can read it again until it reports.
LEMMA ReadableStep == Base /\ [Next]_vars => Readable'
<1> SUFFICES ASSUME Base, [Next]_vars PROVE Readable'
  OBVIOUS
<1>0. \A dir \in Dirs : tree[dir] \in Commits => tree'[dir] = tree[dir]
  BY TreesAreKept
<1> USE DEF Base, SharedTypes, OwnTypes, Located, Readable, TreeIsWhole, Places, Ended,
            Cloning, Reading, Ingesting, shared, own
<1>1. CASE Tick
  BY <1>0, <1>1 DEF Tick
<1>2. CASE Push
  BY <1>0, <1>2 DEF Push
<1>3. ASSUME NEW p \in Scanners, Start(p) PROVE Readable'
  BY <1>0, <1>3 DEF Start, Blank
<1>4. ASSUME NEW p \in Scanners, Cached(p) PROVE Readable'
  BY <1>0, <1>4 DEF Cached, AfterCheckout
<1>5. ASSUME NEW p \in Scanners, Stage(p) PROVE Readable'
  BY <1>0, <1>5 DEF Stage
<1>6. ASSUME NEW p \in Scanners, Fetch(p) PROVE Readable'
  BY <1>0, <1>6 DEF Fetch
<1>7. ASSUME NEW p \in Scanners, CheckOut(p) PROVE Readable'
  BY <1>0, <1>7 DEF CheckOut
<1>8. ASSUME NEW p \in Scanners, GitFails(p) PROVE Readable'
  <2>1. CASE measuring[p]
    BY <1>0, <1>8, <2>1 DEF GitFails
  <2>2. CASE ~measuring[p]
    <3>1. Ends(p, "failed") /\ UNCHANGED shared
      BY <1>8, <2>2 DEF GitFails
    <3> QED
      BY <1>0, <3>1 DEF Ends
  <2> QED
    BY <2>1, <2>2
<1>9. ASSUME NEW p \in Scanners, Exists(p) PROVE Readable'
  BY <1>0, <1>9 DEF Exists, AfterCheckout
<1>10. ASSUME NEW p \in Scanners, Replace(p) PROVE Readable'
  BY <1>0, <1>10 DEF Replace, AfterCheckout, Contents
<1>11. ASSUME NEW p \in Scanners, ReplaceRefused(p) PROVE Readable'
  BY <1>0, <1>11 DEF ReplaceRefused, Ends, Blank
<1>12. ASSUME NEW p \in Scanners, Snapshot(p) PROVE Readable'
  BY <1>0, <1>12 DEF Snapshot
<1>13. ASSUME NEW p \in Scanners, Discover(p) PROVE Readable'
  BY <1>0, <1>13 DEF Discover
<1>14. ASSUME NEW p \in Scanners, Query(p) PROVE Readable'
  BY <1>0, <1>14 DEF Query
<1>15. ASSUME NEW p \in Scanners, IngestEnds(p) PROVE Readable'
  BY <1>0, <1>15 DEF IngestEnds
<1>16. ASSUME NEW p \in Scanners, Emit(p) PROVE Readable'
  BY <1>0, <1>16 DEF Emit
<1>17. ASSUME NEW p \in Scanners, Kill(p) PROVE Readable'
  BY <1>0, <1>17 DEF Kill, Ends, Blank
<1>18. ASSUME NEW p \in Scanners, NEW d \in Deps, FromCache(p, d) PROVE Readable'
  BY <1>0, <1>18 DEF FromCache, Answered
<1>19. ASSUME NEW p \in Scanners, NEW d \in Deps, FromOsv(p, d) PROVE Readable'
  BY <1>0, <1>19 DEF FromOsv, Answered
<1>20. ASSUME NEW p \in Scanners, NEW d \in Deps, OsvFails(p, d) PROVE Readable'
  BY <1>0, <1>20 DEF OsvFails
<1>21. ASSUME NEW p \in Scanners, NEW d \in Deps, Ingest(p, d) PROVE Readable'
  BY <1>0, <1>21 DEF Ingest
<1>22. ASSUME NEW p \in Scanners, NEW d \in Deps, IngestFails(p, d) PROVE Readable'
  BY <1>0, <1>22 DEF IngestFails
<1>23. CASE UNCHANGED vars
  BY <1>0, <1>23 DEF vars
<1> QED
  BY <1>1, <1>2, <1>3, <1>4, <1>5, <1>6, <1>7, <1>8, <1>9, <1>10, <1>11, <1>12, <1>13, <1>14,
     <1>15, <1>16, <1>17, <1>18, <1>19, <1>20, <1>21, <1>22, <1>23 DEF Next, Scan, Rest

\* A staging directory is as far as the last git command that succeeded.
LEMMA StagedStep == Base /\ [Next]_vars => Staged'
<1> SUFFICES ASSUME Base, [Next]_vars PROVE Staged'
  OBVIOUS
<1> USE DEF Base, OwnTypes, Staged, Places, shared, own
<1>1. CASE Tick
  BY <1>1 DEF Tick
<1>2. CASE Push
  BY <1>2 DEF Push
<1>3. ASSUME NEW p \in Scanners, Start(p) PROVE Staged'
  BY <1>3 DEF Start, Blank
<1>4. ASSUME NEW p \in Scanners, Cached(p) PROVE Staged'
  BY <1>4 DEF Cached, AfterCheckout
<1>5. ASSUME NEW p \in Scanners, Stage(p) PROVE Staged'
  BY <1>5 DEF Stage
<1>6. ASSUME NEW p \in Scanners, Fetch(p) PROVE Staged'
  BY <1>6 DEF Fetch
<1>7. ASSUME NEW p \in Scanners, CheckOut(p) PROVE Staged'
  BY <1>7 DEF CheckOut
<1>8. ASSUME NEW p \in Scanners, GitFails(p) PROVE Staged'
  <2>1. CASE measuring[p]
    BY <1>8, <2>1 DEF GitFails
  <2>2. CASE ~measuring[p]
    <3>1. Ends(p, "failed") /\ UNCHANGED shared
      BY <1>8, <2>2 DEF GitFails
    <3> QED
      BY <3>1 DEF Ends, Blank
  <2> QED
    BY <2>1, <2>2
<1>9. ASSUME NEW p \in Scanners, Exists(p) PROVE Staged'
  BY <1>9 DEF Exists, AfterCheckout
<1>10. ASSUME NEW p \in Scanners, Replace(p) PROVE Staged'
  BY <1>10 DEF Replace, AfterCheckout, Contents
<1>11. ASSUME NEW p \in Scanners, ReplaceRefused(p) PROVE Staged'
  BY <1>11 DEF ReplaceRefused, Ends, Blank
<1>12. ASSUME NEW p \in Scanners, Snapshot(p) PROVE Staged'
  BY <1>12 DEF Snapshot
<1>13. ASSUME NEW p \in Scanners, Discover(p) PROVE Staged'
  BY <1>13 DEF Discover
<1>14. ASSUME NEW p \in Scanners, Query(p) PROVE Staged'
  BY <1>14 DEF Query
<1>15. ASSUME NEW p \in Scanners, IngestEnds(p) PROVE Staged'
  BY <1>15 DEF IngestEnds
<1>16. ASSUME NEW p \in Scanners, Emit(p) PROVE Staged'
  BY <1>16 DEF Emit
<1>17. ASSUME NEW p \in Scanners, Kill(p) PROVE Staged'
  BY <1>17 DEF Kill, Ends, Blank
<1>18. ASSUME NEW p \in Scanners, NEW d \in Deps, FromCache(p, d) PROVE Staged'
  BY <1>18 DEF FromCache, Answered
<1>19. ASSUME NEW p \in Scanners, NEW d \in Deps, FromOsv(p, d) PROVE Staged'
  BY <1>19 DEF FromOsv, Answered
<1>20. ASSUME NEW p \in Scanners, NEW d \in Deps, OsvFails(p, d) PROVE Staged'
  BY <1>20 DEF OsvFails
<1>21. ASSUME NEW p \in Scanners, NEW d \in Deps, Ingest(p, d) PROVE Staged'
  BY <1>21 DEF Ingest
<1>22. ASSUME NEW p \in Scanners, NEW d \in Deps, IngestFails(p, d) PROVE Staged'
  BY <1>22 DEF IngestFails
<1>23. CASE UNCHANGED vars
  BY <1>23 DEF vars
<1> QED
  BY <1>1, <1>2, <1>3, <1>4, <1>5, <1>6, <1>7, <1>8, <1>9, <1>10, <1>11, <1>12, <1>13, <1>14,
     <1>15, <1>16, <1>17, <1>18, <1>19, <1>20, <1>21, <1>22, <1>23 DEF Next, Scan, Rest

\* Nothing is asked about that the scanned tree does not pin.
LEMMA NarrowedStep == Base /\ [Next]_vars => Narrowed'
<1> SUFFICES ASSUME Base, [Next]_vars PROVE Narrowed'
  OBVIOUS
<1>0. \A dir \in Dirs : tree[dir] \in Commits => tree'[dir] = tree[dir]
  BY TreesAreKept
<1> USE DEF Base, OwnTypes, Narrowed, Readable, Manifests, Cloning, Places, Ended, shared, own
<1>1. CASE Tick
  BY <1>1 DEF Tick
<1>2. CASE Push
  BY <1>2 DEF Push
<1>3. ASSUME NEW p \in Scanners, Start(p) PROVE Narrowed'
  BY <1>3 DEF Start, Blank
<1>4. ASSUME NEW p \in Scanners, Cached(p) PROVE Narrowed'
  BY <1>4 DEF Cached, AfterCheckout
<1>5. ASSUME NEW p \in Scanners, Stage(p) PROVE Narrowed'
  BY <1>5 DEF Stage
<1>6. ASSUME NEW p \in Scanners, Fetch(p) PROVE Narrowed'
  BY <1>6 DEF Fetch
<1>7. ASSUME NEW p \in Scanners, CheckOut(p) PROVE Narrowed'
  BY <1>7 DEF CheckOut
<1>8. ASSUME NEW p \in Scanners, GitFails(p) PROVE Narrowed'
  <2>1. CASE measuring[p]
    BY <1>8, <2>1 DEF GitFails
  <2>2. CASE ~measuring[p]
    <3>1. Ends(p, "failed") /\ UNCHANGED shared
      BY <1>8, <2>2 DEF GitFails
    <3> QED
      BY <3>1 DEF Ends, Blank
  <2> QED
    BY <2>1, <2>2
<1>9. ASSUME NEW p \in Scanners, Exists(p) PROVE Narrowed'
  BY <1>9 DEF Exists, AfterCheckout
<1>10. ASSUME NEW p \in Scanners, Replace(p) PROVE Narrowed'
  <2>1. pending' = pending /\ scanned' = scanned /\ pending[p] = {}
    BY <1>10 DEF Replace
  <2>2. ASSUME NEW q \in Scanners, pending[q] # {} PROVE q # p /\ Manifests(q)' = Manifests(q)
    BY <1>0, <2>1, <2>2 DEF Ingesting
  <2>3. \A q \in Scanners \ {p} : pc'[q] = pc[q]
    BY <1>10 DEF Replace
  <2>4. pc'[p] \notin {"query", "alerts"}
    BY <1>10 DEF Replace, AfterCheckout
  <2> QED
    BY <2>1, <2>2, <2>3, <2>4
<1>11. ASSUME NEW p \in Scanners, ReplaceRefused(p) PROVE Narrowed'
  BY <1>11 DEF ReplaceRefused, Ends, Blank
<1>12. ASSUME NEW p \in Scanners, Snapshot(p) PROVE Narrowed'
  BY <1>12 DEF Snapshot
<1>13. ASSUME NEW p \in Scanners, Discover(p) PROVE Narrowed'
  BY <1>13 DEF Discover
<1>14. ASSUME NEW p \in Scanners, Query(p) PROVE Narrowed'
  BY <1>14 DEF Query
<1>15. ASSUME NEW p \in Scanners, IngestEnds(p) PROVE Narrowed'
  BY <1>15 DEF IngestEnds
<1>16. ASSUME NEW p \in Scanners, Emit(p) PROVE Narrowed'
  BY <1>16 DEF Emit
<1>17. ASSUME NEW p \in Scanners, Kill(p) PROVE Narrowed'
  BY <1>17 DEF Kill, Ends, Blank
<1>18. ASSUME NEW p \in Scanners, NEW d \in Deps, FromCache(p, d) PROVE Narrowed'
  BY <1>18 DEF FromCache, Answered
<1>19. ASSUME NEW p \in Scanners, NEW d \in Deps, FromOsv(p, d) PROVE Narrowed'
  BY <1>19 DEF FromOsv, Answered
<1>20. ASSUME NEW p \in Scanners, NEW d \in Deps, OsvFails(p, d) PROVE Narrowed'
  BY <1>20 DEF OsvFails
<1>21. ASSUME NEW p \in Scanners, NEW d \in Deps, Ingest(p, d) PROVE Narrowed'
  BY <1>21 DEF Ingest
<1>22. ASSUME NEW p \in Scanners, NEW d \in Deps, IngestFails(p, d) PROVE Narrowed'
  BY <1>22 DEF IngestFails
<1>23. CASE UNCHANGED vars
  BY <1>23 DEF vars
<1> QED
  BY <1>1, <1>2, <1>3, <1>4, <1>5, <1>6, <1>7, <1>8, <1>9, <1>10, <1>11, <1>12, <1>13, <1>14,
     <1>15, <1>16, <1>17, <1>18, <1>19, <1>20, <1>21, <1>22, <1>23 DEF Next, Scan, Rest

\* Only a staging directory that was checked out is renamed to a commit's name.
LEMMA TreeIsWholeStep == Base /\ [Next]_vars => TreeIsWhole'
<1> SUFFICES ASSUME Base, [Next]_vars PROVE TreeIsWhole'
  OBVIOUS
<1> USE DEF Base, SharedTypes, OwnTypes, Located, Staged, TreeIsWhole, Places, Cloning, Reading,
            Ended, shared, own
<1>1. CASE Tick
  BY <1>1 DEF Tick
<1>2. CASE Push
  BY <1>2 DEF Push
<1>3. ASSUME NEW p \in Scanners, Start(p) PROVE TreeIsWhole'
  BY <1>3 DEF Start, Blank
<1>4. ASSUME NEW p \in Scanners, Cached(p) PROVE TreeIsWhole'
  <2>1. tree[wanted[p]] \in Commits
    BY <1>4 DEF Cached, Behind, Dirs
  <2> QED
    BY <1>4, <2>1 DEF Cached, AfterCheckout
<1>5. ASSUME NEW p \in Scanners, Stage(p) PROVE TreeIsWhole'
  BY <1>5 DEF Stage
<1>6. ASSUME NEW p \in Scanners, Fetch(p) PROVE TreeIsWhole'
  BY <1>6 DEF Fetch
<1>7. ASSUME NEW p \in Scanners, CheckOut(p) PROVE TreeIsWhole'
  BY <1>7 DEF CheckOut
<1>8. ASSUME NEW p \in Scanners, GitFails(p) PROVE TreeIsWhole'
  BY <1>8 DEF GitFails, Ends, Blank
<1>9. ASSUME NEW p \in Scanners, Exists(p) PROVE TreeIsWhole'
  <2>1. tree[wanted[p]] # "none" => tree[wanted[p]] \in Commits
    BY <1>9 DEF Exists, Behind, Dirs
  <2> QED
    BY <1>9, <2>1 DEF Exists, AfterCheckout
<1>10. ASSUME NEW p \in Scanners, Replace(p) PROVE TreeIsWhole'
  <2>1. Contents(p) \in Behind(wanted[p]) /\ Contents(p) \in Commits
    BY <1>10 DEF Replace, Contents, Behind, Dirs
  <2>2. tree' = [tree EXCEPT ![wanted[p]] = Contents(p)] /\ wanted' = wanted
    BY <1>10 DEF Replace
  <2>3. \A dir \in Dirs : tree'[dir] \in {"none"} \cup Behind(dir)
    BY <2>1, <2>2
  <2>4. pc'[p] \in Places /\ \A q \in Scanners \ {p} : pc'[q] = pc[q]
    BY <1>10 DEF Replace, AfterCheckout
  <2>5. wanted[p] \in Dirs
    BY <1>10 DEF Replace
  <2>6. ASSUME NEW q \in Scanners,
               pc'[q] \in {"snapshot", "discover", "query", "alerts", "stages"}
        PROVE  tree'[wanted[q]] \in Commits
    BY <2>1, <2>2, <2>4, <2>5, <2>6
  <2> QED
    BY <2>2, <2>3, <2>6
<1>11. ASSUME NEW p \in Scanners, ReplaceRefused(p) PROVE TreeIsWhole'
  BY <1>11 DEF ReplaceRefused, Ends, Blank
<1>12. ASSUME NEW p \in Scanners, Snapshot(p) PROVE TreeIsWhole'
  BY <1>12 DEF Snapshot
<1>13. ASSUME NEW p \in Scanners, Discover(p) PROVE TreeIsWhole'
  BY <1>13 DEF Discover
<1>14. ASSUME NEW p \in Scanners, Query(p) PROVE TreeIsWhole'
  BY <1>14 DEF Query
<1>15. ASSUME NEW p \in Scanners, IngestEnds(p) PROVE TreeIsWhole'
  BY <1>15 DEF IngestEnds
<1>16. ASSUME NEW p \in Scanners, Emit(p) PROVE TreeIsWhole'
  BY <1>16 DEF Emit
<1>17. ASSUME NEW p \in Scanners, Kill(p) PROVE TreeIsWhole'
  BY <1>17 DEF Kill, Ends, Blank
<1>18. ASSUME NEW p \in Scanners, NEW d \in Deps, FromCache(p, d) PROVE TreeIsWhole'
  BY <1>18 DEF FromCache, Answered
<1>19. ASSUME NEW p \in Scanners, NEW d \in Deps, FromOsv(p, d) PROVE TreeIsWhole'
  BY <1>19 DEF FromOsv, Answered
<1>20. ASSUME NEW p \in Scanners, NEW d \in Deps, OsvFails(p, d) PROVE TreeIsWhole'
  BY <1>20 DEF OsvFails
<1>21. ASSUME NEW p \in Scanners, NEW d \in Deps, Ingest(p, d) PROVE TreeIsWhole'
  BY <1>21 DEF Ingest
<1>22. ASSUME NEW p \in Scanners, NEW d \in Deps, IngestFails(p, d) PROVE TreeIsWhole'
  BY <1>22 DEF IngestFails
<1>23. CASE UNCHANGED vars
  BY <1>23 DEF vars
<1> QED
  BY <1>1, <1>2, <1>3, <1>4, <1>5, <1>6, <1>7, <1>8, <1>9, <1>10, <1>11, <1>12, <1>13, <1>14,
     <1>15, <1>16, <1>17, <1>18, <1>19, <1>20, <1>21, <1>22, <1>23 DEF Next, Scan, Rest

\* The parts together are preserved by every step.
LEMMA BaseStep == Base /\ [Next]_vars => Base'
BY SharedTypesStep, OwnTypesStep, LocatedStep, ReadableStep, StagedStep, NarrowedStep, TreeIsWholeStep DEF Base

\* The inductive invariant holds in every reachable state.
LEMMA BaseAlways == Spec => []Base
BY BaseInit, BaseStep, PTL DEF Spec

\* Every variable keeps its type, and a staging directory is complete exactly
\* between a scan's checkout and its rename, for any number of scanners.
THEOREM ScanTypeCorrect == Spec => []TypeOK
<1>1. Base => TypeOK
  <2> SUFFICES ASSUME Base PROVE TypeOK
    OBVIOUS
  <2>1. \A d \in Affected : cache[d].kind \in {"absent", "none", "body"} /\ cache[d].at \in 0..now
    BY DEF Base, SharedTypes, Answers
  <2>2. ASSUME NEW p \in Scanners
        PROVE  /\ outcome[p] \in [Deps -> Outcomes]
               /\ pending[p] # {} => pending[p] \subseteq Manifests(p)
               /\ pc[p] \in {"fetch", "checkout", "exists", "replace"} => staging[p] # "none"
               /\ pc[p] \in {"exists", "replace"} <=> pc[p] \notin Ended /\ staging[p] = "whole"
    BY DEF Base, OwnTypes, Staged, Narrowed, Ended
  <2> QED
    BY <2>1, <2>2 DEF Base, SharedTypes, TypeOK
<1> QED
  BY <1>1, BaseAlways, PTL

\* What a scan reads under a commit's name is the whole tree of that commit,
\* whatever the other scanners do and wherever they were killed.
THEOREM TreesAreWhole == Spec => []TreeIsWhole
<1>1. Base => TreeIsWhole
  BY DEF Base
<1> QED
  BY <1>1, BaseAlways, PTL

\* No step of any scanner takes a whole tree away or replaces it by another's.
THEOREM TreesStay == Spec => EveryTreeStays
<1> DEFINE Stays == \A dir \in Dirs : tree[dir] \in Commits => tree'[dir] = tree[dir]
<1>1. ASSUME Base, [Next]_vars PROVE [Stays]_vars
  BY <1>1, TreesAreKept
<1> QED
  BY <1>1, BaseAlways, PTL DEF Spec, EveryTreeStays

-----------------------------------------------------------------------------
(* Coverage.                                                                *)

\* Only an answer of OSV puts a 404 in the cache.
LEMMA DenialsStep == Base /\ Denials /\ [Next]_vars => Denials'
<1> SUFFICES ASSUME Base /\ Denials, [Next]_vars PROVE Denials'
  OBVIOUS
<1>1. ASSUME NEW p \in Scanners,
             \/ Start(p) \/ Cached(p) \/ Stage(p) \/ Fetch(p) \/ CheckOut(p)
             \/ GitFails(p) \/ Exists(p) \/ Replace(p) \/ ReplaceRefused(p) \/ Snapshot(p)
             \/ Discover(p) \/ Query(p) \/ IngestEnds(p) \/ Emit(p) \/ Kill(p)
      PROVE  UNCHANGED <<cache, denied>>
  BY <1>1 DEF Start, Cached, Stage, Fetch, CheckOut, GitFails, Exists, Replace, ReplaceRefused,
     Snapshot, Discover, Query, IngestEnds, Emit, Kill, Ends, shared
<1>2. ASSUME NEW p \in Scanners, NEW d \in Deps,
             \/ FromCache(p, d) \/ OsvFails(p, d) \/ Ingest(p, d) \/ IngestFails(p, d)
      PROVE  UNCHANGED <<cache, denied>>
  BY <1>2 DEF FromCache, OsvFails, Ingest, IngestFails, shared
<1>3. ASSUME Tick \/ Push \/ UNCHANGED vars PROVE UNCHANGED <<cache, denied>>
  BY <1>3 DEF Tick, Push, vars
<1>4. ASSUME UNCHANGED <<cache, denied>> PROVE Denials'
  BY <1>4 DEF Denials
<1>5. ASSUME NEW p \in Scanners, NEW d \in Deps, FromOsv(p, d) PROVE Denials'
  BY <1>5 DEF FromOsv, Answered, Base, SharedTypes, Denials, Answers
<1> QED
  BY <1>1, <1>2, <1>3, <1>4, <1>5 DEF Next, Scan, Rest

\* Every dependency not asked about after discovery is an error entry.
LEMMA DiscoverCovers ==
  ASSUME Base, NEW p \in Scanners, Discover(p)
  PROVE  CoverageOf(p)'
<1>1. PICK unread \in SUBSET Manifests(p) :
        /\ errors' = [errors EXCEPT ![p] = unread # {}]
        /\ pending' = [pending EXCEPT ![p] = Manifests(p) \ unread]
  BY DEF Discover
<1>2. pc[p] = "discover" /\ pc'[p] = "query" /\ measuring' = measuring /\ scanned' = scanned
  BY DEF Discover, Base, OwnTypes
<1>5. Manifests(p)' = Manifests(p)
  BY DEF Discover, Manifests, shared
<1>3. ~measuring'[p]
  BY <1>2 DEF Base, Located, Reading
<1>4. errors'[p] = (unread # {}) /\ pending'[p] = Manifests(p) \ unread
  BY <1>1 DEF Base, OwnTypes
<1> QED
  BY <1>2, <1>3, <1>4, <1>5 DEF CoverageOf

\* A batch that fails leaves an error entry too.
LEMMA QueryCovers ==
  ASSUME Base, Coverage, NEW p \in Scanners, Query(p)
  PROVE  CoverageOf(p)'
<1>1. PICK unqueried \in SUBSET pending[p] :
        /\ errors' = [errors EXCEPT ![p] = @ \/ unqueried # {}]
        /\ pending' = [pending EXCEPT ![p] = (@ \ unqueried) \cap Affected]
  BY DEF Query
<1>2. pc[p] = "query" /\ pc'[p] = "alerts" /\ measuring' = measuring /\ scanned' = scanned
  BY DEF Query, Base, OwnTypes
<1>3. ~measuring'[p]
  BY <1>2 DEF Base, Located, Reading
<1>4. errors'[p] = (errors[p] \/ unqueried # {}) /\ pending'[p] = (pending[p] \ unqueried) \cap Affected
  BY <1>1 DEF Base, OwnTypes
<1>5. ~errors[p] => Manifests(p) \subseteq pending[p]
  BY <1>2 DEF Coverage, CoverageOf
<1>6. Manifests(p)' = Manifests(p)
  BY DEF Query, Manifests, shared
<1> QED
  BY <1>2, <1>3, <1>4, <1>5, <1>6 DEF CoverageOf

\* When nothing is pending and no alert is half ingested, all are accounted for.
LEMMA IngestEndsCovers ==
  ASSUME Base, Coverage, NEW p \in Scanners, IngestEnds(p)
  PROVE  CoverageOf(p)'
<1>1. /\ pc[p] = "alerts" /\ pc'[p] \in {"ensure", "emit"} /\ pending[p] = {}
      /\ \A d \in Deps : outcome[p][d] # "found"
      /\ errors' = errors /\ outcome' = outcome /\ denied' = denied
  BY DEF IngestEnds, Base, OwnTypes, shared
<1>2. Manifests(p)' = Manifests(p)
  BY DEF IngestEnds, Manifests, shared
<1>3. Manifests(p) \subseteq Deps
  BY <1>1, ManifestsAreDeps DEF Ingesting
<1> QED
  BY <1>1, <1>2, <1>3 DEF Coverage, CoverageOf, Accounted

\* An answer takes one advisory out of what is pending, and remembers a denial.
LEMMA AnswerCovers ==
  ASSUME Base, Coverage, NEW p \in Scanners, NEW d \in Deps, NEW kind \in {"none", "body"},
         pc[p] = "alerts", pc' = pc, measuring' = measuring, errors' = errors, scanned' = scanned,
         tree' = tree, denied \subseteq denied', kind = "none" => d \in denied', Answered(p, d, kind)
  PROVE  Coverage'
<1>1. outcome'[p][d] = (IF kind = "body" THEN "found" ELSE "no_record")
  BY DEF Answered, Base, OwnTypes
<1>2. \A e \in Deps \ {d} : outcome'[p][e] = outcome[p][e]
  BY DEF Answered, Base, OwnTypes
<1>3. pending'[p] = pending[p] \ {d}
  BY DEF Answered, Base, OwnTypes
<1>4. \A q \in Scanners \ {p} : outcome'[q] = outcome[q] /\ pending'[q] = pending[q]
  BY DEF Answered, Base, OwnTypes
<1>5. ~measuring[p] /\ pc[p] \in Ingesting
  BY DEF Base, Located, Reading, Ingesting
<1>6. Manifests(p) \subseteq Deps
  BY <1>5, ManifestsAreDeps
<1>9. \A q \in Scanners : Manifests(q)' = Manifests(q)
  BY DEF Manifests
<1>7. CoverageOf(p)'
  BY <1>1, <1>2, <1>3, <1>5, <1>6, <1>9 DEF Coverage, CoverageOf, Accounted
<1>8. ASSUME NEW q \in Scanners \ {p} PROVE CoverageOf(q)'
  BY <1>4, <1>9 DEF Coverage, CoverageOf, Accounted
<1> QED
  BY <1>7, <1>8 DEF Coverage

\* What the cache answers is a body, or a 404 that OSV gave.
LEMMA FromCacheCovers ==
  ASSUME Base, Denials, Coverage, NEW p \in Scanners, NEW d \in Deps, FromCache(p, d)
  PROVE  Coverage'
<1>1. /\ Answered(p, d, cache[d].kind) /\ pc[p] = "alerts" /\ pc' = pc /\ denied' = denied
      /\ measuring' = measuring /\ errors' = errors /\ scanned' = scanned /\ tree' = tree
  BY DEF FromCache, shared
<1>2. cache[d].kind \in {"none", "body"}
  BY DEF FromCache, Fresh
<1>3. d \in Affected
  BY DEF FromCache, Base, Narrowed
<1>4. cache[d].kind = "none" => d \in denied'
  BY <1>1, <1>3 DEF Denials
<1> QED
  BY <1>1, <1>2, <1>4, AnswerCovers

\* What OSV answers is a body, or a 404 that is remembered as its own.
LEMMA FromOsvCovers ==
  ASSUME Base, Coverage, NEW p \in Scanners, NEW d \in Deps, FromOsv(p, d)
  PROVE  Coverage'
<1>1. PICK kind \in {"none", "body"} :
        Answered(p, d, kind) /\ denied' = IF kind = "none" THEN denied \cup {d} ELSE denied
  BY DEF FromOsv
<1>2. /\ pc[p] = "alerts" /\ pc' = pc
      /\ measuring' = measuring /\ errors' = errors /\ scanned' = scanned /\ tree' = tree
  BY DEF FromOsv
<1>3. denied \subseteq denied' /\ (kind = "none" => d \in denied')
  BY <1>1
<1> QED
  BY <1>1, <1>2, <1>3, AnswerCovers

\* A second clone that fails costs the stages their tree, not the alerts.
LEMMA GitFailsCovers ==
  ASSUME Base, Coverage, NEW p \in Scanners, GitFails(p), measuring[p]
  PROVE  Coverage'
<1>1. /\ errors' = errors /\ outcome' = outcome /\ scanned' = scanned /\ pending' = pending
      /\ measuring' = measuring /\ denied' = denied /\ tree' = tree
      /\ pc' = [pc EXCEPT ![p] = "emit"]
  BY DEF GitFails, shared
<1>2. \A q \in Scanners : pc'[q] \in {pc[q], "emit"}
  BY <1>1 DEF Base, OwnTypes
<1> QED
  BY <1>1, <1>2 DEF Coverage, CoverageOf, Accounted, Manifests

\* No step loses an affected dependency without an error entry.
LEMMA CoverageStep == Base /\ Denials /\ Coverage /\ [Next]_vars => Coverage'
<1> SUFFICES ASSUME Base /\ Denials /\ Coverage, [Next]_vars PROVE Coverage'
  OBVIOUS
<1>0. \A dir \in Dirs : tree[dir] \in Commits => tree'[dir] = tree[dir]
  BY TreesAreKept
<1> USE DEF Base, SharedTypes, OwnTypes, Located, Narrowed, Readable, Manifests, Denials, Coverage, CoverageOf,
            Accounted, Places, Ended, Fresh, shared, own
<1>1. CASE Tick
  BY <1>1 DEF Tick
<1>2. CASE Push
  BY <1>2 DEF Push
<1>3. ASSUME NEW p \in Scanners, Start(p) PROVE Coverage'
  BY <1>3 DEF Start, Blank
<1>4. ASSUME NEW p \in Scanners, Cached(p) PROVE Coverage'
  BY <1>4 DEF Cached, AfterCheckout
<1>5. ASSUME NEW p \in Scanners, Stage(p) PROVE Coverage'
  BY <1>5 DEF Stage
<1>6. ASSUME NEW p \in Scanners, Fetch(p) PROVE Coverage'
  BY <1>6 DEF Fetch
<1>7. ASSUME NEW p \in Scanners, CheckOut(p) PROVE Coverage'
  BY <1>7 DEF CheckOut
<1>8. ASSUME NEW p \in Scanners, GitFails(p) PROVE Coverage'
  <2>1. CASE measuring[p]
    BY <1>8, <2>1, GitFailsCovers
  <2>2. CASE ~measuring[p]
    <3>1. Ends(p, "failed") /\ UNCHANGED shared
      BY <1>8, <2>2 DEF GitFails
    <3> QED
      BY <3>1 DEF Ends, Blank
  <2> QED
    BY <2>1, <2>2
<1>9. ASSUME NEW p \in Scanners, Exists(p) PROVE Coverage'
  BY <1>9 DEF Exists, AfterCheckout
<1>10. ASSUME NEW p \in Scanners, Replace(p) PROVE Coverage'
  <2>1. /\ pending' = pending /\ outcome' = outcome /\ errors' = errors /\ scanned' = scanned
        /\ measuring' = measuring /\ denied' = denied
    BY <1>10 DEF Replace
  <2>2. pc'[p] \in {"stages", "snapshot"} /\ \A q \in Scanners \ {p} : pc'[q] = pc[q]
    BY <1>10 DEF Replace, AfterCheckout
  <2>3. ASSUME NEW q \in Scanners, pc[q] \in Ingesting \cup {"done"} \/ measuring[q]
        PROVE  Manifests(q)' = Manifests(q)
    BY <1>0, <2>1, <2>3
  <2> QED
    BY <2>1, <2>2, <2>3 DEF Ingesting
<1>11. ASSUME NEW p \in Scanners, ReplaceRefused(p) PROVE Coverage'
  BY <1>11 DEF ReplaceRefused, Ends, Blank
<1>12. ASSUME NEW p \in Scanners, Snapshot(p) PROVE Coverage'
  BY <1>12 DEF Snapshot
<1>13. ASSUME NEW p \in Scanners, Discover(p) PROVE Coverage'
  <2>1. ASSUME NEW q \in Scanners, q # p PROVE CoverageOf(q)'
    BY <1>13, <2>1 DEF Discover
  <2>2. CoverageOf(p)'
    BY <1>13, DiscoverCovers
  <2> QED
    BY <2>1, <2>2
<1>14. ASSUME NEW p \in Scanners, Query(p) PROVE Coverage'
  <2>1. ASSUME NEW q \in Scanners, q # p PROVE CoverageOf(q)'
    BY <1>14, <2>1 DEF Query
  <2>2. CoverageOf(p)'
    BY <1>14, QueryCovers
  <2> QED
    BY <2>1, <2>2
<1>15. ASSUME NEW p \in Scanners, IngestEnds(p) PROVE Coverage'
  <2>1. ASSUME NEW q \in Scanners, q # p PROVE CoverageOf(q)'
    BY <1>15, <2>1 DEF IngestEnds
  <2>2. CoverageOf(p)'
    BY <1>15, IngestEndsCovers
  <2> QED
    BY <2>1, <2>2
<1>16. ASSUME NEW p \in Scanners, Emit(p) PROVE Coverage'
  BY <1>16 DEF Emit
<1>17. ASSUME NEW p \in Scanners, Kill(p) PROVE Coverage'
  BY <1>17 DEF Kill, Ends, Blank
<1>18. ASSUME NEW p \in Scanners, NEW d \in Deps, FromCache(p, d) PROVE Coverage'
  BY <1>18, FromCacheCovers
<1>19. ASSUME NEW p \in Scanners, NEW d \in Deps, FromOsv(p, d) PROVE Coverage'
  BY <1>19, FromOsvCovers
<1>20. ASSUME NEW p \in Scanners, NEW d \in Deps, OsvFails(p, d) PROVE Coverage'
  BY <1>20 DEF OsvFails
<1>21. ASSUME NEW p \in Scanners, NEW d \in Deps, Ingest(p, d) PROVE Coverage'
  BY <1>21 DEF Ingest
<1>22. ASSUME NEW p \in Scanners, NEW d \in Deps, IngestFails(p, d) PROVE Coverage'
  BY <1>22 DEF IngestFails
<1>23. CASE UNCHANGED vars
  BY <1>23 DEF vars
<1> QED
  BY <1>1, <1>2, <1>3, <1>4, <1>5, <1>6, <1>7, <1>8, <1>9, <1>10, <1>11, <1>12, <1>13, <1>14,
     <1>15, <1>16, <1>17, <1>18, <1>19, <1>20, <1>21, <1>22, <1>23 DEF Next, Scan, Rest

\* A report without an error entry accounts for every affected dependency its
\* tree pins, and what it left out OSV itself has no record of: no outage of
\* this scan or of one that shares the cache hides an advisory.
THEOREM CoverageHonest == Spec => []CoverageIsHonest
<1>1. Init => Denials /\ Coverage
  BY DEF Init, Denials, Coverage, CoverageOf
<1>2. Coverage => CoverageIsHonest
  BY DEF Coverage, CoverageOf, CoverageIsHonest, Accounted
<1> QED
  BY <1>1, <1>2, BaseAlways, DenialsStep, CoverageStep, PTL DEF Spec

=============================================================================
