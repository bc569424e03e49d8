----------------------------- MODULE PublicScan -----------------------------
(***************************************************************************)
(* Scans of a public repository by several processes (scan.py) that share  *)
(* a checkout directory (sources/checkout.py), an advisory cache           *)
(* (sources/_cache.py, sources/osv.py) and a database (db.py): each clones *)
(* the head it was told of, or the ref the user named, asks OSV about the  *)
(* dependencies it discovers there (sources/osv_scan.py), ingests each     *)
(* alert (stages/ingest.py), and runs the stages on the tree of the newest *)
(* snapshot.                                                               *)
(*                                                                         *)
(* A commit has the dependencies its manifests pin; a dependency that OSV  *)
(* knows to be affected stands for its one advisory and alert.  Retries    *)
(* within one request are abstracted to the request's outcome, the stages' *)
(* checkouts to one.  What the stages decide is Pipeline's and Triage's.   *)
(***************************************************************************)
EXTENDS Integers, FiniteSets

CONSTANTS
  Scanners,    \* processes
  Commits,
  Names,       \* branches and tags: names of a commit that can change
  Pinned,      \* commit -> dependencies its manifests pin
  Affected,    \* dependencies OSV lists an advisory for
  Refs,        \* commits and names a user may give with --ref
  CacheTtl,    \* ttl_days of the cache
  MaxTime,     \* bound: days
  MaxPushes,   \* bound: changes of the default branch
  MaxScans,    \* bound: scans started
  NoCommit

ASSUME ScanAssumption ==
  /\ NoCommit \notin Commits \cup Names
  /\ Commits \cap Names = {}
  /\ {"none", "partial"} \cap Commits = {}
  /\ Refs \subseteq Commits \cup Names
  /\ MaxTime \in Nat /\ MaxPushes \in Nat /\ MaxScans \in Nat

Deps == UNION {Pinned[c] : c \in Commits}

\* CheckoutManager names a directory after what it is asked for.
Dirs == Commits \cup Names

\* What a fetch of it can bring: a commit itself, a name whatever it points to now.
Behind(dir) == IF dir \in Commits THEN {dir} ELSE Commits

VARIABLES
  now, head, pushes, scans,
  tree,      \* directory -> the commit whose whole tree it holds, "partial" or "none"
  cache,     \* advisory -> [kind, at]: "absent" or unreadable, "none" (a 404), "body"
  recorded,  \* the commits repo_snapshots has a row of
  newest,    \* the commit of its newest row
  pc,        \* scanner -> where its scan is
  scanned,   \* scanner -> ScanResult.commit_sha, the directory whose manifests it reads
  wanted,    \* scanner -> the directory it needs
  measuring, \* scanner -> the checkout is for the stages, not for discovery
  staging,   \* scanner -> its staging directory: "none", "init", "fetched", "whole"
  fetched,   \* scanner -> FETCH_HEAD of the staging directory
  pending,   \* scanner -> dependencies or advisories still to be asked about
  outcome,   \* scanner -> dependency -> what became of its alert
  errors,    \* scanner -> ScanStats.errors is not empty
  denied     \* history: advisories OSV itself has answered 404 for

shared == <<now, head, pushes, scans, tree, cache, recorded, newest, denied>>
own == <<pc, scanned, wanted, measuring, staging, fetched, pending, outcome, errors>>
vars == <<now, head, pushes, scans, tree, cache, recorded, newest, denied,
          pc, scanned, wanted, measuring, staging, fetched, pending, outcome, errors>>

Ended == {"idle", "done", "failed", "killed"}
Outcomes == {"none", "gap", "no_record", "found", "ingested", "ingest_failed"}

Blank == [d \in Deps |-> "none"]
Absent == [kind |-> "absent", at |-> 0]

\* The cache may hold the 404 of an earlier day; a file nobody can parse is as
\* good as absent to JsonCache.get.
Init ==
  /\ now = 0 /\ pushes = 0 /\ scans = 0
  /\ head \in Commits
  /\ tree = [dir \in Dirs |-> "none"]
  /\ cache \in [Affected -> {Absent, [kind |-> "none", at |-> 0]}]
  /\ recorded = {}
  /\ newest = NoCommit
  /\ pc = [p \in Scanners |-> "idle"]
  /\ scanned = [p \in Scanners |-> NoCommit]
  /\ wanted = [p \in Scanners |-> NoCommit]
  /\ measuring = [p \in Scanners |-> FALSE]
  /\ staging = [p \in Scanners |-> "none"]
  /\ fetched = [p \in Scanners |-> NoCommit]
  /\ pending = [p \in Scanners |-> {}]
  /\ outcome = [p \in Scanners |-> Blank]
  /\ errors = [p \in Scanners |-> FALSE]
  /\ denied = {d \in Affected : cache[d].kind = "none"}

-----------------------------------------------------------------------------
(* The world: days pass, the default branch moves.                          *)

Tick ==
  /\ now < MaxTime
  /\ now' = now + 1
  /\ UNCHANGED <<head, pushes, scans, tree, cache, recorded, newest, denied>>
  /\ UNCHANGED own

Push ==
  /\ pushes < MaxPushes
  /\ pushes' = pushes + 1
  /\ head' \in Commits \ {head}
  /\ UNCHANGED <<now, scans, tree, cache, recorded, newest, denied>>
  /\ UNCHANGED own

-----------------------------------------------------------------------------
(* CheckoutManager.ensure, asked for by the scan and again by the stages.   *)

\* scan_public_repo: the ref the user named, or the head of now.
Start(p) ==
  /\ pc[p] \in Ended
  /\ scans < MaxScans
  /\ scans' = scans + 1
  /\ \E ref \in {head} \cup Refs : /\ scanned' = [scanned EXCEPT ![p] = ref]
                                /\ wanted' = [wanted EXCEPT ![p] = ref]
  /\ pc' = [pc EXCEPT ![p] = "ensure"]
  /\ measuring' = [measuring EXCEPT ![p] = FALSE]
  /\ staging' = [staging EXCEPT ![p] = "none"]
  /\ fetched' = [fetched EXCEPT ![p] = NoCommit]
  /\ pending' = [pending EXCEPT ![p] = {}]
  /\ outcome' = [outcome EXCEPT ![p] = Blank]
  /\ errors' = [errors EXCEPT ![p] = FALSE]
  /\ UNCHANGED <<now, head, pushes, tree, cache, recorded, newest, denied>>

\* A process that ended without a report leaves nothing of its own behind.
Ends(p, how) ==
  /\ pc' = [pc EXCEPT ![p] = how]
  /\ scanned' = [scanned EXCEPT ![p] = NoCommit]
  /\ wanted' = [wanted EXCEPT ![p] = NoCommit]
  /\ measuring' = [measuring EXCEPT ![p] = FALSE]
  /\ staging' = [staging EXCEPT ![p] = "none"]
  /\ fetched' = [fetched EXCEPT ![p] = NoCommit]
  /\ pending' = [pending EXCEPT ![p] = {}]
  /\ outcome' = [outcome EXCEPT ![p] = Blank]
  /\ errors' = [errors EXCEPT ![p] = FALSE]

AfterCheckout(p) == IF measuring[p] THEN "stages" ELSE "snapshot"

\* A directory with .git in it is taken for a checkout, whatever a name means now.
Cached(p) ==
  /\ pc[p] = "ensure"
  /\ tree[wanted[p]] # "none"
  /\ pc' = [pc EXCEPT ![p] = AfterCheckout(p)]
  /\ UNCHANGED shared
  /\ UNCHANGED <<scanned, wanted, measuring, staging, fetched, pending, outcome, errors>>

Stage(p) ==
  /\ pc[p] = "ensure"
  /\ tree[wanted[p]] = "none"
  /\ staging' = [staging EXCEPT ![p] = "init"]
  /\ pc' = [pc EXCEPT ![p] = "fetch"]
  /\ UNCHANGED shared
  /\ UNCHANGED <<scanned, wanted, measuring, fetched, pending, outcome, errors>>

\* Variant: the tree is checked out where it will be read.
FetchThenInstall(p) ==
  /\ pc[p] = "fetch"
  /\ staging' = [staging EXCEPT ![p] = "fetched"]
  /\ \E c \in Behind(wanted[p]) : fetched' = [fetched EXCEPT ![p] = c]
  /\ pc' = [pc EXCEPT ![p] = "exists"]
  /\ UNCHANGED shared
  /\ UNCHANGED <<scanned, wanted, measuring, pending, outcome, errors>>

Fetch(p) ==
  /\ pc[p] = "fetch"
  /\ staging' = [staging EXCEPT ![p] = "fetched"]
  /\ \E c \in Behind(wanted[p]) : fetched' = [fetched EXCEPT ![p] = c]
  /\ pc' = [pc EXCEPT ![p] = "checkout"]
  /\ UNCHANGED shared
  /\ UNCHANGED <<scanned, wanted, measuring, pending, outcome, errors>>

CheckOut(p) ==
  /\ pc[p] = "checkout"
  /\ staging' = [staging EXCEPT ![p] = "whole"]
  /\ pc' = [pc EXCEPT ![p] = "exists"]
  /\ UNCHANGED shared
  /\ UNCHANGED <<scanned, wanted, measuring, fetched, pending, outcome, errors>>

\* Variants of GitFails: the target is cleared as well; the clone is tried again.
GitFailsAndClears(p) ==
  /\ pc[p] \in {"fetch", "checkout"}
  /\ staging' = [staging EXCEPT ![p] = "none"]
  /\ tree' = [tree EXCEPT ![wanted[p]] = "none"]
  /\ pc' = [pc EXCEPT ![p] = "failed"]
  /\ UNCHANGED <<now, head, pushes, scans, cache, recorded, newest, denied>>
  /\ UNCHANGED <<scanned, wanted, measuring, fetched, pending, outcome, errors>>

CloneAgain(p) ==
  /\ pc[p] \in {"fetch", "checkout"}
  /\ staging' = [staging EXCEPT ![p] = "none"]
  /\ pc' = [pc EXCEPT ![p] = "ensure"]
  /\ UNCHANGED shared
  /\ UNCHANGED <<scanned, wanted, measuring, fetched, pending, outcome, errors>>

\* git fails or times out: the staging directory goes, and CheckoutError ends the
\* scan, or leaves the stages without a tree to measure.
GitFails(p) ==
  /\ pc[p] \in {"fetch", "checkout"}
  /\ IF measuring[p]
     THEN /\ staging' = [staging EXCEPT ![p] = "none"]
          /\ fetched' = [fetched EXCEPT ![p] = NoCommit]
          /\ pc' = [pc EXCEPT ![p] = "emit"]
          /\ UNCHANGED <<scanned, wanted, measuring, pending, outcome, errors>>
     ELSE Ends(p, "failed")
  /\ UNCHANGED shared

\* Variant: the staging directory is left behind.
ExistsAndLeaves(p) ==
  /\ pc[p] = "exists"
  /\ pc' = [pc EXCEPT ![p] = IF tree[wanted[p]] # "none" THEN AfterCheckout(p) ELSE "replace"]
  /\ UNCHANGED shared
  /\ UNCHANGED <<scanned, wanted, measuring, staging, fetched, pending, outcome, errors>>

\* target.exists(): the other scanner's directory is kept.
Exists(p) ==
  /\ pc[p] = "exists"
  /\ IF tree[wanted[p]] # "none"
     THEN /\ staging' = [staging EXCEPT ![p] = "none"]
          /\ fetched' = [fetched EXCEPT ![p] = NoCommit]
          /\ pc' = [pc EXCEPT ![p] = AfterCheckout(p)]
     ELSE pc' = [pc EXCEPT ![p] = "replace"] /\ UNCHANGED <<staging, fetched>>
  /\ UNCHANGED shared
  /\ UNCHANGED <<scanned, wanted, measuring, pending, outcome, errors>>

Contents(p) == IF staging[p] = "whole" THEN fetched[p] ELSE "partial"

Replace(p) ==
  /\ pc[p] = "replace"
  /\ tree[wanted[p]] = "none"
  /\ tree' = [tree EXCEPT ![wanted[p]] = Contents(p)]
  /\ staging' = [staging EXCEPT ![p] = "none"]
  /\ fetched' = [fetched EXCEPT ![p] = NoCommit]
  /\ pc' = [pc EXCEPT ![p] = AfterCheckout(p)]
  /\ UNCHANGED <<now, head, pushes, scans, cache, recorded, newest, denied>>
  /\ UNCHANGED <<scanned, wanted, measuring, pending, outcome, errors>>

\* The other scanner's directory came in between: rename refuses a directory
\* that is not empty with an OSError, which nothing turns into a CheckoutError.
ReplaceRefused(p) ==
  /\ pc[p] = "replace"
  /\ tree[wanted[p]] # "none"
  /\ Ends(p, "failed")
  /\ UNCHANGED shared

-----------------------------------------------------------------------------
(* IngestStage.run_repo: the head is asked for again, then the alerts come. *)

\* record_snapshot.  Rows are ordered by seen_at, in whole seconds, and then by
\* rowid, which a commit seen before keeps: within a second a younger row stays first.
Snapshot(p) ==
  /\ pc[p] = "snapshot"
  /\ recorded' = recorded \cup {head}
  /\ newest' \in {head} \cup (IF head \in recorded THEN {newest} ELSE {})
  /\ pc' = [pc EXCEPT ![p] = "discover"]
  /\ UNCHANGED <<now, head, pushes, scans, tree, cache, denied>>
  /\ UNCHANGED <<scanned, wanted, measuring, staging, fetched, pending, outcome, errors>>

\* The dependencies of the tree a scan reads.
Manifests(p) == Pinned[tree[scanned[p]]]

\* discover_dependencies: a manifest nobody can read is a gap.
Discover(p) ==
  /\ pc[p] = "discover"
  /\ \E unread \in SUBSET Manifests(p) :
       /\ outcome' = [outcome EXCEPT ![p] = [d \in Deps |-> IF d \in unread THEN "gap" ELSE @[d]]]
       /\ errors' = [errors EXCEPT ![p] = unread # {}]
       /\ pending' = [pending EXCEPT ![p] = Manifests(p) \ unread]
  /\ pc' = [pc EXCEPT ![p] = "query"]
  /\ UNCHANGED shared
  /\ UNCHANGED <<scanned, wanted, measuring, staging, fetched>>

\* _query: a batch is one dependency here; one that failed, or whose results do
\* not line up with its queries, is a gap.
Query(p) ==
  /\ pc[p] = "query"
  /\ \E unqueried \in SUBSET pending[p] :
       /\ outcome' = [outcome EXCEPT ![p] = [d \in Deps |-> IF d \in unqueried THEN "gap" ELSE @[d]]]
       /\ errors' = [errors EXCEPT ![p] = @ \/ unqueried # {}]
       /\ pending' = [pending EXCEPT ![p] = (@ \ unqueried) \cap Affected]
  /\ pc' = [pc EXCEPT ![p] = "alerts"]
  /\ UNCHANGED shared
  /\ UNCHANGED <<scanned, wanted, measuring, staging, fetched>>

\* JsonCache.get: absent, malformed and expired are all a miss.
Fresh(d) == cache[d].kind \in {"none", "body"} /\ now - cache[d].at <= CacheTtl

\* What an answer makes of an advisory, and its removal from what is pending.
Answered(p, d, kind) ==
  /\ outcome' = [outcome EXCEPT ![p][d] = IF kind = "body" THEN "found" ELSE "no_record"]
  /\ pending' = [pending EXCEPT ![p] = @ \ {d}]

\* OsvClient.fetch, from the cache or from OSV.
FromCache(p, d) ==
  /\ pc[p] = "alerts" /\ d \in pending[p]
  /\ \A e \in Deps : outcome[p][e] # "found"
  /\ Fresh(d)
  /\ Answered(p, d, cache[d].kind)
  /\ UNCHANGED shared
  /\ UNCHANGED <<pc, scanned, wanted, measuring, staging, fetched, errors>>

FromOsv(p, d) ==
  /\ pc[p] = "alerts" /\ d \in pending[p]
  /\ \A e \in Deps : outcome[p][e] # "found"
  /\ ~Fresh(d)
  /\ \E kind \in {"none", "body"} :
       /\ cache' = [cache EXCEPT ![d] = [kind |-> kind, at |-> now]]
       /\ Answered(p, d, kind)
       /\ denied' = IF kind = "none" THEN denied \cup {d} ELSE denied
  /\ UNCHANGED <<now, head, pushes, scans, tree, recorded, newest>>
  /\ UNCHANGED <<pc, scanned, wanted, measuring, staging, fetched, errors>>

\* Variant: a failed request is cached like a 404.
OsvFailureCached(p, d) ==
  /\ pc[p] = "alerts" /\ d \in pending[p]
  /\ \A e \in Deps : outcome[p][e] # "found"
  /\ ~Fresh(d)
  /\ cache' = [cache EXCEPT ![d] = [kind |-> "none", at |-> now]]
  /\ outcome' = [outcome EXCEPT ![p][d] = "gap"]
  /\ pending' = [pending EXCEPT ![p] = @ \ {d}]
  /\ errors' = [errors EXCEPT ![p] = TRUE]
  /\ UNCHANGED <<now, head, pushes, scans, tree, recorded, newest, denied>>
  /\ UNCHANGED <<pc, scanned, wanted, measuring, staging, fetched>>

\* _advisory: an HTTP error or exhausted retries is recorded, and nothing cached.
OsvFails(p, d) ==
  /\ pc[p] = "alerts" /\ d \in pending[p]
  /\ \A e \in Deps : outcome[p][e] # "found"
  /\ ~Fresh(d)
  /\ outcome' = [outcome EXCEPT ![p][d] = "gap"]
  /\ pending' = [pending EXCEPT ![p] = @ \ {d}]
  /\ errors' = [errors EXCEPT ![p] = TRUE]
  /\ UNCHANGED shared
  /\ UNCHANGED <<pc, scanned, wanted, measuring, staging, fetched>>

-----------------------------------------------------------------------------
(* _ingest_one: the alert generator is paused while one is ingested.        *)

\* A fresh row or a replay, for the stages to take up either way.
Ingest(p, d) ==
  /\ pc[p] = "alerts" /\ outcome[p][d] = "found"
  /\ outcome' = [outcome EXCEPT ![p][d] = "ingested"]
  /\ UNCHANGED shared
  /\ UNCHANGED <<pc, scanned, wanted, measuring, staging, fetched, pending, errors>>

\* A feed or the manifest raises: the alert's row fails, the repository goes on.
IngestFails(p, d) ==
  /\ pc[p] = "alerts" /\ outcome[p][d] = "found"
  /\ outcome' = [outcome EXCEPT ![p][d] = "ingest_failed"]
  /\ UNCHANGED shared
  /\ UNCHANGED <<pc, scanned, wanted, measuring, staging, fetched, pending, errors>>

\* The stages ask for the tree of the newest snapshot, whoever recorded it;
\* recon does so whether or not there is an alert.
IngestEnds(p) ==
  /\ pc[p] = "alerts" /\ pending[p] = {}
  /\ \A d \in Deps : outcome[p][d] # "found"
  /\ wanted' = [wanted EXCEPT ![p] = newest]
  /\ measuring' = [measuring EXCEPT ![p] = TRUE]
  /\ \/ pc' = [pc EXCEPT ![p] = "ensure"]
     \/ /\ \A d \in Deps : outcome[p][d] # "ingested"
        /\ pc' = [pc EXCEPT ![p] = "emit"]
  /\ UNCHANGED shared
  /\ UNCHANGED <<scanned, staging, fetched, pending, outcome, errors>>

\* The stages over, with a tree or without, what stays of the scan is its report.
Emit(p) ==
  /\ pc[p] \in {"stages", "emit"}
  /\ pc' = [pc EXCEPT ![p] = "done"]
  /\ wanted' = [wanted EXCEPT ![p] = NoCommit]
  /\ measuring' = [measuring EXCEPT ![p] = FALSE]
  /\ UNCHANGED shared
  /\ UNCHANGED <<scanned, staging, fetched, pending, outcome, errors>>

\* The process is killed, or an exception nothing catches ends it: its staging
\* directory may stay, under a name no other scan will choose, and nothing else of it.
Kill(p) ==
  /\ pc[p] \notin Ended
  /\ Ends(p, "killed")
  /\ UNCHANGED shared

Scan(p) ==
  \/ Cached(p) \/ Stage(p) \/ Fetch(p) \/ CheckOut(p) \/ GitFails(p) \/ Exists(p)
  \/ Replace(p) \/ ReplaceRefused(p) \/ Snapshot(p) \/ Discover(p) \/ Query(p)
  \/ \E d \in Deps : \/ FromCache(p, d) \/ FromOsv(p, d) \/ OsvFails(p, d)
                     \/ Ingest(p, d) \/ IngestFails(p, d)
  \/ IngestEnds(p) \/ Emit(p)

Rest == (\A p \in Scanners : pc[p] \in Ended) /\ UNCHANGED vars

Next == Tick \/ Push \/ Rest \/ \E p \in Scanners : Start(p) \/ Scan(p) \/ Kill(p)

Spec == Init /\ [][Next]_vars /\ \A p \in Scanners : WF_vars(Scan(p))
-----------------------------------------------------------------------------
(* Properties.                                                              *)

\* Every variable has its type; a directory is one a scanner is filling only
\* between its first git command and the rename.
TypeOK ==
  /\ now \in 0..MaxTime /\ pushes \in 0..MaxPushes /\ scans \in 0..MaxScans
  /\ head \in Commits
  /\ recorded \subseteq Commits
  /\ newest \in IF recorded = {} THEN {NoCommit} ELSE recorded
  /\ \A d \in Affected : cache[d].kind \in {"absent", "none", "body"}
                        /\ cache[d].at \in 0..now
  /\ denied \subseteq Affected
  /\ \A p \in Scanners :
       /\ outcome[p] \in [Deps -> Outcomes]
       /\ pending[p] # {} => pending[p] \subseteq Manifests(p)
       /\ pc[p] \in {"fetch", "checkout", "exists", "replace"} => staging[p] # "none"
       /\ pc[p] \in {"exists", "replace"} <=> pc[p] \notin Ended /\ staging[p] = "whole"

\* What another process can find under a commit's name is that commit's whole
\* tree, and under a branch's the whole tree of some commit, wherever the scan
\* that put it there was killed or overtaken; and a scan that reads a tree has one
\* (sources/checkout.py ensure).
TreeIsWhole ==
  /\ \A dir \in Dirs : tree[dir] \in {"none"} \cup Behind(dir)
  /\ \A p \in Scanners :
       pc[p] \in {"snapshot", "discover", "query", "alerts", "stages"} => tree[wanted[p]] \in Commits

\* A tree somebody may be reading is never taken away or replaced by another
\* commit's, whoever else clones into its directory, at whatever time, and however
\* that ends (sources/checkout.py ensure).
EveryTreeStays ==
  [][\A dir \in Dirs : tree[dir] \in Commits => tree'[dir] = tree[dir]]_vars

\* A scan that calls its coverage complete has an alert, ingested or reported as
\* failed, for every affected dependency its tree pins; one it dropped is one OSV
\* itself has no record of.  An outage met by this scan or by an earlier one that
\* shares the cache is never read as "no advisory" (osv_scan.py ScanStats,
\* sources/osv.py fetch, sources/_cache.py).
CoverageIsHonest ==
  \A p \in Scanners : pc[p] = "done" /\ ~errors[p] =>
    \A d \in Manifests(p) \cap Affected :
      \/ outcome[p][d] \in {"ingested", "ingest_failed"}
      \/ outcome[p][d] = "no_record" /\ d \in denied

\* A scan that is not killed ends, whatever git, OSV and the other scans do.
EveryScanEnds ==
  \A p \in Scanners : pc[p] \notin Ended ~> pc[p] \in Ended
=============================================================================
