------------------------------ MODULE Artifact ------------------------------
(***************************************************************************)
(* What a working tree says about a package: the import index              *)
(* (analysis/imports.py) and the set of names whose code is in the build   *)
(* (analysis/shipped.py), for a tree that either can be read or cannot.    *)
(*                                                                         *)
(* A tree is [files, lock, gomod, golist, listed, linked, nested]:         *)
(*   lock    the package graph of the root's package-lock.json, NoGraph    *)
(*           when the file is missing or not a lockfile                    *)
(*   golist  how `go list -deps -e` of the root module ended: "ok",        *)
(*           "partial" (it exits 0 on a module that does not load, -e),    *)
(*           "failed" or "absent"; listed is what it printed               *)
(*   linked  the modules the root module's build really links              *)
(*   nested  what is built under another lockfile or go.mod of the tree,   *)
(*           which neither scan of shipped.py opens                        *)
(* A file is the names it imports and what hides it from a search:         *)
(*   read    the walk reaches it and can open it                           *)
(*   large   above two million bytes                                       *)
(*   suffix  "wide" for .vue, .svelte, .pyi or an upper-case suffix, that  *)
(*           is for what imports.py does not list, otherwise "plain"       *)
(*   form    how it writes the import: "plain"; "compact", without a blank *)
(*           (from"x"); "split", a call over two lines; "open", a call     *)
(*           with a second argument (import("x", {...}))                   *)
(* and, for eval, docs, inside and words.  Module paths are abstracted to  *)
(* names, so a prefix of a name is the name itself.                        *)
(***************************************************************************)
EXTENDS Integers, FiniteSets, Functions

CONSTANTS
  Unknown,   \* None: a fact that was not measured
  NoGraph,   \* the graph of a lockfile that is absent or malformed
  Stdlib     \* the pseudo-module of Go's standard library

\* The names the files of a search import.
Names(files)   == UNION {f.names : f \in files}
AllNames(tree) == Names(tree.files)

\* ImportScanner.scan: its own extensions, case-sensitive, and its own forms.
IndexReads(f) == f.read /\ ~f.large /\ f.suffix = "plain" /\ f.form \in {"plain", "split"}
IndexNames(tree) == Names({f \in tree.files : IndexReads(f)})

\* entry_imports: more suffixes, in lower case, and a laxer form.
EntryReads(f) == f.read /\ ~f.large
EntryNames(tree) == Names({f \in tree.files : EntryReads(f)})

\* build_scanner and supports_package_membership: a Maven coordinate cannot be
\* mapped to the packages a Java file imports, and other ecosystems have no
\* scanner at all.
Scannable(eco) == eco \in {"go", "npm", "pip", "cargo"}

\* ImportIndex.scanned is True whatever was skipped on the way.
ImportIndex(tree) == IF tree = Unknown THEN Unknown ELSE IndexNames(tree)

\* The packages a lockfile's graph speaks of.
Packages(graph) == DOMAIN graph \cup UNION Range(graph)

\* shipped._closure: everything reachable from the seeds the graph knows.
Grow(graph, S) == S \cup UNION {graph[n] : n \in S \cap DOMAIN graph}

Closure(graph, seeds) ==
  LET grown[k \in Nat] == IF k = 0 THEN seeds \cap DOMAIN graph
                          ELSE Grow(graph, grown[k - 1]) IN
  grown[Cardinality(Packages(graph))]

\* Variant: only what is imported by name ships.
NpmNamed(tree) == IF tree.lock = NoGraph THEN Unknown ELSE EntryNames(tree)

\* npm_shipped: no lockfile, no graph, or nothing importable is None.
NpmShipped(tree) ==
  IF tree.lock = NoGraph THEN Unknown
  ELSE LET found == Closure(tree.lock, EntryNames(tree)) IN
       IF found = {} THEN Unknown ELSE found

\* go_shipped: the toolchain's own list, whole or not, with the standard library.
GoShipped(tree) ==
  IF tree.gomod /\ tree.golist \in {"ok", "partial"} THEN tree.listed \cup {Stdlib} ELSE Unknown

ShippedPackages(tree, eco) ==
  IF tree = Unknown THEN Unknown
  ELSE CASE eco = "npm" -> NpmShipped(tree)
         [] eco = "go"  -> GoShipped(tree)
         [] OTHER       -> Unknown

\* The packages no build of the seeds can do without: those in every set that
\* holds the seeds and, with a package, all it requires.
Required(graph, seeds) ==
  {p \in Packages(graph) :
     \A S \in SUBSET Packages(graph) :
       seeds \cap DOMAIN graph \subseteq S /\ Grow(graph, S) \subseteq S => p \in S}

\* What the builds of the tree really hold, whether a scan sees it or not: what
\* any file imports with all the root's lockfile adds to it, or what the linker
\* takes, and what is built beside the root.
TrueArtifact(tree, eco) ==
  tree.nested \cup IF eco = "npm"
                   THEN AllNames(tree) \cup Required(tree.lock, AllNames(tree))
                   ELSE tree.linked \cup {Stdlib}
=============================================================================
