------------------------------ MODULE MCTriage ------------------------------
(* Small instances of Triage: one alert of each kind, in each of the trees  *)
(* and manifests that could make a rule clear it wrongly.                   *)
EXTENDS Triage, TLC

Old == V(<<1, 2, 0>>)
Fix == V(<<1, 2, 9>>)
Next2 == V(<<2, 0, 0>>)
FixRc == Tagged(<<1, 2, 9>>, <<WordBase>>)

Event(kind, ver, block) == [kind |-> kind, ver |-> ver, block |-> block]

\* Fixed on the 1.x and on the 2.x branch, and on a branch of its own.
Advisory == <<Event("introduced", V(<<0>>), 1), Event("fixed", V(<<1, 0, 0>>), 1),
              Event("introduced", V(<<1, 1, 0>>), 1), Event("fixed", Fix, 1),
              Event("introduced", Next2, 2), Event("fixed", V(<<2, 1, 0>>), 2)>>

Alert(eco, sections) ==
  [eco |-> eco, package |-> "dep", purl |-> "pkg:dep", manifest |-> "manifest", resolved |-> Old, patched |-> Fix,
   scope |-> "unset", direct |-> Unknown, kev |-> FALSE, cvss |-> Unknown,
   symbolsKnown |-> TRUE, origin |-> "dependabot", events |-> <<>>, sections |-> sections]

Manifests ==
  {<<"go", <<"require">>>>, <<"go", <<"indirect">>>>, <<"npm", <<"dev">>>>,
   <<"npm", <<"dev", "dependencies">>>>, <<"npm", <<>>>>, <<"pip", <<"dev-extra">>>>,
   <<"pip", <<"group", "requirements">>>>, <<"pip", <<"requirements">>>>,
   <<"cargo", <<"dev", "dependencies">>>>, <<"cargo", <<"build">>>>,
   <<"cargo", <<"dev", "target">>>>, <<"cargo", <<"target">>>>,
   <<"maven", <<"test">>>>, <<"maven", <<"compile", "test">>>>, <<"docker", <<>>>>}

Listed0 == {Alert(m[1], m[2]) : m \in Manifests}

MCRawAlerts ==
  {[a EXCEPT !.patched = Next2] : a \in Listed0}
  \cup {[a EXCEPT !.symbolsKnown = FALSE, !.patched = Next2] :
           a \in {b \in Listed0 : b.eco \in {"go", "pip"}}}
  \cup {[a EXCEPT !.kev = TRUE, !.cvss = c, !.patched = p] :
           a \in Listed0, c \in {89, 90}, p \in {Old, Next2}}
  \cup {[Alert("npm", <<>>) EXCEPT !.resolved = r, !.patched = p] :
           r \in {Old, Fix, FixRc, Unparsable}, p \in {Old, Fix, FixRc, Next2, Unparsable}}
  \cup {[Alert("npm", <<>>) EXCEPT !.origin = "osv", !.resolved = r, !.events = Advisory] :
           r \in {V(<<0, 9>>), Old, Fix, FixRc, V(<<2, 0, 1>>), V(<<2, 2>>), Unparsable}}

\* A file every search reads, and those one or all of them pass over.
File(names) == [names |-> names, read |-> TRUE, large |-> FALSE, suffix |-> "plain", form |-> "plain"]
Hidden(f) == {[f EXCEPT !.read = FALSE], [f EXCEPT !.large = TRUE], [f EXCEPT !.suffix = "wide"]}
             \cup {[f EXCEPT !.form = w] : w \in {"compact", "split", "open"}}

Tree(files, lock) ==
  [files |-> files, lock |-> lock, gomod |-> FALSE, golist |-> "absent", listed |-> {},
   linked |-> {}, nested |-> {}]
Module(files, linked, golist, listed) ==
  [Tree(files, NoGraph) EXCEPT !.gomod = TRUE, !.golist = golist, !.listed = listed, !.linked = linked]

\* "mid" is imported and needs "deep", which needs "dep"; in Apart nothing needs
\* "dep", and Rooted does not know it.
Chain == [mid |-> {"deep"}, deep |-> {"dep"}, dep |-> {}]
Apart == [mid |-> {"deep"}, deep |-> {}, dep |-> {}]
Rooted == [mid |-> {}]

NpmTrees ==
  {Tree({File({"mid"})}, g) : g \in {Chain, Apart, Rooted, NoGraph}}
  \cup {Tree({File({"mid"}), f}, g) : f \in {File({"dep"})} \cup Hidden(File({"dep"})), g \in {Apart, Rooted}}
  \cup {[Tree({File({"mid"})}, g) EXCEPT !.nested = {"dep"}] : g \in {Apart, Rooted}}
  \cup {Tree({File({})}, Chain), Unknown}
GoTrees ==
  {Module({File({"mid"})}, linked, golist, IF golist = "ok" THEN linked ELSE {"mid"}) :
     linked \in {{"mid"}, {"mid", "dep"}}, golist \in {"ok", "partial", "failed"}}
  \cup {Module({File({"dep"})}, {"mid"}, "ok", {"mid"}),
        [Module({File({"mid"})}, {"mid"}, "ok", {"mid"}) EXCEPT !.nested = {"dep"}], Unknown}
OtherTrees == {Tree({File({})}, NoGraph)}

MCTrees == "go" :> GoTrees @@ "npm" :> NpmTrees @@ "pip" :> OtherTrees
           @@ "cargo" :> OtherTrees @@ "maven" :> OtherTrees @@ "docker" :> OtherTrees
MCTargets == {Unknown, {"service"}, {"service", "manifest"}}
MCSiblings == {{}, {V(<<3>>)}}

NoRun == {[kind |-> k] : k \in {"no_checkout", "raised", "tool_missing"}}
GoRan == [kind : {"ran"}, evaluated : {{}, {"alert"}},
          findings : {{}} \cup {{[of |-> o, frame |-> f, placed |-> TRUE]} :
                                   o \in {"alert", "other"}, f \in {"module", "package", "function"}}]
PipRan == {[kind |-> "ran", imported |-> i, hyphenated |-> FALSE, referenced |-> r,
            called |-> c, dynamic |-> d] : i, r, c, d \in BOOLEAN}

MCOutcomes == "go" :> NoRun \cup GoRan @@ "pip" :> NoRun \cup PipRan @@ "npm" :> NoRun
              @@ "cargo" :> NoRun @@ "maven" :> NoRun @@ "docker" :> NoRun

MCNeighbours ==
  {{}, {[level |-> 0, confidence |-> 0, method |-> "failed", sites |-> FALSE, symbolsKnown |-> TRUE]},
   {[level |-> 4, confidence |-> 95, method |-> "tool", sites |-> TRUE, symbolsKnown |-> TRUE]}}

\* The dismissal that passes everything, and the same with one thing wrong.
Sound == [by |-> "judgment", rule |-> "none", verdict |-> "not_affected", justification |-> TRUE,
          human |-> FALSE, confidence |-> 90, cites |-> "sound"]
MCAnswers ==
  {Sound, [Sound EXCEPT !.verdict = "affected"], [Sound EXCEPT !.justification = FALSE],
   [Sound EXCEPT !.human = TRUE], [Sound EXCEPT !.confidence = 84],
   [Sound EXCEPT !.confidence = 96], [Sound EXCEPT !.cites = "none"],
   [Sound EXCEPT !.cites = "broken"]}
=============================================================================
