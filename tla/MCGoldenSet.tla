---------------------------- MODULE MCGoldenSet ----------------------------
(* Small instances of GoldenSet: two cases out of those whose label and     *)
(* whose prediction come from different facts.                              *)
EXTENDS GoldenSet, TLC

Old == V(<<1, 2, 0>>)
Fix == V(<<1, 2, 9>>)
Event(kind, ver) == [kind |-> kind, ver |-> ver, block |-> 1]
FixedLater == <<Event("introduced", V(<<0>>)), Event("fixed", Fix)>>
FixedOnMajor == <<Event("introduced", V(<<0>>)), Event("fixed", V(<<2, 0>>))>>

File(names) == [names |-> names, words |-> {}, read |-> TRUE, large |-> FALSE, suffix |-> "plain",
                form |-> "plain", docs |-> FALSE, inside |-> TRUE]
Tree(files, lock) ==
  [files |-> files, lock |-> lock, gomod |-> TRUE, golist |-> "failed", listed |-> {},
   linked |-> {}, nested |-> {}]

\* "mid" needs "deep", which needs "dep"; in Apart nothing needs "dep", and Rooted,
\* the root's lockfile, does not know the package of a manifest below it.
Chain == [mid |-> {"deep"}, deep |-> {"dep"}, dep |-> {}]
Apart == [mid |-> {"deep"}, deep |-> {}, dep |-> {}]
Rooted == [mid |-> {}]
\* Under a package whose name begins like a URL.
Proxied == "http-proxy" :> {"dep"} @@ "dep" :> {}
MCHttpLike == {"http-proxy"}

\* The names of a chain of dependents, and "mid" nine and ten requirements away
\* from "dep": the last distance the backward search covers, and the first it does not.
Linked(names) == [n \in Range(names) |->
                    {names[i + 1] : i \in {j \in 1..(Len(names) - 1) : names[j] = n}}]
Near == Linked(<<"mid", "p1", "p2", "p3", "p4", "p5", "p6", "p7", "p8", "dep">>)
Deep == Linked(<<"mid", "p1", "p2", "p3", "p4", "p5", "p6", "p7", "p8", "p9", "dep">>)

Elsewhere == [File({"mid"}) EXCEPT !.inside = FALSE]
Hidden(f) == {[f EXCEPT !.read = FALSE], [f EXCEPT !.large = TRUE], [f EXCEPT !.suffix = "wide"],
              [f EXCEPT !.form = "open"], [f EXCEPT !.form = "split"], [f EXCEPT !.docs = TRUE],
              [f EXCEPT !.inside = FALSE]}
Worded == [File({}) EXCEPT !.words = {"mid"}]
Proxy == File({"http-proxy"})

NpmTrees == {Tree({Elsewhere}, g) : g \in {Chain, Apart, Near, Deep, NoGraph}}
            \cup {Tree({Elsewhere, f}, Apart) : f \in {File({"dep"})} \cup Hidden(File({"dep"}))}
            \cup {Tree({Elsewhere, f}, Rooted) : f \in {[File({"dep"}) EXCEPT !.suffix = "wide"], File({"dep"})}}
            \cup {Tree({File({})}, Chain), Tree({Worded}, Chain),
                  Tree({Proxy}, Proxied), Tree({Proxy, Elsewhere}, Proxied @@ Rooted)}
\* The package itself is the one that begins like a URL.
ProxyTrees == {Tree({Elsewhere, f}, Proxied @@ Rooted) : f \in {Proxy, [Proxy EXCEPT !.suffix = "wide"]}}
Plain(names) == Tree({File(names)}, NoGraph)

Silent == [kind |-> "raised"]
GoRan(findings) == [kind |-> "ran", evaluated |-> {"alert"}, findings |-> findings]
Finding(frame) == [of |-> "alert", frame |-> frame, placed |-> TRUE]
PipRan(imported) == [kind |-> "ran", imported |-> imported, hyphenated |-> FALSE,
                     referenced |-> imported, called |-> FALSE, dynamic |-> FALSE]

Case(name, eco, tree, out) ==
  [name |-> name, advisory |-> "a", eco |-> eco, package |-> "dep", purl |-> "pkg:dep",
   manifest |-> "manifest",
   resolved |-> Old, patched |-> Unparsable, scope |-> "runtime", direct |-> Null, kev |-> FALSE,
   cvss |-> Unknown, symbols |-> TRUE, hit |-> TRUE, events |-> FixedOnMajor, siblings |-> {},
   tree |-> tree, out |-> out]

Wide == Tree({Elsewhere, [File({"dep"}) EXCEPT !.suffix = "wide"]}, Rooted)
Direct == Tree({File({"dep"})}, Apart)

MCCandidates ==
  {Case("x", "npm", t, Silent) : t \in NpmTrees}
  \cup {[Case("x", "npm", t, Silent) EXCEPT !.package = "http-proxy", !.purl = "pkg:http-proxy"] : t \in ProxyTrees}
  \cup {[Case("x", "npm", t, Silent) EXCEPT !.events = FixedLater, !.siblings = v] :
           t \in {Direct, Wide}, v \in {{}, {V(<<3>>)}}}
  \cup {[Case("y", "npm", Direct, Silent) EXCEPT !.symbols = s, !.hit = FALSE] : s \in BOOLEAN}
  \cup {Case(n, "go", Plain({"dep"}), o) :
           n \in {"x", "y"}, o \in {Silent, GoRan({}), GoRan({Finding("package")}), GoRan({Finding("function")})}}
  \cup {Case("y", "pip", Plain({"dep"}), o) :
           o \in {Silent, PipRan(TRUE), PipRan(FALSE)}}
  \cup {[Case("y", e, Plain({}), Silent) EXCEPT !.scope = "development"] : e \in {"cargo", "pip"}}

MCDeepCandidates == {Case("x", "npm", Tree({Elsewhere}, g), Silent) : g \in {Apart, Chain, Near, Deep}}

MCRuleSets == {PolicyYaml, <<"already_fixed", "kev_direct_critical">>,
               <<"superseded", "trivial_patch", "not_imported", "dev_only">>}
=============================================================================
