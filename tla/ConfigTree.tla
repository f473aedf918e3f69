----------------------------- MODULE ConfigTree -----------------------------
(***************************************************************************)
(* Assembling a workspace from its files (pawrly-config/assemble.rs):      *)
(* `include:`, `from:`, `semantic.include:`, and what each file may hold.  *)
(*                                                                         *)
(* A document is a tree: [t |-> "obj", v |-> function], an "arr", or a     *)
(* scalar; a string that is exactly `${kind:NAME}` is the scalar of type   *)
(* kind with the name as its value, any other string a "txt".  Paths are   *)
(* canonical; a glob's candidates, in lexicographic order, are a constant  *)
(* and what it matches depends on the files that exist.                    *)
(***************************************************************************)
EXTENDS Naturals, Sequences, FiniteSets, SequencesExt

CONSTANTS Dir,         \* the directory of a path
          Candidates   \* what a pattern, resolved in a directory, may match

Scalar(t, v) == [t |-> t, v |-> v]
Null == Scalar("null", "")
Txt(s) == Scalar("txt", s)
Obj(f) == [t |-> "obj", v |-> f]
Arr(s) == [t |-> "arr", v |-> s]

Has(j, k) == j.t = "obj" /\ k \in DOMAIN j.v
Get(j, k) == IF Has(j, k) THEN j.v[k] ELSE Null
At(j, k1, k2) == Get(Get(j, k1), k2)
Items(j, k) == IF Get(j, k).t = "arr" THEN Get(j, k).v ELSE <<>>
With(j, k, x) == Obj([i \in DOMAIN j.v \cup {k} |-> IF i = k THEN x ELSE j.v[i]])
Without(j, ks) == Obj([i \in DOMAIN j.v \ ks |-> j.v[i]])
NotList(j, k) == Get(j, k).t \notin {"arr", "null"}
IsText(j) == j.t \in {"txt", "secret", "env", "file", "var"}
NameOf(j) == IF IsText(Get(j, "name")) THEN Get(j, "name").v ELSE "?"

Ok(x) == [ok |-> TRUE, v |-> x, err |-> "none"]
Err(e) == [ok |-> FALSE, v |-> <<>>, err |-> e]

\* `?`, and collecting an iterator of results: the first error, or all the values.
Then(r, F(_)) == IF r.ok THEN F(r.v) ELSE r
FirstBad(rs, bad) == IF bad = 0 THEN Ok([i \in DOMAIN rs |-> rs[i].v]) ELSE rs[bad]
AllOk(rs) == FirstBad(rs, SelectInSeq(rs, LAMBDA r : ~r.ok))

-----------------------------------------------------------------------------
(* Reading and globbing. *)

ReadYaml(files, p) ==
  IF p \notin DOMAIN files THEN Err("ReadFile")
  ELSE IF files[p].t = "garbled" THEN Err("Yaml")
  ELSE Ok(files[p])

Matching(hit) == IF hit = <<>> THEN Err("no files matched") ELSE Ok(hit)
GlobPaths(files, dir, pattern) ==
  Matching(SelectSeq(Candidates[<<dir, pattern>>], LAMBDA p : p \in DOMAIN files))

ParseIncludePatterns(inc) ==
  CASE inc.t = "null" -> Ok(<<>>)
    [] inc.t = "arr" -> IF \A i \in DOMAIN inc.v : IsText(inc.v[i])
                        THEN Ok([i \in DOMAIN inc.v |-> inc.v[i].v])
                        ELSE Err("include entries must be strings")
    [] OTHER -> Err("include must be a list")

-----------------------------------------------------------------------------
(* collect: the content of a file precedes that of the files it includes.  *)
(* `visited` only grows, so a file reached twice counts as a cycle even    *)
(* when it does not include itself.                                        *)

RootOnlyKeys == {"version", "name", "defaults"}

Nothing == [err |-> "none", sources |-> <<>>, secrets |-> <<>>, models |-> <<>>,
            functions |-> <<>>, frags |-> <<>>, visited |-> {}]
Fail(acc, e) == [acc EXCEPT !.err = e]

\* What a file may not hold, in the order the code looks.
Misplaced(doc, root, bare) ==
  LET bad == {k \in IF bare THEN {} ELSE {"sources", "secrets", "functions"} : NotList(doc, k)}
             \cup (IF root \/ ~NotList(doc, "models") THEN {} ELSE {"models"})
      rootOnly == IF root THEN {} ELSE RootOnlyKeys \ (IF bare THEN {"name"} ELSE {})
  IN CASE doc.t # "obj" -> "not a mapping"
       [] doc.t = "obj" /\ \E k \in rootOnly : Has(doc, k) -> "root only"
       [] doc.t = "obj" /\ (\A k \in rootOnly : ~Has(doc, k)) /\ bad # {} -> "must be a list"
       [] OTHER -> ParseIncludePatterns(Get(doc, "include")).err

\* The content of one file: a bare single source, or a fragment's lists.
Lift(doc, path, chain, acc) ==
  LET root == Len(chain) = 1
      bare == ~root /\ Has(doc, "kind")
      Placed(body) == [body |-> body, origin |-> path, chain |-> chain]
      own == IF root THEN <<>> ELSE Items(doc, "models")
      keepsVars == ~root /\ ~bare /\ Get(doc, "variables").t # "null"
  IN [acc EXCEPT
        !.models = @ \o own,
        !.sources = @ \o (IF bare THEN <<Placed(Without(doc, {"models", "include"}))>>
                          ELSE [i \in DOMAIN Items(doc, "sources") |-> Placed(Items(doc, "sources")[i])]),
        !.secrets = @ \o (IF bare THEN <<>> ELSE Items(doc, "secrets")),
        !.functions = @ \o (IF bare THEN <<>> ELSE Items(doc, "functions")),
        !.frags = IF keepsVars THEN Append(@, [file |-> path, block |-> Get(doc, "variables")]) ELSE @]

RECURSIVE Collect(_, _, _, _, _)
Collect(files, path, doc, chain, acc) ==
  LET bad == Misplaced(doc, Len(chain) = 1, Len(chain) > 1 /\ Has(doc, "kind"))
      Included(a, p) ==
        IF a.err # "none" THEN a
        ELSE IF p \in a.visited THEN Fail(a, "IncludeCycle")
        ELSE LET y == ReadYaml(files, p)
             IN IF ~y.ok THEN Fail(a, y.err)
                ELSE Collect(files, p, y.v, Append(chain, p), [a EXCEPT !.visited = @ \cup {p}])
      Matched(a, pattern) ==
        IF a.err # "none" THEN a
        ELSE LET g == GlobPaths(files, Dir[path], pattern)
             IN IF g.ok THEN FoldLeft(Included, a, g.v) ELSE Fail(a, g.err)
  IN IF bad # "none" THEN Fail(acc, bad)
     ELSE FoldLeft(Matched, Lift(doc, path, chain, acc), ParseIncludePatterns(Get(doc, "include")).v)

-----------------------------------------------------------------------------
(* `from:` and the merge of two mappings: the overlay wins, lists and      *)
(* scalars replace wholesale.                                              *)

RECURSIVE DeepMerge(_, _)
DeepMerge(base, over) ==
  IF base.t = "obj" /\ over.t = "obj"
  THEN Obj([k \in DOMAIN base.v \cup DOMAIN over.v |->
              IF ~Has(over, k) THEN base.v[k]
              ELSE IF ~Has(base, k) THEN over.v[k]
              ELSE DeepMerge(base.v[k], over.v[k])])
  ELSE over

ExpandFrom(files, s) ==
  IF ~Has(s.body, "from") THEN Ok(s.body)
  ELSE IF ~IsText(Get(s.body, "from")) THEN Err("from must be a path")
  ELSE Then(ReadYaml(files, Candidates[<<Dir[s.origin], Get(s.body, "from").v>>][1]), LAMBDA base :
         IF base.t # "obj" THEN Err("from must be a mapping")
         ELSE IF \E k \in {"name", "kind"} : Has(base, k) THEN Err("from target sets name or kind")
         ELSE IF Has(base, "from") THEN Err("from is not transitive")
         ELSE Ok(DeepMerge(base, Without(s.body, {"from"}))))

-----------------------------------------------------------------------------
(* The merged tree. *)

SomeTwice(s) == \E i, j \in DOMAIN s : i < j /\ s[i] = s[j]
Keys(keys) == SelectSeq(keys, LAMBDA k : k # <<>>)
NameKey(j) == IF IsText(Get(j, "name")) THEN <<Get(j, "name").v>> ELSE <<>>

\* A model-only file: a list, or a mapping whose one key is `models`.
LoadModelFile(files, p) ==
  Then(ReadYaml(files, p), LAMBDA doc :
    CASE doc.t = "arr" -> Ok(doc.v)
      [] doc.t = "obj" -> IF DOMAIN doc.v \ {"models"} # {} THEN Err("only models")
                          ELSE IF NotList(doc, "models") THEN Err("must be a list")
                          ELSE Ok(Items(doc, "models"))
      [] OTHER -> Err("only models"))

ModelsIn(files, matched) ==
  Then(AllOk([i \in DOMAIN matched |-> LoadModelFile(files, matched[i])]), LAMBDA models : Ok(FlattenSeq(models)))
ModelFiles(files, matched) == IF ~matched.ok THEN matched ELSE ModelsIn(files, FlattenSeq(matched.v))

\* Inline models, then the model files in glob order, then the fragments' models.
PlaceModels(tree, sem, models) ==
  IF SomeTwice(Keys([i \in DOMAIN models |-> NameKey(models[i])])) THEN Err("duplicate model")
  ELSE IF sem.t \notin {"obj", "null"} THEN Err("semantic must be a mapping")
  ELSE Ok(With(tree, "semantic", With(IF sem.t = "obj" THEN Without(sem, {"include"}) ELSE Obj(<<>>),
                                      "models", Arr(models))))
SemanticPatterns(sem) == IF sem.t = "obj" THEN ParseIncludePatterns(Get(sem, "include")) ELSE Ok(<<>>)
AllModels(tree, sem, loaded, fragmentModels) ==
  IF ~loaded.ok THEN loaded ELSE PlaceModels(tree, sem, Items(sem, "models") \o loaded.v \o fragmentModels)
AssembleSemanticModels(files, root, tree, sem, patterns, fragmentModels) ==
  IF ~patterns.ok THEN patterns
  ELSE IF patterns.v = <<>> /\ fragmentModels = <<>>
  THEN Ok(IF sem.t = "obj" THEN With(tree, "semantic", Without(sem, {"include"})) ELSE tree)
  ELSE AllModels(tree, sem,
                 ModelFiles(files, AllOk([i \in DOMAIN patterns.v |-> GlobPaths(files, Dir[root], patterns.v[i])])),
                 fragmentModels)

FunctionKey(f) == IF IsText(Get(f, "namespace")) /\ IsText(Get(f, "name"))
                  THEN <<Get(f, "namespace").v, Get(f, "name").v>> ELSE <<>>

Listed(tree, k, items) == IF items = <<>> THEN Without(tree, {k}) ELSE With(tree, k, Arr(items))
Merged(doc, all, sources) ==
  Listed(Listed(With(Without(doc, {"include"}), "sources", Arr(sources)), "secrets", all.secrets),
         "functions", all.functions)

\* The result: the tree, and of each of its sources the file and the include chain.
Assembled(all, tree) ==
  IF ~tree.ok THEN tree
  ELSE Ok([tree |-> tree.v, frags |-> all.frags,
           origins |-> [i \in DOMAIN all.sources |-> all.sources[i].origin],
           chains |-> [i \in DOMAIN all.sources |-> all.sources[i].chain]])
AssembleAll(files, root, doc, all, sources) ==
  IF ~sources.ok THEN sources
  ELSE IF SomeTwice(Keys([i \in DOMAIN sources.v |-> NameKey(sources.v[i])])) THEN Err("duplicate source")
  ELSE IF SomeTwice(Keys([i \in DOMAIN all.functions |-> FunctionKey(all.functions[i])])) THEN Err("duplicate function")
  ELSE Assembled(all, AssembleSemanticModels(files, root, Merged(doc, all, sources.v), Get(doc, "semantic"),
                                             SemanticPatterns(Get(doc, "semantic")), all.models))
AssembleCollected(files, root, doc, all) ==
  IF all.err # "none" THEN Err(all.err)
  ELSE AssembleAll(files, root, doc, all,
                   AllOk([i \in DOMAIN all.sources |-> ExpandFrom(files, all.sources[i])]))
AssembleRoot(files, root, doc) ==
  IF ~doc.ok THEN doc
  ELSE AssembleCollected(files, root, doc.v,
                         Collect(files, root, doc.v, <<root>>, [Nothing EXCEPT !.visited = {root}]))
Assemble(files, root) == AssembleRoot(files, root, ReadYaml(files, root))
=============================================================================
