----------------------------- MODULE Workspace -----------------------------
(***************************************************************************)
(* A workspace and the commands that change it (pawrly-cli: source.rs,     *)
(* variables.rs, engine.rs): `source add`, `source remove`, `source        *)
(* connect` and `variables set`, run one at a time by an operator who may  *)
(* interrupt them between two writes or in the middle of one.              *)
(*                                                                         *)
(* files  the workspace's files, path to document                          *)
(* stored the value store: pasted values under ValueKey(id), refresh       *)
(*        tokens under the VarId itself                                    *)
(* env    the environment the next command runs in                         *)
(* cmd    the command in flight                                            *)
(* hurt   what an interruption left behind: a glob without a file          *)
(*        ("removal"), a name used twice because of it ("clash"), or a      *)
(*        file cut short ("torn")                                           *)
(***************************************************************************)
EXTENDS ConfigLoad

CONSTANTS Root,        \* the root manifest
          SourcePath,  \* name -> sources/<name>.yaml
          SourcesGlob, \* the pattern sources/*.yaml
          Workspaces,  \* the workspaces an operator starts from
          Targets,     \* what `source add` is called with
          Web,         \* url or <<kind, name>> -> [status, doc]
          Imports,     \* local files to import, path -> document
          Envs,        \* environments
          Values,      \* what an operator types at a prompt
          VarNames     \* the arguments of `variables set`

VARIABLES files, stored, env, cmd, hurt
vars == <<files, stored, env, cmd, hurt>>

World == [env |-> env, keyring |-> <<>>, keyringState |-> "absent", texts |-> <<>>,
          vars |-> [ok |-> TRUE, m |-> stored]]
Put(f, k, x) == [i \in DOMAIN f \cup {k} |-> IF i = k THEN x ELSE f[i]]
Drop(f, k) == [i \in DOMAIN f \ {k} |-> f[i]]
Idle == [op |-> "idle"]

-----------------------------------------------------------------------------
(* The argument of `source add`. *)

ClassifyTarget(t) ==
  CASE t.form = "url" -> "Url"
    [] t.form = "path" -> "File"
    [] t.form = "kind/name" /\ t.kind \in SourceKinds -> "Catalog"
    [] t.form = "word" /\ t.word \in SourceKinds -> "Kind"
    [] t.form = "word" /\ t.word \notin SourceKinds /\ t.word \in DOMAIN Imports -> "File"
    [] OTHER -> "CatalogProbe"

HasBuildFlags(t) == t.flags # <<>>

\* The flags of an `add <kind>`; --url is base_url for http and url otherwise.
FlagKey(t, k) == IF k = "url" /\ t.word = "http" THEN "base_url" ELSE k
FlagConfig(t) == [k \in {FlagKey(t, f) : f \in DOMAIN t.flags} |->
                    Txt(t.flags[CHOOSE f \in DOMAIN t.flags : FlagKey(t, f) = k])]
BuildSourceDef(t) ==
  IF t.name = "" THEN Err("--name is required")
  ELSE Ok(Obj([k \in {"name", "kind"} \cup (IF t.flags = <<>> THEN {} ELSE {"config"}) |->
                 CASE k = "name" -> Txt(t.name) [] k = "kind" -> Txt(t.word) [] OTHER -> Obj(FlagConfig(t))]))

\* A bare source, or a fragment with exactly one; the rest of the fragment is dropped.
ParseSourceSpec(doc) ==
  IF doc.t = "obj" /\ ~BadSource(doc) THEN Ok(doc)
  ELSE IF doc.t # "obj" \/ NotList(doc, "sources") THEN Err("not a valid source spec")
  ELSE IF \E i \in DOMAIN Items(doc, "sources") : BadSource(Items(doc, "sources")[i])
       THEN Err("not a valid source spec")
  ELSE IF Len(Items(doc, "sources")) # 1 THEN Err("expected one source")
  ELSE Ok(Items(doc, "sources")[1])

LoadSourceFromFile(p) == IF p \in DOMAIN Imports THEN ParseSourceSpec(Imports[p]) ELSE Err("read")

HttpGetText(u) ==
  IF u \notin DOMAIN Web THEN [status |-> 404, doc |-> Null] ELSE Web[u]
Fetched(r) == IF r.status = 200 THEN ParseSourceSpec(r.doc) ELSE Err("HTTP")
FetchSourceFromUrl(u) == Fetched(HttpGetText(u))

\* The folders are probed in order; only a 404 goes on to the next.
CatalogKindProbe == <<"http", "file", "mcp", "openapi">>
FirstAnswer(answers) ==
  IF answers = <<>> THEN Err("no catalog source") ELSE Fetched(answers[1])
FetchSourceFromCatalog(kinds, name) ==
  FirstAnswer(SelectSeq([i \in DOMAIN kinds |-> HttpGetText(<<kinds[i], name>>)], LAMBDA r : r.status # 404))

ImportOf(class, t) ==
  IF class # "Kind" /\ HasBuildFlags(t) THEN Err("build flags with an import")
  ELSE CASE class = "Kind" -> BuildSourceDef(t)
         [] class = "File" -> LoadSourceFromFile(t.word)
         [] class = "Url" -> FetchSourceFromUrl(t.word)
         [] OTHER -> FetchSourceFromCatalog(IF class = "Catalog" THEN <<t.kind>> ELSE CatalogKindProbe, t.word)
\* --name renames an import.
SpecOf(t) ==
  Then(ImportOf(ClassifyTarget(t), t), LAMBDA def : Ok(IF t.name = "" THEN def ELSE With(def, "name", Txt(t.name))))

-----------------------------------------------------------------------------
(* Editing the files. *)

\* build_engine: the config must load; without a manifest an empty workspace.
EngineBuilds == IF Root \in DOMAIN files THEN LoadAutoWithVars(files, Root, World).ok ELSE TRUE

NamesIn(a) == IF a.ok THEN Names(a.v.cfg.sources) ELSE {}
AssembledNames == NamesIn(AssembleConfig(files, Root))
Taken(name) == SourcePath[name] \in DOMAIN files \/ name \in AssembledNames

\* The names in the files themselves, which a config that does not assemble hides.
DeclaredNames == {NameOf(s) : s \in UNION {Range(Items(files[p], "sources")) : p \in DOMAIN files}}

AnySourceFiles(fs) == \E n \in DOMAIN SourcePath : SourcePath[n] \in DOMAIN fs

\* The root as the commands edit it: nothing is interpolated.
StarterConfig == Obj([version |-> Scalar("int", "1"), name |-> Txt("default")])

\* Mutant: the root is read as a load reads it, its references resolved.
ReadOrInitConfig_Loaded(fs) ==
  IF Root \notin DOMAIN fs THEN StarterConfig
  ELSE IF Interpolate(fs[Root], PushAuto(World), World).ok THEN Interpolate(fs[Root], PushAuto(World), World).v
  ELSE fs[Root]

ReadOrInitConfig(fs) == IF Root \in DOMAIN fs THEN fs[Root] ELSE StarterConfig
RootParses(fs) == IF Root \in DOMAIN fs THEN FromValue(fs[Root]).ok ELSE TRUE
Includes(doc) == [i \in DOMAIN Items(doc, "include") |-> Items(doc, "include")[i].v]
Include(doc, patterns) ==
  IF patterns = <<>> THEN Without(doc, {"include"})
  ELSE With(doc, "include", Arr([i \in DOMAIN patterns |-> Txt(patterns[i])]))

WriteSourceFile(fs, name, def) == Put(fs, SourcePath[name], def)

\* What serde_yaml writes of a typed Config: a string keeps its references, a field
\* at its default means the same written or left out, but the kind of a metric, an
\* enum variant with fields, becomes `!ratio {..}`: its fields, the tag under "!".
TaggedKind(m) ==
  IF BadMetric(m) THEN m
  ELSE LET k == CHOOSE k \in MetricKinds : Has(Get(m, "kind"), k)
       IN With(m, "kind", With(At(m, "kind", k), "!", Txt(k)))
Serialized(cfg) ==
  IF MetricsOf(cfg) = <<>> THEN cfg
  ELSE With(cfg, "semantic",
            With(Get(cfg, "semantic"), "metrics", Arr([i \in DOMAIN MetricsOf(cfg) |-> TaggedKind(MetricsOf(cfg)[i])])))
WriteConfigYaml(fs, cfg) == Put(fs, Root, Serialized(cfg))

\* ensure_root_includes_sources_glob: a root that has the glob is not rewritten.
AddGlob(doc) == IF SourcesGlob \in Range(Includes(doc)) THEN doc
                ELSE Include(doc, Append(Includes(doc), SourcesGlob))
EnsureRootIncludesSourcesGlob(fs) ==
  IF Root \in DOMAIN fs /\ SourcesGlob \in Range(Includes(ReadOrInitConfig(fs))) THEN fs
  ELSE WriteConfigYaml(fs, AddGlob(ReadOrInitConfig(fs)))

\* run_remove's second half: the inline entry, and the glob without a file.
GlobsLeft(fs, doc) == IF AnySourceFiles(fs) THEN Includes(doc)
                      ELSE SelectSeq(Includes(doc), LAMBDA i : i # SourcesGlob)
WithoutSource(fs, doc, name) ==
  Include(Listed(doc, "sources", SelectSeq(Items(doc, "sources"), LAMBDA s : NameOf(s) # name)), GlobsLeft(fs, doc))

RemovedFromRoot(fs, name) ==
  IF \/ Root \notin DOMAIN fs
     \/ /\ \A i \in DOMAIN Items(fs[Root], "sources") : NameOf(Items(fs[Root], "sources")[i]) # name
        /\ GlobsLeft(fs, fs[Root]) = Includes(fs[Root])
  THEN fs
  ELSE WriteConfigYaml(fs, WithoutSource(fs, fs[Root], name))

-----------------------------------------------------------------------------
(* source connect: static variables first, then the bindings of a load.    *)

Wants(c, name, done) == IF c.only = {} THEN c.force \/ ~done ELSE name \in c.only
Reports(c) == ~c.offer /\ c.only = {} /\ ~c.force

VarMethods(cfg, own, name) ==
  [manual |-> HasInputMethod(IF Has(own, name) THEN Get(own, name)
                             ELSE IF name \in DOMAIN cfg.variables THEN cfg.variables[name] ELSE Null)]

\* The menu when a value may be pasted instead, a question under `offer`, else OAuth.
ChooseMethod(manual, offer) ==
  IF manual THEN {"Oauth", "Manual", "Skip"} ELSE IF offer THEN {"Oauth", "Skip"} ELSE {"Oauth"}

Connecting(name, only, force, offer, tty, statics) ==
  IF ~statics.ok THEN Idle
  ELSE [op |-> "connect", pc |-> "statics", name |-> name, only |-> only, force |-> force,
        offer |-> offer, tty |-> tty, todo |-> SetToSeq(statics.v), acted |-> 0, ready |-> 0,
        pending |-> 0]
Connect(name, only, force, offer, tty) ==
  Connecting(name, only, force, offer, tty, SourceStaticVars(files, Root, name, World))
Next1(c) == [c EXCEPT !.todo = Tail(@)]
Acted(c) == [Next1(c) EXCEPT !.acted = @ + 1]
Ready(c) == [Next1(c) EXCEPT !.ready = @ + 1]

\* Mutant: a variable that could not be set up is not counted.
Pending_Uncounted(c) == Next1(c)

Pending(c) == [Next1(c) EXCEPT !.pending = @ + 1]

\* One static variable: only a secret is prompted for, and only on a terminal.
ConnectStatic ==
  /\ cmd.op = "connect" /\ cmd.pc = "statics" /\ cmd.todo # <<>>
  /\ LET r == Head(cmd.todo)
     IN \/ /\ ~Wants(cmd, r.name, r.resolves)
           /\ cmd' = IF Reports(cmd) /\ r.resolves THEN Ready(cmd) ELSE Next1(cmd)
           /\ UNCHANGED stored
        \/ /\ Wants(cmd, r.name, r.resolves)
           /\ cmd' = Pending(cmd)
           /\ UNCHANGED stored
        \/ /\ Wants(cmd, r.name, r.resolves) /\ r.kind = "secret" /\ cmd.tty
           /\ cmd' = Acted(cmd)
           /\ \E v \in Values : stored' = Put(stored, ValueKey(r.id), v)
  /\ UNCHANGED <<files, env, hurt>>

\* The load that finds the bindings; a config that does not load has none.
Bindings(cfg, src) ==
  {[name |-> b.name, id |-> b.id, interactive |-> IsInteractive(b.spec),
    manual |-> VarMethods(cfg, Get(src.tree, "variables"), b.name).manual] : b \in src.dynamic_vars}
BindingsIn(l, name) ==
  IF ~l.ok THEN {} ELSE UNION {Bindings(l.v, s) : s \in {s \in Range(l.v.sources) : s.name = name}}
ConnectLoad ==
  /\ cmd.op = "connect" /\ cmd.pc = "statics" /\ cmd.todo = <<>>
  /\ cmd' = [cmd EXCEPT !.pc = "dynamic",
                        !.todo = SetToSeq(BindingsIn(LoadAutoWithVars(files, Root, World), cmd.name))]
  /\ UNCHANGED <<files, stored, env, hurt>>

ConnectDynamic ==
  /\ cmd.op = "connect" /\ cmd.pc = "dynamic" /\ cmd.todo # <<>>
  /\ LET b == Head(cmd.todo)
         done == ~b.interactive \/ b.id \in DOMAIN stored \/ ValueKey(b.id) \in DOMAIN stored
         want == Wants(cmd, b.name, done)
         auto == ~b.interactive /\ ~b.manual
     IN \/ /\ ~want
           /\ cmd' = IF Reports(cmd) /\ done THEN Ready(cmd) ELSE Next1(cmd)
           /\ UNCHANGED stored
        \/ /\ want /\ auto
           /\ cmd' = Ready(cmd)
           /\ UNCHANGED stored
        \/ /\ want /\ ~auto /\ ~cmd.tty
           /\ cmd' = Pending(cmd)
           /\ UNCHANGED stored
        \/ /\ want /\ ~auto /\ cmd.tty
           /\ \E choice \in ChooseMethod(b.manual, cmd.offer) :
                \* a stored literal goes first, whatever becomes of the flow
                \/ /\ choice = "Oauth"
                   /\ cmd' = Acted(cmd)
                   /\ stored' = IF b.interactive THEN Put(Drop(stored, ValueKey(b.id)), b.id, "refresh")
                              ELSE Drop(stored, ValueKey(b.id))
                \/ /\ choice = "Oauth" /\ b.interactive
                   /\ cmd' = Pending(cmd)
                   /\ stored' = Drop(stored, ValueKey(b.id))
                \/ /\ choice = "Manual"
                   /\ cmd' = Acted(cmd)
                   /\ \E v \in Values : stored' = Put(stored, ValueKey(b.id), v)
                \/ /\ choice \in {"Manual", "Skip"}
                   /\ cmd' = Pending(cmd)
                   /\ UNCHANGED stored
  /\ UNCHANGED <<files, env, hurt>>

\* The summary; the command has ended when it leaves this state.
Summary(c) == CASE c.acted + c.ready + c.pending = 0 -> "no variables"
                [] c.pending > 0 -> "still need setup"
                [] c.pending = 0 /\ c.acted > 0 -> "fully set up"
                [] OTHER -> "already set up"
ConnectReport ==
  /\ cmd.op = "connect" /\ cmd.pc = "dynamic" /\ cmd.todo = <<>>
  /\ cmd' = [cmd EXCEPT !.pc = "report"]
  /\ UNCHANGED <<files, stored, env, hurt>>
ConnectEnd ==
  /\ cmd.op = "connect" /\ cmd.pc = "report"
  /\ cmd' = Idle
  /\ UNCHANGED <<files, stored, env, hurt>>

\* run_connect_source
RunConnectSource ==
  /\ cmd = Idle
  /\ Root \in DOMAIN files
  /\ \E only \in {{}} \cup {{v} : v \in VarNames}, force, tty \in BOOLEAN :
       /\ force => only = {}
       /\ \E name \in IF AssembleConfig(files, Root).ok THEN AssembledNames ELSE DOMAIN SourcePath :
            cmd' = Connect(name, only, force, FALSE, tty)
  /\ UNCHANGED <<files, stored, env, hurt>>

-----------------------------------------------------------------------------
(* source add and source remove, one write at a time. *)

\* run_add up to its first write; source_to_engine_def keeps the references as text.
Verifies(def) ==
  EngineBuilds /\ NameOf(def) \notin AssembledNames /\ ValidateEngineSource(TypedSource(def)) = {}
RunAdd ==
  /\ cmd = Idle
  /\ \E noVerify \in BOOLEAN, spec \in {SpecOf(t) : t \in Targets} :
       /\ spec.ok
       /\ NameOf(spec.v) # ""
       /\ ~Taken(NameOf(spec.v))
       /\ noVerify \/ Verifies(spec.v)
       /\ cmd' = [op |-> "add", pc |-> "file", name |-> NameOf(spec.v), def |-> spec.v]
       /\ hurt' = IF hurt = "removal" /\ NameOf(spec.v) \in DeclaredNames THEN "clash" ELSE hurt
  /\ UNCHANGED <<files, stored, env>>

\* Mutant: the glob is wired before a file backs it.
AddWrites_GlobFirst(pc) ==
  IF pc = "file" THEN EnsureRootIncludesSourcesGlob(files) ELSE WriteSourceFile(files, cmd.name, cmd.def)

\* What each of the two writes makes of the files.
AddWrites(pc) ==
  IF pc = "file" THEN WriteSourceFile(files, cmd.name, cmd.def) ELSE EnsureRootIncludesSourcesGlob(files)

AddFile ==
  /\ cmd.op = "add" /\ cmd.pc = "file"
  /\ files' = AddWrites("file")
  /\ cmd' = [cmd EXCEPT !.pc = "root"]
  /\ UNCHANGED <<stored, env, hurt>>

\* The root is wired and the new source offered for setup; a root that does
\* not parse ends the command with the file written.
AddRoot ==
  /\ cmd.op = "add" /\ cmd.pc = "root"
  /\ IF RootParses(files)
     THEN /\ files' = AddWrites("root")
          /\ cmd' = [cmd EXCEPT !.pc = "offer"]
          /\ hurt' = IF hurt = "removal" THEN "no" ELSE hurt
     ELSE /\ cmd' = Idle
          /\ UNCHANGED <<files, hurt>>
  /\ UNCHANGED <<stored, env>>
AddOffer ==
  /\ cmd.op = "add" /\ cmd.pc = "offer"
  /\ \E tty \in BOOLEAN : cmd' = Connect(cmd.name, {}, FALSE, TRUE, tty)
  /\ UNCHANGED <<files, stored, env, hurt>>

\* run_remove: the engine's answer, then the file, then the root.
RunRemove ==
  /\ cmd = Idle
  /\ EngineBuilds
  /\ \E name \in DOMAIN SourcePath : cmd' = [op |-> "remove", pc |-> "file", name |-> name]
  /\ UNCHANGED <<files, stored, env, hurt>>
RemoveFile ==
  /\ cmd.op = "remove" /\ cmd.pc = "file"
  /\ files' = Drop(files, SourcePath[cmd.name])
  /\ cmd' = [cmd EXCEPT !.pc = "root"]
  /\ UNCHANGED <<stored, env, hurt>>
RemoveRoot ==
  /\ cmd.op = "remove" /\ cmd.pc = "root"
  /\ files' = IF RootParses(files) THEN RemovedFromRoot(files, cmd.name) ELSE files
  /\ cmd' = Idle
  /\ UNCHANGED <<stored, env, hurt>>

-----------------------------------------------------------------------------
(* variables set: the root's declaration, else the only source that has it. *)

Settable(def) == ~IsDynamic(def) \/ HasInputMethod(def)
OwnSettable(cfg, name) ==
  {[id |-> <<s.name, name>>, def |-> At(s.tree, "variables", name)] :
     s \in {s \in Range(cfg.sources) : Has(Get(s.tree, "variables"), name)
                                       /\ Settable(At(s.tree, "variables", name))}}
OnlyOne(hits) == IF Cardinality(hits) = 1 THEN Ok(CHOOSE h \in hits : TRUE) ELSE Err("not settable")
FindSettableStatic(cfg, name) ==
  IF name \in DOMAIN cfg.variables /\ Settable(cfg.variables[name])
  THEN Ok([id |-> <<"root", name>>, def |-> cfg.variables[name]])
  ELSE OnlyOne(OwnSettable(cfg, name))

VariablesSet ==
  /\ cmd = Idle
  /\ \E name \in VarNames, v \in Values :
       \E hit \in {Then(AssembleConfig(files, Root), LAMBDA a : FindSettableStatic(a.cfg, name))} :
         /\ hit.ok
         /\ Typed(hit.v.def, v).ok
         /\ stored' = Put(stored, ValueKey(hit.v.id), v)
  /\ UNCHANGED <<files, env, cmd, hurt>>

-----------------------------------------------------------------------------
(* Around the commands. *)

Export ==
  /\ cmd = Idle
  /\ env' \in Envs \ {env}
  /\ UNCHANGED <<files, stored, cmd, hurt>>

\* The process dies between two writes, or in the middle of one (fs::write truncates first).
Interrupt ==
  /\ cmd # Idle
  /\ cmd' = Idle
  /\ \/ /\ hurt' = IF hurt = "no" /\ cmd.op = "remove" /\ cmd.pc = "root" THEN "removal" ELSE hurt
        /\ UNCHANGED files
     \/ /\ \/ /\ cmd.op = "add" /\ cmd.pc = "file"
              /\ files' = Put(files, SourcePath[cmd.name], Null)
           \/ /\ cmd.op \in {"add", "remove"} /\ cmd.pc = "root" /\ RootParses(files)
              /\ \/ cmd.op = "add" /\ AddWrites("root") # files
                 \/ cmd.op = "remove" /\ RemovedFromRoot(files, cmd.name) # files
              /\ files' = Put(files, Root, Null)
        /\ hurt' = "torn"
  /\ UNCHANGED <<stored, env>>

Init ==
  /\ files \in Workspaces
  /\ stored = <<>>
  /\ env \in Envs
  /\ cmd = Idle
  /\ hurt = "no"

Next ==
  \/ RunAdd \/ AddFile \/ AddRoot \/ AddOffer
  \/ RunRemove \/ RemoveFile \/ RemoveRoot
  \/ RunConnectSource \/ ConnectStatic \/ ConnectLoad \/ ConnectDynamic \/ ConnectReport \/ ConnectEnd
  \/ VariablesSet \/ Export \/ Interrupt

Spec == Init /\ [][Next]_vars
-----------------------------------------------------------------------------
(* Properties. *)

\* The declaration a source's reference means: its own block, then the
\* fragments that lead to it from the inside out, then the root.
BlockOf(a, f) == a.frags[CHOOSE j \in DOMAIN a.frags : a.frags[j].file = f].block
Inside(a, src, n, on) ==
  IF Has(Get(src, "variables"), n) THEN [scope |-> NameOf(src), def |-> At(src, "variables", n)]
  ELSE IF on # <<>> THEN [scope |-> on[1], def |-> Get(BlockOf(a, on[1]), n)]
  ELSE [scope |-> "root", def |-> At(a.tree, "variables", n)]
Closest(a, i, n) ==
  Inside(a, Items(a.tree, "sources")[i], n,
         SelectSeq(Reverse(a.chains[i]), LAMBDA f : \E j \in DOMAIN a.frags :
                     a.frags[j].file = f /\ Has(a.frags[j].block, n)))

\* The value it has: pasted, else from the environment, else its default;
\* an OAuth variable without a pasted value stays a reference.
Meant(n, d) ==
  LET pasted == ValueKey(<<d.scope, n>>)
      input == InputKey(n, d.def)
  IN IF pasted \in DOMAIN stored THEN Typed(d.def, stored[pasted]).v
     ELSE IF IsDynamic(d.def) THEN Scalar("var", n)
     ELSE IF input \in DOMAIN env THEN Typed(d.def, env[input]).v
     ELSE Get(d.def, "default")
IsMeant(got, binds, n, d) ==
  /\ got = Meant(n, d)
  /\ got.t = "var" <=> \E b \in binds : b.id = <<d.scope, n>>

\* INVARIANT: whatever was added, removed, connected, set or exported before, a
\* workspace that loads gives every `${var:}` of every source the value its
\* closest declaration has, a pasted one before the environment before the
\* default, and no other source's (variables.rs: resolve_variables and stored_literal).
LoadedAsMeant(a, cfg) ==
  \A i \in DOMAIN cfg.sources : \E raw \in {Get(Items(a.tree, "sources")[i], "config")} :
    raw.t = "obj" => \A k \in {k \in DOMAIN raw.v : raw.v[k].t = "var"} :
      IsMeant(At(cfg.sources[i].tree, "config", k), cfg.sources[i].dynamic_vars, raw.v[k].v,
              Closest(a, i, raw.v[k].v))
LoadedValues ==
  cmd = Idle /\ Root \in DOMAIN files =>
    \A l \in {LoadAutoWithVars(files, Root, World)} : l.ok => LoadedAsMeant(Assemble(files, Root).v, l.v)

\* A root whose metrics were rewritten in the form the loader refuses.
Spoiled(fs) == Root \in DOMAIN fs /\ \E i \in DOMAIN MetricsOf(fs[Root]) : Has(Get(MetricsOf(fs[Root])[i], "kind"), "!")

\* INVARIANT: the files always assemble to a Config, in the middle of a command and
\* after one that was cut off between two writes.  Two exceptions: a removal cut off
\* before the root was rewritten is repaired by adding a source of a new name
\* unverified, and a rewritten root with metrics is spoiled
\* (source.rs: the order of the writes in run_add, the glob in run_remove).
WorkspaceAssembles ==
  LET Repaired(n) == EnsureRootIncludesSourcesGlob(
                       WriteSourceFile(files, n, Obj([name |-> Txt(n), kind |-> Txt("file")])))
      removing == hurt = "removal" \/ (cmd.op = "remove" /\ cmd.pc = "root")
  IN Root \in DOMAIN files /\ hurt \in {"no", "removal"} /\ ~Spoiled(files)
       => \/ AssembleConfig(files, Root).ok
          \/ removing /\ \A n \in DOMAIN SourcePath : ~Taken(n) /\ n \notin DeclaredNames
                           => Spoiled(Repaired(n)) \/ AssembleConfig(Repaired(n), Root).ok

\* PROPERTY: a command that adds or removes a source leaves every other source,
\* the variables and the secret backends of the workspace as they were, references
\* still references, and the metrics but for the form of their kinds
\* (source.rs: read_or_init_config and write_config_yaml).
OthersUntouched ==
  [][LET a == Assemble(files, Root)
         b == Assemble(files', Root)
         Of(x) == {s \in Range(Items(x.v.tree, "sources")) : NameOf(s) # cmd.name}
     IN cmd # Idle /\ a.ok /\ b.ok
          => /\ Of(a) \subseteq Of(b)
             /\ Without(Serialized(a.v.tree), {"sources"}) = Without(Serialized(b.v.tree), {"sources"})]_vars

\* INVARIANT: when a `source connect` of all variables says that nothing is left
\* to do, every static variable of the source has a value, and every interactive
\* OAuth binding of a workspace that loads has its token (source.rs: the counters
\* of connect_source).
ConnectHonest ==
  cmd.op = "connect" /\ cmd.pc = "report" /\ cmd.only = {} /\ ~cmd.offer
    /\ Summary(cmd) \in {"fully set up", "already set up"}
  => /\ \A r \in SourceStaticVars(files, Root, cmd.name, World).v : r.resolves
     /\ \A b \in BindingsIn(LoadAutoWithVars(files, Root, World), cmd.name) : b.interactive => b.id \in DOMAIN stored

=============================================================================
