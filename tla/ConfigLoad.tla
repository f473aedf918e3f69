----------------------------- MODULE ConfigLoad -----------------------------
(***************************************************************************)
(* From the assembled tree to a Config (pawrly-config: loader.rs,          *)
(* interpolate.rs, secrets.rs, variables.rs, types.rs; pawrly-secrets:     *)
(* the secret stores).  Pass A replaces `${secret:}`, `${env:}` and        *)
(* `${file:}`; pass B resolves each source's `${var:}` in its scope, a     *)
(* dynamic (OAuth) variable becoming a binding instead of a value.         *)
(*                                                                         *)
(* A world w is what a load reads beside the files of the workspace: env   *)
(* and keyring (functions), texts (the files `${file:}` and `file:`        *)
(* backends name) and vars, the value store, [ok, m] with m a function of  *)
(* the keys; ~ok is a store that cannot be read.  A VarId is               *)
(* <<scope, name>>, the key of its pasted value <<"value", scope, name>>.  *)
(***************************************************************************)
EXTENDS ConfigRules, ConfigTree

-----------------------------------------------------------------------------
(* Secrets: an ordered chain of backends, the first hit wins. *)

None == Scalar("none", "")
Lookup(m, k) == IF k \in DOMAIN m THEN Ok(Txt(m[k])) ELSE Ok(None)

\* KeyringStore::get: an unreachable keyring is a miss, any other failure an error.
KeyringGet(w, name) ==
  CASE w.keyringState = "broken" -> Err("Io")
    [] w.keyringState = "absent" -> Ok(None)
    [] OTHER -> Lookup(w.keyring, name)

BackendGet(b, w, name) ==
  CASE b.kind = "env" -> Lookup(w.env, name)
    [] b.kind = "keyring" -> KeyringGet(w, name)
    [] OTHER -> Lookup(b.map, name)

LayeredGet(store, w, name) ==
  FoldLeft(LAMBDA r, b : IF r.ok /\ r.v.t = "none" THEN BackendGet(b, w, name) ELSE r, Ok(None), store)

\* FileStore: owner-only, and text of the format it is read as; a dotenv
\* reader skips the lines that are no assignment.
FileFormat(b, f) == IF Has(b, "format") /\ Get(b, "format").v # "auto" THEN Get(b, "format").v ELSE f.suffix
ReadSecrets(f, format) ==
  IF ~f.ownerOnly THEN Err("InsecureSecretsFile")
  ELSE IF format = f.syntax THEN Ok(f.map)
  ELSE IF format = "dotenv" THEN Ok(<<>>) ELSE Err("ReadFile")
LoadSecretsFile(w, path, def) ==
  IF path \notin DOMAIN w.texts THEN Err("ReadFile")
  ELSE ReadSecrets(w.texts[path], FileFormat(def, w.texts[path]))

FileBackend(map) == Ok(<<[kind |-> "file", map |-> map]>>)
PushAuto(w) ==
  <<[kind |-> "env"], [kind |-> "keyring"]>>
    \o Then(LoadSecretsFile(w, ".env", Obj([format |-> Txt("dotenv")])), FileBackend).v

BackendFor(def, w) ==
  CASE Get(def, "kind").v = "auto" -> Ok(PushAuto(w))
    [] Get(def, "kind").v = "file" ->
         Then(LoadSecretsFile(w, Get(def, "path").v, def), FileBackend)
    [] Get(def, "kind").v \in {"env", "keyring"} -> Ok(<<[kind |-> Get(def, "kind").v]>>)
    [] OTHER -> Err("Schema")

BuildStore(defs, w) ==
  IF defs = <<>> THEN Ok(PushAuto(w))
  ELSE Then(AllOk([i \in DOMAIN defs |-> BackendFor(defs[i], w)]), LAMBDA built : Ok(FlattenSeq(built)))

\* secret_store: the chain of the file's own `secrets:` block.
StoreOf(a, w) == IF ~a.ok THEN a ELSE BuildStore(Items(a.v.tree, "secrets"), w)

-----------------------------------------------------------------------------
(* Pass A.  Every reference of the tree must resolve, so which one fails   *)
(* first does not matter.                                                  *)

RECURSIVE Scalars(_)
Scalars(j) ==
  CASE j.t = "obj" -> UNION {Scalars(j.v[k]) : k \in DOMAIN j.v}
    [] j.t = "arr" -> UNION {Scalars(j.v[i]) : i \in DOMAIN j.v}
    [] OTHER -> {j}

RECURSIVE Replaced(_, _)
Replaced(j, by) ==
  CASE j.t = "obj" -> Obj([k \in DOMAIN j.v |-> Replaced(j.v[k], by)])
    [] j.t = "arr" -> Arr([i \in DOMAIN j.v |-> Replaced(j.v[i], by)])
    [] OTHER -> by[j]

\* resolve_one; the content of a file is its text, trimmed.
Found(v, e) == IF v.t = "none" THEN Err(e) ELSE Ok(v)
ResolveOne(j, store, w) ==
  CASE j.t = "secret" -> Then(LayeredGet(store, w, j.v), LAMBDA v : Found(v, "UnresolvedSecret"))
    [] j.t = "env" -> IF j.v \in DOMAIN w.env THEN Ok(Txt(w.env[j.v])) ELSE Err("UnresolvedEnv")
    [] j.t = "file" -> IF j.v \in DOMAIN w.texts THEN Ok(Txt(w.texts[j.v].text)) ELSE Err("ReadFile")
    [] OTHER -> Ok(j)

\* A function of results: some error, or the values.
EachOk(r) == IF \A s \in DOMAIN r : r[s].ok THEN Ok([s \in DOMAIN r |-> r[s].v])
             ELSE r[CHOOSE s \in DOMAIN r : ~r[s].ok]
Interpolate(j, store, w) ==
  Then(EachOk([s \in Scalars(j) |-> ResolveOne(s, store, w)]), LAMBDA by : Ok(Replaced(j, by)))

-----------------------------------------------------------------------------
(* Declarations. *)

DefKeys == {"kind", "type", "default", "choices", "required", "description", "methods", "oauth", "input"}
Reserved == {"__pawrly_x"}                       \* names with the reserved prefix
CredentialLike == {"API_TOKEN", "CLIENT_SECRET"} \* names that look like a credential

OauthBodies(def) == (IF Has(def, "oauth") THEN <<Get(def, "oauth")>> ELSE <<>>)
                      \o SelectSeq(Items(def, "methods"), LAMBDA m : Get(m, "type").v = "oauth")
IsDynamic(def) == OauthBodies(def) # <<>>
InputMethods(def) == SelectSeq(Items(def, "methods"), LAMBDA m : Get(m, "type").v = "input")
HasInputMethod(def) == Has(def, "input") \/ InputMethods(def) # <<>>
NamedInput(named, name) == IF named # <<>> THEN Get(named[1], "input").v ELSE name
InputKey(name, def) ==
  IF Has(def, "input") THEN Get(def, "input").v
  ELSE NamedInput(SelectSeq(InputMethods(def), LAMBDA m : Has(m, "input")), name)
VarType(def) == IF Has(def, "type") THEN Get(def, "type").v ELSE "string"
Required(def) == ~Has(def, "required") \/ Get(def, "required").v = "true"

Accepts(ty, j) ==
  CASE ty = "string" -> IsText(j)
    [] ty = "integer" -> j.t = "int"
    [] ty = "number" -> j.t \in {"int", "flt"}
    [] ty = "boolean" -> j.t = "bool"
    [] OTHER -> TRUE

ValidateVarType(name, def, choices) ==
  IF VarType(def) = "enum"
  THEN Rule(choices = <<>>, name, "enum needs choices")
         \cup Rule(Has(def, "default") /\ Get(def, "default") \notin Range(choices), name, "default not a choice")
  ELSE Rule(choices # <<>>, name, "choices without enum")
         \cup Rule(Has(def, "default") /\ ~Accepts(VarType(def), Get(def, "default")), name, "default type")

ValidateDef(name, def) ==
  Rule(name \in Reserved, name, "reserved prefix")
    \cup Rule(Items(def, "methods") # <<>> /\ (Has(def, "oauth") \/ Has(def, "input")), name, "methods and shorthand")
    \cup (IF Get(def, "kind").v = "secret"
          THEN Rule(\E k \in {"default", "type"} : Has(def, k), name, "secrets are opaque")
                 \cup Rule(Items(def, "choices") # <<>>, name, "secrets are opaque")
          ELSE Rule(name \in CredentialLike, name, "looks like a credential")
                 \cup Rule(IsDynamic(def), name, "oauth needs a secret")
                 \cup ValidateVarType(name, def, Items(def, "choices")))

\* A scope is a function from names to [def, scope].
ParseBlock(block, scope) ==
  IF block.t # "obj" THEN Err("not a mapping")
  ELSE IF \E n \in DOMAIN block.v :
            \/ block.v[n].t # "obj"
            \/ DOMAIN block.v[n].v \ DefKeys # {}
            \/ Get(block.v[n], "kind").v \notin {"variable", "secret"}
            \/ ValidateDef(n, block.v[n]) # {}
       THEN Err("Variable")
       ELSE Ok([n \in DOMAIN block.v |-> [def |-> block.v[n], scope |-> scope]])

MergeInto(base, over) ==
  [n \in DOMAIN base \cup DOMAIN over |-> IF n \in DOMAIN over THEN over[n] ELSE base[n]]

OwnScope(src) == IF Has(src, "variables") THEN ParseBlock(Get(src, "variables"), NameOf(src)) ELSE Ok(<<>>)

\* Mutant: the blocks are merged outermost last.
SourceScope_OuterWins(src, chain, global, frags) ==
  Then(OwnScope(src), LAMBDA own :
    Ok(MergeInto(FoldRight(LAMBDA f, acc : MergeInto(acc, f.scope),
                           SelectSeq(frags, LAMBDA f : f.file \in Range(chain)), own), global)))

\* global, then the fragments along the include chain, then the source's own block.
SourceScope(src, chain, global, frags) ==
  Then(OwnScope(src), LAMBDA own :
    Ok(MergeInto(FoldLeft(LAMBDA acc, f : MergeInto(acc, f.scope), global,
                          FlattenSeq([i \in DOMAIN chain |-> SelectSeq(frags, LAMBDA f : f.file = chain[i])])), own)))

-----------------------------------------------------------------------------
(* Values. *)

IntTexts == {"0", "1", "50"}
FltTexts == {"1.5"}
TrueTexts == {"true", "1", "yes", "on"}
FalseTexts == {"false", "0", "no", "off"}

FirstOf(hits) == IF hits # <<>> THEN Ok(hits[1]) ELSE Err("Variable")
CoerceStr(ty, choices, raw) ==
  CASE ty = "string" -> Ok(Txt(raw))
    [] ty = "integer" -> IF raw \in IntTexts THEN Ok(Scalar("int", raw)) ELSE Err("Variable")
    [] ty = "number" -> IF raw \in IntTexts THEN Ok(Scalar("int", raw))
                        ELSE IF raw \in FltTexts THEN Ok(Scalar("flt", raw)) ELSE Err("Variable")
    [] ty = "boolean" -> IF raw \in TrueTexts THEN Ok(Scalar("bool", "true"))
                         ELSE IF raw \in FalseTexts THEN Ok(Scalar("bool", "false")) ELSE Err("Variable")
    [] OTHER -> FirstOf(SelectSeq(choices, LAMBDA c : c.v = raw))

ValueKey(id) == <<"value">> \o id
StoredLiteral(w, id) ==
  IF ~w.vars.ok THEN Err("Io")
  ELSE IF ValueKey(id) \in DOMAIN w.vars.m THEN Ok(Txt(w.vars.m[ValueKey(id)])) ELSE Ok(None)

\* A static variable: the stored value, then its input, then its default.
Typed(def, raw) == CoerceStr(VarType(def), Items(def, "choices"), raw)
Unset(def) == IF Required(def) THEN Err("Variable") ELSE Ok(Null)
ResolveSecretValue(def, stored, input) ==
  IF stored.t # "none" THEN Ok(stored)
  ELSE IF ~input.ok \/ input.v.t # "none" THEN input ELSE Unset(def)
ResolvePlainValue(def, stored, input, w) ==
  IF stored.t # "none" THEN Typed(def, stored.v)
  ELSE IF input \in DOMAIN w.env THEN Typed(def, w.env[input])
  ELSE IF Has(def, "default") THEN Ok(Get(def, "default"))
  ELSE Unset(def)
ResolveFrom(def, stored, input, store, w) ==
  IF ~stored.ok THEN stored
  ELSE IF Get(def, "kind").v = "secret" THEN ResolveSecretValue(def, stored.v, LayeredGet(store, w, input))
  ELSE ResolvePlainValue(def, stored.v, input, w)
ResolveValue(name, x, store, w) ==
  ResolveFrom(x.def, StoredLiteral(w, <<x.scope, name>>), InputKey(name, x.def), store, w)

-----------------------------------------------------------------------------
(* The OAuth method of a dynamic variable.  An endpoint is a "txt" whose   *)
(* value is "https", "loopback" or "plain"; a redirect URI a "uri" whose   *)
(* value is its port, 0 for none.                                          *)

DiscoveryUrlOk(u) == u.v \in {"https", "loopback"}

\* The client id or secret: `input` before `default`.
ClientInput(field, isSecret, store, w) ==
  IF ~IsText(Get(field, "input")) THEN Ok(None)
  ELSE IF isSecret THEN LayeredGet(store, w, Get(field, "input").v)
  ELSE Lookup(w.env, Get(field, "input").v)
ResolveClientField(field, isSecret, store, w) ==
  CASE field.t = "null" -> Ok(None)
    [] IsText(field) -> Ok(field)
    [] field.t = "obj" -> Then(ClientInput(field, isSecret, store, w), LAMBDA v :
                            IF v.t # "none" THEN Ok(v)
                            ELSE IF IsText(Get(field, "default")) THEN Ok(Get(field, "default"))
                            ELSE Err("Variable"))
    [] OTHER -> Err("Variable")

\* The port of the URI or the explicit one, which must agree.
PortMode(mode, port, uri) ==
  IF mode \notin {"fixed", "random"} \/ (mode = "fixed" /\ port = 0) THEN Err("Variable")
  ELSE Ok([mode |-> mode, port |-> IF mode = "fixed" THEN port ELSE uri])
ModeOf(mode, port) == IF IsText(mode) THEN mode.v ELSE IF port # 0 THEN "fixed" ELSE "random"
RedirectPort(uri, port, mode) ==
  IF \/ uri.t # "uri"
     \/ port.t # "null" /\ (port.t # "port" \/ port.v \notin 1..65535)
     \/ port.t # "null" /\ uri.v # 0 /\ port.v # uri.v
  THEN Err("Variable")
  ELSE IF port.t = "null" THEN PortMode(ModeOf(mode, uri.v), uri.v, uri.v)
  ELSE PortMode(ModeOf(mode, port.v), port.v, uri.v)
ResolveRedirect(r) == RedirectPort(Get(r, "uri"), Get(r, "port"), Get(r, "port_mode"))

Transport(oauth) ==
  IF Get(At(oauth, "client", "secret"), "transport").v = "basic_auth" THEN "basic_auth" ELSE "request_body"

\* The endpoints a grant needs unless discovery supplies them.
NeededEndpoints(grant) ==
  CASE grant = "client_credentials" -> {"token_url"}
    [] grant = "device_code" -> {"device_authorization_url", "token_url"}
    [] OTHER -> {"authorization_url", "token_url"}

BadOauth(grant, eps) ==
  \/ Has(eps, "discovery") /\ ~DiscoveryUrlOk(Get(eps, "discovery"))
  \/ grant \notin {"client_credentials", "device_code", "authorization_code"}
  \/ ~Has(eps, "discovery") /\ \E k \in NeededEndpoints(grant) : ~Has(eps, k)
OauthSpec(oauth, grant, redirect, id, secret) ==
  IF ~redirect.ok THEN redirect
  ELSE IF ~id.ok THEN id
  ELSE IF id.v.t = "none" THEN Err("Variable")
  ELSE IF ~secret.ok THEN secret
  ELSE IF grant = "client_credentials" /\ secret.v.t = "none" THEN Err("Variable")
  ELSE Ok([grant |-> grant, endpoints |-> Get(oauth, "endpoints"), id |-> id.v.v, secret |-> secret.v,
           redirect |-> redirect.v, pkce |-> At(oauth, "grant", "pkce").v # "disabled",
           transport |-> Transport(oauth)])
BuildDynamicSpec(oauth, grant, store, w) ==
  IF BadOauth(grant, Get(oauth, "endpoints")) THEN Err("Variable")
  ELSE OauthSpec(oauth, grant,
                 IF grant = "authorization_code" THEN ResolveRedirect(Get(oauth, "redirect")) ELSE Ok(None),
                 ResolveClientField(At(oauth, "client", "id"), FALSE, store, w),
                 ResolveClientField(At(oauth, "client", "secret"), TRUE, store, w))
IsInteractive(spec) == spec.grant # "client_credentials"

-----------------------------------------------------------------------------
(* Pass B. *)

\* One `${var:NAME}`: the value it becomes, and the binding it leaves.
Value(v) == Ok([value |-> v, binds |-> {}])
Binding(j, id, spec) ==
  IF ~spec.ok THEN spec ELSE Ok([value |-> j, binds |-> {[name |-> j.v, id |-> id, spec |-> spec.v]}])
DynamicRef(j, id, stored, oauth, store, w) ==
  IF ~stored.ok THEN stored
  ELSE IF stored.v.t # "none" THEN Value(stored.v)
  ELSE Binding(j, id, BuildDynamicSpec(oauth, At(oauth, "grant", "type").v, store, w))
ResolveDynamic(j, x, id, store, w) ==
  DynamicRef(j, id, StoredLiteral(w, id), OauthBodies(x.def)[1], store, w)
ResolveRef(j, scope, store, w) ==
  IF j.t # "var" THEN Value(j)
  ELSE IF j.v \notin DOMAIN scope THEN Err("Variable")
  ELSE IF IsDynamic(scope[j.v].def)
  THEN ResolveDynamic(j, scope[j.v], <<scope[j.v].scope, j.v>>, store, w)
  ELSE Then(ResolveValue(j.v, scope[j.v], store, w), Value)

\* The source's own `variables:` block is not looked into.
KeepBlock(src, body) == IF Has(src, "variables") THEN With(body, "variables", Get(src, "variables")) ELSE body
ResolveRefs(src, body, scope, store, w) ==
  Then(EachOk([s \in Scalars(body) |-> ResolveRef(s, scope, store, w)]), LAMBDA r :
    Ok([body |-> KeepBlock(src, Replaced(body, [s \in DOMAIN r |-> r[s].value])),
        binds |-> UNION {r[s].binds : s \in DOMAIN r}]))

\* collect_static_refs: the same references, none of them resolved into the tree.
CollectStaticRefs(src, scope, store, w) ==
  {[name |-> n, id |-> <<scope[n].scope, n>>, kind |-> Get(scope[n].def, "kind").v,
    resolves |-> ResolveValue(n, scope[n], store, w).ok] :
     n \in {s.v : s \in {s \in Scalars(Without(src, {"variables"})) :
                           s.t = "var" /\ s.v \in DOMAIN scope /\ ~IsDynamic(scope[s.v].def)}}}

\* The scopes of a tree whose pass A is done: its global block and its fragments.
FileScope(file, scope) == IF ~scope.ok THEN scope ELSE Ok([file |-> file, scope |-> scope.v])
ParseFrag(file, block) == IF ~block.ok THEN block ELSE FileScope(file, ParseBlock(block.v, file))
FragScope(frag, store, w) == ParseFrag(frag.file, Interpolate(frag.block, store, w))
BothScopes(global, frags) ==
  IF ~global.ok THEN global
  ELSE IF ~frags.ok THEN frags ELSE Ok([global |-> global.v, frags |-> frags.v])
Scopes(tree, frags, store, w) ==
  BothScopes(IF Has(tree, "variables") THEN ParseBlock(Get(tree, "variables"), "root") ELSE Ok(<<>>),
             AllOk([i \in DOMAIN frags |-> FragScope(frags[i], store, w)]))

ResolveIn(src, scope, store, w) ==
  IF ~scope.ok THEN scope ELSE ResolveRefs(src, Without(src, {"variables"}), scope.v, store, w)
ResolveSource(src, chain, scopes, store, w) ==
  ResolveIn(src, SourceScope(src, chain, scopes.global, scopes.frags), store, w)
ResolveVariables(sources, chains, scopes, store, w) ==
  AllOk([i \in DOMAIN sources |->
           ResolveSource(sources[i], IF i \in DOMAIN chains THEN chains[i] ELSE <<>>, scopes, store, w)])

-----------------------------------------------------------------------------
(* The typed Config. *)

ConfigKeys == {"version", "name", "defaults", "secrets", "include", "variables", "sources", "functions",
               "semantic", "observability"}
SourceKeys == {"name", "kind", "description", "wiki", "examples", "from", "variables", "config", "cache",
               "safety", "tables", "functions", "raw_table", "raw_table_safety"}
SourceKinds == {"file", "http", "sqlite", "postgres", "mysql", "duckdb", "snowflake", "iceberg", "ducklake",
                "delta", "mcp", "openapi"}

Texts(j) == IF j.t # "obj" THEN <<>>
            ELSE [k \in DOMAIN j.v |-> IF IsText(j.v[k]) THEN j.v[k].v ELSE NotText]

BadSource(j) == \/ j.t # "obj"
                \/ DOMAIN j.v \ SourceKeys # {}
                \/ ~IsText(Get(j, "name"))
                \/ Get(j, "kind").v \notin SourceKinds
TypedSource(j) ==
  [name |-> Get(j, "name").v, kind |-> Get(j, "kind").v, config |-> Texts(Get(j, "config")), url |-> {},
   raw_table |-> Get(j, "raw_table").v = "true", functions |-> <<>>,
   tables |-> [i \in DOMAIN Items(j, "tables") |-> [name |-> NameOf(Items(j, "tables")[i]),
                                                    body |-> Texts(Items(j, "tables")[i])]],
   tree |-> j, dynamic_vars |-> {}]

\* A metric's kind is a mapping with one of the five keys; of `!ratio {..}`, the
\* form serde_yaml itself writes, a reader of a mapping sees the fields alone.
MetricKinds == {"ratio", "derived", "cumulative", "offset", "share"}
MetricsOf(tree) == Items(Get(tree, "semantic"), "metrics")
BadMetric(m) == \/ ~IsText(Get(m, "name"))
                \/ Get(m, "kind").t # "obj"
                \/ \A k \in MetricKinds : DOMAIN Get(m, "kind").v # {k}

\* from_value: what serde refuses is an error.
FromValue(tree) ==
  IF \/ tree.t # "obj"
     \/ DOMAIN tree.v \ ConfigKeys # {}
     \/ Get(tree, "version").t # "int"
     \/ \E i \in DOMAIN Items(tree, "sources") : BadSource(Items(tree, "sources")[i])
     \/ \E i \in DOMAIN MetricsOf(tree) : BadMetric(MetricsOf(tree)[i])
  THEN Err("Yaml")
  ELSE Ok([version |-> IF Get(tree, "version").v = "1" THEN 1 ELSE 2,
           sources |-> [i \in DOMAIN Items(tree, "sources") |-> TypedSource(Items(tree, "sources")[i])],
           variables |-> IF Has(tree, "variables") THEN Get(tree, "variables").v ELSE <<>>,
           semantic |-> {}, functions |-> <<>>])

Validated(cfg) == IF Validate(cfg) # {} THEN Err("Invalid") ELSE Ok(cfg)
WithBindings(cfg, resolved) ==
  [cfg EXCEPT !.sources = [i \in DOMAIN @ |-> [@[i] EXCEPT !.dynamic_vars = resolved[i].binds]]]
Bound(typed, resolved) == IF ~typed.ok THEN typed ELSE Validated(WithBindings(typed.v, resolved))
FinishResolved(clear, resolved) ==
  IF ~resolved.ok THEN resolved
  ELSE Bound(FromValue(With(clear, "sources", Arr([i \in DOMAIN resolved.v |-> resolved.v[i].body]))), resolved.v)
FinishScoped(clear, chains, scopes, store, w) ==
  IF ~scopes.ok THEN scopes
  ELSE FinishResolved(clear, ResolveVariables(Items(clear, "sources"), chains, scopes.v, store, w))
FinishClear(clear, chains, frags, store, w) ==
  IF ~clear.ok THEN clear
  ELSE FinishScoped(clear.v, chains, Scopes(clear.v, frags, store, w), store, w)
Finish(tree, chains, frags, store, w) == FinishClear(Interpolate(tree, store, w), chains, frags, store, w)

\* load_auto_with_vars: the chain of backends is read before any interpolation.
LoadWith(a, store, w) ==
  IF ~a.ok THEN a
  ELSE IF ~store.ok THEN store
  ELSE Finish(a.v.tree, a.v.chains, a.v.frags, store.v, w)
LoadAssembled(a, w) == LoadWith(a, StoreOf(a, w), w)
LoadAutoWithVars(files, root, w) == LoadAssembled(Assemble(files, root), w)

\* assemble_config: nothing resolved, for the commands that inspect or edit.
TypedWith(a, typed) == IF ~typed.ok THEN typed ELSE Ok([cfg |-> typed.v, origins |-> a.origins])
TypeAssembled(a) == IF ~a.ok THEN a ELSE TypedWith(a.v, FromValue(a.v.tree))
AssembleConfig(files, root) == TypeAssembled(Assemble(files, root))

\* source_static_vars: what a source still needs, as a load would see it.
StaticsAt(i, sources, a, scopes, store, w) ==
  IF i = 0 THEN Ok({})
  ELSE Then(SourceScope(sources[i], a.chains[i], scopes.global, scopes.frags), LAMBDA scope :
         Ok(CollectStaticRefs(sources[i], scope, store, w)))
StaticsScoped(name, a, clear, scopes, store, w) ==
  IF ~scopes.ok THEN scopes
  ELSE StaticsAt(SelectInSeq(Items(clear, "sources"), LAMBDA s : NameOf(s) = name),
                 Items(clear, "sources"), a, scopes.v, store, w)
StaticsClear(name, a, clear, store, w) ==
  IF ~clear.ok THEN clear
  ELSE StaticsScoped(name, a, clear.v, Scopes(clear.v, a.frags, store, w), store, w)
StaticsStored(name, a, store, w) ==
  IF ~store.ok THEN store ELSE StaticsClear(name, a, Interpolate(a.tree, store.v, w), store.v, w)
StaticsAssembled(name, a, w) == IF ~a.ok THEN a ELSE StaticsStored(name, a.v, StoreOf(a, w), w)
SourceStaticVars(files, root, name, w) == StaticsAssembled(name, Assemble(files, root), w)

=============================================================================
