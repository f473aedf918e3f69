---------------------------- MODULE MCWorkspace ----------------------------
(***************************************************************************)
(* A workspace with a fragment: REGION is declared by the root, by the     *)
(* fragment and by a source, TOK can be connected or pasted, KEY is a      *)
(* required secret; a third workspace has a metric.  MaxPasted bounds the values stored; what follows a    *)
(* torn file is not explored.                                              *)
(***************************************************************************)
EXTENDS Workspace

CONSTANT MaxPasted

RootPath == "pawrly.yaml"
Frag == "teams/eu.yaml"
Glob == "sources/*.yaml"
Names3 == {"gh", "eu", "app"}
PathOf == [n \in Names3 |-> CASE n = "gh" -> "sources/gh.yaml" [] n = "eu" -> "sources/eu.yaml" [] OTHER -> "sources/app.yaml"]
DirOf == [p \in {RootPath, Frag} \cup Range(PathOf) |-> IF p = RootPath THEN "." ELSE IF p = Frag THEN "teams" ELSE "sources"]
Matches == [q \in {<<".", Glob>>, <<".", Frag>>} |->
              IF q[2] = Frag THEN <<Frag>> ELSE <<PathOf["app"], PathOf["eu"], PathOf["gh"]>>]

Variable(default) == Obj([kind |-> Txt("variable"), default |-> Txt(default)])
Oauth == Obj([type |-> Txt("oauth"), grant |-> Obj([type |-> Txt("device_code")]),
              endpoints |-> Obj([device_authorization_url |-> Txt("https"), token_url |-> Txt("https")]),
              client |-> Obj([id |-> Obj([input |-> Txt("CID"), default |-> Txt("cid")])])])
Token == Obj([kind |-> Txt("secret"), methods |-> Arr(<<Oauth, Obj([type |-> Txt("input"), input |-> Txt("PAT")])>>)])
Source(name, config) == Obj([name |-> Txt(name), kind |-> Txt("http"), config |-> Obj(config)])
Ref(n) == Scalar("var", n)

Gh == With(Source("gh", [base_url |-> Txt("u"), token |-> Ref("TOK"), region |-> Ref("REGION")]),
           "description", Scalar("env", "NOTE"))
Eu == Source("eu", [base_url |-> Txt("u"), region |-> Ref("REGION")])
App == With(Source("app", [base_url |-> Txt("u"), key |-> Ref("KEY"), region |-> Ref("REGION"), token |-> Ref("TOK")]),
            "variables", Obj([REGION |-> Variable("local"), KEY |-> Obj([kind |-> Txt("secret")])]))

RootDoc == Obj([version |-> Scalar("int", "1"), include |-> Arr(<<Txt(Frag)>>),
                variables |-> Obj([REGION |-> Variable("global"), TOK |-> Token]),
                sources |-> Arr(<<Gh>>)])
FragDoc == Obj([variables |-> Obj([REGION |-> Variable("team")]), sources |-> Arr(<<Eu>>)])


\* A workspace whose root holds a metric.
Ratio == Obj([numerator |-> Txt("orders.revenue"), denominator |-> Txt("orders.count")])
Metrics == Obj([models |-> Arr(<<Obj([name |-> Txt("orders")])>>),
                metrics |-> Arr(<<Obj([name |-> Txt("aov"), kind |-> Obj([ratio |-> Ratio])])>>)])
MetricDoc == Obj([version |-> Scalar("int", "1"), semantic |-> Metrics,
                  variables |-> Obj([REGION |-> Variable("global")]), sources |-> Arr(<<Eu>>)])

MCWorkspaces == {<<>>, (RootPath :> RootDoc) @@ (Frag :> FragDoc), RootPath :> MetricDoc}
AppPage == Obj([variables |-> Obj([TOK |-> Token]), sources |-> Arr(<<App>>)])
Url == <<"url", "app">>
MCWeb == (Url :> [status |-> 200, doc |-> AppPage]) @@ (<<"http", "app">> :> [status |-> 404, doc |-> Null])
           @@ (<<"file", "app">> :> [status |-> 200, doc |-> App])
           @@ (<<"mcp", "gh">> :> [status |-> 500, doc |-> Null])
MCImports == ("./app.yaml" :> App) @@ ("./all.yaml" :> Obj([sources |-> Arr(<<Gh, App>>)]))
Word(w, name, flags) == [form |-> "word", word |-> w, name |-> name, flags |-> flags]
MCTargets ==
  {Word("http", "gh", [url |-> "u"]), Word("duckdb", "eu", <<>>), Word("http", "", <<>>),
   Word("app", "", <<>>), Word("gh", "", <<>>), Word("app", "gh", [path |-> "p"]),
   [form |-> "path", word |-> "./all.yaml", name |-> "", flags |-> <<>>],
   [form |-> "url", word |-> Url, name |-> "", flags |-> <<>>]}
MCEnvs == {[NOTE |-> "n"], [NOTE |-> "n", REGION |-> "shell"], [PAT |-> "p"]}
Few == hurt # "torn" /\ Cardinality({k \in DOMAIN stored : Len(k) = 3}) <= MaxPasted
=============================================================================
