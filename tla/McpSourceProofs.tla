--------------------------- MODULE McpSourceProofs ---------------------------
(***************************************************************************)
(* Proofs about McpSource, for any server, listing, config and jobs.       *)
(*                                                                         *)
(* A tool is called because a table or a function names it.  The tables    *)
(* come from the listing, so the argument follows the pages: the           *)
(* registration runs alone (AloneInv), its ids are new (IdInv), hence what *)
(* it takes for a page of tools is one the server sent for its request     *)
(* (PageInv), whatever else is on the wire; and synthesis and the patches  *)
(* of the config make tables of guarded tools only (CallInv).              *)
(***************************************************************************)
EXTENDS McpSource, WellFoundedInduction, TLAPS

-----------------------------------------------------------------------------
(* Induction over the natural numbers, for sets: every non-empty set of    *)
(* numbers has a least element.                                            *)

Below == {p \in Nat \X Nat : p[1] < p[2]}

\* The order of the natural numbers is well-founded.
LEMMA BelowWellFounded == IsWellFoundedOn(Below, Nat)
BY NatLessThanWellFounded DEF OpToRel, Below

\* A set with 0 and with the successor of each of its numbers has them all.
LEMMA NatSetInduction ==
  ASSUME NEW T, 0 \in T, \A n \in Nat : n \in T => n + 1 \in T
  PROVE Nat \subseteq T
<1> DEFINE U == {n \in Nat : n \notin T}
<1> SUFFICES ASSUME U # {} PROVE FALSE
  OBVIOUS
<1>1. PICK x \in U : \A y \in U : ~ (<<y, x>> \in Below)
  <2>1. U \subseteq Nat OBVIOUS
  <2> HIDE DEF U
  <2> QED BY BelowWellFounded, <2>1, WFMin
<1>2. x \in Nat /\ x # 0 /\ x - 1 \in Nat BY <1>1
<1>3. x - 1 \in T => x \in T
  <2>1. (x - 1) + 1 = x BY <1>2
  <2> QED BY <1>2, <2>1
<1>4. x - 1 \in U BY <1>1, <1>2, <1>3
<1>5. <<x - 1, x>> \in Below BY <1>2 DEF Below
<1> QED BY <1>1, <1>4, <1>5

-----------------------------------------------------------------------------
(* From tools to tables. *)

\* Pick keeps the elements at its positions.
LEMMA PickFrom ==
  ASSUME NEW S, NEW s \in Seq(S), NEW at
  PROVE Pick(s, at) \in Seq({s[i] : i \in (DOMAIN s) \cap at})
<1> DEFINE n == Len(s)
           b == <<>>
           Body(i, x) == IF i \in at THEN Append(x, s[i]) ELSE x
           Fine(x) == x \in Seq({s[i] : i \in (DOMAIN s) \cap at})
           Prefix(m, g) == g = [i \in 0..m |-> IF i = 0 THEN b ELSE Body(i, g[i - 1])]
           value == CHOOSE g : Prefix(n, g)
           Defined == {m \in Nat : \E g : Prefix(m, g)}
           Proper == {m \in Nat : m <= n => Fine(value[m])}
<1>1. n \in Nat OBVIOUS
<1>2. Fine(b) OBVIOUS
<1>3. ASSUME NEW i \in 1..n, NEW x, Fine(x) PROVE Fine(Body(i, x))
  <2>1. i \in at => s[i] \in {s[k] : k \in (DOMAIN s) \cap at} OBVIOUS
  <2> QED BY <1>3, <2>1
<1>4. Pick(s, at) = value[n] BY DEF Pick
<1> HIDE DEF n, b, Body
<1>5. 0 \in Defined
  <2>1. Prefix(0, [i \in 0..0 |-> b]) OBVIOUS
  <2> HIDE DEF Prefix
  <2> QED BY <2>1
<1>6. ASSUME NEW m \in Nat, m \in Defined PROVE m + 1 \in Defined
  <2>1. PICK g : Prefix(m, g)
    <3> HIDE DEF Prefix
    <3> QED BY <1>6
  <2> DEFINE h == [i \in 0..(m + 1) |-> IF i <= m THEN g[i] ELSE Body(m + 1, g[m])]
  <2>2. ASSUME NEW i \in 0..(m + 1)
        PROVE h[i] = IF i = 0 THEN b ELSE Body(i, h[i - 1])
    <3>1. CASE i = 0 BY <3>1, <2>1
    <3>2. CASE i \in 1..m
      <4>1. h[i] = g[i] /\ h[i - 1] = g[i - 1] /\ i # 0 BY <3>2
      <4>2. g[i] = Body(i, g[i - 1]) BY <2>1, <3>2
      <4> QED BY <4>1, <4>2
    <3>3. CASE i = m + 1
      <4>1. h[i] = Body(m + 1, g[m]) /\ h[i - 1] = g[m] /\ i # 0 BY <3>3
      <4> QED BY <4>1, <3>3
    <3> QED BY <3>1, <3>2, <3>3
  <2>3. h = [i \in 0..(m + 1) |-> h[i]] OBVIOUS
  <2> HIDE DEF h
  <2>4. Prefix(m + 1, h) BY <2>2, <2>3
  <2> HIDE DEF Prefix
  <2> QED BY <2>4
<1>7. Prefix(n, value)
  <2>1. Nat \subseteq Defined
    <3> HIDE DEF Defined
    <3> QED BY <1>5, <1>6, NatSetInduction
  <2> HIDE DEF Prefix
  <2> QED BY <2>1, <1>1
<1> HIDE DEF value
<1>8. 0 \in Proper
  <2>1. value[0] = b BY <1>1, <1>7
  <2> HIDE DEF Fine, Prefix
  <2> QED BY <1>2, <2>1
<1>9. ASSUME NEW m \in Nat, m \in Proper PROVE m + 1 \in Proper
  <2> SUFFICES ASSUME m + 1 <= n PROVE Fine(value[m + 1]) OBVIOUS
  <2> HIDE DEF Prefix, Fine
  <2>0. m <= n /\ m + 1 \in 1..n BY <1>1
  <2>1. Fine(value[m]) BY <1>9, <2>0
  <2>2. value[m + 1] = Body(m + 1, value[m])
    <3>1. value = [i \in 0..n |-> IF i = 0 THEN b ELSE Body(i, value[i - 1])] BY <1>7 DEF Prefix
    <3>2. m + 1 \in 0..n /\ m + 1 # 0 /\ (m + 1) - 1 = m BY <1>1, <2>0
    <3> QED BY <3>1, <3>2
  <2> QED BY <2>0, <2>1, <2>2, <1>3
<1>10. Fine(value[n])
  <2> HIDE DEF Fine
  <2>1. Nat \subseteq Proper
    <3> HIDE DEF Proper
    <3> QED BY <1>8, <1>9, NatSetInduction
  <2> QED BY <2>1, <1>1
<1> QED BY <1>4, <1>10

\* A sequence of anything is a Vec.
LEMMA SeqVec ==
  ASSUME NEW S, NEW s \in Seq(S)
  PROVE IsVec(s) /\ Len(s) \in Nat /\ DOMAIN s = 1..Len(s)
BY DEF IsVec, Range

\* A Vec's positions and elements.
LEMMA VecIs ==
  ASSUME NEW s, IsVec(s)
  PROVE Len(s) \in Nat /\ DOMAIN s = 1..Len(s) /\ s \in Seq(Range(s)) /\ s = [i \in 1..Len(s) |-> s[i]]
BY DEF IsVec

\* A function on the positions of a Vec is a Vec of the same length.
LEMMA VecOver ==
  ASSUME NEW n \in Nat, NEW f, f = [i \in 1..n |-> f[i]]
  PROVE IsVec(f) /\ Len(f) = n /\ DOMAIN f = 1..n
<1>1. f \in Seq(Range(f)) BY DEF Range
<1> QED BY <1>1 DEF IsVec

\* Two Vecs one after the other.
LEMMA VecConcat ==
  ASSUME NEW a, NEW b, IsVec(a), IsVec(b)
  PROVE /\ IsVec(a \o b)
        /\ \A i \in DOMAIN (a \o b) : (\E j \in DOMAIN a : (a \o b)[i] = a[j]) \/ (\E j \in DOMAIN b : (a \o b)[i] = b[j])
<1> DEFINE S == Range(a) \cup Range(b)
           ab == a \o b
<1>1. a \in Seq(S) /\ b \in Seq(S) BY DEF IsVec
<1> HIDE DEF S
<1>2. ab \in Seq(S) BY <1>1
<1>3. IsVec(ab)
  <2> HIDE DEF ab
  <2> QED BY <1>2, SeqVec
<1>4. ASSUME NEW i \in DOMAIN ab PROVE ab[i] \in S
  <2> HIDE DEF ab
  <2> QED BY <1>2, <1>4
<1> HIDE DEF ab
<1>5. \A i \in DOMAIN ab : (\E j \in DOMAIN a : ab[i] = a[j]) \/ (\E j \in DOMAIN b : ab[i] = b[j])
  BY <1>4 DEF S, Range
<1> QED BY <1>3, <1>5 DEF ab

\* Picked elements of a Vec are a Vec, of those that were picked.
LEMMA PickVec ==
  ASSUME NEW s, IsVec(s), NEW at
  PROVE /\ IsVec(Pick(s, at))
        /\ \A i \in DOMAIN Pick(s, at) : \E k \in (DOMAIN s) \cap at : Pick(s, at)[i] = s[k]
<1> DEFINE T == {s[i] : i \in (DOMAIN s) \cap at}
           p == Pick(s, at)
<1>1. p \in Seq(T) BY PickFrom DEF IsVec
<1>2. IsVec(p)
  <2> HIDE DEF T, p
  <2> QED BY <1>1, SeqVec
<1>3. ASSUME NEW i \in DOMAIN p PROVE p[i] \in T
  <2> HIDE DEF T, p
  <2> QED BY <1>1, <1>3
<1> HIDE DEF p
<1>4. \A i \in DOMAIN p : \E k \in (DOMAIN s) \cap at : p[i] = s[k] BY <1>3
<1> QED BY <1>2, <1>4 DEF p

\* A page of the server's listing, what asks for one, and a tool of one.
AsksPage(s, cursor) ==
    cursor # None => \E k \in DOMAIN s.pages : k < Len(s.pages) /\ cursor = Some(Cursors[k + 1])
IsPage(s, x) ==
    \E n \in DOMAIN s.pages :
        /\ x.tools = s.pages[n]
        /\ AsksPage(s, x.next)
Listed(s, tool) == \E n \in DOMAIN s.pages : \E i \in DOMAIN s.pages[n] : s.pages[n][i] = tool

\* A response in which the message that answers this id, if it is no error, is
\* a page.
PageBody(s, id, response) ==
    /\ IsVec(response.messages)
    /\ \A i \in DOMAIN response.messages :
           LET m == response.messages[i]
           IN  m.json /\ ~m.error /\ (response.sse => m.id = Some(id)) => IsPage(s, m.result)

\* Tables that call guarded tools only.
GoodTable(spec) == "tool" \in DOMAIN spec /\ Guarded(setup, spec.tool)
GoodTables(specs) == IsVec(specs) /\ \A i \in DOMAIN specs : GoodTable(specs[i])

\* A patched table calls the tool that the patch names, if it names one.
LEMMA DeepMergeTool ==
  ASSUME NEW spec, NEW patch, "tool" \in DOMAIN spec
  PROVE /\ "tool" \in DOMAIN DeepMerge(spec, patch)
        /\ DeepMerge(spec, patch).tool = IF "tool" \in DOMAIN patch THEN patch["tool"] ELSE spec.tool
BY DEF DeepMerge, OptionalFields

\* A tool that a patch of the config names is guarded.
LEMMA PatchGuarded ==
  ASSUME NEW k \in DOMAIN setup.defs, "tool" \in DOMAIN setup.defs[k].patch
  PROVE Guarded(setup, setup.defs[k].patch["tool"])
BY DEF Guarded, Declared

\* A patch of the config makes a guarded table of a guarded one.
LEMMA PatchKeeps ==
  ASSUME NEW k \in DOMAIN setup.defs, NEW spec, "tool" \in DOMAIN spec,
         GoodTable(spec) \/ "tool" \in DOMAIN setup.defs[k].patch
  PROVE GoodTable(DeepMerge(spec, setup.defs[k].patch))
<1> DEFINE patch == setup.defs[k].patch
<1>1. /\ "tool" \in DOMAIN DeepMerge(spec, patch)
      /\ DeepMerge(spec, patch).tool = IF "tool" \in DOMAIN patch THEN patch["tool"] ELSE spec.tool
  BY DeepMergeTool
<1>2. "tool" \in DOMAIN patch => Guarded(setup, patch["tool"]) BY PatchGuarded
<1>3. GoodTable(spec) \/ "tool" \in DOMAIN patch OBVIOUS
<1> HIDE DEF patch
<1>4. GoodTable(DeepMerge(spec, patch)) BY <1>1, <1>2, <1>3 DEF GoodTable
<1> QED BY <1>4 DEF patch

\* The names of the tables, and a `tables:` entry that is new.
LEMMA ApplyTableDefKeeps ==
  ASSUME NEW k \in DOMAIN setup.defs, NEW specs, GoodTables(specs),
         ApplyTableDef(specs, setup.defs[k]) # None
  PROVE \E made : ApplyTableDef(specs, setup.defs[k]) = Some(made) /\ GoodTables(made)
<1> DEFINE def == setup.defs[k]
           n == Len(specs)
           patched == [i \in DOMAIN specs |-> IF specs[i].name = def.name
                                              THEN DeepMerge(specs[i], def.patch) ELSE specs[i]]
           new == DeepMerge(NewTable(def.name), def.patch)
<1>1. n \in Nat /\ DOMAIN specs = 1..n /\ specs \in Seq(Range(specs)) BY VecIs DEF GoodTables
<1>2. \/ ApplyTableDef(specs, def) = Some(patched)
      \/ "tool" \in DOMAIN def.patch /\ ApplyTableDef(specs, def) = Some(Append(specs, new))
  BY Zenon DEF ApplyTableDef
<1>3. CASE ApplyTableDef(specs, def) = Some(patched)
  <2>1. ASSUME NEW i \in DOMAIN specs PROVE GoodTable(patched[i])
    <3>1. GoodTable(specs[i]) /\ "tool" \in DOMAIN specs[i] BY DEF GoodTables, GoodTable
    <3>2. GoodTable(DeepMerge(specs[i], def.patch)) BY <3>1, PatchKeeps
    <3> QED BY <3>1, <3>2
  <2>2. patched = [i \in 1..n |-> patched[i]] BY <1>1
  <2> HIDE DEF patched, n
  <2>3. IsVec(patched) /\ DOMAIN patched = 1..n BY <1>1, <2>2, VecOver
  <2> QED BY <1>1, <1>3, <2>1, <2>3 DEF GoodTables
<1>4. CASE "tool" \in DOMAIN def.patch /\ ApplyTableDef(specs, def) = Some(Append(specs, new))
  <2>1. "tool" \in DOMAIN NewTable(def.name) BY DEF NewTable
  <2>2. GoodTable(new) BY <1>4, <2>1, PatchKeeps
  <2> HIDE DEF new
  <2> DEFINE made == Append(specs, new)
             S == Range(specs) \cup {new}
  <2>3. specs \in Seq(S) /\ new \in S BY <1>1
  <2> HIDE DEF S
  <2>4. made \in Seq(S) /\ DOMAIN made = 1..(n + 1)
        /\ \A i \in 1..(n + 1) : made[i] = IF i = n + 1 THEN new ELSE specs[i]
    BY <1>1, <2>3
  <2>5. \A i \in 1..(n + 1) : i = n + 1 \/ i \in DOMAIN specs BY <1>1
  <2> HIDE DEF made, n
  <2>6. IsVec(made) BY <2>4, SeqVec
  <2>7. GoodTables(made) BY <2>2, <2>4, <2>5, <2>6 DEF GoodTables
  <2> QED BY <1>4, <2>7 DEF made
<1> QED BY <1>2, <1>3, <1>4

\* The `tables:` of the config make guarded tables of guarded ones.
LEMMA ApplyTableDefsKeeps ==
  ASSUME IsVec(setup.defs), NEW specs, GoodTables(specs), ApplyTableDefs(specs, setup.defs) # None
  PROVE \E made : ApplyTableDefs(specs, setup.defs) = Some(made) /\ GoodTables(made)
<1> DEFINE n == Len(setup.defs)
           b == Some(specs)
           Body(i, x) == IF x = None THEN None ELSE ApplyTableDef(x[1], setup.defs[i])
           Fine(x) == x = None \/ \E made : x = Some(made) /\ GoodTables(made)
           Prefix(m, g) == g = [i \in 0..m |-> IF i = 0 THEN b ELSE Body(i, g[i - 1])]
           value == CHOOSE g : Prefix(n, g)
           Defined == {m \in Nat : \E g : Prefix(m, g)}
           Proper == {m \in Nat : m <= n => Fine(value[m])}
<1>1. n \in Nat BY VecIs
<1>2. Fine(b) OBVIOUS
<1>3. ASSUME NEW i \in 1..n, NEW x, Fine(x) PROVE Fine(Body(i, x))
  <2>1. CASE x = None BY <2>1
  <2>2. CASE x # None
    <3>1. PICK made : x = Some(made) /\ GoodTables(made) BY <1>3, <2>2
    <3>2. x[1] = made BY <3>1 DEF Some
    <3>3. i \in DOMAIN setup.defs BY VecIs
    <3>4. Fine(ApplyTableDef(made, setup.defs[i])) BY <3>1, <3>3, ApplyTableDefKeeps
    <3> HIDE DEF Fine
    <3> QED BY <2>2, <3>2, <3>4
  <2> QED BY <2>1, <2>2
<1>4. ApplyTableDefs(specs, setup.defs) = value[n] BY DEF ApplyTableDefs
<1> HIDE DEF n, b, Body
<1>5. 0 \in Defined
  <2>1. Prefix(0, [i \in 0..0 |-> b]) OBVIOUS
  <2> HIDE DEF Prefix
  <2> QED BY <2>1
<1>6. ASSUME NEW m \in Nat, m \in Defined PROVE m + 1 \in Defined
  <2>1. PICK g : Prefix(m, g)
    <3> HIDE DEF Prefix
    <3> QED BY <1>6
  <2> DEFINE h == [i \in 0..(m + 1) |-> IF i <= m THEN g[i] ELSE Body(m + 1, g[m])]
  <2>2. ASSUME NEW i \in 0..(m + 1)
        PROVE h[i] = IF i = 0 THEN b ELSE Body(i, h[i - 1])
    <3>1. CASE i = 0 BY <3>1, <2>1
    <3>2. CASE i \in 1..m
      <4>1. h[i] = g[i] /\ h[i - 1] = g[i - 1] /\ i # 0 BY <3>2
      <4>2. g[i] = Body(i, g[i - 1]) BY <2>1, <3>2
      <4> QED BY <4>1, <4>2
    <3>3. CASE i = m + 1
      <4>1. h[i] = Body(m + 1, g[m]) /\ h[i - 1] = g[m] /\ i # 0 BY <3>3
      <4> QED BY <4>1, <3>3
    <3> QED BY <3>1, <3>2, <3>3
  <2>3. h = [i \in 0..(m + 1) |-> h[i]] OBVIOUS
  <2> HIDE DEF h
  <2>4. Prefix(m + 1, h) BY <2>2, <2>3
  <2> HIDE DEF Prefix
  <2> QED BY <2>4
<1>7. Prefix(n, value)
  <2>1. Nat \subseteq Defined
    <3> HIDE DEF Defined
    <3> QED BY <1>5, <1>6, NatSetInduction
  <2> HIDE DEF Prefix
  <2> QED BY <2>1, <1>1
<1> HIDE DEF value
<1>8. 0 \in Proper
  <2>1. value[0] = b BY <1>1, <1>7
  <2> HIDE DEF Fine, Prefix
  <2> QED BY <1>2, <2>1
<1>9. ASSUME NEW m \in Nat, m \in Proper PROVE m + 1 \in Proper
  <2> SUFFICES ASSUME m + 1 <= n PROVE Fine(value[m + 1]) OBVIOUS
  <2> HIDE DEF Prefix, Fine
  <2>0. m <= n /\ m + 1 \in 1..n BY <1>1
  <2>1. Fine(value[m]) BY <1>9, <2>0
  <2>2. value[m + 1] = Body(m + 1, value[m])
    <3>1. value = [i \in 0..n |-> IF i = 0 THEN b ELSE Body(i, value[i - 1])] BY <1>7 DEF Prefix
    <3>2. m + 1 \in 0..n /\ m + 1 # 0 /\ (m + 1) - 1 = m BY <1>1, <2>0
    <3> QED BY <3>1, <3>2
  <2> QED BY <2>0, <2>1, <2>2, <1>3
<1>10. Fine(value[n])
  <2> HIDE DEF Fine
  <2>1. Nat \subseteq Proper
    <3> HIDE DEF Proper
    <3> QED BY <1>8, <1>9, NatSetInduction
  <2> QED BY <2>1, <1>1
<1> QED BY <1>4, <1>10

\* The tables synthesized from listed tools call tools that are exposed.
LEMMA SynthesizedGood ==
  ASSUME NEW tools, IsVec(tools),
         \A j \in DOMAIN tools : Listed(setup, tools[j])
  PROVE GoodTables(SynthesizeTools(tools, setup.opts))
<1> DEFINE opts == setup.opts
           n == Len(tools)
           specs == [i \in DOMAIN tools |-> TableFromTool(tools[i])]
           Named(t) == t.name \notin opts.exclude /\ (opts.include # {} => t.name \in opts.include)
           at == {i \in DOMAIN tools : Named(tools[i]) /\ Admit(tools[i], opts)}
<1>1. SynthesizeTools(tools, opts) = Pick(specs, at) BY DEF SynthesizeTools
<1>2. n \in Nat /\ DOMAIN tools = 1..n BY VecIs
<1>3. IsVec(specs) /\ DOMAIN specs = DOMAIN tools
  <2>1. specs = [i \in 1..n |-> specs[i]] BY <1>2
  <2> HIDE DEF specs, n
  <2> QED BY <1>2, <2>1, VecOver
<1>4. ASSUME NEW i \in DOMAIN tools, i \in at PROVE GoodTable(specs[i])
  <2>1. "tool" \in DOMAIN specs[i] /\ specs[i].tool = tools[i].name BY DEF TableFromTool
  <2>2. Exposed(setup, tools[i])
    <3>1. Admit(tools[i], opts) /\ tools[i].name \notin opts.exclude BY <1>4
    <3> QED BY <3>1 DEF Admit, Exposed
  <2>3. Guarded(setup, tools[i].name) BY <2>2 DEF Guarded, Listed
  <2> QED BY <2>1, <2>3 DEF GoodTable
<1> HIDE DEF specs, at
<1>5. /\ IsVec(Pick(specs, at))
      /\ \A i \in DOMAIN Pick(specs, at) : \E k \in (DOMAIN specs) \cap at : Pick(specs, at)[i] = specs[k]
  BY <1>3, PickVec
<1>6. GoodTables(Pick(specs, at)) BY <1>3, <1>4, <1>5 DEF GoodTables
<1> QED BY <1>1, <1>6

-----------------------------------------------------------------------------
(* The inductive invariant. *)

\* The registration's task.
R == task[Reg]

\* The request that the registration waits for, as an HTTP server holds it.
Posted == [id |-> R.id, from |-> Reg, method |-> R.method, params |-> R.params, session |-> conn.session]

\* A task that calls a tool is a job's, and the tool is guarded.
Callable(p, t) ==
    /\ t.method = "tools/call" =>
           /\ p \in DOMAIN setup.jobs
           /\ setup.jobs[p].kind = "scan" => \E i \in DOMAIN tables : tables[i].name = setup.jobs[p].table
           /\ Guarded(setup, t.params.name)
    /\ p \in Job => t.method \in {"", "tools/call"}

\* Types.
Fields == {"phase", "method", "params", "id", "got", "acc", "page", "told", "hurt"}
IsTask(t) == t = [f \in Fields |-> t[f]]
IsConn(c) == c = [f \in {"next_id", "pending", "session", "up"} |-> c[f]] /\ c.next_id \in Nat \ {0}
TypeInv ==
    /\ setup \in Scenarios
    /\ IsConn(conn)
    /\ task = [p \in Actor |-> task[p]] /\ \A p \in Actor : IsTask(task[p])
    /\ IsVec(lines)

\* Nobody calls a tool, or has a table that would, unless the tool is guarded.
CallInv ==
    /\ \A name \in called : Guarded(setup, name)
    /\ \A i \in DOMAIN tables : Guarded(setup, tables[i].tool)
    /\ \A p \in Actor : Callable(p, task[p])

\* The registration runs alone.
AloneInv ==
    /\ R.phase \in {"idle", "enlist", "write", "wait", "got"}
    /\ R.method \in {"", "initialize", "notifications/initialized", "tools/list"}
    /\ R.told = None
    /\ \A p \in Job : task[p].phase = "idle" /\ task[p].method = ""
    /\ \A r \in served : r.from = Reg

\* Ids are not used twice, so nothing answers a request that is not sent yet.
Issued(next_id, id) == \E n \in 0..(next_id - 1) : id = Some(n)
IdInv ==
    /\ R.id \in Nat /\ R.id < conn.next_id
    /\ \A r \in served : r.id \in Nat /\ r.id < conn.next_id
    /\ \A i \in DOMAIN lines : lines[i].id # None => Issued(conn.next_id, lines[i].id)
    /\ Stdio /\ R.phase = "write" /\ ~IsNotification(R) =>
           /\ \A r \in served : r.id # R.id
           /\ \A i \in DOMAIN lines : lines[i].id # Some(R.id)
    /\ ~Stdio => lines = <<>> /\ served = IF R.phase = "wait" THEN {Posted} ELSE {}

\* What answers the request for a page, is a page.
PageInv ==
    /\ IsVec(R.acc) /\ \A i \in DOMAIN R.acc : Listed(setup, R.acc[i])
    /\ R.method = "tools/list" => AsksPage(setup, R.params.cursor)
    /\ Stdio /\ R.phase = "wait" =>
           /\ \A r \in served : r.id = R.id => r.method = R.method /\ r.params = R.params
           /\ R.method = "tools/list" =>
                  \A i \in DOMAIN lines : lines[i].id = Some(R.id) /\ ~lines[i].error => IsPage(setup, lines[i].result)
    /\ R.phase = "got" /\ R.method = "tools/list" =>
           /\ R.got = Some(R.got[1])
           /\ Stdio => (~R.got[1].error => IsPage(setup, R.got[1].result))
           /\ ~Stdio => PageBody(setup, R.id, R.got[1])

SourceInv == TypeInv /\ CallInv /\ (R.phase # "told" => AloneInv /\ IdInv /\ PageInv)

-----------------------------------------------------------------------------
(* Pages, and the tasks that ask for them. *)

\* A listing's pages are numbered by its cursors, each after the one it follows.
LEMMA PageOfCursor ==
  ASSUME TypeInv, NEW cursor, AsksPage(setup, cursor)
  PROVE IsPage(setup, ToolPage(cursor))
<1> DEFINE found == CHOOSE i \in DOMAIN Cursors : Cursors[i] = cursor[1]
           n == IF cursor = None THEN 1 ELSE found
           pages == setup.pages
<1>1. IsVec(pages) /\ Len(pages) \in 1..5
  <2>1. Len(Cursors) = 5 BY DEF Cursors
  <2> QED BY <2>1, ScenariosAssumption DEF TypeInv
<1>2. Len(pages) \in Nat /\ DOMAIN pages = 1..Len(pages) BY <1>1, VecIs
<1>3. n \in DOMAIN pages
  <2>1. CASE cursor = None
    <3> HIDE DEF pages, found
    <3> QED BY <2>1, <1>1, <1>2
  <2>2. CASE cursor # None
    <3>1. PICK k \in DOMAIN pages : k < Len(pages) /\ cursor = Some(Cursors[k + 1])
      BY <2>2, Zenon DEF AsksPage
    <3>2. k + 1 \in 1..5 /\ k + 1 \in DOMAIN pages
      <4> HIDE DEF pages
      <4> QED BY <1>1, <1>2, <3>1
    <3>3. cursor[1] = Cursors[k + 1] BY <3>1 DEF Some
    <3>4. DOMAIN Cursors = 1..5 /\ \A i, j \in 1..5 : Cursors[i] = Cursors[j] => i = j BY DEF Cursors
    <3>5. found = k + 1
      BY <3>2, <3>3, <3>4
    <3> HIDE DEF found, pages
    <3> QED BY <2>2, <3>2, <3>5
  <2> QED BY <2>1, <2>2
<1>4. ToolPage(cursor) = [tools |-> pages[n], next |-> IF n < Len(pages) THEN Some(Cursors[n + 1]) ELSE None]
  BY DEF ToolPage
<1> HIDE DEF n, pages
<1>5. ToolPage(cursor).tools = pages[n] BY <1>4
<1>6. AsksPage(setup, ToolPage(cursor).next) BY <1>3, <1>4 DEF AsksPage, pages
<1> QED BY <1>3, <1>5, <1>6 DEF IsPage, pages

\* The tools of a page that have a name are listed.
LEMMA ParsedListed ==
  ASSUME TypeInv, NEW x, IsPage(setup, x)
  PROVE IsVec(ParseTools(x)) /\ \A i \in DOMAIN ParseTools(x) : Listed(setup, ParseTools(x)[i])
<1>1. PICK n \in DOMAIN setup.pages : x.tools = setup.pages[n] BY DEF IsPage
<1>2. IsVec(x.tools) BY <1>1, ScenariosAssumption DEF TypeInv
<1> DEFINE at == {i \in DOMAIN x.tools : x.tools[i].name # None}
           p == Pick(x.tools, at)
<1>3. ParseTools(x) = p BY DEF ParseTools
<1> HIDE DEF at
<1>4. IsVec(p) /\ \A i \in DOMAIN p : \E k \in (DOMAIN x.tools) \cap at : p[i] = x.tools[k] BY <1>2, PickVec
<1> HIDE DEF p
<1>5. \A i \in DOMAIN p : Listed(setup, p[i]) BY <1>1, <1>4 DEF Listed
<1> QED BY <1>3, <1>4, <1>5

\* With a page of them, what was listed before still is.
LEMMA GrownListed ==
  ASSUME TypeInv, NEW x, IsPage(setup, x), NEW acc, IsVec(acc), \A i \in DOMAIN acc : Listed(setup, acc[i])
  PROVE /\ IsVec(acc \o ParseTools(x))
        /\ \A i \in DOMAIN (acc \o ParseTools(x)) : Listed(setup, (acc \o ParseTools(x))[i])
<1> DEFINE b == ParseTools(x)
           ab == acc \o b
<1>1. IsVec(b) /\ \A i \in DOMAIN b : Listed(setup, b[i]) BY ParsedListed
<1> HIDE DEF b
<1>2. /\ IsVec(ab)
      /\ \A i \in DOMAIN ab : (\E j \in DOMAIN acc : ab[i] = acc[j]) \/ (\E j \in DOMAIN b : ab[i] = b[j])
  <2>1. IsVec(acc) /\ IsVec(b) BY <1>1
  <2> HIDE <1>1
  <2> QED BY ONLY <2>1, VecConcat, SMTT(30)
<1> HIDE DEF ab
<1>3. \A i \in DOMAIN ab : Listed(setup, ab[i]) BY <1>1, <1>2
<1> QED BY <1>2, <1>3 DEF ab, b

\* The tables of listed tools and of the config call guarded tools.
LEMMA RegisteredGood ==
  ASSUME TypeInv, NEW tools, IsVec(tools), \A j \in DOMAIN tools : Listed(setup, tools[j]),
         NEW specs, specs = ApplyTableDefs(SynthesizeTools(tools, setup.opts), setup.defs), specs # None
  PROVE GoodTables(specs[1])
<1> DEFINE made == SynthesizeTools(tools, setup.opts)
<1>1. GoodTables(made) BY SynthesizedGood
<1>2. IsVec(setup.defs) BY ScenariosAssumption DEF TypeInv
<1> HIDE DEF made
<1>3. PICK all : ApplyTableDefs(made, setup.defs) = Some(all) /\ GoodTables(all)
  BY <1>1, <1>2, ApplyTableDefsKeeps DEF made
<1> QED BY <1>3 DEF Some, made

-----------------------------------------------------------------------------
(* What becomes of a task. *)

\* A task that is told its outcome.
LEMMA TellIs ==
  ASSUME NEW t, IsTask(t), NEW outcome
  PROVE /\ IsTask(Tell(t, outcome)) /\ Tell(t, outcome).phase = "told"
        /\ Tell(t, outcome).method = t.method /\ Tell(t, outcome).params = t.params
BY DEF IsTask, Fields, Tell

\* A task that asks.
LEMMA AskIs ==
  ASSUME NEW t, IsTask(t), NEW method, NEW params
  PROVE LET a == Ask(t, method, params)
        IN  /\ IsTask(a) /\ a.phase = "enlist" /\ a.method = method /\ a.params = params
            /\ a.told = t.told /\ a.id = t.id /\ a.acc = t.acc
BY DEF IsTask, Fields, Ask

\* A task that notifies.
LEMMA NotifyIs ==
  ASSUME NEW t, IsTask(t), NEW method
  PROVE LET a == Notify(t, method)
        IN  /\ IsTask(a) /\ a.phase = "write" /\ a.method = method /\ a.params = NoParams
            /\ a.told = t.told /\ a.id = 0 /\ a.acc = t.acc
BY DEF IsTask, Fields, Notify

\* A task that the server fails.
LEMMA HurtIs ==
  ASSUME NEW t, IsTask(t)
  PROVE LET a == Hurt(t)
        IN  /\ IsTask(a) /\ a.phase = t.phase /\ a.method = t.method /\ a.params = t.params
            /\ a.told = t.told /\ a.id = t.id /\ a.acc = t.acc /\ a.got = t.got
BY DEF IsTask, Fields, Hurt

\* A task in another phase.
LEMMA PhaseIs ==
  ASSUME NEW t, IsTask(t), NEW phase
  PROVE LET a == [t EXCEPT !.phase = phase]
        IN  /\ IsTask(a) /\ a.phase = phase /\ a.method = t.method /\ a.params = t.params
            /\ a.told = t.told /\ a.id = t.id /\ a.acc = t.acc /\ a.got = t.got
BY DEF IsTask, Fields

\* A task with more tools.
LEMMA GrownIs ==
  ASSUME NEW t, IsTask(t), NEW acc
  PROVE LET a == [t EXCEPT !.acc = acc]
        IN  /\ IsTask(a) /\ a.phase = t.phase /\ a.method = t.method /\ a.params = t.params
            /\ a.told = t.told /\ a.id = t.id /\ a.acc = acc /\ a.got = t.got
BY DEF IsTask, Fields

\* A step of one task: the others stay.
LEMMA SetTaskIs ==
  ASSUME TypeInv, NEW p, NEW t, p \in Actor => IsTask(t), SetTask(p, t)
  PROVE /\ task' = [q \in Actor |-> task'[q]]
        /\ \A q \in Actor : task'[q] = (IF q = p THEN t ELSE task[q]) /\ IsTask(task'[q])
BY DEF TypeInv, SetTask

\* A step of a task that calls no unguarded tool.
LEMMA CallKept ==
  ASSUME TypeInv, CallInv, NEW p, NEW t, p \in Actor => IsTask(t) /\ Callable(p, t), SetTask(p, t),
         setup' = setup, tables' = tables, \A name \in called' : name \in called \/ Guarded(setup, name)
  PROVE CallInv'
<1>1. \A q \in Actor : task'[q] = (IF q = p THEN t ELSE task[q]) BY SetTaskIs
<1>2. \A q \in Actor : Callable(q, task'[q]) BY <1>1 DEF CallInv
<1>3. \A q \in Actor : Callable(q, task[q])' BY <1>2 DEF Callable
<1>4. \A name \in called' : Guarded(setup, name) BY DEF CallInv
<1> QED BY <1>3, <1>4 DEF CallInv

\* The same when the task goes on with its method and parameters.
LEMMA SameCallable ==
  ASSUME CallInv, NEW p \in Actor, NEW t, t.method = task[p].method, t.params = task[p].params
  PROVE Callable(p, t)
BY DEF CallInv, Callable

\* A task that asks for anything but a tool, or is told, calls none.
LEMMA AskCallable ==
  ASSUME NEW t, t.method # "tools/call"
  PROVE Callable(Reg, t)
BY ScenariosAssumption DEF Callable, Reg

-----------------------------------------------------------------------------
(* Steps that several actions share. *)

\* A step of one task keeps the types.
LEMMA TypeKept ==
  ASSUME TypeInv, NEW p, NEW t, p \in Actor => IsTask(t), SetTask(p, t),
         setup' = setup, IsConn(conn'), IsVec(lines')
  PROVE TypeInv'
<1>1. /\ task' = [q \in Actor |-> task'[q]]
      /\ \A q \in Actor : IsTask(task'[q])
  BY SetTaskIs
<1>2. \A q \in Actor : IsTask(task[q])' BY <1>1 DEF IsTask
<1>3. IsConn(conn)' BY DEF IsConn
<1>4. setup' \in Scenarios BY DEF TypeInv
<1> QED BY <1>1, <1>2, <1>3, <1>4 DEF TypeInv

\* Once the registration is over, a step need only call guarded tools.
LEMMA ToldKept ==
  ASSUME SourceInv, NEW p, NEW t, p \in Actor => IsTask(t) /\ Callable(p, t), SetTask(p, t),
         p = Reg => t.phase = "told", p # Reg => R.phase = "told",
         setup' = setup, IsConn(conn'), IsVec(lines'), tables' = tables,
         \A name \in called' : name \in called \/ Guarded(setup, name)
  PROVE SourceInv'
<1>1. TypeInv' BY TypeKept DEF SourceInv
<1>2. CallInv' BY CallKept DEF SourceInv
<1>3. Reg \in Actor BY DEF Actor
<1>4. R'.phase = "told"
  <2>1. task'[Reg] = IF Reg = p THEN t ELSE task[Reg] BY <1>3, SetTaskIs DEF SourceInv
  <2> QED BY <2>1 DEF R
<1> QED BY <1>1, <1>2, <1>4 DEF SourceInv

\* A step of the registration alone: its task, and the others idle.
LEMMA RegStep ==
  ASSUME SourceInv, R.phase # "told", NEW t, IsTask(t), SetTask(Reg, t), t.method # "tools/call",
         t.method \in {"", "initialize", "notifications/initialized", "tools/list"},
         t.phase \in {"idle", "enlist", "write", "wait", "got"}, t.told = None,
         \A r \in served' : r.from = Reg,
         setup' = setup, IsConn(conn'), IsVec(lines'), tables' = tables, called' = called
  PROVE TypeInv' /\ CallInv' /\ AloneInv' /\ R' = t
<1>1. TypeInv' BY TypeKept DEF SourceInv
<1>2. Callable(Reg, t) BY AskCallable
<1>3. CallInv' BY <1>2, CallKept DEF SourceInv
<1>4. \A q \in Actor : task'[q] = IF q = Reg THEN t ELSE task[q] BY SetTaskIs DEF SourceInv
<1>5. R' = t BY <1>4 DEF R, Actor
<1>6. \A q \in Job : task'[q] = task[q] BY <1>4, ScenariosAssumption DEF Actor, Reg
<1>7. AloneInv' BY <1>5, <1>6 DEF SourceInv, AloneInv
<1> QED BY <1>1, <1>3, <1>5, <1>7

\* The registration goes on to its next request.
LEMMA MoveOn ==
  ASSUME SourceInv, R.phase # "told", R.phase # "wait", NEW t, IsTask(t), SetTask(Reg, t),
         t.phase = "enlist" \/ (t.phase = "write" /\ IsNotification(t)), t.told = None,
         t.method \in {"initialize", "notifications/initialized", "tools/list"},
         t.id \in Nat, t.id < conn.next_id,
         IsVec(t.acc), \A i \in DOMAIN t.acc : Listed(setup, t.acc[i]),
         t.method = "tools/list" => AsksPage(setup, t.params.cursor),
         UNCHANGED <<setup, tables, conn, served, lines, called>>
  PROVE SourceInv'
<1>0. TypeInv /\ CallInv /\ AloneInv /\ IdInv /\ PageInv BY DEF SourceInv
<1>1. TypeInv' /\ CallInv' /\ AloneInv' /\ R' = t
  <2>1. IsConn(conn') /\ IsVec(lines') BY <1>0 DEF TypeInv
  <2>2. \A r \in served' : r.from = Reg BY <1>0 DEF AloneInv
  <2> QED BY <2>1, <2>2, RegStep
<1>2. IdInv'
  <2>1. \A i \in DOMAIN lines : lines[i].id # None => Issued(conn'.next_id, lines[i].id) BY <1>0 DEF IdInv, Issued
  <2>2. ~Stdio => lines = <<>> /\ served = {} BY <1>0 DEF IdInv
  <2>3. Stdio' = Stdio BY DEF Stdio
  <2>4. \A r \in served : r.id \in Nat /\ r.id < conn.next_id BY <1>0 DEF IdInv
  <2>5. t.phase # "wait" /\ ~(t.phase = "write" /\ ~IsNotification(t)) OBVIOUS
  <2> QED BY <1>1, <2>1, <2>2, <2>3, <2>4, <2>5 DEF IdInv, IsNotification
<1>3. PageInv'
  <2>1. t.phase # "wait" /\ t.phase # "got" OBVIOUS
  <2> QED BY <1>1, <2>1 DEF PageInv
<1> QED BY <1>1, <1>2, <1>3 DEF SourceInv

\* What the types say of a step that leaves the connection and the lines.
LEMMA TypeSame ==
  ASSUME TypeInv, conn' = conn, lines' = lines
  PROVE IsConn(conn') /\ IsVec(lines')
BY DEF TypeInv

\* Before the registration has an outcome, the jobs have not begun.
LEMMA JobsWait ==
  ASSUME SourceInv, NEW p \in Actor, task[p].phase # "idle"
  PROVE p = Reg \/ (p \in Job /\ R.phase = "told")
BY DEF SourceInv, AloneInv, Actor

\* A task is a task.
LEMMA ActorIs ==
  ASSUME TypeInv, NEW p \in Actor
  PROVE IsTask(task[p])
BY DEF TypeInv

-----------------------------------------------------------------------------
(* One lemma for each action. *)

\* The invariant holds at first.
LEMMA SourceInit ==
  ASSUME Init
  PROVE SourceInv
<1>1. task = [p \in Actor |-> Idle] /\ Reg \in Actor BY DEF Init, Actor
<1>2. R = Idle /\ \A p \in Actor : task[p] = Idle BY <1>1 DEF R
<1>3. IsTask(Idle) BY DEF IsTask, Fields, Idle
<1>4. IsVec(<<>>)
  <2>1. <<>> \in Seq({}) OBVIOUS
  <2> QED BY <2>1, SeqVec
<1>5. Idle.phase = "idle" /\ Idle.method = "" /\ Idle.told = None /\ Idle.id = 0 /\ Idle.acc = <<>>
  BY DEF Idle
<1>6. IsConn(conn) /\ conn.next_id = 1 BY DEF Init, IsConn
<1>7. /\ setup \in Scenarios /\ lines = <<>> /\ tables = <<>> /\ served = {} /\ called = {}
      /\ \A i \in DOMAIN <<>> : FALSE
  BY DEF Init
<1>8. TypeInv
  <2>1. task = [p \in Actor |-> task[p]] BY <1>1
  <2>2. IsVec(lines) BY <1>4, <1>7
  <2> QED BY <1>2, <1>3, <1>6, <1>7, <2>1, <2>2 DEF TypeInv
<1>9. CallInv
  <2>1. \A p \in Actor : Callable(p, task[p]) BY <1>2, <1>5 DEF Callable
  <2> QED BY <1>7, <2>1 DEF CallInv
<1>10. AloneInv BY <1>2, <1>5, <1>7 DEF AloneInv, Actor
<1>11. IdInv
  <2>1. R.id = 0 /\ R.phase = "idle" BY <1>2, <1>5
  <2> QED BY <1>6, <1>7, <2>1 DEF IdInv
<1>12. PageInv
  <2>1. R.phase = "idle" /\ R.method = "" /\ R.acc = <<>> BY <1>2, <1>5
  <2>2. IsVec(R.acc) /\ \A i \in DOMAIN R.acc : Listed(setup, R.acc[i]) BY <1>4, <1>7, <2>1
  <2> QED BY <2>1, <2>2 DEF PageInv
<1> QED BY <1>8, <1>9, <1>10, <1>11, <1>12 DEF SourceInv

\* A task of the registration that is told its outcome.
LEMMA TellReg ==
  ASSUME SourceInv, R.phase # "told", NEW outcome, NEW t, t = R \/ t = Hurt(R), SetTask(Reg, Tell(t, outcome)),
         UNCHANGED <<setup, conn, lines, tables, called>>
  PROVE SourceInv'
<1>0. TypeInv /\ CallInv /\ AloneInv BY DEF SourceInv
<1>1. Reg \in Actor BY DEF Actor
<1>2. IsTask(R) BY <1>0, <1>1 DEF TypeInv, R
<1>3. IsTask(t) /\ t.method = R.method BY <1>2, HurtIs
<1>4. IsTask(Tell(t, outcome)) /\ Tell(t, outcome).phase = "told" /\ Tell(t, outcome).method = t.method
  BY <1>3, TellIs
<1>5. Callable(Reg, Tell(t, outcome)) BY <1>0, <1>3, <1>4, AskCallable DEF AloneInv
<1>6. IsConn(conn') /\ IsVec(lines') BY <1>0, TypeSame
<1> QED BY <1>4, <1>5, <1>6, ToldKept

\* The registration asks for its session.
LEMMA ConnectKeeps ==
  ASSUME SourceInv, Connect
  PROVE SourceInv'
<1>0. TypeInv /\ R = task[Reg] /\ R.phase = "idle" /\ Reg \in Actor
  BY DEF SourceInv, Connect, R, Actor
<1>1. UNCHANGED <<setup, conn, lines, tables, served, called>> BY DEF Connect
<1>2. CASE SetTask(Reg, Tell(R, Err("Config"))) BY <1>0, <1>1, <1>2, TellReg
<1>3. CASE SetTask(Reg, Tell(Hurt(R), Err("Connect"))) BY <1>0, <1>1, <1>3, TellReg
<1>4. CASE SetTask(Reg, Ask(R, "initialize", NoParams))
  <2> DEFINE t == Ask(R, "initialize", NoParams)
  <2>1. IsTask(R) BY <1>0, ActorIs
  <2>2. IsTask(t) /\ t.phase = "enlist" /\ t.method = "initialize" /\ t.told = R.told /\ t.id = R.id
        /\ t.acc = R.acc
    BY <2>1, AskIs
  <2>3. AloneInv /\ IdInv /\ PageInv BY <1>0 DEF SourceInv
  <2>4. R.told = None /\ R.id \in Nat /\ R.id < conn.next_id /\ IsVec(R.acc)
        /\ \A i \in DOMAIN R.acc : Listed(setup, R.acc[i])
    BY <2>3 DEF AloneInv, IdInv, PageInv
  <2> HIDE DEF t
  <2> QED BY <1>0, <1>1, <1>4, <2>2, <2>4, MoveOn DEF t
<1> QED BY <1>0, <1>2, <1>3, <1>4 DEF Connect

\* The tool of a job's spec is guarded.
LEMMA SpecGuarded ==
  ASSUME TypeInv, CallInv, NEW p \in DOMAIN setup.jobs,
         setup.jobs[p].kind = "scan" => \E i \in DOMAIN tables : tables[i].name = setup.jobs[p].table
  PROVE Guarded(setup, SpecOf(setup.jobs[p]).tool)
<1> DEFINE job == setup.jobs[p]
<1>1. \/ job.kind = "scan"
      \/ job.kind = "invoke" /\ "tool" \in DOMAIN job.def.body
  BY ScenariosAssumption DEF TypeInv
<1>2. CASE job.kind = "scan"
  <2>1. PICK i \in DOMAIN tables : SpecOf(job) = tables[i] BY <1>2 DEF SpecOf
  <2> QED BY <2>1 DEF CallInv
<1>3. CASE job.kind = "invoke" /\ "tool" \in DOMAIN job.def.body
  <2> DEFINE merged == DeepMerge(NewTable(job.def.name), job.def.body)
  <2>1. "tool" \in DOMAIN NewTable(job.def.name) BY DEF NewTable
  <2>2. merged.tool = job.def.body["tool"] BY <1>3, <2>1, DeepMergeTool
  <2> HIDE DEF merged
  <2>3. SpecOf(job).tool = merged.tool
    <3>1. SpecOf(job) = [merged EXCEPT !.args = job.def.args, !.columns = <<>>]
      BY <1>3 DEF SpecOf, FunctionSpec, merged
    <3> QED BY <3>1
  <2>4. Declared(setup, SpecOf(job).tool) BY <1>3, <2>2, <2>3 DEF Declared
  <2> QED BY <2>4 DEF Guarded
<1> QED BY <1>1, <1>2, <1>3

\* The request for a page of a tool's rows.
LEMMA CallToolIs ==
  ASSUME NEW t, IsTask(t), NEW job, NEW cursor
  PROVE LET a == CallTool(t, job, cursor)
        IN  IsTask(a) /\ a.phase = "enlist" /\ a.method = "tools/call" /\ a.params.name = SpecOf(job).tool
<1> DEFINE args == PageArgs(SpecOf(job), BaseArgs(SpecOf(job), BoundOf(job), PushedLimit(job)), cursor)
           params == [NoParams EXCEPT !.name = SpecOf(job).tool, !.arguments = args]
<1>1. CallTool(t, job, cursor) = Ask(t, "tools/call", params) BY DEF CallTool
<1> HIDE DEF args
<1>2. params.name = SpecOf(job).tool BY DEF NoParams
<1> HIDE DEF params
<1> QED BY <1>1, <1>2, AskIs

\* A query starts, once the source is registered.
LEMMA BeginKeeps ==
  ASSUME SourceInv, NEW p \in Job, Begin(p)
  PROVE SourceInv'
<1> DEFINE job == setup.jobs[p]
<1>0. TypeInv /\ CallInv /\ p \in Actor /\ p # Reg /\ p \in DOMAIN setup.jobs
  BY ScenariosAssumption DEF SourceInv, Begin, Actor, Reg
<1>1. R.phase = "told"
  <2>1. R.told # None BY DEF Begin, R, Some, None
  <2> QED BY <2>1 DEF SourceInv, AloneInv
<1>2. UNCHANGED <<setup, tables, conn, lines, called>> BY DEF Begin
<1>3. IsConn(conn') /\ IsVec(lines') BY <1>0, <1>2, TypeSame
<1>4. IsTask(task[p]) BY <1>0, ActorIs
<1>5. CASE SetTask(p, Tell(task[p], Err("Plan")))
  <2> DEFINE t == Tell(task[p], Err("Plan"))
  <2>1. IsTask(t) /\ t.method = task[p].method /\ t.params = task[p].params BY <1>4, TellIs
  <2> HIDE DEF t
  <2>2. Callable(p, t) BY <1>0, <2>1, SameCallable
  <2> QED BY <1>0, <1>1, <1>2, <1>3, <1>5, <2>1, <2>2, ToldKept DEF t
<1>6. CASE /\ job.kind = "scan" => \E i \in DOMAIN tables : tables[i].name = job.table
           /\ SetTask(p, CallTool(task[p], job, None))
  <2> DEFINE t == CallTool(task[p], job, None)
  <2>1. IsTask(t) /\ t.method = "tools/call" /\ t.params.name = SpecOf(job).tool BY <1>4, CallToolIs
  <2>2. Guarded(setup, SpecOf(job).tool) BY <1>0, <1>6, SpecGuarded
  <2> HIDE DEF t
  <2>3. Callable(p, t) BY <1>0, <1>6, <2>1, <2>2 DEF Callable
  <2> QED BY <1>0, <1>1, <1>2, <1>3, <1>6, <2>1, <2>3, ToldKept DEF t
<1> QED BY <1>5, <1>6 DEF Begin, InSome

\* A request gets its id.
LEMMA EnlistKeeps ==
  ASSUME SourceInv, NEW p \in Actor, Enlist(p)
  PROVE SourceInv'
<1> DEFINE n == conn.next_id
           t == [task[p] EXCEPT !.phase = "write", !.id = n]
           pending == IF Stdio THEN (n :> p) @@ conn.pending ELSE conn.pending
<1>0. TypeInv /\ CallInv /\ Reg \in Actor /\ R = task[Reg] BY DEF SourceInv, Actor, R
<1>1. IsTask(task[p]) /\ task[p].phase = "enlist" BY <1>0, ActorIs DEF Enlist
<1>2. SetTask(p, t) /\ UNCHANGED <<setup, tables, served, lines, called>> BY DEF Enlist
<1>3. IsConn(conn') /\ conn'.next_id = n + 1 /\ conn'.session = conn.session /\ n \in Nat
  <2>1. conn' = [conn EXCEPT !.next_id = n + 1, !.pending = pending] BY Zenon DEF Enlist
  <2>2. IsConn(conn) BY <1>0 DEF TypeInv
  <2> HIDE DEF pending, n
  <2>3. n \in Nat BY <2>2 DEF IsConn, n
  <2>4. conn = [f \in {"next_id", "pending", "session", "up"} |-> conn[f]] BY <2>2 DEF IsConn
  <2>5. /\ conn'.next_id = n + 1 /\ conn'.session = conn.session
        /\ conn' = [f \in {"next_id", "pending", "session", "up"} |-> conn'[f]]
    BY <2>1, <2>4
  <2> QED BY <2>3, <2>5 DEF IsConn
<1>4. /\ IsTask(t) /\ t.phase = "write" /\ t.method = task[p].method /\ t.params = task[p].params
      /\ t.told = task[p].told /\ t.id = n /\ t.acc = task[p].acc
  <2> HIDE DEF n
  <2>1. IsTask(task[p]) BY <1>1
  <2> QED BY <2>1 DEF IsTask, Fields
<1> HIDE DEF n, t, pending
<1>5. IsVec(lines') BY <1>0, <1>2 DEF TypeInv
<1>6. CASE p # Reg
  <2>1. R.phase = "told" BY <1>1, <1>6, JobsWait
  <2>2. Callable(p, t) BY <1>0, <1>4, SameCallable
  <2> QED BY <1>2, <1>3, <1>4, <1>5, <1>6, <2>1, <2>2, ToldKept
<1>7. CASE p = Reg
  <2>1. R.phase = "enlist" /\ AloneInv /\ IdInv /\ PageInv BY <1>0, <1>1, <1>7 DEF SourceInv
  <2>2. TypeInv' /\ CallInv' /\ AloneInv' /\ R' = t
    <3>1. \A r \in served' : r.from = Reg BY <1>2, <2>1 DEF AloneInv
    <3>2. /\ t.method \in {"", "initialize", "notifications/initialized", "tools/list"}
          /\ t.told = None
      BY <1>0, <1>4, <1>7, <2>1 DEF AloneInv
    <3>3. t.method # "tools/call" BY <3>2
    <3> QED BY <1>2, <1>3, <1>4, <1>5, <1>7, <2>1, <3>1, <3>2, <3>3, RegStep
  <2>3. IdInv'
    <3>1. \A i \in DOMAIN lines : lines[i].id # None => Issued(conn'.next_id, lines[i].id) /\ lines[i].id # Some(n)
      <4> SUFFICES ASSUME NEW i \in DOMAIN lines, lines[i].id # None
                   PROVE Issued(conn'.next_id, lines[i].id) /\ lines[i].id # Some(n)
        OBVIOUS
      <4>1. PICK k \in 0..(conn.next_id - 1) : lines[i].id = Some(k) BY <2>1 DEF IdInv, Issued
      <4>2. k \in 0..(conn'.next_id - 1) /\ k # n BY <1>3, <4>1 DEF n
      <4>3. Some(k) # Some(n) BY <4>2 DEF Some
      <4>4. lines'[i].id = Some(k) BY <1>2, <4>1
      <4> QED BY <1>2, <4>1, <4>2, <4>3, <4>4 DEF Issued
    <3>2. \A i \in DOMAIN lines : lines[i].id # Some(n)
      <4>1. Some(n) # None BY DEF Some, None
      <4> QED BY <3>1, <4>1
    <3>3. \A r \in served : r.id \in Nat /\ r.id < conn'.next_id /\ r.id # n BY <1>3, <2>1 DEF IdInv, n
    <3>4. ~Stdio => lines = <<>> /\ served = {} BY <2>1 DEF IdInv
    <3>5. Stdio' = Stdio BY <1>2 DEF Stdio
    <3>6. t.id \in Nat /\ t.id < conn'.next_id /\ t.phase # "wait" BY <1>3, <1>4
    <3> QED BY <1>2, <1>4, <2>2, <3>1, <3>2, <3>3, <3>4, <3>5, <3>6 DEF IdInv
  <2>4. PageInv'
    <3>1. t.phase # "wait" /\ t.phase # "got" BY <1>4
    <3> QED BY <1>0, <1>2, <1>4, <1>7, <2>1, <2>2, <3>1 DEF PageInv
  <2> QED BY <2>2, <2>3, <2>4 DEF SourceInv
<1> QED BY <1>6, <1>7

\* A request is sent.
LEMMA WriteKeeps ==
  ASSUME SourceInv, NEW p \in Actor, Write(p)
  PROVE SourceInv'
<1> DEFINE t == task[p]
           request == [id |-> t.id, from |-> p, method |-> t.method, params |-> t.params,
                       session |-> conn.session]
           wait == [t EXCEPT !.phase = "wait"]
<1>0. TypeInv /\ CallInv /\ Reg \in Actor /\ R = task[Reg] BY DEF SourceInv, Actor, R
<1>1. IsTask(t) /\ t.phase = "write" BY <1>0, ActorIs DEF Write
<1>2. /\ UNCHANGED <<setup, tables, conn, lines>>
      /\ called' = called \cup (IF t.method = "tools/call" THEN {t.params.name} ELSE {})
  BY DEF Write
<1>3. \/ SetTask(p, Tell(t, Err("Transport"))) /\ served' = served
      \/ Stdio /\ IsNotification(t) /\ SetTask(p, Ask(t, "tools/list", NoParams)) /\ served' = served
      \/ SetTask(p, wait) /\ served' = served \cup {request} /\ (~Stdio \/ ~IsNotification(t))
  BY DEF Write
<1>4. /\ IsTask(wait) /\ wait.phase = "wait" /\ wait.method = t.method /\ wait.params = t.params
      /\ wait.told = t.told /\ wait.id = t.id /\ wait.acc = t.acc
  BY <1>1, PhaseIs
<1>5. IsConn(conn') /\ IsVec(lines') BY <1>0, <1>2, TypeSame
<1>6. CASE p # Reg
  <2>1. R.phase = "told" /\ p \in Job BY <1>1, <1>6, JobsWait
  <2>2. Callable(p, t) BY <1>0 DEF CallInv
  <2>3. \A name \in called' : name \in called \/ Guarded(setup, name) BY <1>2, <2>2 DEF Callable
  <2>4. ~IsNotification(t) BY <2>1, <2>2 DEF Callable, IsNotification
  <2>5. CASE SetTask(p, Tell(t, Err("Transport")))
    <3> DEFINE u == Tell(t, Err("Transport"))
    <3>1. IsTask(u) /\ u.method = t.method /\ u.params = t.params BY <1>1, TellIs
    <3> HIDE DEF u
    <3>2. Callable(p, u) BY <1>0, <3>1, SameCallable
    <3> QED BY <1>2, <1>5, <1>6, <2>1, <2>3, <2>5, <3>1, <3>2, ToldKept DEF u
  <2>6. CASE SetTask(p, wait)
    <3> HIDE DEF wait
    <3>1. Callable(p, wait) BY <1>0, <1>4, SameCallable
    <3> QED BY <1>2, <1>4, <1>5, <1>6, <2>1, <2>3, <2>6, <3>1, ToldKept
  <2> QED BY <1>3, <2>4, <2>5, <2>6
<1>7. CASE p = Reg
  <2>1. t = R /\ R.phase = "write" /\ AloneInv /\ IdInv /\ PageInv BY <1>0, <1>1, <1>7 DEF SourceInv
  <2>2. /\ t.method \in {"", "initialize", "notifications/initialized", "tools/list"}
        /\ t.told = None
        /\ t.method # "tools/call"
    BY <2>1 DEF AloneInv
  <2>3. called' = called BY <1>2, <2>2
  <2>4. R.id \in Nat /\ R.id < conn.next_id /\ IsVec(R.acc) /\ \A i \in DOMAIN R.acc : Listed(setup, R.acc[i])
    BY <2>1 DEF IdInv, PageInv
  <2>5. CASE SetTask(p, Tell(t, Err("Transport"))) BY <1>2, <1>7, <2>1, <2>3, <2>5, TellReg
  <2>6. CASE SetTask(p, Ask(t, "tools/list", NoParams)) /\ served' = served
    <3> DEFINE u == Ask(t, "tools/list", NoParams)
    <3>1. IsTask(u) /\ u.phase = "enlist" /\ u.method = "tools/list" /\ u.params = NoParams /\ u.told = t.told
          /\ u.id = t.id /\ u.acc = t.acc
      BY <1>1, AskIs
    <3> HIDE DEF u
    <3>2. AsksPage(setup, u.params.cursor) BY <3>1 DEF AsksPage, NoParams
    <3> QED BY <1>2, <1>7, <2>1, <2>2, <2>3, <2>4, <2>6, <3>1, <3>2, MoveOn DEF u
  <2>7. CASE SetTask(p, wait) /\ served' = served \cup {request} /\ (~Stdio \/ ~IsNotification(t))
    <3> HIDE DEF wait
    <3>1. TypeInv' /\ CallInv' /\ AloneInv' /\ R' = wait
      <4>0. request.from = Reg BY <1>7
      <4>1. \A r \in served' : r.from = Reg
        <5> HIDE DEF request
        <5> QED BY <2>1, <2>7, <4>0 DEF AloneInv
      <4> HIDE DEF t
      <4> QED BY <1>2, <1>4, <1>5, <1>7, <2>1, <2>2, <2>3, <2>7, <4>1, RegStep
    <3>2. request.id = R.id /\ request.method = R.method /\ request.params = R.params BY <2>1
    <3>3. Stdio' = Stdio BY <1>2 DEF Stdio
    <3>4. IdInv'
      <4>1. \A i \in DOMAIN lines : lines[i].id # None => Issued(conn'.next_id, lines[i].id) BY <1>2, <2>1 DEF IdInv, Issued
      <4>2. ~Stdio => lines = <<>> /\ served = {} BY <2>1 DEF IdInv
      <4>3. Posted' = request BY <1>2, <1>4, <1>7, <2>1, <3>1 DEF Posted
      <4>4. \A r \in served' : r.id \in Nat /\ r.id < conn.next_id BY <2>1, <2>7, <3>2 DEF IdInv
      <4>5. ~Stdio => served' = {request} BY <2>7, <4>2
      <4> HIDE DEF request, t
      <4> QED BY <1>2, <1>4, <2>1, <2>4, <3>1, <3>3, <4>1, <4>2, <4>3, <4>4, <4>5 DEF IdInv
    <3>5. PageInv'
      <4>1. Stdio => \A r \in served : r.id # R.id BY <2>1, <2>7 DEF IdInv
      <4>2. Stdio => \A i \in DOMAIN lines : lines[i].id # Some(R.id) BY <2>1, <2>7 DEF IdInv
      <4>3. Stdio => \A r \in served' : r.id = R.id => r.method = R.method /\ r.params = R.params
        BY <2>7, <3>2, <4>1
      <4>4. R.method = "tools/list" => AsksPage(setup, R.params.cursor) BY <2>1 DEF PageInv
      <4> HIDE DEF request, t
      <4> QED BY <1>2, <1>4, <2>1, <2>4, <3>1, <3>3, <4>2, <4>3, <4>4 DEF PageInv
    <3> QED BY <3>1, <3>4, <3>5 DEF SourceInv
  <2> QED BY <1>3, <2>5, <2>6, <2>7
<1> QED BY <1>6, <1>7

\* A Vec after its first element.
LEMMA TailVec ==
  ASSUME NEW s, IsVec(s), s # <<>>
  PROVE /\ IsVec(Tail(s)) /\ 1 \in DOMAIN s /\ Head(s) = s[1]
        /\ \A i \in DOMAIN Tail(s) : \E k \in DOMAIN s : Tail(s)[i] = s[k]
<1> DEFINE S == Range(s)
           t == Tail(s)
<1>1. s \in Seq(S) BY DEF IsVec
<1>2. \A x \in S : \E k \in DOMAIN s : x = s[k] BY DEF Range
<1> HIDE DEF S
<1>3. t \in Seq(S) /\ 1 \in DOMAIN s /\ Head(s) = s[1] BY <1>1
<1> HIDE DEF t
<1>4. IsVec(t) BY <1>3, SeqVec
<1>5. \A i \in DOMAIN t : t[i] \in S BY <1>3
<1> QED BY <1>2, <1>3, <1>4, <1>5 DEF t

\* A line of the child is read.
LEMMA ReadKeeps ==
  ASSUME SourceInv, Read
  PROVE SourceInv'
<1> DEFINE line == Head(lines)
           to == Addressee(conn, line)
           Took(p) == to # None /\ to[1].by = p /\ task[p].phase = "wait" /\ task[p].id = to[1].id
           After(p) == [task[p] EXCEPT !.phase = "got", !.got = Some(line)]
<1>0. TypeInv /\ CallInv /\ Reg \in Actor /\ R = task[Reg] /\ IsTask(R)
  BY ActorIs DEF SourceInv, Actor, R
<1>1. /\ UNCHANGED <<setup, tables, served, called>>
      /\ lines # <<>> /\ lines' = Tail(lines) /\ conn' = Received(conn, line)
      /\ task' = [p \in Actor |-> IF Took(p) THEN After(p) ELSE task[p]]
  BY DEF Read
<1>2. IsConn(conn') /\ conn'.next_id = conn.next_id /\ conn'.session = conn.session
  <2> DEFINE left == [i \in DOMAIN conn.pending \ {line.id[1]} |-> conn.pending[i]]
  <2>1. conn' = conn \/ conn' = [conn EXCEPT !.pending = left] BY <1>1, Zenon DEF Received
  <2>2. IsConn(conn) BY <1>0 DEF TypeInv
  <2> HIDE DEF left
  <2> QED BY <2>1, <2>2 DEF IsConn
<1>3. /\ IsVec(Tail(lines)) /\ 1 \in DOMAIN lines /\ line = lines[1]
      /\ \A i \in DOMAIN Tail(lines) : \E k \in DOMAIN lines : Tail(lines)[i] = lines[k]
  BY <1>0, <1>1, TailVec DEF TypeInv
<1>4. \A p \in Actor :
         /\ IsTask(After(p)) /\ After(p).phase = "got" /\ After(p).method = task[p].method
         /\ After(p).params = task[p].params /\ After(p).told = task[p].told /\ After(p).id = task[p].id
         /\ After(p).acc = task[p].acc /\ After(p).got = Some(line)
  <2> HIDE DEF line
  <2> TAKE p \in Actor
  <2>1. IsTask(task[p]) BY <1>0, ActorIs
  <2> QED BY <2>1 DEF IsTask, Fields
<1>5. Took(Reg) => line.id = Some(R.id) /\ R.phase = "wait"
  <2> SUFFICES ASSUME Took(Reg) PROVE line.id = Some(R.id) /\ R.phase = "wait" OBVIOUS
  <2>1. line.id # None /\ to[1].id = line.id[1] BY DEF Addressee, Some
  <2>2. AloneInv /\ IdInv BY <1>0 DEF SourceInv
  <2>3. PICK k \in 0..(conn.next_id - 1) : line.id = Some(k) BY <1>3, <2>1, <2>2 DEF IdInv, Issued
  <2> QED BY <1>0, <2>1, <2>3 DEF Some
<1> HIDE DEF to, Took, After
<1>6. \A p \in Actor : task'[p] = IF Took(p) THEN After(p) ELSE task[p] BY <1>1
<1>7. \A p \in Actor : IsTask(task'[p]) /\ task'[p].method = task[p].method /\ task'[p].params = task[p].params
  BY <1>0, <1>4, <1>6, ActorIs
<1>8. TypeInv'
  <2>1. task' = [p \in Actor |-> task'[p]] BY <1>1
  <2>2. \A p \in Actor : IsTask(task[p])' BY <1>7 DEF IsTask
  <2>3. IsConn(conn)' BY <1>2 DEF IsConn
  <2> QED BY <1>0, <1>1, <1>3, <2>1, <2>2, <2>3 DEF TypeInv
<1>9. CallInv'
  <2>1. \A p \in Actor : Callable(p, task'[p]) BY <1>0, <1>7, SameCallable
  <2>2. \A p \in Actor : Callable(p, task[p])' BY <1>1, <2>1 DEF Callable
  <2> QED BY <1>0, <1>1, <2>2 DEF CallInv
<1>10. ASSUME R'.phase # "told" PROVE AloneInv' /\ IdInv' /\ PageInv'
  <2>1. R' = IF Took(Reg) THEN After(Reg) ELSE R BY <1>0, <1>6 DEF R
  <2>2. R.phase # "told" BY <1>5, <1>10, <2>1
  <2>3. AloneInv /\ IdInv /\ PageInv BY <2>2 DEF SourceInv
  <2>4. Stdio /\ Stdio' = Stdio BY <1>1, <2>3 DEF IdInv, Stdio
  <2>5. \A i \in DOMAIN lines' : \E k \in DOMAIN lines : lines'[i] = lines[k] BY <1>1, <1>3
  <2>6. /\ R'.method = R.method /\ R'.params = R.params /\ R'.told = R.told /\ R'.id = R.id /\ R'.acc = R.acc
        /\ R'.phase \in {R.phase, "got"}
    BY <1>0, <1>4, <2>1
  <2>7. AloneInv'
    <3>1. \A p \in Job : task'[p] = task[p]
      <4>1. ASSUME NEW p \in Job, Took(p) PROVE FALSE BY <2>3, <4>1 DEF Took, AloneInv
      <4> QED BY <1>6, <4>1 DEF Actor
    <3> QED BY <1>1, <2>3, <2>6, <3>1 DEF AloneInv
  <2>8. IdInv'
    <3>1. \A i \in DOMAIN lines' : lines'[i].id # None => Issued(conn'.next_id, lines'[i].id) BY <1>2, <2>3, <2>5 DEF IdInv, Issued
    <3>2. R'.phase = "write" => R.phase = "write" BY <2>6
    <3>3. R.phase = "write" /\ ~IsNotification(R) =>
             /\ \A r \in served : r.id # R.id
             /\ \A i \in DOMAIN lines' : lines'[i].id # Some(R.id)
      BY <2>3, <2>4, <2>5 DEF IdInv
    <3>4. \A r \in served : r.id \in Nat /\ r.id < conn'.next_id BY <1>2, <2>3 DEF IdInv
    <3>5. R'.id \in Nat /\ R'.id < conn'.next_id BY <1>2, <2>3, <2>6 DEF IdInv
    <3> QED BY <1>1, <2>4, <2>6, <3>1, <3>2, <3>3, <3>4, <3>5 DEF IdInv, IsNotification
  <2>9. PageInv'
    <3>1. R'.phase = "wait" => R.phase = "wait" BY <2>6
    <3>2. R.phase = "wait" => \A r \in served : r.id = R.id => r.method = R.method /\ r.params = R.params
      BY <2>3, <2>4 DEF PageInv
    <3>3. R.phase = "wait" /\ R.method = "tools/list" =>
             \A i \in DOMAIN lines : lines[i].id = Some(R.id) /\ ~lines[i].error => IsPage(setup, lines[i].result)
      BY <2>3, <2>4 DEF PageInv
    <3>4. R.phase = "wait" /\ R.method = "tools/list" =>
             \A i \in DOMAIN lines' : lines'[i].id = Some(R.id) /\ ~lines'[i].error => IsPage(setup, lines'[i].result)
      BY <2>5, <3>3
    <3>5. R'.phase = "got" /\ R'.method = "tools/list" =>
             R'.got = Some(R'.got[1]) /\ (~R'.got[1].error => IsPage(setup, R'.got[1].result))
      <4>1. CASE Took(Reg)
        <5>1. R'.got = Some(line) /\ line = R'.got[1] BY <1>0, <1>4, <2>1, <4>1 DEF Some
        <5>2. R.method = "tools/list" /\ ~line.error => IsPage(setup, line.result) BY <1>3, <1>5, <3>3, <4>1
        <5> QED BY <2>6, <5>1, <5>2
      <4>2. CASE ~Took(Reg)
        <5>1. R' = R BY <2>1, <4>2
        <5> QED BY <2>3, <2>4, <5>1 DEF PageInv
      <4> QED BY <4>1, <4>2
    <3>6. IsVec(R.acc) /\ (\A i \in DOMAIN R.acc : Listed(setup, R.acc[i]))
          /\ (R.method = "tools/list" => AsksPage(setup, R.params.cursor))
      BY <2>3 DEF PageInv
    <3> QED BY <1>1, <2>4, <2>6, <3>1, <3>2, <3>4, <3>5, <3>6 DEF PageInv
  <2> QED BY <2>7, <2>8, <2>9
<1> QED BY <1>8, <1>9, <1>10 DEF SourceInv

\* What the registration takes for a page of the listing, is one.
LEMMA RpcPage ==
  ASSUME PageInv, R.phase = "got", R.method = "tools/list", RpcResult(R).ok
  PROVE IsPage(setup, RpcResult(R).rows[1])
<1> DEFINE got == R.got[1]
           reply == IF Stdio THEN Ok(R.got) ELSE HttpReply(got, R)
<1>0. R.got = Some(got) BY DEF PageInv
<1>1. /\ RpcResult(R).ok => reply.ok /\ ~reply.rows[1].error
      /\ RpcResult(R).ok => RpcResult(R).rows[1] = reply.rows[1].result
  <2>1. RpcResult(R) = IF ~reply.ok THEN reply
                       ELSE IF reply.rows[1].error THEN Err("Rpc") ELSE Ok(<<reply.rows[1].result>>)
    BY Zenon DEF RpcResult
  <2>2. Err("Rpc").ok = FALSE /\ Ok(<<reply.rows[1].result>>).rows[1] = reply.rows[1].result BY DEF Ok, Err
  <2> HIDE DEF reply
  <2> QED BY <2>1, <2>2
<1>2. CASE Stdio
  <2>1. reply.rows = R.got BY <1>2 DEF Ok
  <2>2. reply.rows[1] = got BY <2>1
  <2> HIDE DEF reply, got
  <2>3. ~got.error => IsPage(setup, got.result) BY <1>2 DEF PageInv, got
  <2> QED BY <1>1, <2>2, <2>3
<1>3. CASE ~Stdio
  <2> DEFINE messages == got.messages
             at == {i \in DOMAIN messages : messages[i].json /\ messages[i].id = Some(R.id)}
             found == IF got.sse THEN Pick(messages, at) ELSE messages
  <2>1. PageBody(setup, R.id, got) BY <1>3 DEF PageInv
  <2>2. IsVec(messages) BY <2>1 DEF PageBody
  <2>3. reply = HttpReply(got, R) BY <1>3
  <2>4. HttpReply(got, R) = IF got.status \notin 200..299 THEN Err("Transport")
                            ELSE IF found = <<>> \/ ~found[1].json THEN Err("Protocol") ELSE Ok(<<found[1]>>)
    <3>1. ~IsNotification(R) BY DEF IsNotification
    <3>2. found = IF got.sse THEN SseResponseFor(messages, R.id) ELSE messages BY DEF SseResponseFor
    <3> HIDE DEF found, got
    <3> QED BY <3>1, <3>2, Zenon DEF HttpReply
  <2> HIDE DEF found, messages, got, reply
  <2>5. /\ found # <<>> /\ found[1].json
        /\ reply.rows[1] = found[1]
    <3> DEFINE y == found[1]
               bad == got.status \notin 200..299
    <3>1. ~Err("Transport").ok /\ ~Err("Protocol").ok /\ Ok(<<y>>).rows[1] = y BY DEF Ok, Err
    <3>2. reply.ok BY <1>1
    <3>3. reply = IF bad THEN Err("Transport")
                  ELSE IF found = <<>> \/ ~y.json THEN Err("Protocol") ELSE Ok(<<y>>)
      BY <2>3, <2>4
    <3> HIDE DEF y, bad
    <3>4. ~bad /\ found # <<>> /\ y.json /\ reply = Ok(<<y>>) BY <3>1, <3>2, <3>3
    <3> QED BY <3>1, <3>4 DEF y
  <2>6. PICK k \in DOMAIN messages : found[1] = messages[k] /\ (got.sse => messages[k].id = Some(R.id))
    <3>1. CASE got.sse
      <4>1. found = Pick(messages, at) BY <3>1 DEF found
      <4> DEFINE picked == Pick(messages, at)
      <4> HIDE DEF at
      <4>2. /\ IsVec(picked)
            /\ \A i \in DOMAIN picked : \E k \in (DOMAIN messages) \cap at : picked[i] = messages[k]
        BY <2>2, PickVec
      <4> HIDE DEF picked
      <4>3. 1 \in DOMAIN found BY <2>5, <4>1, <4>2, TailVec DEF picked
      <4>4. \E k \in (DOMAIN messages) \cap at : found[1] = messages[k] BY <4>1, <4>2, <4>3 DEF picked
      <4> QED BY <4>4 DEF at
    <3>2. CASE ~got.sse
      <4>1. found = messages BY <3>2 DEF found
      <4>2. 1 \in DOMAIN messages BY <2>2, <2>5, <4>1, TailVec
      <4> QED BY <3>2, <4>1, <4>2
    <3> QED BY <3>1, <3>2
  <2>7. ~found[1].error BY <1>1, <2>5
  <2>8. IsPage(setup, found[1].result) BY <2>1, <2>5, <2>6, <2>7 DEF PageBody, messages
  <2> QED BY <1>1, <2>5, <2>8
<1> QED BY <1>2, <1>3

\* The registration ends with tables of guarded tools, or without.
LEMMA RegisterKeeps ==
  ASSUME SourceInv, R.phase # "told", NEW x, IsPage(setup, x), Register(R, x),
         UNCHANGED <<setup, conn, lines, called>>
  PROVE SourceInv'
<1>0. TypeInv /\ CallInv /\ AloneInv /\ PageInv /\ Reg \in Actor /\ IsTask(R)
  BY ActorIs DEF SourceInv, Actor, R
<1> DEFINE tools == R.acc \o ParseTools(x)
           specs == ApplyTableDefs(SynthesizeTools(tools, setup.opts), setup.defs)
<1>1. IsVec(tools) /\ \A j \in DOMAIN tools : Listed(setup, tools[j]) BY <1>0, GrownListed DEF PageInv
<1>2. \/ SetTask(Reg, Tell(R, Err("Config"))) /\ tables' = tables
      \/ specs # None /\ SetTask(Reg, Tell(R, Ok(<<>>))) /\ tables' = specs[1]
  BY Zenon DEF Register
<1> HIDE DEF tools
<1>3. specs # None => GoodTables(specs[1]) BY <1>0, <1>1, RegisteredGood
<1> HIDE DEF specs
<1>4. CASE SetTask(Reg, Tell(R, Err("Config"))) /\ tables' = tables BY <1>4, TellReg
<1>5. CASE specs # None /\ SetTask(Reg, Tell(R, Ok(<<>>))) /\ tables' = specs[1]
  <2> DEFINE t == Tell(R, Ok(<<>>))
  <2>1. IsTask(t) /\ t.phase = "told" /\ t.method = R.method BY <1>0, TellIs
  <2>2. SetTask(Reg, t) BY <1>5
  <2> HIDE DEF t
  <2>3. TypeInv' BY <1>0, <2>1, <2>2, TypeKept, TypeSame
  <2>4. \A q \in Actor : task'[q] = IF q = Reg THEN t ELSE task[q] BY <1>0, <2>1, <2>2, SetTaskIs
  <2>5. \A q \in Actor : task'[q].method # "tools/call" /\ (q \in Job => task'[q].method = "")
    BY <1>0, <2>1, <2>4, ScenariosAssumption DEF AloneInv, Actor, Reg
  <2>6. \A q \in Actor : Callable(q, task[q])' BY <2>5 DEF Callable
  <2>7. \A i \in DOMAIN tables' : Guarded(setup, tables'[i].tool) BY <1>3, <1>5 DEF GoodTables, GoodTable
  <2>8. CallInv' BY <1>0, <2>6, <2>7 DEF CallInv
  <2>9. R'.phase = "told" BY <1>0, <2>1, <2>4 DEF R
  <2> QED BY <2>3, <2>8, <2>9 DEF SourceInv
<1> QED BY <1>2, <1>4, <1>5

\* The registration takes an answer.
LEMMA ContinueRegKeeps ==
  ASSUME SourceInv, Continue(Reg)
  PROVE SourceInv'
<1> DEFINE reply == RpcResult(R)
           x == reply.rows[1]
<1>0. /\ TypeInv /\ CallInv /\ AloneInv /\ IdInv /\ PageInv /\ Reg \in Actor /\ IsTask(R)
      /\ R = task[Reg] /\ R.phase = "got"
  BY ActorIs DEF SourceInv, Actor, R, Continue
<1>1. UNCHANGED <<setup, conn, served, lines, called>> BY DEF Continue
<1>2. \/ SetTask(Reg, Tell(R, reply)) /\ tables' = tables
      \/ SetTask(Reg, Notify(R, "notifications/initialized")) /\ tables' = tables
      \/ SetTask(Reg, Ask(R, "tools/list", NoParams)) /\ tables' = tables
      \/ reply.ok /\ R.method = "tools/list" /\ x.next # None /\ ListTools(R, x)
      \/ reply.ok /\ R.method = "tools/list" /\ Register(R, x)
      \/ R.method = "tools/call"
  BY <1>0, Zenon DEF Continue
<1>3. R.id \in Nat /\ R.id < conn.next_id /\ IsVec(R.acc) /\ (\A i \in DOMAIN R.acc : Listed(setup, R.acc[i]))
      /\ R.told = None
  BY <1>0 DEF IdInv, PageInv, AloneInv
<1>4. conn.next_id \in Nat \ {0} BY <1>0 DEF TypeInv, IsConn
<1>5. CASE SetTask(Reg, Tell(R, reply)) /\ tables' = tables
  <2> HIDE DEF reply
  <2> QED BY <1>0, <1>1, <1>5, TellReg
<1>6. CASE SetTask(Reg, Notify(R, "notifications/initialized")) /\ tables' = tables
  <2> DEFINE u == Notify(R, "notifications/initialized")
  <2>1. IsTask(u) /\ u.phase = "write" /\ u.method = "notifications/initialized"
        /\ u.told = R.told /\ u.id = 0 /\ u.acc = R.acc
    BY <1>0, NotifyIs
  <2> HIDE DEF u
  <2>2. IsNotification(u) BY <2>1 DEF IsNotification
  <2> QED BY <1>0, <1>1, <1>3, <1>4, <1>6, <2>1, <2>2, MoveOn DEF u
<1>7. CASE SetTask(Reg, Ask(R, "tools/list", NoParams)) /\ tables' = tables
  <2> DEFINE u == Ask(R, "tools/list", NoParams)
  <2>1. IsTask(u) /\ u.phase = "enlist" /\ u.method = "tools/list" /\ u.params = NoParams /\ u.told = R.told
        /\ u.id = R.id /\ u.acc = R.acc
    BY <1>0, AskIs
  <2> HIDE DEF u
  <2>2. AsksPage(setup, u.params.cursor) BY <2>1 DEF AsksPage, NoParams
  <2> QED BY <1>0, <1>1, <1>3, <1>7, <2>1, <2>2, MoveOn DEF u
<1>8. reply.ok /\ R.method = "tools/list" => IsPage(setup, x) BY <1>0, RpcPage
<1> HIDE DEF reply, x
<1>9. CASE reply.ok /\ R.method = "tools/list" /\ x.next # None /\ ListTools(R, x)
  <2> DEFINE acc == R.acc \o ParseTools(x)
             grown == [R EXCEPT !.acc = acc]
             params == [NoParams EXCEPT !.cursor = x.next]
             u == Ask(grown, "tools/list", params)
  <2>1. IsVec(acc) /\ \A i \in DOMAIN acc : Listed(setup, acc[i]) BY <1>0, <1>3, <1>8, <1>9, GrownListed
  <2>2. SetTask(Reg, u) /\ tables' = tables BY <1>9, Zenon DEF ListTools
  <2>3. params.cursor = x.next BY DEF NoParams
  <2> HIDE DEF acc, params
  <2>4. IsTask(grown) /\ grown.told = R.told /\ grown.id = R.id /\ grown.acc = acc BY <1>0, GrownIs
  <2> HIDE DEF grown
  <2>5. IsTask(u) /\ u.phase = "enlist" /\ u.method = "tools/list" /\ u.params = params /\ u.told = grown.told
        /\ u.id = grown.id /\ u.acc = grown.acc
    BY <2>4, AskIs
  <2>6. AsksPage(setup, u.params.cursor) BY <1>8, <1>9, <2>3, <2>5 DEF IsPage
  <2> HIDE DEF u
  <2> QED BY <1>0, <1>1, <1>3, <2>1, <2>2, <2>4, <2>5, <2>6, MoveOn
<1>10. CASE reply.ok /\ R.method = "tools/list" /\ Register(R, x)
  BY <1>0, <1>1, <1>8, <1>10, RegisterKeeps
<1>11. R.method # "tools/call" BY <1>0 DEF AloneInv
<1> QED BY <1>2, <1>5, <1>6, <1>7, <1>9, <1>10, <1>11

\* A query takes an answer.
LEMMA ContinueJobKeeps ==
  ASSUME SourceInv, NEW p \in Job, Continue(p)
  PROVE SourceInv'
<1> DEFINE t == task[p]
           job == setup.jobs[p]
<1>0. TypeInv /\ CallInv /\ p \in Actor /\ p # Reg BY ScenariosAssumption DEF SourceInv, Actor, Reg
<1>1. IsTask(t) /\ t.phase = "got" BY <1>0, ActorIs DEF Continue
<1>2. R.phase = "told" BY <1>0, <1>1, JobsWait
<1>3. UNCHANGED <<setup, conn, lines, called>> BY DEF Continue
<1>4. IsConn(conn') /\ IsVec(lines') BY <1>0, <1>3, TypeSame
<1>5. Callable(p, t) BY <1>0 DEF CallInv
<1>6. t.method \in {"", "tools/call"} BY <1>5 DEF Callable
<1>7. /\ tables' = tables
      /\ \/ \E outcome : SetTask(p, Tell(t, outcome))
         \/ /\ t.method = "tools/call"
            /\ \E paged, next : IsTask(paged) /\ SetTask(p, CallTool(paged, job, next))
  <2>1. \/ \E reply : SetTask(p, Tell(t, reply)) /\ tables' = tables
        \/ \E x : t.method = "tools/call" /\ Fetched(p, t, x) /\ tables' = tables
    BY <1>6, Zenon DEF Continue, IsNotification
  <2>2. ASSUME NEW x, t.method = "tools/call", Fetched(p, t, x)
        PROVE \/ \E outcome : SetTask(p, Tell(t, outcome))
              \/ \E paged, next : IsTask(paged) /\ SetTask(p, CallTool(paged, job, next))
    <3> DEFINE rows == t.acc \o RowsFrom(StructuredResult(x), SpecOf(job).rows_path)
               paged == [t EXCEPT !.acc = rows, !.page = @ + 1]
    <3>1. \/ \E outcome : SetTask(p, Tell(t, outcome))
          \/ \E next : SetTask(p, CallTool(paged, job, next))
      BY <2>2, Zenon DEF Fetched
    <3>2. IsTask(paged)
      <4> HIDE DEF rows
      <4> QED BY <1>1 DEF IsTask, Fields
    <3> QED BY <3>1, <3>2, Zenon
  <2> QED BY <2>1, <2>2, Zenon
<1> HIDE DEF t
<1>8. ASSUME NEW outcome, SetTask(p, Tell(t, outcome)) PROVE SourceInv'
  <2> DEFINE u == Tell(t, outcome)
  <2>1. IsTask(u) /\ u.method = t.method /\ u.params = t.params BY <1>1, TellIs
  <2> HIDE DEF u
  <2>2. Callable(p, u) BY <1>0, <2>1, SameCallable DEF t
  <2> QED BY <1>0, <1>2, <1>3, <1>4, <1>7, <1>8, <2>1, <2>2, ToldKept DEF u
<1>9. ASSUME t.method = "tools/call", NEW paged, NEW next, IsTask(paged), SetTask(p, CallTool(paged, job, next))
      PROVE SourceInv'
  <2> DEFINE u == CallTool(paged, job, next)
  <2>1. IsTask(u) /\ u.method = "tools/call" /\ u.params.name = SpecOf(job).tool BY <1>9, CallToolIs
  <2>2. /\ p \in DOMAIN setup.jobs
        /\ job.kind = "scan" => \E i \in DOMAIN tables : tables[i].name = job.table
    BY <1>5, <1>9 DEF Callable
  <2>3. Guarded(setup, SpecOf(job).tool) BY <1>0, <2>2, SpecGuarded
  <2> HIDE DEF u
  <2>4. Callable(p, u) BY <2>1, <2>2, <2>3, <1>6, <1>9 DEF Callable
  <2> QED BY <1>0, <1>2, <1>3, <1>4, <1>7, <1>9, <2>1, <2>4, ToldKept DEF u
<1> QED BY <1>7, <1>8, <1>9

\* A query is dropped.
LEMMA CancelKeeps ==
  ASSUME SourceInv, NEW p \in Job, Cancel(p)
  PROVE SourceInv'
<1> DEFINE hurt == Hurt(task[p])
           t == Tell(hurt, Err("Cancelled"))
<1>0. TypeInv /\ CallInv /\ p \in Actor /\ p # Reg BY ScenariosAssumption DEF SourceInv, Actor, Reg
<1>1. IsTask(task[p]) /\ task[p].phase = "wait" BY <1>0, ActorIs DEF Cancel
<1>2. R.phase = "told" BY <1>0, <1>1, JobsWait
<1>3. SetTask(p, t) /\ UNCHANGED <<setup, tables, conn, lines, called>> BY DEF Cancel
<1>4. IsConn(conn') /\ IsVec(lines') BY <1>0, <1>3, TypeSame
<1>5. IsTask(hurt) /\ hurt.method = task[p].method /\ hurt.params = task[p].params BY <1>1, HurtIs
<1> HIDE DEF hurt
<1>6. IsTask(t) /\ t.method = task[p].method /\ t.params = task[p].params BY <1>5, TellIs
<1> HIDE DEF t
<1>7. Callable(p, t) BY <1>0, <1>6, SameCallable
<1> QED BY <1>0, <1>2, <1>3, <1>4, <1>6, <1>7, ToldKept

\* A message that answers a request as the server means it, or answers none.
Answers(m, r) ==
    m.id = None \/ (m.id = Some(r.id) /\ (r.method = "tools/list" => m.error \/ m.result = ToolPage(r.params.cursor)))

\* What a child prints for a request, answers it.
LEMMA PrintedAnswers ==
  ASSUME NEW r, NEW how, how = "tool" => r.method = "tools/call"
  PROVE IsVec(Printed(r, how)) /\ \A i \in DOMAIN Printed(r, how) : Answers(Printed(r, how)[i], r)
<1> DEFINE S == {Refused(r), ToolError(r), Garbage, Unreadable, Notice, Correct(r)}
           printed == Printed(r, how)
           good == {m \in S : Answers(m, r)}
<1>1. Answers(Refused(r), r) BY DEF Answers, Refused, Message
<1>2. Answers(Garbage, r) /\ Answers(Unreadable, r)
  <2>1. Garbage.id = None /\ Unreadable.id = None BY DEF Garbage, Unreadable, Message
  <2> QED BY <2>1 DEF Answers
<1>3. Answers(Notice, r) BY DEF Answers, Notice, Message
<1>4. Answers(Correct(r), r)
  <2>1. r.method = "tools/list" => Result(r) = ToolPage(r.params.cursor) BY Zenon DEF Result
  <2>2. Correct(r).id = Some(r.id) /\ Correct(r).result = Result(r) BY DEF Correct, Message
  <2> QED BY <2>1, <2>2 DEF Answers
<1>5. how = "tool" => Answers(ToolError(r), r)
  <2>1. ToolError(r).id = Some(r.id) BY DEF ToolError, Message
  <2> QED BY <2>1 DEF Answers
<1>6. /\ Refused(r) \in good /\ Garbage \in good /\ Notice \in good /\ Correct(r) \in good
      /\ Unreadable \in good
      /\ how = "tool" => ToolError(r) \in good
  BY <1>1, <1>2, <1>3, <1>4, <1>5
<1>7. printed \in Seq(good)
  <2>1. \/ printed = <<Refused(r)>>
        \/ how = "tool" /\ printed = <<ToolError(r)>>
        \/ printed = <<Garbage, Notice, Correct(r)>>
        \/ printed = <<Unreadable, Correct(r)>>
        \/ printed = <<Correct(r), Correct(r)>>
        \/ printed = <<Correct(r)>>
    BY DEF Printed
  <2> HIDE DEF good, printed
  <2>2. /\ <<Refused(r)>> \in Seq(good) /\ <<Correct(r)>> \in Seq(good)
        /\ <<Correct(r), Correct(r)>> \in Seq(good) /\ <<Garbage, Notice, Correct(r)>> \in Seq(good)
        /\ <<Unreadable, Correct(r)>> \in Seq(good)
    BY <1>6
  <2>3. how = "tool" => <<ToolError(r)>> \in Seq(good) BY <1>6
  <2> QED BY <2>1, <2>2, <2>3, Zenon
<1>8. IsVec(printed)
  <2> HIDE DEF good, printed
  <2> QED BY <1>7, SeqVec
<1>9. \A i \in DOMAIN printed : printed[i] \in good
  <2> HIDE DEF good, printed
  <2> QED BY <1>7
<1> QED BY <1>8, <1>9

\* What an HTTP server answers to the request for a page, is that page, if it
\* is no error and bears the request's id.
LEMMA ResponsePage ==
  ASSUME TypeInv, NEW r, NEW how, r.id \in Nat, r.method = "tools/list", AsksPage(setup, r.params.cursor),
         how # "tool"
  PROVE PageBody(setup, r.id, Response(r, how))
<1> DEFINE Shown(m, sse) == m.json /\ ~m.error /\ (sse => m.id = Some(r.id)) => IsPage(setup, m.result)
           Fit(a) == /\ IsVec(a.messages)
                     /\ \A i \in DOMAIN a.messages : Shown(a.messages[i], a.sse)
           other == Message(Some(r.id + 9), FALSE, JNull)
           in_sse == how \in {"sse", "nomatch"}
           Body(messages) == [status |-> 200, sse |-> in_sse, messages |-> messages]
           answer == Response(r, how)
<1>1. \/ answer = [status |-> 400, sse |-> FALSE, messages |-> <<>>]
      \/ answer = Body(<<Refused(r)>>)
      \/ answer = Body(<<Garbage>>)
      \/ in_sse /\ answer = Body(<<Notice, other>>)
      \/ in_sse /\ answer = Body(<<Notice, other, Correct(r)>>)
      \/ answer = Body(<<Correct(r)>>)
  BY DEF Response
<1>2. IsPage(setup, ToolPage(r.params.cursor)) BY PageOfCursor
<1>3. Shown(Refused(r), in_sse) BY DEF Refused, Message
<1>4. Shown(Garbage, in_sse) BY DEF Garbage, Message
<1>5. in_sse => Shown(Notice, in_sse) BY DEF Notice, Message, Some, None
<1>6. in_sse => Shown(other, in_sse)
  <2>1. other.id = Some(r.id + 9) BY DEF Message
  <2>2. Some(r.id + 9) # Some(r.id) BY DEF Some
  <2> QED BY <2>1, <2>2
<1>7. Shown(Correct(r), in_sse)
  <2>1. Result(r) = ToolPage(r.params.cursor) BY Zenon DEF Result
  <2>2. Correct(r).result = Result(r) BY DEF Correct, Message
  <2> QED BY <1>2, <2>1, <2>2
<1> HIDE DEF Shown, other, in_sse, answer
<1>8. ASSUME NEW S, \A m \in S : Shown(m, in_sse), NEW s \in Seq(S)
      PROVE IsVec(s) /\ \A i \in DOMAIN s : Shown(s[i], in_sse)
  BY <1>8, SeqVec
<1>9. ASSUME NEW s, IsVec(s), \A i \in DOMAIN s : Shown(s[i], in_sse), answer = Body(s)
      PROVE Fit(answer)
  BY <1>9
<1>10. Fit(answer)
  <2>1. CASE answer = [status |-> 400, sse |-> FALSE, messages |-> <<>>]
    <3>1. answer.messages = <<>> BY <2>1
    <3>2. IsVec(<<>>)
      <4>1. <<>> \in Seq({}) OBVIOUS
      <4> QED BY <4>1, SeqVec
    <3> QED BY <3>1, <3>2
  <2> DEFINE S == {m \in {Refused(r), Garbage, Notice, other, Correct(r)} : Shown(m, in_sse)}
  <2>2. \A m \in S : Shown(m, in_sse) OBVIOUS
  <2>3. Refused(r) \in S /\ Garbage \in S /\ Correct(r) \in S /\ (in_sse => Notice \in S /\ other \in S)
    BY <1>3, <1>4, <1>5, <1>6, <1>7
  <2> HIDE DEF S
  <2>4. <<Refused(r)>> \in Seq(S) /\ <<Garbage>> \in Seq(S) /\ <<Correct(r)>> \in Seq(S)
        /\ (in_sse => <<Notice, other>> \in Seq(S) /\ <<Notice, other, Correct(r)>> \in Seq(S))
    BY <2>3
  <2>5. CASE \E s \in Seq(S) : answer = Body(s)
    <3>1. PICK s \in Seq(S) : answer = Body(s) BY <2>5
    <3>2. IsVec(s) /\ \A i \in DOMAIN s : Shown(s[i], in_sse) BY <1>8, <2>2
    <3> HIDE DEF Body
    <3> QED BY <1>9, <3>1, <3>2
  <2> HIDE DEF Body, Fit
  <2> QED BY <1>1, <2>1, <2>4, <2>5, ZenonT(60)
<1> QED BY <1>10 DEF PageBody, Shown, answer

\* The child's answers, or its end, leave what the registration waits for.
LEMMA LinesKeep ==
  ASSUME SourceInv, R.phase # "told", Stdio, TypeInv', AloneInv', setup' = setup,
         R'.phase = R.phase, R'.method = R.method, R'.params = R.params, R'.id = R.id, R'.acc = R.acc,
         R'.got = R.got, conn'.next_id = conn.next_id, served' \subseteq served,
         \A i \in DOMAIN lines' :
             \/ \E k \in DOMAIN lines : lines'[i] = lines[k]
             \/ \E r \in served : Answers(lines'[i], r)
  PROVE IdInv' /\ PageInv'
<1>0. TypeInv /\ AloneInv /\ IdInv /\ PageInv /\ Stdio' BY DEF SourceInv, Stdio
<1>1. conn.next_id \in Nat BY <1>0 DEF TypeInv, IsConn
<1>2. IdInv'
  <2>1. \A i \in DOMAIN lines' : lines'[i].id # None => Issued(conn'.next_id, lines'[i].id)
    <3> SUFFICES ASSUME NEW i \in DOMAIN lines', lines'[i].id # None
                 PROVE Issued(conn.next_id, lines'[i].id)
      OBVIOUS
    <3>1. CASE \E k \in DOMAIN lines : lines'[i] = lines[k] BY <1>0, <3>1 DEF IdInv
    <3>2. CASE \E r \in served : Answers(lines'[i], r)
      <4>1. PICK r \in served : lines'[i].id = Some(r.id) BY <3>2 DEF Answers
      <4>2. r.id \in 0..(conn.next_id - 1) BY <1>0, <1>1 DEF IdInv
      <4> QED BY <4>1, <4>2 DEF Issued
    <3> QED BY <3>1, <3>2
  <2>2. R.phase = "write" /\ ~IsNotification(R) => \A r \in served : r.id # R.id BY <1>0 DEF IdInv
  <2>3. R.phase = "write" /\ ~IsNotification(R) => \A i \in DOMAIN lines' : lines'[i].id # Some(R.id)
    <3> SUFFICES ASSUME R.phase = "write", ~IsNotification(R), NEW i \in DOMAIN lines'
                 PROVE lines'[i].id # Some(R.id)
      OBVIOUS
    <3>1. CASE \E k \in DOMAIN lines : lines'[i] = lines[k] BY <1>0, <3>1 DEF IdInv
    <3>2. CASE \E r \in served : Answers(lines'[i], r)
      <4>1. PICK r \in served : Answers(lines'[i], r) BY <3>2
      <4>2. Some(r.id) # Some(R.id) BY <2>2 DEF Some
      <4>3. None # Some(R.id) BY DEF Some, None
      <4> QED BY <4>1, <4>2, <4>3 DEF Answers
    <3> QED BY <3>1, <3>2
  <2>4. R.id \in Nat /\ R.id < conn.next_id /\ \A r \in served : r.id \in Nat /\ r.id < conn.next_id
    BY <1>0 DEF IdInv
  <2>5. IsNotification(R)' <=> IsNotification(R) BY DEF IsNotification
  <2> QED BY <1>0, <2>1, <2>2, <2>3, <2>4, <2>5 DEF IdInv
<1>3. PageInv'
  <2>1. R.phase = "wait" => \A r \in served : r.id = R.id => r.method = R.method /\ r.params = R.params
    BY <1>0 DEF PageInv
  <2>2. R.phase = "wait" /\ R.method = "tools/list" =>
           \A i \in DOMAIN lines' : lines'[i].id = Some(R.id) /\ ~lines'[i].error => IsPage(setup, lines'[i].result)
    <3> SUFFICES ASSUME R.phase = "wait", R.method = "tools/list", NEW i \in DOMAIN lines',
                        lines'[i].id = Some(R.id), ~lines'[i].error
                 PROVE IsPage(setup, lines'[i].result)
      OBVIOUS
    <3>1. CASE \E k \in DOMAIN lines : lines'[i] = lines[k] BY <1>0, <3>1 DEF PageInv
    <3>2. CASE \E r \in served : Answers(lines'[i], r)
      <4>1. PICK r \in served : Answers(lines'[i], r) BY <3>2
      <4>2. r.id = R.id BY <4>1 DEF Answers, Some, None
      <4>3. r.method = R.method /\ r.params = R.params BY <2>1, <4>2
      <4>4. lines'[i].result = ToolPage(R.params.cursor)
        <5>1. None # Some(R.id) BY DEF Some, None
        <5> QED BY <4>1, <4>3, <5>1 DEF Answers
      <4>5. AsksPage(setup, R.params.cursor) BY <1>0 DEF PageInv
      <4> QED BY <1>0, <4>4, <4>5, PageOfCursor
    <3> QED BY <3>1, <3>2
  <2>3. IsVec(R.acc) /\ (\A i \in DOMAIN R.acc : Listed(setup, R.acc[i]))
        /\ (R.method = "tools/list" => AsksPage(setup, R.params.cursor))
    BY <1>0 DEF PageInv
  <2>4. R.phase = "got" /\ R.method = "tools/list" =>
           R.got = Some(R.got[1]) /\ (~R.got[1].error => IsPage(setup, R.got[1].result))
    BY <1>0 DEF PageInv
  <2> QED BY <1>0, <2>1, <2>2, <2>3, <2>4 DEF PageInv
<1> QED BY <1>2, <1>3

\* The child exits.
LEMMA CloseKeeps ==
  ASSUME SourceInv, Close
  PROVE SourceInv'
<1>0. TypeInv /\ CallInv /\ Reg \in Actor /\ R = task[Reg] BY DEF SourceInv, Actor, R
<1>1. /\ Stdio /\ UNCHANGED <<setup, tables, lines, called>> /\ served' = {}
      /\ conn' = [conn EXCEPT !.up = FALSE]
      /\ task' = [p \in Actor |-> IF task[p].phase = "told" THEN task[p] ELSE Hurt(task[p])]
  BY DEF Close
<1>2. IsConn(conn') /\ conn'.next_id = conn.next_id
  <2>1. IsConn(conn) BY <1>0 DEF TypeInv
  <2> QED BY <1>1, <2>1 DEF IsConn
<1>3. \A p \in Actor :
         /\ IsTask(task'[p]) /\ task'[p].phase = task[p].phase /\ task'[p].method = task[p].method
         /\ task'[p].params = task[p].params /\ task'[p].told = task[p].told /\ task'[p].id = task[p].id
         /\ task'[p].acc = task[p].acc /\ task'[p].got = task[p].got
  <2> TAKE p \in Actor
  <2>1. IsTask(task[p]) BY <1>0, ActorIs
  <2>2. task'[p] = task[p] \/ task'[p] = Hurt(task[p]) BY <1>1
  <2> QED BY <2>1, <2>2, HurtIs
<1>4. TypeInv'
  <2>1. task' = [p \in Actor |-> task'[p]] BY <1>1
  <2>2. \A p \in Actor : IsTask(task[p])' BY <1>3 DEF IsTask
  <2>3. IsConn(conn)' BY <1>2 DEF IsConn
  <2> QED BY <1>0, <1>1, <2>1, <2>2, <2>3 DEF TypeInv
<1>5. CallInv'
  <2>1. \A p \in Actor : Callable(p, task'[p]) BY <1>0, <1>3, SameCallable
  <2>2. \A p \in Actor : Callable(p, task[p])' BY <1>1, <2>1 DEF Callable
  <2> QED BY <1>0, <1>1, <2>2 DEF CallInv
<1>6. ASSUME R'.phase # "told" PROVE AloneInv' /\ IdInv' /\ PageInv'
  <2>1. /\ R'.phase = R.phase /\ R'.method = R.method /\ R'.params = R.params /\ R'.told = R.told
        /\ R'.id = R.id /\ R'.acc = R.acc /\ R'.got = R.got
    BY <1>0, <1>3 DEF R
  <2>2. R.phase # "told" /\ AloneInv BY <1>6, <2>1 DEF SourceInv
  <2>3. AloneInv' BY <1>1, <1>3, <2>1, <2>2, ZenonT(60) DEF AloneInv, Actor
  <2>4. setup' = setup /\ served' \subseteq served /\ \A i \in DOMAIN lines' : \E k \in DOMAIN lines : lines'[i] = lines[k]
    BY <1>1
  <2> QED BY <1>1, <1>2, <1>4, <2>1, <2>2, <2>3, <2>4, LinesKeep
<1> QED BY <1>4, <1>5, <1>6 DEF SourceInv

\* The server answers a request.
LEMMA ServeKeeps ==
  ASSUME SourceInv, NEW request \in served, NEW how, Serve(request, how)
  PROVE SourceInv'
<1> DEFINE p == request.from
           t == IF how \in Harmful THEN Hurt(task[p]) ELSE task[p]
           got == [t EXCEPT !.phase = "got", !.got = Some(Response(request, how))]
           answered == IF t.phase # "wait" THEN t ELSE got
           printed == Printed(request, how)
           session == IF request.method = "initialize" THEN Some("session") ELSE conn.session
<1>0. TypeInv /\ CallInv /\ Reg \in Actor /\ R = task[Reg] BY DEF SourceInv, Actor, R
<1>1. /\ UNCHANGED <<setup, tables, called>> /\ served' = served \ {request}
      /\ how = "tool" => request.method = "tools/call"
      /\ \/ Stdio /\ lines' = lines \o printed /\ SetTask(p, t) /\ conn' = conn
         \/ ~Stdio /\ SetTask(p, answered) /\ conn' = [conn EXCEPT !.session = session] /\ lines' = lines
  BY Zenon DEF Serve
<1>2. IsConn(conn') /\ conn'.next_id = conn.next_id
  <2>1. IsConn(conn) BY <1>0 DEF TypeInv
  <2> HIDE DEF session
  <2> QED BY <1>1, <2>1 DEF IsConn
<1>3. IsVec(printed) /\ \A i \in DOMAIN printed : Answers(printed[i], request) BY <1>1, PrintedAnswers
<1> HIDE DEF printed, session
<1>4. /\ IsVec(lines')
      /\ lines' = lines \o printed => \A i \in DOMAIN lines' :
            \/ \E k \in DOMAIN lines : lines'[i] = lines[k]
            \/ \E k \in DOMAIN printed : lines'[i] = printed[k]
  <2>1. IsVec(lines) /\ IsVec(printed) BY <1>0, <1>3 DEF TypeInv
  <2>2. /\ IsVec(lines \o printed)
        /\ \A i \in DOMAIN (lines \o printed) : (\E k \in DOMAIN lines : (lines \o printed)[i] = lines[k])
                                                 \/ (\E k \in DOMAIN printed : (lines \o printed)[i] = printed[k])
    BY ONLY <2>1, VecConcat, SMTT(30)
  <2> QED BY <1>1, <2>1, <2>2
<1>5. p \in Actor => /\ IsTask(t) /\ t.phase = task[p].phase /\ t.method = task[p].method
                     /\ t.params = task[p].params /\ t.told = task[p].told /\ t.id = task[p].id
                     /\ t.acc = task[p].acc /\ t.got = task[p].got
  BY <1>0, ActorIs, HurtIs
<1> HIDE DEF t
<1>6. p \in Actor => /\ IsTask(got) /\ got.phase = "got" /\ got.method = task[p].method
                     /\ got.params = task[p].params /\ got.told = task[p].told /\ got.id = task[p].id
                     /\ got.acc = task[p].acc /\ got.got = Some(Response(request, how))
  <2> DEFINE response == Some(Response(request, how))
  <2> HIDE DEF response
  <2>1. p \in Actor => /\ IsTask(got) /\ got.phase = "got" /\ got.method = t.method
                       /\ got.params = t.params /\ got.told = t.told /\ got.id = t.id
                       /\ got.acc = t.acc /\ got.got = response
    BY <1>5 DEF IsTask, Fields, response
  <2> QED BY <1>5, <2>1 DEF response
<1> HIDE DEF got
<1>7. CASE R.phase = "told"
  <2> DEFINE u == IF Stdio THEN t ELSE answered
  <2>1. SetTask(p, u) BY <1>1
  <2>2. p \in Actor => IsTask(u) /\ Callable(p, u) BY <1>0, <1>5, <1>6, SameCallable
  <2>3. p = Reg => u.phase = "told" BY <1>0, <1>5, <1>7
  <2> HIDE DEF u, p
  <2> QED BY <1>1, <1>2, <1>4, <1>7, <2>1, <2>2, <2>3, ToldKept
<1>8. CASE R.phase # "told"
  <2>1. AloneInv /\ IdInv /\ PageInv /\ p = Reg BY <1>8 DEF SourceInv, AloneInv
  <2>2. /\ R.method \in {"", "initialize", "notifications/initialized", "tools/list"} /\ R.method # "tools/call"
        /\ R.told = None /\ R.phase \in {"idle", "enlist", "write", "wait", "got"}
        /\ \A r \in served' : r.from = Reg
    BY <1>1, <2>1 DEF AloneInv
  <2>3. CASE Stdio /\ lines' = lines \o printed /\ SetTask(p, t) /\ conn' = conn
    <3>1. TypeInv' /\ CallInv' /\ AloneInv' /\ R' = t
      BY <1>0, <1>1, <1>2, <1>4, <1>5, <1>8, <2>1, <2>2, <2>3, RegStep
    <3>2. \A i \in DOMAIN lines' :
             \/ \E k \in DOMAIN lines : lines'[i] = lines[k]
             \/ \E r \in served : Answers(lines'[i], r)
      BY <1>3, <1>4, <2>3
    <3>3. /\ R'.phase = R.phase /\ R'.method = R.method /\ R'.params = R.params /\ R'.id = R.id
          /\ R'.acc = R.acc /\ R'.got = R.got
      BY <1>0, <1>5, <2>1, <3>1
    <3>4. setup' = setup /\ served' \subseteq served BY <1>1
    <3>5. IdInv' /\ PageInv' BY <1>2, <1>8, <2>3, <3>1, <3>2, <3>3, <3>4, LinesKeep
    <3> QED BY <3>1, <3>5 DEF SourceInv
  <2>4. CASE ~Stdio /\ SetTask(p, answered) /\ lines' = lines
    <3>1. R.phase = "wait" /\ request = Posted /\ served' = {} /\ lines = <<>>
      BY <1>1, <2>1, <2>4 DEF IdInv
    <3>2. answered = got BY <1>0, <1>5, <2>1, <3>1
    <3>3. TypeInv' /\ CallInv' /\ AloneInv' /\ R' = got
      BY <1>0, <1>1, <1>2, <1>4, <1>6, <1>8, <2>1, <2>2, <2>4, <3>2, RegStep
    <3>4. /\ R'.phase = "got" /\ R'.method = R.method /\ R'.params = R.params /\ R'.id = R.id
          /\ R'.acc = R.acc /\ R'.got = Some(Response(request, how))
      BY <1>0, <1>6, <2>1, <3>3
    <3>5. ~Stdio' BY <1>1, <2>4 DEF Stdio
    <3>6. IdInv'
      <4>1. R.id \in Nat /\ R.id < conn.next_id BY <2>1 DEF IdInv
      <4> QED BY <1>2, <2>4, <3>1, <3>4, <3>5, <4>1 DEF IdInv
    <3>7. R.method = "tools/list" => PageBody(setup, R.id, Response(request, how))
      <4>1. request.id = R.id /\ request.method = R.method /\ request.params = R.params BY <3>1 DEF Posted
      <4>2. R.id \in Nat BY <2>1 DEF IdInv
      <4>3. R.method = "tools/list" => AsksPage(setup, R.params.cursor) /\ how # "tool"
        BY <1>1, <2>1, <4>1 DEF PageInv
      <4> QED BY <1>0, <4>1, <4>2, <4>3, ResponsePage
    <3>8. PageInv'
      <4>1. R'.got = Some(R'.got[1]) /\ R'.got[1] = Response(request, how) BY <3>4 DEF Some
      <4>2. IsVec(R.acc) /\ (\A i \in DOMAIN R.acc : Listed(setup, R.acc[i]))
            /\ (R.method = "tools/list" => AsksPage(setup, R.params.cursor))
        BY <2>1 DEF PageInv
      <4> QED BY <1>1, <3>4, <3>5, <3>7, <4>1, <4>2 DEF PageInv
    <3> QED BY <3>3, <3>6, <3>8 DEF SourceInv
  <2> QED BY <1>1, <2>3, <2>4
<1> QED BY <1>7, <1>8

-----------------------------------------------------------------------------
(* The theorems. *)

\* A step that changes nothing.
LEMMA StutterKeeps ==
  ASSUME SourceInv, UNCHANGED vars
  PROVE SourceInv'
<1>1. /\ setup' = setup /\ tables' = tables /\ task' = task /\ conn' = conn /\ served' = served
      /\ lines' = lines /\ called' = called
  BY DEF vars
<1>2. TypeInv' <=> TypeInv BY <1>1 DEF TypeInv, IsConn, IsTask
<1>3. CallInv' <=> CallInv BY <1>1 DEF CallInv, Callable
<1>4. R' = R /\ Posted' = Posted /\ Stdio' = Stdio BY <1>1 DEF R, Posted, Stdio
<1>5. AloneInv' <=> AloneInv BY <1>1, <1>4 DEF AloneInv
<1>6. IdInv' <=> IdInv BY <1>1, <1>4 DEF IdInv, IsNotification
<1>7. PageInv' <=> PageInv BY <1>1, <1>4 DEF PageInv
<1> QED BY <1>2, <1>3, <1>4, <1>5, <1>6, <1>7 DEF SourceInv

\* At every step of a source, whatever the server does: every table calls, and
\* every task asks for, a guarded tool; and as long as the source registers, it
\* does so alone, its ids are new and what it takes for a page of the listing
\* is one (register_mcp_source, list_tools, the reader task, rpc_result).
THEOREM SourceInvariant == Spec => []SourceInv
<1>1. Init => SourceInv BY SourceInit
<1>2. SourceInv /\ [Next]_vars => SourceInv'
  <2> SUFFICES ASSUME SourceInv, [Next]_vars PROVE SourceInv' OBVIOUS
  <2>1. CASE Connect BY <2>1, ConnectKeeps
  <2>2. CASE Read BY <2>2, ReadKeeps
  <2>3. CASE Served BY <2>3, ServeKeeps DEF Served
  <2>4. ASSUME NEW p \in Actor, Enlist(p) PROVE SourceInv' BY <2>4, EnlistKeeps
  <2>5. ASSUME NEW p \in Actor, Write(p) PROVE SourceInv' BY <2>5, WriteKeeps
  <2>6. ASSUME NEW p \in Actor, Continue(p) PROVE SourceInv'
    <3>1. CASE p = Reg BY <2>6, <3>1, ContinueRegKeeps
    <3>2. CASE p \in Job BY <2>6, <3>2, ContinueJobKeeps
    <3> QED BY <3>1, <3>2 DEF Actor
  <2>7. ASSUME NEW p \in Job, Begin(p) PROVE SourceInv' BY <2>7, BeginKeeps
  <2>8. ASSUME NEW request \in served, NEW how \in setup.faults, Serve(request, how) PROVE SourceInv'
    BY <2>8, ServeKeeps
  <2>9. ASSUME NEW p \in Job, Cancel(p) PROVE SourceInv' BY <2>9, CancelKeeps
  <2>10. CASE Close BY <2>10, CloseKeeps
  <2>11. CASE UNCHANGED vars BY <2>11, StutterKeeps
  <2> QED BY <2>1, <2>2, <2>3, <2>4, <2>5, <2>6, <2>7, <2>8, <2>9, <2>10, <2>11 DEF Next, Step, Fault
<1> QED BY <1>1, <1>2, PTL DEF Spec

\* A tool is called only when the server lists it as not destructive and it is
\* exposed, or when a table or a function of the config names it (admit,
\* synthesize_tools, apply_table_def), whatever the server lists and answers.
THEOREM ToolsAreGuarded == Spec => []ToolsGuarded
<1>1. SourceInv => ToolsGuarded BY DEF SourceInv, CallInv, ToolsGuarded
<1> QED BY <1>1, SourceInvariant, PTL

=============================================================================
