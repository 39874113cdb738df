--------------------------- MODULE DecisionInputs ---------------------------
(***************************************************************************)
(* Small inputs for the decisions about upstream changes and migrations,   *)
(* and for what is read around a change: the repository's graph, the       *)
(* signatures of what changed, the records of earlier reviews, what the    *)
(* repository depends on, its files as the index and the context see them, *)
(* what analyzers find in them, and what a second review starts from.      *)
(***************************************************************************)
EXTENDS Migrations, ReviewHistory, Dependencies, CodeIndex, StaticAnalysis
LOCAL INSTANCE TLC

(* Schemas. *)
Text == [PlainSchema EXCEPT !.type = "string"]
OneOf(values) == [Text EXCEPT !.enum = values]
Ref(name) == [PlainSchema EXCEPT !.ref = name]
ListOf(schema) == [PlainSchema EXCEPT !.type = "array", !.items = <<schema>>]

Objects ==
    {Object([x |-> s], r) : s \in {Text, OneOf({"a"}), OneOf({"a", "b"}), Ref("B")}, r \in SUBSET {"x"}}
      \cup {Object([x |-> Text, y |-> Text], r) : r \in SUBSET {"x", "y"}}

SomeSchemas ==
    {PlainSchema, Text, OneOf({"a"}), OneOf({"b"}), OneOf({"a", "b"}), [Text EXCEPT !.nullable = TRUE],
     [PlainSchema EXCEPT !.type = "integer"], [PlainSchema EXCEPT !.type = "number"],
     [Text EXCEPT !.constraint = "short"], [Text EXCEPT !.composition = "not_b"],
     [Text EXCEPT !.constraint = "short", !.composition = "not_b"],
     ListOf(Text), ListOf(OneOf({"a"})), Ref("A"), Ref("B")} \cup Objects

(* A contract of one operation, with a schema in one place of it. *)
PlainOperation ==
    [placeholders |-> <<>>, parameters |-> {}, body |-> <<>>, responses |-> <<>>, deprecated |-> FALSE,
     id |-> Unset, security |-> <<>>]
Parameter(in, name, required, schema) == [in |-> in, name |-> name, required |-> required, schema |-> schema]
Content(schema) == [ref |-> Unset, required |-> FALSE, content |-> [json |-> schema]]

Contract(key, operation) ==
    [paths |-> (key :> operation), components |-> <<>>, security |-> {}, schemes |-> <<>>]

With(place, schema) ==
    CASE place = "parameter" -> [PlainOperation EXCEPT !.parameters = {Parameter("query", "p", FALSE, schema)}]
      [] place = "body"      -> [PlainOperation EXCEPT !.body = <<Content(schema)>>]
      [] place = "response"  -> [PlainOperation EXCEPT !.responses = ("200" :> Content(schema))]
      [] place = "both"      -> [PlainOperation EXCEPT !.body = <<Content(schema)>>,
                                                       !.responses = ("200" :> Content(schema))]

Components(a, b) == [A |-> a, B |-> b]

SchemaChanges ==
    {[from |-> [Contract(<<"post", "t">>, With(place, s)) EXCEPT !.components = Components(Text, OneOf({"a"}))],
      to   |-> [Contract(<<"post", "t">>, With(place, t)) EXCEPT !.components = Components(Text, b)],
      hints |-> NoHints] :
       place \in {"parameter", "body", "response", "both"}, s \in SomeSchemas, t \in SomeSchemas,
       b \in {OneOf({"a"}), OneOf({"a", "b"})}}

ComponentChanges ==
    {[from |-> [Contract(<<"post", "t">>, With(place, r)) EXCEPT !.components = Components(s, OneOf({"a"}))],
      to   |-> [Contract(<<"post", "t">>, With(later, r)) EXCEPT !.components = Components(t, OneOf({"a"}))],
      hints |-> NoHints] :
       place \in {"body", "response", "both"}, later \in {"body", "response", "both"},
       r \in {Ref("A"), Object([x |-> Ref("A")], {})}, s \in Objects \cup {Text}, t \in Objects \cup {OneOf({"a"})}}

(* Requests: where they go, what they carry and who may make them. *)
SomeOperations ==
    {[PlainOperation EXCEPT !.placeholders = <<n>>, !.id = id, !.parameters = {Parameter("path", n, TRUE, Text)} \cup ps] :
       n \in {"u", "v"}, id \in {Unset, "get"},
       ps \in SUBSET {Parameter("query", "p", TRUE, Text), Parameter("query", "q", FALSE, Text)}}

SomeHints ==
    {NoHints, [NoHints EXCEPT !.parameters = (<<<<"get", "t">>, <<"query", "p">>>> :> "q")],
     [NoHints EXCEPT !.endpoints = (<<"get", "t">> :> <<"get", "s">>)]}

OperationChanges ==
    {[from |-> Contract(<<"get", "t">>, o),
      to |-> [Contract(<<"get", t>>, n) EXCEPT !.paths = IF more THEN @ @@ (<<"get", "r">> :> n) ELSE @],
      hints |-> h] : o \in SomeOperations, n \in SomeOperations, t \in {"t", "s"}, h \in SomeHints, more \in BOOLEAN}

SomeBodies ==
    {<<>>} \cup {<<[Content(Object([f \in fs |-> Text], fs \cap r)) EXCEPT !.required = b]>> :
                   fs \in SUBSET {"x", "y"}, r \in SUBSET {"x", "y"}, b \in BOOLEAN}

BodyChanges ==
    {[from |-> Contract(<<"post", "t">>, [PlainOperation EXCEPT !.body = b]),
      to   |-> Contract(<<"post", "t">>, [PlainOperation EXCEPT !.body = c]),
      hints |-> IF named THEN [NoHints EXCEPT !.body = (<<<<"post", "t">>, <<"x">>>> :> <<"y">>)] ELSE NoHints] :
       b \in SomeBodies, c \in SomeBodies, named \in BOOLEAN}

Requirements ==
    LET some == {<<>>, ("key" :> {}), ("oauth" :> {"read"}), ("oauth" :> {"read", "write"}), [key |-> {}, oauth |-> {"read"}]}
    IN  {rs \in SUBSET some : Cardinality(rs) <= 2}

SecurityChanges ==
    {[from |-> [Contract(<<"get", "t">>, [PlainOperation EXCEPT !.security = own]) EXCEPT !.security = r, !.schemes = schemes],
      to   |-> [Contract(<<"get", "t">>, [PlainOperation EXCEPT !.security = later]) EXCEPT !.security = s],
      hints |-> NoHints] :
       own \in {<<>>, <<{}>>, <<{("oauth" :> {"read"})}>>}, later \in {<<>>, <<{}>>, <<{("key" :> {})}>>},
       r \in Requirements, s \in Requirements, schemes \in {<<>>, ("key" :> "header")}}

Changes == SchemaChanges \cup ComponentChanges \cup OperationChanges \cup BodyChanges \cup SecurityChanges

(* SDK surfaces. *)
Argument(required, type, enum) == [required |-> required, type |-> type, enum |-> enum]
SomeArguments ==
    {Argument(r, t, {}) : r \in BOOLEAN, t \in {Unset, "int", "str"}}
      \cup {Argument(FALSE, "str", e) : e \in {{"a"}, {"b"}, {"a", "b"}}}
SomeSymbols ==
    {[params |-> ("m" :> a), returns |-> <<>>] : a \in SomeArguments}
      \cup {[params |-> [m |-> a, n |-> Argument(r, "str", {})], returns |-> f] :
              a \in {Argument(TRUE, "str", {}), Argument(FALSE, "str", {"a", "b"})}, r \in BOOLEAN,
              f \in {<<>>, ("id" :> "str"), ("id" :> "int"), ("key" :> "str")}}
SomeSurfaces ==
    {[symbols |-> (name :> s), modules |-> ms] : name \in {"f", "g"}, s \in SomeSymbols, ms \in {{"core"}, {"core", "util"}}}
SomeRenames ==
    {NoRenames,
     [symbols |-> ("f" :> "g"), parameters |-> (<<"f", "m">> :> "n"), returns |-> (<<"f", "id">> :> "key"),
      enums |-> (<<"f", "m", "a">> :> "b"), modules |-> ("util" :> "core")]}

(* Migrations: the calls of f, and what is known of newly required values. *)
(* No hint renames a parameter to one that was there before, or gives a    *)
(* value for one that is renamed.                                          *)
MigratedSymbols ==
    {[params |-> ps, returns |-> <<>>] :
       ps \in {<<>>} \cup {(n :> a) : n \in {"m", "n"}, a \in {a \in SomeArguments : a.type # "int"}}}
      \cup {[params |-> [m |-> a, n |-> Argument(r, "str", {})], returns |-> f] :
              a \in {Argument(TRUE, "str", {}), Argument(FALSE, "str", {"a", "b"})}, r \in BOOLEAN,
              f \in {("id" :> "str"), ("key" :> "str")}}
HintedValue(value, from) == [value |-> value, from |-> from]
HintedValues ==
    {<<>>, (<<"f", "m">> :> HintedValue("a", Unset)), (<<"f", "n">> :> HintedValue(Unset, "m")),
     (<<"f", "m">> :> HintedValue("b", Unset)) @@ (<<"f", "n">> :> HintedValue("b", Unset))}

Upgrades ==
    {u \in {[old |-> [symbols |-> ("f" :> s), modules |-> {}], new |-> [symbols |-> (name :> t), modules |-> {}],
             hints |-> h, sources |-> v] :
               s \in MigratedSymbols, t \in MigratedSymbols, name \in {"f", "g"}, h \in SomeRenames, v \in HintedValues} :
       \A k \in DOMAIN u.hints.parameters :
         u.hints.parameters[k] \notin DOMAIN u.old.symbols["f"].params /\ k \notin DOMAIN u.sources}

(* Patches, the tests selected for them, and how their runs end.           *)
SomeOperation == <<[kind |-> "edit"]>>
PatchSteps ==
    {<<[strategy |-> s, eligibility |-> "auto_safe", operation |-> SomeOperation], o>> :
       s \in {"move_import", "rename_parameter", "bump_package_version"}, o \in {"applied", "not_needed", "failed"}}
      \cup {<<[strategy |-> "manual_review", eligibility |-> "human_required", operation |-> <<>>], "skipped">>}

Patches ==
    {[steps |-> [i \in DOMAIN ss |-> ss[i][1]], outcomes |-> [i \in DOMAIN ss |-> ss[i][2]], gates |-> f[1], python |-> f[2],
      names |-> IF f[3] THEN {i \in DOMAIN ss : ss[i][2] = "applied"} ELSE {}, strays |-> f[4],
      changed |-> \E i \in DOMAIN ss : ss[i][2] = "applied"] :
        ss \in {<<>>} \cup {<<a>> : a \in PatchSteps} \cup {<<a, b>> : a \in PatchSteps, b \in {s \in PatchSteps : s[2] \in {"applied", "skipped"}}},
        f \in {<<TRUE, TRUE, TRUE, FALSE>>, <<FALSE, TRUE, TRUE, FALSE>>, <<TRUE, FALSE, TRUE, FALSE>>,
                <<TRUE, TRUE, FALSE, FALSE>>, <<TRUE, TRUE, TRUE, TRUE>>}}

SelectedTest(class, patched, pair) == [class |-> class, patched |-> patched, baseline |-> pair[1], compared |-> pair[2]]
SomeTests ==
    {SelectedTest(c, p, pair) : c \in {"direct", "fallback"}, p \in {"passed", "failed", "unavailable"},
                                pair \in {<<"passed", "passed">>, <<"passed", "failed">>, <<"failed", "passed">>}}
Tested == {<<>>} \cup {<<t>> : t \in SomeTests}
            \cup {<<t, u>> : t \in {t \in SomeTests : t.class = "direct" /\ t.compared = "passed"},
                            u \in {u \in SomeTests : u.baseline = "passed" /\ u.patched # "unavailable"}}
Runs == {[sandbox |-> r[1], checks |-> [syntax_valid |-> r[2], imports_resolve |-> r[3], type_check_passes |-> r[3]]] :
           r \in {<<TRUE, "passed", "passed">>, <<TRUE, "passed", "failed">>, <<TRUE, "failed", "passed">>,
                   <<TRUE, "unavailable", "failed">>, <<FALSE, "passed", "passed">>}}

Versions == {<<>>} \cup ((0..2) \X (0..1) \X (0..1) \X {Unset, "rc1", "rc2"})

-----------------------------------------------------------------------------
(* Limits of reports: the code's are 50, 25, 12, 16, 6, 5, 150, 40, 3, 2   *)
(* and 5.                                                                  *)
SmallReports ==
    [fanout |-> 5, surface |-> 25, nodes |-> 3, edges |-> 2, section |-> 1, areas |-> 1, candidates |-> 150,
     baseFiles |-> 1, claims |-> 3, mappedUnits |-> 1, testGaps |-> 1]

(* Headers of functions.                                                   *)
Token(name, default) == [form |-> "name", name |-> name, default |-> default]
Marker(form) == [form |-> form, name |-> form, default |-> TRUE]
TokenLists ==
    {<<>>} \cup {<<Token(n, d)>> : n \in {"a", "b"}, d \in BOOLEAN}
      \cup {<<Token("a", d), Token("b", e)>> : d \in {FALSE}, e \in BOOLEAN}
      \cup {<<Token("a", d), Marker("star"), Token("b", e)>> : d \in BOOLEAN, e \in BOOLEAN}
      \cup {<<Token("a", FALSE), Marker("slash"), Token("b", e)>> : e \in BOOLEAN}
      \cup {<<Token("a", FALSE), Marker("args"), Token("b", FALSE), Marker("kwargs")>>}
Header(tokens, async, optional) ==
    [tokens |-> tokens, async |-> async, returns |-> optional, optional |-> optional]
PythonCalls == [positional : 0..2, names : SUBSET {"a", "b"}]

(* Graphs of three symbols, s1 and s2 in one file, and a test file.        *)
PlainHeader == Header(<<>>, FALSE, FALSE)
GraphSymbol(file, name, parent) == [file |-> file, name |-> name, parent |-> parent, base |-> <<PlainHeader>>, head |-> <<PlainHeader>>]
Picks == {<<3>>, <<1, 2>>, <<1, 3>>, <<1, 2, 3>>}
CallRefs == [caller : 0..3, callee : 1..3]
SomeGraphs ==
    {[symbols |-> (1 :> GraphSymbol(1, 1, 0)) @@ (2 :> GraphSymbol(1, 2, p)) @@ (3 :> GraphSymbol(2, n, 0)),
      calls |-> calls, imports |-> i, tests |-> t, testFiles |-> {3}] :
       p \in {0, 1}, n \in {2, 3}, calls \in UNION {[1..k -> CallRefs] : k \in 0..2}, i \in {{}, {<<1, 2>>}},
       t \in {<<>>, <<[test |-> 3, file |-> 1]>>}}
CandidateOf(graph, s, traits) ==
    [symbol |-> s, file |-> graph.symbols[s].file, start |-> s, name |-> graph.symbols[s].name, traits |-> traits]
CandidatesOf(graph, picks) == [i \in DOMAIN picks |-> CandidateOf(graph, picks[i], {})]

(* The first function, called by the other two, gets another header.       *)
HeaderChanges ==
    {[symbols |-> (1 :> [GraphSymbol(1, 1, 0) EXCEPT !.base = <<Header(b, FALSE, FALSE)>>, !.head = <<Header(h, x, x)>>])
                    @@ (2 :> GraphSymbol(1, 2, 0)) @@ (3 :> GraphSymbol(2, n, 0)),
      calls |-> <<[caller |-> 2, callee |-> 1], [caller |-> 3, callee |-> 1]>>, imports |-> {}, tests |-> <<>>,
      testFiles |-> {}] : b \in TokenLists, h \in TokenLists, x \in BOOLEAN, n \in {2, 3}}

(* What a pull request says, in the words of files and names.              *)
GraphWords == [file |-> <<{"a"}, {"b"}, {}>>, name |-> <<{"a"}, {"b"}, {"c"}>>]
SaidText(terms, content) == [terms |-> terms, content |-> content, verb |-> TRUE, placeholder |-> FALSE]
NoBody == [text |-> SaidText({}, 0), goals |-> <<>>]
PullRequestTexts ==
    {[title |-> SaidText(terms, 3), body |-> NoBody] : terms \in {{"c"}, {"a", "b"}}}
      \cup {[title |-> SaidText({"a"}, 3), body |-> [text |-> SaidText({"b"}, 3), goals |-> goals]] :
              goals \in {<<>>, <<SaidText({"b"}, 2), SaidText({"c"}, 3)>>, <<SaidText({"b"}, 3), SaidText({"c"}, 3)>>}}
IntentGraphs == {graph \in SomeGraphs : graph.symbols[2].parent = 0 /\ graph.tests = <<>> /\ graph.imports = {}}

(* Tests of the files, and what a diff does to two of them: assertions     *)
(* and skips gained or lost on balance.                                    *)
LinkedTest(test, file) == [test |-> test, file |-> file]
TestGraphs ==
    {[graph EXCEPT !.tests = tests] :
       graph \in {graph \in IntentGraphs : Len(graph.calls) <= 1},
       tests \in {<<>>, <<LinkedTest(3, 1)>>, <<LinkedTest(3, 1), LinkedTest(4, 1)>>,
                  <<LinkedTest(3, 1), LinkedTest(3, 2)>>}}
TestDiffs == UNION {[files -> [asserts : {-1, 0}, skips : {0, 1}]] : files \in {{}, {3}, {3, 4}}}

(* Limits of history: the code's are 200, 3, 10, 5, 10, 20, 8, 6, 40, 10,  *)
(* 10, 50, 20 and 4.                                                       *)
SmallHistory ==
    [lookback |-> 4, perSurface |-> 2, history |-> 3, evidence |-> 5, learnings |-> 1, records |-> 2, heads |-> 3,
     eventsPerSurface |-> 3, events |-> 6, signals |-> 1, peers |-> 2, surfacesPerPeer |-> 2, overlaps |-> 2,
     repoPeers |-> 2]

(* Four findings on one function, two of them of one run, one on another   *)
(* and one on no function; and what developers said of them.               *)
FoundOn(run, file, name) == [run |-> run, file |-> file, name |-> name, category |-> "logic"]
PastFindings ==
    <<FoundOn(1, 1, 1), FoundOn(2, 1, 1), FoundOn(3, 1, 1), FoundOn(3, 1, 1), FoundOn(1, 2, 3), FoundOn(2, 1, NoId)>>
Told(finding, signal, at) == [finding |-> finding, signal |-> signal, at |-> at]
PastCommands ==
    {Told(f, s, 1) : f \in 1..4, s \in {"useful", "false-positive"}}
      \cup {Told(1, "fixed", 2), Told(2, "false-positive", 2), Told(3, "useful", 2), Told(5, "useful", 1),
            Told(6, "fixed", 1), Told(2, "ignore", 1)}
PastSaid == UNION {kSubset(k, PastCommands) : k \in 0..3}
HistoryUnit(kind, candidates) == [kind |-> kind, candidates |-> candidates, affected |-> <<>>]
Touched(file, name) == [symbol |-> 1, file |-> file, start |-> 1, name |-> name, traits |-> {}]
HistoryReports ==
    {[units |-> <<HistoryUnit(kind, <<Touched(1, 1)>>), HistoryUnit("behavior", <<Touched(2, name), Touched(1, 2)>>)>>] :
       kind \in {"behavior", "test"}, name \in {3, NoId}}

(* Generations of a pull request, of commits 1 to 3, and the next head.    *)
SurfaceLists == {<<>>, <<<<1, 1>>>>, <<<<1, 2>>, <<1, 1>>>>}
Generation(commit, surfaces, verified, previous) ==
    [commit |-> commit, surfaces |-> surfaces, verified |-> verified, previous |-> previous]
Lineages ==
    {[k \in 1..n |-> Generation(IF k = 3 THEN third ELSE k, surfaces[k], k \in verified, IF k = 1 THEN NoId ELSE k - 1)] :
       n \in 0..3, third \in {1, 3}, surfaces \in [1..3 -> SurfaceLists], verified \in SUBSET {2, 3}}

(* Three pull requests of one repository.                                  *)
PullRequestOf(number, state, head, surfaces) ==
    [number |-> number, state |-> state, head |-> head, generations |-> <<Generation(1, surfaces, FALSE, NoId)>>]
OpenPullRequests ==
    {<<PullRequestOf(1, "open", 1, first), PullRequestOf(2, state, head, second), PullRequestOf(3, "open", 1, third)>> :
       state \in {"open", "closed"}, head \in {1, 2}, first \in SurfaceLists, second \in SurfaceLists, third \in SurfaceLists}

(* The contracts of repository 1 and those registered as their consumers.  *)
ContractKeys == {[repository |-> 1, key |-> "one", file |-> 1, name |-> 1], [repository |-> 1, key |-> "two", file |-> 1, name |-> 2],
                 [repository |-> 2, key |-> "one", file |-> 1, name |-> 2]}
RelationOf(target, key, active) ==
    [source |-> 1, target |-> target, key |-> key, kind |-> "explicit_shared_contract", active |-> active]
RelationLists ==
    UNION {[1..n -> {RelationOf(t, k, a) : t \in {2, 3}, k \in {"one", "two"}, a \in BOOLEAN}] : n \in 0..3}
RelatedRepositories ==
    {<<[installation |-> 1, selected |-> TRUE], [installation |-> i, selected |-> TRUE],
       [installation |-> 1, selected |-> s]>> : i \in 1..2, s \in BOOLEAN}
ContractsChanged == {<<>>, <<Touched(1, 1)>>, <<Touched(1, 2), Touched(1, 1)>>}

(* A repository that may use one provider's SDK.                           *)
Sdk ==
    [key |-> "sdk", packages |-> [pypi |-> <<"sdk">>, npm |-> <<"sdk">>, go |-> <<>>],
     modules |-> [python |-> {"sdk"}, javascript |-> {"sdk"}], hosts |-> {"api"}, variables |-> {"KEY"}]
Statements ==
    {[is |-> "import", module |-> <<"sdk">>, names |-> {"sdk"}], [is |-> "import", module |-> <<"lib", "x">>, names |-> {"sdk"}],
     [is |-> "assign", target |-> <<"self", "c">>, chain |-> <<"sdk", "Client">>],
     [is |-> "call", chain |-> <<"self", "c", "run">>], [is |-> "call", chain |-> <<"sdk", "open">>],
     [is |-> "url", host |-> "api", path |-> <<"v1", "token">>], [is |-> "path", path |-> <<"v1", "users">>],
     [is |-> "env", name |-> "KEY"]}
File(order, kind) == [order |-> order, path |-> ToString(order), kind |-> kind, access |-> "plain", readable |-> TRUE]
Source(order, language, top, statements, generated) ==
    File(order, "source") @@ [language |-> language, top |-> top, statements |-> statements, generated |-> generated,
                              spans |-> {[name |-> <<"C">>, start |-> 1, end |-> 2], [name |-> <<"C", "m">>, start |-> 2, end |-> 2]}]
Package(name, form) == [is |-> "package", name |-> name, spec |-> [form |-> form, value |-> "1", host |-> "h"]]
ManifestEntries ==
    {<<>>, <<Package("sdk", "plain")>>, <<[is |-> "comment"], Package("lib", "url"), Package("lib", "plain")>>,
     <<Package("lib", "plain"), Package("sdk", "plain")>>}
Listing(order, kind, ecosystem, entries) ==
    File(order, kind) @@ [ecosystem |-> ecosystem, entries |-> entries, parses |-> TRUE]
LockedLib == <<[name |-> "lib", version |-> "2"], [name |-> "lib", version |-> "3"]>>
SpecFile(order) ==
    File(order, "spec") @@ [version |-> [form |-> "plain", value |-> "1"], hosts |-> {"api"}, paths |-> {<<"v1", "users">>},
                            contract |-> [spec |-> order]]
ScriptSource(top) ==
    Source(5, "javascript", top, <<[is |-> "import", module |-> <<"sdk">>, names |-> {"S"}],
                                   [is |-> "assign", target |-> <<"s">>, chain |-> <<"S">>], [is |-> "call", chain |-> <<"s", "run">>]>>, FALSE)
CodeLines ==
    {[name |-> NoName, arrow |-> FALSE, braces |-> b] : b \in {<<"open">>, <<"close">>, <<"close", "open">>}}
      \cup {[name |-> "f", arrow |-> FALSE, braces |-> b] : b \in {<<>>, <<"open">>, <<"open", "close">>, <<"close", "open">>}}
      \cup {[name |-> "f", arrow |-> TRUE, braces |-> <<>>]}

FoundDependency(key, sites, contract) ==
    [key |-> key, kind |-> "sdk", version |-> contract, confidence |-> "high", contract |-> contract, sites |-> sites]
Inventories ==
    {first \cup second :
       first \in {{}} \cup {{FoundDependency(1, sites, contract)} : sites \in {{}, {1}}, contract \in {<<>>, <<1>>, <<2>>}},
       second \in {{}, {FoundDependency(2, {1}, <<1>>)}}}

-----------------------------------------------------------------------------
(* Snapshots to index: a file that calls go or foo, what it may import,    *)
(* and the files that may define the name.                                 *)
SourceAt(dir, stem, ext) == [dir |-> dir, stem |-> stem, marker |-> "none", ext |-> ext]
TestAt(dir, stem, marker, ext) == [SourceAt(dir, stem, ext) EXCEPT !.marker = marker]
TextOf(tree) == [tree |-> tree, cpp |-> FALSE, large |-> FALSE, binary |-> FALSE, raises |-> FALSE]
Tracked(path, tree) == [path |-> path, kind |-> "file", text |-> TextOf(tree)]

LOCAL SyntaxNode(type, name, kids, first, last) == [type |-> type, name |-> name, kids |-> kids, span |-> <<first, last>>]
LOCAL CallTo(name) == SyntaxNode("call", name, <<>>, 2, 2)
LOCAL PyFrom(dots, parts, name) ==
    <<[type |-> "import", from |-> TRUE, module |-> [dots |-> dots, parts |-> parts], names |-> <<<<name>>>>]>>
PyImports ==
    {<<>>, PyFrom(1, <<"a">>, "go"), PyFrom(1, <<>>, "go"), PyFrom(2, <<"pkg", "a">>, "go"), PyFrom(0, <<"pkg", "a">>, "go"),
     PyFrom(0, <<"pkg">>, "go"), <<[type |-> "import", from |-> FALSE, names |-> <<<<"pkg", "a">>, <<"go">>>>]>>}
PyBodies ==
    {<<SyntaxNode("function", "run", <<CallTo("go")>>, 1, 3), CallTo("run")>>,
     <<SyntaxNode("class", "K", <<SyntaxNode("function", "run", <<CallTo("go"), SyntaxNode("function", "inner", <<CallTo("K")>>, 3, 3)>>, 2, 4),
                            SyntaxNode("function", "go", <<>>, 5, 5)>>, 1, 5)>>,
     <<SyntaxNode("class", "K", <<SyntaxNode("function", "go", <<CallTo("run")>>, 1, 1)>>, 1, 1), CallTo("go")>>}
PyDefines ==
    {<<>>, <<SyntaxNode("function", "go", <<>>, 1, 1)>>, <<SyntaxNode("class", "go", <<>>, 1, 2)>>,
     <<SyntaxNode("function", "go", <<>>, 1, 1), SyntaxNode("function", "go", <<>>, 2, 2)>>,
     <<SyntaxNode("class", "K", <<SyntaxNode("function", "go", <<>>, 2, 2)>>, 1, 2)>>}
PySnapshots ==
    {<<Tracked(user, imports \o body), Tracked(SourceAt(<<"pkg">>, "a", "py"), defines), Tracked(third, again)>> :
       user \in {SourceAt(<<"pkg">>, "b", "py"), SourceAt(<<>>, "__init__", "py"), TestAt(<<"tests">>, "a", "snake", "py")},
       imports \in PyImports, body \in PyBodies, defines \in PyDefines, again \in {<<>>, <<SyntaxNode("function", "go", <<>>, 1, 1)>>},
       third \in {SourceAt(<<"pkg">>, "__init__", "py"), SourceAt(<<"pkg", "a">>, "__init__", "py"), SourceAt(<<"pkg">>, "go", "py")}}

LOCAL Proto(name, static) == [SyntaxNode("prototype", name, <<>>, 1, 1) EXCEPT !.span = <<1, 1>>] @@ [static |-> static, parts |-> <<name>>]
LOCAL Func(name, static, kids) == SyntaxNode("function", name, kids, 2, 3) @@ [static |-> static, parts |-> <<name>>]
LOCAL IncludeFile(up, dir, local) ==
    <<[type |-> "include", target |-> <<[up |-> up, file |-> SourceAt(dir, "x", "h"), local |-> local]>>]>>
CIncludes == {<<>>, IncludeFile(0, <<>>, TRUE), IncludeFile(1, <<"inc">>, TRUE), IncludeFile(0, <<>>, FALSE)}
COwn ==
    {<<>>, <<Proto("foo", FALSE)>>, <<Proto("foo", TRUE)>>, <<Func("foo", TRUE, <<>>)>>,
     <<Proto("foo", TRUE), Func("foo", TRUE, <<>>)>>}
CHeaders ==
    {<<>>, <<[type |-> "conditional", kids |-> <<Proto("foo", FALSE)>>]>>, <<Func("foo", TRUE, <<>>)>>,
     <<[type |-> "linkage", braces |-> FALSE, kids |-> <<Func("lonely", FALSE, <<CallTo("foo")>>)>>]>>,
     <<[type |-> "linkage", braces |-> TRUE, kids |-> <<Proto("foo", FALSE)>>]>>,
     <<[type |-> "typedef", name |-> "foo", span |-> <<1, 1>>, kids |-> <<SyntaxNode("struct", "foo", <<>>, 1, 1)>>]>>}
CImplements ==
    {<<>>, <<Func("foo", FALSE, <<>>)>>, <<Func("foo", TRUE, <<>>)>>, <<Proto("foo", FALSE), Func("foo", FALSE, <<>>)>>,
     <<Proto("foo", TRUE), Func("foo", FALSE, <<>>)>>, <<Func("foo", FALSE, <<>>), SyntaxNode("enum", "foo", <<>>, 5, 5)>>}
CSnapshots ==
    {<<Tracked(SourceAt(dir, "x", "h"), header), Tracked(SourceAt(<<"src">>, "main", "c"), includes \o own \o <<Func("main", FALSE, <<CallTo("foo")>>)>>),
       Tracked(SourceAt(<<"src">>, "x", "c"), implements)>> :
       dir \in {<<"inc">>, <<"src">>}, header \in CHeaders, includes \in CIncludes, own \in COwn, implements \in CImplements}

LOCAL CppClass(type, name, kids) == SyntaxNode(type, name, kids, 1, 9)
CppHeaders ==
    {<<SyntaxNode("namespace", n, <<CppClass(t, "K", <<Proto("foo", s), Func("run", FALSE, <<CallTo("foo"), CallTo("K")>>)>>)>>, 1, 9)>> :
       n \in {"n", NoText}, t \in {"class", "struct"}, s \in BOOLEAN}
      \cup {<<[type |-> "template", kids |-> <<Func("foo", FALSE, <<CallTo("bar")>>)>>], SyntaxNode("enum", "bar", <<>>, 5, 6)>>}
CppImplements ==
    {<<[Func("foo", s, <<CallTo("run"), CallTo("foo")>>) EXCEPT !.parts = parts]>> : parts \in {<<"K", "foo">>, <<"foo">>}, s \in BOOLEAN}
CppSnapshots ==
    {<<[Tracked(SourceAt(<<"src">>, "x", "h"), header) EXCEPT !.text.cpp = TRUE], Tracked(SourceAt(<<"src">>, "main", "cpp"), includes \o own),
       Tracked(SourceAt(<<>>, "x", "cpp"), <<SyntaxNode("namespace", "n", implements, 1, 9)>>)>> :
       header \in CppHeaders, includes \in CIncludes, own \in CppImplements, implements \in CppImplements}

(* Files that share a text, that raise, or have no parser, with what a     *)
(* cache may hold of them; and names of tests and of what they test.       *)
CachedSnapshots ==
    {<<Tracked(SourceAt(<<>>, "a", "py"), one), Tracked(SourceAt(<<"vendor">>, "a", "py"), one), Tracked(SourceAt(<<>>, "b", "py"), one),
       [Tracked(SourceAt(<<>>, "c", "py"), other) EXCEPT !.text.raises = raises],
       [Tracked(SourceAt(<<>>, "d", ext), other) EXCEPT !.kind = kind, !.text.cpp = raises]>> :
       one \in PyBodies, other \in {<<>>, <<SyntaxNode("function", "go", <<>>, 1, 1)>>}, raises \in BOOLEAN,
       ext \in {"md", "py"}, kind \in {"file", "symlink"}}
      \cup {<<Tracked(SourceAt(<<>>, "x", "h"), own), Tracked(SourceAt(<<>>, "x", "c"), own), Tracked(SourceAt(<<>>, "x", "cpp"), own)>> :
              own \in COwn \cup CHeaders}
CacheStates == {"cold", "warm", "corrupt", "half"}
CacheOf(state, inventory) ==
    LET good == {e \in ToSet(inventory) : HasParser(e) /\ ~e.text.raises}
        stored == CASE state = "cold" -> {} [] state = "half" -> {e \in good : e.path.stem = "a"} [] OTHER -> good
    IN  [key \in {CacheKey(e) : e \in stored} |->
           LET e == CHOOSE e \in stored : CacheKey(e) = key
           IN  IF state = "corrupt" THEN Corrupt ELSE Serialized(Parsed(e.path, e.language, e.text))]

NamedSnapshots ==
    {[i \in 1..3 |-> Tracked(paths[i], <<>>)] :
       paths \in {ps \in [1..3 -> {TestAt(dir, "cache", marker, ext) : dir \in {<<>>, <<"tests">>, <<"lib">>},
                                                      marker \in {"none", "snake", "camel"}, ext \in {"py", "c"}}] :
                    Cardinality({ps[1], ps[2], ps[3]}) = 3}}

FurtherFiles(snapshot) ==
    IF Last(snapshot).path.ext = "py" THEN {Parsed(SourceAt(<<"z">>, "z", "py"), "python", TextOf(<<SyntaxNode("function", "go", <<>>, 1, 1)>>))}
    ELSE {Parsed(SourceAt(<<"z">>, "z", "c"), "c", TextOf(tree)) : tree \in CImplements}
(* Two files whose three functions call each other, with the second a test *)
(* of the first, the functions of the first perhaps in a class; and what   *)
(* context may be asked for.                                               *)
LOCAL Function(name, calls, first, last) == SyntaxNode("function", name, SetToSeq({CallTo(c) : c \in calls}), first, last)
CallingSnapshots ==
    LET both(calls) == <<Function("go", calls["go"], 2, 3), Function("run", calls["run"], 4, 4)>>
        tests(calls) == <<Function("h", calls["h"], 1, 2)>>
        first(calls, nested) == IF nested THEN <<SyntaxNode("class", "K", both(calls), 1, 4)>> ELSE both(calls)
        names == {"go", "run", "h"}
    IN  {<<Tracked(SourceAt(<<"pkg">>, "a", "py"), first(calls, nested)),
           Tracked(TestAt(<<"tests">>, "a", "snake", "py"), PyFrom(0, <<"pkg", "a">>, "go") \o tests(calls))>> :
           nested \in BOOLEAN, calls \in {c \in [names -> SUBSET names] : c["h"] \in {{"go"}, {"run", "h"}} /\ ("h" \in c["go"] => c["go"] = names)}}
ContextTargets(index) ==
    {[file |-> FileAt(index, index.symbols[i].row.path), symbol |-> i, line |-> NoLine] : i \in DOMAIN index.symbols}
      \cup {[file |-> 1, symbol |-> symbol, line |-> 3] : symbol \in {NoRow} \cup Innermost(index, index.files[1].path, 3)}
EveryKind == {"target", "caller", "callee", "import", "include", "tests", "parent", "sibling"}
ContextBudget(lines) ==
    [lines |-> lines, tokens |-> 2 * lines, itemLines |-> 2, itemTokens |-> 4, targetLines |-> 2, targetTokens |-> 4,
     expansionLines |-> lines \div 2, expansionTokens |-> lines \div 2, perRelationship |-> 1]
ContextConfigs ==
    {[wants |-> EveryKind, depth |-> 2, maxDepth |-> 2, adaptive |-> adaptive, budget |-> ContextBudget(lines)] :
       adaptive \in BOOLEAN, lines \in {1, 5}}
RootsOf(index, target, wants, most) ==
    {roots \in [{"callers", "callees"} -> SUBSET DOMAIN index.symbols] :
       \A d \in DOMAIN roots : roots[d] \in ExpansionRoots(NearIds(index, target, d, wants), most)}
TouchedLines(index) == [f \in DOMAIN index.files |-> {3}]
FileWeights == <<1, 2, 1, 3, 1>>
-----------------------------------------------------------------------------
(* Static analysis: a Python and a C file, one entry or more of every      *)
(* tool, and tools that fail in one way.                                   *)
AnalyzedSnapshot ==
    <<Tracked(SourceAt(<<>>, "a", "py"), <<SyntaxNode("class", "K", <<SyntaxNode("function", "run", <<>>, 2, 3)>>, 1, 4)>>),
      Tracked(SourceAt(<<"src">>, "x", "c"), <<Func("main", FALSE, <<>>)>>)>>
AnalyzedIndex == Index(<<>>, Inventory(AnalyzedSnapshot))
LOCAL EntryOf(stem, dir, ext, rule, marks, first, last, level) ==
    [path |-> SourceAt(dir, stem, ext), rule |-> [name |-> rule, marks |-> marks], first |-> first, last |-> last, level |-> level,
     category |-> "security", confidence |-> "HIGH", placed |-> rule # "config"]
ToolEntries ==
    [ruff |-> <<EntryOf("a", <<>>, "py", "F821", {"F", "F821"}, 2, 2, "error"), EntryOf("a", <<>>, "py", NoText, {}, 4, 4, "error"),
                EntryOf("a", <<>>, "py", "S101", {"S"}, 3, 4, "error")>>,
     cppcheck |-> <<EntryOf("x", <<"src">>, "c", "nullPointer", {"null"}, 3, 3, "error"), EntryOf("x", <<"src">>, "c", "config", {}, 1, 1, "")>>,
     clang_tidy |-> <<EntryOf("x", <<"src">>, "c", "core", {"clang-analyzer-core.null", "clang-analyzer"}, 3, 3, "warning"),
                      EntryOf("x", <<"src">>, "c", "cert", {"cert-"}, 2, 2, "warning")>>,
     semgrep |-> <<EntryOf("a", <<>>, "py", "shell", {}, 2, 3, "ERROR"), EntryOf("x", <<"src">>, "c", "gets", {}, 3, 3, "WARNING")>>]
LOCAL Process(entries) ==
    [starts |-> TRUE, ends |-> 1, floods |-> Forever + 1, exit |-> 0, parses |-> TRUE, entries |-> entries, shown |-> 1]
GoodTools ==
    [a \in DOMAIN ToolEntries |->
       [found |-> TRUE, asked |-> Process(<<>>), version |-> "1", raises |-> FALSE, process |-> Process(ToolEntries[a])]]
ToolStates(tool) ==
    {tool, [tool EXCEPT !.found = FALSE], [tool EXCEPT !.asked.exit = 1], [tool EXCEPT !.version = "2"], [tool EXCEPT !.raises = TRUE],
     [tool EXCEPT !.process.starts = FALSE], [tool EXCEPT !.process.exit = 1], [tool EXCEPT !.process.ends = Forever],
     [tool EXCEPT !.process.floods = 1, !.process.ends = 2], [tool EXCEPT !.process.floods = 1, !.process.ends = 9],
     [tool EXCEPT !.process.parses = FALSE]}
AnalysisRequests ==
    {[commit |-> 1, changed |-> c[1], database |-> c[2]] :
       c \in {<<<<>>, FALSE>>, <<SourceAt(<<>>, "a", "py") :> {2}, FALSE>>, <<SourceAt(<<"src">>, "x", "h") :> {1}, TRUE>>}
              \cup {<<(SourceAt(<<>>, "a", "py") :> {3}) @@ (SourceAt(<<"src">>, "x", "c") :> {3}), d>> : d \in BOOLEAN}}
AnalysisConfigs ==
    {LoadedConfig(<<[form |-> "absent"], [form |-> "valid", config |-> c]>>) :
       c \in {DefaultConfig, [DefaultConfig EXCEPT !.enabled = {"ruff"}], [DefaultConfig EXCEPT !.own = [semgrep |-> "no"], !.seconds = 1]}}

(* Findings that may be one, and requests for runs of one commit or two.   *)
LOCAL FoundBy(tool, range, name) ==
    [finding |-> [file |-> 1, start |-> range[1], end |-> range[2], category |-> "security", analyzer |-> tool[1], rule |-> tool[2],
                  severity |-> tool[3], confidence |-> "high"], name |-> name]
EnrichedFindings ==
    {FoundBy(tool, range, name) : tool \in {<<"ruff", 1, "low">>, <<"ruff", 2, "high">>, <<"semgrep", 1, "low">>},
       range \in {<<1, 2>>, <<2, 3>>, <<3, 3>>}, name \in {TopLevel, <<"a">>, <<"b">>}}
LOCAL RunRequest(identity, active, outcome, findings) ==
    [identity |-> identity, active |-> active, outcome |-> outcome, findings |-> findings]
RunRequests ==
    {<<RunRequest([commit |-> 1, config |-> 1], 1, first, 5), RunRequest([commit |-> 1, config |-> c], 1, second, 6),
       RunRequest([commit |-> k, config |-> 1], 1, third, 7)>> :
       first \in {"succeeded", "partial", "raises"}, second \in {"succeeded", "failed", "raises"}, third \in {"succeeded", "partial"},
       c \in 1..2, k \in 1..2}
RunSchedules == {s \in [1..6 -> 1..3] : s[1] = 1 /\ \A r \in 1..3 : Cardinality({n \in 1..6 : s[n] = r}) = 2}
-----------------------------------------------------------------------------
(* A follow-up review: two files of an earlier index, each left alone,     *)
(* changed, deleted, renamed (to 3), added or turned into a link, and what *)
(* the later index has of them.  A function is its name and its body.      *)
FirstBodies ==
    {<<>>, <<<<"a", "x">>>>, <<<<"b", "x">>>>, <<<<"a", "x">>, <<"b", "x">>>>, <<<<"a", "x">>, <<"b", "y">>>>, <<<<"a", "x">>, <<"a", "y">>>>}
SecondBodies == {<<>>, <<<<"b", "x">>>>, <<<<"a", "x">>>>}
FileChanges(path, bodies, statuses) ==
    {c \in [status : statuses, path : {path}, old : bodies, new : bodies] :
       CASE c.status = "same" -> c.old = c.new [] c.status = "A" -> c.old = <<>> [] c.status \in {"D", "T"} -> c.new = <<>> [] OTHER -> TRUE}
NewFile(c) == IF c.status = "R" THEN 3 ELSE c.path
GitRecords(cs) ==
    LET named == SelectSeq(cs, LAMBDA c : c.status # "same")
    IN  [i \in DOMAIN named |->
           [status |-> named[i].status, paths |-> IF named[i].status = "R" THEN <<named[i].path, NewFile(named[i])>> ELSE <<named[i].path>>]]
SymbolsOf(cs, side) ==
    LET inFile(c) == IF side = "old" THEN c.path ELSE NewFile(c)
        all == FlattenSeq([i \in DOMAIN cs |-> [j \in DOMAIN cs[i][side] |-> <<inFile(cs[i]), cs[i][side][j], j>>]])
    IN  [i \in DOMAIN all |->
           [id |-> i, file |-> all[i][1], name |-> all[i][2][1], kind |-> "function", hash |-> all[i][2][2],
            start |-> IF side = "old" THEN 3 * all[i][3] ELSE 3 * all[i][3] + 1]]
FollowUps ==
    {IF turned THEN <<d, c>> ELSE <<c, d>> :
       turned \in BOOLEAN, c \in FileChanges(1, FirstBodies, {"same", "M", "D", "R"}), d \in FileChanges(2, SecondBodies, {"same", "M", "A", "T"})}

OpenFindings(previous) ==
    {[symbol |-> s.id, file |-> s.file, start |-> s.start + 1, quotes |-> quotes] : s \in ToSet(previous), quotes \in {{}, {"x"}, {"y"}}}
      \cup {[symbol |-> 0, file |-> f, start |-> 1, quotes |-> {"m"}] : f \in 1..2}
      \cup {[symbol |-> 9, file |-> 1, start |-> 1, quotes |-> {"x"}]}
GoodGit(records) ==
    [init |-> TRUE, commit |-> TRUE, everything |-> TRUE, answer |-> "yes", diff |-> TRUE, changes |-> ChangesOf(records)]
FollowUp(cs) ==
    LET previous == SymbolsOf(cs, "old")
        current == SymbolsOf(cs, "new")
        left == {NewFile(c) : c \in {c \in ToSet(cs) : c.status \notin {"D", "T"}}}
    IN  [source |-> [local |-> FALSE, init |-> TRUE, commit |-> TRUE, everything |-> TRUE, checkout |-> TRUE],
         file |-> [form |-> "mapping", incremental |-> "auto", memory |-> TRUE], generation |-> "succeeded", same |-> FALSE,
         toolchain |-> 1, before |-> 1, git |-> GoodGit(GitRecords(cs)), previous |-> previous, current |-> current,
         findings |-> OpenFindings(previous), earlier |-> 2, files |-> [f \in left |-> {"m"} \cup {s.hash : s \in {s \in ToSet(current) : s.file = f}}],
         candidates |-> {[symbol |-> s.id, file |-> s.file] : s \in ToSet(current)} \cup {[symbol |-> 0, file |-> f] : f \in left}]
LessProven(w) ==
    {[w EXCEPT !.generation = g] : g \in {"none", "failed"}} \cup {[w EXCEPT !.toolchain = 2], [w EXCEPT !.same = TRUE], [w EXCEPT !.files = <<>>]}
      \cup {[w EXCEPT !.git.answer = a] : a \in {"no", "error"}}
      \cup {[w EXCEPT !.git.diff = FALSE], [w EXCEPT !.git.init = FALSE], [w EXCEPT !.git.commit = FALSE],
            [w EXCEPT !.git.commit = FALSE, !.git.everything = FALSE], [w EXCEPT !.source.checkout = FALSE],
            [w EXCEPT !.source.local = TRUE, !.source.init = FALSE]}
      \cup {[w EXCEPT !.file = f] :
              f \in {[form |-> "absent"], [form |-> "mapping", incremental |-> "bare off", memory |-> FALSE],
                     [form |-> "mapping", incremental |-> "off", memory |-> TRUE], [form |-> "mapping", incremental |-> "auto", memory |-> FALSE]}}
=============================================================================
