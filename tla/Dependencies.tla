---------------------------- MODULE Dependencies ----------------------------
(***************************************************************************)
(* What a repository depends on outside itself, found without running it.  *)
(*                                                                         *)
(* Sources are scanned for imports, constructors, calls, URLs, names of    *)
(* environment variables and API paths; adapters of known providers and of *)
(* OpenAPI specifications turn them, with what manifests and lockfiles     *)
(* say, into dependencies with evidence, usage sites and a contract; and   *)
(* the registry keeps what successive inventories of a repository found.   *)
(*                                                                         *)
(* A dotted name is a sequence of names; a file's statements are numbered  *)
(* as its lines.  A provider has packages of each ecosystem, modules of    *)
(* each language, hosts and environment variables.  What there may be none *)
(* of, a version say, is a sequence of at most one.                        *)
(***************************************************************************)
EXTENDS Naturals, Sequences, SequencesExt, FiniteSets, FiniteSetsExt
LOCAL INSTANCE TLC

NoName == "none"

-----------------------------------------------------------------------------
(* scan: what the statements of a source say.                              *)

Observed(kind, line, subject, detail) == [kind |-> kind, line |-> line, subject |-> subject, detail |-> detail]

(* sanitized_url_path: a segment that looks like a token is not kept.      *)
SanitizedPath(segments) ==
    [i \in DOMAIN segments |-> CASE segments[i] = "placeholder" -> "{}"
                                 [] segments[i] = "token" -> "{redacted}"
                                 [] OTHER -> segments[i]]

(* _string_observations, _python_env_observation and their like.           *)
Literals(statements) ==
    {CASE statements[n].is = "url" -> Observed("url", n, <<statements[n].host>>, SanitizedPath(statements[n].path))
       [] statements[n].is = "path" -> Observed("string_path", n, statements[n].path, <<>>)
       [] OTHER -> Observed("env_var", n, <<statements[n].name>>, <<>>) :
       n \in {n \in DOMAIN statements : statements[n].is \in {"url", "path", "env"}}}

Importing(statements, tracked) ==
    {n \in DOMAIN statements : statements[n].is = "import" /\ Head(statements[n].module) \in tracked}

(* Local names of tracked modules: the last import that binds one tells.   *)
BoundNames(statements, tracked) ==
    LET binds(name) == {n \in Importing(statements, tracked) : name \in statements[n].names}
    IN  [name \in UNION {statements[n].names : n \in Importing(statements, tracked)} |->
           Head(statements[Max(binds(name))].module)]

(* Variables, or chains of attributes, that hold what a call of a bound    *)
(* name returned.                                                          *)
Instances(statements, bound) ==
    LET made == {n \in DOMAIN statements : statements[n].is = "assign" /\ statements[n].chain[1] \in DOMAIN bound}
        last(target) == Max({n \in made : statements[n].target = target})
    IN  [target \in {statements[n].target : n \in made} |-> bound[statements[last(target)].chain[1]]]

CallStatements(statements) == {n \in DOMAIN statements : statements[n].is \in {"assign", "call"}}

Imports(statements) ==
    {Observed("import", n, statements[n].module, <<>>) : n \in {n \in DOMAIN statements : statements[n].is = "import"}}

(* The longest proper prefix of a chain that is a receiver, or 0.          *)
Receiver(chain, receivers) ==
    Max({0} \cup {s \in 1..Len(chain) - 1 : SubSeq(chain, 1, s) \in DOMAIN receivers})

(* _python_call_observation; capitalized are the names that begin so.      *)
PythonCall(chain, line, bound, instances, capitalized) ==
    LET s == Receiver(chain, instances) IN
    IF s > 0 THEN {Observed("call", line, <<instances[SubSeq(chain, 1, s)]>>, SubSeq(chain, s + 1, Len(chain)))}
    ELSE IF chain[1] \notin DOMAIN bound THEN {}
    ELSE IF Len(chain) = 1 \/ (Len(chain) = 2 /\ chain[2] \in capitalized)
    THEN {Observed("constructor", line, <<bound[chain[1]]>>, <<Last(chain)>>)}
    ELSE {Observed("call", line, <<bound[chain[1]]>>, Tail(chain))}

ScanPython(statements, tracked, capitalized) ==
    LET bound == BoundNames(statements, tracked)
        instances == Instances(statements, bound)
    IN  Imports(statements) \cup Literals(statements)
          \cup UNION {PythonCall(statements[n].chain, n, bound, instances, capitalized) : n \in CallStatements(statements)}

(* scan_javascript: whatever is assigned from a bound name is taken for an *)
(* instance and for a constructor, a bound name is itself a receiver.      *)
ScanJavascript(statements, tracked) ==
    LET bound == BoundNames(statements, tracked)
        instances == Instances(statements, bound)
        receivers == instances @@ [r \in {<<name>> : name \in DOMAIN bound} |-> bound[r[1]]]
        constructed == {n \in DOMAIN statements : statements[n].is = "assign" /\ statements[n].chain[1] \in DOMAIN bound}
        called == {n \in CallStatements(statements) : Receiver(statements[n].chain, receivers) > 0}
        detail(chain) == SubSeq(chain, Receiver(chain, receivers) + 1, Len(chain))
        of(chain) == receivers[SubSeq(chain, 1, Receiver(chain, receivers))]
    IN  Imports(statements) \cup Literals(statements)
          \cup {Observed("constructor", n, <<bound[statements[n].chain[1]]>>, <<statements[n].chain[1]>>) : n \in constructed}
          \cup {Observed("call", n, <<of(statements[n].chain)>>, detail(statements[n].chain)) : n \in called}

(* javascript_symbol_spans: lines declare a name or NoName and have       *)
(* braces; an arrow function may end on its line.                          *)
LOCAL Brace(state, brace, line) ==
    IF brace = "open"
    THEN [state EXCEPT !.depth = @ + 1, !.pending = <<>>,
                       !.stack = @ \o [i \in DOMAIN state.pending |-> [at |-> state.pending[i], depth |-> state.depth]]]
    ELSE LET closes == state.stack # <<>> /\ Last(state.stack).depth + 1 = state.depth
         IN  [state EXCEPT !.depth = @ - 1, !.stack = IF closes THEN Front(@) ELSE @,
                           !.spans = IF closes THEN @ \cup {Last(state.stack).at @@ [end |-> line]} ELSE @]

LOCAL SpansOfLine(state, line, number) ==
    LET parent == IF state.stack = <<>> THEN <<>> ELSE Last(state.stack).at.name
        declared == IF line.name = NoName THEN state
                    ELSE [state EXCEPT !.pending = <<[name |-> Append(parent, line.name), start |-> number]>>]
        after == FoldLeft(LAMBDA s, brace : Brace(s, brace, number), declared, line.braces)
    IN  IF line.arrow
        THEN [after EXCEPT !.spans = @ \cup {p @@ [end |-> number] : p \in ToSet(after.pending)}, !.pending = <<>>]
        ELSE after

JavascriptSpans(lines) ==
    FoldLeftDomain(LAMBDA state, n : SpansOfLine(state, lines[n], n),
                   [stack |-> <<>>, depth |-> 0, pending |-> <<>>, spans |-> {}], lines).spans

-----------------------------------------------------------------------------
(* manifests: declarations and resolutions are in the order of the files.  *)

(* sanitize_spec: of a URL only the host is kept.                          *)
SanitizedSpec(spec) == IF spec.form = "url" THEN [form |-> "url", value |-> spec.host] ELSE [form |-> spec.form, value |-> spec.value]

(* parse_manifest; an entry may be a comment or an option, or the language *)
(* itself, and a file that does not parse declares nothing.                *)
ParseManifest(file) ==
    IF ~file.parses THEN <<>>
    ELSE LET packages == SelectSeq(file.entries, LAMBDA e : e.is = "package")
         IN  [n \in DOMAIN packages |-> [ecosystem |-> file.ecosystem, name |-> packages[n].name,
                                         spec |-> SanitizedSpec(packages[n].spec), path |-> file.path]]

(* parse_lockfile: the npm readers keep the first of each name.            *)
ParseLockfile(file) ==
    IF ~file.parses THEN <<>>
    ELSE LET first(n) == \A p \in 1..n - 1 : file.entries[p].name # file.entries[n].name
             kept == SelectSeq([n \in DOMAIN file.entries |-> n], LAMBDA n : file.ecosystem # "npm" \/ first(n))
         IN  [n \in DOMAIN kept |-> [ecosystem |-> file.ecosystem, name |-> file.entries[kept[n]].name,
                                     version |-> file.entries[kept[n]].version, path |-> file.path]]

FirstOf(s) == SubSeq(s, 1, IF s = <<>> THEN 0 ELSE 1)

(* PackageIndex.declared and resolved.                                     *)
Declared(packages, ecosystem, names) ==
    SelectSeq(packages.declarations, LAMBDA d : d.ecosystem = ecosystem /\ d.name \in ToSet(names))
ResolvedPackage(packages, ecosystem, name) ==
    FirstOf(SelectSeq(packages.resolutions, LAMBDA r : r.ecosystem = ecosystem /\ r.name = name))

VersionOf(declaration, resolution) ==
    [declared |-> [i \in DOMAIN declaration |-> declaration[i].spec],
     resolved |-> [i \in DOMAIN resolution |-> resolution[i].version]]

-----------------------------------------------------------------------------
(* Adapters. *)

Establishing ==
    {"manifest_declaration", "lockfile_resolution", "import", "sdk_constructor", "sdk_call", "http_endpoint",
     "openapi_spec", "generated_client"}
Using ==
    {"import", "sdk_constructor", "sdk_call", "http_endpoint", "env_var_name", "openapi_path_reference",
     "generated_client"}
SdkUse == {"import", "sdk_constructor", "sdk_call"}

EvidenceItem(type, path, line, token) == [type |-> type, path |-> path, line |-> line, token |-> token]

EvidenceTypeOf ==
    [import |-> "import", constructor |-> "sdk_constructor", call |-> "sdk_call", url |-> "http_endpoint",
     env_var |-> "env_var_name", string_path |-> "openapi_path_reference"]
EvidenceOf(o, path) ==
    EvidenceItem(EvidenceTypeOf[o.kind], path, o.line,
             CASE o.kind \in {"constructor", "call"} -> o.detail
               [] o.kind = "url" -> o.subject \o o.detail
               [] OTHER -> o.subject)

(* KnownProviderAdapter.discover_usage: the repository's own module is not *)
(* the SDK of its name.                                                    *)
DiscoverUsage(provider, source, observations, own) ==
    {EvidenceOf(o, source.path) : o \in
       {o \in observations :
          \/ /\ o.kind \in {"import", "constructor", "call"}
             /\ o.subject[1] \in provider.modules[source.language]
             /\ source.language = "python" => o.subject[1] \notin own
          \/ o.kind = "url" /\ o.subject[1] \in provider.hosts
          \/ o.kind = "env_var" /\ o.subject[1] \in provider.variables}}

SpecUsage(spec, source, observations) ==
    {EvidenceOf(o, source.path) : o \in
       {o \in observations : \/ o.kind = "string_path" /\ o.subject \in spec.paths
                             \/ o.kind = "url" /\ o.subject[1] \in spec.hosts}}

(* KnownProviderAdapter._draft *)
Types(evidence) == {e.type : e \in evidence}
SdkDraft(provider, kind, ecosystem, name, version, evidence) ==
    [key |-> <<provider.key, IF kind = "http_api" THEN "http" ELSE ecosystem>>, kind |-> kind, ecosystem |-> ecosystem,
     package |-> name, version |-> version, evidence |-> evidence,
     confidence |-> IF /\ Types(evidence) \cap {"manifest_declaration", "lockfile_resolution"} # {}
                       /\ Types(evidence) \cap SdkUse # {}
                    THEN "high" ELSE "medium",
     contract |-> <<[package |-> <<provider.key, ecosystem, name>>, version |-> version,
                     surface |-> {e.token : e \in {e \in evidence : e.type \in {"sdk_call", "sdk_constructor"}}},
                     endpoints |-> {e.token : e \in {e \in evidence : e.type = "http_endpoint"}}]>>]

Ecosystems == <<"go", "npm", "pypi">>

LOCAL LockEvidence(resolution) == {EvidenceItem("lockfile_resolution", r.path, 0, <<r.name>>) : r \in ToSet(resolution)}

(* What manifests and lockfiles say of a provider's packages.              *)
LOCAL PackageEvidence(declarations, packages, ecosystem) ==
    {EvidenceItem("manifest_declaration", d.path, 0, <<d.name>>) : d \in ToSet(declarations)}
      \cup LockEvidence(ResolvedPackage(packages, ecosystem, Head(declarations).name))

(* KnownProviderAdapter.normalize_dependency; language tells a path's.     *)
NormalizeKnown(provider, evidence, packages, language) ==
    LET declared == [e \in ToSet(Ecosystems) |-> Declared(packages, e, provider.packages[e])]
        loose == {e \in evidence : e.type \in {"http_endpoint", "env_var_name"}}
        http == {e \in loose : e.type = "http_endpoint"}
        used(ecosystem) == {e \in evidence \ loose : ecosystem = IF language[e.path] = "javascript" THEN "npm" ELSE "pypi"}
        own(e) == (IF declared[e] = <<>> THEN {} ELSE PackageEvidence(declared[e], packages, e)) \cup used(e)
        present == SelectSeq(Ecosystems, LAMBDA e : own(e) # {})
        name(e) == IF declared[e] # <<>> THEN Head(declared[e]).name
                   ELSE IF provider.packages[e] = <<>> THEN NoName ELSE Head(provider.packages[e])
        drafts == {SdkDraft(provider, "sdk", present[n], name(present[n]),
                            VersionOf(FirstOf(declared[present[n]]), ResolvedPackage(packages, present[n], name(present[n]))),
                            own(present[n]) \cup IF n = 1 THEN loose ELSE {}) : n \in DOMAIN present}
        all == IF drafts = {} /\ http # {}
               THEN {SdkDraft(provider, "http_api", "none", NoName, VersionOf(<<>>, <<>>), loose)} ELSE drafts
    IN  {d \in all : Types(d.evidence) \cap Establishing # {}}

(* OpenAPIAdapter.normalize_dependency; usage is by specification, and     *)
(* generated are the files that an OpenAPI generator left.                 *)
NormalizeSpecs(specs, usage, generated) ==
    LET markers == {EvidenceItem("generated_client", p, 0, <<p>>) : p \in generated}
        draft(spec) ==
          [key |-> <<"openapi", spec.path>>, kind |-> "openapi_contract", ecosystem |-> "openapi", package |-> NoName,
           version |-> VersionOf(<<[spec |-> spec.version]>>, <<>>), confidence |-> "high", contract |-> <<spec.contract>>,
           evidence |-> {EvidenceItem("openapi_spec", spec.path, 0, <<spec.path>>)}
                          \cup {EvidenceItem("openapi_server_host", spec.path, 0, <<h>>) : h \in spec.hosts}
                          \cup usage[spec] \cup IF Cardinality(specs) = 1 THEN markers ELSE {}]
        client == [key |-> <<"openapi", "generated-client">>, kind |-> "openapi_contract", ecosystem |-> "openapi",
                   package |-> NoName, version |-> VersionOf(<<>>, <<>>), confidence |-> "medium",
                   contract |-> <<>>, evidence |-> markers]
    IN  {draft(spec) : spec \in specs} \cup IF specs = {} /\ generated # {} THEN {client} ELSE {}

(* _generic_package_drafts: the packages no provider claims, by their      *)
(* first declaration.                                                      *)
ImportEvidence(imports, ecosystem, name, own, language) ==
    IF ecosystem = "pypi" /\ name \in own THEN {}
    ELSE {EvidenceItem("import", i.path, i.line, i.subject) : i \in
            {i \in imports : i.subject[1] = name
                             /\ ecosystem = IF language[i.path] = "javascript" THEN "npm" ELSE "pypi"}}

LOCAL GenericDraft(d, resolution, imported) ==
    [key |-> <<"package", d.ecosystem, d.name>>, kind |-> "package", ecosystem |-> d.ecosystem, package |-> d.name,
     version |-> VersionOf(<<d>>, resolution),
     evidence |-> {EvidenceItem("manifest_declaration", d.path, 0, <<d.name>>)} \cup LockEvidence(resolution) \cup imported,
     confidence |-> IF imported # {} THEN "high" ELSE "medium",
     contract |-> <<[package |-> <<d.ecosystem, d.name>>, version |-> VersionOf(<<d>>, resolution)]>>]

GenericPackages(packages, imports, own, claimed, language) ==
    LET ds == packages.declarations
        ident(n) == <<ds[n].ecosystem, ds[n].name>>
    IN  {GenericDraft(ds[n], ResolvedPackage(packages, ds[n].ecosystem, ds[n].name),
                      ImportEvidence(imports, ds[n].ecosystem, ds[n].name, own, language)) :
           n \in {n \in DOMAIN ds : ident(n) \notin claimed /\ \A p \in 1..n - 1 : ident(p) # ident(n)}}

-----------------------------------------------------------------------------
(* discover_dependencies *)

(* _SymbolLocator.symbol_at: the innermost span around a line.             *)
InnermostSymbol(spans, line) ==
    LET around == {s \in spans : line \in s.start..s.end}
        inner(s, t) == s.end - s.start < t.end - t.start \/ (s.end - s.start = t.end - t.start /\ s.start >= t.start)
    IN  IF around = {} \/ line = 0 THEN <<>> ELSE (CHOOSE s \in around : \A t \in around : inner(s, t)).name

SiteConfidence(type) ==
    CASE type \in SdkUse \cup {"http_endpoint"} -> "high" [] type = "env_var_name" -> "low" [] OTHER -> "medium"

(* _finalize; spans has those of every source.                             *)
Finalize(draft, spans) ==
    draft @@ [sites |-> {[path |-> e.path, line |-> e.line, type |-> e.type, token |-> e.token,
                          symbol |-> IF e.path \in DOMAIN spans THEN InnermostSymbol(spans[e.path], e.line) ELSE <<>>,
                          confidence |-> SiteConfidence(e.type)] :
                           e \in {e \in draft.evidence : e.type \in Using}}]

(* _local_python_modules: the first part of the path of a source, without  *)
(* src or lib.                                                             *)
OwnModules(sources) == {s.top : s \in {s \in sources : s.language = "python"}}

(* Files that are denied or links lead nowhere; a store of secrets is      *)
(* counted and not opened; one too large or not text is not read.          *)
Walked(files) == {f \in files : f.access = "plain"}
Skipped(files) == Cardinality({f \in files : f.access = "secret"})
ReadOf(files, kind) == {f \in Walked(files) : f.kind = kind /\ f.readable}
LOCAL InPathOrder(files) == SetToSortSeq(files, LAMBDA f, g : f.order < g.order)

PackagesOf(files) ==
    [declarations |-> FlattenSeq([n \in 1..Cardinality(ReadOf(files, "manifest")) |->
                                    ParseManifest(InPathOrder(ReadOf(files, "manifest"))[n])]),
     resolutions |-> FlattenSeq([n \in 1..Cardinality(ReadOf(files, "lockfile")) |->
                                   ParseLockfile(InPathOrder(ReadOf(files, "lockfile"))[n])])]

ScanOf(source, tracked, capitalized) ==
    IF source.language = "python" THEN ScanPython(source.statements, tracked, capitalized)
    ELSE ScanJavascript(source.statements, tracked)

Claimed(providers) ==
    UNION {{<<e, p.packages[e][n]>> : n \in DOMAIN p.packages[e]} : p \in providers, e \in ToSet(Ecosystems)}

LOCAL Drafts(providers, sources, scans, specs, generated, packages, language) ==
    LET own == OwnModules(sources)
        usage(p) == UNION {DiscoverUsage(p, s, scans[s], own) : s \in sources}
        imports == UNION {{[path |-> s.path, line |-> o.line, subject |-> o.subject] :
                             o \in {o \in scans[s] : o.kind = "import"}} : s \in sources}
    IN  UNION {NormalizeKnown(p, usage(p), packages, language) : p \in providers}
          \cup NormalizeSpecs(specs, [spec \in specs |-> UNION {SpecUsage(spec, s, scans[s]) : s \in sources}], generated)
          \cup GenericPackages(packages, imports, own, Claimed(providers), language)

DiscoverDependencies(files, providers, capitalized) ==
    LET sources == ReadOf(files, "source")
        tracked == UNION {p.modules["python"] \cup p.modules["javascript"] : p \in providers}
        generated == {f.path : f \in {f \in sources : f.generated}} \cup {f.path : f \in {f \in Walked(files) : f.kind = "generator"}}
        spans == [path \in {s.path : s \in sources} |-> (CHOOSE s \in sources : s.path = path).spans]
        language == [path \in {s.path : s \in sources} |-> (CHOOSE s \in sources : s.path = path).language]
    IN  {Finalize(d, spans) : d \in Drafts(providers, sources, [s \in sources |-> ScanOf(s, tracked, capitalized)],
                                           ReadOf(files, "spec"), generated, PackagesOf(files), language)}

(* build_dependency_graph *)
DependencyEdges(dependencies) ==
    {<<"uses", <<s.path>> \o s.symbol, d.key, s.type>> :
       <<d, s>> \in UNION {{d} \X d.sites : d \in dependencies}}
      \cup {<<"has_contract", d.key, d.contract>> : d \in {d \in dependencies : d.contract # <<>>}}

-----------------------------------------------------------------------------
(* The registry: rows by key, each with its usage sites and the snapshots  *)
(* of its contract.                                                        *)

(* DependencyRegistry._fields *)
Fields(d) ==
    [kind |-> d.kind, version |-> d.version, confidence |-> d.confidence, contract |-> d.contract, usage |-> d.sites]

(* _record_contract: a snapshot for each fingerprint ever seen.            *)
Snapshots(snapshots, d, at) ==
    [c \in ToSet(d.contract) |-> [first |-> IF c \in DOMAIN snapshots THEN snapshots[c].first ELSE at, last |-> at]]
      @@ snapshots

NewRow(d, at) ==
    [status |-> "active", removed |-> 0, first |-> at, last |-> at, fields |-> Fields(d), sites |-> d.sites,
     snapshots |-> Snapshots(<<>>, d, at)]

SeenAgain(row, d, at) ==
    [row EXCEPT !.status = "active", !.removed = IF row.status = "active" THEN @ ELSE 0, !.last = at,
                !.sites = IF row.fields.usage = d.sites THEN @ ELSE d.sites,
                !.fields = Fields(d), !.snapshots = Snapshots(@, d, at)]

NotSeen(row, at) == IF row.status = "active" THEN [row EXCEPT !.status = "removed", !.removed = at] ELSE row

(* What the result counts a known dependency as.                           *)
CountedAs(row, d) ==
    IF row.status # "active" THEN "reactivated" ELSE IF row.fields # Fields(d) THEN "updated" ELSE "unchanged"

(* record_inventory, under the repository's lock: rows and the counts.     *)
LOCAL RecordByKey(rows, seen, at) ==
    LET known == DOMAIN rows \cap DOMAIN seen
        as(what) == Cardinality({k \in known : CountedAs(rows[k], seen[k]) = what})
        stored(k) == IF k \in DOMAIN rows THEN DOMAIN rows[k].snapshots ELSE {}
    IN  [rows |-> [k \in DOMAIN rows \cup DOMAIN seen |->
                     IF k \notin DOMAIN rows THEN NewRow(seen[k], at)
                     ELSE IF k \in DOMAIN seen THEN SeenAgain(rows[k], seen[k], at) ELSE NotSeen(rows[k], at)],
         counts |-> [created |-> Cardinality(DOMAIN seen \ DOMAIN rows), updated |-> as("updated"),
                     unchanged |-> as("unchanged"), reactivated |-> as("reactivated"),
                     removed |-> Cardinality({k \in DOMAIN rows \ DOMAIN seen : rows[k].status = "active"}),
                     snapshots |-> Cardinality({k \in DOMAIN seen : ~(ToSet(seen[k].contract) \subseteq stored(k))}),
                     rewritten |-> Cardinality({k \in known : rows[k].fields.usage # seen[k].sites})]]

RecordInventory(rows, dependencies, at) ==
    RecordByKey(rows, [k \in {d.key : d \in dependencies} |-> CHOOSE d \in dependencies : d.key = k], at)

(* list_dependencies *)
ListDependencies(rows) == {k \in DOMAIN rows : rows[k].status = "active"}

RecordAll(inventories) ==
    FoldLeftDomain(LAMBDA rows, n : RecordInventory(rows, inventories[n], n).rows, <<>>, inventories)

-----------------------------------------------------------------------------
(* What the laws say of them. *)

LOCAL At(d, path, line) == \E s \in d.sites : s.path = path /\ s.line = line
LOCAL Tells(d, ecosystem, name, providers) ==
    \/ d.key = <<"package", ecosystem, name>>
    \/ d.ecosystem = ecosystem /\ \E p \in providers : p.key = d.key[1] /\ name \in ToSet(p.packages[ecosystem])

LOCAL UsesAreTold(sources, providers, found) ==
    \A s \in sources, p \in providers : \A n \in DOMAIN s.statements :
      LET st == s.statements[n]
          own == s.language = "python" /\ st.is = "import" /\ st.module[1] \in OwnModules(sources)
          of == {d \in found : d.key[1] = p.key}
          telling == {d \in of : At(d, s.path, n)}
      IN  /\ Cardinality(telling) <= 1
          /\ \/ st.is = "import" /\ st.module[1] \in p.modules[s.language] /\ ~own
             \/ st.is = "url" /\ st.host \in p.hosts
               => telling # {}
          /\ st.is = "env" /\ st.name \in p.variables => (telling # {} <=> of # {})
          /\ own => telling = {}

(* Every use of a provider's module or host that a source shows is a site  *)
(* of exactly one dependency, a variable's name only of one that something *)
(* else establishes, and the repository's own module of none.  What a      *)
(* manifest that parses declares is told by exactly one dependency, under  *)
(* the provider's name if one claims it.  What looks like a token is in no *)
(* evidence.                                                               *)
LOCAL InventoryTellsAll(files, providers, found) ==
    LET declarations == ToSet(PackagesOf(files).declarations)
    IN  /\ UsesAreTold(ReadOf(files, "source"), providers, found)
        /\ \A d, e \in found : d.key = e.key => d = e
        /\ \A d \in declarations : Cardinality({f \in found : Tells(f, d.ecosystem, d.name, providers)}) = 1
        /\ \A d \in found : d.evidence # {} /\ \A e \in d.evidence : "token" \notin ToSet(e.token)
        /\ {d.key : d \in {d \in found : d.sites # {}}} = {e[3] : e \in {e \in DependencyEdges(found) : e[1] = "uses"}}
DependenciesAreTold(files, providers, capitalized) ==
    InventoryTellsAll(files, providers, DiscoverDependencies(files, providers, capitalized))

(* Spans of symbols nest or meet at a line; and when braces are balanced   *)
(* every function that opens one on its line, or is an arrow that does     *)
(* not, has its span.                                                      *)
SpansNest(lines) ==
    LET spans == JavascriptSpans(lines)
        braces == FlattenSeq([n \in DOMAIN lines |-> lines[n].braces])
        depth(n) == Cardinality({i \in 1..n : braces[i] = "open"}) - Cardinality({i \in 1..n : braces[i] = "close"})
        opening == {n \in DOMAIN lines : /\ lines[n].name # NoName
                                         /\ "open" \in ToSet(lines[n].braces) \/ lines[n].arrow}
    IN  /\ \A s, t \in spans : ~(s.start < t.start /\ t.start < s.end /\ s.end < t.end)
        /\ (depth(Len(braces)) = 0 /\ \A n \in DOMAIN braces : depth(n) >= 0) => opening \subseteq {s.start : s \in spans}

(* After any inventories, active are the dependencies of the last; each    *)
(* row has the sites it was last found with and one snapshot of every      *)
(* contract it ever had; the counts of a recording are all there is; and   *)
(* the same inventory again changes nothing but when it was seen.          *)
LOCAL Repeated(rows, dependencies, at) ==
    LET again == RecordInventory(rows, dependencies, at)
    IN  /\ again.counts = [again.counts EXCEPT !.created = 0, !.updated = 0, !.reactivated = 0, !.removed = 0,
                                               !.snapshots = 0, !.rewritten = 0]
        /\ \A k \in DOMAIN rows :
             /\ again.rows[k].fields = rows[k].fields /\ again.rows[k].sites = rows[k].sites
             /\ DOMAIN again.rows[k].snapshots = DOMAIN rows[k].snapshots
             /\ again.rows[k].status = rows[k].status /\ again.rows[k].removed = rows[k].removed
LOCAL CountsAddUp(before, dependencies, recorded) ==
    /\ recorded.counts.created + recorded.counts.updated + recorded.counts.unchanged + recorded.counts.reactivated
         = Cardinality(dependencies)
    /\ Cardinality(ListDependencies(before)) + recorded.counts.created + recorded.counts.reactivated - recorded.counts.removed
         = Cardinality(ListDependencies(recorded.rows))
RegistryFollows(inventories) ==
    LET n == Len(inventories)
        rows == RecordAll(inventories)
        had(k) == {i \in 1..n : \E d \in inventories[i] : d.key = k}
        of(i, k) == CHOOSE d \in inventories[i] : d.key = k
    IN  /\ ListDependencies(rows) = {d.key : d \in inventories[n]}
        /\ \A k \in DOMAIN rows :
             /\ rows[k].sites = of(Max(had(k)), k).sites /\ rows[k].first = Min(had(k)) /\ rows[k].last = Max(had(k))
             /\ DOMAIN rows[k].snapshots = UNION {ToSet(of(i, k).contract) : i \in had(k)}
        /\ Repeated(rows, inventories[n], n + 1)
        /\ LET before == RecordAll(Front(inventories))
           IN  CountsAddUp(before, inventories[n], RecordInventory(before, inventories[n], n))
=============================================================================
