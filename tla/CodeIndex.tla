------------------------------ MODULE CodeIndex ------------------------------
(***************************************************************************)
(* One indexing run (patchfrog.indexing.service._run_pipeline): parsing    *)
(* with the content-addressed cache, the resolution of imports and calls   *)
(* over the whole repository (patchfrog.intelligence.resolution), the test *)
(* relationships and the edges of the graph, and the rows that are stored. *)
(* ReviewPipeline has the run as a step among other runs.                  *)
(*                                                                         *)
(* files is a sequence of parsed files in the order of the inventory.  A   *)
(* reference is a path and a qualified name.  The import target of a C or  *)
(* C++ file is up (leading ".."), a directory and a file name.             *)
(***************************************************************************)
EXTENDS Parsing

NoPath == <<>>
SymbolAbsent == [kind |-> "none"]
SymbolRef(path, name) == [path |-> path, name |-> name]

PathsOf(files) == {f.path : f \in ToSet(files)}

-----------------------------------------------------------------------------
(* _file_to_module_path, _build_python_module_index: of two files with one *)
(* module path the later is in the index.                                  *)
IsPackage(path) == path.stem = "__init__"
FileName(path) ==
    CASE path.marker = "none" -> path.stem [] path.marker = "snake" -> "test_" \o path.stem [] path.marker = "camel" -> path.stem \o "Test"
ModuleOf(path) == IF IsPackage(path) THEN path.dir ELSE Append(path.dir, FileName(path))
FileOfModule(files, module) ==
    LET hits == SelectSeq(files, LAMBDA f : f.language = "python" /\ ModuleOf(f.path) = module)
    IN  IF hits = <<>> THEN NoPath ELSE Last(hits).path

(* _resolve_python_import.  The module path of a root __init__.py is "",   *)
(* which splits into one empty part.                                       *)
ContainingPackage(path) ==
    IF ~IsPackage(path) THEN path.dir ELSE IF path.dir = <<>> THEN <<NoText>> ELSE path.dir

PythonTarget(files, path, import) ==
    LET package == ContainingPackage(path)
        strip == import.dots - 1
        base == IF import.dots = 0 THEN <<>> ELSE SubSeq(package, 1, Len(package) - strip)
        module == SelectSeq(base \o import.parts, LAMBDA p : p # NoText)
        whole == FileOfModule(files, module)
    IN  IF import.dots > 0 /\ strip > Len(package) THEN NoPath
        ELSE IF whole # NoPath THEN whole
        ELSE IF Len(module) > 1 THEN FileOfModule(files, Front(module)) ELSE NoPath

(* _resolve_c_include *)
IncludeTarget(files, path, import) ==
    LET kept == Len(path.dir) - import.up
        normalized == [import.file EXCEPT !.dir = SubSeq(path.dir, 1, kept) \o @]
        matches == {p \in PathsOf(files) : import.up = 0 /\ IsSuffix(import.file.dir, p.dir) /\ [p EXCEPT !.dir = import.file.dir] = import.file}
    IN  IF kept >= 0 /\ normalized \in PathsOf(files) THEN normalized
        ELSE IF Cardinality(matches) = 1 THEN CHOOSE p \in matches : TRUE ELSE NoPath

(* resolve_imports, the imports of one file                                *)
ResolvedImports(files, f) ==
    [i \in DOMAIN f.imports |->
       [import |-> f.imports[i],
        target |-> IF f.language = "python" THEN PythonTarget(files, f.path, f.imports[i])
                   ELSE IF f.imports[i].local THEN IncludeTarget(files, f.path, f.imports[i]) ELSE NoPath]]

(* The text behind the last dot: of an include, its extension.             *)
ImportedName(f, import) == IF f.language = "python" THEN Last(import.parts) ELSE import.file.ext

-----------------------------------------------------------------------------
(* RepositoryResolver.__init__ *)
ResolvableKind == {"function", "method", "class", "struct"}
Static == {"static_definition", "static_declaration"}
BareDeclaration == {"declaration", "static_declaration"}
DefinitionVisibility == {"definition", "static_definition"}

Resolvable(f) == SelectSeq(f.symbols, LAMBDA s : s.kind \in ResolvableKind)

(* _symbol_by_qualified: the last one of that name                         *)
ResolvableAt(files, ref) ==
    LET named == [f \in {f \in ToSet(files) : f.path = ref.path} |-> SelectSeq(Resolvable(f), LAMBDA s : s.qualified = ref.name)]
        found == {f \in DOMAIN named : named[f] # <<>>}
    IN  IF found = {} THEN SymbolAbsent ELSE Last(named[CHOOSE f \in found : TRUE])

(* _symbols_by_name_in_file, _symbols_by_name and of these the top-level   *)
RefsOf(f, symbols) == [i \in DOMAIN symbols |-> SymbolRef(f.path, symbols[i].qualified)]
InFile(f, name) == RefsOf(f, SelectSeq(Resolvable(f), LAMBDA s : s.name = name /\ s.kind # "method"))
InRepository(files, name) ==
    FoldLeft(LAMBDA refs, f : refs \o RefsOf(f, SelectSeq(Resolvable(f), LAMBDA s : s.name = name /\ s.visibility \notin Static)),
             <<>>, files)
TopLevelRefs(files, name) == SelectSeq(InRepository(files, name), LAMBDA r : ResolvableAt(files, r).parent = TopLevel)

(* _collapse_declarations_onto_definition                                  *)
CollapsedOnto(files, refs, definitions) ==
    IF /\ Len(refs) > 1
       /\ Len(definitions) = 1
       /\ \A r \in ToSet(refs) \ ToSet(definitions) : ResolvableAt(files, r).visibility \in BareDeclaration
    THEN definitions ELSE refs
Collapsed(files, refs) ==
    CollapsedOnto(files, refs, SelectSeq(refs, LAMBDA r : ResolvableAt(files, r).visibility \in DefinitionVisibility))

(* Tier 1 and tier 3 of _resolve_one_call *)
ScopedMatch(files, f, call) ==
    LET caller == ResolvableAt(files, SymbolRef(f.path, call.caller))
        match == SymbolRef(f.path, Append(caller.parent, call.callee))
    IN  IF /\ f.language # "c" /\ call.caller # TopLevel
           /\ caller # SymbolAbsent /\ caller.parent # TopLevel
           /\ ResolvableAt(files, match) # SymbolAbsent
        THEN <<match>> ELSE <<>>

ImportedMatch(files, f, imports, call) ==
    LET matching == SelectSeq(imports, LAMBDA i : /\ i.target # NoPath
                                                  /\ ImportedName(f, i.import) = call.callee
                                                  /\ ResolvableAt(files, SymbolRef(i.target, <<call.callee>>)) # SymbolAbsent)
        top == SelectSeq(matching, LAMBDA i : ResolvableAt(files, SymbolRef(i.target, <<call.callee>>)).parent = TopLevel)
    IN  IF top = <<>> THEN <<>> ELSE <<SymbolRef(Head(top).target, <<call.callee>>)>>

CallAnswer(status, refs) == [status |-> status, target |-> refs]
UnresolvedCall == CallAnswer("unresolved", <<>>)
AmbiguousCall == CallAnswer("ambiguous", <<>>)
Only(refs) == IF Len(refs) = 1 THEN CallAnswer("resolved", refs) ELSE AmbiguousCall

(* _resolve_one_call: which of the tiers answers, from what each offers.   *)
TierAnswer(files, imports, scoped, here, imported, pool) ==
    LET deferred == Len(here) = 1 /\ ResolvableAt(files, here[1]).visibility = "declaration"
        narrowed == SelectSeq(pool, LAMBDA r : \E i \in ToSet(imports) : i.target = r.path)
    IN  CASE scoped # <<>> -> Only(scoped)
          [] scoped = <<>> /\ here # <<>> /\ ~deferred -> Only(here)
          [] OTHER ->
               IF imported # <<>> THEN Only(imported)
               ELSE IF pool = <<>> THEN IF deferred THEN Only(here) ELSE UnresolvedCall
               ELSE IF Len(pool) = 1 THEN Only(pool)
               ELSE Only(IF narrowed # <<>> THEN narrowed ELSE pool)
ResolvedCall(files, f, imports, call) ==
    TierAnswer(files, imports, ScopedMatch(files, f, call), Collapsed(files, InFile(f, call.callee)),
               ImportedMatch(files, f, imports, call), Collapsed(files, TopLevelRefs(files, call.callee)))

(* resolve_imports and resolve_calls over all files *)
AllImports(files) ==
    FlattenSeq([n \in DOMAIN files |->
       LET imports == ResolvedImports(files, files[n])
       IN  [i \in DOMAIN imports |-> [path |-> files[n].path] @@ imports[i]]])
AllCalls(files) ==
    FlattenSeq([n \in DOMAIN files |->
       LET f == files[n]
           imports == ResolvedImports(files, f)
       IN  [i \in DOMAIN f.calls |-> [path |-> f.path, call |-> f.calls[i]] @@ ResolvedCall(files, f, imports, f.calls[i])]])

-----------------------------------------------------------------------------
(* _parse_all: the cache is read once, before the loop; cache maps a key   *)
(* to a payload or to Corrupt.                                             *)
Corrupt == [corrupt |-> TRUE]
HasParser(entry) == entry.language \in Parser
CacheKey(entry) == <<entry.text, entry.language>>

(* How an entry is dealt with. *)
ParseStatus(cache, entry) ==
    CASE ~HasParser(entry) -> "skipped"
      [] HasParser(entry) /\ CacheKey(entry) \in DOMAIN cache /\ cache[CacheKey(entry)] # Corrupt -> "reused"
      [] OTHER -> IF entry.text.raises THEN "failed" ELSE "parsed"

ParseOf(cache, entry) ==
    IF ParseStatus(cache, entry) = "reused" THEN Restored(entry.path, entry.language, cache[CacheKey(entry)])
    ELSE Parsed(entry.path, entry.language, entry.text)

ParsedFiles(cache, inventory) ==
    LET kept == SelectSeq(inventory, LAMBDA e : ParseStatus(cache, e) \in {"reused", "parsed"})
    IN  [i \in DOMAIN kept |-> ParseOf(cache, kept[i])]

(* put: a row that is there stays.                                         *)
CacheAfter(cache, inventory) ==
    cache @@ [key \in {CacheKey(e) : e \in {e \in ToSet(inventory) : ParseStatus(cache, e) = "parsed"}} |->
                LET e == CHOOSE e \in ToSet(inventory) : CacheKey(e) = key
                IN  Serialized(Parsed(e.path, e.language, e.text))]

-----------------------------------------------------------------------------
(* infer_test_relationships: the pairs, each with its reasons              *)
NameMatches(inventory) ==
    LET tests == {e \in ToSet(inventory) : e.test}
        named(t) == {e \in ToSet(inventory) : ~e.test /\ e.path.marker = "none" /\ e.path.stem = t.path.stem}
    IN  {<<t.path, (CHOOSE e \in named(t) : TRUE).path>> : t \in {t \in tests : t.path.stem # NoText /\ Cardinality(named(t)) = 1}}
TestImports(inventory, imports) ==
    {<<i.path, i.target>> : i \in {i \in ToSet(imports) : i.target # NoPath /\ \E e \in ToSet(inventory) : e.test /\ e.path = i.path}}

TestRelationships(inventory, imports) ==
    LET named == NameMatches(inventory)
        imported == TestImports(inventory, imports)
    IN  {[test |-> p[1], source |-> p[2],
          reasons |-> {r \in {"filename pattern", "import evidence"} : p \in (IF r = "import evidence" THEN imported ELSE named)}] :
            p \in named \cup imported}

(* build_graph, and what of it is stored: a name without a symbol is NoRow  *)
Edge(kind, path, name, targetPath, targetName) ==
    [kind |-> kind, source |-> SymbolRef(path, name), target |-> SymbolRef(targetPath, targetName)]
ContainmentEdges(files) ==
    LET nested(f) == SelectSeq(f.symbols, LAMBDA s : s.parent # TopLevel)
    IN  FlattenSeq([n \in DOMAIN files |->
           [i \in DOMAIN nested(files[n]) |->
              Edge("contains", files[n].path, nested(files[n])[i].parent, files[n].path, nested(files[n])[i].qualified)]])
ImportEdges(imports) ==
    LET found == SelectSeq(imports, LAMBDA i : i.target # NoPath)
    IN  [i \in DOMAIN found |->
           Edge(IF "file" \in DOMAIN found[i].import THEN "includes" ELSE "imports", found[i].path, TopLevel, found[i].target, TopLevel)]
CallEdges(calls) ==
    LET found == SelectSeq(calls, LAMBDA c : c.status = "resolved" /\ c.call.caller # TopLevel)
    IN  [i \in DOMAIN found |-> Edge("calls", found[i].path, found[i].call.caller, found[i].target[1].path, found[i].target[1].name)]
TestEdges(tests) == SetToSeq({Edge("tests", t.test, TopLevel, t.source, TopLevel) : t \in tests})
GraphEdges(files, imports, calls, tests) ==
    ContainmentEdges(files) \o ImportEdges(imports) \o CallEdges(calls) \o TestEdges(tests)

-----------------------------------------------------------------------------
(* _persist_symbols: an id is the place of the row; of two symbols with    *)
(* one qualified name in a file the later is the one that is referred to.  *)
NoRow == 0
SymbolRows(files) ==
    FlattenSeq([n \in DOMAIN files |-> [i \in DOMAIN files[n].symbols |-> [path |-> files[n].path] @@ files[n].symbols[i]]])
IdOf(rows, ref) ==
    IF \E i \in DOMAIN rows : SymbolRef(rows[i].path, rows[i].qualified) = ref
    THEN CHOOSE i \in DOMAIN rows : /\ SymbolRef(rows[i].path, rows[i].qualified) = ref
                                    /\ \A j \in DOMAIN rows : j > i => SymbolRef(rows[j].path, rows[j].qualified) # ref
    ELSE NoRow
NamedId(rows, ref) == IF ref.name = TopLevel THEN NoRow ELSE IdOf(rows, ref)

(* _run_pipeline: the rows of one index (_persist_files, _persist_imports, *)
(* _persist_calls, _persist_edges) and its counts.                         *)
FileRow(cache, entry) ==
    [path |-> entry.path, language |-> entry.language,
     status |-> IF ParseStatus(cache, entry) = "reused" THEN "parsed" ELSE ParseStatus(cache, entry)]
SymbolRow(rows, row) == [row |-> row, parent |-> NamedId(rows, SymbolRef(row.path, row.parent))]
CallRow(rows, c) ==
    [path |-> c.path, callee |-> c.call.callee, status |-> c.status,
     caller |-> NamedId(rows, SymbolRef(c.path, c.call.caller)),
     resolved |-> IF c.status = "resolved" THEN IdOf(rows, c.target[1]) ELSE NoRow]
EdgeRow(rows, e) ==
    [kind |-> e.kind, from |-> e.source.path, to |-> e.target.path,
     source |-> NamedId(rows, e.source), target |-> NamedId(rows, e.target)]
RowsOf(cache, inventory, rows, imports, calls, edges) ==
    LET count(status) == Len(SelectSeq(inventory, LAMBDA e : ParseStatus(cache, e) = status))
    IN  [files |-> [i \in DOMAIN inventory |-> FileRow(cache, inventory[i])],
         symbols |-> [i \in DOMAIN rows |-> SymbolRow(rows, rows[i])],
         imports |-> imports,
         calls |-> [i \in DOMAIN calls |-> CallRow(rows, calls[i])],
         edges |-> [i \in DOMAIN edges |-> EdgeRow(rows, edges[i])],
         counts |-> [total |-> Len(inventory), parsed |-> count("parsed"), failed |-> count("failed"), reused |-> count("reused"),
                     symbols |-> Len(rows), edges |-> Len(edges)]]
IndexOf(cache, inventory, files, imports, calls) ==
    RowsOf(cache, inventory, SymbolRows(files), imports, calls,
           GraphEdges(files, imports, calls, TestRelationships(inventory, imports)))
IndexOfFiles(cache, inventory, files) == IndexOf(cache, inventory, files, AllImports(files), AllCalls(files))
Index(cache, inventory) == IndexOfFiles(cache, inventory, ParsedFiles(cache, inventory))

-----------------------------------------------------------------------------
(* RepositoryQueryService *)
CallersById(index, id) == {i \in DOMAIN index.calls : index.calls[i].resolved = id}
CalleesById(index, id) == {i \in DOMAIN index.calls : index.calls[i].caller = id}
ImportersOf(index, path) == {i.path : i \in {i \in ToSet(index.imports) : i.target = path}}
LikelyTests(index, path) == {e.from : e \in {e \in ToSet(index.edges) : e.kind = "tests" /\ e.to = path}}

(* symbol_containing_line: one of the shortest spans around the line       *)
Around(index, path, line) ==
    {i \in DOMAIN index.symbols : LET s == index.symbols[i].row IN s.path = path /\ s.span[1] <= line /\ line <= s.span[2]}
SpanOf(index, i) == index.symbols[i].row.span
Innermost(index, path, line) ==
    {i \in Around(index, path, line) :
       \A j \in Around(index, path, line) : SpanOf(index, i)[2] - SpanOf(index, i)[1] <= SpanOf(index, j)[2] - SpanOf(index, j)[1]}

-----------------------------------------------------------------------------
(* Laws.  A call that is resolved has the row of a symbol with the name    *)
(* that is called, and a call in a function has the row of that function,  *)
(* unless the function stands alone behind extern "C" in a C file.         *)
CallRowsAreSymbols(index, calls, unextracted) ==
    \A i \in DOMAIN calls :
          LET row == index.calls[i]
          IN  /\ row.status = "resolved" => row.resolved # NoRow /\ index.symbols[row.resolved].row.name = row.callee
              /\ row.status # "resolved" => row.resolved = NoRow
              /\ calls[i].call.caller # TopLevel /\ calls[i].call.caller \notin unextracted =>
                   row.caller # NoRow /\ index.symbols[row.caller].row.path = row.path

(* Every method, nested function and nested class of a Python file hangs   *)
(* below the symbol it is written in.                                      *)
PythonSymbolsHaveParents(index) ==
    \A i \in DOMAIN index.symbols :
        LET s == index.symbols[i]
        IN  s.row.path.ext = "py" =>
              IF Len(s.row.qualified) = 1 THEN s.parent = NoRow
              ELSE /\ s.parent # NoRow
                   /\ index.symbols[s.parent].row.qualified = Front(s.row.qualified)
                   /\ index.symbols[s.parent].row.path = s.row.path

(* A call is resolved into another file only at a top-level symbol, and    *)
(* only if that file is imported or no other file defines the name too; a  *)
(* static function of another file only if that file is included.          *)
ResolvedAcrossFilesIsEarned(files) ==
    \A n \in DOMAIN files :
        LET f == files[n] IN
        \A imports \in {ResolvedImports(files, f)} : \A call \in ToSet(f.calls) :
          \A answer \in {ResolvedCall(files, f, imports, call)} :
            answer.status = "resolved" /\ answer.target[1].path # f.path =>
                    LET r == answer.target[1]
                        s == ResolvableAt(files, r)
                    IN  /\ s.parent = TopLevel
                        /\ r.path \in {i.target : i \in ToSet(imports)}
                           \/ /\ s.visibility \notin Static
                              /\ \A g \in ToSet(files) : g.path \notin {f.path, r.path} =>
                                   ~ \E x \in ToSet(Resolvable(g)) :
                                       /\ x.name = call.callee /\ x.parent = TopLevel
                                       /\ x.visibility \in {"definition", "none"} /\ ResolvableAt(files, SymbolRef(g.path, x.qualified)) = x

(* A C function that is declared wherever it is used and defined once, in  *)
(* whatever file, is what a call of its name is resolved to.               *)
ExternsFindTheirDefinition(files) ==
    \A n \in DOMAIN files : \A call \in ToSet(files[n].calls) :
        LET f == files[n]
            refs == TopLevelRefs(files, call.callee)
            defined == SelectSeq(refs, LAMBDA r : ResolvableAt(files, r).visibility = "definition")
        IN  /\ f.language = "c" /\ IsInjective(refs) /\ Len(defined) = 1
            /\ \A r \in ToSet(refs) : ResolvableAt(files, r).visibility \in {"definition", "declaration"}
            /\ \A s \in ToSet(Resolvable(f)) : s.name = call.callee => s.visibility \notin Static
            /\ ImportedMatch(files, f, ResolvedImports(files, f), call) = <<>>
            => ResolvedCall(files, f, ResolvedImports(files, f), call) = Only(defined)

(* One more file, not imported, that defines a name never redirects a call *)
(* from the definition it had: the call keeps it, falls back to a bare     *)
(* declaration, or is left open.                                           *)
MoreDefinitionsNeverRedirect(files, more) ==
    LET after == Append(files, more) IN
    \A f \in ToSet(files) : \A was \in {ResolvedImports(files, f)}, is \in {ResolvedImports(after, f)} :
      \A call \in ToSet(f.calls) :
        \A old \in {ResolvedCall(files, f, was, call)}, new \in {ResolvedCall(after, f, is, call)} :
            /\ old.status = "resolved" /\ new.status = "resolved" /\ was = is
            /\ ResolvableAt(files, old.target[1]).visibility \notin BareDeclaration
            => \/ new.target = old.target
               \/ ResolvableAt(after, new.target[1]).visibility \in BareDeclaration

(* The order of the files decides nothing, unless two of them have the     *)
(* same module path.                                                       *)
OrderDecidesNothing(files) ==
    (\A f, g \in ToSet(files) : f.language = "python" /\ g.language = "python" /\ ModuleOf(f.path) = ModuleOf(g.path) => f = g)
    => ToSet(AllCalls(files)) = ToSet(AllCalls(Reverse(files)))

(* What a warm cache gives is what parsing gives, whatever was stored of   *)
(* these texts before and under whatever path; and a run leaves nothing    *)
(* for the next one to parse but what raised or has a corrupt row.         *)
WarmIsCold(cache, inventory) ==
    LET next == CacheAfter(cache, inventory)
    IN  /\ ToSet(ParsedFiles(cache, inventory)) = ToSet(ParsedFiles(<<>>, inventory))
        /\ \A e \in ToSet(inventory) : ParseStatus(next, e) = "parsed" =>
             CacheKey(e) \in DOMAIN cache /\ cache[CacheKey(e)] = Corrupt

(* Only a test file tests another, and by its name at most one, which is   *)
(* not a test itself.                                                      *)
TestsAreOfSources(inventory, imports) ==
    LET relationships == TestRelationships(inventory, imports)
        by_name == {t \in relationships : "filename pattern" \in t.reasons}
    IN  /\ \A t \in relationships : IsTestPath(t.test)
        /\ \A t, u \in by_name : ~IsTestPath(t.source) /\ (t.test = u.test => t = u)

(* The innermost symbol at a line is inside every other symbol there.      *)
InnermostIsInside(index, path, lines) ==
    \A line \in lines : \A i \in Innermost(index, path, line), j \in Around(index, path, line) :
        \/ IsPrefix(index.symbols[j].row.qualified, index.symbols[i].row.qualified)
        \/ SpanOf(index, i) = SpanOf(index, j)
=============================================================================
