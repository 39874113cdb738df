------------------------------- MODULE Parsing -------------------------------
(***************************************************************************)
(* From the tracked files of a snapshot to parsed files: the inventory     *)
(* (patchfrog.indexing.inventory, incremental), and what the three parsers *)
(* (patchfrog.parsing) take from the syntax tree of a file: its symbols,   *)
(* its imports and its calls.                                              *)
(*                                                                         *)
(* A path is its directory, the stem of its name without a test marker,    *)
(* the marker ("test_x" and "x_test" are "snake", "xTest" is "camel") and  *)
(* its extension.  A qualified name is the sequence of its parts, <<>> for *)
(* None.  A syntax node has a type and, as its type asks, a name, its      *)
(* children (kids), the module and the names of an import, and flags; its  *)
(* position in the text is the pair of its first and last line.            *)
(***************************************************************************)
EXTENDS Integers, Sequences, SequencesExt, FiniteSets

TopLevel == <<>>
NoText == ""

-----------------------------------------------------------------------------
(* detect_language; text tells whether a header has C++ syntax.            *)
LanguageOf(path, text) ==
    CASE path.ext = "py" -> "python"
      [] path.ext = "c" -> "c"
      [] path.ext \in {"cc", "cpp", "cxx", "hh", "hpp", "hxx"} -> "cpp"
      [] path.ext = "h" -> IF text.cpp THEN "cpp" ELSE "c"
      [] OTHER -> "none"

DenylistedDir ==
    {".git", "node_modules", ".venv", "venv", "env", "dist", "build", "target", "__pycache__", ".mypy_cache",
     ".pytest_cache", ".ruff_cache", ".tox", "vendor", "third_party", "thirdparty"}

(* is_test_path *)
IsTestPath(path) == path.marker = "snake" \/ ToSet(path.dir) \cap {"test", "tests"} # {}

(* build_inventory: a tracked file has a path and a text, and its kind is  *)
(* what stands at the path (file, symlink, submodule, unreadable).         *)
Indexable(tracked) ==
    /\ ToSet(tracked.path.dir) \cap DenylistedDir = {}
    /\ tracked.kind = "file"
    /\ ~tracked.text.large
    /\ ~tracked.text.binary

Inventory(snapshot) ==
    LET kept == SelectSeq(snapshot, Indexable)
    IN  [i \in DOMAIN kept |->
           [path |-> kept[i].path, text |-> kept[i].text,
            language |-> LanguageOf(kept[i].path, kept[i].text), test |-> IsTestPath(kept[i].path)]]

(* _parse_name_status: the records git prints, each a status and its paths *)
ChangesOf(records) ==
    LET known == SelectSeq(records, LAMBDA r : r.status \in {"A", "M", "D", "R"})
    IN  [i \in DOMAIN known |->
           [type |-> CASE known[i].status = "A" -> "added" [] known[i].status = "M" -> "modified"
                       [] known[i].status = "D" -> "deleted" [] known[i].status = "R" -> "renamed",
            path |-> Last(known[i].paths), previous |-> Front(known[i].paths)]]

-----------------------------------------------------------------------------
(* What a walk collects. *)
NoPart == [symbols |-> <<>>, imports |-> <<>>, calls |-> <<>>]
And(a, b) == [part \in DOMAIN a |-> a[part] \o b[part]]
OneSymbol(s) == [NoPart EXCEPT !.symbols = <<s>>]
OneCall(callee, caller) ==
    IF callee = NoText THEN NoPart ELSE [NoPart EXCEPT !.calls = <<[callee |-> callee, caller |-> caller]>>]

Kids(node) == IF "kids" \in DOMAIN node THEN node.kids ELSE <<>>

Symbol(node, name, qualified, kind, parent, visibility) ==
    [name |-> name, qualified |-> qualified, kind |-> kind, parent |-> parent, visibility |-> visibility, span |-> node.span]

(* has_static_storage_class, with whether there is a body                  *)
Visibility(static, body) ==
    IF static THEN IF body THEN "static_definition" ELSE "static_declaration"
    ELSE IF body THEN "definition" ELSE "declaration"

-----------------------------------------------------------------------------
(* The Python parser.  scope: the qualified name, whether it is a class,   *)
(* and the function a call is made in.                                     *)
PyTargets(node) ==
    [i \in DOMAIN node.names |->
       IF node.from
       THEN [dots |-> node.module.dots, parts |-> node.module.parts \o node.names[i],
             local |-> node.module.dots > 0]
       ELSE [dots |-> 0, parts |-> node.names[i], local |-> FALSE]]

RECURSIVE PyWalk(_, _)
PyWalkAll(nodes, scope) == FoldLeft(LAMBDA found, node : And(found, PyWalk(node, scope)), NoPart, nodes)
PyWalk(node, scope) ==
    LET qualified == Append(scope.name, node.name)
    IN  CASE node.type = "import" -> [NoPart EXCEPT !.imports = PyTargets(node)]
          [] node.type = "class" ->
               And(OneSymbol(Symbol(node, node.name, qualified, "class", scope.name, "none")),
                   PyWalkAll(Kids(node), [name |-> qualified, class |-> TRUE, caller |-> scope.caller]))
          [] node.type = "function" ->
               And(OneSymbol(Symbol(node, node.name, qualified, IF scope.class THEN "method" ELSE "function", scope.name, "none")),
                   PyWalkAll(Kids(node), [name |-> qualified, class |-> FALSE, caller |-> qualified]))
          [] node.type = "call" -> And(OneCall(node.name, scope.caller), PyWalkAll(Kids(node), scope))
          [] OTHER -> PyWalkAll(Kids(node), scope)

ParsePython(tree) == PyWalkAll(tree, [name |-> TopLevel, class |-> FALSE, caller |-> TopLevel])

-----------------------------------------------------------------------------
(* _extract_include: the target is what the directive names                *)
IncludeOf(node) == [NoPart EXCEPT !.imports = IF node.target = <<>> THEN <<>> ELSE node.target]

(* The C parser: symbols and includes of the top level, calls of the whole *)
(* tree.  A linkage specification may have braces or hold one declaration. *)
CSymbol(node, kind, visibility) == OneSymbol(Symbol(node, node.name, <<node.name>>, kind, TopLevel, visibility))
CNamed(node, kind) == IF node.name = NoText THEN NoPart ELSE CSymbol(node, kind, "none")

RECURSIVE CTop(_)
CTopAll(nodes) == FoldLeft(LAMBDA found, node : And(found, CTop(node)), NoPart, nodes)
CTop(node) ==
    CASE node.type = "include" -> IncludeOf(node)
      [] node.type = "define" -> CNamed(node, "macro")
      [] node.type = "function" -> IF node.name = NoText THEN NoPart ELSE CSymbol(node, "function", Visibility(node.static, TRUE))
      [] node.type = "prototype" -> IF node.name = NoText THEN NoPart ELSE CSymbol(node, "function", Visibility(node.static, FALSE))
      [] node.type = "declaration" -> CNamed(node, "variable")
      [] node.type \in {"struct", "union", "enum"} -> CNamed(node, node.type)
      [] node.type = "typedef" -> And(CTopAll(Kids(node)), CNamed(node, "type_alias"))
      [] node.type = "linkage" -> IF node.braces THEN CTopAll(Kids(node)) ELSE NoPart
      [] node.type = "conditional" -> CTopAll(Kids(node))
      [] OTHER -> NoPart

RECURSIVE CCalls(_, _)
CCallsAll(nodes, caller) == FoldLeft(LAMBDA found, node : And(found, CCalls(node, caller)), NoPart, nodes)
CCalls(node, caller) ==
    CASE node.type = "function" -> CCallsAll(Kids(node), IF node.name = NoText THEN caller ELSE <<node.name>>)
      [] node.type = "call" -> And(OneCall(node.name, caller), CCallsAll(Kids(node), caller))
      [] OTHER -> CCallsAll(Kids(node), caller)

ParseC(tree) == And(CTopAll(tree), CCallsAll(tree, TopLevel))

-----------------------------------------------------------------------------
(* The C++ parser.  The name of a function is the sequence of its parts,   *)
(* more than one for a definition outside its class.                       *)
Container == {"class", "struct"}
TemplateInner == {"function", "class", "struct", "prototype", "declaration"}

CppFunction(node, scope, body) ==
    LET outside == Len(node.parts) > 1
        kind == IF outside \/ scope.kind \in Container THEN "method" ELSE "function"
    IN  OneSymbol(Symbol(node, Last(node.parts), scope.name \o node.parts, kind, scope.name,
                         Visibility(kind = "function" /\ node.static, body)))

RECURSIVE CppWalk(_, _)
CppWalkAll(nodes, scope) == FoldLeft(LAMBDA found, node : And(found, CppWalk(node, scope)), NoPart, nodes)
CppWalk(node, scope) ==
    CASE node.type = "include" -> IncludeOf(node)
      [] node.type = "call" -> And(OneCall(node.name, scope.caller), CppWalkAll(Kids(node), scope))
      [] node.type = "namespace" ->
           CppWalkAll(Kids(node), [scope EXCEPT !.name = IF node.name = NoText THEN @ ELSE Append(@, node.name), !.kind = "module"])
      [] node.type = "template" ->
           LET inner == SelectSeq(Kids(node), LAMBDA k : k.type \in TemplateInner)
           IN  IF inner = <<>> THEN NoPart ELSE CppWalk(Head(inner), scope)
      [] node.type \in Container ->
           IF node.name = NoText THEN NoPart
           ELSE And(OneSymbol(Symbol(node, node.name, Append(scope.name, node.name), node.type, scope.name, "none")),
                    CppWalkAll(Kids(node), [scope EXCEPT !.name = Append(@, node.name), !.kind = node.type]))
      [] node.type = "enum" ->
           IF node.name = NoText THEN NoPart
           ELSE OneSymbol(Symbol(node, node.name, Append(scope.name, node.name), "enum", scope.name, "none"))
      [] node.type = "function" ->
           IF node.parts = <<>> THEN NoPart
           ELSE And(CppFunction(node, scope, TRUE),
                    LET qualified == scope.name \o node.parts
                    IN  CppWalkAll(Kids(node), [name |-> qualified, kind |-> "function", caller |-> qualified]))
      [] node.type = "prototype" /\ scope.kind \in Container ->
           IF node.parts = <<>> THEN NoPart ELSE CppFunction(node, scope, FALSE)
      [] node.type = "declaration" /\ scope.kind \in Container -> NoPart
      [] OTHER -> CppWalkAll(Kids(node), scope)

ParseCpp(tree) == CppWalkAll(tree, [name |-> TopLevel, kind |-> "none", caller |-> TopLevel])

-----------------------------------------------------------------------------
(* default_registry, parse_file, with the result of the language's parser; *)
(* an unreadable text raises.                                              *)
Parser == {"python", "c", "cpp"}
Parsed(path, language, text) ==
    [path |-> path, language |-> language] @@
    CASE language = "python" -> ParsePython(text.tree)
      [] language = "c" -> ParseC(text.tree)
      [] language = "cpp" -> ParseCpp(text.tree)

(* serialize_parsed_file, deserialize_parsed_file: all but the path        *)
Serialized(parsed) == [part \in DOMAIN NoPart |-> parsed[part]]
Restored(path, language, payload) == [path |-> path, language |-> language] @@ payload
=============================================================================
