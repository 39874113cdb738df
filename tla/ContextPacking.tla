--------------------------- MODULE ContextPacking ---------------------------
(***************************************************************************)
(* The context a reviewer gets beside a candidate: pieces of the index are *)
(* scored, those that repeat others are dropped, and the rest are cut and  *)
(* packed, best first, into a budget of lines and tokens.                  *)
(*                                                                         *)
(* A piece: the lines of a file, its kind, how it is related to the target *)
(* and over how many steps, whether its lines changed, its symbol.         *)
(***************************************************************************)
EXTENDS Integers, Severities, CodeIndex

(* RELATIONSHIP_PRIORITY, and _RELATIONSHIP_BASE_SCORE in hundredths.      *)
Relationships ==
    <<"target", "tests", "caller", "callee", "parent", "import", "include", "sibling",
      "transitive_caller", "transitive_callee">>

PriorityOf(r) == CHOOSE i \in DOMAIN Relationships : Relationships[i] = r

BaseScore == <<100, 55, 50, 50, 45, 30, 30, 20, 25, 25>>

PreferredFor(category) ==
    CASE category \in {"memory_safety", "resource_management", "concurrency"} -> {"caller", "callee"}
      [] category = "api_misuse" -> {"callee", "import", "include"}
      [] category = "correctness" -> {"tests"}
      [] OTHER -> {}

(* score_candidate *)
Score(p, targetFile, category) ==
    LET when(c, n) == IF c THEN n ELSE 0
        sum == BaseScore[PriorityOf(p.relationship)]
               + when(p.file = targetFile /\ p.relationship # "target", 10)
               + when(p.changed, 15)
               - when(p.distance > 1, 5 * (p.distance - 1))
               + when(p.relationship \in PreferredFor(category), 8)
    IN  IF sum < 0 THEN 0 ELSE sum

-----------------------------------------------------------------------------
(* deduplicate *)
Lines(p) == p.end - p.start + 1
Smaller(m, n) == IF m < n THEN m ELSE n
Larger(m, n) == IF m < n THEN n ELSE m

Shared(a, b) == Larger(0, Smaller(a.end, b.end) - Larger(a.start, b.start) + 1)

SamePiece(a, b) ==
    a.file = b.file /\ a.start = b.start /\ a.end = b.end /\ a.symbol = b.symbol

(* At least six tenths of the smaller one; a parent is never too close.    *)
Repeats(a, b) ==
    /\ a.file = b.file
    /\ "parent" \notin {a.kind, b.kind}
    /\ 10 * Shared(a, b) >= 6 * Smaller(Lines(a), Lines(b))

ByScore(pieces, targetFile, category) ==
    SortedPositions(DOMAIN pieces,
      LAMBDA i : <<200 - Score(pieces[i], targetFile, category), PriorityOf(pieces[i].relationship),
                   pieces[i].file, pieces[i].start, pieces[i].symbol>>)

KeptPieces(pieces, targetFile, category) ==
    FoldLeft(LAMBDA kept, i :
               IF \E j \in DOMAIN kept : LET k == pieces[kept[j]] IN
                    SamePiece(k, pieces[i]) \/ Repeats(k, pieces[i])
               THEN kept ELSE Append(kept, i),
             <<>>, ByScore(pieces, targetFile, category))

-----------------------------------------------------------------------------
(* ContextSnippetService.extract of a file that can be read: the window    *)
(* round the anchor.                                                       *)
Nothing == [start |-> 1, end |-> 0]

Window(p, fileLines, most) ==
    LET last   == Smaller(p.end, fileLines)
        anchor == Smaller(Larger(p.anchor, p.start), last)
        from   == Larger(p.start, anchor - most \div 2)
        to     == from + most - 1
    IN  IF p.start > fileLines \/ last < p.start THEN Nothing
        ELSE IF last - p.start + 1 <= most THEN [start |-> p.start, end |-> last]
        ELSE IF to <= last THEN [start |-> from, end |-> to]
        ELSE [start |-> Larger(p.start, last - most + 1), end |-> last]

Tokens(w, weights) == FoldLeft(LAMBDA acc, n : acc + weights[n], 0,
                               [k \in 1..Lines(w) |-> w.start + k - 1])

(* ContextBudgeter.build.  The caps of a piece: the target has a share of  *)
(* the whole, a piece two steps away also the expansion's own budget.      *)
IsTarget(p) == p.kind = "target"
IsExpansion(p) == p.distance >= 2

Cap(p, left, expansionLeft, perItem, targetShare) ==
    LET own == Smaller(IF IsTarget(p) THEN Larger(perItem, targetShare) ELSE perItem, left)
    IN  IF IsExpansion(p) THEN Smaller(own, expansionLeft) ELSE own

(* A mistake the code does not make: a piece is cut to its lines alone.    *)
CutToLines(p, weights, lineCap, tokenCap) == Window(p, Len(weights), lineCap)

(* A piece over its token cap is cut once more, in proportion; it is not   *)
(* measured again.                                                         *)
Cut(p, weights, lineCap, tokenCap) ==
    LET w == Window(p, Len(weights), lineCap)
        tokens == Tokens(w, weights)
    IN  IF w = Nothing \/ tokens <= tokenCap THEN w
        ELSE Window(p, Len(weights), Larger(1, (Lines(w) * tokenCap) \div tokens))

Pack(state, p, w, weights) ==
    LET spent == [state EXCEPT !.items = Append(@, [piece |-> p, window |-> w]),
                               !.lines = @ - Lines(w), !.tokens = @ - Tokens(w, weights),
                               !.count[p.relationship] = @ + 1]
    IN  IF IsExpansion(p)
        THEN [spent EXCEPT !.expansionLines = @ - Lines(w),
                           !.expansionTokens = @ - Tokens(w, weights)]
        ELSE spent

Built(pieces, weights, budget) ==
    LET step(state, p) ==
          LET lineCap  == Cap(p, state.lines, state.expansionLines, budget.itemLines, budget.targetLines)
              tokenCap == Cap(p, state.tokens, state.expansionTokens, budget.itemTokens, budget.targetTokens)
              w == Cut(p, weights, lineCap, tokenCap)
              refused == \/ ~IsTarget(p) /\ state.count[p.relationship] >= budget.perRelationship
                         \/ lineCap < 1 \/ tokenCap < 1
          IN  IF refused \/ w = Nothing \/ Tokens(w, weights) < 1
              THEN [state EXCEPT !.dropped = @ + 1]
              ELSE Pack(state, p, w, weights)
    IN  FoldLeft(step,
          [items |-> <<>>, dropped |-> 0, lines |-> budget.lines, tokens |-> budget.tokens,
           expansionLines |-> budget.expansionLines, expansionTokens |-> budget.expansionTokens,
           count |-> [r \in {Relationships[i] : i \in DOMAIN Relationships} |-> 0]],
          pieces)

-----------------------------------------------------------------------------
(* ContextCandidateGenerator: where the pieces come from, the rows of an   *)
(* index.  A file is the place of its row, the rows being in the order of  *)
(* the paths; a target is a file with a symbol, a line, or both; changed   *)
(* has the changed lines of every file.  The pieces are a set: they are    *)
(* sorted before anything else is done with them.                          *)
NoLine == 0
TargetReach == 15
FileHead == 30

KindOf(relationship) ==
    CASE relationship = "transitive_caller" -> "caller" [] relationship = "transitive_callee" -> "callee" [] OTHER -> relationship
PieceOf(relationship, distance, file, symbol, first, last, changed) ==
    [relationship |-> relationship, kind |-> KindOf(relationship), distance |-> distance, file |-> file, symbol |-> symbol,
     start |-> first, end |-> last, anchor |-> first, changed |-> changed]

FileAt(index, path) == CHOOSE i \in DOMAIN index.files : index.files[i].path = path
TouchedIn(changed, file, first, last) == (first..last) \cap changed[file] # {}

(* _symbol_candidate, and what stands for a file without symbols           *)
SymbolPiece(index, id, relationship, distance, changed) ==
    LET file == FileAt(index, index.symbols[id].row.path)
        span == SpanOf(index, id)
    IN  PieceOf(relationship, distance, file, id, span[1], span[2], TouchedIn(changed, file, span[1], span[2]))
HeadPiece(file, relationship) == PieceOf(relationship, 1, file, NoRow, 1, FileHead, FALSE)

(* _target_candidate *)
TargetPiece(index, target, changed) ==
    LET line == IF target.line = NoLine THEN 1 ELSE target.line
        first == Larger(1, line - TargetReach)
        last == line + TargetReach
        region == PieceOf("target", 0, target.file, NoRow, first, last, TouchedIn(changed, target.file, first, last))
    IN  IF target.symbol = NoRow THEN [region EXCEPT !.anchor = line]
        ELSE [SymbolPiece(index, target.symbol, "target", 0, changed) EXCEPT !.anchor = IF target.line = NoLine THEN @ ELSE target.line]

(* symbols_in_file; of symbols that start on one line the earlier row.     *)
SymbolsIn(index, file) ==
    SortedPositions({i \in DOMAIN index.symbols : index.symbols[i].row.path = index.files[file].path}, LAMBDA i : <<SpanOf(index, i)[1]>>)

ParentPieces(index, target, changed) ==
    {SymbolPiece(index, p, "parent", 1, changed) : p \in {index.symbols[target.symbol].parent} \ {NoRow}}

(* _sibling_candidates: the nearest symbols on both sides                  *)
SiblingPieces(index, target, changed) ==
    LET span == SpanOf(index, target.symbol)
        siblings == SelectSeq(SymbolsIn(index, target.file),
                              LAMBDA i : i # target.symbol /\ index.symbols[i].parent = index.symbols[target.symbol].parent)
        before == SelectSeq(siblings, LAMBDA i : SpanOf(index, i)[2] < span[1])
        after == SelectSeq(siblings, LAMBDA i : SpanOf(index, i)[1] > span[2])
        chosen == (IF before = <<>> THEN {} ELSE {Last(before)}) \cup (IF after = <<>> THEN {} ELSE {Head(after)})
    IN  {SymbolPiece(index, i, "sibling", 1, changed) : i \in chosen}

(* _test_candidates, _best_matching_test_symbol: a test's symbol whose     *)
(* name has the target's name in it, among the names here the same name.   *)
TestPieces(index, target, changed) ==
    LET piece(file) ==
          LET symbols == SymbolsIn(index, file)
              named == SelectSeq(symbols, LAMBDA i : target.symbol # NoRow /\ index.symbols[i].row.name = index.symbols[target.symbol].row.name)
          IN  IF symbols = <<>> THEN HeadPiece(file, "tests") ELSE SymbolPiece(index, Head(named \o symbols), "tests", 1, changed)
    IN  {piece(FileAt(index, path)) : path \in LikelyTests(index, index.files[target.file].path)}

(* _import_candidates *)
ImportPieces(index, target, wants, changed) ==
    LET found == {i \in ToSet(index.imports) : i.path = index.files[target.file].path /\ i.target # NoPath}
        relationship(i) == IF "file" \in DOMAIN i.import THEN "include" ELSE "import"
        piece(i) == LET file == FileAt(index, i.target)
                        symbols == SymbolsIn(index, file)
                    IN  IF symbols = <<>> THEN HeadPiece(file, relationship(i))
                        ELSE SymbolPiece(index, Head(symbols), relationship(i), 1, changed)
    IN  {piece(i) : i \in {i \in found : relationship(i) \in wants}}

(* _non_call_edge_candidates *)
NonCallPieces(index, target, wants, changed) ==
    {TargetPiece(index, target, changed)}
      \cup (IF target.symbol # NoRow /\ "parent" \in wants THEN ParentPieces(index, target, changed) ELSE {})
      \cup (IF target.symbol # NoRow /\ "sibling" \in wants THEN SiblingPieces(index, target, changed) ELSE {})
      \cup (IF "tests" \in wants THEN TestPieces(index, target, changed) ELSE {})
      \cup ImportPieces(index, target, wants, changed)

(* _related_symbol_ids *)
Related(index, id, direction) ==
    (IF direction = "callers" THEN {index.calls[i].caller : i \in CallersById(index, id)}
     ELSE {index.calls[i].resolved : i \in CalleesById(index, id)}) \ {NoRow}

(* _call_edge_candidates.  The ids that are expanded are the first few in  *)
(* the order of their random values: roots, one of ExpansionRoots.         *)
Directions == [callers |-> "caller", callees |-> "callee"]
Transitive == [callers |-> "transitive_caller", callees |-> "transitive_callee"]
NearIds(index, target, direction, wants) ==
    IF target.symbol = NoRow \/ Directions[direction] \notin wants THEN {} ELSE Related(index, target.symbol, direction) \ {target.symbol}
ExpansionRoots(near, most) == {R \in SUBSET near : Cardinality(R) = Smaller(most, Cardinality(near))}
FarIds(index, target, direction, near, roots) ==
    UNION {Related(index, root, direction) : root \in roots} \ (near \cup {target.symbol})

CallPieces(index, target, wants, depth, roots, changed) ==
    [d \in DOMAIN Directions |->
       LET near == NearIds(index, target, d, wants)
           far == IF depth >= 2 THEN FarIds(index, target, d, near, roots[d]) ELSE {}
       IN  [near |-> {SymbolPiece(index, i, Directions[d], 1, changed) : i \in near},
            far |-> {SymbolPiece(index, i, Transitive[d], 2, changed) : i \in far}]]

(* AdaptiveExpansionPolicy.decide: the reasons to expand a direction       *)
CategoryTriggers == {"memory_safety", "resource_management", "concurrency", "api_misuse", "security"}
ThinWrapperLines == 8
ReasonsFor(d, calls, targetLines, category) ==
    LET near == calls[d].near
        reason(name, holds) == IF holds /\ calls[d].far # {} THEN {name} ELSE {}
    IN  reason("call_chain_continuation", TRUE)
          \cup reason("changed_neighbor", \E p \in near : p.changed)
          \cup reason("static_category_relevance", category \in CategoryTriggers /\ near # {})
          \cup reason("thin_wrapper", d = "callees" /\ targetLines <= ThinWrapperLines /\ Cardinality(near) = 1)

(* generate and generate_adaptive *)
FixedPieces(index, target, config, roots, changed) ==
    LET calls == CallPieces(index, target, config.wants, config.depth, roots, changed)
    IN  NonCallPieces(index, target, config.wants, changed) \cup UNION {calls[d].near \cup calls[d].far : d \in DOMAIN calls}
AdaptivePieces(index, target, config, category, roots, changed) ==
    LET calls == CallPieces(index, target, config.wants, config.maxDepth, roots, changed)
        lines == IF target.symbol = NoRow THEN 0 ELSE SpanOf(index, target.symbol)[2] - SpanOf(index, target.symbol)[1]
        wanted == {d \in DOMAIN calls : ReasonsFor(d, calls, lines, category) # {}}
    IN  NonCallPieces(index, target, config.wants, changed)
          \cup UNION {calls[d].near : d \in DOMAIN calls} \cup UNION {calls[d].far : d \in wanted}

(* _execute_and_persist: the bundle and its counts.  Without the adaptive  *)
(* mode an expansion has no budget of its own.                             *)
BundleOf(pieces, kept, budget, built) ==
    [pieces |-> pieces, kept |-> kept, built |-> built, budget |-> budget,
     counts |-> [candidates |-> Len(pieces), selected |-> Len(built.items), budget |-> built.dropped,
                 repeated |-> Len(pieces) - Len(kept),
                 far |-> Cardinality({i \in DOMAIN built.items : IsExpansion(built.items[i].piece)})]]
BundleFrom(pieces, target, config, category, weights) ==
    LET kept == KeptPieces(pieces, target.file, category)
        budget == IF config.adaptive THEN config.budget
                  ELSE [config.budget EXCEPT !.expansionLines = config.budget.lines, !.expansionTokens = config.budget.tokens]
    IN  BundleOf(pieces, kept, budget, Built([i \in DOMAIN kept |-> pieces[kept[i]]], weights, budget))
Bundle(index, target, config, category, roots, changed, weights) ==
    BundleFrom(Listed(IF config.adaptive THEN AdaptivePieces(index, target, config, category, roots, changed)
                      ELSE FixedPieces(index, target, config, roots, changed)),
               target, config, category, weights)

-----------------------------------------------------------------------------
(* What the laws say of them. *)

(* The target comes first; what is dropped repeats a piece that is kept    *)
(* and is no worse, a parent only its like; no two kept repeat each other. *)
PiecesAreRepresented(pieces, targetFile, category) ==
    \A kept \in {KeptPieces(pieces, targetFile, category)} :
    LET in == {kept[j] : j \in DOMAIN kept}
        repeats(i, k) == SamePiece(pieces[i], pieces[k]) \/ Repeats(pieces[i], pieces[k])
        score(i) == Score(pieces[i], targetFile, category)
    IN  /\ \A i \in DOMAIN pieces \ in : \E k \in in : repeats(i, k) /\ score(k) >= score(i)
                                                /\ pieces[i].kind = "parent" => SamePiece(pieces[i], pieces[k])
        /\ \A i, k \in in : i # k => ~repeats(i, k)
        /\ (\E i \in DOMAIN pieces : pieces[i].relationship = "target")
             => pieces[kept[1]].relationship = "target"

(* Every piece is packed or counted as dropped; a packed window lies in    *)
(* its piece and holds its anchor; lines never pass the budget.  Tokens do *)
(* pass it, by the last piece alone: at least one was left for it, and if  *)
(* it costs more than was left, it is a single line, or has no more lines  *)
(* than would have fitted had they all been as short as its shortest.  So  *)
(* for the expansions and their budget.                                    *)
LOCAL Within(built, pieces, weights, budget) ==
    LET items == built.items
        cost(S) == FoldLeft(LAMBDA acc, i : IF i \in S THEN acc + Tokens(items[i].window, weights) ELSE acc,
                            0, [i \in DOMAIN items |-> i])
        length(S) == FoldLeft(LAMBDA acc, i : IF i \in S THEN acc + Lines(items[i].window) ELSE acc,
                              0, [i \in DOMAIN items |-> i])
        expansions == {i \in DOMAIN items : IsExpansion(items[i].piece)}
        leftFor(i, S, total) == total - cost({j \in S : j < i})
        lightest(p) == CHOOSE n \in {weights[k] : k \in p.start..Smaller(p.end, Len(weights))} :
                         \A k \in p.start..Smaller(p.end, Len(weights)) : n <= weights[k]
        cutFor(i, left) ==
          LET w == items[i].window
          IN  left >= 1 /\ \/ Tokens(w, weights) <= left \/ Lines(w) = 1
                           \/ Lines(w) * lightest(items[i].piece) <= left
    IN  /\ Len(items) + built.dropped = Len(pieces)
        /\ \A i \in DOMAIN items : LET w == items[i].window  p == items[i].piece IN
             /\ p.start <= w.start /\ w.end <= p.end /\ Lines(w) >= 1
             /\ p.anchor \in p.start..Smaller(p.end, Len(weights)) => p.anchor \in w.start..w.end
        /\ length(DOMAIN items) <= budget.lines /\ length(expansions) <= budget.expansionLines
        /\ \A i \in DOMAIN items : cutFor(i, leftFor(i, DOMAIN items, budget.tokens))
        /\ \A i \in expansions : cutFor(i, leftFor(i, expansions, budget.expansionTokens))
BudgetIsKept(pieces, weights, budget) == Within(Built(pieces, weights, budget), pieces, weights, budget)
(* The symbols that calls bring are those one call away and, of those two  *)
(* calls away, the ones that are not nearer: never the target itself, how- *)
(* ever it recurses; and none is missed if every near one is expanded.     *)
CallsAreNear(index, target, wants, roots) ==
    LET calls == CallPieces(index, target, wants, 2, roots, [f \in DOMAIN index.files |-> {}])
        ids(pieces) == {p.symbol : p \in pieces}
        edges == {<<c.caller, c.resolved>> : c \in {c \in ToSet(index.calls) : c.caller # NoRow /\ c.resolved # NoRow}}
        away(d, S) == IF d = "callers" THEN {e[1] : e \in {e \in edges : e[2] \in S}} ELSE {e[2] : e \in {e \in edges : e[1] \in S}}
        one(d) == away(d, {target.symbol}) \ {target.symbol}
        two(d) == away(d, one(d)) \ (one(d) \cup {target.symbol})
    IN  \A d \in {d \in DOMAIN Directions : Directions[d] \in wants /\ target.symbol # NoRow} :
          /\ ids(calls[d].near) = one(d)
          /\ ids(calls[d].far) \subseteq two(d)
          /\ roots[d] = one(d) => ids(calls[d].far) = two(d)

(* Expanding "when justified" is expanding: what the adaptive mode brings  *)
(* is what a fixed depth of two brings.                                    *)
AdaptiveIsDepthTwo(index, target, wants, category, roots, changed) ==
    LET config == [wants |-> wants, depth |-> 2, maxDepth |-> 2]
    IN  AdaptivePieces(index, target, config, category, roots, changed) = FixedPieces(index, target, config, roots, changed)

(* A bundle keeps its budget, starts with its target if the target has a   *)
(* line to show, and shows no symbol twice, be it caller, callee and       *)
(* sibling at once.                                                        *)
BundleShowsEachOnce(bundle, weights) ==
    LET items == bundle.built.items
        kept == [i \in DOMAIN bundle.kept |-> bundle.pieces[bundle.kept[i]]]
    IN  /\ Within(bundle.built, kept, weights, bundle.budget)
        /\ \A i, j \in DOMAIN items : items[i].piece.symbol # NoRow /\ items[i].piece.symbol = items[j].piece.symbol => i = j
        /\ \A i \in DOMAIN items : IsTarget(items[i].piece) => i = 1
        /\ \A p \in ToSet(kept) : IsTarget(p) /\ p.start <= Len(weights) => items # <<>> /\ IsTarget(items[1].piece)
=============================================================================
