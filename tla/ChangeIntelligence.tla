-------------------------- MODULE ChangeIntelligence --------------------------
(***************************************************************************)
(* What the candidates of a review amount to as a change: its logical      *)
(* units, what they affect, what one would expect to change with them      *)
(* (patchfrog.change_intelligence), and which functions now ask something  *)
(* else of their callers (patchfrog.contract_intelligence).                *)
(*                                                                         *)
(* The graph is the index's: symbols (file, qualified name, parent,        *)
(* signature, signature at the base), the call references in the order     *)
(* they are listed, imports between files and the tests of files; ids and  *)
(* names are positive numbers, ordered as the code sorts them, and NoId    *)
(* stands for what is not resolved.  A candidate has a symbol or NoId, a   *)
(* file, a first line, a name, and the traits of its path.                 *)
(* most holds the MAX_ constants.                                          *)
(***************************************************************************)
EXTENDS Integers, Sequences, SequencesExt, FiniteSets

NoId == 0

LOCAL Upto(s, n) == SubSeq(s, 1, IF Len(s) < n THEN Len(s) ELSE n)
LOCAL FirstOfEach(s, Key(_)) ==
    LET kept == {i \in DOMAIN s : \A j \in 1..(i - 1) : Key(s[j]) # Key(s[i])}
        place == SetToSortSeq(kept, <)
    IN  [i \in DOMAIN place |-> s[place[i]]]

(* get_callers and get_callees; neighbours are sought among the first      *)
(* MAX_FANOUT_PER_SYMBOL of each.                                          *)
CallersOf(graph, s) == SelectSeq(graph.calls, LAMBDA c : c.callee = s)
CalleesOf(graph, s) == SelectSeq(graph.calls, LAMBDA c : c.caller = s)
Neighbours(graph, s, most) ==
    ({c.caller : c \in ToSet(Upto(CallersOf(graph, s), most.fanout))}
       \cup {c.callee : c \in ToSet(Upto(CalleesOf(graph, s), most.fanout))}) \ {NoId}
ChangedSymbols(candidates) == {c.symbol : c \in ToSet(candidates)} \ {NoId}
TestsOf(graph, file) ==
    LET listed == SelectSeq(graph.tests, LAMBDA t : t.file = file)
    IN  FirstOfEach(listed, LAMBDA t : t.test)

-----------------------------------------------------------------------------
(* group_into_change_units: two candidates belong together when their      *)
(* symbols call each other, are parent and child or siblings, or when the  *)
(* file of one imports that of the other; and so do all that are connected *)
(* by such pairs.  Candidates without a symbol stand alone.                *)
Belong(graph, candidates, most) ==
    LET symbol(i) == candidates[i].symbol
        known(i) == symbol(i) \in DOMAIN graph.symbols
        parent(i) == graph.symbols[symbol(i)].parent
        file(i) == graph.symbols[symbol(i)].file
    IN  {p \in (DOMAIN candidates) \X (DOMAIN candidates) :
           /\ symbol(p[1]) # NoId /\ symbol(p[2]) # NoId
           /\ \/ symbol(p[2]) \in Neighbours(graph, symbol(p[1]), most)
              \/ known(p[1]) /\ parent(p[1]) = symbol(p[2])
              \/ /\ known(p[1]) /\ known(p[2])
                 /\ \/ symbol(p[1]) # symbol(p[2]) /\ parent(p[1]) = parent(p[2]) /\ parent(p[1]) # NoId
                    \/ <<file(p[1]), file(p[2])>> \in graph.imports}

LOCAL SortKeyBefore(a, b) ==
    \/ a.file < b.file
    \/ a.file = b.file /\ a.start < b.start
    \/ a.file = b.file /\ a.start = b.start /\ a.name < b.name

ChangeUnits(graph, candidates, most) ==
    LET pairs == Belong(graph, candidates, most)
        all == DOMAIN candidates
        grown[n \in 0..Len(candidates)] ==
          [i \in all |-> IF n = 0 THEN {i}
                         ELSE grown[n - 1][i] \cup
                                {k \in all : \E j \in grown[n - 1][i] : <<j, k>> \in pairs \/ <<k, j>> \in pairs}]
        members(group) == SetToSortSeq({candidates[i] : i \in group}, SortKeyBefore)
    IN  SetToSortSeq({members(grown[Len(candidates)][i]) : i \in all}, LAMBDA g, h : SortKeyBefore(g[1], h[1]))

(* classify_candidate, _classify and combine_kinds                         *)
PathKind(traits, isTest) ==
    IF isTest THEN "test"
    ELSE IF "infrastructure" \in traits THEN "infrastructure"
    ELSE IF "configuration" \in traits THEN "configuration"
    ELSE IF "persistence" \in traits THEN "persistence" ELSE "none"

HasCrossFileCaller(graph, c) ==
    /\ c.symbol \in DOMAIN graph.symbols
    /\ \E call \in ToSet(CallersOf(graph, c.symbol)) :
         call.caller \in DOMAIN graph.symbols /\ graph.symbols[call.caller].file # c.file

CandidateKind(graph, c) ==
    LET path == PathKind(c.traits, c.symbol \in DOMAIN graph.symbols /\ graph.symbols[c.symbol].file \in graph.testFiles)
    IN  IF path # "none" THEN path ELSE IF HasCrossFileCaller(graph, c) THEN "contract" ELSE "behavior"

ChangeKind(graph, unit) ==
    LET kinds == {CandidateKind(graph, c) : c \in ToSet(unit)}
    IN  IF Cardinality(kinds) = 1 THEN CHOOSE k \in kinds : TRUE ELSE "mixed"

-----------------------------------------------------------------------------
(* derive_affected_surface                                                 *)
LOCAL RelationRank(r) == CASE r = "test" -> 0 [] r = "directly_dependent" -> 1 [] r = "indirectly_affected" -> 2
LOCAL AffectedBefore(a, b) ==
    \/ RelationRank(a.relation) < RelationRank(b.relation)
    \/ RelationRank(a.relation) = RelationRank(b.relation) /\ a.file < b.file
    \/ a.relation = b.relation /\ a.file = b.file /\ a.name < b.name

AffectedSurface(graph, unit, most) ==
    LET changed == ChangedSymbols(unit)
        direct == UNION {Neighbours(graph, s, most) : s \in changed} \ changed
        indirect == UNION {Neighbours(graph, s, most) : s \in direct} \ (changed \cup direct)
        entry(s, relation) == [relation |-> relation, file |-> graph.symbols[s].file, name |-> graph.symbols[s].name]
        files == {graph.symbols[s].file : s \in changed \cap DOMAIN graph.symbols}
        tests == UNION {{t.test : t \in ToSet(TestsOf(graph, f))} : f \in files}
        found == {entry(s, "directly_dependent") : s \in direct \cap DOMAIN graph.symbols}
                   \cup {entry(s, "indirectly_affected") : s \in indirect \cap DOMAIN graph.symbols}
                   \cup {[relation |-> "test", file |-> t, name |-> NoId] : t \in tests}
    IN  IF changed = {} THEN <<>> ELSE Upto(SetToSortSeq(found, AffectedBefore), most.surface)

(* derive_expected_companions: the callers of what changed, one per pair   *)
(* of names, and the tests of its files.                                   *)
CallerCompanions(graph, unit, source, all, callers) ==
    LET named == SelectSeq(callers, LAMBDA call : call.caller \in DOMAIN graph.symbols)
    IN  [i \in DOMAIN named |->
           [unit |-> unit, reason |-> "caller", source |-> source.name, sourceFile |-> source.file,
            file |-> graph.symbols[named[i].caller].file, name |-> graph.symbols[named[i].caller].name,
            observed |-> named[i].caller \in ChangedSymbols(all)]]

TestCompanions(graph, unit, source, all) ==
    LET tests == IF source.symbol \in DOMAIN graph.symbols
                 THEN TestsOf(graph, graph.symbols[source.symbol].file) ELSE <<>>
    IN  [i \in DOMAIN tests |->
           [unit |-> unit, reason |-> "test", source |-> source.name, sourceFile |-> source.file,
            file |-> tests[i].test, name |-> NoId, observed |-> \E c \in ToSet(all) : c.file = tests[i].test]]

LOCAL PairOfNames(companion) == <<companion.source, companion.name>>

ExpectedCompanions(graph, n, unit, all, most) ==
    LET sources == SelectSeq(unit, LAMBDA c : c.symbol # NoId /\ c.name # NoId)
        firsts == FirstOfEach(unit, LAMBDA c : c.file)
        callers == FlattenSeq([i \in DOMAIN sources |->
                     CallerCompanions(graph, n, sources[i], all,
                                      Upto(CallersOf(graph, sources[i].symbol), most.fanout))])
    IN  FirstOfEach(callers, PairOfNames)
          \o FlattenSeq([i \in DOMAIN firsts |-> TestCompanions(graph, n, firsts[i], all)])

MissingCompanions(companions) == SelectSeq(companions, LAMBDA c : ~c.observed)

-----------------------------------------------------------------------------
(* derive_attention_areas, then attach_missing_companion_signal unit by    *)
(* unit: a unit beyond the limit gets no area.                             *)
WideFanout == 5         \* _WIDE_FANOUT_THRESHOLD

UnitSignals(unit) ==
    {k \in {"contract", "persistence"} : unit.kind = k}
      \cup {s \in {"wide_fanout"} : Len(unit.affected) >= WideFanout}
      \cup {s \in {"security"} : \E c \in ToSet(unit.candidates) : "security" \in c.traits}

AttentionAreas(units, companions, most) ==
    LET signalled == SelectSeq([n \in DOMAIN units |-> n], LAMBDA n : UnitSignals(units[n]) # {})
        own == Upto([i \in DOMAIN signalled |-> [unit |-> signalled[i], signals |-> UnitSignals(units[signalled[i]])]],
                    most.areas)
        attach(areas, n) ==
          IF \A c \in ToSet(MissingCompanions(companions)) : c.unit # n THEN areas
          ELSE IF \E a \in ToSet(areas) : a.unit = n
          THEN [i \in DOMAIN areas |-> IF areas[i].unit = n THEN [areas[i] EXCEPT !.signals = @ \cup {"missing"}]
                                       ELSE areas[i]]
          ELSE IF Len(areas) < most.areas THEN Append(areas, [unit |-> n, signals |-> {"missing"}]) ELSE areas
    IN  FoldLeft(attach, own, [n \in DOMAIN units |-> n])

(* select_change_map_unit: the unit of most nodes, if it is worth a map    *)
UnitNodes(unit) ==
    {<<c.file, c.name>> : c \in {c \in ToSet(unit.candidates) : c.name # NoId}}
      \cup {<<a.file, a.name>> : a \in {a \in ToSet(unit.affected) : a.name # NoId}}
WorthAMap(unit) == Cardinality(UnitNodes(unit)) >= 3 /\ Cardinality({n[1] : n \in UnitNodes(unit)}) >= 2
MapUnits(units) ==
    {n \in DOMAIN units : /\ WorthAMap(units[n])
                          /\ \A k \in DOMAIN units : WorthAMap(units[k]) =>
                               Cardinality(UnitNodes(units[k])) <= Cardinality(UnitNodes(units[n]))}

(* render_change_map: what of the unit is shown, and whether it says that  *)
(* something is not.  What is missing has a limit of its own.              *)
ChangeMap(n, unit, companions, most) ==
    LET changed == SetToSortSeq({<<c.file, c.name>> : c \in ToSet(unit.candidates)},
                                LAMBDA a, b : a[1] < b[1] \/ (a[1] = b[1] /\ a[2] < b[2]))
        shown == Upto(changed, most.nodes)
        step(m, a) ==
          IF m.stopped THEN m
          ELSE IF Len(shown) + Len(m.affected) >= most.nodes \/ Len(m.affected) >= most.edges
          THEN [m EXCEPT !.stopped = TRUE, !.truncated = TRUE]
          ELSE IF Len(SelectSeq(m.affected, LAMBDA b : b.relation = a.relation)) >= most.section
          THEN [m EXCEPT !.truncated = TRUE]
          ELSE [m EXCEPT !.affected = Append(@, a)]
        walked == FoldLeft(step, [affected |-> <<>>, truncated |-> Len(changed) > Len(shown), stopped |-> FALSE],
                           unit.affected)
        missing == SelectSeq(MissingCompanions(companions), LAMBDA c : c.unit = n)
    IN  [unit |-> n, changed |-> shown, affected |-> walked.affected, missing |-> Upto(missing, most.section),
         nodes |-> Len(shown) + Len(walked.affected), truncated |-> walked.truncated \/ Len(missing) > most.section]

(* build_change_intelligence_report *)
LOCAL ReportOf(units, companions, most) ==
    [units |-> units, companions |-> companions, areas |-> AttentionAreas(units, companions, most),
     maps |-> {ChangeMap(n, units[n], companions, most) : n \in MapUnits(units)}]

ChangeReport(graph, candidates, most) ==
    LET considered == Upto(candidates, most.candidates)
        unit(group) == [candidates |-> group, kind |-> ChangeKind(graph, group),
                        affected |-> AffectedSurface(graph, group, most)]
        report(groups) ==
          ReportOf([n \in DOMAIN groups |-> unit(groups[n])],
                   FlattenSeq([n \in DOMAIN groups |-> ExpectedCompanions(graph, n, groups[n], considered, most)]), most)
    IN  report(ChangeUnits(graph, considered, most))

(* evidence_text_for_candidate: what is missing around one candidate (the  *)
(* text names three and counts the rest)                                   *)
ChangeEvidence(report, c) ==
    LET units == {n \in DOMAIN report.units : c \in ToSet(report.units[n].candidates)}
    IN  SelectSeq(MissingCompanions(report.companions),
                  LAMBDA m : m.unit \in units /\ m.source = c.name /\ (c.name = NoId => m.sourceFile = c.file))

-----------------------------------------------------------------------------
(* The header of a Python function: its tokens between the parentheses,    *)
(* whether it is async, what it returns.  A token is a name, with or       *)
(* without a default, a marker "*" or "/", or takes the rest.              *)
Addressable == {"positional_only", "positional_or_keyword", "keyword_only"}

(* _parse_parameters *)
ParameterKindOf(tokens, i) ==
    CASE tokens[i].form = "kwargs" -> "var_keyword"
      [] tokens[i].form = "args"   -> "var_positional"
      [] tokens[i].form = "name"   ->
           IF \E j \in DOMAIN tokens : j >= i /\ tokens[j].form = "slash" THEN "positional_only"
           ELSE IF \E j \in DOMAIN tokens : j < i /\ tokens[j].form \in {"star", "args"} THEN "keyword_only"
           ELSE "positional_or_keyword"
      [] OTHER -> "marker"

ParsedParameters(tokens) ==
    LET kinds == [i \in DOMAIN tokens |-> [name |-> tokens[i].name, kind |-> ParameterKindOf(tokens, i),
                                           default |-> tokens[i].default]]
    IN  SelectSeq(kinds, LAMBDA p : p.kind # "marker")

(* diff_signatures: parameters are compared by name alone                  *)
NamedParameters(signature) == {p \in ToSet(ParsedParameters(signature.tokens)) : p.kind \in Addressable}

SignatureChanges(base, head) ==
    LET before == NamedParameters(base)
        after == NamedParameters(head)
        names(ps) == {p.name : p \in ps}
        default(ps, n) == (CHOOSE p \in ps : p.name = n).default
        shared == names(before) \cap names(after)
    IN  {IF p.default THEN "optional_parameter_added" ELSE "required_parameter_added" :
           p \in {p \in after : p.name \notin names(before)}}
          \cup {"parameter_removed" : n \in names(before) \ names(after)}
          \cup {IF default(before, n) THEN "default_removed" ELSE "default_added" :
                  n \in {n \in shared : default(before, n) # default(after, n)}}
          \cup (IF base.returns = head.returns THEN {}
                ELSE {IF head.optional = base.optional THEN "return_annotation_changed"
                      ELSE IF head.optional THEN "return_became_optional" ELSE "return_became_required"})
          \cup (IF base.async = head.async THEN {}
                ELSE {IF base.async THEN "async_to_sync" ELSE "sync_to_async"})

BreakingCharacteristics ==
    {"required_parameter_added", "parameter_removed", "default_removed", "return_became_optional",
     "async_to_sync", "sync_to_async"}
IsPotentiallyBreaking(delta) == delta.characteristics \cap BreakingCharacteristics # {}

(* find_contract_eligible_candidates *)
Eligible(graph, candidates) ==
    SelectSeq(candidates, LAMBDA c :
      /\ c.symbol \in DOMAIN graph.symbols /\ c.name # NoId
      /\ graph.symbols[c.symbol].head # <<>>
      /\ \E call \in ToSet(CallersOf(graph, c.symbol)) : call.caller # NoId)

(* The files whose content at the base is fetched, and is there            *)
BaseFiles(eligible, fetched, most) ==
    LET needed == SetToSortSeq({c.file : c \in ToSet(eligible)}, <)
    IN  fetched \cap ToSet(Upto(needed, most.baseFiles))

(* build_contract_intelligence_report: base and head are <<>> for a        *)
(* function that has no (readable) signature there                         *)
ContractDeltas(graph, candidates, fetched, most) ==
    LET eligible == Eligible(graph, Upto(candidates, most.candidates))
        of(c) == graph.symbols[c.symbol]
        changed == SelectSeq(eligible, LAMBDA c :
                     /\ c.file \in BaseFiles(eligible, fetched, most)
                     /\ of(c).base # <<>>
                     /\ SignatureChanges(of(c).base[1], of(c).head[1]) # {})
    IN  [i \in DOMAIN changed |->
           [symbol |-> changed[i].symbol, name |-> changed[i].name, file |-> changed[i].file,
            characteristics |-> SignatureChanges(of(changed[i]).base[1], of(changed[i]).head[1]),
            affected |-> AffectedSurface(graph, <<changed[i]>>, most)]]

(* derive_stale_consumers *)
StaleConsumers(graph, deltas, candidates) ==
    LET breaking == SelectSeq(deltas, IsPotentiallyBreaking)
        consumers(d) == CallerCompanions(graph, 0, d, candidates, CallersOf(graph, d.symbol))
    IN  FirstOfEach(FlattenSeq([i \in DOMAIN breaking |-> consumers(breaking[i])]), PairOfNames)

LOCAL ReportOn(graph, candidates, deltas, most) ==
    [deltas |-> deltas, stale |-> StaleConsumers(graph, deltas, Upto(candidates, most.candidates))]
ContractReport(graph, candidates, fetched, most) ==
    ReportOn(graph, candidates, ContractDeltas(graph, candidates, fetched, most), most)

(* evidence_text_for_candidate of the contracts                            *)
MaxListed == 5
ContractEvidence(report, c) ==
    LET deltas == SelectSeq(report.deltas, LAMBDA d : d.name = c.name)
        of == SelectSeq(report.stale, LAMBDA m : m.source = c.name)
    IN  IF c.name = NoId \/ deltas = <<>> THEN <<>>
        ELSE <<[characteristics |-> deltas[1].characteristics,
                updated |-> Upto(SelectSeq(of, LAMBDA m : m.observed), MaxListed),
                stale |-> Upto(MissingCompanions(of), MaxListed)]>>

-----------------------------------------------------------------------------
(* UnitsPartition: every candidate is in one unit, and one that calls      *)
(* another or is called by it, is in the same (no unit is reviewed without *)
(* what it talks to), when no fan-out limit was met.                       *)
UnitsPartition(graph, candidates, most) ==
    \A units \in {ChangeUnits(graph, candidates, most)} :
    LET in(c) == {n \in DOMAIN units : c \in ToSet(units[n])}
    IN  /\ \A c \in ToSet(candidates) : Cardinality(in(c)) = 1
        /\ \A c, d \in ToSet(candidates) :
             ((\E call \in ToSet(graph.calls) : c.symbol # NoId /\ call.caller = c.symbol /\ call.callee = d.symbol)
              /\ Len(graph.calls) <= most.fanout) => in(c) = in(d)

(* CompanionsAreTold: what a report calls missing is not in the diff; each *)
(* unchanged caller of a changed symbol is among the missing unless a      *)
(* caller of the same name stands for it or the fan-out limit was met;     *)
(* the reviewer of some candidate is told of it, and it draws attention to *)
(* its unit while there is room; and the map shows all that is affected    *)
(* and missing or says that it does not.                                   *)
LOCAL ReportTells(report, graph, candidates, most) ==
    LET missing == MissingCompanions(report.companions)
        changed == ChangedSymbols(candidates)
    IN  /\ \A m \in ToSet(missing) :
             IF m.reason = "test" THEN \A c \in ToSet(candidates) : c.file # m.file
             ELSE \E s \in DOMAIN graph.symbols \ changed : <<graph.symbols[s].file, graph.symbols[s].name>> = <<m.file, m.name>>
        /\ \A c \in ToSet(candidates), call \in ToSet(graph.calls) :
             (/\ c.name # NoId /\ c.symbol # NoId /\ call.callee = c.symbol
              /\ call.caller \in DOMAIN graph.symbols \ changed
              /\ Len(graph.calls) <= most.fanout)
               => \E m \in ToSet(report.companions) :
                    /\ PairOfNames(m) = <<c.name, graph.symbols[call.caller].name>>
                    /\ m.observed => \E s \in changed : s \in DOMAIN graph.symbols /\ graph.symbols[s].name = m.name
        /\ \A m \in ToSet(missing) :
             /\ \E c \in ToSet(candidates) : m \in ToSet(ChangeEvidence(report, c))
             /\ \/ \E a \in ToSet(report.areas) : a.unit = m.unit /\ "missing" \in a.signals
                \/ Len(report.areas) = most.areas
        /\ \A map \in report.maps : ~map.truncated =>
             /\ ToSet(map.affected) = ToSet(report.units[map.unit].affected)
             /\ ToSet(map.missing) = {m \in ToSet(missing) : m.unit = map.unit}
CompanionsAreTold(graph, candidates, most) ==
    ReportTells(ChangeReport(graph, candidates, most), graph, candidates, most)

(* A call: how many values it passes by position, and the names it passes  *)
(* values by.  Accepts is Python's rule for functions that do not take the *)
(* rest.                                                                   *)
Accepts(signature, call) ==
    LET ps == ParsedParameters(signature.tokens)
        positional == SelectSeq(ps, LAMBDA p : p.kind # "keyword_only")
        given(p) == \E i \in DOMAIN positional : positional[i] = p /\ i <= call.positional
    IN  /\ call.positional <= Len(positional)
        /\ \A n \in call.names : \E p \in ToSet(ps) : p.name = n /\ p.kind # "positional_only" /\ ~given(p)
        /\ \A p \in ToSet(ps) : p.default \/ given(p) \/ p.name \in call.names

(* The shared parameters keep kind and place; a comparison by name sees    *)
(* nothing of parameters that change places.                               *)
KeepsPlaces(base, head) ==
    LET before == ParsedParameters(base.tokens)
        after == ParsedParameters(head.tokens)
    IN  \A i \in DOMAIN before, j \in DOMAIN after :
          before[i].name = after[j].name => before[i].kind = after[j].kind /\ i = j

(* BrokenCallersAreNamed: when a function refuses a call that it took at   *)
(* the base, awaits or not, and its parameters kept their places, the      *)
(* report has a breaking delta for it, and its reviewer is told of each of *)
(* its unchanged callers as stale, as long as no more than MaxListed.      *)
BrokenCallersAreNamed(graph, candidates, fetched, calls, most) ==
    LET broken(s) ==
          /\ graph.symbols[s].base # <<>> /\ graph.symbols[s].head # <<>>
          /\ LET base == graph.symbols[s].base[1]
                 head == graph.symbols[s].head[1]
             IN  /\ KeepsPlaces(base, head)
                 /\ base.async # head.async \/ \E call \in calls : Accepts(base, call) /\ ~Accepts(head, call)
    IN  \A report \in {ContractReport(graph, candidates, fetched, most)} :
        \A c \in ToSet(candidates), ref \in ToSet(graph.calls) :
          (/\ c.symbol \in DOMAIN graph.symbols /\ c.name # NoId /\ broken(c.symbol) /\ c.file \in fetched
           /\ ref.callee = c.symbol /\ ref.caller \in DOMAIN graph.symbols
           /\ ref.caller \notin ChangedSymbols(candidates))
            => \E e \in ToSet(ContractEvidence(report, c)) : \E m \in ToSet(e.updated) \cup ToSet(e.stale) :
                 /\ PairOfNames(m) = <<c.name, graph.symbols[ref.caller].name>>
                 /\ m.observed => \E s \in ChangedSymbols(candidates) :
                      s \in DOMAIN graph.symbols /\ graph.symbols[s].name = m.name
=============================================================================
