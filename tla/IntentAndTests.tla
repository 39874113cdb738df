---------------------------- MODULE IntentAndTests ----------------------------
(***************************************************************************)
(* What a pull request says it does and what of that its change supports   *)
(* (patchfrog.intent_verification), and which changed code has no test or  *)
(* a weaker one (patchfrog.test_intelligence).                             *)
(*                                                                         *)
(* Both read the reports of ChangeIntelligence.  words gives the           *)
(* meaningful tokens of each file's path and each symbol's name.  A text   *)
(* is known by its tokens, how many content words it has, whether one is a *)
(* behavioral verb and whether it is a mere placeholder; a body has the    *)
(* texts of its bullets too.  Unit ids are digests: their order is taken   *)
(* to be that of the report.                                               *)
(***************************************************************************)
EXTENDS ChangeIntelligence

LOCAL Upto(s, n) == SubSeq(s, 1, IF Len(s) < n THEN Len(s) ELSE n)

(* Stale consumers are attributed to the unit of the function they call.   *)
UnitsOf(report, symbol) ==
    {n \in DOMAIN report.units : \E c \in ToSet(report.units[n].candidates) : c.symbol = symbol}
AttributedDeltas(report, contract) ==
    [i \in DOMAIN contract.deltas |-> [delta |-> contract.deltas[i], units |-> UnitsOf(report, contract.deltas[i].symbol)]]
CombinedCompanions(report, contract) ==
    LET unitOf(m) == UNION {d.units : d \in {d \in ToSet(AttributedDeltas(report, contract)) : d.delta.name = m.source}}
        stale(m) == [m EXCEPT !.unit = IF unitOf(m) = {} THEN NoId ELSE CHOOSE n \in unitOf(m) : TRUE]
    IN  report.companions \o [i \in DOMAIN contract.stale |-> stale(contract.stale[i])]

-----------------------------------------------------------------------------
(* is_intent_evidence_sufficient *)
MinContentWordsWithVerb == 3
MinContentWordsWithoutVerb == 7
SufficientIntent(text) ==
    /\ ~text.placeholder
    /\ text.content >= IF text.verb THEN MinContentWordsWithVerb ELSE MinContentWordsWithoutVerb

(* extract_claims_from_pr_metadata: a body that says enough is one claim,  *)
(* or as many as its bullets when two of them say enough by themselves;    *)
(* the title speaks only when the body does not.                           *)
Claims(title, body, most) ==
    LET goals == SelectSeq(body.goals, SufficientIntent)
    IN  IF SufficientIntent(body.text)
        THEN IF Len(goals) >= 2 THEN Upto(goals, most.claims) ELSE <<body.text>>
        ELSE IF SufficientIntent(title) THEN <<title>> ELSE <<>>

(* map_claim_to_units *)
RefTerms(words, ref) == words.file[ref.file] \cup IF ref.name = NoId THEN {} ELSE words.name[ref.name]
UnitTerms(words, unit) == UNION {RefTerms(words, c) : c \in ToSet(unit.candidates)}
MappedUnits(words, claim, units, most) ==
    LET overlap(n) == Cardinality(claim.terms \cap UnitTerms(words, units[n]))
        sharing == {n \in DOMAIN units : overlap(n) > 0}
    IN  Upto(SetToSortSeq(sharing, LAMBDA n, k : overlap(n) > overlap(k) \/ (overlap(n) = overlap(k) /\ n < k)),
             most.mappedUnits)

(* derive_coverage_and_gaps: what a mapped unit affects in the words of    *)
(* the claim and no companion of it stands for.                            *)
IntentGaps(words, claim, unit, companions) ==
    SelectSeq(unit.affected, LAMBDA ref :
      /\ RefTerms(words, ref) \cap claim.terms # {}
      /\ \A m \in ToSet(companions) : IF ref.name = NoId THEN m.file # ref.file ELSE m.name # ref.name)

ClaimCoverage(words, claim, report, contract, most) ==
    LET mapped == MappedUnits(words, claim, report.units, most)
        companions(n) == SelectSeq(CombinedCompanions(report, contract), LAMBDA m : m.unit = n)
        deltas(n) == SelectSeq(AttributedDeltas(report, contract), LAMBDA d : n \in d.units)
        all(Of(_)) == FlattenSeq([i \in DOMAIN mapped |-> Of(mapped[i])])
        found(n) == IntentGaps(words, claim, report.units[n], companions(n))
        gaps(n) == [i \in DOMAIN found(n) |-> [unit |-> n, relation |-> found(n)[i].relation,
                                               file |-> found(n)[i].file, name |-> found(n)[i].name]]
    IN  [claim |-> claim, mapped |-> mapped, gaps |-> all(gaps), companions |-> all(companions), deltas |-> all(deltas),
         covered |-> {c.name : c \in UNION {ToSet(report.units[n].candidates) : n \in ToSet(mapped)}} \ {NoId}]
CoverageStatus(coverage) ==
    IF coverage.mapped = <<>> THEN "insufficient_evidence"
    ELSE IF coverage.gaps # <<>> \/ MissingCompanions(coverage.companions) # <<>> THEN "partial_evidence"
    ELSE "supported"

(* build_intent_verification_report *)
IntentReport(words, title, body, report, contract, most) ==
    LET claims == Claims(title, body, most)
    IN  [i \in DOMAIN claims |-> ClaimCoverage(words, claims[i], report, contract, most)]

(* evidence_text_for_candidate: what the reviewer of one candidate is told *)
(* of the claims its unit is mapped to                                     *)
IntentEvidence(intent, c) ==
    LET relevant == SelectSeq(intent, LAMBDA v : c.symbol # NoId /\ c.name \in v.covered)
        sameClaim(v) == {w \in ToSet(intent) : w.claim = v.claim}
    IN  [i \in DOMAIN relevant |->
           [claim |-> relevant[i].claim,
            gaps |-> Upto(FlattenSeq(SetToSeq({w.gaps : w \in sameClaim(relevant[i])})), MaxListed),
            missing |-> Upto(MissingCompanions(relevant[i].companions), MaxListed),
            deltas |-> Upto(relevant[i].deltas, MaxListed),
            appearsCovered |-> relevant[i].gaps = <<>> /\ MissingCompanions(relevant[i].companions) = <<>>]]

(* render_intent_coverage_summary: the first claim of two surfaces or more *)
MinSurfacesForSummary == 2
IntentSummary(intent, maxLines) ==
    LET eligible == SelectSeq(intent, LAMBDA v : /\ CoverageStatus(v) # "insufficient_evidence"
                                                 /\ Cardinality(v.covered) + Len(v.gaps) >= MinSurfacesForSummary)
        changed(v) == Upto([i \in 1..Cardinality(v.covered) |-> [changed |-> TRUE, surface |-> SetToSeq(v.covered)[i]]], maxLines)
        unchanged(v) == [i \in DOMAIN v.gaps |-> [changed |-> FALSE, surface |-> v.gaps[i]]]
    IN  IF eligible = <<>> THEN <<>> ELSE Upto(changed(eligible[1]) \o unchanged(eligible[1]), maxLines)

-----------------------------------------------------------------------------
(* derive_no_test_surface_expectations: the files of a unit of behavior    *)
(* with a changed symbol and no test companion; the first symbol of a file *)
(* stands for it.                                                          *)
FilesWithoutTests(report, companions, n) ==
    LET unit == report.units[n]
        eligible == SelectSeq(unit.candidates, LAMBDA c : c.symbol # NoId /\ c.name # NoId)
        files == {c.file : c \in ToSet(eligible)}
        tested == {m.sourceFile : m \in {m \in ToSet(companions) : m.reason = "test"}}
        first(f) == SelectSeq(eligible, LAMBDA c : c.file = f)[1]
        place == SetToSortSeq(files \ tested, <)
    IN  IF unit.kind # "behavior" THEN <<>>
        ELSE [i \in DOMAIN place |-> [unit |-> n, reason |-> "no_test_surface", file |-> place[i], name |-> first(place[i]).name]]

(* derive_weakened_test_expectations: a linked test file that the diff     *)
(* touches and that loses assertions or gains skips on balance, told of    *)
(* the unit of its first companion.                                        *)
Weakened(diff, file) ==
    file \in DOMAIN diff /\ (diff[file].asserts < 0 \/ diff[file].skips > 0)
WeakenedTests(companions, diff) ==
    LET tests == SelectSeq(companions, LAMBDA m : m.reason = "test")
        first(i) == \A j \in 1..(i - 1) : tests[j].file # tests[i].file
        places == SelectSeq([i \in DOMAIN tests |-> i], LAMBDA i : first(i) /\ Weakened(diff, tests[i].file))
    IN  [i \in DOMAIN places |-> [unit |-> tests[places[i]].unit, reason |-> "weakened",
                                  file |-> tests[places[i]].file, name |-> NoId]]

(* derive_gaps and build_test_intelligence_report: a unit has a limit of   *)
(* its own.                                                                *)
TestGaps(report, companions, diff, most) ==
    LET expectations == FlattenSeq([n \in DOMAIN report.units |-> FilesWithoutTests(report, companions, n)])
                          \o WeakenedTests(companions, diff)
        counted(gaps, e) ==
          IF Len(SelectSeq(gaps, LAMBDA g : g.unit = e.unit)) >= most.testGaps THEN gaps ELSE Append(gaps, e)
    IN  FoldLeft(counted, <<>>, expectations)

(* evidence_text_for_candidate of the tests                                *)
TestEvidence(gaps, c) ==
    Upto(SelectSeq(gaps, LAMBDA g : g.file = c.file /\ (c.name = NoId \/ g.name = c.name)), MaxListed)

(* render_test_gap_summary *)
TestSummary(gaps, maxLines) == Upto(gaps, maxLines)

-----------------------------------------------------------------------------
(* IntentIsBacked: no claim counts as supported while a caller of what it  *)
(* is mapped to was left alone, nor while something it depends on or calls *)
(* in its own words was (a symbol of the same name may hide one, and the   *)
(* limits must not be met); what a claim is told to have left unchanged    *)
(* next to it really is not in the change; no reviewer is told that an     *)
(* intent appears covered that is not supported; and the summary speaks    *)
(* of a claim only with a unit that shares its words.                      *)
LOCAL IntentTells(intent, report, graph, candidates, words, most) ==
    LET changed == ChangedSymbols(candidates)
        named(s) == graph.symbols[s].name
        unique(s) == \A k \in DOMAIN graph.symbols : k # s => named(k) # named(s)
    IN  /\ \A i \in DOMAIN intent : CoverageStatus(intent[i]) = "supported" =>
             /\ intent[i].mapped # <<>>
             /\ \A n \in ToSet(intent[i].mapped), call \in ToSet(graph.calls) :
                  LET unit == ChangedSymbols(report.units[n].candidates)
                      other == IF call.caller \in unit THEN call.callee ELSE call.caller
                  IN  (/\ {call.caller, call.callee} \cap unit # {}
                       /\ other \in DOMAIN graph.symbols \ changed /\ unique(other)
                       /\ Len(graph.calls) <= most.fanout)
                        => /\ call.callee \notin unit
                           /\ RefTerms(words, graph.symbols[other]) \cap intent[i].claim.terms = {}
        /\ \A i \in DOMAIN intent : \A ref \in ToSet(intent[i].gaps) :
             (ref.relation = "directly_dependent" /\ Len(graph.calls) <= most.fanout)
               => \E s \in DOMAIN graph.symbols \ changed : named(s) = ref.name /\ graph.symbols[s].file = ref.file
        /\ \A c \in ToSet(candidates) : \A told \in ToSet(IntentEvidence(intent, c)) :
             told.appearsCovered => \E v \in ToSet(intent) : v.claim = told.claim /\ CoverageStatus(v) = "supported"
        /\ \A line \in ToSet(IntentSummary(intent, most.nodes)) :
             line.changed => \E c \in ToSet(candidates) : c.name = line.surface
IntentIsBacked(words, title, body, graph, candidates, most) ==
    LET none == [deltas |-> <<>>, stale |-> <<>>] IN
    \A report \in {ChangeReport(graph, candidates, most)} :
        IntentTells(IntentReport(words, title, body, report, none, most), report, graph, candidates, words, most)

(* TestsAreTold: within the limit of a unit, every file of a unit of       *)
(* behavior with no test in the graph is named and the reviewer of one of  *)
(* its candidates is told; every test of a changed file that the diff      *)
(* weakened is named; nothing else is; and no unit exceeds its limit.      *)
LOCAL TestGapsTell(gaps, report, companions, graph, diff, most) ==
    LET of(n) == SelectSeq(gaps, LAMBDA g : g.unit = n)
        full(n) == Len(of(n)) = most.testGaps
        tests(f) == ToSet(TestsOf(graph, f))
    IN  /\ \A n \in DOMAIN report.units :
             /\ Len(of(n)) <= most.testGaps
             /\ \A c \in ToSet(report.units[n].candidates) :
                  (/\ report.units[n].kind = "behavior" /\ c.symbol # NoId /\ c.name # NoId /\ tests(c.file) = {})
                    => \/ full(n)
                       \/ \E d \in ToSet(report.units[n].candidates) : d.file = c.file /\ TestEvidence(gaps, d) # <<>>
             /\ \A c \in ToSet(report.units[n].candidates) : \A t \in tests(c.file) :
                  (c.symbol # NoId /\ Weakened(diff, t.test))
                    => \/ \E g \in ToSet(gaps) : g.reason = "weakened" /\ g.file = t.test
                       \/ \E m \in ToSet(companions) : m.file = t.test /\ full(m.unit)
        /\ \A g \in ToSet(gaps) :
             IF g.reason = "weakened" THEN Weakened(diff, g.file)
             ELSE \A m \in ToSet(companions) : m.reason = "test" => m.sourceFile # g.file
TestsAreTold(graph, candidates, diff, most) ==
    \A report \in {ChangeReport(graph, candidates, most)} :
        TestGapsTell(TestGaps(report, report.companions, diff, most), report, report.companions, graph, diff, most)
=============================================================================
