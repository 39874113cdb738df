--------------------------- MODULE StaticAnalysis ---------------------------
(***************************************************************************)
(* One static-analysis run (patchfrog.analysis): the analyzers a commit    *)
(* calls for, what each of them comes to in its sandbox, the findings told *)
(* once each, and the rows that two requests for one commit leave.         *)
(*                                                                         *)
(* A request has a commit, the added lines of every changed file (no file  *)
(* for a whole repository) and whether there is a compilation database.  A *)
(* tool is an analyzer's binary: whether it is found, how it answers to    *)
(* --version, and the process that analyzes: whether it starts, when it    *)
(* ends and when its output passes the cap, its exit code, whether its     *)
(* output parses, its entries, and how many come before the cap.           *)
(***************************************************************************)
EXTENDS ContextPacking

LanguagesOf ==
    [ruff |-> {"python"}, cppcheck |-> {"c", "cpp"}, clang_tidy |-> {"c", "cpp"}, semgrep |-> {"python", "c", "cpp"}]
Analyzers == <<"ruff", "cppcheck", "clang_tidy", "semgrep">>

(* load_analysis_config: the first of two files that is there decides,     *)
(* even if it cannot be read or does not validate.                         *)
DefaultConfig == [enabled |-> ToSet(Analyzers), own |-> <<>>, seconds |-> 60]
LoadedConfig(files) ==
    LET present == SelectSeq(files, LAMBDA f : f.form # "absent")
    IN  IF present # <<>> /\ Head(present).form = "valid" THEN Head(present).config ELSE DefaultConfig

(* AnalysisConfig.wants, select_analyzers, _determine_languages            *)
Wants(config, a) == a \in config.enabled /\ (a \in DOMAIN config.own => config.own[a] # "no")
Selected(config, languages) == {a \in ToSet(Analyzers) : Wants(config, a) /\ LanguagesOf[a] \cap languages # {}}
RequestLanguages(request, index) ==
    (IF DOMAIN request.changed = {} THEN {f.language : f \in ToSet(index.files)}
     ELSE {LanguageOf(p, [cpp |-> FALSE]) : p \in DOMAIN request.changed}) \ {"none"}

-----------------------------------------------------------------------------
(* run_sandboxed: one deadline, and a short one once a stream is cut.      *)
Forever == 1000
DrainGrace == 2
VersionSeconds == 10
Ran(process, seconds) ==
    LET deadline == IF process.floods <= seconds THEN Smaller(seconds, process.floods + DrainGrace) ELSE seconds
        timedOut == process.ends > deadline
    IN  [timedOut |-> timedOut, exit |-> IF timedOut THEN -9 ELSE process.exit,
         cut |-> process.floods <= Smaller(process.ends, deadline)]

(* discover: asked for once for the identity of the run and once more by   *)
(* every analyzer; semgrep has a little longer to answer.                  *)
Discovered(tool) ==
    IF tool.found /\ tool.asked.starts /\ Ran(tool.asked, VersionSeconds).exit = 0
    THEN [available |-> TRUE, version |-> tool.version] ELSE [available |-> FALSE, version |-> NoText]

(* discover_toolchain, ToolchainSnapshot and the identity of a run: not a  *)
(* word of the changed files.                                              *)
Toolchain(selected, tools, rules) ==
    [analyzers |-> [a \in selected |-> Discovered(tools[a])], rules |-> IF "semgrep" \in selected THEN {rules} ELSE {}]
RunIdentity(request, config, selected, tools, rules) ==
    [commit |-> request.commit, config |-> config, toolchain |-> Toolchain(selected, tools, rules)]

-----------------------------------------------------------------------------
(* The categories of a rule: the first row of the table that fits.  A rule *)
(* has a name and its marks, the prefixes and words of the tables in it.   *)
RuffRows ==
    <<<<"E9", "correctness", "high", "high">>, <<"E722", "correctness", "medium", "high">>, <<"F821", "correctness", "high", "high">>,
      <<"F", "correctness", "medium", "high">>, <<"BLE", "correctness", "low", "medium">>, <<"B", "correctness", "medium", "medium">>,
      <<"ASYNC", "concurrency", "medium", "medium">>, <<"SIM", "maintainability", "low", "medium">>, <<"S", "security", "high", "medium">>,
      <<"PERF", "performance", "low", "medium">>, <<"C90", "maintainability", "low", "medium">>, <<"C4", "maintainability", "low", "high">>,
      <<"UP", "maintainability", "low", "high">>, <<"PTH", "maintainability", "low", "high">>, <<"RUF", "maintainability", "low", "medium">>,
      <<"A", "maintainability", "low", "high">>, <<"N", "style", "info", "high">>, <<"D", "style", "info", "high">>,
      <<"I", "style", "info", "high">>, <<"W", "style", "info", "high">>, <<"E", "style", "info", "high">>>>
CppcheckRows ==
    <<<<"null", "memory_safety">>, <<"uninit", "memory_safety">>, <<"memleak", "resource_management">>, <<"leak", "resource_management">>,
      <<"bufferaccessoutofbounds", "memory_safety">>, <<"outofbounds", "memory_safety">>, <<"overflow", "memory_safety">>,
      <<"doublefree", "memory_safety">>, <<"dealloc", "memory_safety">>, <<"useafterfree", "memory_safety">>, <<"race", "concurrency">>,
      <<"deadlock", "concurrency">>, <<"undefined", "undefined_behavior">>, <<"shift", "undefined_behavior">>,
      <<"signconversion", "correctness">>, <<"unused", "style">>, <<"style", "style">>, <<"performance", "performance">>,
      <<"portability", "portability">>>>
ClangTidyRows ==
    <<<<"clang-analyzer-core.uninitialized", "memory_safety">>, <<"clang-analyzer-core.null", "memory_safety">>,
      <<"clang-analyzer-cplusplus.newdelete", "memory_safety">>, <<"clang-analyzer-unix.malloc", "memory_safety">>,
      <<"clang-analyzer-security", "security">>, <<"clang-analyzer", "undefined_behavior">>, <<"bugprone-use-after-move", "memory_safety">>,
      <<"bugprone-dangling", "memory_safety">>, <<"bugprone-", "correctness">>, <<"cert-", "security">>, <<"security-", "security">>,
      <<"concurrency-", "concurrency">>, <<"performance-", "performance">>, <<"portability-", "portability">>,
      <<"readability-", "maintainability">>, <<"modernize-", "maintainability">>, <<"misc-", "maintainability">>,
      <<"cppcoreguidelines-", "maintainability">>>>
RowFor(rows, marks, default) ==
    LET fitting == SelectSeq(rows, LAMBDA row : row[1] \in marks) IN IF fitting = <<>> THEN default ELSE Head(fitting)

FindingCategory ==
    {"correctness", "security", "memory_safety", "resource_management", "concurrency", "performance", "maintainability", "style",
     "portability", "undefined_behavior", "api_misuse", "unknown"}
LevelOf(map, level) == IF level \in DOMAIN map THEN map[level] ELSE "medium"
CppcheckLevels == [error |-> "high", warning |-> "medium", performance |-> "low", portability |-> "low", style |-> "info", information |-> "info"]
SemgrepLevels == [ERROR |-> "high", WARNING |-> "medium", INFO |-> "low"]
SemgrepConfidence == [HIGH |-> "high", MEDIUM |-> "medium", LOW |-> "low"]

(* parse_ruff_output, parse_cppcheck_output, parse_clang_tidy_output,      *)
(* parse_semgrep_output: an entry without a rule or a place is no finding. *)
RawFinding(a, e, last, category, severity, confidence) ==
    [analyzer |-> a, rule |-> e.rule.name, file |-> e.path, start |-> e.first, end |-> last,
     category |-> category, severity |-> severity, confidence |-> confidence]
Each(entries, Finding(_)) == [i \in DOMAIN entries |-> Finding(entries[i])]

ParseRuff(entries) ==
    LET row(e) == RowFor(RuffRows, e.rule.marks, <<NoText, "unknown", "medium", "medium">>)
    IN  Each(SelectSeq(entries, LAMBDA e : e.rule.name # NoText),
             LAMBDA e : RawFinding("ruff", e, e.last, row(e)[2], row(e)[3], row(e)[4]))
ParseCppcheck(entries) ==
    Each(SelectSeq(entries, LAMBDA e : e.placed),
         LAMBDA e : RawFinding("cppcheck", e, e.first, RowFor(CppcheckRows, e.rule.marks, <<NoText, "unknown">>)[2],
                               LevelOf(CppcheckLevels, e.level), "medium"))
ParseClangTidy(entries) ==
    Each(entries, LAMBDA e : RawFinding("clang_tidy", e, e.first, RowFor(ClangTidyRows, e.rule.marks, <<NoText, "unknown">>)[2],
                                        LevelOf([error |-> "high"], e.level), "medium"))
ParseSemgrep(entries) ==
    Each(entries, LAMBDA e : RawFinding("semgrep", e, e.last, IF e.category \in FindingCategory THEN e.category ELSE "unknown",
                                        LevelOf(SemgrepLevels, e.level), LevelOf(SemgrepConfidence, e.confidence)))

(* _target_paths; WholeTree is ".".                                        *)
WholeTree == {[dir |-> <<>>]}
AnyExit == -64..255
InScope(request, suffixes) ==
    IF DOMAIN request.changed = {} THEN WholeTree ELSE {p \in DOMAIN request.changed : p.ext \in suffixes}

(* Analyzer.analyze: an answer for every way it can go, and no exception.  *)
(* strict: a report that is cut or garbled is a failure.  What is read of  *)
(* the report is a result's findings as yet.                               *)
AnalyzerResult(status, findings) == [status |-> status, findings |-> findings]
Attempt(tool, targets, seconds, exits, strict) ==
    LET process == tool.process
        ran == Ran(process, seconds)
        shown == IF ran.cut THEN SubSeq(process.entries, 1, process.shown) ELSE process.entries
    IN  CASE ~Discovered(tool).available -> AnalyzerResult("unsupported", <<>>)
          [] Discovered(tool).available /\ targets = {} -> AnalyzerResult("skipped", <<>>)
          [] OTHER ->
               IF ~process.starts THEN AnalyzerResult("failed", <<>>)
               ELSE IF ran.timedOut THEN AnalyzerResult("timed_out", <<>>)
               ELSE IF ran.exit \notin exits \/ (strict /\ (ran.cut \/ ~process.parses)) THEN AnalyzerResult("failed", <<>>)
               ELSE AnalyzerResult("succeeded", SelectSeq(shown, LAMBDA e : targets = WholeTree \/ e.path \in targets))

RuffResult(tool, request, languages, seconds) ==
    [Attempt(tool, IF "python" \in languages THEN InScope(request, {"py"}) ELSE {}, seconds, {0}, TRUE) EXCEPT !.findings = ParseRuff(@)]

CppcheckResult(tool, request, languages, seconds) ==
    LET sources == {"c", "h", "cc", "cpp", "cxx", "hh", "hpp", "hxx"}
    IN  [Attempt(tool, IF {"c", "cpp"} \cap languages # {} THEN InScope(request, sources) ELSE {}, seconds, {0}, TRUE) EXCEPT !.findings = ParseCppcheck(@)]

(* Only with a compilation database and a list of sources; its report is   *)
(* read line by line, and its exit code is not looked at.                  *)
ClangTidyResult(tool, request, languages, seconds) ==
    LET targets == IF DOMAIN request.changed = {} \/ {"c", "cpp"} \cap languages = {} THEN {} ELSE InScope(request, {"c", "cc", "cpp", "cxx"})
    IN  [Attempt(tool, IF request.database THEN targets ELSE {}, seconds, AnyExit, FALSE) EXCEPT !.findings = ParseClangTidy(@)]

SemgrepResult(tool, request, languages, seconds) ==
    LET targets == IF DOMAIN request.changed = {} THEN WholeTree ELSE DOMAIN request.changed
    IN  [Attempt(tool, IF {"python", "c", "cpp"} \cap languages # {} THEN targets ELSE {}, seconds, {0, 1}, TRUE) EXCEPT !.findings = ParseSemgrep(@)]

(* run_analyzers: an adapter that raises has failed.                       *)
Analyzed(a, tool, request, languages, seconds) ==
    CASE tool.raises -> AnalyzerResult("failed", <<>>)
      [] ~tool.raises /\ a = "ruff" -> RuffResult(tool, request, languages, seconds)
      [] ~tool.raises /\ a = "cppcheck" -> CppcheckResult(tool, request, languages, seconds)
      [] ~tool.raises /\ a = "clang_tidy" -> ClangTidyResult(tool, request, languages, seconds)
      [] ~tool.raises /\ a = "semgrep" -> SemgrepResult(tool, request, languages, seconds)

-----------------------------------------------------------------------------
(* enrich_many, compute_fingerprint, classify                              *)
EnclosingSymbol(index, path, line) ==
    LET inner == Innermost(index, path, line)
    IN  IF inner = {} THEN NoRow
        ELSE CHOOSE i \in inner : \A j \in inner : Precedes(<<SpanOf(index, i)[1], i>>, <<SpanOf(index, j)[1], j>>) \/ i = j
FindingPrint(f, name) ==
    <<f.category, f.analyzer, f.rule, f.file, IF name = TopLevel THEN <<"line", f.start>> ELSE name>>
Classified(f, span, changed) ==
    LET lines == IF f.file \in DOMAIN changed THEN changed[f.file] ELSE {}
    IN  [onLine |-> (f.start..f.end) \cap lines # {}, inSymbol |-> (span[1]..span[2]) \cap lines # {}]
Enriched(f, index, changed) ==
    LET symbol == EnclosingSymbol(index, f.file, f.start)
        name == IF symbol = NoRow THEN TopLevel ELSE index.symbols[symbol].row.qualified
    IN  [finding |-> f, symbol |-> symbol, name |-> name, print |-> FindingPrint(f, name)]
          @@ Classified(f, IF symbol = NoRow THEN <<1, 0>> ELSE SpanOf(index, symbol), changed)

(* deduplicate: groups of enriched findings that are connected by pairs,   *)
(* in the order of their first members, the primary finding first.         *)
DuplicatePair(a, b) ==
    LET f == a.finding g == b.finding IN
    /\ Overlap(f, g) /\ f.category = g.category
    /\ f.analyzer = g.analyzer => f.rule = g.rule
    /\ TopLevel \in {a.name, b.name} \/ a.name = b.name
ConnectedTo(found) ==
    LET near == [i \in DOMAIN found |-> {j \in DOMAIN found : DuplicatePair(found[i], found[j])}]
        joined(parts, k) == [i \in DOMAIN parts |-> IF k \in parts[i] THEN parts[i] \cup parts[k] ELSE parts[i]]
    IN  FoldLeft(joined, near, [k \in DOMAIN found |-> k])
AlphabeticPlace == [clang_tidy |-> 1, cppcheck |-> 2, ruff |-> 3, semgrep |-> 4]
Groups(found) ==
    LET component == ConnectedTo(found)
        firsts == SelectSeq([i \in DOMAIN found |-> i], LAMBDA i : \A j \in component[i] : i <= j)
        key(i) == LET f == found[i].finding IN <<4 - SeverityRank(f.severity), 2 - ConfidenceRank(f.confidence), AlphabeticPlace[f.analyzer]>>
    IN  [g \in DOMAIN firsts |-> SortedPositions(component[firsts[g]], key)]

(* _execute_and_persist: the results of the selected analyzers, and what   *)
(* is stored of them.                                                      *)
AnalyzerFailures == {"failed", "timed_out"}
AnalysisStatus(results) ==
    LET statuses == {results[a].status : a \in DOMAIN results}
    IN  IF statuses \cap AnalyzerFailures = {} THEN "succeeded" ELSE IF "succeeded" \in statuses THEN "partial" ELSE "failed"
ResultsOf(request, index, config, tools) ==
    LET languages == RequestLanguages(request, index)
    IN  [a \in Selected(config, languages) |-> Analyzed(a, tools[a], request, languages, config.seconds)]
FindingRow(found, group) == [primary |-> found[Head(group)], sources |-> group]
AnalysisOf(results, found, groups) ==
    [results |-> results, status |-> AnalysisStatus(results), found |-> found,
     rows |-> [g \in DOMAIN groups |-> FindingRow(found, groups[g])],
     counts |-> [raw |-> Len(found), findings |-> Len(groups),
                 succeeded |-> Cardinality({a \in DOMAIN results : results[a].status = "succeeded"}),
                 failed |-> Cardinality({a \in DOMAIN results : results[a].status \in AnalyzerFailures}),
                 skipped |-> Cardinality({a \in DOMAIN results : results[a].status \in {"skipped", "unsupported"}})]]
AnalysisFound(results, found) == AnalysisOf(results, found, Groups(found))
EnrichedResults(results, index, changed) ==
    LET raw == FoldLeft(LAMBDA acc, a : IF a \in DOMAIN results THEN acc \o results[a].findings ELSE acc, <<>>, Analyzers)
    IN  AnalysisFound(results, [i \in DOMAIN raw |-> Enriched(raw[i], index, changed)])
Analysis(request, index, config, tools) ==
    EnrichedResults(ResultsOf(request, index, config, tools), index, request.changed)

-----------------------------------------------------------------------------
(* analysis_runs, and requests that come to it one step at a time: the     *)
(* first asks for a run and starts one unless it is there, the second      *)
(* writes what came of it, under the lock of the identity.  A request has  *)
(* the active index it meets, an identity, an outcome and its findings.    *)
NoRun == 0
NoRows == [rows |-> <<>>, mine |-> <<>>, answer |-> <<>>]
SucceededRun(rows, identity) == {i \in DOMAIN rows : rows[i].identity = identity /\ rows[i].status = "succeeded"}
AnsweredWith(state, r, run) == [state EXCEPT !.answer = (r :> run) @@ @]

(* _require_matching_index, get_or_create_running                          *)
IndexMatches(request) == request.active = request.identity.commit
AskedFor(state, r, request) ==
    LET known == SucceededRun(state.rows, request.identity)
        row == [identity |-> request.identity, status |-> "running", findings |-> 0, at |-> 0]
    IN  CASE ~IndexMatches(request) -> AnsweredWith(state, r, NoRun)
          [] IndexMatches(request) /\ known # {} -> AnsweredWith(state, r, CHOOSE i \in known : TRUE)
          [] OTHER -> [state EXCEPT !.rows = Append(@, row), !.mine = (r :> Len(state.rows) + 1) @@ @]

(* claim_for_write, mark_succeeded, mark_failed                            *)
Winner(state, r, request) == SucceededRun(state.rows, request.identity) \ {state.mine[r]}
RunWritten(state, r, request, now) ==
    LET run == state.mine[r]
        winner == Winner(state, r, request)
        ended(status, findings) == [state EXCEPT !.rows[run].status = status, !.rows[run].findings = findings, !.rows[run].at = now]
    IN  CASE request.outcome = "raises" -> AnsweredWith(ended("failed", 0), r, NoRun)
          [] request.outcome # "raises" /\ winner # {} -> AnsweredWith(ended("failed", 0), r, CHOOSE i \in winner : TRUE)
          [] OTHER -> AnsweredWith(ended(request.outcome, request.findings), r, run)

Stepped(state, r, request, now) ==
    CASE r \in DOMAIN state.answer -> state
      [] r \in DOMAIN state.mine \ DOMAIN state.answer -> RunWritten(state, r, request, now)
      [] OTHER -> AskedFor(state, r, request)
RunsAfter(requests, schedule) ==
    FoldLeft(LAMBDA state, n : Stepped(state, schedule[n], requests[schedule[n]], n), NoRows, [n \in DOMAIN schedule |-> n])

(* get_latest_succeeded_for_commit: what a review reads                    *)
LatestSucceeded(rows, commit) ==
    {i \in DOMAIN rows : /\ rows[i].identity.commit = commit /\ rows[i].status = "succeeded"
                         /\ \A j \in DOMAIN rows : rows[j].identity.commit = commit /\ rows[j].status = "succeeded" => rows[j].at <= rows[i].at}

-----------------------------------------------------------------------------
(* Laws.  Every finding is a source of one group; a group is of one file   *)
(* and category, each member overlaps another, and its primary finding is  *)
(* no milder than any; and what is grouped does not depend on the order.   *)
GroupsLoseNothing(found) ==
    LET groups == Groups(found)
        n == Len(found)
        reversed == Groups([i \in DOMAIN found |-> found[n + 1 - i]])
        f(i) == found[i].finding
    IN  /\ \A i \in DOMAIN found : Cardinality({g \in DOMAIN groups : i \in ToSet(groups[g])}) = 1
        /\ \A g \in DOMAIN groups : \A i \in ToSet(groups[g]) :
             /\ f(i).file = f(groups[g][1]).file /\ f(i).category = f(groups[g][1]).category
             /\ SeverityRank(f(i).severity) <= SeverityRank(f(groups[g][1]).severity)
             /\ Len(groups[g]) > 1 => \E j \in ToSet(groups[g]) \ {i} : DuplicatePair(found[i], found[j])
        /\ {ToSet(groups[g]) : g \in DOMAIN groups} = {{n + 1 - i : i \in ToSet(reversed[g])} : g \in DOMAIN reversed}

(* A run's rows tell every finding of an analyzer that succeeded, the      *)
(* counts add up, a failed run has no findings, and a finding of one line  *)
(* that is changed is in a changed symbol if it is in any.                 *)
AnalysisIsTold(run) ==
    /\ {<<i, g>> \in (DOMAIN run.found) \X (DOMAIN run.rows) : i \in ToSet(run.rows[g].sources)}
         = {<<i, CHOOSE g \in DOMAIN run.rows : i \in ToSet(run.rows[g].sources)>> : i \in DOMAIN run.found}
    /\ run.counts.succeeded + run.counts.failed + run.counts.skipped = Cardinality(DOMAIN run.results)
    /\ run.status = "failed" => run.rows = <<>>
    /\ \A e \in ToSet(run.found) :
         e.finding.start = e.finding.end /\ e.onLine /\ e.symbol # NoRow => e.inSymbol

(* Two succeeded runs of one identity, for one diff, have the same         *)
(* findings: a failure never passes for a clean result, so a run that is   *)
(* used again tells what another would.  Not so for clang-tidy, whose cut  *)
(* report and exit code pass, and not for another diff.                    *)
SucceededRunsAgree(request, index, config, tools, others, rules) ==
    LET selected == Selected(config, RequestLanguages(request, index))
        identity(ts) == RunIdentity(request, config, selected, ts, rules)
        results == ResultsOf(request, index, config, tools)
        again == ResultsOf(request, index, config, others)
    IN  (identity(tools) = identity(others) /\ AnalysisStatus(results) = "succeeded" /\ AnalysisStatus(again) = "succeeded")
          => \A a \in selected \ {"clang_tidy"} : results[a] = again[a]

(* However requests interleave, an identity has one succeeded run at most; *)
(* who is answered gets a succeeded run of the identity it asked for or    *)
(* the run it wrote; a run that lost has no findings; and what a review    *)
(* reads is a complete run of its commit, if there is one.                 *)
RunsAreShared(requests, schedule) ==
    \A state \in {RunsAfter(requests, schedule)} :
    LET rows == state.rows
    IN  /\ \A i \in DOMAIN rows : Cardinality(SucceededRun(rows, rows[i].identity)) <= 1
        /\ \A r \in DOMAIN state.answer : LET run == state.answer[r] IN run # NoRun =>
             /\ rows[run].identity = requests[r].identity
             /\ rows[run].status = "succeeded" \/ (r \in DOMAIN state.mine /\ state.mine[r] = run)
        /\ \A r \in DOMAIN state.mine :
             rows[state.mine[r]].findings # 0 => state.answer[r] = state.mine[r] /\ rows[state.mine[r]].findings = requests[r].findings
        /\ \A i \in DOMAIN rows : rows[i].status = "succeeded" => Cardinality(LatestSucceeded(rows, rows[i].identity.commit)) = 1
=============================================================================
