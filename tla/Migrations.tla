------------------------------ MODULE Migrations ------------------------------
(***************************************************************************)
(* How code is moved to a changed dependency: the step planned for each    *)
(* usage site (patchfrog.migration.planner), the edits of an automatic     *)
(* step (python_rewrite, js_rewrite, manifest_rewrite), the patch they     *)
(* make (generator, edits, safety), and what verifying the patch finds     *)
(* (patchfrog.migration_verification).                                     *)
(*                                                                         *)
(* Steps are planned, and edits located, site by site: the text here is    *)
(* one usage site, as in UpstreamImpact, with its language; a call there   *)
(* also says whether it has a receiver and positional arguments, which     *)
(* fields of its result are read in the function around it, and whether    *)
(* the text of its arguments still parses.  A member is one name.          *)
(***************************************************************************)
EXTENDS UpstreamImpact

Automatic == {"auto_safe", "auto_with_review"}

LOCAL Operation(kind, name, old, new) == <<[kind |-> kind, name |-> name, old |-> old, new |-> new, from |-> Unset]>>
LOCAL Step(strategy, eligibility, operation) ==
    [strategy |-> strategy, eligibility |-> eligibility, operation |-> operation]
LOCAL ForHumans(strategy) == Step(strategy, "human_required", <<>>)

AutoFix(step) == step.eligibility \in Automatic /\ step.operation # <<>>

(* _ARGUMENT_LEVEL; _REQUIRED_KINDS is NeedsAbsence *)
ArgumentLevel ==
    {<<k>> : k \in {"sdk_parameter_renamed", "sdk_parameter_removed", "sdk_parameter_type_changed", "sdk_enum_narrowed",
                    "sdk_enum_value_replaced", "parameter_renamed", "request_field_renamed"}} \cup NeedsAbsence

LOCAL ResponseKinds ==
    {"response", "response_schema_changed", "response_status_removed", "response_status_added", "schema",
     "schema_removed", "schema_added", "sdk_return_shape_changed"}
LOCAL RemovedKinds == {"sdk_symbol_removed", "endpoint_removed", "operation_removed", "sdk_module_removed"}
LOCAL DroppedKinds ==
    {<<"sdk_parameter_removed">>, <<"parameter_removed">>, <<"request", "field_removed">>, <<"request_body_removed">>}

(* The keyword a newly required argument is passed with: a value the hints *)
(* give, or that of another argument (source: <<>> when they say nothing). *)
RequiredArgument(member, source) ==
    [Operation("add_keyword", member, Unset, source[1].value)[1] EXCEPT !.from = source[1].from]

(* _rule: to is the item's replacement                                     *)
Rule(item, site, impact, to, source) ==
    LET kind == item.kind[1]  called == site.evidence = "sdk_call" IN
    CASE impact = "potential" /\ item.kind \in ArgumentLevel -> ForHumans("manual_review")
      [] kind = "sdk_symbol_renamed" ->
           IF called THEN Step("rename_symbol", "auto_safe", Operation("rename_call_chain", site.token, site.token, to))
           ELSE Step("rename_symbol", "unsupported", <<>>)
      [] kind \in {"sdk_parameter_renamed", "parameter_renamed", "request_field_renamed"} /\ impact = "direct" ->
           IF called \/ kind = "sdk_parameter_renamed"
           THEN Step("rename_parameter", "auto_safe", Operation("rename_keyword", item.member[1], Unset, to))
           ELSE ForHumans("rename_parameter")
      [] item.kind \in NeedsAbsence /\ impact = "direct" ->
           IF called /\ source # <<>>
           THEN Step("add_required_parameter", "auto_with_review", <<RequiredArgument(item.member[1], source)>>)
           ELSE ForHumans("add_required_parameter")
      [] kind = "sdk_enum_value_replaced" /\ impact = "direct" ->
           Step("replace_enum_value", "auto_safe",
                Operation("replace_keyword_literal", item.member[1], item.location[3], to))
      [] kind = "sdk_return_field_renamed" ->
           IF site.language = "python"
           THEN Step("adapt_return_field", "auto_with_review", Operation("rename_result_field", item.member[1], Unset, to))
           ELSE Step("adapt_return_field", "unsupported", <<>>)
      [] kind = "sdk_module_moved" ->
           Step("move_import", "auto_safe", Operation("rename_import_module", item.subject[2], Unset, to))
      [] kind = "endpoint_path_changed" ->
           IF site.evidence \in HttpEvidence /\ to.method = item.subject[2] /\ to.placeholders = site.placeholders
           THEN Step("replace_endpoint", "auto_with_review",
                     Operation("replace_path_literal", item.subject[3], Unset, to.path))
           ELSE ForHumans("replace_endpoint")
      [] kind \in RemovedKinds -> ForHumans("replace_removed_api")
      [] item.kind \in DroppedKinds /\ ~(impact = "potential" /\ item.kind \in ArgumentLevel) ->
           ForHumans("remove_argument")
      [] item.kind \in AuthKinds -> ForHumans("update_auth")
      [] kind \in ResponseKinds -> ForHumans("adapt_response")
      [] OTHER -> ForHumans("manual_review")

(* The replacement an item about an SDK has                                *)
SdkReplacement(item, hints) ==
    CASE item.kind[1] = "sdk_symbol_renamed" -> hints.symbols[item.subject[2]]
      [] item.kind[1] = "sdk_parameter_renamed" -> hints.parameters[item.location]
      [] item.kind[1] = "sdk_enum_value_replaced" -> hints.enums[item.location]
      [] item.kind[1] = "sdk_return_field_renamed" -> hints.returns[item.location]
      [] item.kind[1] = "sdk_module_moved" -> hints.modules[item.subject[2]]
      [] OTHER -> Unset

(* _consumer_steps, of one site: what affects it, planned item by item.    *)
(* Items with the same rule share a step.                                  *)
SiteSteps(items, site, hints, sources) ==
    LET consumer == Consumer(items, site, [paths |-> <<>>], <<>>, TRUE)
        affecting == {i \in Affecting(items) :
                        \E m \in Match(i, site, [paths |-> <<>>], <<>>, TRUE) : ~m.ruledOut}
        source(i) == IF i.member # <<>> /\ <<i.subject[2], i.member[1]>> \in DOMAIN sources
                     THEN <<sources[<<i.subject[2], i.member[1]>>]>> ELSE <<>>
    IN  {Rule(i, site, consumer.impact, SdkReplacement(i, hints), source(i)) : i \in affecting}

(* _package_steps, of a matched dependency declared in a manifest: kind    *)
(* and class are those of the version item.                                *)
Bump(dependency, kind, class, structural, unresolved) ==
    IF dependency.ecosystem \notin {"pypi", "npm"} THEN "unsupported"
    ELSE IF kind \in {"package_downgrade", "package_version_unparseable"} THEN "human_required"
    ELSE IF kind \in {"package_minor_bump", "package_patch_bump"} /\ class = "non_breaking" THEN "auto_safe"
    ELSE IF structural /\ ~unresolved THEN "auto_safe" ELSE "auto_with_review"

PackageSteps(dependency, kind, class, structural, unresolved) ==
    LET eligibility == Bump(dependency, kind, class, structural, unresolved)
        operation == IF eligibility \in Automatic
                     THEN Operation("bump_manifest_version", dependency.package, Unset, dependency.target) ELSE <<>>
    IN  <<Step("bump_package_version", eligibility, operation)>>
          \o (IF dependency.locked THEN <<Step("refresh_lockfile", "unsupported", <<>>)>> ELSE <<>>)
          \o (IF ~structural /\ class # "non_breaking" THEN <<ForHumans("verify_upgrade")>> ELSE <<>>)

(* _residual and planned_status *)
PlannedRisk(steps, structural) ==
    IF \E s \in steps : s.eligibility \notin Automatic /\ s.strategy # "refresh_lockfile" THEN "high"
    ELSE IF steps # {} /\ ((\E s \in steps : s.eligibility = "auto_with_review") \/ ~structural) THEN "medium" ELSE "low"

PlannedStatus(steps) ==
    IF steps = {} THEN "not_required"
    ELSE IF \E s \in steps : AutoFix(s) THEN "planned"
    ELSE IF \A s \in steps : s.eligibility = "unsupported" THEN "unsupported" ELSE "human_required"

-----------------------------------------------------------------------------
(* Edits of a text: of one place of one call, or of the line.              *)
LOCAL Edit(call, place, text) == [call |-> call, place |-> place, text |-> text]
LOCAL Failed == [outcome |-> "failed", edits |-> {}]
LOCAL NotNeeded == [outcome |-> "not_needed", edits |-> {}]
LOCAL Edited(edits) == [outcome |-> IF edits = {} THEN "not_needed" ELSE "applied", edits |-> edits]

CallsOf(text, chain) == IF text.token = chain THEN text.calls ELSE {}
LOCAL Passes(call, name) == name \in DOMAIN call.keywords

RenameCallChain(op, text) ==
    IF CallsOf(text, op.old) = {} THEN IF CallsOf(text, op.new) # {} THEN NotNeeded ELSE Failed
    ELSE IF \E c \in text.calls : ~c.receiver THEN Failed
    ELSE Edited({Edit(c, <<"chain">>, op.new) : c \in text.calls})

RenameKeyword(op, calls) ==
    IF \E c \in calls : (Passes(c, op.name) <=> Passes(c, op.new)) /\ (Passes(c, op.name) \/ c.indirect)
    THEN Failed
    ELSE Edited({Edit(c, <<"name", op.name>>, op.new) : c \in {c \in calls : Passes(c, op.name)}})

(* In JavaScript the keywords are an object, the last argument.            *)
AddKeyword(op, calls, language) ==
    LET without == {c \in calls : ~Passes(c, op.name)}
        noObject(c) == language = "javascript" /\ c.keywords = <<>> /\ c.positional
    IN  IF \E c \in without : c.indirect \/ noObject(c) \/ (op.from # Unset /\ ~Passes(c, op.from)) THEN Failed
        ELSE Edited({Edit(c, <<"end", op.name>>, IF op.from = Unset THEN op.new ELSE c.keywords[op.from]) : c \in without})

ReplaceKeywordLiteral(op, calls) ==
    IF \E c \in calls : Passes(c, op.name) /\ c.keywords[op.name] = Computed THEN Failed
    ELSE Edited({Edit(c, <<"value", op.name>>, op.new) :
                   c \in {c \in calls : Passes(c, op.name) /\ c.keywords[op.name] = op.old}})

RenameResultField(op, calls) ==
    Edited({Edit(c, <<"read", op.name>>, op.new) : c \in {c \in calls : op.name \in c.reads}})

RenameImportModule(op, text) ==
    IF op.name \in {text.token} \cup text.within THEN Edited({Edit(<<>>, <<"import">>, op.new)})
    ELSE IF text.language = "python" \/ text.token = op.new THEN NotNeeded ELSE Failed

ReplacePathLiteral(op, text) ==
    IF op.name \in text.paths THEN Edited({Edit(<<>>, <<"path", op.name>>, op.new)})
    ELSE IF op.new \in text.paths THEN NotNeeded ELSE Failed

(* A manifest's declarations of the package; a constraint is <<>> (any     *)
(* version), an operator with a version, or something else.                *)
BumpManifest(op, declared) ==
    IF Len(declared) # 1 THEN Failed
    ELSE IF declared[1] = <<>> THEN NotNeeded
    ELSE IF Len(declared[1]) # 2 THEN Failed
    ELSE IF declared[1][2] = op.new THEN NotNeeded
    ELSE Edited({Edit(<<>>, <<"constraint">>, <<declared[1][1], op.new>>)})

(* The step was planned for calls of token. *)
Rewrite(step, token, text) ==
    LET op == step.operation[1]  calls == CallsOf(text, token)
        onCalls == {"rename_keyword", "add_keyword", "replace_keyword_literal", "rename_result_field"}
    IN  CASE op.kind = "rename_call_chain" -> RenameCallChain(op, text)
          [] op.kind = "rename_import_module" -> RenameImportModule(op, text)
          [] op.kind = "replace_path_literal" -> ReplacePathLiteral(op, text)
          [] op.kind = "bump_manifest_version" -> BumpManifest(op, text.declared)
          [] op.kind \in onCalls /\ calls = {} -> Failed
          [] op.kind = "rename_keyword" /\ calls # {} -> RenameKeyword(op, calls)
          [] op.kind = "add_keyword" /\ calls # {} -> AddKeyword(op, calls, text.language)
          [] op.kind = "replace_keyword_literal" /\ calls # {} -> ReplaceKeywordLiteral(op, calls)
          [] op.kind = "rename_result_field" /\ calls # {} -> RenameResultField(op, calls)

(* Insertions at one place do not overlap. *)
Overlaps(edit, others) == edit.place[1] # "end" /\ \E o \in others : o.call = edit.call /\ o.place = edit.place

(* apply_edits, of the edits of one call.  What is inserted after the last *)
(* argument brings its comma; between empty parentheses there is none, and *)
(* two insertions there do not parse.                                      *)
EditedCall(call, edits) ==
    LET mine == {e \in edits : e.call = call}
        edited(place, otherwise) ==
            LET found == {e.text : e \in {e \in mine : e.place = place}}
            IN  IF found = {} THEN otherwise ELSE CHOOSE t \in found : TRUE
        name(p) == edited(<<"name", p>>, p)
        kept == [q \in {name(p) : p \in DOMAIN call.keywords} |->
                   LET p == CHOOSE p \in DOMAIN call.keywords : name(p) = q
                   IN  edited(<<"value", p>>, call.keywords[p])]
        added == {e.place[2] : e \in {e \in mine : e.place[1] = "end"}}
    IN  [call EXCEPT
           !.keywords = kept @@ [q \in added |-> edited(<<"end", q>>, Unset)],
           !.reads = {edited(<<"read", f>>, f) : f \in @},
           !.parses = @ /\ (call.keywords # <<>> \/ call.positional \/ call.indirect \/ Cardinality(added) <= 1)]

ApplyEdits(text, edits) ==
    LET chains == {e.text : e \in {e \in edits : e.place[1] \in {"chain", "import"}}}
    IN  [text EXCEPT !.token = IF chains = {} THEN @ ELSE CHOOSE t \in chains : TRUE,
                     !.calls = {EditedCall(c, edits) : c \in @},
                     !.declared = LET bumped == {e.text : e \in {e \in edits : e.place[1] = "constraint"}}
                                  IN  IF bumped = {} THEN @ ELSE SetToSeq(bumped),
                     !.paths = LET moved == {e \in edits : e.place[1] = "path"}
                               IN  (@ \ {e.place[2] : e \in moved}) \cup {e.text : e \in moved}]

(* _obsolete_shape_problem; a call under another name is found by its line *)
ObsoleteShape(step, token, text) ==
    LET op == step.operation[1]
        calls == IF CallsOf(text, token) # {} THEN CallsOf(text, token) ELSE text.calls
    IN  CASE op.kind = "rename_call_chain" -> CallsOf(text, op.old) # {} \/ CallsOf(text, op.new) = {}
          [] op.kind = "rename_keyword" -> calls = {} \/ \E c \in calls : Passes(c, op.name)
          [] op.kind = "add_keyword" -> calls = {} \/ \E c \in calls : ~Passes(c, op.name)
          [] op.kind = "replace_keyword_literal" ->
               calls = {} \/ \E c \in calls : Passes(c, op.name) /\ c.keywords[op.name] = op.old
          [] op.kind = "replace_path_literal" -> op.name \in text.paths
          [] op.kind = "rename_import_module" -> op.name = text.token
          [] op.kind = "bump_manifest_version" -> \A d \in ToSet(text.declared) : Len(d) # 2 \/ d[2] # op.new
          [] OTHER -> FALSE

(* generate_patch, with the gates an edit of one site can fail: steps in   *)
(* the order of the plan, all located in the same text, the first of two   *)
(* that overlap applied.                                                   *)
Located(step, token, text) ==
    IF AutoFix(step) THEN Rewrite(step, token, text) ELSE [outcome |-> "skipped", edits |-> {}]

Accepted(patch, rewritten) ==
    IF \E e \in rewritten.edits : Overlaps(e, patch.edits) THEN [patch EXCEPT !.outcomes = Append(@, "failed")]
    ELSE [edits |-> patch.edits \cup rewritten.edits, outcomes |-> Append(patch.outcomes, rewritten.outcome)]

Gated(steps, token, patch, after) ==
    [outcomes |-> patch.outcomes, text |-> after, edited |-> patch.edits # {},
     gates |-> /\ \A c \in after.calls : c.parses
               /\ \A i \in DOMAIN steps : patch.outcomes[i] = "applied" => ~ObsoleteShape(steps[i], token, after)]

Generate(steps, token, text) ==
    LET patch == FoldLeft(LAMBDA p, step : Accepted(p, Located(step, token, text)), [edits |-> {}, outcomes |-> <<>>], steps)
    IN  Gated(steps, token, patch, ApplyEdits(text, patch.edits))

IsCandidate(patch) == patch.edited /\ patch.gates

(* A call the plan leaves nothing of to a person, and that every step of   *)
(* it was applied to, is one the new surface takes: each argument goes     *)
(* where the old one went, and what is read of the result is there.  The   *)
(* order of the steps does not matter, and a second run changes nothing.   *)
LOCAL SiteOf(symbol, call, reads) ==
    [evidence |-> "sdk_call", token |-> symbol, within |-> {}, paths |-> {}, located |-> TRUE, language |-> "python",
     declared |-> <<>>, calls |-> {[keywords |-> [p \in DOMAIN call |-> call[p].v], indirect |-> FALSE, receiver |-> TRUE,
                 positional |-> FALSE, reads |-> reads, parses |-> TRUE]}]

LOCAL Works(text, symbol, call, hints, surface) ==
    LET was(q) == {p \in DOMAIN call : IF <<symbol, p>> \in DOMAIN hints.parameters /\ q # p
                                       THEN hints.parameters[<<symbol, p>>] = q ELSE p = q}
        typed(q, v) == [type |-> IF was(q) = {} THEN Unset ELSE call[CHOOSE p \in was(q) : TRUE].type, v |-> v]
    IN  /\ text.token \in DOMAIN surface.symbols
        /\ \A c \in text.calls :
             /\ c.parses
             /\ Callable([q \in DOMAIN c.keywords |-> typed(q, c.keywords[q])], surface.symbols[text.token])
             /\ c.reads \subseteq DOMAIN surface.symbols[text.token].returns
             /\ \A p \in DOMAIN call : \E q \in DOMAIN c.keywords : p \in was(q)

MigratedCallsWork(old, new, hints, sources) ==
    LET items == SurfaceDiff(old, new, hints) IN
    \A symbol \in DOMAIN old.symbols : LET was == old.symbols[symbol] IN
    \A call \in Calls(was), reads \in SUBSET DOMAIN was.returns :
      LET site == SiteOf(symbol, call, reads)
          works(patch, plan) ==
            /\ (/\ \A i \in DOMAIN plan : AutoFix(plan[i])
                /\ ToSet(patch.outcomes) \subseteq {"applied", "not_needed"}
                /\ patch.edited => IsCandidate(patch)) => Works(patch.text, symbol, call, hints, new)
            /\ ~Generate(plan, symbol, patch.text).edited
          agree(plans) ==
            \A plan \in plans :
              \A patch \in {Generate(plan, symbol, site)} :
                /\ works(patch, plan)
                /\ \A other \in plans : patch.text = Generate(other, symbol, site).text
      IN  agree(SetToSeqs(SiteSteps(items, site, hints, sources)))

(* An upgrade that may break, and whose changes are unknown or not all     *)
(* handled, is planned neither as safe nor without a person; and what is   *)
(* written to a manifest is the target, once.                              *)
LOCAL Manifest(declared) ==
    [token |-> "p", within |-> {}, paths |-> {}, language |-> "manifest", calls |-> {}, declared |-> declared]

UpgradesArePlanned(old, new) ==
    \A item \in VersionItems(old, new), ecosystem \in {"pypi", "go"}, locked, structural, unresolved \in BOOLEAN :
      LET dependency == [package |-> "p", ecosystem |-> ecosystem, locked |-> locked, target |-> new]
          steps == PackageSteps(dependency, item.kind[1], item.class, structural, unresolved)
          harmless == item.class = "non_breaking"
      IN  /\ PlannedRisk(ToSet(steps), structural) = "low" => structural /\ (harmless \/ ~unresolved)
          /\ ~structural /\ ~harmless => \E i \in DOMAIN steps : steps[i].eligibility = "human_required"
          /\ PlannedStatus(ToSet(steps)) = "planned" => new # <<>> /\ ~Below(new, old, 3)
          /\ \A declared \in {<<>>, <<<<>>>>, <<<<"==", old>>>>, <<<<"==", new>>>>, <<<<"other">>>>, <<<<"==", old>>, <<>>>>} :
               LET patch == Generate(steps, "p", Manifest(declared)) IN
               /\ patch.gates /\ ~Generate(steps, "p", patch.text).edited
               /\ patch.edited => patch.text.declared = <<<<"==", new>>>>

-----------------------------------------------------------------------------
(* What is required of a generated migration patch, what is run to show    *)
(* it, and what the evidence amounts to (patchfrog.migration_verification) *)
(* with the check shown for it (migration_pr.check).                       *)
(*                                                                         *)
(* A patch is the steps of its plan with their outcomes, whether its gates *)
(* passed, whether it changes Python files, the steps whose manifest names *)
(* the target version afterwards, and whether it stays in planned files.   *)
(* A test has a class, the exit of its run on the patched copy, and of the *)
(* two runs that compare it with the unpatched one.                        *)
CheckStatuses == {"passed", "failed", "not_run", "unavailable"}
MaxTargetedTests == 8       \* MAX_TARGETED_TESTS_PER_PLAN
MaxSteps == 12              \* MAX_VERIFICATION_STEPS_PER_PLAN
MaxComparisons == 2         \* MAX_BASELINE_COMPARISONS

(* _classify *)
TestClass(confidence, atSite) ==
    IF atSite /\ confidence = "high" THEN "direct"
    ELSE IF confidence \in {"high", "medium"} THEN "transitive" ELSE "fallback"
LOCAL ClassRank(class) == CASE class = "direct" -> 0 [] class = "transitive" -> 1 [] class = "fallback" -> 2

(* select_targeted_tests: a file counts as what it was found as first      *)
SelectedTests(related) ==
    LET files == {related[i].file : i \in DOMAIN related}
        first(f) == CHOOSE i \in DOMAIN related :
                      related[i].file = f /\ \A j \in 1..(i - 1) : related[j].file # f
        selected == {[file |-> f, class |-> TestClass(related[first(f)].confidence, related[first(f)].atSite)] : f \in files}
        before(s, t) == \/ ClassRank(s.class) < ClassRank(t.class)
                        \/ ClassRank(s.class) = ClassRank(t.class) /\ s.file < t.file
        ordered == SetToSortSeq(selected, before)
    IN  SubSeq(ordered, 1, IF Len(ordered) > MaxTargetedTests THEN MaxTargetedTests ELSE Len(ordered))

-----------------------------------------------------------------------------
(* generate_requirements: what a step requires of the contract ...         *)
ContractRequirements(step) ==
    (IF step.strategy \in {"rename_symbol", "replace_endpoint", "replace_removed_api"}
     THEN {"obsolete_symbol_removed"} ELSE {})
      \cup (IF step.strategy \in {"rename_symbol", "replace_endpoint", "replace_removed_api", "rename_parameter",
                                  "replace_enum_value", "adapt_return_field", "adapt_response", "update_auth",
                                  "remove_argument"}
            THEN {"sdk_call_matches_contract"} ELSE {})
      \cup (IF step.strategy = "add_required_parameter" THEN {"required_argument_present"} ELSE {})
      \cup (IF step.strategy = "bump_package_version" THEN {"version_constraint_compatible"} ELSE {})

AutomaticSteps(patch) == {i \in DOMAIN patch.steps : AutoFix(patch.steps[i])}
ContractSteps(patch) == {i \in AutomaticSteps(patch) : ContractRequirements(patch.steps[i]) # {}}

(* ... and of the patch.  A requirement is <<kind>> or <<kind, step>>.     *)
Mandatory(patch) ==
    UNION {{<<k, i>> : k \in ContractRequirements(patch.steps[i])} : i \in AutomaticSteps(patch)}
      \cup (IF ContractSteps(patch) # {} THEN {<<"contract_compatibility_restored">>} ELSE {})
      \cup (IF AutomaticSteps(patch) # {} THEN {<<"syntax_valid">>, <<"unit_tests_pass">>} ELSE {})
PatchRequirements(patch) ==
    Mandatory(patch) \cup (IF AutomaticSteps(patch) = {} THEN {}
                           ELSE {<<"imports_resolve">>, <<"type_check_passes">>, <<"consumer_behavior_preserved">>})

(* verify_contract *)
ContractStatus(patch, i) ==
    CASE patch.outcomes[i] \in {"applied", "not_needed"} ->
           IF "version_constraint_compatible" \in ContractRequirements(patch.steps[i]) /\ i \notin patch.names
           THEN "failed" ELSE "passed"
      [] patch.outcomes[i] = "failed" -> "failed"
      [] patch.outcomes[i] = "skipped" -> "not_run"

ContractChecks(patch) ==
    LET each == UNION {{[requirement |-> <<k, i>>, status |-> ContractStatus(patch, i)] :
                          k \in ContractRequirements(patch.steps[i])} : i \in AutomaticSteps(patch)}
        statuses == {c.status : c \in each}
        all == IF statuses = {"passed"} THEN "passed" ELSE IF "failed" \in statuses THEN "failed" ELSE "not_run"
    IN  each \cup (IF each = {} THEN {} ELSE {[requirement |-> <<"contract_compatibility_restored">>, status |-> all]})

-----------------------------------------------------------------------------
(* build_execution_plan: the files of the patch, then its tests            *)
ExecutionPlan(patch, tests) ==
    IF AutomaticSteps(patch) = {} THEN <<>>
    ELSE LET checks == IF patch.python THEN <<"syntax_valid", "imports_resolve", "type_check_passes">> ELSE <<>>
             room == MaxSteps - Len(checks)
         IN  [i \in DOMAIN checks |-> [requirement |-> <<checks[i]>>, blocks |-> checks[i] = "syntax_valid", test |-> 0]]
               \o [i \in 1..(IF Len(tests) > room THEN room ELSE Len(tests)) |->
                     [requirement |-> <<"unit_tests_pass">>, blocks |-> tests[i].class # "fallback", test |-> i]]

(* The evidence of the steps; without a sandbox there is none.  A run that *)
(* ends neither passed nor failed leaves its status unavailable.           *)
StepEvidence(patch, tests, run) ==
    {[requirement |-> s.requirement, blocks |-> s.blocks, test |-> s.test,
      status |-> IF ~run.sandbox THEN "unavailable"
                 ELSE IF s.test = 0 THEN run.checks[s.requirement[1]] ELSE tests[s.test].patched] :
       s \in ToSet(ExecutionPlan(patch, tests))}

(* run_baseline_comparison, and the comparisons that are made              *)
Comparison(patch, test) ==
    LET pair == <<test.baseline, test.compared>>
        nothing == [patched |-> "unavailable", outcome |-> "baseline_unavailable"]
    IN  IF ~(patch.changed /\ patch.gates) THEN nothing
        ELSE [patched |-> test.compared,
              outcome |-> CASE pair = <<"failed", "passed">> -> "fail_pass"
                            [] pair = <<"passed", "passed">> -> "pass_pass"
                            [] pair = <<"failed", "failed">> -> "fail_fail"
                            [] pair = <<"passed", "failed">> -> "pass_fail"
                            [] OTHER -> "baseline_unavailable"]

Comparisons(patch, tests, run) ==
    LET strong == SelectSeq(tests, LAMBDA t : t.class # "fallback")
        n == IF Len(strong) > MaxComparisons THEN MaxComparisons ELSE Len(strong)
    IN  IF AutomaticSteps(patch) = {} \/ ~run.sandbox THEN <<>>
        ELSE [i \in 1..n |-> Comparison(patch, strong[i])]

-----------------------------------------------------------------------------
(* _combine, of all statuses of a requirement                              *)
Combined(statuses) ==
    CASE "failed" \in statuses -> "failed"
      [] "failed" \notin statuses /\ "passed" \in statuses -> "passed"
      [] {"failed", "passed"} \cap statuses = {} /\ "unavailable" \in statuses -> "unavailable"
      [] OTHER -> "not_run"

(* build_coverage, with the comparisons merged in (the last one wins, and  *)
(* one that was not made takes nothing back)                               *)
Coverage(patch, evidence, checks, comparisons) ==
    LET softened(e) == IF e.status = "failed" /\ ~e.blocks THEN "not_run" ELSE e.status
        status(r) == Combined({softened(e) : e \in {e \in evidence : e.requirement = r}}
                                \cup {c.status : c \in {c \in checks : c.requirement = r}})
        merged == FoldLeft(LAMBDA s, c : IF c.patched \in {"passed", "failed"} THEN c.patched
                                         ELSE IF s \in {"passed", "failed"} THEN s ELSE "unavailable",
                           status(<<"consumer_behavior_preserved">>), comparisons)
    IN  [r \in PatchRequirements(patch) |-> IF r = <<"consumer_behavior_preserved">> THEN merged ELSE status(r)]

(* compute_evidence_strength *)
Strength(evidence, checks, comparisons) ==
    LET compared == {c.outcome : c \in ToSet(comparisons)}
        passed == {e \in evidence : e.status = "passed"}
    IN  IF "fail_pass" \in compared \/ (checks # {} /\ \A c \in checks : c.status = "passed") THEN "strong"
        ELSE IF "pass_pass" \in compared \/ (\E e \in passed : e.test # 0) THEN "moderate"
        ELSE IF passed # {} THEN "weak" ELSE "none"

(* detect_regressions: whether there is one                                *)
Regressed(patch, evidence, checks, comparisons) ==
    \/ ~patch.gates
    \/ \E e \in evidence : e.requirement = <<"syntax_valid">> /\ e.status = "failed"
    \/ \E c \in ToSet(comparisons) : c.outcome = "pass_fail"
    \/ \E c \in checks : c.status = "failed"
    \/ patch.strays

(* decide_outcome and compute_residual_risk *)
Outcome(coverage, mandatory, strength, regressed, human) ==
    LET unresolved == {r \in mandatory : coverage[r] # "passed"}
        failed == {r \in mandatory : coverage[r] = "failed"}
    IN  IF regressed THEN "regression_detected"
        ELSE IF DOMAIN coverage = {} THEN IF human THEN "human_required" ELSE "unverified"
        ELSE IF failed # {} THEN "failed"
        ELSE IF human THEN "human_required"
        ELSE IF unresolved = {} THEN IF strength \in {"strong", "moderate"} THEN "verified" ELSE "partially_verified"
        ELSE IF \E r \in DOMAIN coverage : coverage[r] = "passed" THEN "partially_verified" ELSE "unverified"

ResidualRisk(coverage, mandatory, strength, human) ==
    IF human \/ (\E r \in mandatory : coverage[r] = "failed") THEN "high"
    ELSE IF (\E r \in mandatory : coverage[r] # "passed") \/ strength \in {"weak", "none"} THEN "medium" ELSE "low"

(* run_migration_verification of a generated patch.  When nothing is       *)
(* required nothing is looked at, and the risk is the planned one.         *)
Concluding(patch, coverage, strength, regressed, planned) ==
    LET human == AutomaticSteps(patch) # DOMAIN patch.steps
    IN  [outcome |-> Outcome(coverage, Mandatory(patch), strength, DOMAIN coverage # {} /\ regressed, human),
         risk |-> IF DOMAIN coverage = {} THEN planned ELSE ResidualRisk(coverage, Mandatory(patch), strength, human)]

Shown(patch, evidence, checks, comparisons, planned) ==
    Concluding(patch, Coverage(patch, evidence, checks, comparisons), Strength(evidence, checks, comparisons),
               Regressed(patch, evidence, checks, comparisons), planned)

Verify(patch, tests, run, planned) ==
    Shown(patch, StepEvidence(patch, tests, run), ContractChecks(patch), Comparisons(patch, tests, run), planned)

(* _presentation: the conclusion of the check on the migration's head, or  *)
(* that there is none yet                                                  *)
Presentation(outcome, approved) ==
    CASE outcome = "none" -> "in_progress"
      [] outcome = "verified" -> "success"
      [] outcome = "partially_verified" -> IF approved THEN "neutral" ELSE "action_required"
      [] outcome \in {"regression_detected", "failed"} -> "failure"
      [] outcome \in {"human_required", "unverified"} -> "neutral"

-----------------------------------------------------------------------------
(* A patch is called verified only when nothing of its plan is left to a   *)
(* person, every step that touches the contract was applied or needless,   *)
(* the gates held, its files parse, a test passed on it and none did worse *)
(* than before, and none that covers a changed site failed.                *)
VerifiedIsEarned(patch, tests, run, planned) ==
    Verify(patch, tests, run, planned).outcome = "verified" =>
      /\ run.sandbox /\ patch.python /\ patch.gates /\ ~patch.strays
      /\ AutomaticSteps(patch) = DOMAIN patch.steps
      /\ \A i \in ContractSteps(patch) : patch.outcomes[i] \in {"applied", "not_needed"}
      /\ run.checks["syntax_valid"] = "passed"
      /\ \E i \in DOMAIN tests : tests[i].patched = "passed"
      /\ \A i \in DOMAIN tests : tests[i].class # "fallback" => tests[i].patched # "failed"
      /\ \A i \in DOMAIN tests : i <= MaxComparisons /\ tests[i].class # "fallback" /\ patch.changed =>
           ~(tests[i].baseline = "passed" /\ tests[i].compared = "failed")

(* Evidence of one step or test that gets worse never makes a patch        *)
(* verified, nor lowers its risk.                                          *)
LOCAL NoBetter(now, worse) == worse = now \/ now = "passed" \/ (now \in {"unavailable", "not_run"} /\ worse = "failed")
LOCAL RiskRank(risk) == CASE risk = "low" -> 0 [] risk = "medium" -> 1 [] risk = "high" -> 2
WorseRunsVerifyNothing(patch, tests, run, planned) ==
    \A now \in {Verify(patch, tests, run, planned)} :
    LET no_better(later) == /\ later.outcome = "verified" => now.outcome = "verified"
                            /\ RiskRank(later.risk) >= RiskRank(now.risk)
    IN  /\ \A c \in DOMAIN run.checks, s \in {"passed", "failed", "unavailable"} :
             NoBetter(run.checks[c], s) => no_better(Verify(patch, tests, [run EXCEPT !.checks[c] = s], planned))
        /\ \A i \in DOMAIN tests, s \in {"passed", "failed", "unavailable"} :
             NoBetter(tests[i].patched, s) => no_better(Verify(patch, [tests EXCEPT ![i].patched = s], run, planned))
=============================================================================
