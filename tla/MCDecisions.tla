----------------------------- MODULE MCDecisions -----------------------------
(***************************************************************************)
(* The decisions that are functions of their inputs, over small inputs: a  *)
(* behaviour asks for one of them, chooses its input, and what the laws of *)
(* the modules say of the decision is an invariant.  A law binds what it   *)
(* looks at several times by \A x \in {value}, which TLC evaluates once.   *)
(***************************************************************************)
EXTENDS FindingPipeline, ReviewScope, ChangeRisk, ContextPacking,
        Governance, FeedbackAssessment, DecisionInputs, Telemetry, ExecutableChecks

VARIABLE input

Decisions ==
    {"validate", "dedup", "roles", "critic", "position", "plan", "scope", "effort", "path", "hunk",
     "change", "batch", "attribute", "escalate", "pack", "ready", "policy", "route", "watch", "assess",
     "contract", "surface", "upgrade", "radius", "migrate", "verify",
     "graph", "header", "intent", "tests", "history", "churn", "peers", "consumers", "record", "telemetry",
     "spend", "execute", "wire", "depend", "spans", "registry", "index", "context",
     "analyze", "group", "runs", "follow"}

Init == \E d \in Decisions : input = [kind |-> "asked", decision |-> d]

Asked(d) == input.kind = "asked" /\ input.decision = d

Ranges == {<<1, 1>>, <<1, 2>>, <<2, 3>>, <<3, 3>>}

-----------------------------------------------------------------------------
(* Findings of a run. *)
Validated ==
    /\ Asked("validate")
    /\ \E lines, shown, texts \in BOOLEAN,
          evidence \in SeqOf([shown : BOOLEAN, verbatim : BOOLEAN], 2) :
         input' = [kind |-> "validate",
                 answer |-> [lines |-> lines, shown |-> shown, texts |-> texts, evidence |-> evidence]]

FindingsToMerge ==
    {[file |-> 1, start |-> r[1], end |-> r[2], severity |-> s, confidence |-> "high", category |-> c] :
        r \in Ranges, s \in {"low", "high"}, c \in {"correctness", "style"}}

RunFindings ==
    /\ Asked("dedup")
    /\ \E fs \in [1..3 -> FindingsToMerge] :
         input' = [kind |-> "dedup", findings |-> [i \in 1..3 |-> fs[i] @@ [title |-> i]]]

RoleProposals ==
    {[file |-> 1, role |-> role, category |-> c, start |-> r[1], end |-> r[2], severity |-> "high",
      confidence |-> "high", quotes |-> {q}, risk |-> t = "risk", safe |-> t = "safe"] :
        role \in {"correctness", "security"}, c \in {"correctness", "security"},
        r \in {<<1, 2>>, <<2, 3>>}, q \in {1, 2}, t \in {"risk", "safe", "plain"}}

CrossRole ==
    /\ Asked("roles")
    /\ \E ps \in [1..3 -> {p \in RoleProposals : p.role = "security" \/ p.category = "correctness"}] :
         input' = [kind |-> "roles",
                 proposals |-> [i \in 1..3 |-> [(ps[i] @@ [title |-> i]) EXCEPT
                                                  !.severity = IF i = 1 THEN "low" ELSE @]]]

Criticized ==
    /\ Asked("critic")
    /\ \E s \in {"low", "high"}, c \in Confidence, category \in {"style", "security"}, static \in BOOLEAN,
          near \in BOOLEAN, relaxed \in BOOLEAN, minimum \in Confidence,
          verdict \in [decision : {"accept", "downgrade"}, severity : {"none", "low"},
                       confidence : {"none"} \cup Confidence] :
         input' = [kind |-> "critic", minimum |-> minimum, relaxed |-> relaxed, verdict |-> verdict,
                 finding |-> [file |-> 1, start |-> 1, end |-> 2, severity |-> s, confidence |-> c,
                              category |-> category, static |-> static],
                 peers |-> IF near THEN {[file |-> 1, start |-> 2, end |-> 2]} ELSE {}]

(* Two candidates: proposals that contradict each other, repeat each other *)
(* or stand alone.                                                         *)
RecordProposals ==
    {[file |-> 1, role |-> "correctness", category |-> "correctness", start |-> 1, end |-> 2, severity |-> s,
      confidence |-> "high", quotes |-> {1}, risk |-> TRUE, safe |-> FALSE] : s \in {"low", "high"}}
      \cup {[file |-> 1, role |-> "security", category |-> c, start |-> 2, end |-> 3, severity |-> "low",
             confidence |-> "medium", quotes |-> {q}, risk |-> FALSE, safe |-> q = 1] :
             c \in {"correctness", "security"}, q \in {1, 2}}
RecordCandidate(proposals, valid, answers, state, tier) ==
    [state |-> state, prepared |-> state # "skipped", effort |-> Effort(tier, AllRoles, 2), static |-> tier = "deep",
     proposals |-> [i \in DOMAIN proposals |-> [title |-> i] @@ proposals[i]], valid |-> valid, answers |-> answers,
     used |-> [role \in AllRoles |-> 1]]
OtherCandidate(p, state) ==
    RecordCandidate(IF state = "reviewed" THEN <<p>> ELSE <<>>, IF state = "reviewed" THEN {1} ELSE {}, <<"accept">>, state, "light")

RunTold ==
    /\ Asked("record")
    /\ \/ input' = [kind |-> "record", run |-> <<>>,
                     rules |-> [critics |-> TRUE, failure |-> "fail_open", minimum |-> "low", maxRetries |-> 0]]
       \/ \E ps \in [1..2 -> RecordProposals], valid \in {{1, 2}, {2}},
             answers \in [1..2 -> {"accept", "downgrade", "reject", "failed", "refused"}],
             tier \in {"light", "deep"}, p \in {p \in RecordProposals : p.severity = "low" /\ 1 \in p.quotes},
             state \in {"reviewed", "failed", "skipped"}, failure \in {"hold_for_review", "fail_open"}, critics \in BOOLEAN :
            /\ state = "reviewed" \/ p.role = "correctness"
            /\ valid = {1, 2} \/ answers[1] = "accept"
            /\ critics \/ (answers = <<"accept", "accept">> /\ failure = "fail_open")
            /\ input' = [kind |-> "record",
                    run |-> <<RecordCandidate(ps, valid, answers, "reviewed", tier), OtherCandidate(p, state)>>,
                    rules |-> [critics |-> critics, failure |-> failure, minimum |-> "medium", maxRetries |-> 2]]

(* The same runs, told later: the two candidates share a context or not,   *)
(* and developers reacted to a finding or to the review.                   *)
FeedbackOn(finding, type, signal) ==
    [finding |-> finding, event |-> [type |-> type, key |-> 1, signal |-> signal, at |-> 1]]
SomeFeedback ==
    SUBSET {FeedbackOn(<<1, 1>>, "reaction_added", "positive"), FeedbackOn(<<1, 2>>, "command", "false-positive"),
            FeedbackOn(NoFinding, "command", "fixed")}
TelemetryRead ==
    /\ Asked("telemetry")
    /\ \E ps \in [1..2 -> {p \in RecordProposals : p.severity = "low"}], valid \in {{1, 2}, {2}},
          answers \in [1..2 -> {"accept", "downgrade", "reject", "refused"}], tier \in {"light", "deep"},
          state \in {"reviewed", "failed", "skipped"}, second \in 0..2, occurred \in BOOLEAN, events \in SomeFeedback :
         /\ valid = {1, 2} \/ answers[1] = "accept"
         /\ (state = "reviewed") = (second # NoBundle)
         /\ tier = "deep" \/ events = {}
         /\ input' = [kind |-> "telemetry", bundles |-> <<1, second>>, events |-> events,
                 contexts |-> [b \in 1..2 |-> [attempted |-> occurred \/ b = 1, occurred |-> occurred /\ b = 1, tokens |-> b]],
                 run |-> <<RecordCandidate(ps, valid, answers, "reviewed", tier),
                           OtherCandidate(CHOOSE p \in RecordProposals : p.role = "correctness", state)>>,
                 rules |-> [critics |-> TRUE, failure |-> "fail_open", minimum |-> IF tier = "deep" THEN "low" ELSE "medium", maxRetries |-> 2]]

-----------------------------------------------------------------------------
(* Publication plans. *)
Diffs == {[status |-> s, patch |-> p, hunks |-> <<h, k>>] :
             s \in {"modified", "removed"}, p \in BOOLEAN,
             h \in {{1}, {1, 2}, {2, 3}}, k \in {{}, {4}, {4, 5}}}

Placed ==
    /\ Asked("position")
    /\ \E d \in Diffs, s \in 1..5, e \in 1..5 :
         s <= e /\ input' = [kind |-> "position", finding |-> [start |-> s, end |-> e], diff |-> d]

FindingsToPlan ==
    {[file |-> 1, start |-> n, end |-> n, severity |-> s, confidence |-> c, category |-> "correctness"] :
        n \in {1, 4}, s \in {"low", "high"}, c \in {"medium", "high"}}

Planned ==
    /\ Asked("plan")
    /\ \E n \in 0..3 : \E fs \in [1..n -> FindingsToPlan], reported \in SUBSET {1},
          d \in {[status |-> "modified", patch |-> p, hunks |-> <<{1, 2}>>] : p \in BOOLEAN},
          inline \in 0..1, summary \in 0..1, clean \in BOOLEAN :
         input' = [kind |-> "plan", reported |-> reported, diffs |-> <<d>>,
                 findings |-> {fs[i] @@ [id |-> i] : i \in 1..n},
                 config |-> [minSeverity |-> "medium", maxInline |-> inline, maxSummary |-> summary,
                             postClean |-> clean]]

-----------------------------------------------------------------------------
(* What a run reviews. *)
Symbols == {[file |-> 1, start |-> s, end |-> e] : s \in {1, 2, 4}, e \in {3, 5, 6}}

Scoped ==
    /\ Asked("scope")
    /\ \E lines \in SUBSET (1..7), symbols \in {x \in SUBSET Symbols : Cardinality(x) <= 2},
          span \in {1, 3}, most \in {1, 2} :
         input' = [kind |-> "scope", added |-> {<<1, l>> : l \in lines}, symbols |-> symbols,
                 span |-> span, most |-> most, static |-> {[file |-> 1, start |-> 2, end |-> 2, severity |-> "high", category |-> "style"]}]

Evidence == [severity : {"low", "high"}, category : {"style", "security", "concurrency"}]
CandidateFacts ==
    [static : {{}} \cup {{e} : e \in Evidence}, sensitive : BOOLEAN, large : BOOLEAN, many : BOOLEAN,
     cross : SUBSET {"pull_request", "repository"}]

Effortful ==
    /\ Asked("effort")
    /\ \E c \in CandidateFacts, e \in Evidence,
          add \in {"static", "sensitive", "large", "many", "cross"} :
         input' = [kind |-> "effort", facts |-> c,
                 more |-> CASE add = "static" -> [c EXCEPT !.static = @ \cup {e}]
                            [] add = "cross"  -> [c EXCEPT !.cross = @ \cup {"pull_request"}]
                            [] OTHER          -> [c EXCEPT ![add] = TRUE]]

-----------------------------------------------------------------------------
(* The cost-aware strategy. *)
Traits ==
    {"vendor", "lockfile", "generated", "doc", "manifest", "ci", "migration", "schema",
     "config_name", "config_suffix", "test"}

Paths ==
    /\ Asked("path")
    /\ \E traits \in SUBSET Traits : input' = [kind |-> "path", traits |-> traits]

HunkLines ==
    {<<"added", t>> : t \in {"code", "comment", "blank", "open", "close", "close_code"}}
      \cup {<<"deleted", t>> : t \in {"code", "open", "close"}} \cup {<<"context", "code">>}

Hunks ==
    /\ Asked("hunk")
    /\ \E n \in 0..4 : \E ls \in [1..n -> HunkLines] :
         input' = [kind |-> "hunk", hunk |-> [i \in 1..n |-> [type |-> ls[i][1], text |-> ls[i][2]]]]

RiskPolicy ==
    [exclude |-> TRUE, largeLines |-> 6, largeFiles |-> 3, heavyDeleted |-> 4, modules |-> 3,
     tinyLines |-> 1, tinyTestLines |-> 2, tinyFiles |-> 1]

PlainFile ==
    [path |-> 1, classes |-> {"code"}, added |-> 1, deleted |-> 0, semantic |-> 1, style |-> TRUE,
     hunks |-> TRUE, security |-> FALSE, public |-> FALSE, module |-> 1]

ChangedFiles ==
    {[PlainFile EXCEPT !.classes = c, !.added = n[1], !.deleted = n[2], !.semantic = n[3],
                       !.hunks = n[4], !.security = t = "security", !.public = t = "public"] :
        c \in {{"code"}, {"test"}, {"docs"}, {"code", "schema"}, {"code", "migration"}, {"ci"}, {"generated"}},
        n \in {<<1, 0, 1, TRUE>>, <<0, 4, 4, TRUE>>, <<3, 0, 0, TRUE>>, <<0, 0, 0, FALSE>>},
        t \in {"plain", "security", "public"}}

OtherFiles ==
    {[f EXCEPT !.path = 2, !.module = 2] :
        f \in {f \in ChangedFiles : f.added = 1 /\ ~f.public
                                    /\ f.classes \in {{"code"}, {"docs"}, {"ci"}, {"code", "migration"}}}}

Changed ==
    /\ Asked("change")
    /\ \E f \in ChangedFiles, o \in {{}} \cup {{o} : o \in OtherFiles}, n \in OtherFiles, static \in BOOLEAN :
         input' = [kind |-> "change", files |-> {f} \cup o, static |-> static,
                 more |-> [n EXCEPT !.path = 3, !.module = 3]]

Batched ==
    /\ Asked("batch")
    /\ \E n \in 0..4 : \E sizes \in [1..n -> {1, 2, 5}], most \in {3, 4, 6} :
         input' = [kind |-> "batch", sizes |-> sizes, most |-> most]

Target(file, r, shown, static, risky) ==
    [file |-> file, start |-> r[1], end |-> r[2], shown |-> shown, static |-> static, risky |-> risky]

Attributed ==
    /\ Asked("attribute")
    /\ \E n \in 1..3 : \E ts \in [1..n -> {1, 2} \X Ranges \X {{}, {3}}], r \in Ranges, file \in {1, 3} :
         input' = [kind |-> "attribute", finding |-> [file |-> file, start |-> r[1], end |-> r[2]],
                 targets |-> [i \in 1..n |-> Target(ts[i][1], ts[i][2], ts[i][3], FALSE, FALSE)]]

Escalating ==
    /\ Asked("escalate")
    /\ \E f \in {f \in ChangedFiles : f.semantic > 0}, o \in {{}} \cup {{o} : o \in OtherFiles}, static \in BOOLEAN, used \in {0, 2},
          n \in 1..2 : \E ts \in [1..n -> {1, 2} \X {"static", "risky", "plain"}] :
         input' = [kind |-> "escalate", files |-> {f} \cup o, static |-> static, used |-> used,
                 targets |-> [i \in 1..n |-> Target(ts[i][1], <<1, 1>>, {}, ts[i][2] = "static", ts[i][2] = "risky")]]

-----------------------------------------------------------------------------
(* Context. *)
Pieces ==
    {[file |-> 1, kind |-> IF r = "target" THEN "target" ELSE IF r = "parent" THEN "parent" ELSE "neighbour",
      relationship |-> r, distance |-> IF r = "transitive_caller" THEN 2 ELSE 1, changed |-> c,
      start |-> l[1], end |-> l[2], symbol |-> 1, anchor |-> l[1]] :
        r \in {"caller", "tests", "parent", "transitive_caller"}, c \in BOOLEAN,
        l \in {<<1, 2>>, <<2, 4>>, <<4, 4>>}}

TargetPieces ==
    {[file |-> 1, kind |-> "target", relationship |-> "target", distance |-> 0, changed |-> TRUE,
      start |-> l[1], end |-> l[2], symbol |-> 1, anchor |-> l[2]] : l \in {<<1, 2>>, <<1, 4>>}}

Weights == {<<1, 1, 1, 1>>, <<1, 3, 1, 2>>}

Packed ==
    /\ Asked("pack")
    /\ \E t \in TargetPieces, ps \in [1..2 -> Pieces], weights \in Weights,
          lines \in {2, 6}, tokens \in {3, 7}, expansion \in {0, 2}, per \in {1, 2} :
         input' = [kind |-> "pack", pieces |-> <<t>> \o ps, weights |-> weights,
                 budget |-> [lines |-> lines, tokens |-> tokens, itemLines |-> 2, itemTokens |-> 4,
                             targetLines |-> lines \div 2, targetTokens |-> tokens \div 2,
                             expansionLines |-> expansion, expansionTokens |-> expansion,
                             perRelationship |-> per]]

-----------------------------------------------------------------------------
(* Readiness, routing, watching. *)
Fixes == {<<>>, <<"fixed">>, <<"inconclusive">>, <<"inconclusive", "still_present">>,
          <<"fixed", "pending">>, <<"stale">>, <<"error", "verifying">>}

HeadFindings == [closed : BOOLEAN, attempts : Fixes, severity : {"low", "medium", "high"},
                 category : {"style", "security"}]

Rules == [block : {None, "medium", "high"}, human : {None, "low"},
          providers : {{None}, {"a"}, {"a", "b"}}, personal : {None, "no"}]

Evaluated ==
    /\ Asked("ready")
    /\ \E f \in HeadFindings, g \in {g \in HeadFindings : ~g.closed /\ g.attempts \in {<<>>, <<"inconclusive">>}},
          status \in {"succeeded", "failed", None},
          rule \in {r \in Rules : r.providers = {None} /\ r.personal = None},
          verification \in {"unmet", "met"} :
         input' = [kind |-> "ready", status |-> status, scopes |-> <<rule>>,
                    verification |-> verification, finding |-> f, other |-> g]

Merged ==
    /\ Asked("policy")
    /\ \E rs \in [1..2 -> Rules] : input' = [kind |-> "policy", scopes |-> rs]

Routed ==
    /\ Asked("route")
    /\ \E credentials \in SUBSET ToSet(SupportedProviders),
          allowed \in {{NoProvider}, {"gemini"}, {"gemini", "openai"}},
          preferred \in ToSet(SupportedProviders), named \in [1..3 -> {NoProvider, "anthropic", "openai"}],
          critics, cheap \in BOOLEAN :
         input' = [kind |-> "route", credentials |-> credentials, allowed |-> allowed, cheap |-> cheap,
                 settings |-> [preferred |-> preferred, critics |-> critics, cheap |-> named[1],
                               fallback |-> named[2], critic |-> named[3]]]

Seen == {[kind |-> "same"]} \cup [kind : {"version"}, version : 0..3]
SeenContracts == {[kind |-> "same"]} \cup [kind : {"contract"}, contract : 0..2, keep : BOOLEAN]

Watched ==
    /\ Asked("watch")
    /\ \E seen \in SeqOf(Seen, 5) \cup SeqOf(SeenContracts, 4) :
         input' = [kind |-> "watch", seen |-> seen]

-----------------------------------------------------------------------------
(* Upstream changes. *)
ContractChanged ==
    /\ Asked("contract")
    /\ \E change \in Changes : input' = [kind |-> "contract", change |-> change]

SurfaceChanged ==
    /\ Asked("surface")
    /\ \E old, new \in SomeSurfaces, hints \in SomeRenames :
         input' = [kind |-> "surface", old |-> old, new |-> new, hints |-> hints]

Upgraded ==
    /\ Asked("upgrade")
    /\ \E old, new \in Versions : input' = [kind |-> "upgrade", old |-> old, new |-> new]

CallPairs == {c \in (1..4) \X (1..4) : c[1] # c[2] /\ (c[1] < 3 \/ c[2] < 3)}

Radiated ==
    /\ Asked("radius")
    /\ \E calls \in UNION {kSubset(k, CallPairs) : k \in 0..4}, direct \in UNION {[users -> {"low", "high"}] : users \in SUBSET (1..2)},
          potential \in {{}, {2}, {3}}, most \in {2, 9} :
         input' = [kind |-> "radius", calls |-> calls, direct |-> direct, potential |-> potential, most |-> most]

Migrated ==
    /\ Asked("migrate")
    /\ \E upgrade \in Upgrades : input' = [kind |-> "migrate", upgrade |-> upgrade]

Verified ==
    /\ Asked("verify")
    /\ \E patch \in Patches, tests \in Tested, run \in Runs :
         input' = [kind |-> "verify", patch |-> patch, tests |-> tests, run |-> run]

-----------------------------------------------------------------------------
(* What is read around a change. *)
Graphed ==
    /\ Asked("graph")
    /\ \E graph \in SomeGraphs, picks \in Picks :
         input' = [kind |-> "graph", graph |-> graph, candidates |-> CandidatesOf(graph, picks)]

HeaderChanged ==
    /\ Asked("header")
    /\ \E graph \in HeaderChanges, picks \in {<<1>>, <<1, 2>>} :
         input' = [kind |-> "header", graph |-> graph, candidates |-> CandidatesOf(graph, picks)]

Intended ==
    /\ Asked("intent")
    /\ \E graph \in IntentGraphs, picks \in Picks, said \in PullRequestTexts :
         input' = [kind |-> "intent", graph |-> graph, candidates |-> CandidatesOf(graph, picks), said |-> said]

TestsTouched ==
    /\ Asked("tests")
    /\ \E graph \in TestGraphs, picks \in Picks, diff \in TestDiffs :
         input' = [kind |-> "tests", graph |-> graph, candidates |-> CandidatesOf(graph, picks), diff |-> diff]

HistoryRead ==
    /\ Asked("history")
    /\ \E commands \in PastSaid, asOf \in 1..2, report \in HistoryReports, complaint \in 1..2 :
         input' = [kind |-> "history", commands |-> commands, asOf |-> asOf, report |-> report, complaint |-> complaint]

Churned ==
    /\ Asked("churn")
    /\ \E generations \in Lineages, commit \in {3, 4}, now \in SurfaceLists, verified \in BOOLEAN :
         input' = [kind |-> "churn", generations |-> generations, commit |-> commit, now |-> now, verified |-> verified]

Concurrent ==
    /\ Asked("peers")
    /\ \E pullRequests \in OpenPullRequests : input' = [kind |-> "peers", pullRequests |-> pullRequests]

Consumed ==
    /\ Asked("consumers")
    /\ \E relations \in RelationLists, repositories \in RelatedRepositories, deltas \in ContractsChanged :
         input' = [kind |-> "consumers", relations |-> relations, repositories |-> repositories, deltas |-> deltas]

-----------------------------------------------------------------------------
(* Tests that are run. *)
SpendEvents == {[type |-> "reserve", seconds |-> 0]} \cup [type : {"record"}, seconds : 1..3]

Spent ==
    /\ Asked("spend")
    /\ \E events \in SeqOf(SpendEvents, 5), seconds \in {2, 4} :
         input' = [kind |-> "spend", events |-> events, most |-> [count |-> 3, seconds |-> seconds]]

PytestRuns == [exit : 0..2, timedOut : BOOLEAN, seconds : {1}]
StagingIds == {[plain |-> x[1], below |-> x[2], directory |-> x[3]] : x \in {<<TRUE, TRUE, TRUE>>, <<FALSE, TRUE, TRUE>>, <<TRUE, FALSE, TRUE>>, <<TRUE, TRUE, FALSE>>}}
Entry(type, content) == [type |-> type, content |-> content]
Trees ==
    {<<"d">> :> Entry("dir", "")} \cup {(<<"d">> :> Entry(t, c)) : t \in {"file", "symlink"}, c \in {"x", "y"}}
      \cup {(<<"d">> :> Entry("dir", "")) @@ (<<"d", "e">> :> Entry(t, c)) : t \in {"file", "symlink"}, c \in {"x", "y"}}
      \cup {(<<"d">> :> Entry("dir", "")) @@ (<<"d", "e">> :> Entry("dir", "")), <<>>}
SomeTree == <<"d">> :> Entry("file", "x")

TestExecuted ==
    /\ Asked("execute")
    /\ \E collect, run \in PytestRuns, id \in StagingIds, sandbox, available \in BOOLEAN, staged \in {SomeTree, <<"d">> :> Entry("file", "y")},
          known \in {{}, {5, 6}}, count \in {0, 2}, version \in {1, 2}, answer \in {"own", "none", "other"} :
         /\ (available /\ version = 1 /\ sandbox /\ known # {}) \/ (collect.exit = 0 /\ answer = "own")
         /\ input' = [kind |-> "execute", available |-> available, known |-> known, answer |-> answer,
                    spent |-> [count |-> count, seconds |-> 0],
                    request |-> [RequestOf(1, 1, 1, 1, 5, 1, Digest(SomeTree)) EXCEPT !.version = version],
                    world |-> [id |-> id, sandbox |-> sandbox, staged |-> staged, collect |-> collect, run |-> run]]

OnTheWire ==
    /\ Asked("wire")
    /\ \E tree, other \in Trees, field \in DOMAIN ResultFields, value \in WireValue :
         /\ tree = SomeTree \/ (field = "outcome" /\ value = "text")
         /\ input' = [kind |-> "wire", tree |-> tree, other |-> other, field |-> field, value |-> value]

-----------------------------------------------------------------------------
(* Feedback. *)
Happened(type, key, signal, at) == [type |-> type, key |-> key, signal |-> signal, at |-> at]

RecordedEvents ==
    {Happened("reaction_added", 1, "negative", 0), Happened("reaction_added", 2, "positive", 0)}
      \cup {Happened("reaction_removed", 1, "negative", 2)}
      \cup {Happened("command", 5, c, 0) : c \in {"useful", "false-positive", "fixed"}}
      \cup {Happened(t, 0, "", n) : t \in {"thread_resolved", "thread_reopened"}, n \in {1, 3}}
      \cup {Happened(t, 0, "", n) : t \in Lifecycle, n \in {1, 3}}
      \cup {Happened("reply", 1, "developer_engaged", 0)}

Complaints ==
    {Happened("reaction_added", 3, "negative", 0), Happened("command", 6, "false-positive", 0)}

Assessed ==
    /\ Asked("assess")
    /\ \E events \in UNION {kSubset(k, RecordedEvents) : k \in 0..4} :
         input' = [kind |-> "assess", events |-> events]

-----------------------------------------------------------------------------
(* What a repository depends on. *)
Depends ==
    /\ Asked("depend")
    /\ \E statements \in SeqOf(Statements, 2), top \in {"app", "sdk"}, entries \in ManifestEntries,
          rest \in SUBSET {ScriptSource("app"), SpecFile(6), SpecFile(7)}, generated \in BOOLEAN :
         input' = [kind |-> "depend",
                 files |-> {Listing(1, "manifest", "pypi", entries), Listing(2, "lockfile", "npm", LockedLib),
                            Listing(3, "lockfile", "pypi", LockedLib), Source(4, "python", top, statements, generated)} \cup rest]

Bracketed ==
    /\ Asked("spans")
    /\ \E lines \in SeqOf(CodeLines, 4) :
         /\ \A n \in DOMAIN lines : lines[n].name # NoName /\ lines[n].braces = <<>> /\ ~lines[n].arrow =>
               n < Len(lines) /\ lines[n + 1] = [name |-> NoName, arrow |-> FALSE, braces |-> <<"open">>]
         /\ input' = [kind |-> "spans", lines |-> lines]

Inventoried ==
    /\ Asked("registry")
    /\ \E inventories \in SeqOf(Inventories, 3) :
         inventories # <<>> /\ input' = [kind |-> "registry", inventories |-> inventories]

(* A repository to index, with what the parse cache holds. *)
Indexed ==
    /\ Asked("index")
    /\ \/ \E snapshot \in PySnapshots \cup CSnapshots \cup CppSnapshots \cup NamedSnapshots :
             input' = [kind |-> "index", snapshot |-> snapshot, cache |-> "cold"]
       \/ \E snapshot \in CachedSnapshots, cache \in CacheStates :
             input' = [kind |-> "index", snapshot |-> snapshot, cache |-> cache]

(* Context for a function, or a line, among functions that call each other. *)
Surrounded ==
    /\ Asked("context")
    /\ \E snapshot \in CallingSnapshots : input' = [kind |-> "context", snapshot |-> snapshot]

(* Static analysis of a commit, its findings, and requests for its runs.   *)
Inspected ==
    /\ Asked("analyze")
    /\ \E request \in AnalysisRequests, config \in AnalysisConfigs, a \in DOMAIN GoodTools :
         \E tool, again \in ToolStates(GoodTools[a]) :
            input' = [kind |-> "analyze", request |-> request, config |-> config,
                    tools |-> [GoodTools EXCEPT ![a] = tool], again |-> [GoodTools EXCEPT ![a] = again]]

FindingsGrouped ==
    /\ Asked("group")
    /\ \E a, b, c \in EnrichedFindings : input' = [kind |-> "group", findings |-> Listed({a, b, c})]

RunsRequested ==
    /\ Asked("runs")
    /\ \E requests \in RunRequests, schedule \in RunSchedules :
         input' = [kind |-> "runs", requests |-> requests, schedule |-> schedule]

(* A push to a pull request that was reviewed before. *)
Followed ==
    /\ Asked("follow")
    /\ \E cs \in FollowUps : input' = [kind |-> "follow", changes |-> cs]

-----------------------------------------------------------------------------
Next ==
    \/ Validated \/ RunFindings \/ RunTold \/ TelemetryRead \/ CrossRole \/ Criticized \/ Placed \/ Planned
    \/ Scoped \/ Effortful \/ Paths \/ Hunks \/ Changed \/ Batched \/ Attributed \/ Escalating
    \/ Packed \/ Evaluated \/ Merged \/ Routed \/ Watched \/ Assessed
    \/ Graphed \/ HeaderChanged \/ Intended \/ TestsTouched
    \/ Spent \/ TestExecuted \/ OnTheWire \/ Depends \/ Bracketed \/ Inventoried \/ Indexed \/ Surrounded
    \/ Inspected \/ FindingsGrouped \/ RunsRequested \/ Followed
    \/ HistoryRead \/ Churned \/ Concurrent \/ Consumed
    \/ ContractChanged \/ SurfaceChanged \/ Upgraded \/ Radiated \/ Migrated \/ Verified

Spec == Init /\ [][Next]_input

(* NothingIsLost: whatever is left out on the way from a diff to a review  *)
(* is represented by something that is not.  Changed lines by a candidate, *)
(* a duplicate by the finding it duplicates, a proposal by one that says   *)
(* the same, a finding by its place in the plan, a piece of context by one *)
(* no worse, a target by its batch, an upstream change by its report, code *)
(* it breaks by a consumer that is affected, what such a call did by the   *)
(* call it is migrated to, a function called by the row of its symbol,     *)
(* what analyzers found by a finding of the run, and what a follow-up      *)
(* review does not look at by the review it follows.                       *)
NothingIsLost ==
    CASE input.kind = "dedup" -> DuplicatesAreRepresented(input.findings)
      [] input.kind = "roles" ->
           \A rejected \in SUBSET DOMAIN input.proposals : ProposalsAreRepresented(input.proposals, rejected)
      [] input.kind = "record" -> RunIsToldInFull(input.run, input.rules)
      [] input.kind = "telemetry" ->
           TelemetryAddsUp(input.run, input.rules, input.bundles, input.contexts, input.events)
      [] input.kind = "plan" ->
           PlanLosesNothing(input.findings, input.reported, input.diffs, input.config)
      [] input.kind = "scope" ->
           /\ AddedLinesAreCovered(input.added, input.symbols, input.static, input.span, input.most)
           /\ CandidatesAreShown(input.added, input.symbols, input.static, input.span, input.most)
      [] input.kind = "path" -> UnreviewedOnlyIfPlain(input.traits)
      [] input.kind = "hunk" -> CommentsHideNoCode(input.hunk)
      [] input.kind = "batch" -> BatchesLoseNothing(input.sizes, 1, input.most)
      [] input.kind = "attribute" -> FindingFindsItsTarget(input.finding, input.targets)
      [] input.kind = "pack" -> PiecesAreRepresented(input.pieces, 1, "correctness")
      [] input.kind = "watch" -> ChangesAreTold(input.seen, 2)
      [] input.kind = "contract" -> BrokenRequestsAreFound(input.change.from, input.change.to, input.change.hints)
      [] input.kind = "surface" -> BrokenCallsAreFound(input.old, input.new, input.hints)
      [] input.kind = "graph" ->
           /\ UnitsPartition(input.graph, input.candidates, SmallReports)
           /\ CompanionsAreTold(input.graph, input.candidates, SmallReports)
      [] input.kind = "tests" -> TestsAreTold(input.graph, input.candidates, input.diff, SmallReports)
      [] input.kind = "history" ->
           HistoryIsTold(PastFindings, input.commands, input.asOf, input.report,
                         Told(2, "false-positive", input.complaint), SmallHistory)
      [] input.kind = "churn" ->
           ChurnIsTold(input.generations, input.commit, input.now, input.verified,
                       <<Touched(2, 3), Touched(1, 1), Touched(1, NoId), Touched(1, 2)>>, SmallHistory)
      [] input.kind = "peers" -> PeersAreTold(input.pullRequests, SmallHistory)
      [] input.kind = "consumers" ->
           ConsumersAreTold(ContractKeys, input.relations, input.repositories, 1, input.deltas, SmallHistory)
      [] input.kind = "header" ->
           BrokenCallersAreNamed(input.graph, input.candidates, {1}, PythonCalls, SmallReports)
      [] input.kind = "migrate" ->
           MigratedCallsWork(input.upgrade.old, input.upgrade.new, input.upgrade.hints, input.upgrade.sources)
      [] input.kind = "depend" -> DependenciesAreTold(input.files, {Sdk}, {"Client"})
      [] input.kind = "spans" -> SpansNest(input.lines)
      [] input.kind = "registry" -> RegistryFollows(input.inventories)
      [] input.kind = "group" -> GroupsLoseNothing(input.findings)
      [] input.kind = "follow" ->
           \A w \in {FollowUp(input.changes)} :
               /\ \A results \in {MatchSymbols(w.previous, w.current, w.git.changes)} :
                    /\ SymbolsAreFollowed(w.previous, w.current, w.git.changes, GitRecords(input.changes), results)
                    /\ FindingsAreFollowed(w, Prepare(w), results)
               /\ \A x \in {w} \cup LessProven(w) : SkippedIsKnown(x, Prepare(x))
      [] input.kind = "analyze" -> AnalysisIsTold(Analysis(input.request, AnalyzedIndex, input.config, input.tools))
      [] input.kind = "context" ->
           \A index \in {Index(<<>>, Inventory(input.snapshot))} :
             \A target \in ContextTargets(index), wants \in {EveryKind, {"caller"}} : \A roots \in RootsOf(index, target, wants, 5) :
                 /\ CallsAreNear(index, target, wants, roots)
                 /\ AdaptiveIsDepthTwo(index, target, wants, "style", roots, TouchedLines(index))
      [] input.kind = "index" ->
           \A inventory \in {Inventory(input.snapshot)} : \A cache \in {CacheOf(input.cache, inventory)} :
             \A files \in {ParsedFiles(cache, inventory)}, index \in {Index(cache, inventory)} :
               /\ CallRowsAreSymbols(index, AllCalls(files), {<<"lonely">>})
               /\ PythonSymbolsHaveParents(index)
               /\ ExternsFindTheirDefinition(files)
               /\ WarmIsCold(cache, inventory)
               /\ \A e \in ToSet(inventory) : InnermostIsInside(index, e.path, 1..5)
      [] OTHER -> TRUE

(* WorseEvidenceNeverHelps: a finding that is graver or surer is never     *)
(* shown less; one that is graver, less sure or less corroborated is not   *)
(* spared the critic, unless it is too unsure to be published, and one the *)
(* critic is spared for that could only have been published by a verdict   *)
(* that raised its confidence.  More evidence never makes a candidate's or *)
(* a change's review lighter, a pull request readier to merge, or          *)
(* developers look more content with a finding; an upstream change that    *)
(* breaks a client is never called harmless; a migration is verified by    *)
(* what its runs show; an analysis that did not see everything is not one  *)
(* to build on; and the less is known of the previous review, the more is  *)
(* reviewed.                                                               *)
WorseEvidenceNeverHelps ==
    CASE input.kind = "validate" -> ValidIsQuoted(input.answer)
      [] input.kind = "critic" ->
           /\ \A s \in {input.finding.severity, "critical"}, c \in Confidence, category \in {input.finding.category, "security"},
                static \in {FALSE, input.finding.static} :
                ConfidenceRank(c) <= ConfidenceRank(input.finding.confidence) =>
                  CriticIsMonotone(input.finding, [input.finding EXCEPT !.severity = s, !.confidence = c,
                                                                        !.category = category, !.static = static],
                                   input.peers, input.minimum, input.relaxed)
           /\ SkippedCouldNotPublish(input.finding, input.verdict, input.minimum)
      [] input.kind = "plan" ->
           \A f \in input.findings, s \in Severity, c \in Confidence :
             LET worse == [f EXCEPT !.severity = s, !.confidence = c] IN
             SeverityRank(f.severity) <= SeverityRank(s) /\ ConfidenceRank(f.confidence) <= ConfidenceRank(c)
               => WorseIsShownNoLess(f, worse, input.findings \ {f}, input.diffs, input.config)
      [] input.kind = "effort" ->
           /\ \A grew, risky \in BOOLEAN, retries \in {0, 2} :
                MoreSignalsMoreEffort(input.facts, input.more, grew, risky, retries)
           /\ MoreRiskMoreContext(input.facts, input.more, 4000, 2, [tokens |-> 600, further |-> 200])
      [] input.kind = "change" ->
           /\ MoreChangeMoreRisk(input.files, input.more, input.static, RiskPolicy)
           /\ \A most \in {1, 2, 4} : BudgetFollowsRisk(input.files, input.static, most, RiskPolicy)
      [] input.kind = "ready" ->
           LET run == [commit |-> 1, status |-> input.status, findings |-> {input.finding}] IN
           /\ \A head \in 1..2 : ReadyIsEarned(head, run, input.scopes, input.verification)
           /\ MoreFindingsNoReadier(1, run, [run EXCEPT !.findings = @ \cup {input.other}], input.scopes,
                                    [block |-> "low", human |-> None, providers |-> {None}, personal |-> None],
                                    input.verification)
           /\ MoreFindingsNoReadier(1, run, [run EXCEPT !.findings = {[input.finding EXCEPT !.severity = "critical"]}],
                                    input.scopes, input.scopes[1], input.verification)
      [] input.kind = "contract" -> NonBreakingServesClients(input.change.from, input.change.to, input.change.hints)
      [] input.kind = "surface" -> NonBreakingKeepsCalls(input.old, input.new, input.hints)
      [] input.kind = "upgrade" ->
           /\ UpgradesArePlanned(input.old, input.new)
           /\ \A newer \in Versions : HarmlessUpgradesCompose(input.old, input.new, newer)
      [] input.kind = "intent" ->
           IntentIsBacked(GraphWords, input.said.title, input.said.body, input.graph, input.candidates, SmallReports)
      [] input.kind = "history" ->
           LearningsAreRepeated(PastFindings, input.commands, 1, input.asOf, SmallHistory)
      [] input.kind = "execute" ->
           LET most == [count |-> 2, seconds |-> 90]
               own == RunVerification(input.request, input.world)
               other == RunVerification([input.request EXCEPT !.id[2] = 2, !.commit = 2],
                                        [input.world EXCEPT !.staged = SomeTree, !.collect.exit = 0, !.run.exit = 1])
               delivered == IF input.answer = "own" THEN own ELSE IF input.answer = "other" THEN other ELSE NoAnswer
           IN  /\ ToldIsWhatRan(input.request, input.available, input.known, input.spent, most, input.world, delivered)
               /\ LocalIsAsRemote(input.request, input.known, input.spent, most, input.world)
      [] input.kind = "verify" ->
           /\ VerifiedIsEarned(input.patch, input.tests, input.run, "low")
           /\ WorseRunsVerifyNothing(input.patch, input.tests, input.run, "low")
      [] input.kind = "analyze" ->
           SucceededRunsAgree(input.request, AnalyzedIndex, input.config, input.tools, input.again, 1)
      [] input.kind = "follow" ->
           \A w \in {FollowUp(input.changes)} : \A worse \in LessProven(w) : LessProofMoreReview(Prepare(w), Prepare(worse))
      [] input.kind = "policy" -> ScopesOnlyTighten(input.scopes)
      [] input.kind = "assess" ->
           /\ \A complaint \in Complaints : ComplaintsNeverHelp(input.events, complaint)
           /\ \A hint \in {"positive", "negative"} :
                TakenBackCountsForNothing(input.events, Happened("reaction_added", 4, hint, 0),
                                          Happened("reaction_removed", 4, hint, 5))
      [] OTHER -> TRUE

(* LimitsHold: what a decision hands out stays within what it was given:   *)
(* comments on lines the diff shows, context within its lines, and within  *)
(* its tokens but for the last piece, which is cut once and may pass them  *)
(* by what its lines differ in length or by one long line; a second look   *)
(* within the calls its verification can spare, code with the providers    *)
(* the policy allows, never two proposals of a candidate that contradict   *)
(* each other, a blast radius of what calls the changed code, within its   *)
(* depth, a call resolved only where its name is unique or imported, and   *)
(* one analysis of a commit for all who ask for it.                        *)
LimitsHold ==
    CASE input.kind = "position" -> PositionIsShown(input.finding, input.diff)
      [] input.kind = "roles" ->
           \A rejected \in SUBSET DOMAIN input.proposals : NoContradictionSurvives(input.proposals, rejected)
      [] input.kind = "record" -> AcceptedIsVerified(input.run, input.rules)
      [] input.kind = "pack" -> BudgetIsKept(input.pieces, input.weights, input.budget)
      [] input.kind = "escalate" ->
           EscalationsAreAffordable(Classification(input.files, input.static, RiskPolicy),
                                    input.targets, input.used)
      [] input.kind = "spend" -> BudgetIsBounded(input.events, input.most, 3)
      [] input.kind = "wire" ->
           \A exit \in {0, 1} : ForgeriesAreRefused(input.tree, input.other, input.field, input.value, [exit |-> exit])
      [] input.kind = "route" ->
           OnlyAllowedProviders(input.credentials, input.allowed, input.settings, input.cheap)
      [] input.kind = "context" ->
           \A index \in {Index(<<>>, Inventory(input.snapshot))} :
             \A target \in ContextTargets(index), config \in ContextConfigs : \A roots \in RootsOf(index, target, config.wants, 1) :
                 BundleShowsEachOnce(Bundle(index, target, config, "correctness", roots, TouchedLines(index), FileWeights), FileWeights)
      [] input.kind = "index" ->
           \A inventory \in {Inventory(input.snapshot)} :
             \A files \in {ParsedFiles(CacheOf(input.cache, inventory), inventory)} :
               /\ ResolvedAcrossFilesIsEarned(files)
               /\ \A more \in FurtherFiles(input.snapshot) : MoreDefinitionsNeverRedirect(files, more)
               /\ OrderDecidesNothing(files)
               /\ TestsAreOfSources(inventory, AllImports(files))
      [] input.kind = "runs" -> RunsAreShared(input.requests, input.schedule)
      [] input.kind = "radius" ->
           RadiusIsExact(input.direct, input.potential, input.calls, 2, input.most)
      [] OTHER -> TRUE
=============================================================================
