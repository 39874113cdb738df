------------------------------ MODULE Telemetry ------------------------------
(***************************************************************************)
(* What a review run does with one candidate after another, what its row   *)
(* and the rows below it tell afterwards (the context a candidate is given,*)
(* what grouping, critics and confidence make of its proposals, the counts *)
(* of the run), and what is told of finished runs (patchfrog.telemetry):   *)
(* the fate of every proposal, the candidates, their context and the       *)
(* feedback on the findings, counted by role, tier, context and feedback.  *)
(*                                                                         *)
(* A candidate: its state (reviewed, failed or skipped), its effort,       *)
(* whether a static finding is attached, its proposals, which of them are  *)
(* valid, the answer a critic of each would give, and what its calls used. *)
(* A proposal is <<k, i>>, the i-th of the k-th candidate.  bundles gives  *)
(* each candidate the context it was shown, NoBundle if it had none; two   *)
(* candidates may share one.  A feedback event is about a finding or, its  *)
(* finding being NoFinding, about the review.                              *)
(***************************************************************************)
EXTENDS FindingPipeline, ReviewScope, FeedbackAssessment, FiniteSetsExt, Functions

NoBundle == 0
NoFinding == <<>>

CountIf(S, Test(_)) == Cardinality({x \in S : Test(x)})

NoReason == "none"

(* f itself, evaluated once wherever it is used. *)
Tabled(f) == f @@ <<>>

-----------------------------------------------------------------------------
(* _prepare_candidate *)
RiskTier == {"no_ai", "tiny", "normal", "elevated", "high_risk"}
RiskRank(t) == CASE t = "no_ai" -> 0 [] t = "tiny" -> 1 [] t = "normal" -> 2 [] t = "elevated" -> 3 [] t = "high_risk" -> 4
ContextPercent(t) == CASE t = "no_ai" -> 0 [] t = "tiny" -> 35 [] t = "normal" -> 50 [] OTHER -> 100
ExpansionAllowed(t) == t \in {"elevated", "high_risk"}

(* Three fifths of a candidate's tokens, by its effort and the run's tier; *)
(* floats are taken for exact.                                             *)
ContextTokens(perCandidate, effort, tier) ==
    Max({500, (perCandidate * 3 * effort.context * ContextPercent(tier)) \div (5 * 8 * 100)})

(* bundle is what the context service would build: its tokens, and how     *)
(* many of them it would add by looking further, if it may.                *)
Preparation(c, perCandidate, maxRetries, tier, bundle) ==
    LET provisional == Provisional(c, maxRetries)
        adaptive == provisional.adaptive /\ ExpansionAllowed(tier)
        expanded == IF adaptive THEN bundle.further ELSE 0
    IN  [tokens |-> ContextTokens(perCandidate, provisional, tier), initial |-> bundle.tokens, expanded |-> expanded,
         effort |-> Escalated(provisional, expanded > 0, maxRetries)]

(* _render_diff_excerpt, _hunk_lines_in_range: a deleted line has only its *)
(* old number.                                                             *)
NumberOf(line) == IF line.type = "deleted" THEN line.old ELSE line.new
ExcerptOf(hunks, c) ==
    LET within(h) == SelectSeq(h, LAMBDA line : NumberOf(line) \in c.start..c.end)
    IN  FlattenSeq([i \in DOMAIN hunks |-> within(hunks[i])])

(* _has_static_high_risk_finding *)
StaticHighRisk(candidates, static) ==
    \E f \in static : Serious(f) /\ \E c \in candidates : f \in Attached(c, static)

-----------------------------------------------------------------------------
(* verify_proposals: rules are the critic's presence, what is done when it *)
(* fails, the least confidence and the retries.                            *)
Known(c) == [i \in c.valid |-> c.proposals[i] @@ [static |-> c.static]]

(* _detect_high_risk_proposal *)
HighRisk(c, group) ==
    \E i \in c.valid \ group.suppressed : i \in group.contradicting \/ Serious(c.proposals[i])

(* _critique: the proposals a critic is asked about.                       *)
CriticAsked(c, known, group, effort, rules) ==
    LET open == c.valid \ group.suppressed
        peers(i) == {known[j] : j \in open \ {i}}
    IN  {i \in open : /\ rules.critics
                      /\ \/ i \in group.contradicting \/ effort.critic = "mandatory"
                         \/ ShouldCritique(known[i], peers(i), rules.minimum, effort.critic = "optional")}

(* Why a proposal is suppressed: it repeats another role's, its critic was *)
(* refused by a budget, its critic failed and is waited for, or it and     *)
(* another contradict each other still.                                    *)
SuppressedReasons(c, group, asked, rules) ==
    LET answered(answer) == {j \in asked : c.answers[j] = answer}
        held == IF rules.failure = "hold_for_review" THEN answered("failed") ELSE {}
        unresolved == Unresolved(group, answered("reject") \cup answered("refused") \cup held)
    IN  [i \in c.valid |-> IF i \in group.suppressed THEN "cross_role_duplicate"
                          ELSE IF i \in answered("refused") THEN "critic_budget_exhausted"
                          ELSE IF i \in held THEN "critic_failure_hold"
                          ELSE IF i \in unresolved THEN "unresolved_contradiction" ELSE NoReason]

(* What verify_proposals returns of a candidate.                           *)
LOCAL AskedOf(c, group, tier, asked, rules) ==
    [tier |-> tier, reasons |-> SuppressedReasons(c, group, asked, rules),
     calls |-> Cardinality({i \in asked : c.answers[i] # "refused"}),
     verdicts |-> [i \in c.valid |-> IF i \in asked /\ c.answers[i] \in {"accept", "downgrade", "reject"}
                                    THEN c.answers[i] ELSE NoReason]]
LOCAL GroupedOf(c, known, group, effort, rules) ==
    AskedOf(c, group, effort.tier, CriticAsked(c, known, group, effort, rules), rules)
LOCAL KnownOf(c, known, group, rules) ==
    GroupedOf(c, known, group, Escalated(c.effort, HighRisk(c, group), rules.maxRetries), rules)
VerifiedProposals(c, rules) == KnownOf(c, Known(c), Grouped(Known(c)), rules)

(* _complete_candidate: the findings of a candidate, in order, with their  *)
(* final severity and confidence.                                          *)
CriticsVerdict(decision) ==
    IF decision = "downgrade" THEN [decision |-> decision, severity |-> "low", confidence |-> "low"]
    ELSE [decision |-> "accept"]

LOCAL InOrder(proposals, aggregated, order) ==
    [n \in DOMAIN order |-> [index |-> order[n]] @@ aggregated[order[n]] @@ proposals[order[n]]]
FinalFindings(c, verified, rules) ==
    LET aggregated == [i \in c.valid |-> Aggregate(Known(c)[i], CriticsVerdict(verified.verdicts[i]))]
        final == {i \in c.valid : /\ verified.reasons[i] = NoReason /\ verified.verdicts[i] # "reject"
                                  /\ MeetsMinimum(aggregated[i].confidence, rules.minimum)}
    IN  InOrder(c.proposals, aggregated, SetToSortSeq(final, <))

-----------------------------------------------------------------------------
(* _execute_and_persist: what was verified and found of every candidate,   *)
(* which of it is kept, and the status of every proposal row.              *)
LOCAL Completed(c, verified, rules) == [verified |-> verified, final |-> FinalFindings(c, verified, rules)]
LOCAL Located(k, findings) == [n \in DOMAIN findings |-> [at |-> <<k, findings[n].index>>] @@ findings[n]]
LOCAL KeptOf(reviewed, all) == [reviewed |-> reviewed, all |-> all, kept |-> {all[n] : n \in Deduplicated(all)}]
LOCAL AllOf(run, reviewed) ==
    KeptOf(reviewed, FlattenSeq([k \in DOMAIN run |->
                                   Located(k, IF k \in DOMAIN reviewed THEN reviewed[k].final ELSE <<>>)]))
RunOutcome(run, rules) ==
    AllOf(run, Tabled([k \in {k \in DOMAIN run : run[k].state = "reviewed"} |->
                            Completed(run[k], VerifiedProposals(run[k], rules), rules)]))

ProposalRow(c, of, i, final, kept) ==
    IF i \notin c.valid THEN "rejected_validation"
    ELSE CASE of.reasons[i] = "unresolved_contradiction" -> "suppressed_contradiction"
           [] of.reasons[i] = "cross_role_duplicate" -> "suppressed_duplicate"
           [] of.reasons[i] = "critic_budget_exhausted" -> "suppressed_budget"
           [] of.reasons[i] = "critic_failure_hold" -> "suppressed_critic_failure"
           [] OTHER -> IF of.verdicts[i] = "reject" THEN "rejected_critic"
                       ELSE IF ~final THEN "rejected_low_confidence"
                       ELSE IF kept THEN "accepted" ELSE "suppressed_duplicate"

(* Rows are written of the proposals of reviewed candidates.               *)
ProposalRows(run, outcome) ==
    LET written == {<<k, i>> \in (DOMAIN outcome.reviewed) \X (1..9) : i \in DOMAIN run[k].proposals}
        at(findings) == {f.at : f \in findings}
    IN  Tabled([x \in written |-> ProposalRow(run[x[1]], outcome.reviewed[x[1]].verified, x[2],
                                                x \in at(ToSet(outcome.all)), x \in at(outcome.kept))])

InState(run, state) == Cardinality({k \in DOMAIN run : run[k].state = state})

StatusFor(run, ended) ==
    IF InState(run, "reviewed") = 0 /\ InState(run, "failed") > 0 THEN "failed"
    ELSE IF InState(run, "failed") > 0 \/ ended # NoReason THEN "partial" ELSE "succeeded"

(* What the run's row is given: proposals are those of reviewed candidates *)
(* (the others' are gone), and tiers count the candidates that were        *)
(* prepared.                                                               *)
RunRow(run, outcome, ended) ==
    LET reviewed == DOMAIN outcome.reviewed
        usage(k, role) == IF role \in DOMAIN run[k].used THEN run[k].used[role] ELSE 0
        byRole == [role \in UNION {DOMAIN run[k].used : k \in reviewed} |->
                     SumFunction([k \in reviewed |-> usage(k, role)])]
        prepared == {k \in DOMAIN run : run[k].prepared}
        tier(k) == IF k \in reviewed THEN outcome.reviewed[k].verified.tier ELSE run[k].effort.tier
        proposals == SumFunction([k \in reviewed |-> Len(run[k].proposals)])
        kept == Cardinality(outcome.kept)
    IN  [status |-> StatusFor(run, ended), candidates |-> Len(run), reviewed |-> InState(run, "reviewed"),
         failed |-> InState(run, "failed"), skipped |-> InState(run, "skipped"),
         proposals |-> proposals, accepted |-> kept, rejected |-> proposals - Len(outcome.all),
         duplicates |-> Len(outcome.all) - kept,
         criticCalls |-> SumFunction([k \in reviewed |-> outcome.reviewed[k].verified.calls]),
         usage |-> SumFunction(byRole), byRole |-> byRole,
         tiers |-> [t \in {tier(k) : k \in prepared} |-> Cardinality({k \in prepared : tier(k) = t})],
         ended |-> ended]

(* mark_succeeded keeps the tokens of two roles only; _summary_from_model  *)
(* tells them of every run.                                                *)
StoredRoles == {"correctness", "security"}
Stored(row) ==
    [row EXCEPT !.byRole = [role \in StoredRoles |-> IF role \in DOMAIN row.byRole THEN row.byRole[role] ELSE 0]]

(* _persist_no_ai_run *)
NoAiRow ==
    [status |-> "succeeded", candidates |-> 0, reviewed |-> 0, failed |-> 0, skipped |-> 0, proposals |-> 0,
     accepted |-> 0, rejected |-> 0, duplicates |-> 0, criticCalls |-> 0, usage |-> 0, byRole |-> <<>>, tiers |-> <<>>,
     ended |-> NoReason]

-----------------------------------------------------------------------------
(* What the laws say of them. *)

LOCAL TellsOf(run, outcome, rows, row, accepted) ==
    /\ row.proposals = Cardinality(DOMAIN rows)
    /\ row.accepted = Cardinality(accepted) /\ accepted = {f.at : f \in outcome.kept}
    /\ row.rejected + row.duplicates = Cardinality(DOMAIN rows \ accepted)
    /\ row.duplicates <= Cardinality({x \in DOMAIN rows : rows[x] = "suppressed_duplicate"})
    /\ \A f \in ToSet(outcome.all) : \E k \in outcome.kept : k.at = f.at \/ DuplicateOf(f, k)
    /\ \A f, k \in outcome.kept : f.at # k.at => ~DuplicateOf(f, k)
    /\ row.status = "succeeded" => row.reviewed + row.skipped = Len(run)
    /\ row.status = "failed" => outcome.kept = {}
    /\ SumFunction(row.tiers) = Cardinality({k \in DOMAIN run : run[k].prepared})
    /\ SumFunction(Stored(row).byRole) = row.usage
    /\ run = <<>> => row = NoAiRow
LOCAL ToldRows(run, outcome, rows, row) ==
    TellsOf(run, outcome, rows, row, {x \in DOMAIN rows : rows[x] = "accepted"})
LOCAL ToldOnce(run, outcome) ==
    ToldRows(run, outcome, ProposalRows(run, outcome), RunRow(run, outcome, NoReason))

(* A run that ended for no reason tells of every proposal: as many rows    *)
(* are accepted as the run counts and as findings are kept; each duplicate *)
(* overlaps, in its category, one of those, which do not overlap; a run    *)
(* that succeeded failed at no candidate and a failed one kept nothing; a  *)
(* run that needed no model is told like one of no candidates; and a       *)
(* reused run's tokens by role still add up.                               *)
RunIsToldInFull(run, rules) ==
    ToldOnce(run, RunOutcome(run, rules))

LOCAL CandidateIsVerified(c, rules, kept) ==
    /\ kept \subseteq c.valid \ Grouped(Known(c)).suppressed
    /\ rules.critics /\ (\E i \in kept : Serious(c.proposals[i])) =>
         \A i \in kept : c.answers[i] \in {"accept", "downgrade"} \cup
                                        (IF rules.failure = "hold_for_review" THEN {} ELSE {"failed"})
    /\ Grouped(Known(c)).suppressed = {} =>
         \A i, j \in kept : ~IsContradiction(Known(c)[i], Known(c)[j])
LOCAL KeptIsVerified(run, rules, at) ==
    \A k \in DOMAIN run : CandidateIsVerified(run[k], rules, {i \in DOMAIN run[k].proposals : <<k, i>> \in at})

(* With critics, what is kept of a candidate that has a grave finding was  *)
(* accepted by one, finding by finding: a failed critic may be overlooked  *)
(* only where the rules say so, a refused one never.  No kept finding was  *)
(* merged into another, nor do two contradict each other unless a third    *)
(* was.                                                                    *)
AcceptedIsVerified(run, rules) ==
    KeptIsVerified(run, rules, {f.at : f \in RunOutcome(run, rules).kept})

(* More signals, or a riskier change, never buy a candidate less context.  *)
MoreRiskMoreContext(c, more, perCandidate, maxRetries, bundle) ==
    \A t, u \in RiskTier : RiskRank(t) <= RiskRank(u) =>
      \A less \in {Preparation(c, perCandidate, maxRetries, t, bundle)},
         greater \in {Preparation(more, perCandidate, maxRetries, u, bundle)} :
          /\ less.tokens <= greater.tokens
          /\ less.initial + less.expanded <= greater.initial + greater.expanded

(* A reviewer is shown every added line of its candidate; and a grave      *)
(* static finding on an added line is seen before the run, the cap cuts    *)
(* others first.                                                           *)
CandidatesAreShown(added, symbols, static, maxSpan, most) ==
    LET all == Candidates(added, symbols, maxSpan)
        lines == [n \in 1..Max({l[2] : l \in added} \cup {0}) |->
                    [type |-> IF <<1, n>> \in added THEN "added" ELSE "context", new |-> n, old |-> n]]
    IN  /\ \A c \in all : c.lines \subseteq {l.new : l \in ToSet(ExcerptOf(<<lines>>, c))}
        /\ (\E f \in static : Serious(f) /\ \E l \in added : l[1] = f.file /\ l[2] \in f.start..f.end)
             => StaticHighRisk(Capped(all, static, most), static)

-----------------------------------------------------------------------------
(* classify_lifecycle_outcome *)
SuppressedStatus ==
    {"suppressed_duplicate", "suppressed_contradiction", "suppressed_budget", "suppressed_critic_failure"}

LifecycleOutcome(status, decision) ==
    CASE status = "accepted" -> IF decision = "downgrade" THEN "critic_downgraded" ELSE "accepted_final"
      [] status = "rejected_validation" -> "validation_rejected"
      [] status = "rejected_critic" -> "critic_rejected"
      [] status = "rejected_low_confidence" -> "below_confidence_threshold"
      [] status \in SuppressedStatus -> status
      [] OTHER -> "proposed"

Final == {"accepted_final", "critic_downgraded"}

(* _finding_lifecycle_from_proposal *)
FindingLifecycle(run, outcome, rows) ==
    Tabled([x \in DOMAIN rows |->
       LET of == outcome.reviewed[x[1]].verified
           proposal == run[x[1]].proposals[x[2]]
           decision == IF x[2] \in run[x[1]].valid THEN of.verdicts[x[2]] ELSE NoReason
       IN  [outcome |-> LifecycleOutcome(rows[x], decision), decision |-> decision, finding |-> rows[x] = "accepted",
            candidate |-> x[1], role |-> proposal.role, category |-> proposal.category, severity |-> proposal.severity,
            validation |-> IF x[2] \in run[x[1]].valid THEN "valid" ELSE "rejected", tier |-> of.tier]])

(* Told as escalated is what its proposals made deep.                      *)
CandidateTelemetry(run, outcome, rows, bundles) ==
    Tabled([k \in DOMAIN run |->
       LET own == {x \in DOMAIN rows : x[1] = k}
           tier == IF k \in DOMAIN outcome.reviewed THEN outcome.reviewed[k].verified.tier ELSE run[k].effort.tier
       IN  [tier |-> IF run[k].prepared THEN tier ELSE NoReason, escalated |-> run[k].prepared /\ tier # run[k].effort.tier,
            bundle |-> bundles[k], proposals |-> Cardinality(own),
            accepted |-> CountIf(own, LAMBDA x : rows[x] = "accepted")]])

(* _collect_context_telemetry: a context is told of the last candidate     *)
(* that was shown it.                                                      *)
ContextTelemetry(bundles, contexts) ==
    LET shown == {bundles[k] : k \in DOMAIN bundles} \ {NoBundle}
    IN  [b \in shown |-> [candidate |-> Max({k \in DOMAIN bundles : bundles[k] = b})] @@ contexts[b]]

(* _collect_feedback_telemetry *)
FeedbackTelemetry(findings, events) ==
    [f \in findings |->
       LET own == {e.event : e \in {e \in events : e.finding = f}}
           said(command) == CountIf(OfType(own, "command"), LAMBDA e : e.signal = command)
       IN  [bearing |-> own # {}, usefulness |-> IF own = {} THEN NoReason ELSE Usefulness(own),
            useful |-> said("useful"), falsePositive |-> said("false-positive"), fixed |-> said("fixed")]]

ReviewFeedback(events) == {e \in events : e.finding = NoFinding}

(* The provider section: the calls of every role together, and by role     *)
(* those of the two.                                                       *)
ProviderTelemetry(row) ==
    [total |-> SumFunction(row.byRole), byRole |-> Stored(row).byRole, critic |-> row.criticCalls]

(* collect_review_telemetry *)
Snapshot(run, outcome, rows, row, bundles, contexts, events) ==
    [status |-> row.status, candidateCount |-> row.candidates, reviewed |-> row.reviewed, skipped |-> row.skipped,
     lifecycle |-> FindingLifecycle(run, outcome, rows),
     candidates |-> CandidateTelemetry(run, outcome, rows, bundles),
     provider |-> ProviderTelemetry(row), context |-> ContextTelemetry(bundles, contexts),
     feedback |-> FeedbackTelemetry({x \in DOMAIN rows : rows[x] = "accepted"}, events),
     reviewFeedback |-> ReviewFeedback(events)]

-----------------------------------------------------------------------------
(* aggregation: entries are a snapshot's lifecycle. *)
Counted(entries, Key(_)) ==
    LET keys == {Key(entries[x]) : x \in DOMAIN entries}
    IN  [key \in keys |-> CountIf(DOMAIN entries, LAMBDA x : Key(entries[x]) = key)]

LifecycleOutcomeCounts(entries) == Counted(entries, LAMBDA e : e.outcome)

(* _group_counts: entries that have no value are in no group. *)
GroupCounts(entries, Group(_), Value(_)) ==
    LET told == {x \in DOMAIN entries : Value(entries[x]) # NoReason}
        of(group) == [x \in {x \in told : Group(entries[x]) = group} |-> entries[x]]
    IN  [group \in {Group(entries[x]) : x \in told} |-> Counted(of(group), Value)]

CriticDecisionsByRole(entries) == GroupCounts(entries, LAMBDA e : e.role, LAMBDA e : e.decision)
CriticDecisionsBySeverity(entries) == GroupCounts(entries, LAMBDA e : e.severity, LAMBDA e : e.decision)
ValidationOutcomesByTier(entries) == GroupCounts(entries, LAMBDA e : e.tier, LAMBDA e : e.validation)
ValidationOutcomesByCategory(entries) == GroupCounts(entries, LAMBDA e : e.category, LAMBDA e : e.validation)

(* _funnel_for_group *)
SliceFunnel(entries, group) ==
    LET among(outcomes) == CountIf(group, LAMBDA x : entries[x].outcome \in outcomes)
    IN  [proposed |-> Cardinality(group), rejected |-> among({"validation_rejected"}),
         valid |-> Cardinality(group) - among({"validation_rejected"}),
         criticRejected |-> among({"critic_rejected"}), final |-> among(Final)]

FunnelBy(entries, Key(_)) ==
    [key \in {Key(entries[x]) : x \in DOMAIN entries} |->
       SliceFunnel(entries, {x \in DOMAIN entries : Key(entries[x]) = key})]
RoleFunnel(entries) == FunnelBy(entries, LAMBDA e : e.role)
TierFunnel(entries) == FunnelBy(entries, LAMBDA e : e.tier)

(* compute_quality_funnel *)
QualityFunnel(candidateCount, entries, feedback) ==
    LET counts == LifecycleOutcomeCounts(entries)
        whole == SliceFunnel(entries, DOMAIN entries)
    IN  [candidates |-> candidateCount, proposals |-> whole.proposed, valid |-> whole.valid, final |-> whole.final,
         published |-> CountIf(DOMAIN entries, LAMBDA x : entries[x].finding),
         bearing |-> CountIf(DOMAIN feedback, LAMBDA f : feedback[f].bearing),
         dropOff |-> Restrict(counts, DOMAIN counts \ Final)]

TierDistribution(candidates) ==
    LET prepared == {k \in DOMAIN candidates : candidates[k].tier # NoReason}
    IN  [tiers |-> Counted(Restrict(candidates, prepared), LAMBDA c : c.tier),
         escalated |-> CountIf(DOMAIN candidates, LAMBDA k : candidates[k].escalated)]

(* compute_adaptive_context_summary *)
AdaptiveContextSummary(context) ==
    [bundles |-> Cardinality(DOMAIN context),
     attempted |-> CountIf(DOMAIN context, LAMBDA b : context[b].attempted),
     occurred |-> CountIf(DOMAIN context, LAMBDA b : context[b].occurred),
     tokens |-> SumFunction([b \in DOMAIN context |-> context[b].tokens])]

(* compute_context_effectiveness: candidates of an expanded context beside *)
(* the others.                                                             *)
ContextEffectiveness(candidates, context, entries) ==
    LET expanded == {k \in DOMAIN candidates :
                       candidates[k].bundle \in DOMAIN context /\ context[candidates[k].bundle].occurred}
        side(ks) == [candidates |-> Cardinality(ks)] @@ SliceFunnel(entries, {x \in DOMAIN entries : entries[x].candidate \in ks})
    IN  [expanded |-> side(expanded), other |-> side(DOMAIN candidates \ expanded)]

(* compute_feedback_coverage: a rate is <<part, whole>>, nothing of        *)
(* nothing being <<0, 0>>.                                                 *)
FeedbackCoverage(feedback) ==
    LET bearing == {f \in DOMAIN feedback : feedback[f].bearing}
        part(Test(_)) == <<CountIf(bearing, Test), Cardinality(bearing)>>
    IN  [coverage |-> <<Cardinality(bearing), Cardinality(DOMAIN feedback)>>,
         useful |-> part(LAMBDA f : feedback[f].usefulness = "positive" \/ feedback[f].useful > 0),
         falsePositive |-> part(LAMBDA f : feedback[f].falsePositive > 0),
         fixed |-> part(LAMBDA f : feedback[f].fixed > 0)]

(* aggregate_snapshots *)
Aggregated(snapshots) ==
    LET total(Field(_)) == SumFunction([n \in DOMAIN snapshots |-> Field(snapshots[n])])
    IN  [runs |-> Len(snapshots), candidates |-> total(LAMBDA s : s.candidateCount),
         reviewed |-> total(LAMBDA s : s.reviewed), skipped |-> total(LAMBDA s : s.skipped),
         proposals |-> total(LAMBDA s : Cardinality(DOMAIN s.lifecycle)),
         calls |-> total(LAMBDA s : s.provider.total), criticCalls |-> total(LAMBDA s : s.provider.critic)]

(* compute_beta_summary: every run is counted by its status, and those     *)
(* that succeeded are told.                                                *)
BetaSummary(snapshots) ==
    LET succeeded == SelectSeq(snapshots, LAMBDA s : s.status = "succeeded")
        ended(status) == CountIf(DOMAIN snapshots, LAMBDA n : snapshots[n].status = status)
        feedback == [x \in {<<n, f>> \in (DOMAIN succeeded) \X UNION {DOMAIN succeeded[n].feedback : n \in DOMAIN succeeded} :
                              f \in DOMAIN succeeded[n].feedback} |-> succeeded[x[1]].feedback[x[2]]]
    IN  [total |-> Len(snapshots), succeeded |-> ended("succeeded"), partial |-> ended("partial"), failed |-> ended("failed"),
         aggregate |-> Aggregated(succeeded), coverage |-> FeedbackCoverage(feedback)]

-----------------------------------------------------------------------------
(* What the laws say of them. *)

LOCAL Rate(r) == r[1] >= 0 /\ r[1] <= r[2]

(* A funnel by a key adds up to the whole one. *)
LOCAL AddsUp(funnel, quality) ==
    LET total(Field(_)) == SumFunction([key \in DOMAIN funnel |-> Field(funnel[key])])
    IN  /\ total(LAMBDA f : f.proposed) = quality.proposals /\ total(LAMBDA f : f.valid) = quality.valid
        /\ total(LAMBDA f : f.final) = quality.final
        /\ \A key \in DOMAIN funnel : funnel[key].valid + funnel[key].rejected = funnel[key].proposed

LOCAL CountedOnce(groups, entries, Value(_)) ==
    SumFunction([g \in DOMAIN groups |-> SumFunction(groups[g])]) = CountIf(DOMAIN entries, LAMBDA x : Value(entries[x]) # NoReason)
LOCAL GroupsAddUp(entries) ==
    /\ \A groups \in {CriticDecisionsByRole(entries), CriticDecisionsBySeverity(entries)} :
         CountedOnce(groups, entries, LAMBDA e : e.decision)
    /\ \A groups \in {ValidationOutcomesByTier(entries), ValidationOutcomesByCategory(entries)} :
         CountedOnce(groups, entries, LAMBDA e : e.validation)
LOCAL SidesAddUp(sides, quality, s) ==
    /\ sides.expanded.final + sides.other.final = quality.final
    /\ sides.expanded.proposed + sides.other.proposed = quality.proposals
    /\ sides.expanded.candidates + sides.other.candidates = s.candidateCount
LOCAL CoverageIsSound(coverage, quality, s, events) ==
    /\ coverage.coverage = <<quality.bearing, quality.published>>
    /\ Rate(coverage.coverage) /\ Rate(coverage.useful) /\ Rate(coverage.falsePositive) /\ Rate(coverage.fixed)
    /\ coverage.coverage[1] = 0 => \A e \in events : e.finding \notin DOMAIN s.feedback
LOCAL QualityIsTold(quality, s, row, events) ==
    /\ quality.final = row.accepted /\ quality.published = quality.final
    /\ quality.final + SumFunction(quality.dropOff) = row.proposals
    /\ "proposed" \notin DOMAIN quality.dropOff
    /\ GroupsAddUp(s.lifecycle) /\ AddsUp(RoleFunnel(s.lifecycle), quality) /\ AddsUp(TierFunnel(s.lifecycle), quality)
    /\ SidesAddUp(ContextEffectiveness(s.candidates, s.context, s.lifecycle), quality, s)
    /\ CoverageIsSound(FeedbackCoverage(s.feedback), quality, s, events)
LOCAL SnapshotIsTold(s, row, events) ==
    /\ QualityIsTold(QualityFunnel(s.candidateCount, s.lifecycle, s.feedback), s, row, events)
    /\ TierDistribution(s.candidates).tiers = row.tiers
    /\ SumFunction([k \in DOMAIN s.candidates |-> s.candidates[k].accepted]) = row.accepted
    /\ SumFunction([k \in DOMAIN s.candidates |-> s.candidates[k].proposals]) = row.proposals
    /\ AdaptiveContextSummary(s.context).occurred <= AdaptiveContextSummary(s.context).attempted
    /\ Cardinality(s.reviewFeedback) + CountIf(events, LAMBDA e : e.finding # NoFinding) = Cardinality(events)
LOCAL SummaryIsTold(summary, s, row) ==
    /\ summary.total = summary.succeeded + summary.partial + summary.failed
    /\ summary.aggregate.proposals = IF s.status = "succeeded" THEN 2 * row.proposals ELSE 0
    /\ summary.coverage.coverage[2] = IF s.status = "succeeded" THEN 2 * row.accepted ELSE 0
LOCAL Collected(s, row, events) == SnapshotIsTold(s, row, events) /\ SummaryIsTold(BetaSummary(<<s, s>>), s, row)
LOCAL RowTold(run, outcome, rows, row, bundles, contexts, events) ==
    Collected(Snapshot(run, outcome, rows, row, bundles, contexts, events), row, events)
LOCAL OutcomeTold(run, outcome, bundles, contexts, events) ==
    RowTold(run, outcome, ProposalRows(run, outcome), RunRow(run, outcome, NoReason), bundles, contexts, events)

(* Every proposal of a run ends in one outcome and is counted once, by     *)
(* role, by tier, by candidate and by whether its context was expanded, and *)
(* as many end final as the run's row says were accepted and as feedback   *)
(* is asked of; no rate exceeds one, and feedback on the review is nobody's. *)
TelemetryAddsUp(run, rules, bundles, contexts, events) ==
    OutcomeTold(run, RunOutcome(run, rules), bundles, contexts, events)
=============================================================================
