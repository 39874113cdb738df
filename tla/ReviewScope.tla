----------------------------- MODULE ReviewScope -----------------------------
(***************************************************************************)
(* What a run reviews and how hard: candidates from the added lines of a   *)
(* diff, the roles that look at a candidate, and the effort tier that says *)
(* how much context it gets, how often a call is retried and whether a     *)
(* critic looks at what is found.  And what a review that follows another  *)
(* one looks at again: which symbols and findings are still the same, and  *)
(* whether the earlier review can be built on at all.                      *)
(***************************************************************************)
EXTENDS Severities, FiniteSets, FiniteSetsExt

(* A symbol of the index: its file and the lines it spans.                 *)
Span(s) == s.end - s.start

(* symbol_containing_line: the innermost one, or NoSymbol.                 *)
NoSymbol == [file |-> 0, start |-> 0, end |-> 0]

SymbolAt(symbols, file, n) ==
    LET around == {s \in symbols : s.file = file /\ n \in s.start..s.end}
    IN  IF around = {} THEN NoSymbol
        ELSE CHOOSE s \in around : \A o \in around : Span(s) <= Span(o)

(* _cluster_lines: a cluster ends before the first line that is more than  *)
(* maxSpan below its first.                                                *)
ClusterStarts(lines, maxSpan) ==
    FoldLeft(LAMBDA starts, n :
               IF starts # {} /\ n - Max(starts) <= maxSpan THEN starts ELSE starts \cup {n},
             {}, SetToSortSeq(lines, <))

Clusters(lines, maxSpan) ==
    LET starts == ClusterStarts(lines, maxSpan)
        first(n) == Max({s \in starts : s <= n})
    IN  {{n \in lines : first(n) = s} : s \in starts}

(* A candidate for every symbol with an added line. *)
CandidatesOfSymbols(added, symbols, maxSpan) ==
    {[file |-> s.file, start |-> s.start, end |-> s.end,
      lines |-> {l[2] : l \in {l \in added : SymbolAt(symbols, l[1], l[2]) = s}}] :
        s \in {SymbolAt(symbols, l[1], l[2]) : l \in added} \ {NoSymbol}}

(* ReviewCandidateGenerator.generate without the cap: a candidate for each *)
(* symbol with an added line, and one for each cluster of the others.      *)
Candidates(added, symbols, maxSpan) ==
    LET outside == {l \in added : SymbolAt(symbols, l[1], l[2]) = NoSymbol}
        regions(file) == Clusters({l[2] : l \in {l \in outside : l[1] = file}}, maxSpan)
    IN  CandidatesOfSymbols(added, symbols, maxSpan) \cup
        UNION {{[file |-> file, start |-> Min(r), end |-> Max(r), lines |-> r] : r \in regions(file)} :
                 file \in {l[1] : l \in outside}}

Attached(candidate, static) == {f \in static : Overlap(f, candidate)}

(* _prioritize and the cap. *)
Priority(c, static) == <<IF Attached(c, static) # {} THEN 0 ELSE 1,
                         1000 - Cardinality(c.lines), c.file, c.start, c.end>>

Capped(candidates, static, most) ==
    {c \in candidates :
        Cardinality({o \in candidates : Precedes(Priority(o, static), Priority(c, static))}) < most}

-----------------------------------------------------------------------------
(* AgentSelectionPolicy.select: security looks at every candidate; what    *)
(* differs is whether anything but caution says so.                        *)
SecurityIsRealSignal(c) ==
    (\E f \in c.static : f.category = "security") \/ c.sensitive

(* ReviewEffortPolicy.decide_provisional.  A candidate here: its static    *)
(* findings, whether its names are sensitive, it is large, many lines      *)
(* changed, and the signals of trajectory, other pull requests and other   *)
(* repositories that it has.                                               *)
HighRiskCategory == {"security", "memory_safety", "resource_management", "concurrency"}

Signals(c) ==
    (IF c.static # {} THEN {"static"} ELSE {}) \cup
    (IF \E f \in c.static : f.severity \in {"high", "critical"} THEN {"severity"} ELSE {}) \cup
    (IF SecurityIsRealSignal(c) THEN {"security"} ELSE {}) \cup
    (IF \E f \in c.static : f.category \in HighRiskCategory THEN {"category"} ELSE {}) \cup
    (IF c.large THEN {"large"} ELSE {}) \cup (IF c.many THEN {"many"} ELSE {}) \cup c.cross

Tier(c) ==
    IF Signals(c) \cap {"security", "severity", "category"} # {} THEN "deep"
    ELSE IF Cardinality(Signals(c)) >= 2 THEN "deep"
    ELSE IF Signals(c) # {} THEN "standard"
    ELSE "light"

(* _tier_semantics.  Fractions in eighths. *)
Semantics(tier, maxRetries) ==
    CASE tier = "light" ->
           [context |-> 4, adaptive |-> FALSE, critic |-> "optional",
            retries |-> IF maxRetries < 1 THEN maxRetries ELSE 1, output |-> 2]
      [] tier = "standard" ->
           [context |-> 8, adaptive |-> TRUE, critic |-> "selective",
            retries |-> maxRetries, output |-> 3]
      [] tier = "deep" ->
           [context |-> 8, adaptive |-> TRUE, critic |-> "mandatory",
            retries |-> maxRetries, output |-> 4]

Effort(tier, roles, maxRetries) ==
    LET s == Semantics(tier, maxRetries)
    IN  [tier |-> tier, roles |-> roles, context |-> s.context, adaptive |-> s.adaptive,
         critic |-> s.critic, retries |-> s.retries, output |-> s.output]

AllRoles == {"correctness", "security"}

Provisional(c, maxRetries) ==
    LET effort == Effort(Tier(c), IF Tier(c) = "light" THEN {"correctness"} ELSE AllRoles, maxRetries)
    IN  IF c.cross # {} THEN [effort EXCEPT !.critic = "mandatory"] ELSE effort

(* finalize, after the context grew, and escalate_for_high_risk_proposal:  *)
(* both go to deep at once and leave the roles as they were.               *)
Escalated(effort, reason, maxRetries) ==
    IF ~reason \/ effort.tier = "deep" THEN effort
    ELSE Effort("deep", effort.roles, maxRetries)

-----------------------------------------------------------------------------
(* A follow-up review (patchfrog.review_memory): which candidates an       *)
(* earlier review of the pull request saves.  ReviewMemory has the reviews *)
(* and their generations over time.  A symbol of an index has an id, a     *)
(* file, a name, a kind, the hash of its body and its first line; changes  *)
(* is what git says of the files; Untracked is None.                         *)
Untracked == 0
NoDiff == <<[type |-> "none"]>>

(* build_rename_map *)
PathAfter(changes, file) ==
    LET renames == SelectSeq(changes, LAMBDA c : c.type = "renamed" /\ c.previous = <<file>>)
    IN  IF renames = <<>> THEN file ELSE Last(renames).path
DeletedFiles(changes) == {c.path : c \in {c \in ToSet(changes) : c.type = "deleted"}}

(* match_symbols, of one symbol of the earlier index, when the symbols     *)
(* with an id in claimed have one already, and of all.                     *)
Continuity(status, previous, current) == [status |-> status, previous |-> previous, current |-> current]
ClaimedIds(results) == {r.current[1].id : r \in {r \in ToSet(results) : r.current # <<>>}}

SymbolContinuity(s, current, changes, claimed) ==
    LET file == PathAfter(changes, s.file)
        same == SelectSeq(current, LAMBDA c : c.file = file /\ c.name = s.name /\ c.kind = s.kind)
        bodies == SelectSeq(current, LAMBDA c : c.hash = s.hash /\ c.kind = s.kind /\ c.id \notin claimed)
        unmatched(status) == Continuity(status, <<s>>, <<>>)
    IN  IF file \in DeletedFiles(changes) THEN unmatched("deleted")
        ELSE IF same # <<>>
        THEN Continuity(IF Last(same).hash = s.hash THEN "unchanged" ELSE "modified", <<s>>, <<Last(same)>>)
        ELSE IF Len(bodies) = 1
        THEN Continuity(IF bodies[1].name = s.name THEN "moved" ELSE "renamed", <<s>>, bodies)
        ELSE unmatched(IF bodies = <<>> THEN "deleted" ELSE "ambiguous")

MatchSymbols(previous, current, changes) ==
    LET matched == FoldLeft(LAMBDA results, s : Append(results, SymbolContinuity(s, current, changes, ClaimedIds(results))),
                            <<>>, previous)
        added == SelectSeq(current, LAMBDA c : c.id \notin ClaimedIds(matched))
    IN  matched \o [i \in DOMAIN added |-> Continuity("added", <<>>, <<added[i]>>)]

ChangedSymbolIds(results) == ClaimedIds(SelectSeq(results, LAMBDA r : r.status \in {"modified", "added", "ambiguous"}))

(* run_git: what fails, in whatever way, raises, and a fetch of one commit *)
(* falls back to a fetch of everything.                                    *)
Fetches(git) == git.init /\ (git.commit \/ git.everything)

(* git_is_ancestor, verify_ancestor_with_diff: an ancestor is proven, or   *)
(* not; of a commit and itself there is no diff.                           *)
Ancestry(verified, ancestor, changes) == [verified |-> verified, ancestor |-> ancestor, changes |-> changes]
VerifiedAncestor(same, git) ==
    CASE same -> Ancestry(TRUE, TRUE, NoDiff)
      [] ~same /\ (~Fetches(git) \/ git.answer = "error") -> Ancestry(FALSE, FALSE, NoDiff)
      [] OTHER -> IF git.answer = "no" THEN Ancestry(TRUE, FALSE, NoDiff)
                  ELSE IF ~git.diff THEN Ancestry(FALSE, FALSE, NoDiff) ELSE Ancestry(TRUE, TRUE, git.changes)

(* read_files_at_commit: files maps a path to the quotes its text has; the *)
(* binary and the absent are not in it.                                    *)
FilesAtCommit(git, files) == IF Fetches(git) THEN files ELSE <<>>

(* determine_evidence_check_targets, revalidate_evidence                   *)
Continued == {"unchanged", "moved", "renamed"}
ContinuityOf(finding, results) == SelectSeq(results, LAMBDA r : r.previous # <<>> /\ r.previous[1].id = finding.symbol)
EvidenceHolds(finding, results, texts) ==
    LET found == ContinuityOf(finding, results)
    IN  /\ found # <<>> /\ Last(found).status \in Continued
        /\ finding.quotes # {}
        /\ LET file == Last(found).current[1].file IN file \in DOMAIN texts /\ finding.quotes \subseteq texts[file]

(* _revalidate_evidence *)
Confirmed(findings, results, git, files) == {f \in findings : EvidenceHolds(f, results, FilesAtCommit(git, files))}

(* _resolve_one, _resolve_from_continuity                                  *)
FindingDecision(finding, disposition, reason) ==
    [finding |-> finding, disposition |-> disposition, reason |-> reason, symbol |-> Untracked, file |-> Untracked, start |-> Untracked]

ModuleFindingDecision(finding, changes) ==
    LET file == PathAfter(changes, finding.file)
    IN  IF file \in DeletedFiles(changes) THEN FindingDecision(finding, "resolved_immediately", "file_deleted")
        ELSE IF file # finding.file THEN [FindingDecision(finding, "needs_recheck", "file_renamed") EXCEPT !.file = file]
        ELSE FindingDecision(finding, "needs_recheck", "evidence_region_changed")

SymbolFindingDecision(finding, r, confirmed) ==
    LET at(decision) == [decision EXCEPT !.symbol = r.current[1].id, !.file = r.current[1].file]
        shifted(decision) == [at(decision) EXCEPT !.start = finding.start + r.current[1].start - r.previous[1].start]
    IN  CASE r.status = "deleted"   -> FindingDecision(finding, "resolved_immediately", "symbol_deleted")
          [] r.status = "ambiguous" -> FindingDecision(finding, "needs_recheck", "ambiguous_symbol_match")
          [] r.status = "modified"  -> at(FindingDecision(finding, "needs_recheck", "symbol_modified"))
          [] r.status \in Continued -> shifted(IF confirmed THEN FindingDecision(finding, "carry_forward", "evidence_confirmed_unchanged")
                                               ELSE FindingDecision(finding, "needs_recheck", "evidence_region_changed"))

PreReviewDecision(finding, results, changes, confirmed) ==
    LET found == ContinuityOf(finding, results)
    IN  IF finding.symbol = Untracked THEN ModuleFindingDecision(finding, changes)
        ELSE IF found = <<>> THEN FindingDecision(finding, "needs_recheck", "previous_finding_missing")
        ELSE SymbolFindingDecision(finding, Last(found), finding \in confirmed)

(* IncrementalReviewPlanner.plan: a candidate here is a symbol, or Untracked *)
(* and the file of a module region.                                        *)
Required(results, decisions) ==
    ChangedSymbolIds(results)
      \cup {d.symbol : d \in {d \in decisions : d.disposition = "needs_recheck" /\ d.symbol # Untracked}}
NeedsReview(candidate, changes, required) ==
    IF candidate.symbol # Untracked THEN candidate.symbol \in required
    ELSE candidate.file \in {c.path : c \in ToSet(changes)}

(* _build_metrics *)
PlanMetrics(before, candidates, selected, decisions) ==
    LET skipped == candidates \ selected
        carried == {d \in decisions : d.disposition = "carry_forward"}
        confirmed == {c \in skipped : c.symbol # Untracked /\ c.symbol \in {d.symbol : d \in carried}}
    IN  [before |-> before, full |-> Cardinality(candidates), incremental |-> Cardinality(selected), avoided |-> Cardinality(skipped),
         free |-> Cardinality(skipped) - Cardinality(confirmed), confirmed |-> Cardinality(confirmed), carried |-> Cardinality(carried),
         resolved |-> Cardinality({d \in decisions : d.disposition = "resolved_immediately"}),
         ambiguous |-> Cardinality({d \in decisions : d.reason = "ambiguous_symbol_match"})]

IncrementalPlan(mode, reason, before, candidates, selected, decisions) ==
    [mode |-> mode, reason |-> reason, selected |-> selected, skipped |-> candidates \ selected, decisions |-> decisions,
     metrics |-> PlanMetrics(before, candidates, selected, decisions)]

(* load_incremental_config: a bare off is a boolean in YAML, and one value *)
(* that does not validate drops them all.                                  *)
DefaultIncremental == [incremental |-> "auto", memory |-> TRUE]
IncrementalConfig(file) ==
    IF file.form # "mapping" \/ file.incremental \notin {"auto", "off", "force_incremental"} THEN DefaultIncremental
    ELSE [incremental |-> file.incremental, memory |-> file.memory]

(* RepositorySnapshotProvider.acquire, and what                            *)
(* resolve_repository_incremental_config reads: the file of the checkout,  *)
(* or of a local directory as it is.                                       *)
Acquires(source) == Fetches(source) /\ source.checkout
Readable(source) == source.local \/ Acquires(source)

(* prepare.  w: where the configuration file is read and what it says, the *)
(* status of the run of the latest generation, the toolchains, what git    *)
(* answers, the indexes, the open findings and the candidates.             *)
FollowUpPlan(w, changes, results, decisions) ==
    IF w.toolchain # w.before THEN IncrementalPlan("full", "model_drift", w.earlier, w.candidates, w.candidates, decisions)
    ELSE IncrementalPlan("incremental", "none", w.earlier, w.candidates,
                         {c \in w.candidates : NeedsReview(c, changes, Required(results, decisions))}, decisions)

Settled(w, changes, results) ==
    LET confirmed == Confirmed(w.findings, results, w.git, w.files)
    IN  FollowUpPlan(w, changes, results, {PreReviewDecision(f, results, changes, confirmed) : f \in w.findings})

Prepare(w) ==
    LET config == IncrementalConfig(w.file)
        full(reason) == IncrementalPlan("full", reason, 0, w.candidates, w.candidates, {})
        ancestry == VerifiedAncestor(w.same, w.git)
    IN  IF ~Readable(w.source) THEN [mode |-> "raises"]
        ELSE IF ~config.memory \/ config.incremental = "off" THEN full("disabled")
        ELSE IF w.generation = "none" THEN full("no_previous_review")
        ELSE IF w.generation # "succeeded" THEN full("partial_previous_review")
        ELSE IF ~ancestry.verified THEN full("ancestry_unverifiable")
        ELSE IF ~ancestry.ancestor THEN full("history_rewritten")
        ELSE IF ancestry.changes = NoDiff THEN [mode |-> "raises"]
        ELSE Settled(w, ancestry.changes, MatchSymbols(w.previous, w.current, ancestry.changes))

-----------------------------------------------------------------------------
(* What the laws say of them. *)

(* Every added line belongs to exactly one candidate, which contains it,   *)
(* and is the innermost symbol round it if there is one; no module region  *)
(* is longer than it may be; and a cap drops a candidate  *)
(* with a static finding only if it keeps none without.                    *)
AddedLinesAreCovered(added, symbols, static, maxSpan, most) ==
    LET all == Candidates(added, symbols, maxSpan)
        kept == Capped(all, static, most)
    IN  /\ \A l \in added : Cardinality({c \in all : c.file = l[1] /\ l[2] \in c.lines}) = 1
        /\ \A c \in all : c.lines # {} /\ c.lines \subseteq c.start..c.end
        /\ \A c \in all : \A n \in c.lines :
             \A s \in symbols : s.file = c.file /\ n \in s.start..s.end => Span(c) <= Span(s)
        /\ \A c \in all : Span(c) <= maxSpan \/ c.start..c.end \in {s.start..s.end : s \in symbols}
        /\ Cardinality(kept) = IF Cardinality(all) < most THEN Cardinality(all) ELSE most
        /\ \A c \in all \ kept, k \in kept :
             Attached(c, static) # {} => Attached(k, static) # {}

CriticRank(e) == CASE e = "optional" -> 0 [] e = "selective" -> 1 [] e = "mandatory" -> 2

NoLessEffort(a, b) ==
    /\ a.context <= b.context /\ a.retries <= b.retries /\ a.output <= b.output
    /\ CriticRank(a.critic) <= CriticRank(b.critic)
    /\ a.roles \subseteq b.roles /\ (a.adaptive => b.adaptive)

(* More signals never buy a candidate less effort, nor does an escalation  *)
(* before or after its review; and what security really points to is       *)
(* looked at by its role.                                                  *)
MoreSignalsMoreEffort(c, more, grew, risky, maxRetries) ==
    LET after(x) == Escalated(Escalated(x, grew /\ x.adaptive, maxRetries), risky, maxRetries) IN
    \A e \in {Provisional(c, maxRetries)}, m \in {Provisional(more, maxRetries)} :
        /\ NoLessEffort(e, m)
        /\ NoLessEffort(e, after(e)) /\ NoLessEffort(after(e), after(m))
        /\ SecurityIsRealSignal(c) => "security" \in e.roles

(* Of two indexes, every symbol of the earlier has one answer, every one   *)
(* of the later is an answer, new ones and moved ones once; and a symbol   *)
(* of a file git does not name, with a name of its own there, is the same; *)
(* and none is given up while its name is where its file went.             *)
SymbolsAreFollowed(previous, current, changes, records, results) ==
    LET named == UNION {ToSet(r.paths) : r \in ToSet(records)}
        alone(s) == \A o \in ToSet(previous) : o.file = s.file /\ o.name = s.name /\ o.kind = s.kind => o = s
    IN  /\ \A s \in ToSet(previous) : Cardinality({i \in DOMAIN results : results[i].previous = <<s>>}) = 1
        /\ \A c \in ToSet(current) :
             /\ \E i \in DOMAIN results : results[i].current = <<c>>
             /\ Cardinality({i \in DOMAIN results : results[i].current = <<c>> /\ results[i].status \in {"added", "moved", "renamed"}}) <= 1
             /\ Cardinality({i \in DOMAIN results : results[i].current = <<c>>}) = 1
                \/ \A i \in DOMAIN results : results[i].current = <<c>> => results[i].status # "added"
        /\ \A r \in ToSet(results) :
             r.previous # <<>> /\ r.previous[1].file \notin named /\ alone(r.previous[1]) => r.status = "unchanged"
        /\ \A r \in ToSet(results), c \in ToSet(current) :
             r.previous # <<>> /\ r.current = <<>> /\ c.name = r.previous[1].name /\ c.kind = r.previous[1].kind =>
                 c.file # PathAfter(changes, r.previous[1].file)

(* What a follow-up review skips is code the earlier index had, in a file  *)
(* of which git says nothing if it is no symbol's; and nothing that has an *)
(* open finding without its evidence at hand; and it skips nothing that    *)
(* other tools have reviewed.                                              *)
SkippedIsKnown(w, plan) ==
    plan.mode = "incremental" =>
          /\ w.toolchain = w.before
          /\ \A c \in plan.skipped :
               IF c.symbol = Untracked THEN c.file \notin {x.path : x \in ToSet(w.git.changes)}
               ELSE LET s == CHOOSE s \in ToSet(w.current) : s.id = c.symbol
                    IN  \E p \in ToSet(w.previous) : p.hash = s.hash /\ p.kind = s.kind
          /\ \A d \in plan.decisions :
               d.symbol # Untracked /\ d.disposition = "needs_recheck" => \A c \in plan.skipped : c.symbol # d.symbol
          /\ plan.metrics.incremental + plan.metrics.avoided = plan.metrics.full
          /\ plan.metrics.free >= 0

(* An open finding is given up unseen only with its file, or when neither  *)
(* its symbol nor an unclaimed copy of the body is there; it is carried    *)
(* only with the body it was found in, at the same place in it; and when   *)
(* the body is there more than once, every copy that is not the successor  *)
(* of another symbol is reviewed.                                          *)
FindingsAreFollowed(w, plan, results) ==
    LET symbolOf(d) == CHOOSE s \in ToSet(w.previous) : s.id = d.finding.symbol
        copies(d) == {c \in ToSet(w.current) : c.hash = symbolOf(d).hash /\ c.kind = symbolOf(d).kind}
        claimed(c) == \E r \in ToSet(results) : r.current = <<c>> /\ r.previous # <<>>
        gone(file) == PathAfter(w.git.changes, file) \in DeletedFiles(w.git.changes)
    IN  plan.mode = "incremental" =>
          \A d \in plan.decisions :
            /\ d.disposition = "resolved_immediately" =>
                 gone(d.finding.file) \/ (d.finding.symbol # Untracked /\ \A c \in copies(d) : claimed(c))
            /\ d.disposition = "carry_forward" =>
                 \E c \in copies(d) :
                    /\ d.symbol = c.id /\ d.file = c.file /\ d.start - c.start = d.finding.start - symbolOf(d).start
                    /\ d.finding.quotes # {} /\ d.file \in DOMAIN w.files /\ d.finding.quotes \subseteq w.files[d.file]
            /\ d.reason = "ambiguous_symbol_match" =>
                 /\ Cardinality(copies(d)) > 1
                 /\ \A c \in copies(d), s \in plan.skipped : s.symbol = c.id => claimed(c)

(* Less proof never saves more: with an unproven history, a review that    *)
(* failed, other tools or a file that cannot be read, no further candidate *)
(* is skipped and no further finding carried.                              *)
LessProofMoreReview(plan, poorer) ==
    LET carried(p) == {d.finding : d \in {d \in p.decisions : d.disposition = "carry_forward"}}
    IN  "raises" \notin {plan.mode, poorer.mode} /\ plan.reason # "disabled" =>
          /\ poorer.skipped \subseteq plan.skipped
          /\ plan.mode = "incremental" => carried(poorer) \subseteq carried(plan)
=============================================================================
