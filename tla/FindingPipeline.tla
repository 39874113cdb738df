--------------------------- MODULE FindingPipeline ---------------------------
(***************************************************************************)
(* What becomes of a reviewer's findings inside one run: validation, the   *)
(* choice of those a critic looks at, duplicates and contradictions across *)
(* roles, the final confidence, duplicates within the run, and the plan of *)
(* the review that shows them.                                             *)
(***************************************************************************)
EXTENDS Severities, FiniteSets

(* A finding: where, what, how bad, how sure; title stands for its place   *)
(* in the alphabet.                                                        *)

-----------------------------------------------------------------------------
(* validate_finding, by what is known of the response: whether the lines   *)
(* and the file exist in what was shown, the texts are there, and each     *)
(* piece of evidence is of a shown file and verbatim.                      *)
Validate(answer) ==
    IF ~answer.lines THEN "hallucinated_location"
    ELSE IF ~answer.shown THEN "out_of_scope"
    ELSE IF ~answer.texts THEN "incomplete_analysis"
    ELSE IF answer.evidence = <<>> THEN "hallucinated_evidence"
    ELSE LET bad == {k \in DOMAIN answer.evidence :
                        ~answer.evidence[k].shown \/ ~answer.evidence[k].verbatim}
         IN  IF bad = {} THEN "valid"
             ELSE LET first == CHOOSE k \in bad : \A j \in bad : k <= j
                  IN  IF answer.evidence[first].shown
                      THEN "hallucinated_evidence" ELSE "out_of_scope"

-----------------------------------------------------------------------------
(* CriticSelectionPolicy.should_critique *)
(* A mistake the code does not make: what a static finding adds is not     *)
(* counted on.                                                             *)
ReviewersOwn(f) == ConfidenceRank(f.confidence)

BestCase(f) == IF f.static /\ f.confidence # "high" THEN ConfidenceRank(f.confidence) + 1
               ELSE ConfidenceRank(f.confidence)

Serious(f) == f.severity \in {"high", "critical"} \/ f.category = "security"

ShouldCritique(f, peers, minimum, relaxed) ==
    /\ BestCase(f) >= ConfidenceRank(minimum)
    /\ \/ Serious(f)
       \/ /\ ~relaxed
          /\ \/ f.confidence # "high"
             \/ \E p \in peers : Overlap(f, p)
             \/ ~f.static

(* aggregate: a downgrade names a severity or a confidence, or "none".     *)
Aggregate(f, verdict) ==
    LET down == verdict.decision = "downgrade"
        severity == IF down /\ verdict.severity # "none" THEN verdict.severity ELSE f.severity
        capped == down /\ verdict.confidence # "none"
        confidence == IF capped THEN verdict.confidence ELSE f.confidence
    IN  [severity |-> severity,
         confidence |-> IF ~f.static \/ capped \/ confidence = "high" THEN confidence
                        ELSE IF confidence = "low" THEN "medium" ELSE "high"]

MeetsMinimum(confidence, minimum) == ConfidenceRank(confidence) >= ConfidenceRank(minimum)

-----------------------------------------------------------------------------
(* Two roles on one candidate.  quotes are the pieces of code a proposal   *)
(* quotes; risk and safe, whether its text uses a word of the two lists.   *)
Opposed(a, b) == (a.risk /\ b.safe) \/ (b.risk /\ a.safe)

IsContradiction(a, b) ==
    /\ a.role # b.role
    /\ [a EXCEPT !.role = ""] # [b EXCEPT !.role = ""]
    /\ Overlap(a, b) /\ a.quotes \cap b.quotes # {}
    /\ Opposed(a, b)

IsSameRootCause(a, b) ==
    /\ a.role # b.role /\ ~IsContradiction(a, b)
    /\ Overlap(a, b)
    /\ a.category = b.category \/ a.quotes \cap b.quotes # {}

(* preferred: whether a wins. *)
SecurityWins(a, b) == a.role = "security" /\ a.category = "security" /\ b.category # "security"

Preferred(a, b) ==
    IF SecurityWins(a, b) THEN TRUE
    ELSE IF SecurityWins(b, a) THEN FALSE
    ELSE IF a.severity # b.severity THEN SeverityRank(a.severity) > SeverityRank(b.severity)
    ELSE IF a.confidence # b.confidence THEN ConfidenceRank(a.confidence) > ConfidenceRank(b.confidence)
    ELSE a.title < b.title \/ (a.title = b.title /\ a.role = "correctness")

RoleRank(role) == IF role = "correctness" THEN 0 ELSE 1

(* group_cross_role: the pairs in order; a pair one of which is already    *)
(* suppressed is not looked at.                                            *)
Grouped(proposals) ==
    LET order == SortedPositions(DOMAIN proposals,
                   LAMBDA i : <<proposals[i].file, proposals[i].start, RoleRank(proposals[i].role), proposals[i].title>>)
        pairs == SetToSortSeq({p \in (DOMAIN order) \X (DOMAIN order) : p[1] < p[2]}, Precedes)
        step(group, pair) ==
          LET i == order[pair[1]]  j == order[pair[2]]
              a == proposals[i]    b == proposals[j]
          IN  IF {i, j} \cap group.suppressed # {} THEN group
              ELSE IF IsContradiction(a, b)
              THEN [group EXCEPT !.contradicting = @ \cup {i, j}]
              ELSE IF IsSameRootCause(a, b)
              THEN [group EXCEPT !.suppressed = @ \cup {IF Preferred(a, b) THEN j ELSE i}]
              ELSE group
    IN  FoldLeft(step, [suppressed |-> {}, contradicting |-> {}], pairs)

(* A mistake the code does not make: one rejection settles every           *)
(* contradiction.                                                          *)
UnresolvedIfNoneRejected(group, rejected) ==
    IF group.contradicting \cap rejected # {} THEN {} ELSE group.contradicting \ group.suppressed

(* resolve_unresolved_contradictions, after the critic rejected some.      *)
Unresolved(group, rejected) ==
    LET standing == group.contradicting \ (group.suppressed \cup rejected)
    IN  IF Cardinality(standing) <= 1 THEN {} ELSE standing

Surviving(proposals, rejected) ==
    LET group == Grouped(proposals)
    IN  DOMAIN proposals \ (group.suppressed \cup rejected \cup Unresolved(group, rejected))

-----------------------------------------------------------------------------
(* deduplicate, over the accepted findings of the whole run.               *)
DuplicateOf(f, k) == Overlap(k, f) /\ k.category = f.category

(* A mistake the code does not make: the neighbour in the order decides.   *)
KeptUnlessNeighbour(findings, order) ==
    {order[x] : x \in {x \in DOMAIN order :
        x = 1 \/ ~DuplicateOf(findings[order[x]], findings[order[x - 1]])}}

Kept(findings, order) ==
    FoldLeft(LAMBDA kept, i :
               IF \E k \in kept : DuplicateOf(findings[i], findings[k]) THEN kept ELSE kept \cup {i},
             {}, order)

Deduplicated(findings) ==
    LET key(i) == <<findings[i].file, findings[i].start, 4 - SeverityRank(findings[i].severity),
                    2 - ConfidenceRank(findings[i].confidence), findings[i].title>>
    IN  Kept(findings, SortedPositions(DOMAIN findings, key))

-----------------------------------------------------------------------------
(* What the laws say of them. *)

(* Every duplicate overlaps, in its category, a finding that is kept, and  *)
(* no two kept findings are duplicates.                                    *)
DuplicatesAreRepresented(findings) ==
    LET kept == Deduplicated(findings) IN
    /\ \A i \in DOMAIN findings \ kept : \E k \in kept : DuplicateOf(findings[i], findings[k])
    /\ \A i, k \in kept : i # k => ~DuplicateOf(findings[i], findings[k])

(* A proposal goes only because of another that says the same, or against  *)
(* one that says the contrary; and of a suppressed proposal a chain of     *)
(* such pairs leads to one that is not suppressed as a duplicate.          *)
ProposalsAreRepresented(proposals, rejected) ==
    LET same(i, j) == IsSameRootCause(proposals[i], proposals[j]) IN
    \A group \in {Grouped(proposals)} :
    LET left == DOMAIN proposals \ group.suppressed
        near == left \cup {i \in DOMAIN proposals : \E j \in left : same(i, j)}
    IN  /\ \A i \in group.suppressed :
             i \in near \/ \E j \in near : same(i, j)
        /\ \A i \in group.contradicting :
             \E j \in group.contradicting : IsContradiction(proposals[i], proposals[j])
        /\ \A i \in DOMAIN proposals \ Surviving(proposals, rejected) :
             i \in group.suppressed \cup rejected \cup group.contradicting

(* Two proposals that contradict each other never both survive, whatever   *)
(* was merged into what before they were compared.  Of those that were     *)
(* found to contradict another at most one does, and then every proposal   *)
(* it contradicts was rejected by the critic or merged into a third one:   *)
(* in the latter case beside the third, which stands for its contrary.     *)
NoContradictionSurvives(proposals, rejected) ==
    \A group \in {Grouped(proposals)}, left \in {Surviving(proposals, rejected)} :
        /\ \A i \in left, j \in DOMAIN proposals :
             IsContradiction(proposals[i], proposals[j]) => j \in rejected \cup group.suppressed
        /\ Cardinality(left \cap group.contradicting) <= 1

(* A valid answer quotes at least one piece of evidence, verbatim, and     *)
(* more that is invented makes it invalid.                                 *)
ValidIsQuoted(answer) ==
    /\ Validate(answer) = "valid" => \E k \in DOMAIN answer.evidence : answer.evidence[k].verbatim
    /\ \A bad \in [shown : BOOLEAN, verbatim : {FALSE}] :
         Validate([answer EXCEPT !.evidence = Append(@, bad)]) # "valid"

(* A finding that is graver, less sure or less corroborated than one the   *)
(* critic is asked about is not spared the critic, unless it is too unsure *)
(* to be published.  A surer one may be spared: that is what the policy is *)
(* for.                                                                    *)
CriticIsMonotone(f, worse, peers, minimum, relaxed) ==
    ShouldCritique(f, peers, minimum, relaxed) /\ BestCase(worse) >= ConfidenceRank(minimum) =>
        ShouldCritique(worse, peers, minimum, relaxed)

(* A finding the critic is not asked about for its low confidence is one   *)
(* that a verdict could have published only by raising it: a "downgrade"   *)
(* that names a confidence above the best the finding could have had.      *)
SkippedCouldNotPublish(f, verdict, minimum) ==
    BestCase(f) < ConfidenceRank(minimum) /\ MeetsMinimum(Aggregate(f, verdict).confidence, minimum) =>
        /\ verdict.decision = "downgrade" /\ verdict.confidence # "none"
        /\ ConfidenceRank(verdict.confidence) > BestCase(f)

-----------------------------------------------------------------------------
(* The plan of the review: which findings it shows as comments on the      *)
(* diff, which in its summary and which not at all, and where a comment    *)
(* goes.                                                                   *)

(* The diff of a file: its status, whether GitHub sent a patch, and the    *)
(* lines of the new side that each hunk shows.                             *)
NoPosition == [start |-> 0, line |-> 0]

HunksOf(diff, n) == {h \in DOMAIN diff.hunks : n \in diff.hunks[h]}

(* map_finding_to_diff_position, for a safe path; the hunks of a diff do   *)
(* not overlap.                                                            *)
Position(f, diff) ==
    LET shown(n) == HunksOf(diff, n) # {}
        inOneHunk == \E h \in DOMAIN diff.hunks : f.start..f.end \subseteq diff.hunks[h]
    IN  IF diff.status \in {"absent", "removed"} \/ ~diff.patch THEN NoPosition
        ELSE IF f.start # f.end /\ inOneHunk THEN [start |-> f.start, line |-> f.end]
        ELSE IF shown(f.end) THEN [start |-> f.end, line |-> f.end]
        ELSE IF shown(f.start) THEN [start |-> f.start, line |-> f.start]
        ELSE NoPosition

-----------------------------------------------------------------------------
(* PublicationPlanner.build_plan.  A finding's number stands for its id.   *)
BypassesSeverityFloor(f) == f.confidence = "high" /\ f.category \in {"correctness", "security"}
MeetsMinSeverity(f, config) == SeverityRank(f.severity) >= SeverityRank(config.minSeverity)

SelectionKey(f) == <<4 - SeverityRank(f.severity), 2 - ConfidenceRank(f.confidence),
                     f.file, f.start, f.id>>

(* The best of S, at most n of them. *)
Best(S, n) ==
    {f \in S : Cardinality({g \in S : Precedes(SelectionKey(g), SelectionKey(f))}) < n}

(* What overflows the comments is offered to the summary.                  *)
SummaryCandidates(eligible, inline) == eligible \ inline

Plan(findings, reported, diffs, config) ==
    LET new      == {f \in findings : f.id \notin reported}
        eligible == {f \in new : MeetsMinSeverity(f, config) \/ BypassesSeverityFloor(f)}
        mappable == {f \in eligible : Position(f, diffs[f.file]) # NoPosition}
        inline   == Best(mappable, config.maxInline)
        summary  == Best(SummaryCandidates(eligible, inline), config.maxSummary)
        shown    == inline \cup summary
        nothing  == findings = {} /\ reported = {}
    IN  [inline |-> inline, summary |-> summary,
         omitted |-> (new \ eligible) \cup
                     (SummaryCandidates(eligible, inline) \ summary),
         reported |-> findings \ new,
         status |-> IF shown # {} \/ (nothing /\ config.postClean) THEN "planned"
                    ELSE "skipped_no_findings",
         clean |-> shown = {} /\ nothing /\ config.postClean]

-----------------------------------------------------------------------------
(* What the laws say of it. *)

(* Every finding is in the plan once, as a comment, in the summary, as     *)
(* omitted or as reported before; the review calls itself clean only if    *)
(* there is no finding, new or reported; and what would bypass the floor   *)
(* is omitted only if both lists are full.                                 *)
PlanLosesNothing(findings, reported, diffs, config) ==
    \A plan \in {Plan(findings, reported, diffs, config)} :
        /\ plan.inline \cup plan.summary \cup plan.omitted \cup plan.reported = findings
        /\ \A f \in findings : Cardinality({p \in {"inline", "summary", "omitted", "reported"} :
                                              f \in plan[p]}) = 1
        /\ plan.clean => findings = {} /\ reported = {}
        /\ \A f \in plan.omitted :
             \/ ~MeetsMinSeverity(f, config) /\ ~BypassesSeverityFloor(f)
             \/ Cardinality(plan.summary) = config.maxSummary
        /\ plan.summary # {} /\ config.maxInline > 0 =>
             \/ Cardinality(plan.inline) = config.maxInline
             \/ \A f \in plan.summary : Position(f, diffs[f.file]) = NoPosition

(* A comment stands on lines the diff shows, all in one hunk and within    *)
(* the finding; and a finding whose first or last line is shown has one.   *)
PositionIsShown(f, diff) ==
    LET p == Position(f, diff) IN
    /\ p # NoPosition =>
         /\ \E h \in DOMAIN diff.hunks : p.start..p.line \subseteq diff.hunks[h]
         /\ p.start \in f.start..f.end /\ p.line \in f.start..f.end
    /\ (p = NoPosition /\ diff.status = "modified" /\ diff.patch) =>
         HunksOf(diff, f.start) = {} /\ HunksOf(diff, f.end) = {}

(* Where a finding ends: 3 as a comment, 2 in the summary, 1 not shown.    *)
Prominence(f, plan) == IF f \in plan.inline THEN 3 ELSE IF f \in plan.summary THEN 2 ELSE 1

(* Rated worse, or found more surely, a finding is never shown less.       *)
WorseIsShownNoLess(f, worse, others, diffs, config) ==
    Prominence(worse, Plan(others \cup {worse}, {}, diffs, config))
      >= Prominence(f, Plan(others \cup {f}, {}, diffs, config))
=============================================================================
