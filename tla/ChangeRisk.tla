----------------------------- MODULE ChangeRisk -----------------------------
(***************************************************************************)
(* The cost-aware strategy's decisions: how risky a change is, what that   *)
(* tier may spend, which calls share the targets, to which target a        *)
(* finding belongs, and which second looks are worth a call.               *)
(***************************************************************************)
EXTENDS Severities, FiniteSets, FiniteSetsExt

(* classify_path, by what is true of the path.                             *)
NonCode == {"docs", "generated", "vendor", "lockfile"}

PathClasses(traits) ==
    LET special == traits \cap {"manifest", "ci", "migration", "schema"}
        config  == IF "config_name" \in traits
                      \/ ("config_suffix" \in traits /\ special \cap {"ci", "manifest"} = {})
                   THEN {"config"} ELSE {}
        classes == special \cup config
        test    == "test" \in traits /\ classes \cap {"ci", "manifest"} = {}
    IN  IF "vendor" \in traits THEN {"vendor"}
        ELSE IF "lockfile" \in traits THEN {"lockfile"}
        ELSE IF "generated" \in traits THEN {"generated"}
        ELSE IF classes = {} /\ "doc" \in traits THEN {"docs"}
        ELSE classes \cup (IF test THEN {"test"}
                           ELSE IF classes \subseteq {"schema", "migration", "config"} THEN {"code"}
                           ELSE {})

(* count_semantic_changed_lines of one hunk, for languages with slash      *)
(* comments.  A line is code, a comment of one line, blank, opens a block, *)
(* closes it, or closes it before code; the block is followed over deleted *)
(* and added lines alike.                                                  *)
SemanticLines(hunk) ==
    FoldLeft(LAMBDA acc, line :
               LET comment == IF acc.inBlock THEN line.text # "close_code"
                              ELSE line.text \in {"comment", "open"}
                   inBlock == IF acc.inBlock THEN line.text \notin {"close", "close_code"}
                              ELSE line.text = "open"
                   counts  == line.type # "context" /\ line.text # "blank" /\ ~comment
               IN  [inBlock |-> inBlock, n |-> IF counts THEN acc.n + 1 ELSE acc.n],
             [inBlock |-> FALSE, n |-> 0], hunk).n

(* _profile.  A file without hunks, renamed or too large to be shown,      *)
(* counts as a large change.                                               *)
Profile(f, policy) ==
    LET classes == IF ~policy.exclude /\ f.classes \cap {"generated", "vendor"} # {}
                   THEN {"code"} ELSE f.classes
        code == classes \cap NonCode = {}
        semantic == IF ~code THEN 0
                    ELSE IF ~f.hunks /\ f.semantic < policy.largeLines THEN policy.largeLines
                    ELSE f.semantic
        commentOnly == code /\ f.hunks /\ f.style /\ f.semantic = 0 /\ f.added + f.deleted > 0
    IN  [f EXCEPT !.classes = classes, !.semantic = semantic,
                  !.security = @ /\ code,
                  !.public = @ /\ code /\ ~commentOnly]
        @@ [reviewable |-> code /\ ~commentOnly]

SumOver(S, Of(_)) == FoldSet(LAMBDA f, acc : acc + Of(f), 0, S)

(* classify_change *)
ElevatingSignals ==
    {"large", "deletion_heavy", "cross_module", "manifest", "ci", "public", "schema",
     "migration", "security", "static"}

RiskSignals(review, static, policy) ==
    LET has(c)   == \E f \in review : c \in f.classes
        product  == {f \in review : "test" \notin f.classes}
        semantic == SumOver(review, LAMBDA f : f.semantic)
        added    == SumOver(review, LAMBDA f : f.added)
        deleted  == SumOver(review, LAMBDA f : f.deleted)
        when(p, s) == IF p THEN {s} ELSE {}
    IN  UNION {
          when(has("manifest"), "manifest"), when(has("ci"), "ci"), when(has("migration"), "migration"),
          when(\E f \in review : "schema" \in f.classes /\ "migration" \notin f.classes, "schema"),
          when(\E f \in product : f.public, "public"),
          when(\E f \in product : f.security, "security"),
          when(static, "static"),
          when(semantic >= policy.largeLines \/ Cardinality(review) >= policy.largeFiles, "large"),
          when(deleted >= policy.heavyDeleted /\ deleted >= 2 * Max({1, added}), "deletion_heavy"),
          when(Cardinality({f.module : f \in product}) >= policy.modules, "cross_module")}

TierOf(signals, review, policy) ==
    LET anchor   == signals \cap {"security", "static"}
        testOnly == \A f \in review : "test" \in f.classes
        semantic == SumOver(review, LAMBDA f : f.semantic)
    IN  CASE \/ anchor # {} /\ signals \ anchor # {}
             \/ anchor = {"security", "static"}
             \/ "migration" \in signals /\ signals \cap {"schema", "public", "large"} # {}
             \/ Cardinality(signals) >= 3               -> "high_risk"
          [] OTHER -> IF signals # {} THEN "elevated"
                      ELSE IF semantic <= (IF testOnly THEN policy.tinyTestLines ELSE policy.tinyLines)
                              /\ Cardinality(review) <= policy.tinyFiles
                           THEN "tiny" ELSE "normal"

Classification(files, static, policy) ==
    LET profiles == {Profile(f, policy) : f \in files}
        review   == {p \in profiles : p.reviewable}
        signals  == RiskSignals(review, static, policy)
        empty    == \A f \in files : f.added + f.deleted = 0 /\ f.hunks
    IN  IF empty \/ review = {} THEN [tier |-> "no_ai", signals |-> {}, files |-> profiles]
        ELSE [tier |-> TierOf(signals, review, policy), signals |-> signals, files |-> profiles]

TierRank(t) == CASE t = "no_ai" -> 0 [] t = "tiny" -> 1 [] t = "normal" -> 2
                 [] t = "elevated" -> 3 [] t = "high_risk" -> 4

(* ReviewCostPolicy: the calls of a tier, and those its detection may use. *)
CallBudget(tier) ==
    CASE tier = "no_ai" -> 0 [] tier \in {"tiny", "normal"} -> 2
      [] tier = "elevated" -> 3 [] tier = "high_risk" -> 5
VerificationReserve(tier) ==
    CASE tier = "no_ai" -> 0 [] tier = "high_risk" -> 2 [] OTHER -> 1
ReviewCallBudget(tier) ==
    IF CallBudget(tier) = 0 THEN 0 ELSE Max({1, CallBudget(tier) - VerificationReserve(tier)})

(* The calls of a run and those of its detection: most is the repository's *)
(* own limit.  Static findings on the change are read only after a change  *)
(* of which nothing is to be reviewed has been turned away.                *)
TierBudget(tier, most) ==
    LET calls == Min({most, CallBudget(tier)}) IN [calls |-> calls, review |-> Min({calls, ReviewCallBudget(tier)})]

RunBudget(files, static, costAware, most, policy) ==
    IF ~costAware THEN [calls |-> most, review |-> most]
    ELSE IF Classification(files, FALSE, policy).tier = "no_ai" THEN [calls |-> 0, review |-> 0]
    ELSE TierBudget(Classification(files, static, policy).tier, most)

-----------------------------------------------------------------------------
(* plan_batches: targets in order, each batch as long as its estimate,     *)
(* here a prompt of its own and the sizes of its targets, is within max.   *)
Batches(sizes, prompt, most) ==
    LET estimate(batch) == prompt + FoldLeft(LAMBDA acc, k : acc + sizes[k], 0, batch)
        step(acc, k) ==
          IF acc.current # <<>> /\ estimate(Append(acc.current, k)) > most
          THEN [done |-> Append(acc.done, acc.current), current |-> <<k>>]
          ELSE [acc EXCEPT !.current = Append(@, k)]
        all == FoldLeft(step, [done |-> <<>>, current |-> <<>>], [k \in DOMAIN sizes |-> k])
    IN  IF all.current = <<>> THEN all.done ELSE Append(all.done, all.current)

(* attribute_finding: the target of the file that the finding overlaps     *)
(* most, then the nearest, then the first; else one that was shown the     *)
(* file; else the first of all.                                            *)
OverlapLines(a, b) == LET n == Min({a.end, b.end}) - Max({a.start, b.start}) + 1
                      IN  IF n < 0 THEN 0 ELSE n
Far(m, n) == IF m < n THEN n - m ELSE m - n
Distance(f, t) == Min({Far(f.start, t.start), Far(f.start, t.end)})

Attribute(f, targets) ==
    LET same == {k \in DOMAIN targets : targets[k].file = f.file}
        key(k) == <<1000 - OverlapLines(f, targets[k]), Distance(f, targets[k]), k>>
        shown == {k \in DOMAIN targets : f.file \in targets[k].shown}
    IN  IF same # {} THEN CHOOSE k \in same : \A j \in same \ {k} : Precedes(key(k), key(j))
        ELSE IF shown # {} THEN Min(shown) ELSE 1

(* _remaining_review_calls, for the decision after the first pass.         *)
RemainingCalls(tier, used) ==
    Max({0, Min({CallBudget(tier) - used, ReviewCallBudget(tier) - used + 1})})

(* decide_escalations.  A target: its file, whether it has static findings *)
(* and whether the first pass found something high or of security.  What   *)
(* remains must leave one call to the verification.                        *)
FilesWith(c, class) == {f.path : f \in {f \in c.files : class \in f.classes}}

SecurityTargets(c, targets) ==
    LET of(paths) == {k \in DOMAIN targets : targets[k].file \in paths}
        security  == {f.path : f \in {f \in c.files : f.security}}
        static    == {k \in DOMAIN targets : targets[k].static}
    IN  IF "static" \in c.signals THEN IF static = {} THEN DOMAIN targets ELSE static
        ELSE IF security # {} THEN of(security)
        ELSE IF "ci" \in c.signals THEN of(FilesWith(c, "ci"))
        ELSE {k \in DOMAIN targets : targets[k].risky}

CorrectnessTargets(c, targets) ==
    LET paths == IF "migration" \in c.signals THEN FilesWith(c, "migration")
                 ELSE IF c.signals \cap {"public", "schema"} # {}
                 THEN {f.path : f \in {f \in c.files : f.public}} \cup FilesWith(c, "schema")
                 ELSE {}
        of == {k \in DOMAIN targets : targets[k].file \in paths}
    IN  IF c.signals \cap {"migration", "public", "schema", "cross_module"} = {} THEN {}
        ELSE IF of = {} THEN DOMAIN targets ELSE of

(* A mistake the code does not make: the last call is not kept back.       *)
EscalationsToTheLast(c, targets, remaining) ==
    LET security == SecurityTargets(c, targets)
        first == security # {} /\ remaining >= 1
        left  == CorrectnessTargets(c, targets) \ (IF first THEN security ELSE {})
        second == c.tier = "high_risk" /\ left # {} /\ remaining - (IF first THEN 1 ELSE 0) >= 1
    IN  IF c.tier \notin {"elevated", "high_risk"} THEN <<>>
        ELSE (IF first THEN <<[role |-> "security", targets |-> security]>> ELSE <<>>) \o
             (IF second THEN <<[role |-> "correctness", targets |-> left]>> ELSE <<>>)

Escalations(c, targets, remaining) ==
    LET security == SecurityTargets(c, targets)
        first == security # {} /\ remaining >= 2
        left  == CorrectnessTargets(c, targets) \ (IF first THEN security ELSE {})
        second == c.tier = "high_risk" /\ left # {} /\ remaining - (IF first THEN 1 ELSE 0) >= 2
    IN  IF c.tier \notin {"elevated", "high_risk"} THEN <<>>
        ELSE (IF first THEN <<[role |-> "security", targets |-> security]>> ELSE <<>>) \o
             (IF second THEN <<[role |-> "correctness", targets |-> left]>> ELSE <<>>)

-----------------------------------------------------------------------------
(* What the laws say of them. *)

(* Only a path of which nothing else is known is left unreviewed.          *)
UnreviewedOnlyIfPlain(traits) ==
    /\ PathClasses(traits) # {}
    /\ PathClasses(traits) \cap NonCode # {} => Cardinality(PathClasses(traits)) = 1
    /\ "docs" \in PathClasses(traits) => traits \cap {"manifest", "ci", "migration", "schema"} = {}

(* Another file, or a static finding, never lowers the tier, unless the    *)
(* file's added lines hide that the change mostly deletes; and a tier      *)
(* without calls is only for changes of which no file is to be reviewed.   *)
MoreChangeMoreRisk(files, f, static, policy) ==
    \A c \in {Classification(files, static, policy)}, more \in {Classification(files \cup {f}, TRUE, policy)} :
        /\ TierRank(c.tier) <= TierRank(more.tier) \/ "deletion_heavy" \in c.signals \ more.signals
        /\ CallBudget(c.tier) = 0 =>
             \A p \in c.files : ~p.reviewable \/ p.added + p.deleted = 0
        /\ ReviewCallBudget(c.tier) <= CallBudget(c.tier)

(* A static finding never takes a call away from the run; a run that looks *)
(* at anything may ask, and detection leaves verification a call unless    *)
(* the repository's own limit is within what detection alone may use.      *)
BudgetFollowsRisk(files, static, most, policy) ==
    \A tier \in {Classification(files, static, policy).tier}, budget \in {RunBudget(files, static, TRUE, most, policy)} :
        /\ budget.calls <= RunBudget(files, TRUE, TRUE, most, policy).calls
        /\ budget.review <= budget.calls /\ budget.calls <= RunBudget(files, static, FALSE, most, policy).calls
        /\ budget.review = 0 <=> tier = "no_ai"
        /\ most > ReviewCallBudget(tier) /\ budget.calls > 0 => budget.review < budget.calls

(* The batches are the targets in their order, and one that is too long    *)
(* holds a single target; no two neighbours could have been one.           *)
BatchesLoseNothing(sizes, prompt, most) ==
    LET batches == Batches(sizes, prompt, most)
        length(b) == prompt + FoldLeft(LAMBDA acc, k : acc + sizes[k], 0, b)
    IN  /\ FlattenSeq(batches) = [k \in DOMAIN sizes |-> k]
        /\ \A i \in DOMAIN batches : batches[i] # <<>>
        /\ \A i \in DOMAIN batches : length(batches[i]) <= most \/ Len(batches[i]) = 1
        /\ \A i \in DOMAIN batches : i < Len(batches) =>
             length(batches[i]) + sizes[Head(batches[i + 1])] > most

(* A finding goes to a target it overlaps, if there is one; else to one    *)
(* that was shown its file, if there is one.                               *)
FindingFindsItsTarget(f, targets) ==
    LET k == Attribute(f, targets) IN
    /\ (\E t \in DOMAIN targets : Overlap(f, targets[t])) => Overlap(f, targets[k])
    /\ (\E t \in DOMAIN targets : targets[t].file = f.file) => targets[k].file = f.file
    /\ (\E t \in DOMAIN targets : f.file \in targets[t].shown \cup {targets[t].file}) =>
         f.file \in targets[k].shown \cup {targets[k].file}

(* Second looks are within what detection may still use and leave the      *)
(* verification its call; none looks where another did, and they come only *)
(* from an elevated change or worse.                                       *)
EscalationsAreAffordable(c, targets, used) ==
    \A plans \in {Escalations(c, targets, RemainingCalls(c.tier, used))} :
    /\ Len(plans) <= (IF c.tier = "high_risk" THEN 2 ELSE IF c.tier = "elevated" THEN 1 ELSE 0)
    /\ plans # <<>> => /\ used + Len(plans) <= ReviewCallBudget(c.tier)
                       /\ used + Len(plans) < CallBudget(c.tier)
    /\ \A i \in DOMAIN plans : plans[i].targets # {}
    /\ \A i, j \in DOMAIN plans : i # j => plans[i].targets \cap plans[j].targets = {}

(* What is counted as nothing but comments has no changed line of code     *)
(* outside a block comment that the hunk shows, and none behind its end.   *)
CommentsHideNoCode(hunk) ==
    SemanticLines(hunk) = 0 =>
      \A i \in {i \in DOMAIN hunk : hunk[i].type # "context"} :
        /\ hunk[i].text # "close_code"
        /\ hunk[i].text = "code" =>
          \E j \in 1..(i - 1) : hunk[j].text = "open" /\ \A k \in j..i : hunk[k].text \notin {"close", "close_code"}
=============================================================================
