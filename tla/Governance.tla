----------------------------- MODULE Governance -----------------------------
(***************************************************************************)
(* What policy decides.  May this pull request be merged, as far as        *)
(* Patchfrog knows: the evidence about its head, and the policies of       *)
(* platform, organization and repository that may ask for more; and which  *)
(* provider is given the code.                                             *)
(***************************************************************************)
EXTENDS Severities, FiniteSets, FiniteSetsExt

None == "none"

(* _same_head_fix_status, of the attempts to fix a finding at the head,    *)
(* oldest first.                                                           *)
FixStatus(attempts) ==
    LET meaningful == {i \in DOMAIN attempts : attempts[i] \notin {"stale", "error"}}
    IN  IF meaningful = {} THEN None
        ELSE IF \E i \in meaningful : attempts[i] = "fixed" THEN "fixed"
        ELSE attempts[Max(meaningful)]

(* What a finding of the run asks for, and what about it the code looks at.*)
Open(f) == ~f.closed /\ FixStatus(f.attempts) # "fixed"

Demand(f) ==
    LET status == FixStatus(f.attempts) IN
    IF ~Open(f) THEN "nothing"
    ELSE IF f.severity \in {"high", "critical"}
    THEN IF status \in {"inconclusive", "pending", "verifying"} THEN "human" ELSE "block"
    ELSE IF f.severity = "medium" /\ f.category = "security" THEN "human"
    ELSE "nothing"

(* MergeReadinessService.evaluate, of the latest run for the pull request; *)
(* without one, its status is None and it has no findings.                 *)
Readiness(head, run) ==
    IF run.commit # head \/ run.status # "succeeded" THEN "human"
    ELSE IF \E f \in run.findings : Demand(f) = "block" THEN "blocked"
    ELSE IF \E f \in run.findings : Demand(f) = "human" THEN "human"
    ELSE "ready"

-----------------------------------------------------------------------------
(* The policies.  A floor is a severity or None; None of the other fields  *)
(* is no opinion.                                                          *)
MeetsFloor(severity, floor) == floor # None /\ SeverityRank(severity) >= SeverityRank(floor)

StricterFloor(floors) ==
    LET given == floors \ {None}
    IN  IF given = {} THEN None
        ELSE CHOOSE f \in given : \A g \in given : SeverityRank(f) <= SeverityRank(g)

(* merge_policies, of the platform's rule and those there are of the       *)
(* organization and the repository.  {None} providers is no opinion.       *)
MergePolicies(scopes) ==
    LET rules == ToSet(scopes)
        said == {r.providers : r \in rules} \ {{None}}
    IN  [block |-> StricterFloor({r.block : r \in rules}),
         human |-> StricterFloor({r.human : r \in rules}),
         providers |-> IF said = {} THEN {None} ELSE {p \in UNION said : \A s \in said : p \in s},
         personal |-> \A r \in rules : r.personal # "no"]

(* apply_policy_to_merge_readiness *)
Governed(base, policy, unresolved, verification) ==
    LET asks == \/ verification = "unmet"
                \/ \E f \in unresolved : f.category = "security"
                     /\ (MeetsFloor(f.severity, policy.human) \/ MeetsFloor(f.severity, policy.block))
    IN  IF asks /\ base = "ready" THEN "human" ELSE base

-----------------------------------------------------------------------------
(* What the laws say of them. *)
ReadyRank(d) == CASE d = "ready" -> 2 [] d = "human" -> 1 [] d = "blocked" -> 0

Decision(head, run, scopes, verification) ==
    LET unresolved == {f \in run.findings : Open(f)}
    IN  Governed(Readiness(head, run), MergePolicies(scopes), unresolved, verification)

(* "Ready" means: a finished review of this very head, and of everything   *)
(* grave in it a fix that was verified at this head, or a human's close.   *)
ReadyIsEarned(head, run, scopes, verification) ==
    Decision(head, run, scopes, verification) = "ready" =>
      /\ run.commit = head /\ run.status = "succeeded"
      /\ verification # "unmet"
      /\ \A f \in run.findings :
           f.severity \in {"high", "critical"}
             => f.closed \/ \E i \in DOMAIN f.attempts : f.attempts[i] = "fixed"

(* One more finding, or the same one graver, never makes a head readier;   *)
(* nor does another scope with a rule of its own.                          *)
MoreFindingsNoReadier(head, run, worse, scopes, rule, verification) ==
    LET d(r, s) == ReadyRank(Decision(head, r, s, verification)) IN
    /\ d(worse, scopes) <= d(run, scopes)
    /\ d(run, Append(scopes, rule)) <= d(run, scopes)

(* A scope only ever tightens: no floor of a wider scope is lifted, no     *)
(* provider comes back, and the order of the scopes does not matter.       *)
ScopesOnlyTighten(scopes) ==
    LET all == MergePolicies(scopes) IN
    /\ \A i \in DOMAIN scopes : LET r == scopes[i] IN
         /\ r.block # None => SeverityRank(all.block) <= SeverityRank(r.block)
         /\ r.human # None => SeverityRank(all.human) <= SeverityRank(r.human)
         /\ r.providers # {None} => all.providers \subseteq r.providers
         /\ r.personal = "no" => ~all.personal
    /\ MergePolicies(Reverse(scopes)) = all

-----------------------------------------------------------------------------
(* Which provider reviews, which criticizes and which takes over when one  *)
(* fails, of those that have a credential and that the policy allows.      *)

NoProvider == "none"

(* SUPPORTED_PROVIDERS, in its order. *)
SupportedProviders == <<"anthropic", "gemini", "openai">>

(* allowed is {NoProvider} when the policy has no opinion.                 *)
Configured(credentials, allowed) ==
    {p \in ToSet(SupportedProviders) : p \in credentials /\ (allowed = {NoProvider} \/ p \in allowed)}

FirstSupported(providers) ==
    SupportedProviders[Min({i \in DOMAIN SupportedProviders : SupportedProviders[i] \in providers})]

(* _select_runtime_fallback_family *)
RuntimeFallback(configured, settings, primary) ==
    IF settings.fallback \in configured \ {primary}
    THEN settings.fallback ELSE NoProvider

(* _select_reviewer_family, after the cheap route; NoProvider is the       *)
(* error that there is no usable one.                                      *)
Reviewer(configured, settings, cheap) ==
    IF cheap /\ settings.cheap \in configured THEN settings.cheap
    ELSE IF settings.preferred \in configured THEN settings.preferred
    ELSE IF settings.fallback \in configured THEN settings.fallback
    ELSE NoProvider

(* _select_critic_family *)
Critic(configured, settings, reviewer) ==
    IF ~settings.critics THEN NoProvider
    ELSE IF Cardinality(configured) = 1 THEN reviewer
    ELSE IF settings.critic \in configured THEN settings.critic
    ELSE FirstSupported(configured \ {reviewer})

(* ProviderRouter.route; a plan without a reviewer stands for its errors.  *)
Route(credentials, allowed, settings, cheap) ==
    LET configured == Configured(credentials, allowed)
        reviewer == Reviewer(configured, settings, cheap)
        critic == IF reviewer = NoProvider THEN NoProvider ELSE Critic(configured, settings, reviewer)
        fallback(p) == IF p = NoProvider THEN NoProvider ELSE RuntimeFallback(configured, settings, p)
    IN  [reviewer |-> reviewer, critic |-> critic,
         reviewerFallback |-> fallback(reviewer), criticFallback |-> fallback(critic)]

-----------------------------------------------------------------------------
(* What the law says of it. *)

(* Code goes to no provider without a credential or outside the policy,    *)
(* whichever of the four places it is named in; a fallback is never the    *)
(* provider it stands in for; the critic is the reviewer only if the       *)
(* operator says so or there is no other; and without a reviewer nobody    *)
(* is given the code.                                                      *)
OnlyAllowedProviders(credentials, allowed, settings, cheap) ==
    \A plan \in {Route(credentials, allowed, settings, cheap)} :
    LET used == {plan[k] : k \in DOMAIN plan} \ {NoProvider}
    IN  /\ used \subseteq credentials
        /\ allowed # {NoProvider} => used \subseteq allowed
        /\ plan.reviewerFallback # NoProvider => plan.reviewerFallback # plan.reviewer
        /\ plan.criticFallback # NoProvider => plan.criticFallback # plan.critic
        /\ plan.critic = plan.reviewer /\ plan.critic # NoProvider =>
             settings.critic = plan.critic \/ Cardinality(Configured(credentials, allowed)) = 1
        /\ plan.reviewer = NoProvider => used = {}
=============================================================================
