------------------------------ MODULE Campaigns ------------------------------
(***************************************************************************)
(* One workspace's campaign about one upstream change.                     *)
(*                                                                         *)
(* A run is given the enrolled repositories with what could be obtained of *)
(* each, loads the stored campaign, evaluates every repository, publishes  *)
(* the pull requests the policy and the humans allow (module MigrationPR), *)
(* and stores the campaign in one transaction, over whatever is stored by  *)
(* then.  The hosting service starts runs when it likes, also again and    *)
(* side by side; a run may raise or be killed.                             *)
(***************************************************************************)
EXTENDS MigrationPR, FiniteSets
LOCAL INSTANCE TLC

-----------------------------------------------------------------------------
(* What a campaign says of a repository, of all of them, and whether a     *)
(* pull request is opened.                                                 *)


Freshness == {"fresh", "stale", "unknown", "access_lost"}
OrgClass == {"not_affected", "affected", "unknown"}
Outcome == {"verified", "partially_verified", "human_required", "unverified",
            "failed", "regression_detected"}
PRStatus == {"planned", "dry_run", "opened", "updated", "no_op_unchanged",
             "skipped_not_eligible", "stale_requires_regeneration", "failed"}
MigrationStatus == {"planned", "patch_generated", "partial", "human_required",
                    "unsupported", "failed"}
Eligibility == {"auto_open", "open_with_operator_approval", "plan_only", "not_eligible"}

InFlight == {"migration_planned", "patch_generated", "verifying", "verified", "pr_opened"}
Blocking == {"impacted", "human_required", "failed", "partially_verified",
             "unverified", "stale", "unknown", "access_lost"}
Done == {"not_affected", "resolved"}
SystemBlocked == {"failed", "access_lost"}
RepoState == InFlight \cup Blocking \cup Done
CampaignState == {"detected", "analyzing", "action_required", "migrating",
                  "partially_resolved", "resolved", "blocked"}

(* RepoFacts; "none" stands for a fact there is none of, 0 for no number.  *)
RepoFacts ==
    [failed : BOOLEAN, freshness : Freshness, class : OrgClass, ever : BOOLEAN,
     migration : MigrationStatus \cup {"none"}, automatic : BOOLEAN, patch : BOOLEAN,
     outcome : Outcome \cup {"none"}, pr : PRStatus \cup {"none"}, number : Nat]

NoFacts == [failed |-> FALSE, freshness |-> "fresh", class |-> "affected", ever |-> TRUE,
            migration |-> "none", automatic |-> FALSE, patch |-> FALSE,
            outcome |-> "none", pr |-> "none", number |-> 0]

-----------------------------------------------------------------------------
(* classify_repository: evidence that is not fresh says nothing.           *)
Classify(freshness, impact) ==
    CASE freshness # "fresh"    -> "unknown"
      [] freshness = "fresh" /\ impact = "affected"   -> "affected"
      [] freshness = "fresh" /\ impact = "unaffected" -> "not_affected"
      [] OTHER                  -> "unknown"

(* derive_repo_state, by what is known: no verification, a verification,   *)
(* an affected repository, any repository.                                 *)
PlannedState(f) ==
    CASE f.migration \in {"human_required", "unsupported"} -> "human_required"
      [] f.migration = "failed" -> "failed"
      [] f.migration \notin {"human_required", "unsupported", "failed"} ->
           IF f.patch THEN "patch_generated"
           ELSE IF f.migration = "none" THEN "impacted"
           ELSE IF f.automatic THEN "migration_planned" ELSE "human_required"

PRIsOpen(f) == f.pr \in {"opened", "updated"} /\ f.number # 0
ClosedByHuman(f) == f.pr = "no_op_unchanged" /\ f.number # 0

AffectedState(f) ==
    IF f.outcome \in {"regression_detected", "failed"} THEN "failed"
    ELSE IF f.outcome = "human_required" \/ ClosedByHuman(f) THEN "human_required"
    ELSE IF PRIsOpen(f) /\ f.outcome \in {"verified", "partially_verified"} THEN "pr_opened"
    ELSE IF f.outcome # "none" THEN f.outcome
    ELSE PlannedState(f)

DeriveRepoState(f) ==
    IF f.failed THEN "failed"
    ELSE IF f.freshness # "fresh" THEN f.freshness
    ELSE CASE f.class = "not_affected" -> IF f.ever THEN "resolved" ELSE "not_affected"
           [] f.class = "unknown"      -> "unknown"
           [] f.class = "affected"     -> AffectedState(f)

(* derive_campaign_state over the evaluated repositories' states; scope is *)
(* how many there are, of which some may not be evaluated yet.             *)
DeriveCampaignState(states, evaluated, scope) ==
    IF evaluated = 0 THEN "detected"
    ELSE IF evaluated < scope THEN "analyzing"
    ELSE IF states \subseteq Done THEN "resolved"
    ELSE IF "resolved" \in states THEN "partially_resolved"
    ELSE IF states \cap Blocking = {} THEN "migrating"
    ELSE IF states \cap InFlight = {} /\ states \cap Blocking \subseteq SystemBlocked
         THEN "blocked" ELSE "action_required"

-----------------------------------------------------------------------------
(* determine_eligibility *)
DetermineEligibility(outcome, allowPartial) ==
    CASE outcome = "verified" -> "auto_open"
      [] outcome = "partially_verified" /\ allowPartial -> "open_with_operator_approval"
      [] outcome = "human_required" -> "plan_only"
      [] OTHER -> "not_eligible"

(* decide_publication on the workspace's policy, then _approved if a human *)
(* approved this repository.                                               *)
Watch == {"off", "detect_only", "migrate", "migrate_and_open_pr"}
Publishing == {"automatic", "draft_only", "manual_approval"}
WorkspacePolicy == [watch : Watch, partial : BOOLEAN, publication : Publishing]

Migrates(policy) == policy.watch \in {"migrate", "migrate_and_open_pr"}

DecidePublication(policy, eligibility) ==
    IF policy.watch # "migrate_and_open_pr" \/ eligibility \in {"plan_only", "not_eligible"}
    THEN "none"
    ELSE CASE policy.publication = "manual_approval" -> "await_approval"
           [] policy.publication = "draft_only"      -> "publish_draft"
           [] policy.publication = "automatic"       ->
                IF eligibility = "auto_open" THEN "publish" ELSE "publish_draft"

Approve(action, eligibility) ==
    IF action # "await_approval" THEN action
    ELSE IF eligibility = "auto_open" THEN "publish" ELSE "publish_draft"

Writes(action) == action \in {"publish", "publish_draft"}

-----------------------------------------------------------------------------
CONSTANTS
    Policy,         \* the workspace's policy, the same for all runs
    Evidence,       \* freshness the caller may find
    Outcomes        \* verdicts verification may return

ASSUME CampaignAssumption ==
    /\ Policy \in WorkspacePolicy /\ Policy.watch # "off"
    /\ Evidence \subseteq Freshness /\ Outcomes \subseteq Outcome

VARIABLES
    stored,         \* the campaign in the database, or Nothing
    runs,           \* [Run -> its progress]
    (* history *)
    outdated,       \* runs since whose load another has stored
    affected,       \* repositories a stored run has found affected
    remembered      \* the same, as far as no outdated run was stored since
                    \* and the repository has stayed in scope

historyVars == <<outdated, affected, remembered>>
vars == <<migrationVars, stored, runs, historyVars>>

(* RepositoryRecord, without what is displayed. *)
Record == [state : RepoState, class : OrgClass, ever : BOOLEAN, base : Commit,
           outcome : Outcome \cup {"none"}, pr : Status \cup {"none"}, number : Nat]
CampaignRow(scope) ==
    [state : CampaignState, version : Nat \ {0}, records : [scope -> Record]]
NoRecords == [r \in {} |-> Nothing]

ASSUME NothingAssumption == \A scope \in SUBSET Repo : Nothing \notin CampaignRow(scope)

(* EnrolledRepository and RepositoryInput: what the caller has of it.      *)
Entry == [freshness : Freshness, base : Commit, uses : BOOLEAN]

(* A run with entries for some repositories, an earlier campaign about     *)
(* some, and records of some.                                              *)
RunState(given, before, scope) ==
    [stage : {"none", "launched", "publishing", "ended"}, entries : [given -> Entry],
     approved : SUBSET Repo, previous : CampaignRow(before) \cup {Nothing},
     records : [scope -> Record], pending : SUBSET scope]
NotRun == [stage |-> "none", entries |-> NoRecords, approved |-> {},
           previous |-> Nothing, records |-> NoRecords, pending |-> {}]

TypeOK ==
    /\ MigrationTypeOK
    /\ stored = Nothing \/ \E scope \in SUBSET Repo : stored \in CampaignRow(scope)
    /\ DOMAIN runs = Run
    /\ \A u \in Run : \E given, before, scope \in SUBSET Repo :
         runs[u] \in RunState(given, before, scope)
    /\ outdated \subseteq Run /\ affected \subseteq Repo /\ remembered \subseteq Repo

Init ==
    /\ MigrationInit
    /\ stored = Nothing /\ runs = [u \in Run |-> NotRun]
    /\ outdated = {} /\ affected = {} /\ remembered = {}

Is(u, s) == runs[u].stage = s

-----------------------------------------------------------------------------
(* The caller collects its entries and calls process_change_for_workspace. *)
Launch(u) ==
    /\ Is(u, "none")
    /\ \E scope \in SUBSET Repo : \E fresh \in [scope -> Evidence], approved \in SUBSET scope :
         runs' = [runs EXCEPT ![u] =
           [NotRun EXCEPT !.stage = "launched", !.approved = approved,
                          !.entries = [r \in scope |-> [freshness |-> fresh[r],
                                                        base |-> base[r], uses |-> uses[r]]]]]
    /\ UNCHANGED <<migrationVars, stored, historyVars>>

(* evaluate_repository: an evaluation that raises fails its repository     *)
(* only, and evidence that is not fresh is not looked at; _base_record     *)
(* takes over that the repository was affected once.                       *)
Prior(r) == IF stored # Nothing /\ r \in DOMAIN stored.records
            THEN stored.records[r].ever ELSE FALSE

(* Mutant: only an evaluation that looks at the repository takes it over.  *)
PriorUnlessFailed(e, raises, r) == ~raises /\ e.freshness = "fresh" /\ Prior(r)

WasAffected(e, raises, r) == Prior(r)

Evaluated(e, raises, outcome, r) ==
    LET class == IF raises THEN "unknown"
                 ELSE Classify(e.freshness, IF e.uses THEN "affected" ELSE "unaffected")
        ever  == WasAffected(e, raises, r) \/ class = "affected"
        verdict == IF class = "affected" /\ Migrates(Policy) THEN outcome ELSE "none"
    IN  [state |-> DeriveRepoState([NoFacts EXCEPT !.failed = raises, !.freshness = e.freshness,
                                      !.class = class, !.ever = ever, !.outcome = verdict]),
         class |-> class, ever |-> ever, base |-> e.base,
         outcome |-> verdict, pr |-> "none", number |-> 0]

(* _publish_phase's choice *)
ToPublish(u, records) ==
    {r \in DOMAIN records :
       /\ records[r].outcome # "none"
       /\ LET eligibility == DetermineEligibility(records[r].outcome, Policy.partial)
              action == DecidePublication(Policy, eligibility)
          IN  Writes(IF r \in runs[u].approved THEN Approve(action, eligibility) ELSE action)}

LoadAndEvaluate(u) ==
    /\ Is(u, "launched")
    /\ LET entries == runs[u].entries  scope == DOMAIN entries IN
       \E raising \in SUBSET scope, outcome \in [scope -> Outcomes] :
         LET records == [r \in scope |-> Evaluated(entries[r], r \in raising, outcome[r], r)]
         IN  runs' = [runs EXCEPT ![u].stage = "publishing", ![u].previous = stored,
                                  ![u].entries = NoRecords, ![u].records = records,
                                  ![u].pending = ToPublish(u, records)]
    /\ UNCHANGED <<migrationVars, stored, historyVars>>

-----------------------------------------------------------------------------
(* One repository after the other; an exception fails the repository only. *)
PublishNext(u) ==
    /\ Is(u, "publishing")
    /\ \E r \in runs[u].pending :
         /\ BeginPublish(u, r, runs[u].records[r].base)
         /\ runs' = [runs EXCEPT ![u].pending = @ \ {r}]
    /\ UNCHANGED <<githubVars, rows, raced, faults, stored, historyVars>>

(* _apply_publication *)
Applied(record, status, number) ==
    [record EXCEPT !.pr = status, !.number = number,
       !.state = DeriveRepoState([NoFacts EXCEPT !.ever = record.ever,
                  !.outcome = record.outcome, !.pr = status, !.number = number])]

FinishPublish(u) ==
    /\ RecordRow(u)
    /\ runs' = [runs EXCEPT ![u].records[work[u].repo] =
                  Applied(@, work[u].status, work[u].number)]
    /\ UNCHANGED <<stored, historyVars>>

PublishRaises(u) ==
    /\ ~At(u, "idle") /\ faults < MaxFaults
    /\ faults' = faults + 1
    /\ work' = [work EXCEPT ![u] = Idle]
    /\ runs' = [runs EXCEPT ![u].records[work[u].repo].state = "failed"]
    /\ UNCHANGED <<githubVars, rows, raced, stored, historyVars>>

-----------------------------------------------------------------------------
(* Mutant: the records are compared as they are. *)
RawSignature(records) == records

(* _signature: a pull request that was opened, or updated, is one fact.    *)
Signature(records) ==
    [r \in DOMAIN records |-> [records[r] EXCEPT !.pr = IF @ = "updated" THEN "opened" ELSE @]]

(* CampaignStore.upsert and the audit trail, in one transaction: the row's *)
(* version never falls, all else is the run's; repositories out of scope   *)
(* are deleted.                                                            *)
States(records) == {records[r].state : r \in DOMAIN records}
StateOf(records) ==
    LET n == Cardinality(DOMAIN records) IN DeriveCampaignState(States(records), n, n)

VersionOf(u) ==
    LET previous == runs[u].previous  records == runs[u].records IN
    IF previous = Nothing THEN 1
    ELSE IF /\ Signature(previous.records) = Signature(records)
            /\ previous.state = StateOf(records)
         THEN previous.version ELSE previous.version + 1

Persist(u) ==
    /\ Is(u, "publishing") /\ At(u, "idle") /\ runs[u].pending = {}
    /\ LET records == runs[u].records
           found == {r \in DOMAIN records : records[r].class = "affected"}
           old == IF stored = Nothing THEN 0 ELSE stored.version
       IN  /\ stored' = [state |-> StateOf(records), records |-> records,
                         version |-> IF VersionOf(u) > old THEN VersionOf(u) ELSE old]
           /\ affected' = affected \cup found
           /\ remembered' = found \cup (IF u \in outdated THEN {}
                                        ELSE remembered \cap DOMAIN records)
    /\ runs' = [runs EXCEPT ![u] = [NotRun EXCEPT !.stage = "ended"]]
    /\ outdated' = {v \in Run \ {u} : Is(v, "publishing")}
                   \cup (outdated \ {u})
    /\ UNCHANGED migrationVars

(* Killed, or raising in the transaction: nothing is stored. *)
RunLost(u) ==
    /\ runs[u].stage \in {"launched", "publishing"} /\ faults < MaxFaults
    /\ faults' = faults + 1
    /\ runs' = [runs EXCEPT ![u] = [NotRun EXCEPT !.stage = "ended"]]
    /\ work' = [work EXCEPT ![u] = Idle]
    /\ outdated' = outdated \ {u}
    /\ UNCHANGED <<githubVars, rows, raced, stored, affected, remembered>>

RunStep(u) ==
    \/ LoadAndEvaluate(u) \/ PublishNext(u) \/ FinishPublish(u) \/ PublishRaises(u)
    \/ Persist(u) \/ RunLost(u)
    \/ PublishStep(u) /\ UNCHANGED <<stored, runs, historyVars>>

Next ==
    \/ \E u \in Run : Launch(u) \/ RunStep(u)
    \/ \E r \in Repo : Human(r) /\ UNCHANGED <<stored, runs, historyVars>>

Spec == Init /\ [][Next]_vars

-----------------------------------------------------------------------------
(* ResolvedIsEarned: the campaign says RESOLVED of a repository only if a  *)
(* stored run once found it affected, and says NOT_AFFECTED only if none   *)
(* did, through any sequence of failed, stale, unpublished and lost runs   *)
(* (while no run that started from an older campaign was stored on top,    *)
(* and the repository did not leave the scope).                            *)
ResolvedIsEarned ==
    stored # Nothing => \A r \in DOMAIN stored.records :
        /\ stored.records[r].state = "resolved" => r \in affected
        /\ stored.records[r].state = "not_affected" => r \notin remembered

(* VersionTellsChange: a run that started from the stored campaign bumps   *)
(* its version exactly if a reader sees another state, another record or   *)
(* another pull request; whether the pull request was opened by this run   *)
(* or an earlier one is no difference.                                     *)
Facts(record) == <<record.state, record.class, record.ever, record.base, record.outcome,
                   IF record.pr \in {"opened", "updated"} THEN "open" ELSE record.pr,
                   record.number>>
Seen(c) == <<c.state, [r \in DOMAIN c.records |-> Facts(c.records[r])]>>

VersionTellsChange ==
    [][\A u \in Run \ outdated : Persist(u) /\ stored # Nothing =>
          (stored'.version # stored.version <=> Seen(stored') # Seen(stored))]_vars

-----------------------------------------------------------------------------
(* For TLC: a human approves every pull request; runs and repositories are *)
(* interchangeable.                                                        *)
ManualApproval == [watch |-> "migrate_and_open_pr", partial |-> FALSE, publication |-> "manual_approval"]
Symmetry == Permutations(Repo) \cup Permutations(Run)
=============================================================================
