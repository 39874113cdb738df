# PatchFrog in TLA+

PatchFrog reviews GitHub pull requests: a webhook arrives, a worker fetches and
indexes the repository, static analysis and a budgeted set of language-model
calls produce findings, and the findings are posted as a GitHub review and a
check run. Around that it remembers findings over a pull request's life, verifies
fixes, follows the contracts of what a repository depends on, and opens
migration pull requests. This directory models two kinds of things:

- what depends on *order*: several Celery workers, one Postgres database, Redis
  and the GitHub API share no transaction, tasks are acknowledged before they
  run, webhooks are redelivered and reordered, any worker may be killed between
  any two commits, and inside a review dozens of provider calls share one budget;
- *decisions* that are functions of their inputs: what is reviewed, how hard, what
  becomes of a finding, what a change breaks, how a call is migrated.

The modules are translated from the code (paths below are relative to the
repository's root, `review/...` stands for `patchfrog/review/...`);
`PROJECT.json` maps every definition to the lines it stands for, lists the
hazards of the code with the properties that cover them, and names for every
property a change to the code's model that breaks it.

Contents: [1 Inventory](#1-inventory), [2 Modules and plan](#2-modules-and-plan),
[3 Publication](#3-publication), [4 The budget ledger](#4-the-budget-ledger),
[5 Provider calls and the review run](#5-provider-calls-and-the-review-run),
[6 The other components](#6-the-other-components) (identity and memory, intake, pipeline,
campaigns, feedback, fixes, decisions), [7 Proofs](#7-proofs),
[8 Further observations](#8-further-observations),
[9 Not modelled](#9-not-modelled).

## 1. Inventory

**M** = modelled, **P** = partly modelled, blank = not; section 9 says why.

| | Component | State it keeps | Operations | Talks to | What makes it correct |
|---|---|---|---|---|---|
| **M** | Webhook API (`apps/api/routes/github_webhooks.py`) | none | verify, parse, enqueue | Celery | a verified event is enqueued or lost with its request |
| **M** | Ingestion (`services/pull_request_ingestion.py`) | `pull_request_ingestions` by delivery id, `pull_requests` | reserve, fetch, upsert, complete, fail | GitHub, pipeline task | a delivery starts one pipeline; the stored pull request does not go backwards |
| **M** | Installation sync (`services/installation_sync.py`) | `installations`, `repositories.is_selected` | created, deleted, suspend, unsuspend, added, removed | webhooks | rows follow GitHub when messages do |
| **M** | Eligibility and scheduling (`ops/eligibility.py`, `ops/orchestrator.py`) | none of its own | gate, quota, limits | every later stage | no review outside the allowlist |
| **M** | Pipeline tasks and check runs (`apps/worker/tasks/run_review_pipeline.py`, `publishing/checks.py`) | GitHub check runs | index, analyze, review, publish; list, create or update a check | GitHub, index | one check per head, which tells the truth in the end |
| **M** | Repository index (`persistence/repositories/repository_index.py`, `indexing/`) | `repository_indexes`, files, symbols, edges, the parse cache | build, activate | pipeline, context, analysis | one active index; a review uses that of its commit; the cache changes nothing |
| **M** | Symbol graph queries (`intelligence/`) | none | resolve imports and calls, relate tests, query | index | a call is resolved only to what it can mean |
| **M** | Static analysis (`analysis/`, `apps/worker/tasks/analyze_repository.py`) | `analysis_runs`, findings | choose, run in a sandbox, parse, enrich, deduplicate | analyzers, index | a run that SUCCEEDED saw everything; one per identity |
| **P** | Parsing, diff, checkout (`parsing/`, `diff/`, `repository/`) | none | detect, parse, list, compare | git | nothing a later stage asks for is missing |
| **M** | Review run (`review/service.py`, `review/orchestration.py`) | one run's in-memory state: candidates, token pool, findings | prepare, detect, escalate, critique, retry, fall back, finish | providers, ledger | the run ends, with the status its parts deserve; no finding is published because its critic was refused |
| **M** | Review budget (`review/budget.py`) | counters of one run | reserve_call, reconcile, terminate, snapshot | every provider call | no ceiling is passed by concurrent calls; a refusal is reported; verification keeps its reserve |
| **M** | Preparation and record of a run (`review/candidates.py`, `review/effort.py`, `review/service.py`), finding pipeline (`review/agents/cross_role.py`, `confidence.py`, ...), change risk (`change_risk/`) | rows below a run | candidates, tiers, aggregation, status of every proposal | review run | what is shown is verified, what is left out is represented |
| **P** | Context building (`context/`) | context bundles | collect, expand, score, deduplicate, cut, pack | index | what is close is offered; stays within its budget |
| **M** | Run identity (`persistence/repositories/review_run.py`) | `review_runs` | get or create under the identity lock, claim for write, mark | review tasks | one SUCCEEDED run per identity, for ever |
| **P** | Review memory (`review_memory/`) | findings across runs, generations | prepare (ancestry, plan), finalize (transitions, new findings, generation) | run identity, GitHub | code is skipped only if it was reviewed; findings are neither lost nor resolved unseen |
| **M** | Publication (`publishing/service.py`, `persistence/repositories/review_publication.py`, `apps/worker/tasks/publish_review.py`) | `review_publications`, their comments | publish, reconcile, supersede, retry | GitHub | one review per run and policy, never orphaned |
| **P** | Planner, diff mapper, body (`publishing/planner.py`, `diff_mapper.py`) | none | build_plan, map position | publication | every finding is commented, summarized or counted |
| **M** | Fix verification (`fix_verification/`), executable verification (`executable_verification/`, `apps/verifier/`) | `fix_attempts`; artifacts and results in Redis | start, verify, decide; stage, dispatch, wait, run | verifier worker | an attempt is verified once, by the answer to its own request |
| **M** | Feedback (`feedback/`) | the event log | sync, assess | GitHub | the log says what was seen |
| **M** | Change, contract, test, history, trajectory, cross-repository intelligence, intent verification, learnings | derived rows | group, affect, expect, match, tell | index, findings | what is left out is counted |
| **P** | Upstream changes and watchers (`upstream/`, `watchers/`) | events; cursors belong to the caller | diff, classify, find consumers, poll | registries | "non-breaking" breaks no client |
| **M** | Dependencies (`dependencies/`) | the registry | scan, adapt, record | files | what is used is told |
| **P** | Migration and its verification (`migration/`, `migration_verification/`) | none | plan, rewrite, gate, verify | consumers | a migrated call works; VERIFIED is earned |
| **M** | Migration pull requests (`migration_pr/`), campaigns (`campaigns/`) | `migration_pull_requests`, campaigns | compare, build, push, open, record; evaluate, derive, store | GitHub, migration | one pull request per migration; a state that a run earned |
| **P** | Merge readiness, routing, governance | policies | evaluate, merge | findings, fixes | evidence about this head, rules that only tighten |
| **M** | Telemetry (`telemetry/`) | none | collect, aggregate | rows of runs | the numbers add up |
| | GitHub client; configuration, evaluation, CLI, MCP, hand-off | | | | |

How they interact: a webhook becomes a task of ingestion; ingestion calls the
gate and enqueues the pipeline; the pipeline enqueues `review_pull_request`,
which prepares memory, runs the review, finalizes memory and enqueues
`publish_review`. Tasks hand over ids through Redis and share state only through
Postgres rows, some under `pg_advisory_xact_lock` of an identity, and through
GitHub. Within a review run, asyncio tasks share a ledger and a token pool, each
under a lock held for a few lines and released before every provider call.

What is hard in this code, and where the properties come from: (a) decisions
taken under a lock and acted on after it (publication, memory, check runs, fix
attempts); (b) a write to GitHub between two commits; (c) budgets checked before a
call and settled after it, by many concurrent calls with retries, fallbacks and
cancellation; (d) tasks of several heads of one pull request, and runs of one
campaign, finishing in any order; (e) chains of rules, each reasonable, whose
composition may drop a finding or call a breaking change harmless.
`PROJECT.json` lists each place under "hazards".

## 2. Modules and plan

| Module | What it is | Uses |
|---|---|---|
| `PublishOnce` | abstract: at most one review, recorded only when posted | |
| `Publication` | attempts of `publish_review` over one publication identity | implements `PublishOnce` |
| `ReviewBudget` | the ledger of one run, and what any caller may do to it | |
| `ProviderCalls` | one job: a role's or a critic's call with retries and fallback | instantiates `ReviewBudget` |
| `CandidateRun` | what both strategies share: critics, verdicts, time limit, status | extends `ProviderCalls` |
| `SpecialistReview` | a run in which every role looks at every candidate | extends `CandidateRun`, implements `ReviewBudget` |
| `SinglePass` | a run with one batched pass, escalations and verification | extends `CandidateRun` |
| `ReviewMemory` | rows of `review_runs` and their identity; review tasks of one pull request |  |
| `Installations` | GitHub's installations, webhook messages, sync | |
| `Ingestion` | deliveries, the gate, the start of the pipeline | extends `Installations` |
| `ReviewPipeline` | the chain of tasks, the index, the check run | |
| `MigrationPR` | the pull request of one migration, with its humans | |
| `Campaigns` | overlapping runs of one campaign | extends `MigrationPR` |
| `FeedbackAssessment`, `Feedback` | what the log says; the syncs that write it | |
| `FixVerification` | fix attempts and the verifier | |
| `Severities` | severities, confidences, locations, stable sorting | |
| `FindingPipeline` | from a reviewer's answer to the plan of the review | `Severities` |
| `ReviewScope`, `ChangeRisk`, `Telemetry` | candidates, effort and follow-up reviews; risk, batches, escalations; a run's rows and what is counted of them | `Severities`; the last `FindingPipeline` |
| `Parsing`, `CodeIndex`, `ContextPacking` | inventory and syntax; one indexing run and the queries over it; the context of a candidate | each extends the one before |
| `StaticAnalysis` | one analysis run, and the rows of several | extends `ContextPacking` |
| `ExecutableChecks`, `Governance` | running a test for a review; readiness, policies, providers | `Severities` |
| `ContractDiff`, `UpstreamImpact`, `Migrations` | what changed upstream; whom it reaches; the patch and its evidence | each extends the one before |
| `ChangeIntelligence`, `IntentAndTests`, `ReviewHistory` | the change as units and contracts; claims and tests; earlier reviews | each extends the one before |
| `Dependencies` | scanning, adapters, registry | |
| `DecisionInputs`, `MCDecisions` | small inputs, and the laws checked over them | all modules of decisions |
| `MCReviewBudget`, `MCReviewMemory` | values of the constants for TLC | |
| `...Proofs` | theorems (section 7): `ReviewRunProofs` about both strategies, `FixVerificationProofs` about `Feedback` too, the others about the module named | what they are about |

The configurations of the other runs give a specification's constants values
directly or by a definition at its end under *For TLC*. Definitions under a
heading *Mutants* (or beside what they change) are the wrong versions of an
operation that the properties are tested against; no specification uses them.

The plan was to model what can go wrong most first: publication, the ledger and the
calls, identity and memory, the single pass, intake, pipeline, migration pull
requests and campaigns, feedback, fix attempts, then the decisions, last of them
indexing, context, static analysis and follow-up reviews. All of it is
built, and every invariant and action property of the state machines is proved.
Left of it: the text of a diff, stored context bundles, patches of several
files, the texts of the review body.

## 3. Publication

`Publication.tla` follows one publication identity (review run, mode, policy
fingerprint) per mode. State: the rows (`status`, `mode`, `cause`, `commented`,
`expired` = older than `IN_FLIGHT_GRACE`), GitHub (`posted`, `inflight`, the
head), and the attempts (`pc`, the row they work on, their plan, their errors).
One attempt is one execution of the task `publish_review`. Actions and code:

| Action | Code |
|---|---|
| `GetOrCreateAttempt` (`AlreadyPublished`, `InProgressElsewhere`, `ReconcileNeeded`, `Create`) | `get_or_create_attempt`, one transaction under the identity lock |
| `ScanForMarker`, `ScanFails`, `SupersedeAbandoned` | the reconciliation branch of `publish` (`service.py:182-202`), which ends by calling `publish` again |
| `BuildPlan`, `ReadFails`, `PersistPlanComments`, `FinalizeNoWrite`, `FinalHeadCheck`, `MarkStale` | the rest of `publish` up to the write |
| `SendReview`, `ReceiveResponse`, `WriteRejected`, `ResponseLost`, `ReviewLands`, `RequestLost` | the write: request and answer are separate, GitHub serves it in between or never |
| `MarkPublished`, `Fail`, `TaskReturns` | the end of an attempt and the task's retry decision |
| `Push`, `GracePasses`, `Crash` | environment |

Abstractions: the plan is one of four outcomes of the planner (the planner itself
is in `FindingPipeline`); an attempt's comments are a bit; `github_comment_id` and
texts are left out; the marker scan is exact (pagination is not modelled). Faults
are members of the constant `Fault`, so each run says which world it is in.

*What depends on promptness.* The design assumes that an attempt ends within
`IN_FLIGHT_GRACE`, and that the answer to a create-review request is seen.
`Ownership`, `NoOrphanReview`, `AtMostOneReview` and `ImplementsPublishOnce` are
about that world (faults `slow_attempt` and `response_lost` absent); what holds
in every world is `OneCanonicalRow`, `PublishedIsBacked` and `WrittenAsPlanned`.

| Run | Bounds | Shows |
|---|---|---|
| `pub_prompt` | 2 attempts, 3 rows, 2 heads, rejected writes, 2 crashes, fairness; 82,892 states | one review, never orphaned; implements `PublishOnce`; attempts end although `publish` calls itself; an abandoned publication is decided |
| `pub_faults` | 2 attempts, 3 rows, both modes, three plan outcomes, four faults, 1 crash; 745,322 states | what locks and commit order guarantee in every world |

An attempt that ended may be started again as another delivery, so that two
attempts meet over rows that any number of earlier ones abandoned.

Fairness: weak fairness on an attempt's steps (a live worker goes on), on its
recursive call (nothing is waited for), and on GitHub serving a request it has.
New deliveries, the grace period, pushes and crashes are not fair.
`RecoveryCompletes` asks that no crash is left, since a killed attempt is only
continued by a new delivery, which nothing guarantees.

Rows are bounded by `Pub`: an attempt that needs a row when all are used waits,
and `CHECK_DEADLOCK FALSE` is set because tasks end.

## 4. The budget ledger

`ReviewBudget.tla` is `review/budget.py`: all counters, both kinds of refusal
(sticky: `Deny`; not sticky: `DenyReviewPhase`), the order of the eight checks
(`CheckOrder`), estimates charged at the reservation and replaced by the usage
(`Reconcile`), a failed call that keeps its charge (`CallFails`), the wall clock,
and the ceilings that `review/service.py` derives from the risk tier. The caller
is any set of calls in any order: `charge` and `overrun` are history that the
properties compare the counters with.

Abstractions: money is integral (so a price never has a rounding error), output
and input tokens are small numbers, a call without a price costs nothing and is
refused when a monetary ceiling exists, as in the code. `TierReserve = 0` is the
ledger without a review-phase ceiling of its own (`max_review_calls = None`).
`asyncio.Lock` makes each method one step.

The run `budget_ledger` has 3 calls, 3 models (two prices, one none), every
ceiling within reach, estimates 1-2, usage 0-3, 1 retry and a clock. It shows
`LedgerExact` (totals are the sum of the charges, per meter and per model:
`max(0, ...)` never hides anything), `CeilingHeld`, `RefusalIsReported` and
`ReserveIsKept`. Three calls suffice for one holding, one answering and one being
refused at the same time, with both phases present.

## 5. Provider calls and the review run

`ProviderCalls.tla` is one *job*, a role's or a critic's call: reserve in the
ledger, call, answer / malformed answer / transient / fatal error, or an exception
of a class its callers do not handle (`FailUnexpectedly`; job "raised"), retry up to
`RetryLimit`, one hop to the fallback provider with a temporary hold in the
pool (`TakeHop`, `ReleaseHop`). It instantiates `ReviewBudget`, so every action
of a job that touches the ledger *is* an action of that module. `CandidateRun.tla`
adds what both strategies share: findings, holding and asking critics, the
verdicts under the failure policy, the time limit that cancels everything in
flight (`TimeOut`) and the run's status (`RunStatus`, `service.py:1565-1577`).
An unhandled exception is raised again where its results are read (`CriticsRaise`,
`RolesRaise`): the candidate's estimates stay in the pool, the other candidates go
on, and `FailRun` marks the row FAILED. A run that its time limit interrupted ends in
phase "timed_out", any other in "ended".
`SpecialistReview.tla` is the specialist strategy: the semaphore over candidates,
holding the estimates of a candidate's roles (`HoldRoles`) and settling them
together (`FinishRoles`). `SinglePass.tla` is the cost-aware one: all candidates
prepared, batches as one call each, at most two escalations, then verification
candidate by candidate. It is one coroutine, of which nothing goes on after an
exception (`Going`).

The model has more interleavings than asyncio gives: two coroutines switch at
awaits only, and the model lets them switch between any two actions. Prompts,
parsing and validation are a choice among answered, malformed, transient, fatal and
unexpected; the model ends where the row is marked FAILED, whatever tasks of other
candidates are still at work then; a role reports one finding or none (what grouping and confidence make of
several is in `FindingPipeline` and `Telemetry`).

| Run | Bounds | Shows |
|---|---|---|
| `run_roles` | 2 candidates, 2 roles each with critics, one candidate at a time, fail_open, 1 retry, fallback, pool of 6, 4 calls, 1 of them for critics, time limit; 236,388 states | the pool's account is exact on every path, exceptions included; a finding whose critic the ledger refused or the pool could not hold is not published; neither a refusal nor the time limit ends as a success; every step is the ledger's (`ImplementsLedger`), the run ends |
| `single_pass` | 2 candidates side by side in one or two batches, unified and two specialist roles, hold_for_review, fallback, pool of 7, 4 calls, 1 of them for critics, time limit; 1,893,090 states | `EscalationsOnlyAdd`: no finding is lost to another call's refusal or failure, escalations that were planned can be paid for, no finding is published because its critic was refused or not held, the pool is exact |

Pools of 6 and 7 with estimates of 2 let three calls hold at once and refuse the
fourth; usage of 1 or 3 per estimate of 2 lets the account go both ways.

`RefusalNeverPublishes` says what publishes a finding that has to be verified: its
critic answered; or, under `fail_open`, it was called at least once, its last call
was answered badly or failed, and the ledger refused none of its calls, retry and
fallback included. A fallback for which the *pool* has no room is not among the
refusals: the primary's error stands, and under `fail_open` the finding is published
(section 8).

Fairness (`LiveSpec` of `SpecialistReview`; no temporal property is stated of
`SinglePass`): the event loop runs every task that can run, and provider
calls return, since each request has a timeout. No strong fairness: a candidate
at the semaphore waits for a place that is given back, and there are finitely
many candidates.

## 6. The other components

### Run identity and review memory

`ReviewMemory.tla` has the rows of `review_runs` for one repository and
configuration: identity (commit, model, context), reuse of a SUCCEEDED row, the
claim that a writer loses to another SUCCEEDED row of its identity, and the
status of a run. On top of them, the tasks of one pull request:

| Action | Code |
|---|---|
| `Push`, `Enqueue`, `Start` | head moves; the task is queued for a head and skipped when superseded |
| `ReadLatest` (`NoUsableGeneration`, `AncestryNotProven`, `AncestryProven`, `SameCommitRaises`) | `prepare`: latest generation, its run's status, ancestry and diff |
| `ReadOpenFindings` | `prepare`: open findings, the pre-review resolution, the incremental plan |
| `GetOrCreateRun`, `FinishRun`, `RunRaises`, `Superseded`, `PersistReview` | the run: reuse, claim, status; the strategies of section 5 are here one step with a free outcome |
| `FinalizeCheck`, `FinalizeCommit`, `FinalizeRaises` | `finalize`: transitions, new findings, generation, with the unique constraints of the tables |
| `Crash` | the worker is killed |

A *unit* is a symbol or the module-level region of a file; `Body` gives each
unit's text at each commit. Abstractions: a renamed or moved symbol keeps its
unit, an ambiguous continuity match counts as no match plus a new symbol, a unit
has one category of finding, status `kept` is CARRIED_FORWARD or CHANGED,
switched-off memory and forced reviews are left out, database errors only occur
as crashes, and publication (section 3) follows finalize. How symbols are matched,
ancestry shown, evidence compared and the plan made are operators of `ReviewScope`
(*Decisions*, below), which `ReviewMemory` takes as results.

Run `memory_lineage` (3 tasks, 2 heads, 1 symbol and the rest of its file, 1
crash, 1.2 million states): `OneSucceededPerIdentity`, `SucceededIsFinal` (rows);
`GenerationsMatchRuns` (one generation per run, at its commit, also when two
tasks return the same run); `SkippedCodeWasOffered` (what an incremental review
leaves out was, with the same text, a candidate of a run that SUCCEEDED, over
any chain of generations); `SymbolFindingsAreTracked`, `ResolvedAfterALook`.
Three tasks are the least in which a generation is based on one that another
task, slower, is still working against. The symbol and the region share a file,
so that a change of one recheck-plans the other; both commits touch both kinds.
"Offered" is what the model (and the code) can say: the unit was a candidate of
the run; section 8 tells when the reviewer did not see it all the same.

### Intake: installations, deliveries, the gate

`Installations.tla` has GitHub's installations of one repository, the messages
about them (each with the state it tells), and the rows `InstallationSyncService`
makes of them, one transaction a message (`Sync`), in any order, some lost
(`SyncLost`). `Ingestion.tla` adds deliveries: `TakeDelivery` (the reservation, or
the whole of `ingest_closed`), fetch, store, gate, enqueue as steps of a task,
`Crash` in between, `Redeliver` by the operator, and the pull request changing on
GitHub meanwhile (`PullRequestChanges`).

Run `intake` (two installations, one of them established and activated, 3
messages, 1 crash, allowlist mode, one review a day; 366,776 states):
`AdmittedOnce`; `AllowlistHolds`, across removal and return; `InstallationSynced`
and `StoredIsCurrent`, whose conditions say when the code can keep up: no message
lost, none handled before an earlier one ended. Three messages are a removal, a
return and a delivery, or three deliveries that overtake each other.

### The pipeline and its check run

`ReviewPipeline.tla` runs chains of tasks (schedule, index, analyze, review,
publish), one for each announced head. A repository has one active index; each
step of a review reads it again and compares its commit. Every task keeps the
head's check run up to date by listing the checks and then creating or updating
one, two steps between which other tasks act; a write may fail
(`CheckNotWritten`), a task may be lost (`TaskLost`).

Run `pipeline` (two pull requests, two commits, two chains, 1 retry, 2 faults):
`OneCheckPerHead`, `CheckTellsOutcome`, `StaleOnlyIfReplaced`, and
`EveryCheckCompletes` under weak fairness of each chain's steps: workers take what
is queued, and GitHub and the providers answer or time out. Two chains suffice: a
conflict over an index or a check is between two.

### Migration pull requests and campaigns

`MigrationPR.tla` is `publisher.py` call by call (compare the base, build, move
the branch, list the pull requests, open or update one, report a check, write the
row), with humans who commit to the base, merge, close and reopen between any two
calls; a call may fail, nothing is locked. `Campaigns.tla` puts campaign runs
around it: `Launch` (the repositories and the evidence the service could obtain),
load, evaluate, publish what policy and humans allow, store over whatever is
stored by then. `raced` and `outdated` record who met whom.

Run `campaign` (one repository, 3 runs, 2 base commits, 1 fault, manual approval,
fresh and stale evidence; 1,235,633 states): `OnePull` (never a second pull
request, unless the pull requests changed between a run's list and its write),
`ResolvedIsEarned`, `VersionTellsChange`. Three runs: one that resolves, one that
is outdated by it, and one that reads the result.

### Feedback

`Feedback.tla` has two syncs of one pull request that list comments, read reactions,
threads and the pull request one call after another and write events in one
transaction each, where an insert of an event that another open transaction wrote
waits (and is discarded or done when that one ends). People react, take back,
reply, resolve and delete meanwhile. `FeedbackAssessment.tla` is what the log says
of a finding. Run `feedback` (1 comment, 2 reactions, 1 reply, 2 syncs, 3 changes;
3,265,147 states): `FeedbackMirrorsGitHub`, of `NothingSeenIsLost` and
`LogIsWhatWasSeen`. Two reactions on one comment tell a removed one from one that
was never there; deadlock is checked, so no two syncs wait for each other.

### Fix attempts

`FixVerification.tla` is `start_fix_attempt`: count the active attempts, count
those of the finding, create the row under its unique key, map the finding,
gather signals, have a test run by the verifier (stage, send, wait, time out),
ask a critic, decide; each is a step between which another call, the verifier or
a death may act. Run `fix_attempts` (1 finding, 3 heads, 2 calls that may be made
again, one active and two attempts of a finding allowed, 1 death; 2.35 million
states): `AttemptsAreKept` says that an attempt is verified once, that the limits
are passed only by as many calls as count at once, and that only what died stays
under way. Limits of 1 and 2 are passed by two calls.

### Decisions

The modules of decisions hold operators named after the code's functions, and
laws that relate them. `MCDecisions.tla` chooses one of 613,000 small inputs
(`DecisionInputs` builds the larger ones) and checks the laws for it. Inputs are
those on which rules meet: ties in a ranking, two lines apart by exactly the gap,
a limit of one less than what there is, three proposals of which two exclude each
other. The three invariants group the laws by what goes wrong without them:

- `NothingIsLost`: what a decision leaves out is represented by what it keeps.
  Duplicates, critics' cuts and the plan (`DuplicatesAreRepresented`,
  `ProposalsAreRepresented`, `PlanLosesNothing`), the record of a run and its
  telemetry (`RunIsToldInFull`, `TelemetryAddsUp`), candidates and batches
  (`AddedLinesAreCovered`, `CandidatesAreShown`, `UnreviewedOnlyIfPlain`,
  `CommentsHideNoCode`, `BatchesLoseNothing`, `FindingFindsItsTarget`,
  `PiecesAreRepresented`), what changed upstream and whom it breaks
  (`ChangesAreTold`, `BrokenRequestsAreFound`, `BrokenCallsAreFound`,
  `BrokenCallersAreNamed`, `ConsumersAreTold`, `MigratedCallsWork`), the
  intelligence reports (`UnitsPartition`, `CompanionsAreTold`, `TestsAreTold`,
  `HistoryIsTold`, `ChurnIsTold`, `PeersAreTold`), dependencies
  (`DependenciesAreTold`, `SpansNest`, `RegistryFollows`), the index
  (`CallRowsAreSymbols`, `PythonSymbolsHaveParents`, `ExternsFindTheirDefinition`,
  `WarmIsCold`, `InnermostIsInside`), context (`CallsAreNear`,
  `AdaptiveIsDepthTwo`), static analysis (`GroupsLoseNothing`, `AnalysisIsTold`) and
  follow-up reviews (`SymbolsAreFollowed`, `SkippedIsKnown`, `FindingsAreFollowed`).
- `WorseEvidenceNeverHelps`: worse evidence never makes a decision milder. A graver or
  surer finding is shown no less. One that is graver, less sure or less corroborated is
  not spared the critic, unless it is too unsure to be published; a surer or better
  corroborated one may be, which is what the policy is for. One the critic is spared
  as too unsure can be published only by a verdict that raises its confidence. More
  evidence makes no review lighter, nothing readier. A finding's way through validation, critic and plan (`ValidIsQuoted`,
  `CriticIsMonotone`, `SkippedCouldNotPublish`, `WorseIsShownNoLess`), effort
  and risk (`MoreSignalsMoreEffort`, `MoreRiskMoreContext`, `MoreChangeMoreRisk`,
  `BudgetFollowsRisk`), previous reviews and analyses (`LessProofMoreReview`,
  `SucceededRunsAgree`),
  merging (`ReadyIsEarned`, `MoreFindingsNoReadier`, `ScopesOnlyTighten`),
  compatibility (`NonBreakingServesClients`, `NonBreakingKeepsCalls`,
  `UpgradesArePlanned`, `HarmlessUpgradesCompose`), verification (`ToldIsWhatRan`,
  `LocalIsAsRemote`, `VerifiedIsEarned`, `WorseRunsVerifyNothing`), feedback
  (`ComplaintsNeverHelp`, `TakenBackCountsForNothing`), claims and learnings
  (`IntentIsBacked`, `LearningsAreRepeated`).
- `LimitsHold`: what a decision hands out stays within what it was given. Of a
  context's tokens that is nearly so: at least one is left for every piece, and a piece
  costs more than was left only if it is one line, or has no more lines than would fit
  were they all as short as its shortest (`BudgetIsKept`; section 8). No two findings
  that contradict each other survive, whatever was merged before they were compared;
  the rest
  (`PositionIsShown`, `NoContradictionSurvives`, `AcceptedIsVerified`,
  `BudgetIsKept`, `EscalationsAreAffordable`, `BudgetIsBounded`,
  `ForgeriesAreRefused`, `OnlyAllowedProviders`, `RadiusIsExact`); a call is resolved
  to what it can mean, whatever the order of files (`ResolvedAcrossFilesIsEarned`,
  `MoreDefinitionsNeverRedirect`, `OrderDecidesNothing`, `TestsAreOfSources`); a
  context shows each line once (`BundleShowsEachOnce`); requests for one analysis
  share a run (`RunsAreShared`).

*Index and context.* `Parsing` takes syntax trees as sequences of nodes with the
fields the three parsers read; `CodeIndex` resolves imports and calls as
`resolution.py` does, with the cache in any state a run may find it in (`cold`,
warm, corrupt), and `ContextPacking` builds the bundle of a candidate from the
stored rows. The inputs are repositories of up to three files with a package, a
test, a header and a definition in another file, so that a name is unique, doubled
or imported. *Static analysis.* A tool is a binary with what its process does:
whether it is found and starts, when it ends, when its output passes the cap, its
exit code, what its output parses to. `Stepped` follows two requests through the
rows and the identity lock, in every schedule. *Follow-up reviews.* An input is what
happened to two files and their symbols between two reviews (kept, edited, renamed,
moved, added, deleted, with bodies that may be equal) and what git says of the files;
`LessProven` are the same
reviews with less known of the previous one: no usable generation, no ancestry, a
diff that cannot be fetched.

A law states where it does not apply, and section 8 says of each such place what
the code does there. After its choice of an input the system stops, hence
`CHECK_DEADLOCK FALSE`; other runs have it where tasks, runs and messages end for
good (in `feedback` and `fix_attempts` something can always happen next, and
deadlock is checked).

## 7. Proofs

TLAPS proves the following for every value of the constants that meets the
named assumptions of the modules. Each proof module is named after what it is
about (`FixVerificationProofs` is also about `Feedback`: both are what happens to
findings once they are published; `ReviewRunProofs` is about `SpecialistReview` and
`SinglePass`, which differ in what surrounds the same jobs and candidates) and may end
with laws of the decisions that lead up to it (`PublicationProofs`: of
`FindingPipeline` and `ReviewScope`; `CampaignProofs`: of `Governance`, the policies of
a workspace); the temporal theorem at the end of a part combines `Init => I`,
`I /\ [Next]_vars => I'` (one lemma per action or group of actions) and
`I => property`.

| Module | Theorem | States | Rests on |
|---|---|---|---|
| `PublicationProofs` | `PublicationTypeCorrect` | `TypeOK`, `ErrorsOK` | |
| | `NoOrphanReviewHolds`, `AtMostOneReviewHolds`, `PublicationImplementsPublishOnce` | `NoOrphanReview`, `AtMostOneReview`, `Spec => PO!Spec`, assuming `PromptAndAnswered` | `Inv` |
| | `OneCanonicalRowHolds`, `PublishedIsBackedHolds`, `WrittenAsPlannedHolds` | the properties so named, under every fault | `FaultyInv` |
| | `MoreSignalsBuyMore`, `SkippedNeverPublishes`, `GraverIsNotSpared`, `CommentsStandOnTheDiff` | `MoreSignalsMoreEffort`, `SkippedCouldNotPublish`, `CriticIsMonotone`, `PositionIsShown` | |
| `ReviewBudgetProofs` | `TypeCorrect`, `CeilingsAreHeld`, `RefusalsAreReported`, `ReserveKept` | `TypeOK`, `CeilingHeld`, `RefusalIsReported`, `ReserveIsKept` | `IInv` |
| | `BooksAreExact` | `LedgerExact` | sums over the calls |
| `ReviewRunProofs` | `RunTypeCorrect`, `PoolIsKept`, `RefusalPublishesNothing`, `RefusalsEndPartial` | `RunTypeOK`, `PoolKept`, `RefusalNeverPublishes`, `RefusalEndsPartial` | `IInv`, with the ledger's |
| | `RunImplementsLedger` | `Spec => ImplementsLedger` | step by step |
| | `EscalationsAddOnly`, `PassRefusalsEndPartial` | `EscalationsOnlyAdd`, `RefusalEndsPartial`, of `PassSpec` | `PassInv` |
| | `PassImplementsLedger` | `PassSpec => ImplementsLedger` | step by step |
| | `EscalationsLeaveVerificationItsCall` | `EscalationsAreAffordable` of `ChangeRisk` | |
| `ReviewMemoryProofs` | `TypeCorrect`, `SucceededStays`, `OneSucceeded`, `GenerationsMatch` | `TypeOK`, `SucceededIsFinal`, `OneSucceededPerIdentity`, `GenerationsMatchRuns` | `TypeInv` |
| | `SkippedWasOffered` | `SkippedCodeWasOffered`, assuming `NothingIsCut` | `CoverInv` |
| | `SymbolFindingsTracked`, `ResolvedOnlyAfterALook` | `SymbolFindingsAreTracked`, `ResolvedAfterALook` | `DecidedInv` |
| `IngestionProofs` | `TypeCorrect`, `AdmittedAtMostOnce`, `AllowlistIsKept` | `TypeOK`, `AdmittedOnce`, `AllowlistHolds` | `Inv` |
| | `StoredFollowsGitHub` | `StoredIsCurrent` | `StoredInv` |
| | `InstallationsFollowGitHub` | `InstallationSynced` | `SyncedInv` |
| `PipelineProofs` | `TypeCorrect`, `StaleIsReplaced` | `TypeOK`, one active index; `StaleOnlyIfReplaced` | `Inv` |
| | `OneCheck` | `OneCheckPerHead` | `OneInv` |
| | `CheckTells` | `CheckTellsOutcome` | `TellInv` |
| `CampaignProofs` | `TypeCorrect` | `TypeOK` | |
| | `OnePullEver` | `OnePull` | `PullsInv` |
| | `ResolvedEarned` | `ResolvedIsEarned` | `EarnedInv` |
| | `VersionTells` | `VersionTellsChange` | `TypeOK` |
| | `ScopesTighten`, `ReadyWasEarned`, `MoreNeverReadier`, `CodeGoesWhereAllowed` | `ScopesOnlyTighten`, `ReadyIsEarned`, `MoreFindingsNoReadier`, `OnlyAllowedProviders` | |
| `FixVerificationProofs` | `FixTypeCorrect`, `EachVerifiedOnce`, `AttemptsKept` | `TypeOK`, `VerifiedOnce`, `AttemptsAreKept` | `OwnInv`, limits |
| | `LogFollowsGitHub` | `FeedbackMirrorsGitHub`, of `FeedbackSpec` | `MirrorInv` |
| | `ComplaintsNeverHelpAFinding`, `TakenBackLeavesNoTrace` | `ComplaintsNeverHelp`, `TakenBackCountsForNothing` | |

*Publication.* `AtMostOneReview` is not inductive: nothing in it says that the
attempt about to write is the only one. `Inv` adds `OneLiveRow` (one row is
PUBLISHING or PUBLISHED) and `Ownership` (an attempt has the row it created to
itself, and until the write the row has no review; a reconciling attempt comes
after the creator). A review on GitHub belongs to a live row, there is one live
row, hence one review. `FaultyInv` is what is left of that when attempts may be
slow and answers lost.

*Ledger.* `IInv` = `TypeOK`, `CeilingHeld`, `RefusalIsReported` and `OutOfCalls`:
if the ledger is terminated for lack of calls, the counters stand at the
ceiling. The refusal lemma says which check failed first; the others are about
`Grant` (all checks passed) and `Reconcile` (the excess goes to `overrun`).
`LedgerExact` equates counters with sums over the calls, and a sum over a set is
defined by recursion on the set. The library's induction theorems take a predicate
as a parameter, which the provers cannot instantiate; the module instead takes a
least counterexample in the well-founded order of strict subsets (a first-order
fact, `FS_StrictSubsetOrderingWellFounded`), from which `TotalOf(f, S \cup {x}) =
f[x] + TotalOf(f, S)` and what follows from it (one summand changed; monotony) are
lemmas the run's proofs reuse. The same step finds the last chain of a commit
(`PipelineProofs`) and the newest pull request of a branch (`CampaignProofs`).

*A run.* `ReviewRunProofs` instantiates `ReviewBudgetProofs` as `Book`, so
that what is proved of the ledger is cited, not repeated. `Attempted` and
`RefusedByLedger` say what a job's stage tells of its call in the ledger. The pool
is the sum over the jobs of what each contributes (`Share`). `PoolCeilingHeld`
alone is not inductive, for a reason that is in the code: usage above an
estimate is counted as the ledger's overrun when the answer arrives, and enters
the pool only when the candidate's roles are settled together. `Gain` is what
answered jobs will still add, and the inductive form is `pool + TotalOf(Gain, Job)
<= MaxTotalInput + overrun`. `Stages` and `NotYetVerified` keep critics behind
roles. `RefusalNeverPublishes` takes from `AnsweredOrFailed` how a published finding's
critic ended, from `Attempted` that a job which failed had made a call and that its
last one is over, and from `RefusedByLedger` that a job with any refused call ends
"refused". `RefusalEndsPartial` is inductive with `RefusedByLedger` and
`LateIsReported` (the time limit leaves a reason in the ledger before anything is
cancelled). A role that raised stays among the reviews the pool holds (`Owed`,
`RolesHeld`), so that the account stays exact until the run is marked FAILED. For `RunImplementsLedger` each action of a run either leaves
the ledger alone or is, by the way `ProviderCalls` is built, an action of it. These theorems do not use
`SinglePassAssumption`: they hold for any candidates and any roles.

*The single pass.* `RunInv`, the part of `IInv` that both strategies share, is kept
by the same lemmas about jobs and critics. `PassInv` adds what the order of the
single pass gives: which candidates and jobs are in which state in which stage
(`StageInv`), what the calls to come are about (`CallsInv`), and that a call's job
does not start before its turn, so that the call under way is the one whose
estimate the pool holds (`TurnsInv`). Escalations can be paid for by counting:
calls made and calls left, the attempts of the first of them taken off, stay under
both ceilings unless an escalation makes a second attempt (`EnoughCalls`); hence
what refused one was there before it, and stays (`RefusedForGood`, `JobsCount`).

*Memory.* `TypeInv` ties rows to the stages of tasks (a reviewing task's row is
RUNNING with its own identity; a task past its review points at a row that has
ended, at its commit), from which the facts about rows follow step by step.
`CoverInv` adds that a SUCCEEDED run covers the code it did not itself offer
(`SucceededCovers`) and that a task only starts from such a run
(`StartsFromSucceeded`): the induction over the chain of generations is an
induction over steps. `NothingIsCut` (the cap on candidates is no smaller than the
code touched) is needed: section 8, *The cap*. `DecidedInv` says what a task holds
between reading the open findings and finalizing: one decision per finding, those
to be rechecked selected if they are candidates, and a run of its own that offered
what it selected. No knowledge of the other tasks is needed, since finalize checks
what it finds again under its lock.

*Intake.* The gate's properties follow from stages and rows. `StoredInv` says that
the last delivery and its task's fetch carry the current pull request
(`LastIsCurrent`) and that, unless tasks overtook each other, a task at work is of
no earlier delivery than any that started (`InOrder`). `SyncedInv` is stronger than
the property in an unusual direction: whatever messages wait, applying them in
order turns the row into GitHub's state (`Replay`). That needs to be told why no
waiting message keeps a stale suspension: a message that leaves the status alone
comes after one that lifts it.

*Pipeline.* `OneInv`: of the chains of a commit that never overlapped, one at most is
at work, and what it listed is still so when it writes. `TellInv`: they work in the
order of their announcement, and a stage that ends a chain by its write has its
outcome to write since the step that entered it.

*Campaigns.* `PullsInv`: unless raced, there is one pull request at most, and a
publication about to write has listed all there are. `EarnedInv` follows a
record through a run: what it evaluates, what it took over from the campaign it
loaded, what is stored, and what has to be remembered (`RunEarns`, `StoredEarns`,
`Remembers`, `StartsFromStored`). `VersionTells` reduces a difference a reader sees
to a difference of the signatures the code compares, both ways.

*Fix attempts.* `OwnInv`: a call that owns an attempt is alone, and its row active.
The limits hold with the calls that have counted and not yet created added to the
count; the step that creates moves one from one side to the other.

*Feedback.* `FeedbackMirrorsGitHub` speaks of the log alone; `MirrorInv` says it of
every sync that is alone, of its own events on top of the log and of what it has
read so far, the threads it has fetched and not yet recorded left out (`Works`,
`Follows`). It needs that an id tells the kind of an event and its reaction
(`KindsDiffer`), so that what is active can be read off the ids (`ActiveIsKept`);
that the clock is later than all the sync can see (`ClockGoesOn`), so that the new
event about a thread is the latest (`LatestIsNew`); and that a reaction taken back
never returns (`OneWay`), so that a list read earlier is not contradicted by what is
written with it. The part of overlapping syncs, that nothing seen is lost, rests on
the rows alone: what a sync saw is in the log or among its own events.

*Decisions.* Eleven of the laws that make up `NothingIsLost`,
`WorseEvidenceNeverHelps` and `LimitsHold` need no induction over their data and are
proved for every input, under the hypotheses each theorem states: what a finding or
a candidate is (its severity, its range of lines), what "more" or "worse" means
(`AsManySignals`, `AsGrave`, `IsComplaint`), and that sets are finite where they are
counted. A choice by rank (the strictest floor, the strongest event, the first
provider) is shown to exist by going through the few ranks; the latest of any number
of attempts, by `GreatestExists`, the least counterexample again.

What stays with TLC, and why. Everything temporal under fairness
(`EveryAttemptEnds`, `RecoveryCompletes`, `RunEnds`, `EveryCheckCompletes`):
ENABLED is out of the prover's reach. `NothingIsLost`, `WorseEvidenceNeverHelps`
and `LimitsHold` as wholes: most of their laws are about functions that recurse or
fold over data (syntax trees, rankings, packing, batches, sums over the files of a
change, the continuity of symbols), whose proof would be an induction over that data.

## 8. Further observations

Met while translating; each is what the code does, beside what a doc or comment
says or a reader would expect. The properties are stated so that they hold of the
code, with these places outside their conditions.

**Publication and the run**

- **Slow attempts.** `supersede_abandoned` runs after the lock that found the row
  abandoned is released (`publishing/service.py:198`,
  `persistence/repositories/review_publication.py:260-263`): a slow attempt that
  marks it PUBLISHED in between is demoted to FAILED and its review posted again.
- **Lost answers.** A create-review request that times out and was served leaves
  a FAILED row; the next dispatch posts a second review
  (`publishing/service.py:308`, `docs/production-e2e.md:165-169`).
- **Retries.** A retryable failure is not retried: `_fail` (`service.py:395`) stores
  the detail without the class the task looks for (`publish_review.py:230`), unlike
  `publish_review.py:224-228` and `docs/operations.md:47`.
- **Adopted rows** keep zero counts, since reconciliation marks a row PUBLISHED
  from the marker alone; `telemetry/beta_summary.py` sums those counts.
- **Reserve.** A repository limit below the tier's total comes out of the
  verification reserve (`review/service.py:1185`), unlike
  `docs/cost-aware-review.md:79-84`. The same doc's ceiling lets a candidate be
  reviewed by one of its two roles, for want of calls
  (`review/orchestration.py:784`, `docs/agent-orchestration.md:202-205`). A review
  retry refused by `max_retry_attempts` terminates the ledger, and the critics
  find nothing left (`budget.py:194`, comment at `budget.py:78-80`).
- **fail_open** keeps a finding whose mandatory critic failed
  (`orchestration.py:998`); `docs/quality-cost-guard.md:409-411` reads otherwise. The
  same happens when the primary critic fails and the pool has no room for its fallback:
  the primary's error is raised again (`orchestration.py:1097-1099`) and handled as any
  failure (989-1000), where the docstring (54-55) and the comment at 122-127 say that
  want of budget always suppresses.
- **Unhandled exceptions.** A critic's answer that names no known severity, confidence
  or rejection category is a ValueError outside the `try` of `critic.py:84-97` (102-104),
  no ResponseSchemaError: it is neither retried nor sent to the fallback, is raised
  again at `orchestration.py:448` or 1001, skips the settlement of the pool (468, 1011)
  and fails the whole run; tasks of other candidates go on until they end.
- **Raising verdicts.** The critic is spared findings that "can never publish"
  (`critic_selection.py:55-57`), but a "downgrade" may name a confidence above the
  finding's (`critic.py:103`, `confidence.py:60-65`), which would publish them.
- **Skipped candidates.** Candidates the token pool has no room for leave no trace
  in the status: the run SUCCEEDS (`orchestration.py:397`,
  `docs/quality-cost-guard.md:230-232`).
- **Time-outs.** A builtin `TimeoutError` of one candidate is taken for the end of
  the run's time (`review/service.py:1300`) while its siblings go on (the gather at
  1292 has no `return_exceptions`); a single pass that times out drops every finding
  of its first pass.
- **Contradictions.** All contradicting proposals of a candidate form one group: with
  two separate contradictions, each settled by its critic, both survivors are
  suppressed (`agents/cross_role.py:199-205` says a survivor proceeds normally).
  A proposal absorbed by a third is not compared any more (`cross_role.py:153`): what it
  contradicts counts as settled although the critic rejected nobody, and is published
  beside the third, which stands for its contrary (lines 16-18 promise neither is).
  `_find_conflicting` (`orchestration.py:236`) takes any finding of another role in
  the same file, and `_hunk_lines_in_range` (`service.py:2549-2557`) compares a
  deleted line's old number with the new range.
- **Records.** A reused run's summary has no usage of the unified role; durations of
  executed tests are recorded afterwards, so that concurrent reservations can pass
  90 seconds; a context shared by two candidates is told of the last one; the
  reviewers' total includes the unified role and the breakdown does not; the beta
  summary counts findings of all runs and costs of those that SUCCEEDED.
- **Executable checks.** The artifact's digest ignores file modes; two module-level
  candidates of one file that share a test share a request and its task id
  (`executable_verification/protocol.py:175-204`).
- **Context.** The last piece can pass the token budget: it is cut in proportion to its
  lines and not checked again (`context/budgeting.py:130`), so that lines of different
  length, or one long line, cost more than was left; `context/config.py:75-77` says the
  bundle never passes that ceiling. The same holds of the expansions' share.
- **Risk.** Added lines can lower a tier; code that is commented out or in by block
  comments is a comment-only change (NO_AI); a sensitive path without a target hides
  the other reasons to escalate.
- **Graph.** A forward declaration and its definition in one file are two equal
  `SymbolRef`s, of which the last symbol wins, so that a call is AMBIGUOUS where the
  docstring of `intelligence/resolution.py` says they are one symbol; a C function
  declared `static` and then defined without it is offered to other files; a C
  function inside `extern "C"` without braces has calls whose caller is no symbol
  (docstring of `parsing/cpp.py`). Test relationships by import do not filter test
  files, and `CacheTest.cpp`, an example of `intelligence/tests.py`, is not
  recognized by `is_test_path`. A corrupt row of the parse cache is never replaced.
- **Adaptive context.** Continuing a call chain asks for every direction and every
  piece two steps away, so that nothing of depth two is ever left out
  (`AdaptiveIsDepthTwo`).
- **Static analysis.** clang-tidy's exit code is not read and truncated output counts
  as SUCCEEDED, so that such a run is the one reused. The identity of a run has no
  changed files: one of another diff of the commit is reused. The worker passes no
  diff, so that clang-tidy is always skipped there and no finding is on a changed
  line. `severity_threshold` is part of the identity and filters nothing. PARTIAL runs
  are neither reused nor read by a review. Findings merged through a third do not
  agree pairwise, and which of equals is kept follows their order, unlike the comments
  of `analysis/dedupe.py`; two findings of a rule in one symbol share a fingerprint.
  By its prefix "S", ruff's SLF and SLOT rules are security findings.
- **Deduplication** within a run keeps the finding that starts first, where the
  docstring says the more severe one (`review/dedup.py`).

**Memory**

- **Rerun of an exact head.** With a usable generation of the same commit,
  `prepare` takes a shortcut that fetches no diff (`ancestry.py:154-155`) and
  then asserts that there is one (`review_memory/service.py:292`): the task
  fails, where `docs/cost-aware-review.md:133-138` says the stored run is
  returned with zero provider calls. The model has it as `SameCommitRaises`.
- **Rechecks that cannot be.** Findings of module-level code, with an ambiguous
  or orphaned symbol, or after a PARTIAL, FAILED or taken-over run are RESOLVED
  as rechecked without a look (`resolver.py:113`, `252-261`). A module-level finding
  may be left without a live row (`resolver.py:221`, unlike
  `review_memory/service.py:595-599`).
- **The cap.** `candidates.py:126` cuts the list; what was cut is in no run, and
  later incremental reviews take it as seen. With a cap of one, two symbols
  touched by a commit and the higher-ranked one reverted by the next,
  `SkippedCodeWasOffered` fails; hence `NothingIsCut`.
- **Offered is not seen.** A run that SUCCEEDED with skipped candidates or by the
  NO_AI path counts as having covered them.
- **Finalize.** Its idempotency check is outside the lock and in another
  session: a second finalizer of a run meets the unique index and fails, where
  the docstring (`review_memory/service.py:468-472`) promises a no-op.
- **Which symbol is which.** Two symbols of one qualified name in a file (C++
  overloads, a Python property's getter and setter) are reviewed again at every push:
  identity keeps the last, so that the first becomes ADDED. Matching depends on the
  order of symbols: one may be claimed as RENAMED and again by its name. An AMBIGUOUS
  continuity has no current symbol, where the docstring says both are set.
- **`review.incremental: off`** written bare in YAML is the boolean False; the file
  does not validate, all its settings fall back to defaults, and AUTO is used
  (`review_memory/service.py:135` names the setting in these words).
- **Old decisions.** `apply_transition` (`review_memory_finding.py:183`) writes
  over whatever the finding became since the decision, so an older task can
  reopen a resolved finding; and the latest generation may be of an older
  commit, if its task finalized last.

**Intake and pipeline**

- A repositories event that comes first makes an installation's row ACTIVE in
  allowlist mode; a repository removed and installed again stays unselected; a first
  event is lost when two meet the unique index; the check for a mismatched
  installation follows an upsert that has overwritten its id.
- A redelivery after a crash is a duplicate (`pull_request_ingestion` row exists), so
  the pull request is not reviewed; a fetch older than a close overwrites it
  (`pull_request_ingestion.py:171-186`); the daily limit is read and not reserved
  (`ops/orchestrator.py:63`); the commit scheduled is the event's, not the fetched one.
- A pull request over the resource limits, a pipeline out of retries, and a publish
  task that raises leave the check queued or in progress, unlike
  `docs/github-review-ux.md:18-19`; two overlapping chains of a head create two
  checks, unlike lines 3-7 there; a review refused for its index is not retried.

**Campaigns, migration, upstream**

- `migration_pr/publisher.py:17-20` promises a locked identity and a durable row
  before any write; the row is the last write. An error after the pull request was
  created records FAILED without a number; a refused concurrent creation overwrites
  an OPENED row; a merged pull request counts as closed by a human; the branch is
  moved also when its pull request is closed.
- Of overlapping campaign runs the last one stored wins, with an equal version;
  `ever_affected` can be lost that way.
- Watchers: after a rollback (A, B, A) the change applied again is suppressed;
  `record_event` keeps the first observation's time. Upstream: widening and narrowing
  of numbers ends the comparison early (`openapi_diff.py:306-315`); a required name
  without `properties`, `additionalProperties`, `readOnly` and `writeOnly` are not
  compared; a boolean schema raises; two parameters by `$ref` share a key; the limit
  of 500 differences cuts before they are classified; a changed parameter passed by
  position is ruled out (`consumers.py:314-318`); a minor release that is a
  prerelease is NON_BREAKING; one dependency at its target makes the repository
  UNAFFECTED.
- Migration: a parameter renamed to a name that exists hides that name's own change
  (`sdk_surface.py:237-238`); one renamed and become required is added under its old
  name (`planner.py:158-171`); two keywords added to a call without arguments do not
  parse; placeholders are mapped by position; overlapping edits of f-strings; the
  generator fails on its own output instead of NOT_NEEDED. Verification: a patch
  without Python is never VERIFIED (`execution_plan.py:55`); one passed test
  outweighs one that timed out; a bump that was not needed is a regression
  (`contract.py:70-81`); MOVE_IMPORT has no requirement; residual risk can be LOW
  beside REGRESSION_DETECTED.
- Dependencies: rebinding a name to another module does not unbind it
  (`scan.py:122-138`); in JavaScript whatever is assigned from a bound name counts as
  an instance; a function whose brace comes later stays pending across closing ones.

**Fixes, feedback, intelligence**

- An error that is no `GitError` (a token, HTTP) leaves an attempt VERIFYING where
  the docstring says ERROR; a call that dies leaves it active for ever, and
  `MAX_ACTIVE` of those lock the repository out; the limits are passed by concurrent
  calls; a present symbol alone makes FIXED possible. A later NOT_FIXED at the same
  head does not undo a FIXED for merge readiness, which reads only the latest run.
- Overlapping syncs record a removal that did not happen, or a thread's events twice
  or late; an edited command keeps the first one recorded;
  `recompute_and_persist_all` has no caller.
- The intelligence reports: a second caller of the same name is dropped
  (`companions.py:92-95`, `stale_consumers.py:75-78`); a file is marked as seen before
  its candidate is known to have a symbol (`companions.py:132-141`); affected
  omissions are untold when the list of changes was cut too; the fan-out of 50 is on
  an unordered query; signatures are compared by name alone; evidence for a candidate
  is the first delta of that name, in any file. An intent's gap says "not changed in
  this diff" of symbols changed in another unit (`coverage.py:82-102`); claims of equal
  text share an id; a test of two units is told of the first. Trajectories cut the
  newest heads first (`matching.py:63-84`); a surface can be both useful and noisy;
  a learning that merely falls out of the limits is retired.

## 9. Not modelled

Left out for good: what external analyzers compute, Tree-sitter, the text of diffs
and git itself (their results are inputs of the decisions), the HTTP client beyond
its failure classes, prompts and provider adapters, configuration, the offline
evaluation, the command line, MCP and the hand-off (displays and exports of rows
that other components write), the schema and its migrations. Parts of modelled
components that are abstracted are named in the sections above and in the notes of
`PROJECT.json`.

Not stated as a property because the code does not have it: that every check run
ends. **The check stays queued** when a pull request is over the resource limits,
when a pipeline is out of retries or fails in a way that is not retried, and when a
worker is lost; `EveryCheckCompletes` says that these, and a last write that failed,
are the only ways.

Bounds are small, and what is argued from them is said per run above; where a
theorem of section 7 states the same property, the bound does not matter.
