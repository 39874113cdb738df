---------------------------- MODULE Publication ----------------------------
(***************************************************************************)
(* Publishing one review run as a GitHub pull request review.              *)
(*                                                                         *)
(* GitHub and the database share no transaction.  An attempt to publish    *)
(* commits a row in state PUBLISHING, writes the review to GitHub with no  *)
(* lock held, and then commits PUBLISHED or FAILED; the review's body      *)
(* carries a marker, the id of that row.  An attempt that finds a          *)
(* PUBLISHING row older than IN_FLIGHT_GRACE takes it for abandoned, looks *)
(* for the marker on GitHub and either adopts the review it finds or       *)
(* supersedes the row and starts over.                                     *)
(*                                                                         *)
(* The module follows one publication identity per mode: (review run,      *)
(* mode, policy fingerprint).  The identity lock makes each of             *)
(* GetOrCreateAttempt and MarkPublished a single step; every other         *)
(* transaction and every GitHub call is a step of its own.                 *)
(***************************************************************************)
EXTENDS Naturals, Sequences, FiniteSets
LOCAL INSTANCE TLC

CONSTANTS
    Attempt,       \* executions of publish_review, each a process
    Pub,           \* ids of review_publications rows
    NoPub,         \* an attempt that works on no row
    Commit,        \* commits the pull request's head may be at
    RunHead,       \* the commit the review run looked at
    Mode,          \* modes in which attempts are made
    PlanOutcome,   \* what the planner may return for the run's own head
    Fault,         \* which of AllFaults may happen
    FaultClass,    \* classes of the GitHub errors that may happen
    MaxCrashes     \* bound on killed workers

AllModes == {"publish", "dry_run"}

(* "read_error": a GitHub read raises.  "write_rejected": GitHub refuses   *)
(* the review.  "response_lost": the create-review request times out or    *)
(* its answer is unreadable, whatever GitHub does with it.                 *)
(* "slow_attempt": an attempt, or its request, outlives IN_FLIGHT_GRACE.   *)
AllFaults == {"read_error", "write_rejected", "response_lost", "slow_attempt"}

(* patchfrog.publishing.errors.PublicationFailureClass *)
PublicationFailureClass ==
    {"retryable", "rate_limited", "permission_denied", "non_retryable"}

(* The planner's result for a matching head; "disabled" stands for a       *)
(* writable plan under publish.enabled = false.                            *)
AllPlanOutcomes == {"planned", "skipped_no_findings", "disabled"}

ASSUME PublicationAssumption ==
    /\ NoPub \notin Pub
    /\ RunHead \in Commit
    /\ Mode \subseteq AllModes
    /\ PlanOutcome \subseteq AllPlanOutcomes
    /\ Fault \subseteq AllFaults
    /\ FaultClass \subseteq PublicationFailureClass
    /\ MaxCrashes \in Nat

VARIABLES
    (* review_publications and review_publication_comments *)
    status,      \* [Pub -> RowStatus]
    mode,        \* [Pub -> AllModes], meaningful once the row exists
    cause,       \* [Pub -> failure class the row's error_message opens with]
    expired,     \* rows whose started_at is past IN_FLIGHT_GRACE
    commented,   \* rows whose plan's comments were persisted
    (* GitHub *)
    head,        \* the pull request's current head
    inflight,    \* markers of create-review requests GitHub has not served
    posted,      \* markers of the reviews on the pull request
    (* the attempts *)
    pc, cur,     \* where an attempt is, and the row it works on
    plan,        \* the plan it built
    errors,      \* errors[0] of its result, as a sequence of tokens
    crashes

rowVars     == <<status, mode, cause, expired, commented>>
githubVars  == <<head, inflight, posted>>
attemptVars == <<pc, cur, plan, errors>>
vars == <<rowVars, githubVars, attemptVars, crashes>>

RowStatus == {"absent", "publishing", "published", "failed", "stale",
              "skipped_no_findings", "skipped_disabled", "dry_run"}

(* Steps of an attempt that created its row, in the order it takes them.   *)
Working == {"plan", "persist", "finalize", "check", "mark_stale",
            "send", "await", "mark", "fail"}

(* Steps of an attempt that found an abandoned row.                        *)
Reconciling == {"reconcile", "adopt", "supersede"}

Location == {"idle", "again", "return"} \cup Working \cup Reconciling

TypeOK ==
    /\ status \in [Pub -> RowStatus]
    /\ mode \in [Pub -> AllModes]
    /\ cause \in [Pub -> PublicationFailureClass \cup {"none"}]
    /\ expired \subseteq Pub
    /\ commented \subseteq Pub
    /\ head \in Commit
    /\ inflight \subseteq Pub
    /\ posted \subseteq Pub
    /\ pc \in [Attempt -> Location]
    /\ cur \in [Attempt -> Pub \cup {NoPub}]
    /\ \A a \in Attempt : pc[a] # "idle" => cur[a] \in Pub
    /\ plan \in [Attempt -> AllPlanOutcomes \cup {"none", "stale"}]
    /\ errors \in [Attempt -> {<<>>, <<"detail">>} \cup
                              {<<c, "detail">> : c \in PublicationFailureClass}]
    /\ crashes \in Nat

Init ==
    /\ status = [p \in Pub |-> "absent"]
    /\ mode = [p \in Pub |-> "publish"]
    /\ cause = [p \in Pub |-> "none"]
    /\ expired = {} /\ commented = {}
    /\ head = RunHead /\ inflight = {} /\ posted = {}
    /\ pc = [a \in Attempt |-> "idle"]
    /\ cur = [a \in Attempt |-> NoPub]
    /\ plan = [a \in Attempt |-> "none"]
    /\ errors = [a \in Attempt |-> <<>>]
    /\ crashes = 0

-----------------------------------------------------------------------------
(* get_published and get_in_flight: the identity's rows in one status.     *)
Rows(m, s) == {p \in Pub : mode[p] = m /\ status[p] = s}

Goto(a, l) == pc' = [pc EXCEPT ![a] = l]

(* The attempt is over and its worker free for the next delivery.          *)
Finish(a) ==
    /\ Goto(a, "idle")
    /\ cur' = [cur EXCEPT ![a] = NoPub]
    /\ plan' = [plan EXCEPT ![a] = "none"]
    /\ errors' = [errors EXCEPT ![a] = <<>>]

(* _fail and the task's retry policy need the class of the exception.      *)
FailWith(a, c) ==
    /\ Goto(a, "fail")
    /\ errors' = [errors EXCEPT ![a] = <<c, "detail">>]
    /\ UNCHANGED <<cur, plan>>

-----------------------------------------------------------------------------
(* Variants of the definitions below, each with a mistake the code does    *)
(* not make; they are no part of Spec.                                     *)

(* The identity's PUBLISHING row is not looked for. *)
CreateBesideInFlight(a, m) ==
    /\ Rows(m, "published") = {}
    /\ \E p \in Pub :
         /\ status[p] = "absent"
         /\ status' = [status EXCEPT ![p] = IF m = "publish" THEN "publishing"
                                                             ELSE "dry_run"]
         /\ mode' = [mode EXCEPT ![p] = m]
         /\ cur' = [cur EXCEPT ![a] = p]
    /\ Goto(a, "plan")
    /\ errors' = [errors EXCEPT ![a] = <<>>]
    /\ UNCHANGED plan

(* publish() waits for the other attempt by calling itself. *)
InProgressRetriedAtOnce(a, m) ==
    /\ Rows(m, "published") = {}
    /\ \E p \in Rows(m, "publishing") : p \notin expired /\ cur' = [cur EXCEPT ![a] = p]
    /\ Goto(a, "again")
    /\ errors' = [errors EXCEPT ![a] = <<>>]
    /\ UNCHANGED <<status, mode, plan>>

(* An abandoned row is superseded without asking GitHub. *)
ScanSkipped(a) ==
    /\ pc[a] = "reconcile"
    /\ Goto(a, "supersede")
    /\ UNCHANGED <<cur, plan, errors, rowVars, githubVars, crashes>>

(* Any marker of PatchFrog's is taken for the row's own. *)
ScanForAnyMarker(a) ==
    /\ pc[a] = "reconcile"
    /\ Goto(a, IF posted # {} THEN "adopt" ELSE "supersede")
    /\ UNCHANGED <<cur, plan, errors, rowVars, githubVars, crashes>>

(* The row is superseded and nobody takes its place. *)
SupersedeAndStop(a) ==
    /\ pc[a] = "supersede"
    /\ status' = [status EXCEPT ![cur[a]] = "failed"]
    /\ Finish(a)
    /\ UNCHANGED <<mode, cause, expired, commented, githubVars, crashes>>

(* A dry run is not told apart from a real one. *)
WritesNothingButDryRun(a) == plan[a] # "planned"

(* The row is marked without waiting for GitHub's answer. *)
SendAndForget(a) ==
    /\ pc[a] = "send"
    /\ inflight' = inflight \cup {cur[a]}
    /\ Goto(a, "mark")
    /\ UNCHANGED <<cur, plan, errors, rowVars, head, posted, crashes>>

(* mark_published does not look for a concurrent winner. *)
MarkPublishedBlindly(a) ==
    /\ pc[a] \in {"mark", "adopt"}
    /\ status' = [status EXCEPT ![cur[a]] = "published"]
    /\ Finish(a)
    /\ UNCHANGED <<mode, cause, expired, commented, githubVars, crashes>>

-----------------------------------------------------------------------------
(* get_or_create_attempt, under the identity lock.  The attempt is a fresh *)
(* delivery, or publish() calling itself after superseding a row, or the   *)
(* task run again by its retry policy.                                     *)
Create(a, m) ==
    /\ Rows(m, "published") = {} /\ Rows(m, "publishing") = {}
    /\ \E p \in Pub :
         /\ status[p] = "absent"
         /\ status' = [status EXCEPT ![p] = IF m = "publish" THEN "publishing"
                                                             ELSE "dry_run"]
         /\ mode' = [mode EXCEPT ![p] = m]
         /\ cur' = [cur EXCEPT ![a] = p]
    /\ Goto(a, "plan")
    /\ errors' = [errors EXCEPT ![a] = <<>>]
    /\ UNCHANGED plan

AlreadyPublished(a, m) ==
    /\ Rows(m, "published") # {}
    /\ Finish(a)
    /\ UNCHANGED <<status, mode>>

InProgressElsewhere(a, m) ==
    /\ Rows(m, "published") = {}
    /\ \E p \in Rows(m, "publishing") : p \notin expired
    /\ Finish(a)
    /\ UNCHANGED <<status, mode>>

ReconcileNeeded(a, m) ==
    /\ Rows(m, "published") = {}
    /\ \E p \in Rows(m, "publishing") : p \in expired /\ cur' = [cur EXCEPT ![a] = p]
    /\ Goto(a, "reconcile")
    /\ errors' = [errors EXCEPT ![a] = <<>>]
    /\ UNCHANGED <<status, mode, plan>>

GetOrCreateAttempt(a, m) ==
    /\ \/ pc[a] = "idle"
       \/ pc[a] = "again" /\ m = mode[cur[a]]
    /\ \/ AlreadyPublished(a, m)
       \/ InProgressElsewhere(a, m)
       \/ ReconcileNeeded(a, m)
       \/ Create(a, m)
    /\ UNCHANGED <<cause, expired, commented, githubVars, crashes>>

-----------------------------------------------------------------------------
(* An abandoned row: find_patchfrog_review scans the pull request's        *)
(* reviews for the row's marker.  Its errors are not caught by publish().  *)
ScanForMarker(a) ==
    /\ pc[a] = "reconcile"
    /\ Goto(a, IF cur[a] \in posted THEN "adopt" ELSE "supersede")
    /\ UNCHANGED <<cur, plan, errors, rowVars, githubVars, crashes>>

ScanFails(a) ==
    /\ "read_error" \in Fault
    /\ pc[a] = "reconcile"
    /\ Finish(a)
    /\ UNCHANGED <<rowVars, githubVars, crashes>>

(* supersede_abandoned in a transaction of its own, without the identity   *)
(* lock and whatever the row has become since it was read; publish() then  *)
(* calls itself.                                                           *)
SupersedeAbandoned(a) ==
    /\ pc[a] = "supersede"
    /\ status' = [status EXCEPT ![cur[a]] = "failed"]
    /\ Goto(a, "again")
    /\ UNCHANGED <<mode, cause, expired, commented, cur, plan, errors,
                   githubVars, crashes>>

-----------------------------------------------------------------------------
(* A new row: live head and diff, then the planner.                        *)
BuildPlan(a) ==
    /\ pc[a] = "plan"
    /\ \/ head # RunHead /\ plan' = [plan EXCEPT ![a] = "stale"]
       \/ head = RunHead /\ \E o \in PlanOutcome : plan' = [plan EXCEPT ![a] = o]
    /\ Goto(a, "persist")
    /\ UNCHANGED <<cur, errors, rowVars, githubVars, crashes>>

(* The reads of BuildPlan and FinalHeadCheck raise.                        *)
ReadFails(a) ==
    /\ "read_error" \in Fault
    /\ pc[a] \in {"plan", "check"}
    /\ \E c \in FaultClass : FailWith(a, c)
    /\ UNCHANGED <<rowVars, githubVars, crashes>>

WritesNothing(a) == plan[a] # "planned" \/ mode[cur[a]] = "dry_run"

(* _persist_plan_comments; a stale plan has no comments.                   *)
PersistPlanComments(a) ==
    /\ pc[a] = "persist"
    /\ commented' = IF plan[a] = "stale" THEN commented ELSE commented \cup {cur[a]}
    /\ Goto(a, IF WritesNothing(a) THEN "finalize" ELSE "check")
    /\ UNCHANGED <<status, mode, cause, expired, cur, plan, errors,
                   githubVars, crashes>>

NoWriteStatus(a) ==
    IF plan[a] \in {"stale", "skipped_no_findings"} THEN plan[a]
    ELSE IF mode[cur[a]] = "dry_run" THEN "dry_run" ELSE "skipped_disabled"

(* _finalize_no_write.                                                     *)
FinalizeNoWrite(a) ==
    /\ pc[a] = "finalize"
    /\ status' = [status EXCEPT ![cur[a]] = NoWriteStatus(a)]
    /\ Finish(a)
    /\ UNCHANGED <<mode, cause, expired, commented, githubVars, crashes>>

(* The last head check before the write, and the row it closes as stale.   *)
FinalHeadCheck(a) ==
    /\ pc[a] = "check"
    /\ Goto(a, IF head = RunHead THEN "send" ELSE "mark_stale")
    /\ UNCHANGED <<cur, plan, errors, rowVars, githubVars, crashes>>

MarkStale(a) ==
    /\ pc[a] = "mark_stale"
    /\ status' = [status EXCEPT ![cur[a]] = "stale"]
    /\ Finish(a)
    /\ UNCHANGED <<mode, cause, expired, commented, githubVars, crashes>>

-----------------------------------------------------------------------------
(* The write: create_pull_request_review.                                  *)
SendReview(a) ==
    /\ pc[a] = "send"
    /\ inflight' = inflight \cup {cur[a]}
    /\ Goto(a, "await")
    /\ UNCHANGED <<cur, plan, errors, rowVars, head, posted, crashes>>

ReceiveResponse(a) ==
    /\ pc[a] = "await"
    /\ cur[a] \in posted
    /\ Goto(a, "mark")
    /\ UNCHANGED <<cur, plan, errors, rowVars, githubVars, crashes>>

(* GitHub answers with an error and creates nothing.                       *)
WriteRejected(a) ==
    /\ "write_rejected" \in Fault
    /\ pc[a] = "await"
    /\ cur[a] \in inflight
    /\ inflight' = inflight \ {cur[a]}
    /\ \E c \in FaultClass : FailWith(a, c)
    /\ UNCHANGED <<rowVars, head, posted, crashes>>

(* A timeout or a network error (retryable), or a malformed body           *)
(* (non_retryable): the request may have been, or may yet be, served.      *)
ResponseLost(a) ==
    /\ "response_lost" \in Fault
    /\ pc[a] = "await"
    /\ \E c \in FaultClass \cap {"retryable", "non_retryable"} : FailWith(a, c)
    /\ UNCHANGED <<rowVars, githubVars, crashes>>

(* mark_published, under the identity lock: the row, or the one that was   *)
(* published before it, is canonical.                                      *)
MarkPublished(a) ==
    LET existing == Rows(mode[cur[a]], "published") \ {cur[a]} IN
    /\ pc[a] \in {"mark", "adopt"}
    /\ \/ /\ existing # {}
          /\ status' = [status EXCEPT ![cur[a]] = "failed"]
       \/ /\ existing = {}
          /\ status' = [status EXCEPT ![cur[a]] = "published"]
    /\ Finish(a)
    /\ UNCHANGED <<mode, cause, expired, commented, githubVars, crashes>>

(* _fail: the row's error_message opens with the class of the exception,   *)
(* the result's errors hold the detail alone.                              *)
Fail(a) ==
    /\ pc[a] = "fail"
    /\ status' = [status EXCEPT ![cur[a]] = "failed"]
    /\ cause' = [cause EXCEPT ![cur[a]] = Head(errors[a])]
    /\ errors' = [errors EXCEPT ![a] = <<"detail">>]
    /\ Goto(a, "return")
    /\ UNCHANGED <<mode, expired, commented, cur, plan, githubVars, crashes>>

-----------------------------------------------------------------------------
(* publish_review_task: a FAILED result whose first error starts with a    *)
(* retryable class is raised to Celery, which runs the task again.         *)
RetryableClass == {"retryable", "rate_limited"}

StartsWithRetryableClass(raw) == raw # <<>> /\ Head(raw) \in RetryableClass

TaskReturns(a) ==
    /\ pc[a] = "return"
    /\ IF StartsWithRetryableClass(errors[a])
       THEN Goto(a, "again") /\ UNCHANGED <<cur, plan, errors>>
       ELSE Finish(a)
    /\ UNCHANGED <<rowVars, githubVars, crashes>>

-----------------------------------------------------------------------------
(* GitHub and the environment.                                             *)

(* A create-review request is served.                                      *)
ReviewLands(p) ==
    /\ p \in inflight
    /\ inflight' = inflight \ {p}
    /\ posted' = posted \cup {p}
    /\ UNCHANGED <<head, rowVars, attemptVars, crashes>>

(* A request nobody waits for any more is lost.                            *)
RequestLost(p) ==
    /\ p \in inflight
    /\ \A a \in Attempt : ~(pc[a] = "await" /\ cur[a] = p)
    /\ inflight' = inflight \ {p}
    /\ UNCHANGED <<head, posted, rowVars, attemptVars, crashes>>

Push(h) ==
    /\ h # head
    /\ head' = h
    /\ UNCHANGED <<inflight, posted, rowVars, attemptVars, crashes>>

(* A PUBLISHING row gets older than IN_FLIGHT_GRACE: five minutes, long    *)
(* after the attempt that created it and its request have ended unless     *)
(* attempts may be slow.                                                   *)
GracePasses(p) ==
    /\ status[p] = "publishing" /\ p \notin expired
    /\ \/ "slow_attempt" \in Fault
       \/ p \notin inflight /\ \A a \in Attempt : cur[a] # p
    /\ expired' = expired \cup {p}
    /\ UNCHANGED <<status, mode, cause, commented, githubVars,
                   attemptVars, crashes>>

(* The worker is killed; Celery acknowledged the task when it started, so  *)
(* nothing runs it again.                                                  *)
Crash(a) ==
    /\ crashes < MaxCrashes
    /\ pc[a] # "idle"
    /\ crashes' = crashes + 1
    /\ Finish(a)
    /\ UNCHANGED <<rowVars, githubVars>>

AttemptStep(a) ==
    \/ ScanForMarker(a) \/ ScanFails(a) \/ SupersedeAbandoned(a)
    \/ BuildPlan(a) \/ ReadFails(a) \/ PersistPlanComments(a)
    \/ FinalizeNoWrite(a) \/ FinalHeadCheck(a) \/ MarkStale(a)
    \/ SendReview(a) \/ ReceiveResponse(a) \/ WriteRejected(a) \/ ResponseLost(a)
    \/ MarkPublished(a) \/ Fail(a) \/ TaskReturns(a)

GitHubStep(p) == ReviewLands(p) \/ RequestLost(p)

Next ==
    \/ \E a \in Attempt, m \in Mode : GetOrCreateAttempt(a, m)
    \/ \E a \in Attempt : AttemptStep(a) \/ Crash(a)
    \/ \E p \in Pub : GitHubStep(p) \/ GracePasses(p)
    \/ \E h \in Commit : Push(h)

Spec == Init /\ [][Next]_vars

(* A task that runs goes on running unless its worker is killed, publish() *)
(* calls itself without waiting for anything, and GitHub serves the        *)
(* requests it receives.  Nothing makes a new delivery, the passing of the *)
(* grace period or a push happen.                                          *)
Fairness ==
    /\ \A a \in Attempt :
         /\ WF_vars(AttemptStep(a))
         /\ WF_vars(pc[a] = "again" /\ \E m \in Mode : GetOrCreateAttempt(a, m))
    /\ \A p \in Pub : WF_vars(ReviewLands(p))

FairSpec == Spec /\ Fairness

-----------------------------------------------------------------------------
(* Helper state formulae.                                                  *)
Written == posted \cup inflight

(* Attempts end within the grace period and GitHub's answers arrive.       *)
Prompt == "slow_attempt" \notin Fault
PromptAndAnswered == Prompt /\ "response_lost" \notin Fault

(* The inductive invariant behind NoOrphanReview and AtMostOneReview is    *)
(* these four: ErrorsOK, OneLiveRow, Ownership and NoOrphanReview.         *)

(* What _fail and TaskReturns find in errors.                              *)
ErrorsOK ==
    \A a \in Attempt :
        /\ pc[a] = "fail" => \E c \in PublicationFailureClass : errors[a] = <<c, "detail">>
        /\ pc[a] = "return" => errors[a] = <<"detail">>

(* A row in PUBLISH mode that is PUBLISHING or PUBLISHED.                  *)
Live(p) == mode[p] = "publish" /\ status[p] \in {"publishing", "published"}

OneLiveRow == \A p, q \in Pub : Live(p) /\ Live(q) => p = q

(* Ownership: an attempt that created a row has it to itself, and until    *)
(* its write the row has no review; an attempt that reconciles a row has   *)
(* it after its creator, and supersedes it only if no review can follow.   *)
Ownership ==
    /\ \A p \in Pub : status[p] \in {"publishing", "published"} => mode[p] = "publish"
    /\ \A p \in expired : status[p] # "absent" /\ p \notin inflight
    /\ inflight \cap posted = {}
    /\ \A a \in Attempt : pc[a] # "idle" => status[cur[a]] # "absent"
    /\ \A a \in Attempt :
         pc[a] \in Working /\ mode[cur[a]] = "publish"
           => status[cur[a]] = "publishing" /\ cur[a] \notin expired
    /\ \A a, b \in Attempt :
         pc[a] \in Working /\ pc[b] \in Working /\ cur[a] = cur[b] => a = b
    /\ \A a \in Attempt :
         pc[a] \in {"plan", "persist", "finalize", "check", "mark_stale", "send",
                    "fail", "supersede"} => cur[a] \notin Written
    /\ \A a \in Attempt : pc[a] \in {"mark", "adopt"} => cur[a] \in posted
    /\ \A a \in Attempt :
         pc[a] \in Reconciling => cur[a] \in expired /\ mode[cur[a]] = "publish"
    /\ \A a \in Attempt :
         pc[a] \in {"check", "mark_stale", "send", "await", "mark"}
           => mode[cur[a]] = "publish"

(* OneCanonicalRow: whatever attempts, crashes, slow attempts and lost     *)
(* answers do, an identity never has two PUBLISHED rows (the partial       *)
(* unique index would raise in the middle of mark_published) nor two       *)
(* PUBLISHING rows (get_in_flight would hide one of them for ever).        *)
OneCanonicalRow ==
    \A m \in AllModes, s \in {"published", "publishing"} :
        \A p, q \in Rows(m, s) : p = q

(* PublishedIsBacked: a PUBLISHED row has its review on GitHub and its     *)
(* comment rows in the database, so list_actually_published_finding_ids,   *)
(* which trusts PUBLISHED alone, never suppresses a finding that nobody    *)
(* was shown, also when the row was adopted from another attempt's crash.  *)
PublishedIsBacked ==
    \A p \in Pub : status[p] = "published" => p \in posted /\ p \in commented

(* WrittenAsPlanned: a review that is on GitHub or on its way there was    *)
(* planned for publish mode and its comment rows were durable first; a     *)
(* dry run or a row that never got its plan persisted writes nothing.      *)
WrittenAsPlanned ==
    \A p \in Written : mode[p] = "publish" /\ p \in commented

(* NoOrphanReview: a review on GitHub or on its way there belongs to a row *)
(* that is PUBLISHED, or still PUBLISHING so that the next attempt finds   *)
(* it by its marker.                                                       *)
NoOrphanReview ==
    \A p \in Written : status[p] \in {"publishing", "published"}

(* AtMostOneReview: the pull request never gets a second review for one    *)
(* run ("a second publish_review dispatch for the same identity never      *)
(* produces a duplicate GitHub review", docs/production-e2e.md).           *)
AtMostOneReview == \A p, q \in posted : p = q

(* ImplementsPublishOnce: when attempts are prompt and answered, the rows, *)
(* the locks, the crashes and the reconciliation together are PublishOnce. *)
PO == INSTANCE PublishOnce
        WITH Review <- Pub,
             reviews <- posted,
             recorded <- \E p \in Pub : status[p] = "published"

ImplementsPublishOnce == PO!Spec

(* EveryAttemptEnds: publish() calls itself after superseding a row, yet   *)
(* no interleaving of attempts keeps it calling itself for ever.  (The     *)
(* model has no row left once all of Pub is used.)                         *)
RowsUsedUp == \A p \in Pub : status[p] # "absent"

EveryAttemptEnds ==
    \A a \in Attempt : pc[a] # "idle" ~> (pc[a] = "idle" \/ RowsUsedUp)

(* RecoveryCompletes: with no further crash, an attempt that reconciles    *)
(* an abandoned row leads to a row that says how the publication ended:    *)
(* published, overtaken by a push, nothing to publish, or failed with a    *)
(* recorded cause.                                                         *)
Decided ==
    \E p \in Pub : \/ status[p] \in {"published", "stale", "skipped_no_findings"}
                   \/ status[p] = "failed" /\ cause[p] # "none"

RecoveryCompletes ==
    \A a \in Attempt :
        pc[a] = "reconcile" /\ status[cur[a]] = "publishing" /\ crashes = MaxCrashes
            ~> (Decided \/ RowsUsedUp)

Symmetry == Permutations(Attempt) \cup Permutations(Pub)     \* for TLC: attempts and row ids are alike
=============================================================================
