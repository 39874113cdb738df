--------------------------- MODULE ReviewPipeline ---------------------------
(***************************************************************************)
(* The chain of tasks that an admitted delivery starts, and what it leaves *)
(* on GitHub: schedule, pipeline (index, analyze), review, publish, each   *)
(* keeping the commit's check run up to date.                              *)
(*                                                                         *)
(* A repository has one active index, of one commit.  Chains of several    *)
(* pull requests, and of several pushes to one, run side by side: each     *)
(* step of a review that needs the index reads it again and compares the   *)
(* commit.  A check run is written by listing the commit's checks and then *)
(* updating the one found, or creating one.  Publishing itself is module   *)
(* Publication, the review SpecialistReview; here they are only outcomes.  *)
(***************************************************************************)
EXTENDS Naturals, Sequences

CONSTANTS
    PullRequest,    \* open pull requests of one repository
    Nothing,        \* no commit, no pull request
    MaxRetries,     \* max_retries of run_review_pipeline_task
    (* bounds *)
    MaxCommits, MaxChains, MaxFaults

ASSUME PipelineAssumption ==
    /\ MaxRetries \in Nat
    /\ MaxCommits \in Nat /\ MaxChains \in Nat /\ MaxFaults \in Nat
    /\ Nothing \notin PullRequest \cup Nat

Commit == 1..MaxCommits
Chain  == 1..MaxChains

VARIABLES
    (* GitHub *)
    owner,      \* [Commit -> the pull request it was pushed to, or Nothing]
    head,       \* [PullRequest -> Commit or Nothing]
    checks,     \* [Commit -> its check runs, in the order of their creation]
    (* PatchFrog *)
    indexes,    \* [Chain -> status of the index row its task made last]
    active,     \* chains whose index row is the active one
    chains,     \* [Chain -> its delivery's and its tasks' progress]
    reviewed,   \* commits with a review run that SUCCEEDED
    (* history *)
    overlapped, \* commits of whose chains one started before another had ended
    replaced,   \* chains since whose indexing another has activated an index
    faults

historyVars == <<overlapped, replaced, faults>>
vars == <<owner, head, checks, indexes, active, chains, reviewed, historyVars>>

(* A check run is open, or completed with a conclusion: "reviewed" stands  *)
(* for the three that merge readiness gives a completed review.            *)
Open == {"queued", "in_progress"}
Completed == {"failure", "skipped", "neutral", "reviewed"}
CheckStatus == Open \cup Completed

(* Stages in which a task is to write the check, and the other ones.       *)
Writing == {"queue", "skip", "run", "finish"}
Over == {"none", "ended", "lost"}
Stage == {"sent", "pipeline", "index", "review", "load", "reviewing", "publish"}
         \cup Writing \cup Over

(* The rows of a task that was retried are FAILED, and stay so.            *)
IndexStatus == {"absent", "running", "succeeded", "failed"}

ChainState ==
    [commit : Commit \cup {Nothing}, stage : Stage,
     want   : CheckStatus,              \* what to write, in a Writing stage
     seen   : Nat \cup {Nothing},       \* the check found (0: none), once listed
     tries  : 0..MaxRetries,            \* retries of the pipeline task so far
     good   : BOOLEAN, bad : BOOLEAN,   \* candidates that were, were not reviewed
     stale  : BOOLEAN,                  \* it met an index of another commit
     unheard : BOOLEAN]                 \* its last write to the check failed

Unused == [commit |-> Nothing, stage |-> "none", want |-> "queued", seen |-> Nothing,
           tries |-> 0, good |-> FALSE, bad |-> FALSE, stale |-> FALSE, unheard |-> FALSE]

HasActiveIndex(n) == \E c \in active : chains[c].commit = n

TypeOK ==
    /\ owner \in [Commit -> PullRequest \cup {Nothing}]
    /\ head \in [PullRequest -> Commit \cup {Nothing}]
    /\ checks \in [Commit -> Seq(CheckStatus)]
    /\ indexes \in [Chain -> IndexStatus]
    /\ active \subseteq {c \in Chain : indexes[c] = "succeeded"}
    /\ \A b, c \in active : b = c
    /\ chains \in [Chain -> ChainState]
    /\ reviewed \subseteq Commit
    /\ overlapped \subseteq Commit /\ replaced \subseteq Chain
    /\ faults \in 0..MaxFaults

Init ==
    /\ owner = [n \in Commit |-> Nothing]
    /\ head = [p \in PullRequest |-> Nothing]
    /\ checks = [n \in Commit |-> <<>>]
    /\ indexes = [c \in Chain |-> "absent"] /\ active = {}
    /\ chains = [c \in Chain |-> Unused]
    /\ reviewed = {}
    /\ overlapped = {} /\ replaced = {} /\ faults = 0

At(c, s) == chains[c].stage = s
CommitOf(c) == chains[c].commit
ChainsOf(n) == {c \in Chain : CommitOf(c) = n}
Goes(c, s) == chains' = [chains EXCEPT ![c].stage = s]
GoesToWrite(c, s, w) ==
    chains' = [chains EXCEPT ![c].stage = s, ![c].want = w, ![c].tries = 0,
                             ![c].good = FALSE, ![c].bad = FALSE]
Fails(c) == GoesToWrite(c, "finish", "failure")

-----------------------------------------------------------------------------
(* GitHub: a head that is pushed, pushed back to, or reopened is announced *)
(* by a delivery, which Ingestion admits once; chains are numbered so.     *)
Announced(c, n) ==
    /\ chains[c] = Unused /\ \A b \in Chain : b < c => chains[b] # Unused
    /\ chains' = [chains EXCEPT ![c].commit = n, ![c].stage = "sent"]

HeadAnnounced(p, c) ==
    /\ \E n \in Commit :
         /\ \/ /\ owner[n] = Nothing /\ \A m \in 1..(n - 1) : owner[m] # Nothing
               /\ owner' = [owner EXCEPT ![n] = p]
            \/ owner[n] = p /\ UNCHANGED owner
         /\ head' = [head EXCEPT ![p] = n]
         /\ Announced(c, n)
    /\ UNCHANGED <<checks, indexes, active, reviewed, historyVars>>

(* schedule_pipeline_if_eligible: the gate's verdict is Ingestion's.       *)
Schedule(c) ==
    /\ At(c, "sent")
    /\ GoesToWrite(c, "queue", "queued") \/ GoesToWrite(c, "skip", "skipped")
    /\ overlapped' = IF \E b \in ChainsOf(CommitOf(c)) \ {c} :
                          \/ chains[b].stage \notin Over \cup {"sent"}
                          \/ At(b, "sent") /\ b < c
                     THEN overlapped \cup {CommitOf(c)} ELSE overlapped
    /\ UNCHANGED <<owner, head, checks, indexes, active, reviewed, replaced, faults>>

-----------------------------------------------------------------------------
(* ReviewCheckPublisher.reconcile; a failure is logged and the task goes   *)
(* on as if it had written.                                                *)
Writes(c) == chains[c].stage \in Writing

AfterWriting(c) == CASE At(c, "queue") -> "pipeline"
                     [] At(c, "run")   -> "load"
                     [] OTHER          -> "ended"

Written(c, failed) ==
    chains' = [chains EXCEPT ![c].stage = AfterWriting(c), ![c].seen = Nothing,
                             ![c].unheard = failed]

(* Only a check that is not completed is taken for the commit's own.       *)
MatchingOpen(n) == {k \in DOMAIN checks[n] : checks[n][k] \in Open}

(* Those with the name and the external id of the commit, which are all.   *)
Matching(n) == DOMAIN checks[n]

CheckListed(c) ==
    /\ Writes(c) /\ chains[c].seen = Nothing
    /\ \E k \in IF Matching(CommitOf(c)) = {} THEN {0} ELSE Matching(CommitOf(c)) :
         chains' = [chains EXCEPT ![c].seen = k]
    /\ UNCHANGED <<owner, head, checks, indexes, active, reviewed, historyVars>>

CheckWritten(c) ==
    /\ Writes(c) /\ chains[c].seen # Nothing
    /\ LET n == CommitOf(c)  k == chains[c].seen  w == chains[c].want
       IN  checks' = [checks EXCEPT ![n] = IF k = 0 THEN Append(@, w)
                                           ELSE [@ EXCEPT ![k] = w]]
    /\ Written(c, FALSE)
    /\ UNCHANGED <<owner, head, indexes, active, reviewed, historyVars>>

CheckNotWritten(c) ==
    /\ Writes(c) /\ faults < MaxFaults
    /\ faults' = faults + 1
    /\ Written(c, TRUE)
    /\ UNCHANGED <<owner, head, checks, indexes, active, reviewed, overlapped, replaced>>

-----------------------------------------------------------------------------
(* run_review_pipeline_task.  A retryable error starts the task anew while *)
(* retries are left; otherwise the task is over and so is the chain, as it *)
(* is when the change is over the resource limits.  Nothing writes the     *)
(* check then.                                                             *)
RetryOrLose(c) ==
    \/ /\ chains[c].tries < MaxRetries
       /\ chains' = [chains EXCEPT ![c].stage = "pipeline", ![c].tries = @ + 1]
    \/ Goes(c, "lost")

FetchOrLimitsFail(c) ==
    /\ At(c, "pipeline")
    /\ RetryOrLose(c)
    /\ UNCHANGED <<owner, head, checks, indexes, active, reviewed, historyVars>>

(* create_running: its own transaction.                                    *)
StartIndex(c) ==
    /\ At(c, "pipeline")
    /\ indexes' = [indexes EXCEPT ![c] = "running"]
    /\ Goes(c, "index")
    /\ UNCHANGED <<owner, head, checks, active, reviewed, historyVars>>

(* mark_succeeded: whatever index was active is so no more.  The analysis  *)
(* that follows fails without consequence, and the review is enqueued.     *)
UsesIndex(c) == chains[c].stage \in {"review", "run", "load", "reviewing"}

FinishIndex(c) ==
    /\ At(c, "index")
    /\ indexes' = [indexes EXCEPT ![c] = "succeeded"]
    /\ active' = {c}
    /\ replaced' = (replaced \cup {b \in Chain : UsesIndex(b)}) \ {c}
    /\ Goes(c, "review")
    /\ UNCHANGED <<owner, head, checks, reviewed, overlapped, faults>>

(* A failed indexing takes the active index with it. *)
FailIndexDeactivates(c) ==
    /\ At(c, "index")
    /\ indexes' = [indexes EXCEPT ![c] = "failed"]
    /\ active' = {}
    /\ RetryOrLose(c)
    /\ UNCHANGED <<owner, head, checks, reviewed, historyVars>>

(* _fail_run: the transaction that was to activate the row is rolled back. *)
FailIndex(c) ==
    /\ At(c, "index")
    /\ indexes' = [indexes EXCEPT ![c] = "failed"]
    /\ RetryOrLose(c)
    /\ UNCHANGED <<owner, head, checks, active, reviewed, historyVars>>

-----------------------------------------------------------------------------
(* review_pull_request_task.  The head is GitHub's, at this moment.        *)
Superseded(c) == head[owner[CommitOf(c)]] # CommitOf(c)

(* Two variants with a mistake the code does not make: a superseded review *)
(* ends without a word, and so does one that raises.                       *)
StartReviewSilently(c) ==
    /\ At(c, "review")
    /\ IF Superseded(c) THEN Goes(c, "ended")
                        ELSE GoesToWrite(c, "run", "in_progress")
    /\ UNCHANGED <<owner, head, checks, indexes, active, reviewed, historyVars>>

ReviewRaisesSilently(c) ==
    /\ chains[c].stage \in {"review", "load", "reviewing"}
    /\ Goes(c, "ended")
    /\ UNCHANGED <<owner, head, checks, indexes, active, reviewed, historyVars>>

StartReview(c) ==
    /\ At(c, "review")
    /\ IF Superseded(c) THEN GoesToWrite(c, "skip", "skipped")
                        ELSE GoesToWrite(c, "run", "in_progress")
    /\ UNCHANGED <<owner, head, checks, indexes, active, reviewed, historyVars>>

(* The token, the metadata, the files, a configuration, a provider ...     *)
ReviewRaises(c) ==
    /\ chains[c].stage \in {"review", "load", "reviewing"}
    /\ Fails(c)
    /\ UNCHANGED <<owner, head, checks, indexes, active, reviewed, historyVars>>

(* require_matching_review_index: before the candidates are computed and   *)
(* again when the run starts, with the same outcome.  A run that SUCCEEDED *)
(* for the commit is returned instead of a new one, if the rest of its     *)
(* identity agrees.                                                        *)
StartRun(c) ==
    /\ At(c, "load")
    /\ IF ~HasActiveIndex(CommitOf(c))
       THEN chains' = [chains EXCEPT ![c].stage = "finish", ![c].want = "failure",
                                     ![c].stale = TRUE]
       ELSE \/ Goes(c, "reviewing")
            \/ /\ CommitOf(c) \in reviewed
               /\ \E s \in {"publish", "finish"} : GoesToWrite(c, s, "reviewed")
    /\ UNCHANGED <<owner, head, checks, indexes, active, reviewed, historyVars>>

(* A candidate's context needs the index once more; without it the         *)
(* candidate fails, as it may for other reasons.                           *)
ReviewCandidate(c) ==
    /\ At(c, "reviewing")
    /\ \/ HasActiveIndex(CommitOf(c)) /\ chains' = [chains EXCEPT ![c].good = TRUE]
       \/ HasActiveIndex(CommitOf(c)) /\ chains' = [chains EXCEPT ![c].bad = TRUE]
       \/ /\ ~HasActiveIndex(CommitOf(c))
          /\ chains' = [chains EXCEPT ![c].bad = TRUE, ![c].stale = TRUE]
    /\ UNCHANGED <<owner, head, checks, indexes, active, reviewed, historyVars>>

(* The run's status, and publish_review_task if both gates are open.  The  *)
(* budget may have ended the run early.                                    *)
RunStatus(c) ==
    IF ~chains[c].good THEN {"failed"}
    ELSE IF chains[c].bad THEN {"partial"}
    ELSE {"partial", "succeeded"}

EndRun(c) ==
    /\ At(c, "reviewing")
    /\ chains[c].good \/ chains[c].bad
    /\ \E status \in RunStatus(c) :
         /\ reviewed' = IF status = "succeeded" THEN reviewed \cup {CommitOf(c)}
                                                ELSE reviewed
         /\ IF status = "failed" THEN Fails(c)
            ELSE \E s \in {"publish", "finish"} :
                   GoesToWrite(c, s, IF status = "partial" THEN "neutral" ELSE "reviewed")
    /\ UNCHANGED <<owner, head, checks, indexes, active, historyVars>>

(* publish_review_task; want is what the run's status asks for.  A review  *)
(* that another chain has published is not held against the head again.    *)
MayBePublished(n) ==
    \E b \in ChainsOf(n) : /\ chains[b].stage \in {"publish", "finish"} \cup Over
                           /\ chains[b].want \in {"reviewed", "neutral"}

Publish(c) ==
    /\ At(c, "publish")
    /\ \/ Superseded(c) /\ GoesToWrite(c, "finish", "skipped")
       \/ /\ ~Superseded(c) \/ MayBePublished(CommitOf(c))
          /\ Goes(c, "finish")
       \/ Fails(c)
    /\ UNCHANGED <<owner, head, checks, indexes, active, reviewed, historyVars>>

(* An exception outside reconcile, or a worker killed: acknowledged when   *)
(* it started, the task is not run again.  An index row stays RUNNING.     *)
TaskLost(c) ==
    /\ chains[c].stage \notin Over \cup {"sent"}
    /\ faults < MaxFaults
    /\ faults' = faults + 1
    /\ Goes(c, "lost")
    /\ UNCHANGED <<owner, head, checks, indexes, active, reviewed, overlapped, replaced>>

TaskStep(c) ==
    \/ Schedule(c) \/ CheckListed(c) \/ CheckWritten(c)
    \/ FetchOrLimitsFail(c) \/ StartIndex(c) \/ FinishIndex(c) \/ FailIndex(c)
    \/ StartReview(c) \/ ReviewRaises(c) \/ StartRun(c)
    \/ ReviewCandidate(c) \/ EndRun(c) \/ Publish(c)

Next ==
    \/ \E p \in PullRequest, c \in Chain : HeadAnnounced(p, c)
    \/ \E c \in Chain : TaskStep(c) \/ CheckNotWritten(c) \/ TaskLost(c)

Spec == Init /\ [][Next]_vars

(* Workers take what is queued, and GitHub and the providers answer or     *)
(* time out, so a task goes on until it ends.                              *)
FairSpec == Spec /\ \A c \in Chain : WF_vars(TaskStep(c))

-----------------------------------------------------------------------------
Settled(n) == \A c \in ChainsOf(n) : chains[c].stage \in Over

(* OneCheckPerHead: a commit has one check run, however many deliveries,   *)
(* retries and failed writes there were, unless two chains for the commit  *)
(* ran side by side (both list, then both create).                         *)
OneCheckPerHead == \A n \in Commit \ overlapped : Len(checks[n]) <= 1

(* CheckTellsOutcome: when the chains of a commit, run one after the       *)
(* other, are over and the last one got its last word through, the commit  *)
(* has a check, completed, that says how this last chain ended: no write   *)
(* of an earlier stage or chain stands after it.                           *)
LastChain(n) == CHOOSE c \in ChainsOf(n) : \A b \in ChainsOf(n) : b <= c

CheckTellsOutcome ==
    \A n \in Commit \ overlapped :
        ChainsOf(n) # {} /\ Settled(n) =>
            LET c == chains[LastChain(n)] IN
            c.stage = "ended" /\ ~c.unheard => checks[n] = <<c.want>> /\ c.want \in Completed

(* StaleOnlyIfReplaced: a review meets an index of another commit, or      *)
(* none, only when another chain's indexing has succeeded after its own;   *)
(* an indexing that failed, was retried or died never costs another        *)
(* commit its review.                                                      *)
StaleOnlyIfReplaced == \A c \in Chain : chains[c].stale => c \in replaced

(* EveryCheckCompletes: the check of a commit that is announced is in the  *)
(* end completed, unless a chain for it was lost (killed, raised outside   *)
(* the review task, over the limits, out of retries) or its last write to  *)
(* the check failed.                                                       *)
CheckCompleted(n) == \E k \in DOMAIN checks[n] : checks[n][k] \in Completed
Untold(n) == \E c \in ChainsOf(n) :
    At(c, "lost") \/ (At(c, "ended") /\ chains[c].unheard)

EveryCheckCompletes ==
    \A n \in Commit : ChainsOf(n) # {} ~> (CheckCompleted(n) \/ Untold(n))
=============================================================================
