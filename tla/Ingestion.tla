----------------------------- MODULE Ingestion -----------------------------
(***************************************************************************)
(* Pull request deliveries: from GitHub's webhook to the review pipeline.  *)
(*                                                                         *)
(* A task reserves the delivery's id in a transaction of its own, fetches  *)
(* the pull request from GitHub, stores what it fetched, asks the gate and *)
(* enqueues the pipeline.  A delivery that closes the pull request is      *)
(* stored from its own payload in one transaction.  GitHub's operator may  *)
(* send a delivery again; Celery acknowledged the task when it started, so *)
(* a killed worker's delivery is not run again.                            *)
(***************************************************************************)
EXTENDS Installations, FiniteSets

CONSTANTS
    MaxCrashes,
    DailyLimit      \* daily_review_limit of every installation

VARIABLES
    pull,           \* the pull request on GitHub
    stored,         \* its row
    ingestions,     \* [Delivery -> status of the row with this delivery_id]
    stage,          \* [Delivery -> where its task is]
    event,          \* [Delivery -> the message GitHub sent under this id]
    fetched,        \* [Delivery -> what its task fetched]
    admitted,       \* pipelines enqueued, by delivery and how often
    reviewed,       \* deliveries whose pipeline has created its review run
    overtaken,      \* history: a delivery started beside or after a later one
    crashes

ingestVars == <<stored, ingestions, stage, fetched>>
pipeVars   == <<admitted, reviewed>>
vars == <<githubVars, queue, clock, rowVars, historyVars, pull, event,
          ingestVars, pipeVars, overtaken, crashes>>

Delivery == 1..MaxMessages
PullRequest == [head : 0..MaxMessages, state : {"none", "open", "closed"}]
PullMessage == [kind : {"pull_request"}, n : Delivery, inst : Installation,
                action : {"opened", "synchronize", "closed", "reopened"},
                payload : PullRequest]
NoPull == [head |-> 0, state |-> "none"]
Active == {"reserved", "fetched", "stored", "passed"}

ASSUME IngestionAssumption ==
    /\ MaxCrashes \in Nat /\ DailyLimit \in Nat
    /\ Nobody \notin InstallationRow \cup PullMessage

TypeOK ==
    /\ InstallationsTypeOK
    /\ pull \in PullRequest /\ stored \in PullRequest
    /\ ingestions \in [Delivery -> {"absent", "in_progress", "succeeded", "failed"}]
    /\ stage \in [Delivery -> {"none", "ended", "killed"} \cup Active]
    /\ fetched \in [Delivery -> PullRequest]
    /\ admitted \in [Delivery -> Nat]
    /\ reviewed \subseteq Delivery
    /\ overtaken \in BOOLEAN /\ crashes \in Nat
    /\ \A d \in Delivery :
         /\ stage[d] \in {"reserved", "fetched"} => ingestions[d] = "in_progress"
         /\ stage[d] \in {"stored", "passed"} => ingestions[d] = "succeeded"
         /\ stage[d] = "none" <=> ingestions[d] = "absent"

Init ==
    /\ InstallationsInit
    /\ pull = NoPull /\ stored = NoPull
    /\ ingestions = [d \in Delivery |-> "absent"]
    /\ stage = [d \in Delivery |-> "none"]
    /\ event = [d \in Delivery |-> Nobody]
    /\ fetched = [d \in Delivery |-> NoPull]
    /\ admitted = [d \in Delivery |-> 0]
    /\ reviewed = {}
    /\ overtaken = FALSE /\ crashes = 0

Move(d, s) == stage' = [stage EXCEPT ![d] = s]
SyncUnchanged == UNCHANGED <<githubVars, clock, rowVars, historyVars>>

-----------------------------------------------------------------------------
(* GitHub.  Actions on the pull request are announced while an active      *)
(* installation has the repository.                                        *)
Deliver(action, p) ==
    /\ access # Nobody /\ installed[access] = "active"
    /\ clock < MaxMessages
    /\ clock' = clock + 1
    /\ pull' = p
    /\ LET m == [kind |-> "pull_request", n |-> clock + 1, inst |-> access,
                 action |-> action, payload |-> p]
       IN  queue' = queue \cup {m} /\ event' = [event EXCEPT ![clock + 1] = m]

PullRequestChanges ==
    /\ \/ pull.state = "none" /\ Deliver("opened", [head |-> 1, state |-> "open"])
       \/ pull.state = "open" /\ Deliver("synchronize", [pull EXCEPT !.head = @ + 1])
       \/ pull.state = "open" /\ Deliver("closed", [pull EXCEPT !.state = "closed"])
       \/ pull.state = "closed" /\ Deliver("reopened", [pull EXCEPT !.state = "open"])
    /\ UNCHANGED <<githubVars, rowVars, historyVars, ingestVars, pipeVars,
                   overtaken, crashes>>

(* A delivery is sent once more, whatever became of it the first time.     *)
Redeliver(d) ==
    /\ event[d] # Nobody
    /\ queue' = queue \cup {event[d]}
    /\ UNCHANGED <<pull, event, ingestVars, pipeVars, overtaken, crashes>>
    /\ SyncUnchanged

DeliveryLost(m) ==
    /\ m.kind = "pull_request"
    /\ queue' = queue \ {m}
    /\ UNCHANGED <<pull, event, ingestVars, pipeVars, overtaken, crashes>>
    /\ SyncUnchanged

-----------------------------------------------------------------------------
(* The task takes the message; a delivery_id that has a row is a duplicate. *)
Started(d) == stage[d] # "none"

Starts(d) ==
    overtaken' = \/ overtaken
                 \/ \E e \in Delivery : stage[e] \in Active
                 \/ \E e \in Delivery : Started(e) /\ e > d

Duplicate(m) ==
    /\ m.kind = "pull_request" /\ ingestions[m.n] # "absent"
    /\ queue' = queue \ {m}
    /\ UNCHANGED <<pull, event, ingestVars, pipeVars, overtaken, crashes>>
    /\ SyncUnchanged

(* RepositoryRepository.upsert: a new row is selected, an old one belongs  *)
(* from now on to the installation of the event.                           *)
UpsertRepository(i) ==
    repository' = IF repository = Nobody
                  THEN [installation |-> i, selected |-> TRUE]
                  ELSE [repository EXCEPT !.installation = i]

(* Two variants with a mistake the code does not make: a delivery_id that  *)
(* has a row is no obstacle, ...                                           *)
ReserveAnyway(m) ==
    /\ m.kind = "pull_request" /\ m.action # "closed"
    /\ stage[m.n] \notin Active
    /\ queue' = queue \ {m}
    /\ ingestions' = [ingestions EXCEPT ![m.n] = "in_progress"]
    /\ Move(m.n, "reserved") /\ Starts(m.n)
    /\ UNCHANGED <<pull, event, stored, fetched, pipeVars, crashes>>
    /\ SyncUnchanged

(* ... and a pull request's closing leaves its stored state alone.         *)
IngestClosedHeadOnly(m) ==
    /\ m.kind = "pull_request" /\ m.action = "closed"
    /\ ingestions[m.n] = "absent"
    /\ queue' = queue \ {m}
    /\ UpsertRepository(m.inst)
    /\ stored' = [stored EXCEPT !.head = m.payload.head]
    /\ ingestions' = [ingestions EXCEPT ![m.n] = "succeeded"]
    /\ Move(m.n, "ended") /\ Starts(m.n)
    /\ UNCHANGED <<githubVars, clock, installations, historyVars, pull, event,
                   fetched, pipeVars, crashes>>

Reserve(m) ==
    /\ m.kind = "pull_request" /\ m.action # "closed"
    /\ ingestions[m.n] = "absent"
    /\ queue' = queue \ {m}
    /\ ingestions' = [ingestions EXCEPT ![m.n] = "in_progress"]
    /\ Move(m.n, "reserved") /\ Starts(m.n)
    /\ UNCHANGED <<pull, event, stored, fetched, pipeVars, crashes>>
    /\ SyncUnchanged

(* ingest_closed.                                                          *)
IngestClosed(m) ==
    /\ m.kind = "pull_request" /\ m.action = "closed"
    /\ ingestions[m.n] = "absent"
    /\ queue' = queue \ {m}
    /\ UpsertRepository(m.inst)
    /\ stored' = m.payload
    /\ ingestions' = [ingestions EXCEPT ![m.n] = "succeeded"]
    /\ Move(m.n, "ended") /\ Starts(m.n)
    /\ UNCHANGED <<githubVars, clock, installations, historyVars, pull, event,
                   fetched, pipeVars, crashes>>

(* ingest: the metadata, with the installation's own token.                *)
Fetch(d) ==
    /\ stage[d] = "reserved"
    /\ access = event[d].inst /\ installed[access] = "active"
    /\ fetched' = [fetched EXCEPT ![d] = pull]
    /\ Move(d, "fetched")
    /\ UNCHANGED <<pull, event, queue, stored, ingestions, pipeVars, overtaken, crashes>>
    /\ SyncUnchanged

FetchFails(d) ==
    /\ stage[d] = "reserved"
    /\ ingestions' = [ingestions EXCEPT ![d] = "failed"]
    /\ Move(d, "ended")
    /\ UNCHANGED <<pull, event, queue, stored, fetched, pipeVars, overtaken, crashes>>
    /\ SyncUnchanged

Store(d) ==
    /\ stage[d] = "fetched"
    /\ UpsertRepository(event[d].inst)
    /\ stored' = fetched[d]
    /\ ingestions' = [ingestions EXCEPT ![d] = "succeeded"]
    /\ Move(d, "stored")
    /\ UNCHANGED <<githubVars, queue, clock, installations, historyVars, pull, event,
                   fetched, pipeVars, overtaken, crashes>>

(* check_eligibility, in the order of its checks.  The quota counts the    *)
(* review runs that exist of repositories the installation now has.        *)
QuotaLeft == Cardinality(reviewed) < DailyLimit

Eligible(i) ==
    /\ repository.installation = i
    /\ repository.selected
    /\ installations[i] # Nobody
    /\ installations[i].status = "active"
    /\ installations[i].beta = "active"
    /\ QuotaLeft

Gate(d) ==
    /\ stage[d] = "stored"
    /\ Move(d, IF Eligible(event[d].inst) THEN "passed" ELSE "ended")
    /\ UNCHANGED <<pull, event, queue, stored, ingestions, fetched, pipeVars,
                   overtaken, crashes>>
    /\ SyncUnchanged

(* run_review_pipeline_task.delay.                                         *)
Enqueue(d) ==
    /\ stage[d] = "passed"
    /\ admitted' = [admitted EXCEPT ![d] = @ + 1]
    /\ Move(d, "ended")
    /\ UNCHANGED <<pull, event, queue, stored, ingestions, fetched, reviewed,
                   overtaken, crashes>>
    /\ SyncUnchanged

(* Anything the gate or the queue raises is logged and swallowed.          *)
SchedulingFails(d) ==
    /\ stage[d] \in {"stored", "passed"}
    /\ Move(d, "ended")
    /\ UNCHANGED <<pull, event, queue, stored, ingestions, fetched, pipeVars,
                   overtaken, crashes>>
    /\ SyncUnchanged

(* The pipeline's review task creates its review_runs row.                 *)
ReviewRunCreated(d) ==
    /\ admitted[d] > 0
    /\ reviewed' = reviewed \cup {d}
    /\ UNCHANGED <<pull, event, queue, ingestVars, admitted, overtaken, crashes>>
    /\ SyncUnchanged

Crash(d) ==
    /\ crashes < MaxCrashes
    /\ stage[d] \in Active
    /\ crashes' = crashes + 1
    /\ Move(d, "killed")
    /\ UNCHANGED <<pull, event, queue, stored, ingestions, fetched, pipeVars, overtaken>>
    /\ SyncUnchanged

TaskStep(d) ==
    \/ Fetch(d) \/ FetchFails(d) \/ Store(d) \/ Gate(d) \/ Enqueue(d)
    \/ SchedulingFails(d)

TakeDelivery(m) == Duplicate(m) \/ Reserve(m) \/ IngestClosed(m)

pullVars == <<pull, event, ingestVars, pipeVars, overtaken, crashes>>

Next ==
    \/ \E i \in Installation :
         /\ GitHubChanges(i) \/ \E b \in {"active", "suspended"} : SetBetaState(i, b)
         /\ UNCHANGED pullVars
    \/ PullRequestChanges
    \/ \E m \in queue : (Sync(m) \/ SyncLost(m)) /\ UNCHANGED pullVars
    \/ \E m \in queue : TakeDelivery(m) \/ DeliveryLost(m)
    \/ \E d \in Delivery : TaskStep(d) \/ Crash(d) \/ Redeliver(d) \/ ReviewRunCreated(d)

Spec == Init /\ [][Next]_vars

-----------------------------------------------------------------------------
(* AdmittedOnce: a delivery starts the pipeline at most once, however      *)
(* often GitHub sends it and wherever the task that had it was killed.     *)
AdmittedOnce == \A d \in Delivery : admitted[d] <= 1

(* AllowlistHolds: in allowlist mode no pipeline is started for an         *)
(* installation that the operator has not activated, also after it was     *)
(* removed and came back, provided that an installation message made its   *)
(* row (a repositories message makes it with another default).             *)
AllowlistHolds ==
    [][\A d \in Delivery :
          stage[d] = "stored" /\ stage'[d] = "passed"
            => \/ ~AllowlistMode
               \/ event[d].inst \in approved
               \/ firstEvent[event[d].inst] = "repositories"]_vars

(* StoredIsCurrent: when all deliveries have been handled, each started    *)
(* after the ones before it had ended and none lost, the stored pull       *)
(* request is GitHub's: no task's fetch, which is older than its write,    *)
(* brings back an earlier head or reopens a closed pull request.           *)
Quiet ==
    \A d \in Delivery : /\ event[d] # Nobody => ingestions[d] = "succeeded"
                        /\ stage[d] \notin Active

StoredIsCurrent == Quiet /\ ~overtaken => stored = pull
=============================================================================
