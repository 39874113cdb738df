------------------------------ MODULE Feedback ------------------------------
(***************************************************************************)
(* Syncing what humans do with published comments into the event log       *)
(* (patchfrog.feedback.sync).                                              *)
(*                                                                         *)
(* A sync lists the comments, then reads reactions, threads and the pull   *)
(* request one call after the other while it writes events in a single     *)
(* transaction.  An event whose external id is in the log is not written   *)
(* again; while another open transaction has written it, the insert waits. *)
(* Syncs of one pull request may overlap, fail at any call, and be run     *)
(* again.  Bots' reactions and replies are skipped and left out here, and  *)
(* so are comments whose place and text match two of GitHub's: those are   *)
(* attributed to nothing.                                                  *)
(***************************************************************************)
EXTENDS FeedbackAssessment
LOCAL INSTANCE TLC

CONSTANTS
    Comment,       \* published comments of findings
    Reaction,      \* reactions ever made; GitHub never uses an id again
    Reply,
    On,            \* [Reaction \cup Reply -> Comment]
    Hint,          \* [Reaction -> ReactionHint]
    Sync,
    MaxChanges     \* bounds what happens on GitHub and in the review memory

ASSUME FeedbackAssumption ==
    /\ On \in [Reaction \cup Reply -> Comment]
    /\ Hint \in [Reaction -> ReactionHint]
    /\ MaxChanges \in Nat

VARIABLES
    (* GitHub and the review memory *)
    reaction,    \* [Reaction -> {"never", "on", "off"}]
    reply,       \* [Reply -> {"never", "plain"} \cup ExplicitCommand]
    resolved,    \* [Comment -> BOOLEAN], the thread
    deleted,     \* comments that were deleted
    pullRequest, \* "open", "closed" or "merged"
    memory,      \* [Comment -> [status, updated]], the finding in the review memory
    changes,
    (* the database *)
    log,         \* committed events
    attributed,  \* comments whose github_comment_id is known
    (* syncs *)
    sync,        \* [Sync -> the sync's locals and its transaction]
    (* history *)
    seen,        \* [Comment -> what the last committed sync saw]
    told,        \* ids of everything a committed sync saw
    overlapped   \* two syncs have been under way at once

world == <<reaction, reply, resolved, deleted, pullRequest, memory, changes>>
database == <<log, attributed>>
syncHistory == <<seen, told, overlapped>>
feedbackVars == <<world, database, sync, syncHistory>>

Tombstone == {"gone"}
Unseen == [reactions |-> {}, thread |-> FALSE]
Idle == [stage |-> "idle", replies |-> <<>>, todo |-> {}, comment |-> "none",
         fetched |-> {}, threads |-> <<>>, pending |-> {}, enriched |-> {},
         saw |-> {}, view |-> [c \in Comment |-> Unseen]]

FeedbackInit ==
    /\ reaction = [r \in Reaction |-> "never"]
    /\ reply = [p \in Reply |-> "never"]
    /\ resolved = [c \in Comment |-> FALSE]
    /\ deleted = {}
    /\ pullRequest = "open"
    /\ memory = [c \in Comment |-> [status |-> "open", updated |-> 0]]
    /\ changes = 0
    /\ log = {}
    /\ attributed = {}
    /\ sync = [s \in Sync |-> Idle]
    /\ seen = [c \in Comment |-> Unseen]
    /\ told = {}
    /\ overlapped = FALSE

----------------------------------------------------------------------------
(* Humans, and the reviews of later commits                                *)

Change == changes < MaxChanges /\ changes' = changes + 1

React(r) ==
    /\ reaction[r] = "never" /\ On[r] \notin deleted
    /\ reaction' = [reaction EXCEPT ![r] = "on"]
    /\ UNCHANGED <<reply, resolved, deleted, pullRequest, memory>>

TakeBack(r) ==
    /\ reaction[r] = "on"
    /\ reaction' = [reaction EXCEPT ![r] = "off"]
    /\ UNCHANGED <<reply, resolved, deleted, pullRequest, memory>>

(* A reply may be edited into another. *)
Write(p, text) ==
    /\ reply[p] # text /\ On[p] \notin deleted
    /\ reply' = [reply EXCEPT ![p] = text]
    /\ UNCHANGED <<reaction, resolved, deleted, pullRequest, memory>>

Toggle(c) ==
    /\ c \notin deleted
    /\ resolved' = [resolved EXCEPT ![c] = ~@]
    /\ UNCHANGED <<reaction, reply, deleted, pullRequest, memory>>

Delete(c) ==
    /\ c \notin deleted
    /\ deleted' = deleted \cup {c}
    /\ UNCHANGED <<reaction, reply, resolved, pullRequest, memory>>

CloseOrReopen(state) ==
    /\ pullRequest # state /\ pullRequest # "merged"
    /\ pullRequest' = state
    /\ UNCHANGED <<reaction, reply, resolved, deleted, memory>>

(* ReviewMemoryService.finalize of a later generation *)
MemoryMoves(c, status) ==
    /\ memory' = [memory EXCEPT ![c] = [status |-> status, updated |-> @.updated + 1]]
    /\ UNCHANGED <<reaction, reply, resolved, deleted, pullRequest>>

World ==
    /\ Change
    /\ \/ \E r \in Reaction : React(r) \/ TakeBack(r)
       \/ \E p \in Reply, text \in {"plain", "useful", "false-positive"} : Write(p, text)
       \/ \E c \in Comment : Toggle(c) \/ Delete(c)
       \/ \E c \in Comment, status \in {"carried_forward", "resolved"} : MemoryMoves(c, status)
       \/ \E state \in {"open", "closed", "merged"} : CloseOrReopen(state)
    /\ UNCHANGED <<database, sync, syncHistory>>

----------------------------------------------------------------------------
(* Events                                                                  *)

Event(id, c, type, key, signal, at) ==
    [id |-> id, comment |-> c, type |-> type, key |-> key, signal |-> signal, at |-> at]

Ids(events) == {e.id : e \in events}
EventsOf(events, c) == {e \in events : e.comment = c}
Visible(s) == log \cup sync[s].pending

(* The clock of the workers: later than every event there is, numbered     *)
(* without gaps; where a sync that overlapped another failed, two events   *)
(* may get the same time.  Reactions carry GitHub's time, before any.      *)
Now == 1 + Cardinality({e.at : e \in UNION ({log} \cup {sync[s].pending : s \in Sync})})

(* create_if_new for each of some events *)
Created(s, events) == {e \in events : e.id \notin Ids(Visible(s))}
MayInsert(s, events) ==
    \A other \in Sync \ {s} : Ids(Created(s, events)) \cap Ids(sync[other].pending) = {}

ReactionEvents(c, fetched) ==
    {Event(<<"reaction", r>>, c, "reaction_added", r, Hint[r], 0) : r \in fetched}

(* Every reaction that was ever added and is not in the list is removed. *)
RemovalEvents(s, c, fetched) ==
    {Event(<<"reaction_removed", e.key>>, c, "reaction_removed", e.key, e.signal, Now) :
       e \in {e \in OfType(EventsOf(Visible(s) \cup ReactionEvents(c, fetched), c), "reaction_added") :
                e.key \notin fetched}}

(* _sync_replies_and_commands, over the comments as they were listed *)
ReplyEvents(c, replies) ==
    LET to == {p \in DOMAIN replies : On[p] = c /\ replies[p] # "never"} IN
    {Event(<<"comment", p>>, c, "reply", p, "developer_engaged", 0) : p \in to} \cup
    {Event(<<"command", p>>, c, "command", p, replies[p], 0) :
       p \in {p \in to : replies[p] \in ExplicitCommand}}

(* _sync_thread_resolution: a change against the latest event, and against *)
(* an open thread if there is none                                         *)
ThreadChanges(s, threads) ==
    {Event(<<"thread", c, Now>>, c, IF threads[c] THEN "thread_resolved" ELSE "thread_reopened",
           "thread", "closed", Now) :
       c \in {c \in DOMAIN threads : threads[c] # ThreadResolved(EventsOf(Visible(s), c))}}

LifecycleType ==
    [status \in {"carried_forward", "changed", "resolved"} |->
       CASE status = "carried_forward" -> "code_unchanged"
         [] status = "changed" -> "code_changed"
         [] status = "resolved" -> "disappeared"]

(* _sync_finding_lifecycle, of published findings with or without an id *)
LifecycleChanges ==
    {Event(<<"memory", c, memory[c]>>, c, LifecycleType[memory[c].status], "memory", "", Now) :
       c \in {c \in Comment : memory[c].status \in DOMAIN LifecycleType}}

PullRequestEvents ==
    IF pullRequest = "open" THEN {}
    ELSE {Event(<<"pr", pullRequest>>, "none", "pull_request", "pr", pullRequest, Now)}

----------------------------------------------------------------------------
(* A sync                                                                  *)

At(s, stage) == sync[s].stage = stage

(* list_pull_request_review_comments, and _enrich_github_comment_ids: what *)
(* was deleted before its id was known stays unattributed.                 *)
List(s) ==
    /\ At(s, "idle")
    /\ LET found == Comment \ (deleted \cup attributed) IN
       sync' = [sync EXCEPT ![s] = [Idle EXCEPT
                   !.stage = "comments", !.replies = reply, !.enriched = found,
                   !.todo = attributed \cup found, !.view = seen]]
    /\ overlapped' = (overlapped \/ \E other \in Sync \ {s} : ~At(other, "idle"))
    /\ UNCHANGED <<world, database, seen, told>>

(* list_review_comment_reactions of one comment; 404 if it was deleted *)
FetchReactions(s, c) ==
    /\ At(s, "comments") /\ c \in sync[s].todo
    /\ sync' = [sync EXCEPT ![s].stage = "reactions", ![s].comment = c,
                   ![s].fetched = IF c \in deleted THEN Tombstone
                                  ELSE {r \in Reaction : On[r] = c /\ reaction[r] = "on"}]
    /\ UNCHANGED <<world, database, syncHistory>>

(* A deleted comment has no reactions any more. *)
ReactionsRetracted(s, c, fetched) ==
    LET there == fetched \ Tombstone
    IN  ReactionEvents(c, there) \cup RemovalEvents(s, c, there)

(* _sync_reactions: a 404 leaves what was recorded as it is. *)
ReactionChanges(s, c, fetched) ==
    IF fetched = Tombstone THEN {}
    ELSE ReactionEvents(c, fetched) \cup RemovalEvents(s, c, fetched)

RecordComment(s) ==
    /\ At(s, "reactions")
    /\ LET c == sync[s].comment
           fetched == sync[s].fetched
           new == ReactionChanges(s, c, fetched) \cup ReplyEvents(c, sync[s].replies)
       IN  /\ MayInsert(s, new)
           /\ sync' = [sync EXCEPT ![s].stage = "comments", ![s].todo = @ \ {c},
                          ![s].pending = @ \cup Created(s, new), ![s].saw = @ \cup Ids(new),
                          ![s].fetched = {}, ![s].comment = "none",
                          ![s].view[c].reactions = IF fetched = Tombstone THEN @ ELSE fetched]
    /\ UNCHANGED <<world, database, syncHistory>>

(* list_review_thread_statuses; a deleted comment heads no thread *)
FetchThreads(s) ==
    /\ At(s, "comments") /\ sync[s].todo = {}
    /\ LET known == attributed \cup sync[s].enriched
           threads == [c \in known \ deleted |-> resolved[c]]
       IN  sync' = [sync EXCEPT ![s].stage = "threads", ![s].threads = threads,
                       ![s].view = [c \in Comment |->
                          IF c \in DOMAIN threads THEN [@[c] EXCEPT !.thread = threads[c]]
                          ELSE @[c]]]
    /\ UNCHANGED <<world, database, syncHistory>>

RecordThreads(s) ==
    /\ At(s, "threads")
    /\ LET new == ThreadChanges(s, sync[s].threads) \cup LifecycleChanges IN
       /\ MayInsert(s, new)
       /\ sync' = [sync EXCEPT ![s].stage = "pull_request", ![s].threads = <<>>,
                      ![s].pending = @ \cup Created(s, new)]
    /\ UNCHANGED <<world, database, syncHistory>>

(* get_pull_request and _sync_pr_lifecycle *)
RecordPullRequest(s) ==
    /\ At(s, "pull_request")
    /\ MayInsert(s, PullRequestEvents)
    /\ sync' = [sync EXCEPT ![s].stage = "commit",
                   ![s].pending = @ \cup Created(s, PullRequestEvents)]
    /\ UNCHANGED <<world, database, syncHistory>>

Commit(s) ==
    /\ At(s, "commit")
    /\ log' = log \cup sync[s].pending
    /\ attributed' = attributed \cup sync[s].enriched
    /\ seen' = sync[s].view
    /\ told' = told \cup sync[s].saw
    /\ sync' = [sync EXCEPT ![s] = Idle]
    /\ UNCHANGED <<world, overlapped>>

(* A call or the database fails, or the process dies: all is rolled back.  *)
(* Two syncs that wait for each other's events are ended like this too.    *)
Fail(s) ==
    /\ ~At(s, "idle")
    /\ sync' = [sync EXCEPT ![s] = Idle]
    /\ UNCHANGED <<world, database, syncHistory>>

SyncStep(s) ==
    \/ List(s)
    \/ \E c \in Comment : FetchReactions(s, c)
    \/ RecordComment(s) \/ FetchThreads(s) \/ RecordThreads(s)
    \/ RecordPullRequest(s) \/ Commit(s)

FeedbackNext ==
    \/ World
    \/ \E s \in Sync : SyncStep(s) \/ Fail(s)

FeedbackSpec == FeedbackInit /\ [][FeedbackNext]_feedbackVars

----------------------------------------------------------------------------
(* Properties                                                              *)

(* What a committed sync saw is in the log, whichever syncs overlapped and *)
(* failed: an event left to another sync was committed by it.              *)
NothingSeenIsLost == told \subseteq Ids(log)

(* As long as no two syncs overlapped, what the log says of a comment's    *)
(* reactions and of its thread is what the last committed sync saw, the    *)
(* reactions of a deleted comment being those last seen; no reaction that  *)
(* is still there is recorded as removed.                                  *)
LogIsWhatWasSeen ==
    ~overlapped =>
        /\ \A c \in Comment :
              LET events == EventsOf(log, c) IN
              /\ {e.key : e \in ActiveReactions(events)} = seen[c].reactions
              /\ ThreadResolved(events) = seen[c].thread
        /\ \A r \in Reaction :
              <<"reaction_removed", r>> \in Ids(log) => reaction[r] = "off" \/ On[r] \in deleted

FeedbackMirrorsGitHub == NothingSeenIsLost /\ LogIsWhatWasSeen

-----------------------------------------------------------------------------
(* For TLC: negative reactions and a reply to one of the comments.         *)
OnFirst == [x \in Reaction \cup Reply |-> CHOOSE c \in Comment : TRUE]
Negative == [r \in Reaction |-> "negative"]
SyncSymmetry == Permutations(Sync)
=============================================================================
