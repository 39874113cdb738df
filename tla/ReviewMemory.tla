---------------------------- MODULE ReviewMemory ----------------------------
(***************************************************************************)
(* Incremental review of one pull request: the review task of the worker   *)
(* with IncrementalReviewMemoryService.prepare and finalize around the     *)
(* review run.                                                             *)
(*                                                                         *)
(* A task reads the latest generation, proves that its commit is an        *)
(* ancestor, decides what becomes of every open finding, reviews only the  *)
(* candidates that need it, and writes a new generation.  The reads, the   *)
(* run and the writes are separate transactions, and tasks for one pull    *)
(* request, of the same or of different heads, interleave between them.    *)
(*                                                                         *)
(* Code is abstracted to the body of each unit at each commit.  A unit is  *)
(* a symbol, followed across renames and moves, or the module-level code   *)
(* of a file.  A unit has at most one finding per run (one category).      *)
(*                                                                         *)
(* A review task creates at most one run, so a run is named by the task    *)
(* that inserted it.  A run's identity is what decides whether a later     *)
(* task may return it instead of reviewing again; get_or_create_running    *)
(* and claim_for_write take an advisory lock on that identity, and each is *)
(* one step here.  There is one repository and one review configuration.   *)
(***************************************************************************)
EXTENDS Naturals, FiniteSets, Sequences

CONSTANTS
    Task,           \* Celery review tasks
    Commit,         \* heads the pull request may have
    Unit,           \* symbols and module regions of the repository
    Model,          \* reviewer models the workers may be configured with
    BaseCommit,     \* the merge base of the pull request
    Region,         \* units that are module-level code
    FileOf,         \* [Unit -> file]
    Rank,           \* [Unit -> Nat], the candidates' priority
    Body,           \* [Commit \cup {BaseCommit} -> [Unit -> body]]
    NoBody,         \* the body of a unit that does not exist
    Ancestor,       \* <<a, c>>: commit a is a proper ancestor of c
    ModelOf,        \* [Task -> Model], the worker's configuration
    MaxCandidates,
    MaxCrashes

ASSUME MemoryAssumption ==
    /\ Region \subseteq Unit
    /\ \A r, s \in Region : FileOf[r] = FileOf[s] => r = s
    /\ Rank \in [Unit -> Nat] /\ MaxCandidates \in Nat /\ MaxCrashes \in Nat
    /\ Ancestor \subseteq Commit \X Commit
    /\ ModelOf \in [Task -> Model]

VARIABLES
    runs,           \* [Task -> Run], NoRun until the task inserts its row
    head,           \* the pull request's head on GitHub
    generations,    \* review_generations in sequence_number order
    memory,         \* review_memory_findings by task and unit of their origin
    stage,          \* [Task -> Stage]
    commit,         \* head_sha of the task
    prev,           \* the generation the task starts from (0: none)
    context,        \* incremental_context_fingerprint
    selected,       \* candidates that pass the plan's filter
    decisions,      \* pre-review decisions
    result          \* the run whose summary the review returned

taskVars == <<commit, prev, context, selected, decisions, result>>
vars == <<runs, head, generations, memory, stage, taskVars>>

Finding == Task \X Unit     \* the run and the unit it was first reported in
Live == {"open", "kept"}    \* kept: CARRIED_FORWARD or CHANGED
Stage == {"idle", "queued", "started", "compared", "prepared", "reviewing",
          "reviewed", "reconciling", "done", "skipped", "failed", "dead"}
Ending == {"done", "skipped", "failed", "dead"}
Disposition == {"carry", "recheck", "gone"}

NoFinding == [status |-> "none"]

-----------------------------------------------------------------------------
(* Rows of review_runs. *)
Mode == {"full", "incremental"}

(* compute_incremental_context_fingerprint: the mode, and the generation   *)
(* the run starts from (0: none).                                          *)
Context == Mode \X Nat
NoMemoryContext == <<"full", 0>>

Ended == {"succeeded", "partial", "failed"}

Run == [status   : Ended \cup {"running"},
        commit   : Commit,
        model    : Model,
        context  : Context,
        offered  : SUBSET Unit,     \* candidate rows
        reviewed : SUBSET Unit,     \* those with status REVIEWED
        findings : SUBSET Unit]     \* those with a final finding

NoRun == [status |-> "absent"]

Identity(r) == <<r.commit, r.model, r.context>>

(* get_succeeded: the runs of an identity that SUCCEEDED.                  *)
SucceededRuns(id) ==
    {t \in Task : runs[t].status = "succeeded" /\ Identity(runs[t]) = id}

Reusable(id) == SucceededRuns(id) # {}

(* get_or_create_running, when there is no run to reuse.                   *)
InsertRunning(t, c, m, ctx) ==
    runs' = [runs EXCEPT ![t] = [status |-> "running", commit |-> c,
                                 model |-> m, context |-> ctx,
                                 offered |-> {}, reviewed |-> {}, findings |-> {}]]

MarkFailed(t) == runs' = [runs EXCEPT ![t].status = "failed"]

(* The status of a run whose candidates are all dealt with.  A candidate   *)
(* that was skipped counts only through the termination reason.            *)
StatusOf(reviewed, failed, terminated) ==
    IF reviewed = {} /\ failed # {} THEN "failed"
    ELSE IF failed # {} \/ terminated THEN "partial"
    ELSE "succeeded"

(* claim_for_write, the candidate and finding rows, mark_succeeded.        *)
Persist(t, status, offered, reviewed, findings) ==
    runs' = [runs EXCEPT ![t].status = status, ![t].offered = offered,
                         ![t].reviewed = reviewed, ![t].findings = findings]

(* The rows are written without another look at the identity. *)
ClaimLostNever(t) == FALSE

(* claim_for_write found another run of the identity that SUCCEEDED.       *)
ClaimLost(t) == SucceededRuns(Identity(runs[t])) \ {t} # {}

-----------------------------------------------------------------------------
MemoryFinding == [status  : Live \cup {"resolved", "superseded"},
                  at      : Commit,     \* whose index its symbol_id is of
                  current : Finding]    \* current_finding_id: run and unit

Generation == [run : Task, commit : Commit, model : Model, previous : Nat]
Decision == [finding : Finding, as : Disposition, tracked : BOOLEAN]

TypeOK ==
    /\ runs \in [Task -> Run \cup {NoRun}]
    /\ head \in Commit
    /\ generations \in Seq(Generation)
    /\ memory \in [Finding -> MemoryFinding \cup {NoFinding}]
    /\ stage \in [Task -> Stage]
    /\ commit \in [Task -> Commit \cup {BaseCommit}]
    /\ prev \in [Task -> Nat]
    /\ context \in [Task -> Context]
    /\ selected \in [Task -> SUBSET Unit]
    /\ decisions \in [Task -> SUBSET Decision]
    /\ result \in [Task -> Task]

Init ==
    /\ runs = [t \in Task |-> NoRun]
    /\ head \in Commit
    /\ generations = <<>>
    /\ memory = [f \in Finding |-> NoFinding]
    /\ stage = [t \in Task |-> "idle"]
    /\ commit = [t \in Task |-> BaseCommit]
    /\ prev = [t \in Task |-> 0]
    /\ context = [t \in Task |-> NoMemoryContext]
    /\ selected = [t \in Task |-> {}]
    /\ decisions = [t \in Task |-> {}]
    /\ result = [t \in Task |-> t]

Goto(t, s) == stage' = [stage EXCEPT ![t] = s]

(* What the task knows lives in the worker's memory and ends with it.      *)
End(t, s) ==
    /\ Goto(t, s)
    /\ prev' = [prev EXCEPT ![t] = 0]
    /\ context' = [context EXCEPT ![t] = NoMemoryContext]
    /\ selected' = [selected EXCEPT ![t] = {}]
    /\ decisions' = [decisions EXCEPT ![t] = {}]
    /\ result' = [result EXCEPT ![t] = t]
    /\ UNCHANGED commit

-----------------------------------------------------------------------------
(* Candidates: what the pull request touches, the first MaxCandidates.     *)
Touched(c) == {u \in Unit : Body[c][u] \notin {NoBody, Body[BaseCommit][u]}}

Candidates(c) ==
    {u \in Touched(c) :
        Cardinality({v \in Touched(c) : Rank[v] < Rank[u]}) < MaxCandidates}

FilesChanged(p, c) == {FileOf[u] : u \in {v \in Unit : Body[p][v] # Body[c][v]}}

(* changed_symbol_ids: symbols that were modified or added.                *)
SymbolsChanged(p, c) == {u \in Unit \ Region : Body[p][u] # Body[c][u]}

LiveFindings == {f \in Finding : memory[f].status \in Live}

(* The symbol a finding is attached to is known in the index of commit p.  *)
Tracked(f, p) == f[2] \notin Region /\ memory[f].at = p

(* resolve_pre_review.  "confirmed" holds the findings whose evidence was  *)
(* found verbatim in the file at the current commit.                       *)
DispositionOf(f, p, c, confirmed) ==
    IF f[2] \in Region
      THEN IF Body[c][f[2]] = NoBody THEN "gone" ELSE "recheck"
    ELSE IF ~Tracked(f, p) THEN "recheck"
    ELSE IF Body[c][f[2]] = NoBody THEN "gone"
    ELSE IF Body[p][f[2]] = Body[c][f[2]] /\ f \in confirmed THEN "carry"
    ELSE "recheck"

Resolve(p, c, confirmed) ==
    {[finding |-> f, as |-> DispositionOf(f, p, c, confirmed),
      tracked |-> Tracked(f, p)] : f \in LiveFindings}

(* Only changed code is reviewed, whatever is to be rechecked. *)
IncrementalWithoutRechecks(p, c, ds) ==
    {u \in Candidates(c) :
        IF u \in Region THEN FileOf[u] \in FilesChanged(p, c)
        ELSE u \in SymbolsChanged(p, c)}

(* IncrementalReviewPlanner.plan: symbols that changed or carry a finding  *)
(* to recheck, and module regions of the files that changed.               *)
Incremental(p, c, ds) ==
    {u \in Candidates(c) :
        IF u \in Region THEN FileOf[u] \in FilesChanged(p, c)
        ELSE \/ u \in SymbolsChanged(p, c)
             \/ \E d \in ds : d.as = "recheck" /\ d.tracked /\ d.finding[2] = u}

-----------------------------------------------------------------------------
(* GitHub and the queue.                                                   *)
Push(c) ==
    /\ head' = c
    /\ UNCHANGED <<runs, generations, memory, stage, taskVars>>

Enqueue(t) ==
    /\ stage[t] = "idle"
    /\ commit' = [commit EXCEPT ![t] = head]
    /\ Goto(t, "queued")
    /\ UNCHANGED <<runs, head, generations, memory, prev, context, selected,
                   decisions, result>>

(* The task starts; a head that has moved on is not reviewed.              *)
Start(t) ==
    /\ stage[t] = "queued"
    /\ Goto(t, IF commit[t] = head THEN "started" ELSE "skipped")
    /\ UNCHANGED <<runs, head, generations, memory, taskVars>>

-----------------------------------------------------------------------------
(* prepare.                                                                *)
Latest == generations[Len(generations)]

(* How the previous run ended is not looked at. *)
HasUsableGenerationOfAnyStatus == generations # <<>>

HasUsableGeneration ==
    generations # <<>> /\ runs[Latest.run].status = "succeeded"

(* Everything is reviewed and no finding is decided on.                    *)
PrepareFull(t) ==
    /\ prev' = [prev EXCEPT ![t] = Len(generations)]
    /\ context' = [context EXCEPT ![t] = NoMemoryContext]
    /\ selected' = [selected EXCEPT ![t] = Candidates(commit[t])]
    /\ decisions' = [decisions EXCEPT ![t] = {}]
    /\ Goto(t, "prepared")
    /\ UNCHANGED <<commit, result>>

NoUsableGeneration(t) == ~HasUsableGeneration /\ PrepareFull(t)

(* The history was rewritten, or could not be fetched to prove it was not. *)
AncestryNotProven(t) ==
    /\ HasUsableGeneration
    /\ Latest.commit # commit[t]
    /\ PrepareFull(t)

(* For a commit equal to the previous one no diff is computed, and the     *)
(* assertion that there is one raises.                                     *)
SameCommitRaises(t) ==
    /\ HasUsableGeneration
    /\ Latest.commit = commit[t]
    /\ End(t, "failed")

AncestryProven(t) ==
    /\ HasUsableGeneration
    /\ <<Latest.commit, commit[t]>> \in Ancestor
    /\ prev' = [prev EXCEPT ![t] = Len(generations)]
    /\ Goto(t, "compared")
    /\ UNCHANGED <<commit, context, selected, decisions, result>>

ReadLatest(t) ==
    /\ stage[t] = "started"
    /\ \/ NoUsableGeneration(t)
       \/ AncestryNotProven(t)
       \/ SameCommitRaises(t)
       \/ AncestryProven(t)
    /\ UNCHANGED <<runs, head, generations, memory>>

(* The open findings are read after the ancestry was fetched.  A worker    *)
(* with another reviewer model keeps the decisions but skips nothing.      *)
ReadOpenFindings(t) ==
    /\ stage[t] = "compared"
    /\ \E confirmed \in SUBSET LiveFindings :
         LET g == generations[prev[t]]
             ds == Resolve(g.commit, commit[t], confirmed)
             mode == IF g.model = ModelOf[t] THEN "incremental" ELSE "full"
         IN  /\ decisions' = [decisions EXCEPT ![t] = ds]
             /\ context' = [context EXCEPT ![t] = <<mode, prev[t]>>]
             /\ selected' = [selected EXCEPT ![t] =
                               IF mode = "full" THEN Candidates(commit[t])
                               ELSE Incremental(g.commit, commit[t], ds)]
    /\ Goto(t, "prepared")
    /\ UNCHANGED <<runs, head, generations, memory, commit, prev, result>>

-----------------------------------------------------------------------------
(* The review run.                                                         *)
OwnIdentity(t) == <<commit[t], ModelOf[t], context[t]>>

ReuseRun(t) ==
    /\ \E r \in SucceededRuns(OwnIdentity(t)) : result' = [result EXCEPT ![t] = r]
    /\ Goto(t, "reviewed")
    /\ UNCHANGED runs

StartRun(t) ==
    /\ ~Reusable(OwnIdentity(t))
    /\ InsertRunning(t, commit[t], ModelOf[t], context[t])
    /\ Goto(t, "reviewing")
    /\ UNCHANGED result

GetOrCreateRun(t) ==
    /\ stage[t] = "prepared"
    /\ ReuseRun(t) \/ StartRun(t)
    /\ UNCHANGED <<head, generations, memory, commit, prev, context, selected,
                   decisions>>

(* The loser marks the wrong run. *)
SupersededFailingWinner(t) ==
    /\ ClaimLost(t)
    /\ \E r \in SucceededRuns(OwnIdentity(t)) :
         MarkFailed(r) /\ result' = [result EXCEPT ![t] = r]

(* A concurrent run of the same identity SUCCEEDED first: its summary is   *)
(* returned.                                                               *)
Superseded(t) ==
    /\ ClaimLost(t)
    /\ MarkFailed(t)
    /\ \E r \in SucceededRuns(OwnIdentity(t)) : result' = [result EXCEPT ![t] = r]

(* Some candidates are reviewed, some fail, the rest is skipped.           *)
PersistReview(t) ==
    /\ ~ClaimLost(t)
    /\ \E reviewed \in SUBSET selected[t] :
         \E failed \in SUBSET (selected[t] \ reviewed), found \in SUBSET reviewed,
            terminated \in BOOLEAN :
              Persist(t, StatusOf(reviewed, failed, terminated),
                      selected[t], reviewed, found)
    /\ UNCHANGED result

FinishRun(t) ==
    /\ stage[t] = "reviewing"
    /\ Superseded(t) \/ PersistReview(t)
    /\ Goto(t, "reviewed")
    /\ UNCHANGED <<head, generations, memory, commit, prev, context, selected,
                   decisions>>

RunRaises(t) ==
    /\ stage[t] = "reviewing"
    /\ MarkFailed(t)
    /\ End(t, "failed")
    /\ UNCHANGED <<head, generations, memory>>

-----------------------------------------------------------------------------
(* finalize, for the run whose summary was returned, whatever its status.  *)
HasGeneration(r) == \E i \in DOMAIN generations : generations[i].run = r

FinalizeCheck(t) ==
    /\ stage[t] = "reviewed"
    /\ \/ HasGeneration(result[t]) /\ End(t, "done")
       \/ ~HasGeneration(result[t]) /\ Goto(t, "reconciling") /\ UNCHANGED taskVars
    /\ UNCHANGED <<runs, head, generations, memory>>

(* reconcile_post_review looks a finding up by its symbol, or by its file  *)
(* when it has no tracked symbol.                                          *)
Matches(d, u) ==
    IF d.tracked THEN u = d.finding[2]
    ELSE u \in Region /\ FileOf[u] = FileOf[d.finding[2]]

MatchesOf(t, d) ==
    IF d.as = "gone" THEN {}
    ELSE {u \in runs[result[t]].findings : Matches(d, u)}

Matched(t) == UNION {MatchesOf(t, d) : d \in decisions[t]}

(* apply_transition writes over whatever the finding has become.           *)
Transition(t, d) ==
    LET f == d.finding
        at == IF d.tracked /\ d.as # "gone" THEN commit[t] ELSE memory[f].at
    IN  IF MatchesOf(t, d) # {}
          THEN [status |-> "kept", at |-> at,
                current |-> <<result[t], CHOOSE u \in MatchesOf(t, d) : TRUE>>]
        ELSE IF d.as = "carry"
          THEN [status |-> "kept", at |-> at, current |-> memory[f].current]
        ELSE [status |-> "resolved", at |-> at, current |-> memory[f].current]

Decided(t) ==
    [f \in Finding |->
        IF \E d \in decisions[t] : d.finding = f
          THEN Transition(t, CHOOSE d \in decisions[t] : d.finding = f)
          ELSE memory[f]]

(* A family that is live when finalize begins is not new. *)
NewFindingsOfNewFamilies(t) ==
    runs[result[t]].findings \ {f[2] : f \in LiveFindings}

NewFindings(t) == runs[result[t]].findings \ Matched(t)

(* A live finding of the same semantic family gives way to a new one.      *)
Remembered(t) ==
    [f \in Finding |->
        IF f[1] = result[t] /\ f[2] \in NewFindings(t)
          THEN [status |-> "open", at |-> commit[t], current |-> f]
        ELSE IF f[2] \in NewFindings(t) /\ Decided(t)[f].status \in Live
          THEN [Decided(t)[f] EXCEPT !.status = "superseded"]
        ELSE Decided(t)[f]]

(* The two unique indexes: one generation per run, one live finding per    *)
(* semantic family.                                                        *)
FamiliesCollide(m) ==
    \E f, g \in Finding : f # g /\ f[2] = g[2] /\ {m[f].status, m[g].status} \subseteq Live

(* There is no unique index on review_run_id. *)
ConstraintViolatedByFamilies(t) == FamiliesCollide(Decided(t))

ConstraintViolated(t) == HasGeneration(result[t]) \/ FamiliesCollide(Decided(t))

CreateGeneration(t) ==
    /\ ~ConstraintViolated(t)
    /\ generations' = Append(generations,
                        [run |-> result[t], commit |-> commit[t],
                         model |-> ModelOf[t], previous |-> prev[t]])
    /\ memory' = Remembered(t)
    /\ End(t, "done")

FinalizeRaises(t) ==
    /\ ConstraintViolated(t)
    /\ End(t, "failed")
    /\ UNCHANGED <<generations, memory>>

FinalizeCommit(t) ==
    /\ stage[t] = "reconciling"
    /\ CreateGeneration(t) \/ FinalizeRaises(t)
    /\ UNCHANGED <<runs, head>>

(* The worker dies; the task was acknowledged and is not redelivered.      *)
Crash(t) ==
    /\ stage[t] \notin Ending \cup {"idle", "queued"}
    /\ Cardinality({u \in Task : stage[u] = "dead"}) < MaxCrashes
    /\ End(t, "dead")
    /\ UNCHANGED <<runs, head, generations, memory>>

TaskStep(t) ==
    \/ Enqueue(t) \/ Start(t) \/ ReadLatest(t) \/ ReadOpenFindings(t)
    \/ GetOrCreateRun(t) \/ FinishRun(t) \/ RunRaises(t)
    \/ FinalizeCheck(t) \/ FinalizeCommit(t) \/ Crash(t)

Next ==
    \/ \E c \in Commit : Push(c)
    \/ \E t \in Task : TaskStep(t)

Spec == Init /\ [][Next]_vars

-----------------------------------------------------------------------------
(* Two workers that review the same head from the same memory may both     *)
(* start a run, but at most one of them ends SUCCEEDED: what exact-head    *)
(* reuse, publication and memory all take to be the review of that head.   *)
OneSucceededPerIdentity ==
    \A t, u \in Task :
        (/\ runs[t].status = "succeeded" /\ runs[u].status = "succeeded"
         /\ Identity(runs[t]) = Identity(runs[u]))
        => t = u

(* A run that SUCCEEDED keeps its status, its candidates and its findings: *)
(* no failing, losing or late worker touches the row that others reuse.    *)
SucceededIsFinal ==
    [][\A t \in Task : runs[t].status = "succeeded" => runs'[t] = runs[t]]_runs

(* A generation is made once for a run that has ended, at the run's own    *)
(* commit: also when two workers return the same run and both finalize it. *)
GenerationsMatchRuns ==
    \A i \in DOMAIN generations :
        LET g == generations[i]
        IN  /\ runs[g.run].status \in Ended
            /\ runs[g.run].commit = g.commit
            /\ \A j \in DOMAIN generations : generations[j].run = g.run => i = j

Planned == {"prepared", "reviewing"}

(* Incremental review never skips code nobody was asked to look at: what a *)
(* plan leaves out was, with the same body, a candidate of a run that      *)
(* SUCCEEDED, however many pushes and workers lie in between.              *)
WasOffered(u, body) ==
    \E r \in Task : /\ runs[r].status = "succeeded"
                    /\ u \in runs[r].offered
                    /\ Body[runs[r].commit][u] = body

SkippedCodeWasOffered ==
    \A t \in Task : stage[t] \in Planned =>
        \A u \in Candidates(commit[t]) \ selected[t] : WasOffered(u, Body[commit[t]][u])

(* A finding of a run is what some live memory finding stands for now.     *)
IsTracked(r, u) == \E f \in LiveFindings : memory[f].current = <<r, u>>

(* What the latest generation's run found in symbols is in memory, live:   *)
(* the next review starts from all of it, whoever finalized in between.    *)
SymbolFindingsAreTracked ==
    generations # <<>> =>
        \A u \in runs[Latest.run].findings \ Region : IsTracked(Latest.run, u)

(* A task resolves a finding of a symbol only after its own run offered    *)
(* the symbol to a reviewer who did not report it again, unless the symbol *)
(* is gone or no longer differs from the base.  Findings without a tracked *)
(* symbol, and runs taken over from another task, are outside of this.     *)
ResolvedAfterALook ==
    [][\A t \in Task : \A d \in decisions[t] :
        (/\ stage[t] = "reconciling" /\ stage'[t] = "done"
         /\ d.tracked /\ result[t] = t
         /\ memory'[d.finding].status = "resolved")
        => \/ d.finding[2] \notin Candidates(commit[t])
           \/ d.finding[2] \in runs[t].offered \ runs[t].findings]_vars
=============================================================================
