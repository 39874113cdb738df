-------------------------- MODULE SpecialistReview --------------------------
(***************************************************************************)
(* One review run under the specialist strategy: every candidate is        *)
(* reviewed by its roles concurrently, and each finding that needs it is   *)
(* verified by a critic, until all candidates are done or the run's time   *)
(* is up.                                                                  *)
(*                                                                         *)
(* Candidates share the ledger, the token pool and a semaphore.  A         *)
(* candidate's roles are held in the pool together or not at all; the rest *)
(* of the run is CandidateRun.                                             *)
(***************************************************************************)
EXTENDS CandidateRun
LOCAL INSTANCE TLC

vars == <<ledgerVars, jobVars, pool, runVars>>

ReviewsOf(c) == {Review(c, r) : r \in Role}

Init == InitRun

(* A candidate that was skipped or failed keeps its place. *)
PrepareLeaks(c) ==
    /\ cand[c] = "waiting"
    /\ Cardinality({d \in Candidate :
                      cand[d] \notin {"waiting", "reviewed"}}) < MaxConcurrent
    /\ Goto(c, "preparing")
    /\ UNCHANGED <<finding, underWay, jobVars, pool, ledgerVars>>

(* _process: the semaphore is held until the candidate is complete *)
Prepare(c) ==
    /\ cand[c] = "waiting"
    /\ Cardinality({d \in Candidate : cand[d] \in InFlight}) < MaxConcurrent
    /\ Goto(c, "preparing")
    /\ UNCHANGED <<finding, underWay, jobVars, pool, ledgerVars>>

(* review_candidate: the combined estimate is held, or nothing is *)
HoldRoles(c) ==
    LET combined == TotalOf(InputEstimate, ReviewsOf(c)) IN
    /\ cand[c] = "preparing"
    /\ IF Fits(combined)
       THEN /\ pool' = pool + combined
            /\ Goto(c, "reviewing")
            /\ Start(ReviewsOf(c))
            /\ underWay' = underWay \cup ReviewsOf(c)
       ELSE /\ Goto(c, "skipped")
            /\ UNCHANGED <<pool, job, underWay>>
    /\ UNCHANGED <<finding, attempts, ending, tokens, ledgerVars>>

(* The estimates are settled with the usage of the roles that answered. *)
FinishRoles(c) ==
    LET reviews == ReviewsOf(c)
        ok == OkIn(reviews)
    IN
    /\ cand[c] = "reviewing"
    /\ \A j \in reviews : job[j] \in Handled
    /\ pool' = Floor(pool - TotalOf(InputEstimate, reviews)
                          + TotalOf(tokens, ok))
    /\ underWay' = underWay \ reviews
    /\ IF ok = {}
       THEN /\ Goto(c, IF \E j \in reviews : job[j] = "refused"
                       THEN "skipped" ELSE "failed")
            /\ UNCHANGED finding
       ELSE /\ Goto(c, "critiquing")
            /\ \E found \in [Role -> {"none", "accepted", "selected"}] :
                  /\ \A r \in Role : Review(c, r) \notin ok => found[r] = "none"
                  /\ finding' = [x \in Candidate \X Role |->
                                   IF x[1] = c THEN found[x[2]]
                                   ELSE finding[x]]
    /\ UNCHANGED <<jobVars, ledgerVars>>

(* raise outcome: the estimates stay in the pool. *)
RolesRaise(c) ==
    /\ cand[c] = "reviewing"
    /\ \A j \in ReviewsOf(c) : job[j] \in Ended
    /\ \E j \in ReviewsOf(c) : job[j] = "raised"
    /\ Goto(c, "raised")
    /\ UNCHANGED <<finding, underWay, jobVars, pool, ledgerVars>>

CandidateStep(c) ==
    /\ \/ Prepare(c) \/ PrepareFails(c)
       \/ HoldRoles(c) \/ FinishRoles(c) \/ RolesRaise(c)
       \/ \E r \in Role : HoldCritic(c, r)
       \/ StartCritics(c) \/ FinishCritics(c) \/ CriticsRaise(c)
    /\ UNCHANGED <<phase, status>>

RunningJob(j) == phase = "running" /\ JobStep(j) /\ UNCHANGED runVars

(* gather hands the first exception on at once and cancels nobody: until   *)
(* the run is marked failed, the other candidates go on, and the timeout   *)
(* may still come first.                                                   *)
Next ==
    \/ \E j \in Job : RunningJob(j)
    \/ phase = "running" /\ (TimeOut \/ Elapse
                               \/ \E c \in Candidate : CandidateStep(c))
    \/ EndRun
    \/ FailRun

Spec == Init /\ [][Next]_vars

(* The event loop runs every task that can run; providers answer or raise, *)
(* since each has a request timeout; retries are bounded.                  *)
Fairness ==
    /\ \A j \in Job : WF_vars(RunningJob(j))
    /\ \A c \in Candidate : WF_vars(phase = "running" /\ CandidateStep(c))
    /\ WF_vars(EndRun)
    /\ WF_vars(FailRun)

LiveSpec == Spec /\ Fairness

----------------------------------------------------------------------------
(* Properties                                                              *)

(* The pool's account is exact; the estimates of a candidate's roles are   *)
(* settled together, when the last of them has ended, unless one raised.   *)
Owed(c) ==
    cand[c] = "reviewing" \/ \E j \in ReviewsOf(c) : job[j] = "raised"
PoolExact ==
    phase = "running" =>
        PoolAccountsFor(UNION {ReviewsOf(c) : c \in {d \in Candidate : Owed(d)}})

(* Every way out of a call gives back what it held and no more, and what   *)
(* all candidates hold and used together stays within the pool.            *)
PoolKept == PoolExact /\ PoolCeilingHeld

(* A run ends, with or without a time limit, whatever its calls raise: no  *)
(* candidate waits for a semaphore, a hold or a provider for ever.         *)
RunEnds == <>(phase \in Over)

Symmetry == Permutations(Candidate)     \* for TLC: candidates are alike
=============================================================================
