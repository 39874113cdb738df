---------------------------- MODULE CandidateRun ----------------------------
(***************************************************************************)
(* What the two strategies of a review run share: its candidates, the      *)
(* findings made about them, the critics that verify findings, the time    *)
(* limit and the run's status.                                             *)
(*                                                                         *)
(* Candidates share the ledger and the token pool.  Critics are held in    *)
(* the pool one by one, and a finding whose critic cannot be held or is    *)
(* refused is suppressed.  A role has at most one finding per candidate    *)
(* here, and cross-role grouping and confidence are left to                *)
(* FindingPipeline: what matters is whether a finding has to be verified,  *)
(* and what became of it.                                                  *)
(***************************************************************************)
EXTENDS ProviderCalls, FiniteSetsExt

CONSTANTS
    Candidate,
    Role,              \* roles that may review a candidate
    MaxConcurrent,     \* max_concurrent_requests
    FailurePolicy      \* "fail_open" or "hold_for_review"

(* The jobs of a run; the instances for TLC give Job this value. *)
RunJobs == Candidate \X Role \X {"review", "critique"}
RunCritiques == Candidate \X Role \X {"critique"}

ASSUME RunAssumption ==
    /\ Job = RunJobs /\ Critique = RunCritiques
    /\ IsFiniteSet(Candidate) /\ IsFiniteSet(Role)
    /\ MaxConcurrent \in Nat \ {0}
    /\ FailurePolicy \in {"fail_open", "hold_for_review"}

VARIABLES
    cand,     \* [Candidate -> CandidateState]
    finding,  \* [Candidate \X Role -> FindingState]
    phase,    \* "running", "cancelled" by the timeout, or in Over
    status,   \* ReviewRunStatus
    underWay  \* history: the reviews whose estimates the pool holds

runVars == <<cand, finding, phase, status, underWay>>

(* "prepared" is a state of the single-pass strategy, whose candidates     *)
(* wait for one another; "raised" one whose exception is on its way to     *)
(* fail the run.  A run that ends after its timeout is "timed_out".        *)
Over == {"ended", "timed_out"}
Complete == {"reviewed", "failed", "skipped"}
InFlight == {"preparing", "reviewing", "critiquing", "verifying"}
CandidateState == {"waiting", "prepared", "raised"} \cup InFlight \cup Complete

(* "selected": a critic has to verify it; "held": its critic has a hold in *)
(* the pool.  "unverified" is a finding kept although its critic failed.   *)
Kept == {"accepted", "verified", "unverified"}
FindingState == {"none", "selected", "held", "rejected", "suppressed"}
                  \cup Kept

Review(c, r) == <<c, r, "review">>
Critic(c, r) == <<c, r, "critique">>

TotalOf(f, jobs) == MapThenSumSet(LAMBDA j : f[j], jobs)
CriticsOf(c) == {Critic(c, r) : r \in {r \in Role : finding[<<c, r>>] = "held"}}
OkIn(jobs) == {j \in jobs : job[j] = "ok"}

InitRun ==
    /\ InitJobs
    /\ cand = [c \in Candidate |-> "waiting"]
    /\ finding = [x \in Candidate \X Role |-> "none"]
    /\ phase = "running"
    /\ status = "running"
    /\ underWay = {}

Goto(c, state) == cand' = [cand EXCEPT ![c] = state]
Start(jobs) == job' = [j \in Job |-> IF j \in jobs THEN "reserve" ELSE job[j]]

(* Building the candidate's context fails *)
PrepareFails(c) ==
    /\ cand[c] = "preparing"
    /\ Goto(c, "failed")
    /\ UNCHANGED <<finding, underWay, jobVars, pool, ledgerVars>>

(* _critique: each finding to verify gets its own hold, or is suppressed *)
HoldCritic(c, r) ==
    LET estimate == InputEstimate[Critic(c, r)] IN
    /\ cand[c] = "critiquing"
    /\ finding[<<c, r>>] = "selected"
    /\ IF Fits(estimate)
       THEN /\ pool' = pool + estimate
            /\ finding' = [finding EXCEPT ![<<c, r>>] = "held"]
       ELSE /\ finding' = [finding EXCEPT ![<<c, r>>] = "suppressed"]
            /\ UNCHANGED pool
    /\ UNCHANGED <<cand, underWay, jobVars, ledgerVars>>

StartCritics(c) ==
    /\ cand[c] = "critiquing"
    /\ \A r \in Role : finding[<<c, r>>] # "selected"
    /\ Goto(c, IF CriticsOf(c) = {} THEN "reviewed" ELSE "verifying")
    /\ Start(CriticsOf(c))
    /\ UNCHANGED <<finding, underWay, attempts, ending, tokens, pool, ledgerVars>>

(* A refused critic is taken for one that failed. *)
VerdictsOfAnyFailure(state) ==
    IF state = "ok" THEN {"verified", "rejected"}
    ELSE IF FailurePolicy = "hold_for_review" /\ state = "failed"
         THEN {"suppressed"} ELSE {"unverified"}

(* What a critic that ended in this state makes of its finding *)
Verdicts(state) ==
    CASE state = "ok"      -> {"verified", "rejected"}
      [] state = "refused" -> {"suppressed"}
      [] state = "failed"  -> IF FailurePolicy = "hold_for_review"
                              THEN {"suppressed"} ELSE {"unverified"}

FinishCritics(c) ==
    LET critics == CriticsOf(c) IN
    /\ cand[c] = "verifying"
    /\ \A j \in critics : job[j] \in Handled
    /\ pool' = Floor(pool - TotalOf(InputEstimate, critics)
                          + TotalOf(tokens, OkIn(critics)))
    /\ \E verdict \in [critics -> FindingState] :
          /\ \A j \in critics : verdict[j] \in Verdicts(job[j])
          /\ finding' = [x \in Candidate \X Role |->
                           IF Critic(x[1], x[2]) \in critics
                           THEN verdict[Critic(x[1], x[2])] ELSE finding[x]]
    /\ Goto(c, "reviewed")
    /\ UNCHANGED <<underWay, jobVars, ledgerVars>>

(* raise verdict_outcome: nothing of the candidate is settled or kept. *)
CriticsRaise(c) ==
    /\ cand[c] = "verifying"
    /\ \A j \in CriticsOf(c) : job[j] \in Ended
    /\ \E j \in CriticsOf(c) : job[j] = "raised"
    /\ Goto(c, "raised")
    /\ UNCHANGED <<finding, underWay, jobVars, pool, ledgerVars>>

(* asyncio.timeout: every task is cancelled, what is not complete is       *)
(* skipped.                                                                *)
TimeOut ==
    /\ Ledger!Terminate
    /\ \E c \in Candidate : cand[c] \notin Complete
    /\ cand' = [c \in Candidate |->
                  IF cand[c] \in Complete THEN cand[c] ELSE "skipped"]
    /\ phase' = "cancelled"
    /\ UNCHANGED <<finding, status, underWay, jobVars, pool>>

Elapse ==
    /\ Ledger!Elapse
    /\ UNCHANGED <<jobVars, pool, runVars>>

(* Only failures make a run partial. *)
StatusIgnoresReason ==
    IF \A c \in Candidate : cand[c] # "failed" THEN "succeeded"
    ELSE IF \E c \in Candidate : cand[c] = "reviewed" THEN "partial"
    ELSE "failed"

RunStatus ==
    LET failed == \E c \in Candidate : cand[c] = "failed"
        reviewed == \E c \in Candidate : cand[c] = "reviewed"
    IN IF ~reviewed /\ failed THEN "failed"
       ELSE IF failed \/ Ledger!ReportedReason # Ledger!NoReason
       THEN "partial" ELSE "succeeded"

(* The candidates, their findings and the run's status are persisted. *)
EndRun ==
    /\ phase \notin Over
    /\ \A c \in Candidate : cand[c] \in Complete
    /\ phase' = IF phase = "cancelled" THEN "timed_out" ELSE "ended"
    /\ status' = RunStatus
    /\ UNCHANGED <<cand, finding, underWay, jobVars, pool, ledgerVars>>

(* _run catches the exception: the row is marked failed, and candidates    *)
(* and findings are not persisted.                                         *)
FailRun ==
    /\ phase = "running"
    /\ \E c \in Candidate : cand[c] = "raised"
    /\ phase' = "ended"
    /\ status' = "failed"
    /\ UNCHANGED <<cand, finding, underWay, jobVars, pool, ledgerVars>>

----------------------------------------------------------------------------
(* Properties                                                              *)

(* Candidates, jobs and findings are in states the code has, the pool is   *)
(* never negative, and a job makes one attempt and RetryLimit retries      *)
(* before its one fallback attempt.                                        *)
RunTypeOK ==
    /\ job \in [Job -> JobState]
    /\ attempts \in [Job -> 0..(RetryLimit + 2)]
    /\ \A j \in Job : job[j] \in {"calling", "hop", "hop_reserve"} =>
                        attempts[j] <= RetryLimit + 1
    /\ ending \in [Job -> Ended]
    /\ tokens \in [Job -> InputUsage \cup {0}]
    /\ pool \in Nat
    /\ cand \in [Candidate -> CandidateState]
    /\ finding \in [Candidate \X Role -> FindingState]
    /\ phase \in {"running", "cancelled"} \cup Over
    /\ status \in {"running", "succeeded", "partial", "failed"}
    /\ underWay \subseteq Job \ Critique

(* The pool is exactly what is held and what was used: the estimates of    *)
(* the reviews under way, the holds of critics and of fallback attempts,   *)
(* and the usage of answers that were settled.  Nothing is counted twice,  *)
(* no hold survives its job, but for those of a candidate whose exception  *)
(* fails the run, and the floor at zero never acts.                        *)
HeldCritics ==
    UNION {CriticsOf(c) : c \in
             {d \in Candidate : cand[d] \in {"critiquing", "verifying", "raised"}}}
PoolAccountsFor(reviews) ==
    pool = TotalOf(InputEstimate, reviews \cup HeldCritics)
             + TotalOf(InputEstimate, {j \in Job : job[j] \in HoldsAgain})
             + TotalOf(tokens, {j \in Job \ (reviews \cup HeldCritics) : job[j] = "ok"})

(* The pool passes max_total_input_tokens only by usage in excess of the   *)
(* estimates, however the candidates' checks and holds interleave.         *)
PoolCeilingHeld == pool <= MaxTotalInput + overrun["input_tokens"]

(* A finding that has to be verified is published only if its critic       *)
(* answered, or, under fail_open, was called at least once, failed in its  *)
(* last call, and had no call, retry or fallback refused by the ledger.  A *)
(* critic the pool cannot hold never publishes its finding; but one that   *)
(* failed does when the pool has no room for its fallback.                 *)
Published ==
    {x \in Candidate \X Role : cand[x[1]] = "reviewed" /\ finding[x] \in Kept}
AskedInVain(j) ==
    /\ job[j] = "failed"
    /\ attempts[j] > 0
    /\ callState[<<j, attempts[j]>>] \in {"failed", "settled"}
NeverRefused(j) ==
    \A n \in 1..(RetryLimit + 2) : callState[<<j, n>>] # "refused"
RefusalNeverPublishes ==
    \A x \in Published :
        LET critic == Critic(x[1], x[2]) IN
        finding[x] # "accepted" =>
            /\ NeverRefused(critic)
            /\ \/ job[critic] = "ok"
               \/ FailurePolicy = "fail_open" /\ AskedInVain(critic)

(* A run in which the ledger refused any call, or that its time limit      *)
(* interrupted, does not end as a success.                                 *)
RefusalEndsPartial ==
    status = "succeeded" =>
        /\ phase # "timed_out"
        /\ \A j \in Job : job[j] # "refused"
        /\ \A call \in DOMAIN callState : callState[call] # "refused"

(* Every step of the run is a legal use of the ledger: one reservation per *)
(* attempt, settled at most once, by the call that made it.                *)
ImplementsLedger == Ledger!Spec

-----------------------------------------------------------------------------
(* For TLC: every prompt is estimated at two tokens.                       *)
TwoEach == [j \in Job |-> 2]
=============================================================================
