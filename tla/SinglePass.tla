----------------------------- MODULE SinglePass -----------------------------
(***************************************************************************)
(* One review run under the cost-aware strategy: all candidates are        *)
(* prepared, one unified pass reviews them in batches, at most two         *)
(* specialist escalations look again at some of them, and then the         *)
(* findings are verified, candidate by candidate.                          *)
(*                                                                         *)
(* A batch is one call, so one job: that of one of its candidates.  Its    *)
(* estimate does not depend on its length here; how lengths make batches   *)
(* (plan_batches) and which signals escalate (decide_escalations) are in   *)
(* ChangeRisk, and any batches and any affordable escalations are taken.   *)
(***************************************************************************)
EXTENDS CandidateRun

ASSUME SinglePassAssumption ==
    /\ Candidate \subseteq Nat
    /\ Role = {"unified", "security", "correctness"}

VARIABLES
    stage,     \* "prepare", "first_pass", "escalate" or "verify"
    calls      \* Seq([role, targets]), those to come; the first may be under way

passVars == <<stage, calls>>
passRunVars == <<ledgerVars, jobVars, pool, runVars, passVars>>

PassInit == InitRun /\ stage = "prepare" /\ calls = <<>>

In(state) == {c \in Candidate : cand[c] = state}
Owner(call) == Review(CHOOSE c \in call.targets : TRUE, call.role)
UnderWay == {j \in Job \ Critique : job[j] # "idle"} \cap {Owner(calls[i]) : i \in DOMAIN calls}

(* _prepare: the semaphore is held while the context is built, no longer. *)
StartPreparing(c) ==
    /\ cand[c] = "waiting"
    /\ Cardinality(In("preparing")) < MaxConcurrent
    /\ Goto(c, "preparing")
    /\ UNCHANGED <<finding, underWay, jobVars, pool, ledgerVars>>

Prepared(c) ==
    /\ cand[c] = "preparing"
    /\ Goto(c, "prepared")
    /\ UNCHANGED <<finding, underWay, jobVars, pool, ledgerVars>>

(* The batches are consecutive runs of the prepared candidates, in order.  *)
Batches(number, batch) ==
    [i \in 1..number |->
       [role |-> "unified", targets |-> {c \in In("prepared") : batch[c] = i}]]

PlanBatches ==
    /\ stage = "prepare"
    /\ In("waiting") \cup In("preparing") = {}
    /\ In("prepared") # {}
    /\ \E number \in 1..Cardinality(In("prepared")) :
         \E batch \in [In("prepared") -> 1..number] :
           /\ \A i \in 1..number : \E c \in In("prepared") : batch[c] = i
           /\ \A c, d \in In("prepared") : c < d => batch[c] <= batch[d]
           /\ calls' = Batches(number, batch)
    /\ stage' = "first_pass"
    /\ UNCHANGED <<runVars, jobVars, pool, ledgerVars>>

(* The roles are treated alike. *)
UnansweredLosesTargets(call, state) ==
    cand' = [c \in Candidate |-> IF c \in call.targets THEN state ELSE cand[c]]

(* What a batch without an answer does to its candidates: an escalation    *)
(* leaves them as the first pass did, but an exception ends the pass.      *)
Unanswered(call, state) ==
    IF call.role = "unified" \/ state = "raised"
    THEN cand' = [c \in Candidate |-> IF c \in call.targets THEN state ELSE cand[c]]
    ELSE UNCHANGED cand

(* review_batch, up to its call: held in the pool, or exhausted *)
StartCall ==
    /\ calls # <<>>
    /\ LET owner == Owner(Head(calls)) IN
       /\ job[owner] = "idle"
       /\ IF Fits(InputEstimate[owner])
          THEN /\ pool' = pool + InputEstimate[owner]
               /\ Start({owner})
               /\ underWay' = underWay \cup {owner}
               /\ UNCHANGED <<cand, calls>>
          ELSE /\ Unanswered(Head(calls), "skipped")
               /\ calls' = Tail(calls)
               /\ UNCHANGED <<pool, job, underWay>>
    /\ UNCHANGED <<finding, phase, status, stage, attempts, ending, tokens, ledgerVars>>

(* review_batch from its call on, and _record: every finding is attributed *)
(* to one of the batch's candidates.  The hold is settled on every path.   *)
FinishCall ==
    /\ calls # <<>>
    /\ LET call == Head(calls)  owner == Owner(call) IN
       /\ job[owner] \in Ended
       /\ pool' = Floor(pool - InputEstimate[owner] + tokens[owner])
       /\ underWay' = underWay \ {owner}
       /\ IF job[owner] = "ok"
          THEN /\ \E found \in [call.targets -> {"none", "accepted", "selected"}] :
                     finding' = [x \in Candidate \X Role |->
                                   IF x[2] = call.role /\ x[1] \in call.targets
                                   THEN found[x[1]] ELSE finding[x]]
               /\ UNCHANGED cand
          ELSE /\ Unanswered(call, IF job[owner] = "refused" THEN "skipped" ELSE job[owner])
               /\ UNCHANGED finding
    /\ calls' = Tail(calls)
    /\ UNCHANGED <<phase, status, stage, jobVars, ledgerVars>>

(* _remaining_review_calls; decide_escalations keeps one of them back *)
Affordable ==
    Ledger!Smaller(Ledger!MaxProviderCalls - providerCalls,
                   Ledger!MaxReviewCalls - providerCalls + 1) - 1

(* The plans: security first, correctness for candidates it leaves. *)
Escalations(s, t) ==
    LET plan(role, targets) == IF targets = {} THEN <<>> ELSE <<[role |-> role, targets |-> targets]>>
    IN  plan("security", s) \o plan("correctness", t \ s)

PlanEscalations ==
    /\ stage = "first_pass" /\ calls = <<>>
    /\ \E s \in SUBSET In("prepared"), t \in SUBSET In("prepared") : calls' = Escalations(s, t)
    /\ calls' = <<>> \/ Len(calls') <= Affordable
    /\ stage' = "escalate"
    /\ UNCHANGED <<runVars, jobVars, pool, ledgerVars>>

(* verify_proposals for one candidate after the other *)
StartVerifying ==
    /\ stage \in {"escalate", "verify"} /\ calls = <<>>
    /\ In("critiquing") \cup In("verifying") = {}
    /\ \E c \in In("prepared") :
          /\ \A d \in In("prepared") : c <= d
          /\ Goto(c, "critiquing")
    /\ stage' = "verify"
    /\ UNCHANGED <<finding, phase, status, underWay, calls, jobVars, pool, ledgerVars>>

PassCandidateStep(c) ==
    /\ \/ StartPreparing(c) \/ PrepareFails(c) \/ Prepared(c)
       \/ \E r \in Role : HoldCritic(c, r)
       \/ StartCritics(c) \/ FinishCritics(c) \/ CriticsRaise(c)
    /\ UNCHANGED <<phase, status, passVars>>

PassStep == PlanBatches \/ StartCall \/ FinishCall \/ PlanEscalations \/ StartVerifying

(* The pass is one coroutine: nothing of it goes on after an exception. *)
Going == phase = "running" /\ In("raised") = {}

PassJob(j) == Going /\ JobStep(j) /\ UNCHANGED <<runVars, passVars>>

PassNext ==
    \/ \E j \in Job : PassJob(j)
    \/ Going /\ (PassStep \/ \E c \in Candidate : PassCandidateStep(c))
    \/ Going /\ (TimeOut \/ Elapse) /\ UNCHANGED passVars
    \/ (EndRun \/ FailRun) /\ UNCHANGED passVars

PassSpec == PassInit /\ [][PassNext]_passRunVars

----------------------------------------------------------------------------
(* Properties                                                              *)

(* A finding that was made is not lost because another call failed or was  *)
(* refused: only the time limit, or an exception that fails the run, drops *)
(* it.                                                                     *)
NoFindingIsLost ==
    phase = "running" =>
        \A x \in Candidate \X Role :
            finding[x] # "none" => cand[x[1]] \notin {"failed", "skipped"}

(* An escalation that was planned is not refused for the number of calls,  *)
(* unless another one made more than its one.                              *)
Escalation == {j \in Job \ Critique : j[2] # "unified"}
EscalationsAreAffordable ==
    \A j \in Escalation :
        /\ job[j] = "refused" /\ attempts[j] = 0
        /\ \A i \in Escalation \ {j} : attempts[i] <= 1
        => terminationReason # "max_provider_calls" /\ reviewPhaseDenied = "none"

PassPoolExact == phase = "running" => PoolAccountsFor(UnderWay)

(* Whatever calls are refused, fail, are retried or replaced, in the first *)
(* pass, the escalations and the verification: the findings made so far    *)
(* stay, none of them is published because its critic was refused by the   *)
(* ledger or could not be held, the escalations can be paid for, and the   *)
(* pool's account is exact.                                                *)
EscalationsOnlyAdd ==
    /\ NoFindingIsLost
    /\ EscalationsAreAffordable
    /\ RefusalNeverPublishes
    /\ PassPoolExact

=============================================================================
