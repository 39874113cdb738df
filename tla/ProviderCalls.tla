--------------------------- MODULE ProviderCalls ---------------------------
(***************************************************************************)
(* One role call or one critique: a provider is tried, retried after a     *)
(* transient failure, and replaced once by a fallback provider.            *)
(*                                                                         *)
(* AgentOrchestrator._call_role and _critique_one share this shape.  Both  *)
(* answer to two accounts.  The ledger (ReviewBudget) is asked before      *)
(* every attempt.  The pool, budget_state["used_input_tokens"], holds the  *)
(* estimate the caller put there before the job began; a fallback attempt  *)
(* holds the same estimate once more while it lasts.                       *)
(*                                                                         *)
(* Every section under a lock is a step of its own.  Models and prices are *)
(* left to ReviewBudget: here there is one model, without a price, and     *)
(* answers cost no output tokens.                                          *)
(***************************************************************************)
EXTENDS Integers, Sequences, FiniteSets

CONSTANTS
    Job,               \* role calls and critiques of the run
    Critique,          \* those that verify
    InputEstimate,     \* [Job -> Nat]: tokens of the job's prompt
    InputUsage,        \* input tokens a provider may report
    RetryLimit,        \* max_retries of one job
    HasFallback,       \* a fallback provider is configured
    MaxTotalInput,     \* max_total_input_tokens
    MaxCalls,          \* max_provider_calls
    CriticCalls,       \* calls reserved for verification
    MaxRetryAttempts,  \* max_retry_attempts of the run
    Timed,             \* max_elapsed_seconds is set
    NoRequest

ASSUME JobAssumption ==
    /\ Critique \subseteq Job
    /\ InputEstimate \in [Job -> Nat] /\ InputUsage \subseteq Nat
    /\ RetryLimit \in Nat /\ MaxTotalInput \in Nat
    /\ MaxCalls \in Nat /\ CriticCalls \in Nat /\ MaxRetryAttempts \in Nat
    /\ HasFallback \in BOOLEAN /\ Timed \in BOOLEAN

VARIABLES
    (* the ledger, see ReviewBudget *)
    providerCalls, reviewCalls, retryAttempts, used, byModel,
    terminationReason, reviewPhaseDenied, elapsed,
    callState, request, charge, overrun,
    (* the jobs *)
    job,        \* [Job -> JobState]
    attempts,   \* [Job -> Nat], attempt_number
    ending,     \* what a job that releases its hold ends as
    tokens,     \* [Job -> Nat], input tokens of the answer that was used
    pool        \* budget_state["used_input_tokens"]

ledgerVars == <<providerCalls, reviewCalls, retryAttempts, used, byModel,
                terminationReason, reviewPhaseDenied, elapsed,
                callState, request, charge, overrun>>
jobVars == <<job, attempts, ending, tokens>>

TokenCounts(n) == [t \in {"input_tokens", "output_tokens"} |->
                     IF t = "input_tokens" THEN n ELSE 0]

Ledger == INSTANCE ReviewBudget WITH
    Call            <- Job \X (1..(RetryLimit + 2)),
    Model           <- {"model"},
    Unpriced        <- "unpriced",
    Rate            <- [m \in {"model"} |-> "unpriced"],
    NoLimit         <- -1,
    Limit           <- [m \in {"input_tokens", "output_tokens", "cost"} |->
                          IF m = "input_tokens" THEN MaxTotalInput
                          ELSE IF m = "output_tokens" THEN 1 ELSE -1],
    TierTotal       <- MaxCalls,
    TierReserve     <- CriticCalls,
    RepositoryCalls <- MaxCalls,
    MaxRetries      <- MaxRetryAttempts,
    Estimate        <- {TokenCounts(InputEstimate[j]) : j \in Job},
    Usage           <- {TokenCounts(n) : n \in InputUsage}

(* "hop" is a job whose primary provider has failed for good in a way that *)
(* makes it eligible for the fallback provider; a "raised" one ended in an *)
(* exception its caller does not handle.                                   *)
Handled == {"ok", "failed", "refused"}
Ended == Handled \cup {"raised"}
JobState == {"idle", "reserve", "calling", "hop", "hop_reserve",
             "hop_calling", "release"} \cup Ended
HoldsAgain == {"hop_reserve", "hop_calling", "release"}

InitJobs ==
    /\ Ledger!Init
    /\ job = [j \in Job |-> "idle"]
    /\ attempts = [j \in Job |-> 0]
    /\ ending = [j \in Job |-> "failed"]
    /\ tokens = [j \in Job |-> 0]
    /\ pool = 0

Floor(n) == IF n > 0 THEN n ELSE 0

Fits(estimate) == pool + estimate <= MaxTotalInput

(* The job leaves its present attempt: primary gives where it goes from    *)
(* the primary provider, outcome what it ends as on the fallback.          *)
Leave(j, primary, outcome) ==
    /\ job' = [job EXCEPT ![j] = IF @ \in {"hop_calling", "hop_reserve"}
                                 THEN "release" ELSE primary]
    /\ ending' = [ending EXCEPT ![j] = outcome]

Calling(j) == job[j] \in {"calling", "hop_calling"}

(* reserve_call before an attempt; every attempt but a job's first is a    *)
(* retry, the fallback's included.                                         *)
Reserve(j) ==
    LET call == <<j, attempts[j] + 1>>
        q == [model |-> "model", tokens |-> TokenCounts(InputEstimate[j]),
              is_retry |-> attempts[j] > 0, verification |-> j \in Critique]
    IN
    /\ job[j] \in {"reserve", "hop_reserve"}
    /\ Ledger!ReserveCall(call, q)
    /\ \/ /\ callState'[call] = "reserved"
          /\ attempts' = [attempts EXCEPT ![j] = @ + 1]
          /\ job' = [job EXCEPT ![j] = IF @ = "reserve" THEN "calling"
                                       ELSE "hop_calling"]
          /\ UNCHANGED ending
       \/ /\ callState'[call] = "refused"
          /\ Leave(j, "refused", "refused")
          /\ UNCHANGED attempts
    /\ UNCHANGED <<tokens, pool>>

(* The provider answers, and the answer parses. *)
Answer(j) ==
    /\ Calling(j)
    /\ \E n \in InputUsage :
          /\ Ledger!Reconcile(<<j, attempts[j]>>, TokenCounts(n))
          /\ tokens' = [tokens EXCEPT ![j] = n]
    /\ Leave(j, "ok", "ok")
    /\ UNCHANGED <<attempts, pool>>

(* A malformed answer is treated as a call that never happened. *)
MalformedGivesBack(j) ==
    LET call == <<j, attempts[j]>> IN
    /\ Calling(j)
    /\ used' = [used EXCEPT !["input_tokens"] =
                  @ - charge[call]["input_tokens"]]
    /\ callState' = [callState EXCEPT ![call] = "failed"]
    /\ Leave(j, "hop", "failed")
    /\ UNCHANGED <<providerCalls, reviewCalls, retryAttempts, byModel,
                   terminationReason, reviewPhaseDenied, elapsed, request,
                   charge, overrun, attempts, tokens, pool>>

(* ResponseSchemaError: never retried with the same provider *)
AnswerMalformed(j) ==
    /\ Calling(j)
    /\ \E n \in InputUsage :
          Ledger!Reconcile(<<j, attempts[j]>>, TokenCounts(n))
    /\ Leave(j, "hop", "failed")
    /\ UNCHANGED <<attempts, tokens, pool>>

(* ProviderTransientError: call_with_retry tries again up to its limit *)
FailTransiently(j) ==
    /\ Calling(j)
    /\ Ledger!CallFails(<<j, attempts[j]>>)
    /\ Leave(j, IF attempts[j] <= RetryLimit THEN "reserve" ELSE "hop",
             "failed")
    /\ UNCHANGED <<attempts, tokens, pool>>

(* ProviderFatalError: neither retried nor sent to another provider *)
FailFatally(j) ==
    /\ Calling(j)
    /\ Ledger!CallFails(<<j, attempts[j]>>)
    /\ Leave(j, "failed", "failed")
    /\ UNCHANGED <<attempts, tokens, pool>>

(* An exception of any other class, like the ValueError of a verdict that  *)
(* names no known severity: neither retried nor sent to another provider.  *)
FailUnexpectedly(j) ==
    /\ Calling(j)
    /\ \/ Ledger!CallFails(<<j, attempts[j]>>)
       \/ \E n \in InputUsage :
             Ledger!Reconcile(<<j, attempts[j]>>, TokenCounts(n))
    /\ Leave(j, "raised", "raised")
    /\ UNCHANGED <<attempts, tokens, pool>>

(* The one hop: its hold and its check are one section under budget_lock.  *)
(* Without a fallback or without room the primary's error stands.          *)
TakeHop(j) ==
    /\ job[j] = "hop"
    /\ IF HasFallback /\ Fits(InputEstimate[j])
       THEN /\ job' = [job EXCEPT ![j] = "hop_reserve"]
            /\ pool' = pool + InputEstimate[j]
       ELSE /\ job' = [job EXCEPT ![j] = "failed"]
            /\ UNCHANGED pool
    /\ UNCHANGED <<attempts, ending, tokens, ledgerVars>>

(* A refused or failed hop keeps its hold. *)
ReleaseSuccessOnly(j) ==
    /\ job[j] = "release"
    /\ pool' = IF ending[j] = "ok" THEN Floor(pool - InputEstimate[j])
               ELSE pool
    /\ job' = [job EXCEPT ![j] = ending[j]]
    /\ UNCHANGED <<attempts, ending, tokens, ledgerVars>>

(* The hop's hold is given back, whatever the hop came to. *)
ReleaseHop(j) ==
    /\ job[j] = "release"
    /\ pool' = Floor(pool - InputEstimate[j])
    /\ job' = [job EXCEPT ![j] = ending[j]]
    /\ UNCHANGED <<attempts, ending, tokens, ledgerVars>>

JobStep(j) ==
    \/ Reserve(j)
    \/ Answer(j)
    \/ AnswerMalformed(j)
    \/ FailTransiently(j)
    \/ FailFatally(j)
    \/ FailUnexpectedly(j)
    \/ TakeHop(j)
    \/ ReleaseHop(j)

=============================================================================
