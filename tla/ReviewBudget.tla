---------------------------- MODULE ReviewBudget ----------------------------
(***************************************************************************)
(* The ledger one review run shares between its reviewer, specialist,      *)
(* critic, retry and fallback calls.                                       *)
(*                                                                         *)
(* A caller reserves an estimate before it calls a provider; the ledger    *)
(* refuses once a ceiling would be passed.  Each answer replaces its       *)
(* estimate by the usage the provider reports, which may be larger.  A     *)
(* call that fails keeps its estimate.  asyncio.Lock makes each method one *)
(* step; the provider call between a reservation and its reconciliation    *)
(* holds no lock.                                                          *)
(*                                                                         *)
(* A refusal is sticky: every later call is refused for the same reason.   *)
(* The one exception is the review-phase ceiling, which stops reviewers    *)
(* but leaves the rest of the calls to verification.  Money is counted in  *)
(* a unit small enough that every cost is a natural number.                *)
(***************************************************************************)
EXTENDS Integers, Sequences, FiniteSets, FiniteSetsExt

CONSTANTS
    Call,            \* attempts to call a provider
    Model,           \* provider/model keys of the pricing catalog
    Unpriced,        \* the rate of a model the catalog does not list
    Rate,            \* [Model -> [Token -> Nat], or Unpriced]
    NoLimit,         \* the cost ceiling of a run that has none
    Limit,           \* [Meter -> Nat], "cost" may be NoLimit
    TierTotal,       \* provider calls the run's risk tier allows
    TierReserve,     \* those of them reserved for verification
    RepositoryCalls, \* max_provider_calls of the repository's configuration
    MaxRetries,      \* max_retry_attempts
    Timed,           \* max_elapsed_seconds is set
    Estimate,        \* token counts a caller may estimate
    Usage,           \* token counts a provider may report
    NoRequest        \* a call that has not asked

Token == {"input_tokens", "output_tokens"}
Meter == Token \cup {"cost"}

Smaller(a, b) == IF a < b THEN a ELSE b
Larger(a, b) == IF a > b THEN a ELSE b

(* ReviewCostPolicy.review_call_budget, and the ceilings the service       *)
(* derives for the run from it and from the repository's own limit.        *)
ReviewCallBudget ==
    IF TierTotal <= 0 THEN 0 ELSE Larger(1, TierTotal - TierReserve)
MaxProviderCalls == Smaller(RepositoryCalls, TierTotal)
MaxReviewCalls == Smaller(MaxProviderCalls, ReviewCallBudget)

Counts == [Token -> Nat]
Amounts == [Meter -> Nat]

ASSUME BudgetAssumption ==
    /\ TierTotal \in Nat /\ TierReserve \in Nat
    /\ RepositoryCalls \in Nat /\ MaxRetries \in Nat
    /\ Rate \in [Model -> Counts \cup {Unpriced}]
    /\ NoLimit \notin Nat
    /\ Limit \in [Meter -> Nat \cup {NoLimit}]
    /\ Limit["input_tokens"] # NoLimit /\ Limit["output_tokens"] # NoLimit
    /\ Timed \in BOOLEAN
    /\ Estimate \subseteq Counts /\ Usage \subseteq Counts

(* patchfrog.review.budget.BudgetTerminationReason *)
BudgetTerminationReason ==
    {"max_provider_calls", "max_retry_attempts", "max_input_tokens",
     "max_output_tokens", "max_estimated_cost", "pricing_unavailable",
     "max_elapsed_time"}
NoReason == "none"

(* The arguments of reserve_call *)
Request == [model : Model, tokens : Counts,
            is_retry : BOOLEAN, verification : BOOLEAN]

VARIABLES
    providerCalls, reviewCalls, retryAttempts,
    used,               \* [Meter -> Nat]
    byModel,            \* [Model -> [Meter -> Nat]]
    terminationReason,  \* sticky
    reviewPhaseDenied,  \* recorded, not sticky
    elapsed,            \* the clock is past max_elapsed_seconds
    (* the callers *)
    callState,          \* [Call -> {"unused","refused","reserved",...}]
    request,            \* what the call asked for
    charge,             \* what the call is charged at present
    overrun             \* history: usage in excess of the estimates

counterVars == <<providerCalls, reviewCalls, retryAttempts>>
reasonVars  == <<terminationReason, reviewPhaseDenied>>
callVars    == <<callState, request, charge, overrun>>
vars == <<counterVars, used, byModel, reasonVars, elapsed, callVars>>

Nothing == [m \in Meter |-> 0]

Init ==
    /\ providerCalls = 0 /\ reviewCalls = 0 /\ retryAttempts = 0
    /\ used = Nothing
    /\ byModel = [mdl \in Model |-> Nothing]
    /\ terminationReason = NoReason
    /\ reviewPhaseDenied = NoReason
    /\ elapsed = FALSE
    /\ callState = [c \in Call |-> "unused"]
    /\ request = [c \in Call |-> NoRequest]
    /\ charge = [c \in Call |-> Nothing]
    /\ overrun = Nothing

(* _cost: a model without a price costs nothing *)
Cost(mdl, tokens) ==
    IF Rate[mdl] = Unpriced THEN 0
    ELSE Rate[mdl]["input_tokens"] * tokens["input_tokens"]
           + Rate[mdl]["output_tokens"] * tokens["output_tokens"]

AmountsOf(mdl, tokens) ==
    [m \in Meter |-> IF m = "cost" THEN Cost(mdl, tokens) ELSE tokens[m]]

(* A ceiling is enforced only once it has been passed. *)
PassedBefore(m, amount) == Limit[m] # NoLimit /\ used[m] > Limit[m]

Passes(m, amount) == Limit[m] # NoLimit /\ used[m] + amount > Limit[m]

----------------------------------------------------------------------------
(* reserve_call: its checks, in the code's order                           *)

ReviewPhaseFull(q) == ~q.verification /\ reviewCalls + 1 > MaxReviewCalls

CheckOrder ==
    <<"max_elapsed_time", "max_provider_calls", "review_phase",
      "max_retry_attempts", "max_input_tokens", "max_output_tokens",
      "pricing_unavailable", "max_estimated_cost">>

Fails(check, q) ==
    \/ check = "max_elapsed_time"    /\ Timed /\ elapsed
    \/ check = "max_provider_calls"  /\ providerCalls + 1 > MaxProviderCalls
    \/ check = "review_phase"        /\ ReviewPhaseFull(q)
    \/ check = "max_retry_attempts"  /\ q.is_retry
                                     /\ retryAttempts + 1 > MaxRetries
    \/ check = "max_input_tokens"    /\ Passes("input_tokens",
                                               q.tokens["input_tokens"])
    \/ check = "max_output_tokens"   /\ Passes("output_tokens",
                                               q.tokens["output_tokens"])
    \/ check = "pricing_unavailable" /\ Limit["cost"] # NoLimit
                                     /\ Rate[q.model] = Unpriced
    \/ check = "max_estimated_cost"  /\ Passes("cost",
                                               Cost(q.model, q.tokens))

PassesAllChecks(q) == \A i \in 1..8 : ~Fails(CheckOrder[i], q)

FailsFirst(q, check) ==
    \E i \in 1..8 : /\ CheckOrder[i] = check
                    /\ Fails(check, q)
                    /\ \A j \in 1..(i - 1) : ~Fails(CheckOrder[j], q)

Refused(c, q) ==
    /\ callState' = [callState EXCEPT ![c] = "refused"]
    /\ request' = [request EXCEPT ![c] = q]
    /\ UNCHANGED <<counterVars, used, byModel, elapsed, charge, overrun>>

(* The ledger has already terminated *)
RefuseTerminated(c, q) ==
    /\ terminationReason # NoReason
    /\ Refused(c, q)
    /\ UNCHANGED reasonVars

(* _deny: the reason sticks *)
Deny(c, q) ==
    /\ terminationReason = NoReason
    /\ \E reason \in BudgetTerminationReason :
          FailsFirst(q, reason) /\ terminationReason' = reason
    /\ Refused(c, q)
    /\ UNCHANGED reviewPhaseDenied

(* The review-phase ceiling leaves no trace. *)
DenyReviewPhaseSilently(c, q) ==
    /\ terminationReason = NoReason
    /\ FailsFirst(q, "review_phase")
    /\ Refused(c, q)
    /\ UNCHANGED reasonVars

(* The review-phase ceiling ends the run. *)
DenyReviewPhaseForGood(c, q) ==
    /\ terminationReason = NoReason
    /\ FailsFirst(q, "review_phase")
    /\ terminationReason' = "max_provider_calls"
    /\ Refused(c, q)
    /\ UNCHANGED reviewPhaseDenied

(* The review-phase ceiling does not stick *)
DenyReviewPhase(c, q) ==
    /\ terminationReason = NoReason
    /\ FailsFirst(q, "review_phase")
    /\ reviewPhaseDenied' = "max_provider_calls"
    /\ Refused(c, q)
    /\ UNCHANGED terminationReason

Added(amounts, more) == [m \in Meter |-> amounts[m] + more[m]]

Grant(c, q) ==
    LET amounts == AmountsOf(q.model, q.tokens) IN
    /\ terminationReason = NoReason
    /\ PassesAllChecks(q)
    /\ providerCalls' = providerCalls + 1
    /\ reviewCalls' = reviewCalls + (IF q.verification THEN 0 ELSE 1)
    /\ retryAttempts' = retryAttempts + (IF q.is_retry THEN 1 ELSE 0)
    /\ used' = Added(used, amounts)
    /\ byModel' = [byModel EXCEPT ![q.model] = Added(@, amounts)]
    /\ callState' = [callState EXCEPT ![c] = "reserved"]
    /\ request' = [request EXCEPT ![c] = q]
    /\ charge' = [charge EXCEPT ![c] = amounts]
    /\ UNCHANGED <<reasonVars, elapsed, overrun>>

ReserveCall(c, q) ==
    /\ callState[c] = "unused"
    /\ \/ RefuseTerminated(c, q)
       \/ Deny(c, q)
       \/ DenyReviewPhase(c, q)
       \/ Grant(c, q)

----------------------------------------------------------------------------
(* The answer is counted beside its own estimate. *)
CountedTwice(amounts, estimated, actual) ==
    [m \in Meter |-> Larger(0, amounts[m] + actual[m])]

(* reconcile: max(0, amount - estimate + actual), per meter *)
Replaced(amounts, estimated, actual) ==
    [m \in Meter |-> Larger(0, amounts[m] + (actual[m] - estimated[m]))]

Reached(m, amounts) == Limit[m] # NoLimit /\ amounts[m] >= Limit[m]

ReasonAfter(amounts) ==
    IF terminationReason # NoReason THEN terminationReason
    ELSE IF Reached("input_tokens", amounts) THEN "max_input_tokens"
    ELSE IF Reached("output_tokens", amounts) THEN "max_output_tokens"
    ELSE IF Reached("cost", amounts) THEN "max_estimated_cost"
    ELSE NoReason

Reconcile(c, tokens) ==
    LET mdl    == request[c].model
        actual == AmountsOf(mdl, tokens)
    IN
    /\ callState[c] = "reserved"
    /\ used' = Replaced(used, charge[c], actual)
    /\ byModel' = [byModel EXCEPT ![mdl] = Replaced(@, charge[c], actual)]
    /\ terminationReason' = ReasonAfter(used')
    /\ callState' = [callState EXCEPT ![c] = "settled"]
    /\ charge' = [charge EXCEPT ![c] = actual]
    /\ overrun' = [m \in Meter |->
                     overrun[m] + Larger(0, actual[m] - charge[c][m])]
    /\ UNCHANGED <<counterVars, reviewPhaseDenied, elapsed, request>>

(* The provider call raises: nobody reconciles it *)
CallFails(c) ==
    /\ callState[c] = "reserved"
    /\ callState' = [callState EXCEPT ![c] = "failed"]
    /\ UNCHANGED <<counterVars, used, byModel, reasonVars, elapsed,
                   request, charge, overrun>>

(* The run's own asyncio.timeout fires *)
Terminate ==
    /\ Timed /\ elapsed
    /\ terminationReason' = IF terminationReason = NoReason
                            THEN "max_elapsed_time" ELSE terminationReason
    /\ UNCHANGED <<counterVars, used, byModel, reviewPhaseDenied, elapsed,
                   callVars>>

Elapse ==
    /\ Timed /\ ~elapsed
    /\ elapsed' = TRUE
    /\ UNCHANGED <<counterVars, used, byModel, reasonVars, callVars>>

Requests == [model : Model, tokens : Estimate,
             is_retry : BOOLEAN, verification : BOOLEAN]

(* A retry or a fallback follows a call that failed, or one whose answer    *)
(* was reconciled and then did not parse.                                  *)
MayAsk(q) ==
    q.is_retry => \E d \in Call : callState[d] \in {"failed", "settled"}

CallStep(c) ==
    \/ \E q \in Requests : MayAsk(q) /\ ReserveCall(c, q)
    \/ \E tokens \in Usage : Reconcile(c, tokens)
    \/ CallFails(c)

Next == Elapse \/ Terminate \/ \E c \in Call : CallStep(c)

Spec == Init /\ [][Next]_vars

(* snapshot().termination_reason, by which the run decides its status *)
ReportedReason ==
    IF terminationReason # NoReason THEN terminationReason
    ELSE reviewPhaseDenied

CallState == {"unused", "refused", "reserved", "settled", "failed"}
Granted == {c \in Call : callState[c] \in {"reserved", "settled", "failed"}}

----------------------------------------------------------------------------
(* Properties                                                              *)

(* The ledger's fields and its callers' have the types the code gives      *)
(* them; a termination reason is always a BudgetTerminationReason.         *)
TypeOK ==
    /\ providerCalls \in Nat /\ reviewCalls \in Nat /\ retryAttempts \in Nat
    /\ used \in Amounts
    /\ byModel \in [Model -> Amounts]
    /\ terminationReason \in BudgetTerminationReason \cup {NoReason}
    /\ reviewPhaseDenied \in {NoReason, "max_provider_calls"}
    /\ elapsed \in BOOLEAN
    /\ callState \in [Call -> CallState]
    /\ request \in [Call -> Request \cup {NoRequest}]
    /\ \A c \in Call : callState[c] # "unused" => request[c] \in Request
    /\ charge \in [Call -> Amounts]
    /\ overrun \in Amounts

(* However reservations, answers and failures interleave, every total the  *)
(* run reports is the sum of what its calls are charged, per meter and per *)
(* model: no answer is counted beside its own estimate, no estimate is     *)
(* given back twice, and reconcile's max(0, ...) never acts.               *)
TotalOf(f, S) == MapThenSumSet(LAMBDA x : f[x], S)
ChargedTo(calls, m) == TotalOf([c \in calls |-> charge[c][m]], calls)
LedgerExact ==
    /\ providerCalls = Cardinality(Granted)
    /\ reviewCalls =
         Cardinality({c \in Granted : ~request[c].verification})
    /\ retryAttempts = Cardinality({c \in Granted : request[c].is_retry})
    /\ \A m \in Meter : used[m] = ChargedTo(Granted, m)
    /\ \A mdl \in Model, m \in Meter :
         byModel[mdl][m] =
             ChargedTo({c \in Granted : request[c].model = mdl}, m)

(* Concurrent calls never overspend: every counter stays within its        *)
(* ceiling, and tokens and money exceed theirs by no more than the usage   *)
(* that providers reported beyond the reserved estimates.                  *)
CeilingHeld ==
    /\ providerCalls <= MaxProviderCalls
    /\ reviewCalls <= MaxReviewCalls
    /\ retryAttempts <= MaxRetries
    /\ \A m \in Meter :
         Limit[m] # NoLimit => used[m] <= Limit[m] + overrun[m]

(* A run whose ledger refused a call reports a termination reason, also    *)
(* when the refusal did not stick: it can never end as a clean review.     *)
RefusalIsReported ==
    (\E c \in Call : callState[c] = "refused") => ReportedReason # NoReason

(* The ledger is terminated for lack of provider calls only when           *)
(* verification has had the calls reserved for it: review-phase calls,     *)
(* refused ones included, cannot use up a critic's calls.                  *)
ReserveIsKept ==
    terminationReason = "max_provider_calls" =>
        providerCalls - reviewCalls >= MaxProviderCalls - MaxReviewCalls

=============================================================================
