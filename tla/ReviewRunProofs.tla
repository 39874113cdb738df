-------------------------- MODULE ReviewRunProofs --------------------------
(***************************************************************************)
(* What a review run guarantees for any number of candidates and roles,    *)
(* any estimates, usage, limits and retries, under either strategy: it     *)
(* uses the ledger as ReviewBudget prescribes, its pool is exact and kept  *)
(* within its ceiling, a call the ledger refused publishes nothing and, as *)
(* the time limit, keeps it from ending as a success; and escalations of   *)
(* the single pass only add, and can be paid for when they are planned.    *)
(*                                                                         *)
(* What is known of the ledger is not proved again: Book is ReviewBudget   *)
(* with its theorems, under the substitution that makes it Ledger.  What   *)
(* the strategies share comes first: jobs, the pool, critics, the end of a *)
(* run.                                                                    *)
(***************************************************************************)
EXTENDS SpecialistReview, SinglePass, FiniteSetTheorems, SequenceTheorems, TLAPS

Book == INSTANCE ReviewBudgetProofs WITH
    Call            <- Job \X (1..(RetryLimit + 2)),
    Model           <- {"model"},
    Unpriced        <- "unpriced",
    Rate            <- [m \in {"model"} |-> "unpriced"],
    NoLimit         <- -1,
    Limit           <- [m \in {"input_tokens", "output_tokens", "cost"} |->
                          IF m = "input_tokens" THEN MaxTotalInput
                          ELSE IF m = "output_tokens" THEN 1 ELSE -1],
    TierTotal       <- MaxCalls,
    TierReserve     <- CriticCalls,
    RepositoryCalls <- MaxCalls,
    MaxRetries      <- MaxRetryAttempts,
    Estimate        <- {TokenCounts(InputEstimate[j]) : j \in Job},
    Usage           <- {TokenCounts(n) : n \in InputUsage}

(* The run's own limits satisfy what the ledger assumes of its ceilings. *)
LEMMA LedgerAssumption == Book!BudgetAssumption
<1>1. \A n \in Nat : TokenCounts(n) \in Book!Counts
  BY DEF TokenCounts, Book!Counts, Book!Token
<1>2. \A j \in Job : TokenCounts(InputEstimate[j]) \in Book!Counts
  BY <1>1, JobAssumption DEF JobAssumption
<1>3. \A n \in InputUsage : TokenCounts(n) \in Book!Counts
  BY <1>1, JobAssumption DEF JobAssumption
<1>4. [m \in {"input_tokens", "output_tokens", "cost"} |->
         IF m = "input_tokens" THEN MaxTotalInput
         ELSE IF m = "output_tokens" THEN 1 ELSE -1]
        \in [Book!Meter -> Nat \cup {-1}]
  BY JobAssumption DEF JobAssumption, Book!Meter, Book!Token
<1> QED
  BY <1>2, <1>3, <1>4, JobAssumption DEF JobAssumption, Book!BudgetAssumption

(* Ledger and Book are the same specification. *)
LEMMA SameInit == Ledger!Init <=> Book!Init
BY DEF Ledger!Init, Book!Init, Ledger!Nothing, Book!Nothing,
       Ledger!Meter, Book!Meter, Ledger!Token, Book!Token,
       Ledger!NoReason, Book!NoReason
LEMMA SameVars == Ledger!vars = Book!vars
BY DEF Ledger!vars, Book!vars, Ledger!counterVars, Book!counterVars,
       Ledger!reasonVars, Book!reasonVars, Ledger!callVars, Book!callVars
LEMMA SameReason ==
    Ledger!ReportedReason = Book!ReportedReason /\ Ledger!NoReason = Book!NoReason
BY DEF Ledger!ReportedReason, Book!ReportedReason, Ledger!NoReason, Book!NoReason
LEMMA SameElapse == Ledger!Elapse <=> Book!Elapse
BY DEF Ledger!Elapse, Book!Elapse, Ledger!counterVars, Book!counterVars,
       Ledger!reasonVars, Book!reasonVars, Ledger!callVars, Book!callVars
LEMMA SameTerminate == Ledger!Terminate <=> Book!Terminate
BY DEF Ledger!Terminate, Book!Terminate, Ledger!counterVars, Book!counterVars,
       Ledger!NoReason, Book!NoReason, Ledger!callVars, Book!callVars
LEMMA SameFails ==
    ASSUME NEW call PROVE Ledger!CallFails(call) <=> Book!CallFails(call)
BY DEF Ledger!CallFails, Book!CallFails, Ledger!counterVars, Book!counterVars,
       Ledger!reasonVars, Book!reasonVars
LEMMA SameReconcile ==
    ASSUME NEW call, NEW counts
    PROVE  Ledger!Reconcile(call, counts) <=> Book!Reconcile(call, counts)
BY DEF Ledger!Reconcile, Book!Reconcile, Ledger!counterVars, Book!counterVars,
       Ledger!AmountsOf, Book!AmountsOf, Ledger!Cost, Book!Cost,
       Ledger!Replaced, Book!Replaced, Ledger!ReasonAfter, Book!ReasonAfter,
       Ledger!Reached, Book!Reached, Ledger!Larger, Book!Larger,
       Ledger!Meter, Book!Meter, Ledger!Token, Book!Token,
       Ledger!NoReason, Book!NoReason
LEMMA SameReserve ==
    ASSUME NEW call, NEW q
    PROVE  Ledger!ReserveCall(call, q) <=> Book!ReserveCall(call, q)
BY DEF Ledger!ReserveCall, Book!ReserveCall, Ledger!counterVars, Book!counterVars,
       Ledger!reasonVars, Book!reasonVars,
       Ledger!RefuseTerminated, Book!RefuseTerminated, Ledger!Deny, Book!Deny,
       Ledger!DenyReviewPhase, Book!DenyReviewPhase, Ledger!Grant, Book!Grant,
       Ledger!Refused, Book!Refused, Ledger!FailsFirst, Book!FailsFirst,
       Ledger!PassesAllChecks, Book!PassesAllChecks, Ledger!Fails, Book!Fails,
       Ledger!CheckOrder, Book!CheckOrder, Ledger!Passes, Book!Passes,
       Ledger!ReviewPhaseFull, Book!ReviewPhaseFull,
       Ledger!MaxReviewCalls, Book!MaxReviewCalls,
       Ledger!MaxProviderCalls, Book!MaxProviderCalls,
       Ledger!ReviewCallBudget, Book!ReviewCallBudget,
       Ledger!Smaller, Book!Smaller, Ledger!Larger, Book!Larger,
       Ledger!BudgetTerminationReason, Book!BudgetTerminationReason,
       Ledger!Added, Book!Added, Ledger!AmountsOf, Book!AmountsOf,
       Ledger!Cost, Book!Cost, Ledger!NoReason, Book!NoReason,
       Ledger!Meter, Book!Meter, Ledger!Token, Book!Token

LEMMA SameTotal ==
    ASSUME NEW f, NEW S PROVE TotalOf(f, S) = Book!TotalOf(f, S)
<1>1. TotalOf(f, S) = Book!SumFn(f, S)[S]
  BY DEF TotalOf, MapThenSumSet, MapThenFoldSet,
         Book!SumFn, Book!IsSum, Book!First
<1> QED BY <1>1, Book!TotalIsFold, LedgerAssumption

LEMMA SameFinite == ASSUME NEW S PROVE IsFiniteSet(S) <=> Book!IsFiniteSet(S)
BY DEF IsFiniteSet, Book!IsFiniteSet

(* What ReviewBudgetProofs knows of sums. *)
LEMMA TotalNat ==
    ASSUME NEW S, IsFiniteSet(S), NEW f, \A x \in S : f[x] \in Nat
    PROVE  TotalOf(f, S) \in Nat
BY SameFinite, SameTotal, Book!TotalOfNat, LedgerAssumption
LEMMA TotalInt ==
    ASSUME NEW S, IsFiniteSet(S), NEW f, \A x \in S : f[x] \in Int
    PROVE  TotalOf(f, S) \in Int
BY SameFinite, SameTotal, Book!TotalOfInt, LedgerAssumption
LEMMA TotalSame ==
    ASSUME NEW S, IsFiniteSet(S), NEW f, NEW g, \A x \in S : f[x] = g[x]
    PROVE  TotalOf(f, S) = TotalOf(g, S)
BY SameFinite, SameTotal, Book!TotalsAgree, LedgerAssumption
LEMMA TotalSum ==
    ASSUME NEW S, IsFiniteSet(S), NEW f, NEW g, NEW h,
           \A x \in S : f[x] \in Int /\ g[x] \in Int /\ h[x] = f[x] + g[x]
    PROVE  TotalOf(h, S) = TotalOf(f, S) + TotalOf(g, S)
BY SameFinite, SameTotal, Book!TotalAdds, LedgerAssumption
LEMMA TotalLess ==
    ASSUME NEW S, IsFiniteSet(S), NEW f, NEW g,
           \A x \in S : f[x] \in Int /\ g[x] \in Int /\ f[x] <= g[x]
    PROVE  TotalOf(f, S) <= TotalOf(g, S)
BY SameFinite, SameTotal, Book!TotalMonotone, LedgerAssumption
LEMMA TotalPart ==
    ASSUME NEW S, IsFiniteSet(S), NEW A \in SUBSET S, NEW f, NEW g,
           \A x \in S : f[x] \in Int /\ g[x] = IF x \in A THEN f[x] ELSE 0
    PROVE  TotalOf(g, S) = TotalOf(f, A)
BY SameFinite, SameTotal, Book!TotalOfPart, LedgerAssumption
LEMMA TotalSingle ==
    ASSUME NEW f, NEW x, f[x] \in Nat PROVE TotalOf(f, {x}) = f[x]
<1>1. PICK S : S = {x}
  OBVIOUS
<1>2. IsFiniteSet(S) /\ x \in S /\ (\A y \in S : f[y] \in Int) /\ S \ {x} = {}
  <2>1. IsFiniteSet(S)
    BY <1>1, FS_Singleton
  <2>2. x \in S /\ (\A y \in S : f[y] \in Int) /\ S \ {x} = {}
    BY <1>1
  <2> QED BY <2>1, <2>2
<1>3. Book!TotalOf(f, S) = f[x] + Book!TotalOf(f, {})
  BY <1>2, SameFinite, Book!TotalOfOne, LedgerAssumption
<1>4. Book!TotalOf(f, {}) = 0
  BY Book!TotalOfNone, LedgerAssumption
<1> QED BY <1>1, <1>3, <1>4, SameTotal
LEMMA TotalChange ==
    ASSUME NEW S, IsFiniteSet(S), NEW x \in S, NEW f, NEW g,
           \A y \in S : f[y] \in Nat /\ g[y] \in Nat,
           \A y \in S \ {x} : f[y] = g[y]
    PROVE  \E rest \in Nat : /\ TotalOf(f, S) = rest + f[x]
                             /\ TotalOf(g, S) = rest + g[x]
BY SameFinite, SameTotal, Book!TotalChanges, LedgerAssumption

(* A run has finitely many jobs. *)
LEMMA JobsAreFinite == IsFiniteSet(Job)
<1> DEFINE Kinds == {"review", "critique"}
           Pairs == (Candidate \X Role) \X Kinds
           f == [p \in Pairs |-> <<p[1][1], p[1][2], p[2]>>]
<1>1. IsFiniteSet(Kinds)
  <2>1. IsFiniteSet({"review"})
    BY FS_Singleton
  <2>2. IsFiniteSet({"review"} \cup {"critique"})
    BY <2>1, FS_AddElement
  <2>3. Kinds = {"review"} \cup {"critique"}
    OBVIOUS
  <2> QED BY <2>2, <2>3
<1>2. IsFiniteSet(Pairs)
  <2>1. IsFiniteSet(Candidate \X Role)
    BY FS_Product, RunAssumption DEF RunAssumption
  <2> HIDE DEF Kinds
  <2> QED BY <1>1, <2>1, FS_Product
<1>3. f \in Surjection(Pairs, Job)
  <2>1. Job = Candidate \X Role \X Kinds
    BY RunAssumption DEF RunAssumption, RunJobs
  <2>2. f \in [Pairs -> Job]
    BY <2>1
  <2>3. ASSUME NEW j \in Job PROVE \E p \in Pairs : f[p] = j
    <3>1. PICK c \in Candidate, r \in Role, k \in Kinds : j = <<c, r, k>>
      BY <2>1
    <3>2. <<<<c, r>>, k>> \in Pairs /\ f[<<<<c, r>>, k>>] = <<c, r, k>>
      OBVIOUS
    <3> QED BY <3>1, <3>2
  <2> QED BY <2>2, <2>3 DEF Surjection
<1> QED BY <1>2, <1>3, FS_Surjection

-----------------------------------------------------------------------------
(* The parts of the invariant.                                             *)

(* The jobs whose estimates are in the pool: reviews under way, and the    *)
(* critics that are held.                                                  *)
Holding == underWay \cup HeldCritics

(* What a job contributes to the pool, ... *)
Share ==
    [j \in Job |-> (IF j \in Holding THEN InputEstimate[j]
                    ELSE IF job[j] = "ok" THEN tokens[j] ELSE 0)
                   + (IF job[j] \in HoldsAgain THEN InputEstimate[j] ELSE 0)]

(* ... and what it will add to it when its estimate is settled.  Usage in  *)
(* excess of an estimate is counted as overrun when the answer arrives,    *)
(* and enters the pool only when the job is settled.                       *)
Answered(j) == job[j] = "ok" \/ (job[j] = "release" /\ ending[j] = "ok")
Gain ==
    [j \in Job |-> IF j \in Holding /\ Answered(j)
                   THEN Floor(tokens[j] - InputEstimate[j]) ELSE 0]

PoolIsShared ==
    phase = "running" =>
        /\ pool = TotalOf(Share, Job)
        /\ TotalOf(Gain, Job) <= overrun["input_tokens"]
        /\ pool + TotalOf(Gain, Job) <= MaxTotalInput + overrun["input_tokens"]

(* A job at work has its estimate in the pool, and critics start when      *)
(* their candidate's verification does.                                    *)
Busy == JobState \ ({"idle"} \cup Ended)
Stages ==
    phase = "running" =>
        /\ \A j \in Job : job[j] \in Busy => j \in Holding
        /\ \A c \in Candidate, r \in Role :
             cand[c] \notin {"verifying", "raised"} \cup Complete => job[Critic(c, r)] = "idle"

(* Nothing is verified before its candidate is complete. *)
NotYetVerified ==
    \A c \in Candidate, r \in Role :
        cand[c] \notin Complete => finding[<<c, r>>] \notin {"verified", "unverified"}

(* What is published was verified, or its critic failed under fail_open.   *)
AnsweredOrFailed ==
    \A x \in Published :
        finding[x] # "accepted" =>
            \/ job[Critic(x[1], x[2])] = "ok"
            \/ job[Critic(x[1], x[2])] = "failed" /\ FailurePolicy = "fail_open"

(* A job's attempts are calls of the ledger: the present one is charged    *)
(* the job's estimate, and the one before a retry, a hop or a failure is   *)
(* over.                                                                   *)
Spent(j) ==
    attempts[j] > 0 /\ callState[<<j, attempts[j]>>] \in {"failed", "settled"}
Tried(j) ==
    /\ job[j] = "idle" => attempts[j] = 0
    /\ job[j] = "reserve" => attempts[j] <= RetryLimit
    /\ Calling(j) =>
         /\ attempts[j] > 0
         /\ charge[<<j, attempts[j]>>]["input_tokens"] = InputEstimate[j]
    /\ job[j] = "reserve" => attempts[j] = 0 \/ Spent(j)
    /\ job[j] \in {"hop", "hop_reserve", "failed"} => Spent(j)
    /\ job[j] = "release" /\ ending[j] = "failed" => Spent(j)
Attempted == \A j \in Job : Tried(j)

(* A job is refused exactly when the ledger refused one of its calls, and  *)
(* the status is decided at the end.                                       *)
Denied(j) == job[j] = "refused" \/ (job[j] = "release" /\ ending[j] = "refused")
RefusedByLedger ==
    /\ phase \notin Over => status = "running"
    /\ \A j \in Job : Denied(j) <=> ~NeverRefused(j)

LEMMA EstimateType == InputEstimate \in [Job -> Nat] /\ InputUsage \subseteq Nat
BY JobAssumption DEF JobAssumption

LEMMA ShareType ==
    ASSUME RunTypeOK
    PROVE  Share \in [Job -> Nat] /\ Gain \in [Job -> Nat]
<1>1. \A j \in Job : tokens[j] \in Nat
  <2>1. \A j \in Job : tokens[j] \in InputUsage \cup {0}
    BY DEF RunTypeOK
  <2>2. InputUsage \cup {0} \subseteq Nat
    BY EstimateType
  <2> QED BY <2>1, <2>2
<1>2. \A j \in Job : Share[j] \in Nat
  BY <1>1, EstimateType DEF Share
<1>3. \A j \in Job : Gain[j] \in Nat
  BY <1>1, EstimateType DEF Gain, Floor
<1> QED BY <1>2, <1>3 DEF Share, Gain

-----------------------------------------------------------------------------
(* What the ledger's steps do to the calls.                                *)
Calls == Job \X (1..(RetryLimit + 2))
CallOf(j) == [model |-> "model", tokens |-> TokenCounts(InputEstimate[j]),
              is_retry |-> attempts[j] > 0, verification |-> j \in Critique]

LEMMA InputAmount ==
    ASSUME NEW n \in Nat
    PROVE  Book!AmountsOf("model", TokenCounts(n))["input_tokens"] = n
BY DEF Book!AmountsOf, Book!Meter, Book!Token, TokenCounts

LEMMA ReserveEffect ==
    ASSUME Book!TypeOK, NEW j \in Job, NEW call \in Calls,
           Ledger!ReserveCall(call, CallOf(j))
    PROVE  /\ callState[call] = "unused"
           /\ overrun' = overrun
           /\ \/ /\ callState' = [callState EXCEPT ![call] = "refused"]
                 /\ charge' = charge
              \/ /\ callState' = [callState EXCEPT ![call] = "reserved"]
                 /\ charge' = [charge EXCEPT ![call] =
                      Book!AmountsOf("model", TokenCounts(InputEstimate[j]))]
<1>1. Book!ReserveCall(call, CallOf(j))
  BY SameReserve
<1>2. callState[call] = "unused"
  BY <1>1 DEF Book!ReserveCall
<1>3. CASE Book!Grant(call, CallOf(j))
  BY <1>2, <1>3 DEF Book!Grant, CallOf
<1>4. CASE Book!Refused(call, CallOf(j))
  BY <1>2, <1>4 DEF Book!Refused
<1> QED
  BY <1>1, <1>3, <1>4 DEF Book!ReserveCall, Book!RefuseTerminated, Book!Deny,
                          Book!DenyReviewPhase

LEMMA ReconcileEffect ==
    ASSUME Book!TypeOK, NEW call \in Calls, NEW n \in InputUsage,
           Ledger!Reconcile(call, TokenCounts(n))
    PROVE  /\ callState[call] = "reserved"
           /\ callState' = [callState EXCEPT ![call] = "settled"]
           /\ overrun'["input_tokens"] = overrun["input_tokens"]
                + Floor(n - charge[call]["input_tokens"])
           /\ \A other \in Calls \ {call} : charge'[other] = charge[other]
<1>1. Book!Reconcile(call, TokenCounts(n))
  BY SameReconcile
<1>2. callState[call] = "reserved"
  BY <1>1 DEF Book!Reconcile
<1>3. request[call].model = "model"
  BY <1>2 DEF Book!TypeOK, Book!Request, Calls
<1>4. charge[call]["input_tokens"] \in Nat /\ n \in Nat
  BY EstimateType DEF Book!TypeOK, Book!Amounts, Book!Meter, Book!Token, Calls
<1>5. overrun'["input_tokens"] = overrun["input_tokens"]
        + Book!Larger(0, n - charge[call]["input_tokens"])
  <2>1. "input_tokens" \in Book!Meter
    BY DEF Book!Meter, Book!Token
  <2>2. Book!AmountsOf("model", TokenCounts(n))["input_tokens"] = n
    BY <1>4, InputAmount
  <2> QED BY <1>1, <1>3, <2>1, <2>2 DEF Book!Reconcile
<1>6. Book!Larger(0, n - charge[call]["input_tokens"])
        = Floor(n - charge[call]["input_tokens"])
  BY <1>4 DEF Book!Larger, Floor
<1>7. /\ callState' = [callState EXCEPT ![call] = "settled"]
      /\ \A other \in Calls \ {call} : charge'[other] = charge[other]
  BY <1>1 DEF Book!Reconcile, Book!TypeOK, Calls
<1> QED BY <1>2, <1>5, <1>6, <1>7

LEMMA FailEffect ==
    ASSUME Book!TypeOK, NEW call \in Calls, Ledger!CallFails(call)
    PROVE  /\ callState[call] = "reserved"
           /\ callState' = [callState EXCEPT ![call] = "failed"]
           /\ charge' = charge /\ overrun' = overrun
BY SameFails DEF Book!CallFails

-----------------------------------------------------------------------------
(* The pool, when one job's share changes.                                 *)
OverrunType == overrun["input_tokens"] \in Nat

LEMMA SharesAreNat ==
    ASSUME RunTypeOK
    PROVE  TotalOf(Share, Job) \in Nat /\ TotalOf(Gain, Job) \in Nat
<1>1. \A j \in Job : Share[j] \in Nat /\ Gain[j] \in Nat
  BY ShareType
<1> QED BY <1>1, JobsAreFinite, TotalNat

(* Two families of amounts that differ at one job. *)
LEMMA OneJobDiffers ==
    ASSUME NEW f \in [Job -> Nat], NEW g \in [Job -> Nat], NEW j \in Job,
           \A k \in Job \ {j} : g[k] = f[k]
    PROVE  \E rest \in Nat : /\ TotalOf(f, Job) = rest + f[j]
                             /\ TotalOf(g, Job) = rest + g[j]
<1>1. \A k \in Job : f[k] \in Nat /\ g[k] \in Nat
  OBVIOUS
<1>2. \A k \in Job \ {j} : f[k] = g[k]
  OBVIOUS
<1> QED BY <1>1, <1>2, JobsAreFinite, TotalChange

LEMMA ShareInPool ==
    ASSUME PoolIsShared, phase = "running", RunTypeOK, NEW j \in Job
    PROVE  Share[j] <= pool
<1>1. PICK rest \in Nat : TotalOf(Share, Job) = rest + Share[j]
  BY ShareType, OneJobDiffers
<1>2. Share[j] \in Nat
  BY ShareType
<1> QED BY <1>1, <1>2 DEF PoolIsShared

LEMMA PoolOfOneJob ==
    ASSUME PoolIsShared, phase = "running", RunTypeOK, RunTypeOK',
           OverrunType, OverrunType', NEW j \in Job,
           \A k \in Job \ {j} : Share'[k] = Share[k] /\ Gain'[k] = Gain[k],
           pool' = pool + (Share'[j] - Share[j]),
           Gain'[j] - Gain[j]
             <= overrun'["input_tokens"] - overrun["input_tokens"],
           pool' <= pool \/ pool' <= MaxTotalInput
    PROVE  PoolIsShared'
<1>1. /\ Share \in [Job -> Nat] /\ Gain \in [Job -> Nat]
      /\ Share' \in [Job -> Nat] /\ Gain' \in [Job -> Nat]
  <2>1. (Share \in [Job -> Nat] /\ Gain \in [Job -> Nat])'
    BY ShareType, PTL
  <2> QED BY <2>1, ShareType
<1>2. PICK rest \in Nat : /\ TotalOf(Share, Job) = rest + Share[j]
                          /\ TotalOf(Share', Job) = rest + Share'[j]
  BY <1>1, OneJobDiffers
<1>3. PICK others \in Nat : /\ TotalOf(Gain, Job) = others + Gain[j]
                            /\ TotalOf(Gain', Job) = others + Gain'[j]
  BY <1>1, OneJobDiffers
<1>4. /\ pool = rest + Share[j]
      /\ others + Gain[j] <= overrun["input_tokens"]
      /\ pool + (others + Gain[j]) <= MaxTotalInput + overrun["input_tokens"]
  BY <1>2, <1>3 DEF PoolIsShared
<1>5. /\ Share[j] \in Nat /\ Share'[j] \in Nat
      /\ Gain[j] \in Nat /\ Gain'[j] \in Nat /\ MaxTotalInput \in Nat
  BY <1>1, JobAssumption DEF JobAssumption
<1>6. pool' = rest + Share'[j]
  BY <1>2, <1>4, <1>5
<1>7. others + Gain'[j] <= overrun'["input_tokens"]
  BY <1>3, <1>4, <1>5 DEF OverrunType
<1>8. pool' + (others + Gain'[j])
        <= MaxTotalInput + overrun'["input_tokens"]
  BY <1>3, <1>4, <1>5, <1>6, <1>7 DEF OverrunType
<1> QED BY <1>2, <1>3, <1>6, <1>7, <1>8 DEF PoolIsShared

(* While stages stand still, a job's shares depend on the job alone. *)
LEMMA SharesElsewhere ==
    ASSUME UNCHANGED <<cand, finding, underWay>>, NEW j \in Job,
           \A k \in Job \ {j} : /\ job'[k] = job[k] /\ tokens'[k] = tokens[k]
                                /\ ending'[k] = ending[k]
    PROVE  /\ Holding' = Holding
           /\ \A k \in Job \ {j} : Share'[k] = Share[k] /\ Gain'[k] = Gain[k]
<1>1. Holding' = Holding
  BY DEF Holding, HeldCritics, CriticsOf, Critic
<1>2. ASSUME NEW k \in Job \ {j} PROVE Share'[k] = Share[k]
  BY <1>1 DEF Share
<1>3. ASSUME NEW k \in Job \ {j} PROVE Gain'[k] = Gain[k]
  BY <1>1 DEF Gain, Answered
<1> QED BY <1>1, <1>2, <1>3

-----------------------------------------------------------------------------
(* The steps of a job.                                                     *)
JobInv ==
    RunTypeOK /\ Book!IInv /\ Attempted /\ RefusedByLedger
      /\ PoolIsShared /\ Stages

(* A step of j leaves the other jobs alone, ... *)
Moved(j) ==
    /\ job[j] \in Busy /\ job'[j] # "idle"
    /\ \A k \in Job \ {j} : /\ job'[k] = job[k] /\ tokens'[k] = tokens[k]
                            /\ ending'[k] = ending[k] /\ attempts'[k] = attempts[k]

(* ... and so does its call leave the other calls; a refused call stays    *)
(* refused.                                                                *)
Touched(call) ==
    /\ callState[call] # "refused"
    /\ \A other \in Calls \ {call} : /\ callState'[other] = callState[other]
                                     /\ charge'[other] = charge[other]

LEMMA AttemptedElsewhere ==
    ASSUME RunTypeOK, Attempted, NEW j \in Job, Moved(j),
           NEW call \in Calls, call[1] = j, Touched(call)
    PROVE  \A k \in Job \ {j} : Tried(k)'
<1> SUFFICES ASSUME NEW k \in Job \ {j} PROVE Tried(k)'
  OBVIOUS
<1>1. job'[k] = job[k] /\ attempts'[k] = attempts[k] /\ ending'[k] = ending[k]
  BY DEF Moved
<1>2. Calling(k)' <=> Calling(k)
  BY <1>1 DEF Calling
<1>3. attempts[k] > 0 =>
        <<k, attempts[k]>> \in Calls /\ <<k, attempts[k]>> # call
  <2>1. attempts[k] \in 0..(RetryLimit + 2)
    BY DEF RunTypeOK
  <2> QED BY <2>1, JobAssumption DEF JobAssumption, Calls
<1>4. attempts[k] > 0 =>
        /\ callState'[<<k, attempts[k]>>] = callState[<<k, attempts[k]>>]
        /\ charge'[<<k, attempts[k]>>] = charge[<<k, attempts[k]>>]
  BY <1>3 DEF Touched
<1>5. attempts[k] \in 0..(RetryLimit + 2) /\ Tried(k)
  BY DEF RunTypeOK, Attempted
<1> QED BY <1>1, <1>2, <1>4, <1>5 DEF Tried, Spent

LEMMA RefusedElsewhere ==
    ASSUME RefusedByLedger, NEW j \in Job, Moved(j), UNCHANGED <<phase, status>>,
           NEW call \in Calls, call[1] = j, Touched(call), ~Denied(j),
           Denied(j)' <=> callState'[call] = "refused"
    PROVE  RefusedByLedger'
<1>1. ASSUME NEW k \in Job PROVE Denied(k)' <=> ~NeverRefused(k)'
  <2>1. Denied(k) <=> ~NeverRefused(k)
    BY DEF RefusedByLedger
  <2>2. CASE k # j
    <3>1. \A n \in 1..(RetryLimit + 2) : callState'[<<k, n>>] = callState[<<k, n>>]
      BY <2>2 DEF Touched, Calls
    <3>2. Denied(k)' <=> Denied(k)
      BY <2>2 DEF Moved, Denied
    <3> QED BY <2>1, <3>1, <3>2 DEF NeverRefused
  <2>3. CASE k = j
    <3>1. PICK n \in 1..(RetryLimit + 2) : call = <<j, n>>
      BY DEF Calls
    <3>2. \A m \in 1..(RetryLimit + 2) : callState[<<j, m>>] # "refused"
      BY <2>1, <2>3 DEF NeverRefused
    <3>3. \A m \in 1..(RetryLimit + 2) : m # n => callState'[<<j, m>>] # "refused"
      BY <3>1, <3>2 DEF Touched, Calls
    <3>4. (\E m \in 1..(RetryLimit + 2) : callState'[<<j, m>>] = "refused")
            <=> callState'[call] = "refused"
      BY <3>1, <3>3
    <3> QED BY <2>3, <3>4 DEF NeverRefused
  <2> QED BY <2>2, <2>3
<1> QED BY <1>1 DEF RefusedByLedger

LEMMA ReserveKeeps ==
    ASSUME JobInv, phase = "running", NEW j \in Job, Reserve(j), UNCHANGED runVars
    PROVE  /\ RunTypeOK' /\ Attempted' /\ RefusedByLedger' /\ PoolIsShared'
           /\ Moved(j) /\ Ledger!Next
<1> DEFINE call == <<j, attempts[j] + 1>>
<1>0. RunTypeOK /\ Book!TypeOK /\ Attempted /\ RefusedByLedger /\ PoolIsShared
  BY DEF JobInv, Book!IInv
<1>1. job[j] \in {"reserve", "hop_reserve"} /\ job[j] \in Busy
  BY <1>0 DEF Reserve, Busy, JobState, Ended, Handled
<1>2. attempts[j] \in Nat /\ attempts[j] <= RetryLimit + 1 /\ RetryLimit \in Nat
      /\ (job[j] = "reserve" => attempts[j] <= RetryLimit)
  <2>1. attempts[j] \in 0..(RetryLimit + 2)
    BY <1>0 DEF RunTypeOK
  <2>2. job[j] = "reserve" => attempts[j] <= RetryLimit
    BY <1>0 DEF Attempted, Tried
  <2>3. job[j] = "hop_reserve" => attempts[j] <= RetryLimit + 1
    BY <1>0 DEF RunTypeOK
  <2> QED BY <1>1, <2>1, <2>2, <2>3, JobAssumption DEF JobAssumption
<1>3. call \in Calls /\ call[1] = j
  BY <1>2 DEF Calls
<1>4. Ledger!ReserveCall(call, CallOf(j))
  BY DEF Reserve, CallOf
<1> HIDE DEF call
<1>5. /\ callState[call] = "unused" /\ overrun' = overrun
      /\ \/ /\ callState' = [callState EXCEPT ![call] = "refused"]
            /\ charge' = charge
         \/ /\ callState' = [callState EXCEPT ![call] = "reserved"]
            /\ charge' = [charge EXCEPT ![call] =
                 Book!AmountsOf("model", TokenCounts(InputEstimate[j]))]
  BY <1>0, <1>3, <1>4, ReserveEffect
<1>6. callState \in [Calls -> Book!CallState] /\ charge \in [Calls -> Book!Amounts]
  BY <1>0 DEF Book!TypeOK, Calls
<1>7. Touched(call)
  BY <1>3, <1>5, <1>6 DEF Touched
<1>8. Ledger!Next
  <2>1. CallOf(j) \in Ledger!Requests
    BY DEF CallOf, Ledger!Requests
  <2>2. Ledger!MayAsk(CallOf(j))
    <3>1. CASE attempts[j] = 0
      <4>1. ~(attempts[j] > 0)
        BY <3>1
      <4>2. CallOf(j).is_retry = (attempts[j] > 0)
        BY DEF CallOf
      <4> QED BY <4>1, <4>2 DEF Ledger!MayAsk
    <3>2. CASE attempts[j] > 0
      <4>1. callState[<<j, attempts[j]>>] \in {"failed", "settled"}
        BY <1>0, <1>1, <3>2 DEF Attempted, Tried, Spent
      <4>2. <<j, attempts[j]>> \in Job \X (1..(RetryLimit + 2))
        BY <1>2, <3>2
      <4> QED BY <4>1, <4>2 DEF Ledger!MayAsk
    <3> QED BY <1>2, <3>1, <3>2
  <2> QED BY <1>3, <1>4, <2>1, <2>2 DEF Ledger!Next, Ledger!CallStep, Calls
<1>9. CASE callState'[call] = "reserved"
  <2>1. /\ attempts' = [attempts EXCEPT ![j] = @ + 1]
        /\ job' = [job EXCEPT ![j] = IF @ = "reserve" THEN "calling"
                                     ELSE "hop_calling"]
        /\ UNCHANGED <<ending, tokens, pool>>
    BY <1>9 DEF Reserve, call
  <2>2. charge' = [charge EXCEPT ![call] =
                 Book!AmountsOf("model", TokenCounts(InputEstimate[j]))]
    BY <1>3, <1>5, <1>6, <1>9
  <2>3. job'[j] = IF job[j] = "reserve" THEN "calling" ELSE "hop_calling"
    BY <1>0, <2>1 DEF RunTypeOK
  <2>4. attempts'[j] = attempts[j] + 1
    BY <1>0, <2>1 DEF RunTypeOK
  <2>5. Moved(j)
    BY <1>0, <1>1, <2>1, <2>3 DEF Moved, RunTypeOK
  <2>6. RunTypeOK'
    <3>1. job' \in [Job -> JobState]
      BY <1>0, <2>1 DEF RunTypeOK, JobState
    <3>2. attempts' \in [Job -> 0..(RetryLimit + 2)]
      BY <1>0, <1>2, <2>1 DEF RunTypeOK
    <3>3. \A k \in Job : job'[k] \in {"calling", "hop", "hop_reserve"} =>
                           attempts'[k] <= RetryLimit + 1
      BY <1>0, <1>1, <1>2, <2>3, <2>4, <2>5 DEF RunTypeOK, Moved
    <3> QED BY <1>0, <2>1, <3>1, <3>2, <3>3 DEF RunTypeOK, runVars
  <2>7. Attempted'
    <3>1. charge'[<<j, attempts'[j]>>]["input_tokens"] = InputEstimate[j]
      BY <1>3, <1>6, <2>2, <2>4, InputAmount, EstimateType DEF call
    <3>2. attempts'[j] > 0
      BY <1>2, <2>4
    <3>3. Tried(j)'
      BY <2>3, <3>1, <3>2 DEF Tried
    <3>4. \A k \in Job \ {j} : Tried(k)'
      BY <1>0, <1>3, <1>7, <2>5, AttemptedElsewhere
    <3> QED BY <3>3, <3>4 DEF Attempted
  <2>8. RefusedByLedger'
    <3>1. ~Denied(j) /\ ~Denied(j)' /\ callState'[call] # "refused"
      BY <1>1, <1>9, <2>3 DEF Denied
    <3> QED BY <1>0, <1>3, <1>7, <2>5, <3>1, RefusedElsewhere DEF runVars
  <2>9. PoolIsShared'
    <3>1. /\ Holding' = Holding
          /\ \A k \in Job \ {j} : Share'[k] = Share[k] /\ Gain'[k] = Gain[k]
      BY <2>5, SharesElsewhere DEF Moved, runVars
    <3>2. Share'[j] = Share[j] /\ Gain'[j] = Gain[j]
      BY <1>1, <2>1, <2>3, <3>1 DEF Share, Gain, Answered, HoldsAgain
    <3>3. Share' = Share /\ Gain' = Gain
      BY <3>1, <3>2 DEF Share, Gain
    <3> QED BY <1>0, <1>5, <2>1, <3>3 DEF PoolIsShared, runVars
  <2> QED BY <1>8, <2>5, <2>6, <2>7, <2>8, <2>9
<1>10. CASE callState'[call] = "refused"
  <2>1. /\ Leave(j, "refused", "refused")
        /\ UNCHANGED <<attempts, tokens, pool>>
    BY <1>10 DEF Reserve, call
  <2>2. charge' = charge
    BY <1>3, <1>5, <1>6, <1>10
  <2>3. /\ job'[j] = IF job[j] = "hop_reserve" THEN "release" ELSE "refused"
        /\ ending'[j] = "refused"
    BY <1>0, <1>1, <2>1 DEF RunTypeOK, Leave
  <2>5. Moved(j)
    BY <1>0, <1>1, <2>1, <2>3 DEF Moved, RunTypeOK, Leave
  <2>6. RunTypeOK'
    <3>1. job' \in [Job -> JobState] /\ ending' \in [Job -> Ended]
      BY <1>0, <2>1 DEF RunTypeOK, JobState, Leave, Ended, Handled
    <3>3. \A k \in Job : job'[k] \in {"calling", "hop", "hop_reserve"} =>
                           attempts'[k] <= RetryLimit + 1
      BY <1>0, <1>1, <1>2, <2>1, <2>3, <2>5 DEF RunTypeOK, Moved
    <3> QED BY <1>0, <2>1, <3>1, <3>3 DEF RunTypeOK, runVars
  <2>7. Attempted'
    <3>1. Tried(j)'
      BY <1>1, <2>3 DEF Tried, Calling
    <3>2. \A k \in Job \ {j} : Tried(k)'
      BY <1>0, <1>3, <1>7, <2>5, AttemptedElsewhere
    <3> QED BY <3>1, <3>2 DEF Attempted
  <2>8. RefusedByLedger'
    <3>1. ~Denied(j) /\ Denied(j)'
      BY <1>1, <2>3 DEF Denied
    <3> QED BY <1>0, <1>3, <1>7, <1>10, <2>5, <3>1, RefusedElsewhere DEF runVars
  <2>9. PoolIsShared'
    <3>1. /\ Holding' = Holding
          /\ \A k \in Job \ {j} : Share'[k] = Share[k] /\ Gain'[k] = Gain[k]
      BY <2>5, SharesElsewhere DEF Moved, runVars
    <3>2. Share'[j] = Share[j] /\ Gain'[j] = Gain[j]
      BY <1>1, <2>1, <2>3, <3>1 DEF Share, Gain, Answered, HoldsAgain
    <3>3. Share' = Share /\ Gain' = Gain
      BY <3>1, <3>2 DEF Share, Gain
    <3> QED BY <1>0, <1>5, <2>1, <3>3 DEF PoolIsShared, runVars
  <2> QED BY <1>8, <2>5, <2>6, <2>7, <2>8, <2>9
<1> QED BY <1>9, <1>10 DEF Reserve, call

(* Every way a call of j can end, as far as the job is concerned. *)
LEMMA CallEndKeeps ==
    ASSUME JobInv, phase = "running", NEW j \in Job, Calling(j), UNCHANGED runVars,
           NEW primary \in {"ok", "hop", "failed", "reserve", "raised"},
           NEW outcome \in {"ok", "failed", "raised"}, Leave(j, primary, outcome),
           (primary = "ok") <=> (outcome = "ok"),
           primary = "reserve" => attempts[j] <= RetryLimit,
           UNCHANGED <<attempts, pool>>,
           NEW n, outcome = "ok" => n \in InputUsage,
           tokens' = IF outcome = "ok" THEN [tokens EXCEPT ![j] = n] ELSE tokens,
           Touched(<<j, attempts[j]>>),
           callState'[<<j, attempts[j]>>] \in {"failed", "settled"},
           OverrunType, OverrunType',
           overrun["input_tokens"] <= overrun'["input_tokens"],
           outcome = "ok" => overrun'["input_tokens"] =
               overrun["input_tokens"] + Floor(n - InputEstimate[j])
    PROVE  RunTypeOK' /\ Attempted' /\ RefusedByLedger' /\ PoolIsShared' /\ Moved(j)
<1> DEFINE call == <<j, attempts[j]>>
<1>0. RunTypeOK /\ Attempted /\ RefusedByLedger /\ PoolIsShared /\ Stages
  BY DEF JobInv
<1>1. job[j] \in {"calling", "hop_calling"} /\ job[j] \in Busy /\ j \in Holding
  BY <1>0 DEF Calling, Busy, JobState, Ended, Handled, Stages
<1>2. /\ attempts[j] \in 0..(RetryLimit + 2) /\ attempts[j] > 0 /\ RetryLimit \in Nat
      /\ job[j] = "calling" => attempts[j] <= RetryLimit + 1
  BY <1>0, <1>1, JobAssumption DEF RunTypeOK, Attempted, Tried, Calling, JobAssumption
<1>3. call \in Calls /\ call[1] = j
  BY <1>2 DEF Calls
<1>4. /\ job'[j] = IF job[j] = "hop_calling" THEN "release" ELSE primary
      /\ ending'[j] = outcome
      /\ job' \in [Job -> JobState] /\ ending' \in [Job -> Ended]
      /\ tokens' \in [Job -> InputUsage \cup {0}]
      /\ tokens'[j] = IF outcome = "ok" THEN n ELSE tokens[j]
  BY <1>0, <1>1 DEF RunTypeOK, Leave, JobState, Ended, Handled
<1>5. Moved(j)
  BY <1>0, <1>1, <1>4 DEF Moved, RunTypeOK, Leave
<1>6. RunTypeOK'
  <2>1. \A k \in Job : job'[k] \in {"calling", "hop", "hop_reserve"} =>
                         attempts'[k] <= RetryLimit + 1
    BY <1>0, <1>1, <1>2, <1>4, <1>5 DEF RunTypeOK, Moved
  <2> QED BY <1>0, <1>4, <2>1 DEF RunTypeOK, runVars
<1>7. Attempted'
  <2>1. /\ job'[j] = "idle" => attempts'[j] = 0
        /\ job'[j] = "reserve" => attempts'[j] <= RetryLimit
        /\ ~Calling(j)'
        /\ attempts'[j] > 0 /\ callState'[<<j, attempts'[j]>>] \in {"failed", "settled"}
    BY <1>1, <1>2, <1>4 DEF Calling
  <2>2. Tried(j)'
    BY <2>1 DEF Tried, Spent
  <2> HIDE DEF call
  <2>3. \A k \in Job \ {j} : Tried(k)'
    BY <1>0, <1>3, <1>5, AttemptedElsewhere DEF call
  <2> QED BY <2>2, <2>3 DEF Attempted
<1>8. RefusedByLedger'
  <2>1. ~Denied(j) /\ ~Denied(j)' /\ callState'[call] # "refused"
    BY <1>1, <1>4 DEF Denied
  <2> HIDE DEF call
  <2> QED BY <1>0, <1>3, <1>5, <2>1, RefusedElsewhere DEF runVars, call
<1>9. PoolIsShared'
  <2>1. /\ Holding' = Holding
        /\ \A k \in Job \ {j} : Share'[k] = Share[k] /\ Gain'[k] = Gain[k]
    BY <1>5, SharesElsewhere DEF Moved, runVars
  <2>2. Share'[j] = Share[j]
    BY <1>1, <1>4, <2>1 DEF Share, HoldsAgain
  <2>3. Gain[j] = 0
    BY <1>1 DEF Gain, Answered
  <2>4. Gain'[j] = IF outcome = "ok" THEN Floor(n - InputEstimate[j]) ELSE 0
    BY <1>1, <1>4, <2>1 DEF Gain, Answered
  <2>5. Gain'[j] - Gain[j] <= overrun'["input_tokens"] - overrun["input_tokens"]
    <3>1. InputEstimate[j] \in Nat /\ (outcome = "ok" => n \in Nat)
      BY EstimateType
    <3>2. outcome = "ok" => Floor(n - InputEstimate[j]) \in Nat
      BY <3>1 DEF Floor
    <3> QED BY <2>3, <2>4, <3>2 DEF OverrunType
  <2>6. pool' = pool + (Share'[j] - Share[j]) /\ pool' <= pool
    <3>1. Share[j] \in Nat
      BY <1>0, ShareType
    <3> QED BY <1>0, <2>2, <3>1 DEF RunTypeOK
  <2> QED BY <1>0, <1>6, <2>1, <2>5, <2>6, PoolOfOneJob
<1> QED BY <1>5, <1>6, <1>7, <1>8, <1>9

(* The ledger's account of the call that is under way. *)
LEMMA CallUnderWay ==
    ASSUME JobInv, NEW j \in Job, Calling(j)
    PROVE  /\ <<j, attempts[j]>> \in Calls
           /\ charge[<<j, attempts[j]>>]["input_tokens"] = InputEstimate[j]
           /\ InputEstimate[j] \in Nat /\ Book!TypeOK /\ OverrunType
<1>1. /\ attempts[j] \in 0..(RetryLimit + 2) /\ attempts[j] > 0
      /\ charge[<<j, attempts[j]>>]["input_tokens"] = InputEstimate[j]
  BY DEF JobInv, RunTypeOK, Attempted, Tried
<1>2. Book!TypeOK
  BY DEF JobInv, Book!IInv
<1>3. overrun["input_tokens"] \in Nat
  BY <1>2 DEF Book!TypeOK, Book!Amounts, Book!Meter, Book!Token
<1> QED
  BY <1>1, <1>2, <1>3, EstimateType, JobAssumption
  DEF Calls, JobAssumption, OverrunType

LEMMA AnswerKeeps ==
    ASSUME JobInv, phase = "running", NEW j \in Job, UNCHANGED runVars,
           \/ Answer(j) \/ AnswerMalformed(j)
           \/ /\ FailUnexpectedly(j)
              /\ \E n \in InputUsage : Ledger!Reconcile(<<j, attempts[j]>>, TokenCounts(n))
    PROVE  /\ RunTypeOK' /\ Attempted' /\ RefusedByLedger' /\ PoolIsShared'
           /\ Moved(j) /\ Ledger!Next
<1> DEFINE call == <<j, attempts[j]>>
<1>1. Calling(j)
  BY DEF Answer, AnswerMalformed, FailUnexpectedly
<1>2. /\ call \in Calls /\ charge[call]["input_tokens"] = InputEstimate[j]
      /\ InputEstimate[j] \in Nat /\ Book!TypeOK /\ OverrunType
  BY <1>1, CallUnderWay
<1>3. PICK n \in InputUsage, outcome \in {"ok", "failed", "raised"} :
        /\ Ledger!Reconcile(call, TokenCounts(n))
        /\ tokens' = IF outcome = "ok" THEN [tokens EXCEPT ![j] = n] ELSE tokens
        /\ Leave(j, IF outcome = "failed" THEN "hop" ELSE outcome, outcome)
        /\ UNCHANGED <<attempts, pool>>
  <2>1. CASE Answer(j)
    <3>1. PICK n \in InputUsage :
            /\ Ledger!Reconcile(call, TokenCounts(n))
            /\ tokens' = [tokens EXCEPT ![j] = n]
      BY <2>1 DEF Answer
    <3>2. Leave(j, "ok", "ok") /\ UNCHANGED <<attempts, pool>>
      BY <2>1 DEF Answer
    <3> HIDE DEF call
    <3> QED BY <3>1, <3>2
  <2>2. CASE AnswerMalformed(j)
    <3>1. PICK n \in InputUsage : Ledger!Reconcile(call, TokenCounts(n))
      BY <2>2 DEF AnswerMalformed
    <3>2. Leave(j, "hop", "failed") /\ UNCHANGED <<attempts, tokens, pool>>
      BY <2>2 DEF AnswerMalformed
    <3> HIDE DEF call
    <3> QED BY <3>1, <3>2
  <2>3. CASE /\ FailUnexpectedly(j)
             /\ \E n \in InputUsage : Ledger!Reconcile(call, TokenCounts(n))
    <3>1. PICK n \in InputUsage : Ledger!Reconcile(call, TokenCounts(n))
      BY <2>3
    <3>2. Leave(j, "raised", "raised") /\ UNCHANGED <<attempts, tokens, pool>>
      BY <2>3 DEF FailUnexpectedly
    <3> HIDE DEF call
    <3> QED BY <3>1, <3>2
  <2> QED BY <2>1, <2>2, <2>3
<1>4. n \in Nat
  BY EstimateType
<1>5. /\ callState[call] = "reserved"
      /\ callState' = [callState EXCEPT ![call] = "settled"]
      /\ overrun'["input_tokens"] =
           overrun["input_tokens"] + Floor(n - InputEstimate[j])
      /\ \A other \in Calls \ {call} : charge'[other] = charge[other]
  <2> HIDE DEF call
  <2> QED BY <1>2, <1>3, ReconcileEffect
<1>6. Floor(n - InputEstimate[j]) \in Nat
  BY <1>2, <1>4 DEF Floor
<1>7. OverrunType' /\ overrun["input_tokens"] <= overrun'["input_tokens"]
  BY <1>2, <1>5, <1>6 DEF OverrunType
<1>8. Touched(call) /\ callState'[call] = "settled"
  <2>1. callState \in [Calls -> Book!CallState]
    BY <1>2 DEF Book!TypeOK, Calls
  <2> HIDE DEF call
  <2> QED BY <1>2, <1>5, <2>1 DEF Touched
<1>9. Ledger!Next
  <2>1. TokenCounts(n) \in {TokenCounts(k) : k \in InputUsage}
    OBVIOUS
  <2> HIDE DEF call
  <2> QED BY <1>2, <1>3, <2>1 DEF Ledger!Next, Ledger!CallStep, Calls
<1>10. RunTypeOK' /\ Attempted' /\ RefusedByLedger' /\ PoolIsShared' /\ Moved(j)
  <2> DEFINE primary == IF outcome = "failed" THEN "hop" ELSE outcome
  <2>1. /\ primary \in {"ok", "hop", "failed", "reserve", "raised"} /\ primary # "reserve"
        /\ (primary = "ok") <=> (outcome = "ok")
        /\ Leave(j, primary, outcome)
    BY <1>3
  <2> HIDE DEF primary
  <2> QED BY <1>1, <1>2, <1>3, <1>5, <1>7, <1>8, <2>1, CallEndKeeps
<1> QED BY <1>9, <1>10

LEMMA FailKeeps ==
    ASSUME JobInv, phase = "running", NEW j \in Job, UNCHANGED runVars,
           \/ FailTransiently(j) \/ FailFatally(j)
           \/ FailUnexpectedly(j) /\ Ledger!CallFails(<<j, attempts[j]>>)
    PROVE  /\ RunTypeOK' /\ Attempted' /\ RefusedByLedger' /\ PoolIsShared'
           /\ Moved(j) /\ Ledger!Next
<1> DEFINE call == <<j, attempts[j]>>
<1>1. Calling(j)
  BY DEF FailTransiently, FailFatally, FailUnexpectedly
<1>2. call \in Calls /\ Book!TypeOK /\ OverrunType
  BY <1>1, CallUnderWay
<1>3. Ledger!CallFails(call) /\ UNCHANGED <<attempts, tokens, pool>>
  BY DEF FailTransiently, FailFatally, FailUnexpectedly
<1>4. PICK primary \in {"hop", "failed", "reserve", "raised"}, outcome \in {"failed", "raised"} :
        /\ Leave(j, primary, outcome)
        /\ primary = "reserve" => attempts[j] <= RetryLimit
  BY DEF FailTransiently, FailFatally, FailUnexpectedly
<1>5. /\ callState[call] = "reserved"
      /\ callState' = [callState EXCEPT ![call] = "failed"]
      /\ charge' = charge /\ overrun' = overrun
  <2> HIDE DEF call
  <2> QED BY <1>2, <1>3, FailEffect
<1>6. Touched(call) /\ callState'[call] = "failed"
  <2>1. callState \in [Calls -> Book!CallState]
    BY <1>2 DEF Book!TypeOK, Calls
  <2> HIDE DEF call
  <2> QED BY <1>2, <1>5, <2>1 DEF Touched
<1>7. OverrunType' /\ overrun["input_tokens"] <= overrun'["input_tokens"]
  BY <1>2, <1>5 DEF OverrunType
<1>8. Ledger!Next
  BY <1>2, <1>3 DEF Ledger!Next, Ledger!CallStep, Calls
<1>9. RunTypeOK' /\ Attempted' /\ RefusedByLedger' /\ PoolIsShared' /\ Moved(j)
  <2>1. /\ UNCHANGED <<attempts, pool>>
        /\ tokens' = IF outcome = "ok" THEN [tokens EXCEPT ![j] = 0] ELSE tokens
        /\ primary \in {"ok", "hop", "failed", "reserve", "raised"}
        /\ outcome \in {"ok", "failed", "raised"} /\ outcome # "ok"
        /\ (primary = "ok") <=> (outcome = "ok")
        /\ callState'[call] \in {"failed", "settled"}
    BY <1>3, <1>6
  <2> QED BY <1>1, <1>2, <1>4, <1>6, <1>7, <2>1, CallEndKeeps
<1> QED BY <1>8, <1>9

LEMMA TakeHopKeeps ==
    ASSUME JobInv, phase = "running", NEW j \in Job, UNCHANGED runVars, TakeHop(j)
    PROVE  /\ RunTypeOK' /\ Attempted' /\ RefusedByLedger' /\ PoolIsShared'
           /\ Moved(j) /\ UNCHANGED ledgerVars
<1>0. /\ RunTypeOK /\ Book!TypeOK /\ Attempted /\ RefusedByLedger
      /\ PoolIsShared /\ Stages
  BY DEF JobInv, Book!IInv
<1>1. job[j] = "hop" /\ job[j] \in Busy /\ j \in Holding
  BY <1>0 DEF TakeHop, Busy, JobState, Ended, Handled, Stages
<1>2. /\ UNCHANGED <<attempts, ending, tokens, ledgerVars>>
      /\ \/ /\ job' = [job EXCEPT ![j] = "hop_reserve"]
            /\ pool' = pool + InputEstimate[j] /\ Fits(InputEstimate[j])
         \/ /\ job' = [job EXCEPT ![j] = "failed"]
            /\ pool' = pool
  BY DEF TakeHop
<1>3. UNCHANGED <<callState, charge, overrun>>
  BY <1>2 DEF ledgerVars
<1>4. Moved(j) /\ job'[j] \in {"hop_reserve", "failed"}
  BY <1>0, <1>1, <1>2 DEF Moved, RunTypeOK
<1>5. InputEstimate[j] \in Nat /\ pool \in Nat /\ Share[j] \in Nat
  BY <1>0, EstimateType, ShareType DEF RunTypeOK
<1>6. RunTypeOK'
  <2>1. job' \in [Job -> JobState] /\ pool' \in Nat
    BY <1>0, <1>2, <1>5 DEF RunTypeOK, JobState, Ended, Handled
  <2>2. \A k \in Job : job'[k] \in {"calling", "hop", "hop_reserve"} =>
                         attempts'[k] <= RetryLimit + 1
    BY <1>0, <1>1, <1>2, <1>4 DEF RunTypeOK, Moved
  <2> QED BY <1>0, <1>2, <2>1, <2>2 DEF RunTypeOK, runVars
<1>7. Attempted'
  BY <1>0, <1>1, <1>2, <1>3, <1>4 DEF Attempted, Tried, Spent, Calling, Moved
<1>8. RefusedByLedger'
  <2>1. \A k \in Job : Denied(k)' <=> Denied(k)
    BY <1>1, <1>2, <1>4 DEF Denied, Moved
  <2> QED BY <1>0, <1>3, <2>1 DEF RefusedByLedger, NeverRefused, runVars
<1>9. PoolIsShared'
  <2>1. /\ Holding' = Holding
        /\ \A k \in Job \ {j} : Share'[k] = Share[k] /\ Gain'[k] = Gain[k]
    BY <1>4, SharesElsewhere DEF Moved, runVars
  <2>2. pool' = pool + (Share'[j] - Share[j])
    <3>1. Share[j] = InputEstimate[j]
      BY <1>1, <1>5 DEF Share, HoldsAgain
    <3>2. CASE job'[j] = "hop_reserve"
      <4>1. Share'[j] = InputEstimate[j] + InputEstimate[j]
        BY <1>1, <1>5, <2>1, <3>2 DEF Share, HoldsAgain
      <4>2. pool' = pool + InputEstimate[j]
        BY <1>0, <1>2, <3>2 DEF RunTypeOK
      <4> QED BY <1>5, <3>1, <4>1, <4>2
    <3>3. CASE job'[j] = "failed"
      <4>1. Share'[j] = InputEstimate[j]
        BY <1>1, <1>5, <2>1, <3>3 DEF Share, HoldsAgain
      <4>2. pool' = pool
        BY <1>0, <1>2, <3>3 DEF RunTypeOK
      <4> QED BY <1>5, <3>1, <4>1, <4>2
    <3> QED BY <1>4, <3>2, <3>3
  <2>3. Gain[j] = 0 /\ Gain'[j] = 0
    BY <1>1, <1>4, <2>1 DEF Gain, Answered
  <2>4. pool' <= pool \/ pool' <= MaxTotalInput
    BY <1>2, <1>5 DEF Fits
  <2>5. OverrunType /\ OverrunType' /\ overrun' = overrun
    BY <1>0, <1>3 DEF OverrunType, Book!TypeOK, Book!Amounts, Book!Meter, Book!Token
  <2>6. Gain'[j] - Gain[j] <= overrun'["input_tokens"] - overrun["input_tokens"]
    BY <2>3, <2>5 DEF OverrunType
  <2> QED BY <1>0, <1>6, <2>1, <2>2, <2>4, <2>5, <2>6, PoolOfOneJob
<1> QED BY <1>2, <1>4, <1>6, <1>7, <1>8, <1>9

LEMMA ReleaseHopKeeps ==
    ASSUME JobInv, phase = "running", NEW j \in Job, UNCHANGED runVars, ReleaseHop(j)
    PROVE  /\ RunTypeOK' /\ Attempted' /\ RefusedByLedger' /\ PoolIsShared'
           /\ Moved(j) /\ UNCHANGED ledgerVars
<1>0. /\ RunTypeOK /\ Book!TypeOK /\ Attempted /\ RefusedByLedger
      /\ PoolIsShared /\ Stages
  BY DEF JobInv, Book!IInv
<1>1. job[j] = "release" /\ job[j] \in Busy /\ j \in Holding /\ ending[j] \in Ended
  BY <1>0 DEF ReleaseHop, Busy, JobState, Ended, Handled, Stages, RunTypeOK
<1>2. /\ UNCHANGED <<attempts, ending, tokens, ledgerVars>>
      /\ job' = [job EXCEPT ![j] = ending[j]]
      /\ pool' = Floor(pool - InputEstimate[j])
  BY DEF ReleaseHop
<1>3. UNCHANGED <<callState, charge, overrun>>
  BY <1>2 DEF ledgerVars
<1>4. Moved(j) /\ job'[j] = ending[j]
  BY <1>0, <1>1, <1>2 DEF Moved, RunTypeOK, Ended, Handled
<1>5. InputEstimate[j] \in Nat /\ pool \in Nat /\ Share[j] \in Nat
  BY <1>0, EstimateType, ShareType DEF RunTypeOK
<1>6. Share[j] = InputEstimate[j] + InputEstimate[j]
  BY <1>1 DEF Share, HoldsAgain
<1>7. pool' = pool - InputEstimate[j] /\ pool' \in Nat
  <2>1. Share[j] <= pool
    BY <1>0, ShareInPool
  <2>2. pool - InputEstimate[j] >= 0
    BY <1>5, <1>6, <2>1
  <2> QED BY <1>2, <1>5, <2>2 DEF Floor
<1>8. RunTypeOK'
  <2>1. job' \in [Job -> JobState]
    BY <1>0, <1>1, <1>2 DEF RunTypeOK, JobState, Ended, Handled
  <2>2. \A k \in Job : job'[k] \in {"calling", "hop", "hop_reserve"} =>
                         attempts'[k] <= RetryLimit + 1
    BY <1>0, <1>1, <1>2, <1>4 DEF RunTypeOK, Moved, Ended, Handled
  <2> QED BY <1>0, <1>2, <1>7, <2>1, <2>2 DEF RunTypeOK, runVars
<1>9. Attempted'
  BY <1>0, <1>1, <1>2, <1>3, <1>4 DEF Attempted, Tried, Spent, Calling, Moved, Ended, Handled
<1>10. RefusedByLedger'
  <2>1. \A k \in Job : Denied(k)' <=> Denied(k)
    BY <1>1, <1>2, <1>4 DEF Moved, Denied, Ended, Handled
  <2> QED BY <1>0, <1>3, <2>1 DEF RefusedByLedger, NeverRefused, runVars
<1>11. PoolIsShared'
  <2>1. /\ Holding' = Holding
        /\ \A k \in Job \ {j} : Share'[k] = Share[k] /\ Gain'[k] = Gain[k]
    BY <1>4, SharesElsewhere DEF Moved, runVars
  <2>2. Share'[j] = InputEstimate[j]
    BY <1>1, <1>4, <1>5, <2>1 DEF Share, HoldsAgain, Ended, Handled
  <2>3. pool' = pool + (Share'[j] - Share[j]) /\ pool' <= pool
    BY <1>5, <1>6, <1>7, <2>2
  <2>4. Gain'[j] = Gain[j]
    BY <1>1, <1>2, <1>4, <2>1 DEF Gain, Answered, Ended, Handled
  <2>5. OverrunType /\ OverrunType' /\ overrun' = overrun
    BY <1>0, <1>3 DEF OverrunType, Book!TypeOK, Book!Amounts, Book!Meter, Book!Token
  <2>6. Gain'[j] - Gain[j] <= overrun'["input_tokens"] - overrun["input_tokens"]
    <3>1. Gain[j] \in Nat
      BY <1>0, ShareType
    <3> QED BY <2>4, <2>5, <3>1 DEF OverrunType
  <2> QED BY <1>0, <1>8, <2>1, <2>3, <2>5, <2>6, PoolOfOneJob
<1> QED BY <1>2, <1>4, <1>8, <1>9, <1>10, <1>11

(* All the steps of a job. *)
LEMMA JobStepKeeps ==
    ASSUME JobInv, phase = "running", NEW j \in Job, UNCHANGED runVars, JobStep(j)
    PROVE  /\ RunTypeOK' /\ Attempted' /\ RefusedByLedger' /\ PoolIsShared'
           /\ Moved(j) /\ (Ledger!Next \/ UNCHANGED ledgerVars)
<1>1. FailUnexpectedly(j) =>
        \/ Ledger!CallFails(<<j, attempts[j]>>)
        \/ \E n \in InputUsage : Ledger!Reconcile(<<j, attempts[j]>>, TokenCounts(n))
  BY DEF FailUnexpectedly
<1> QED
  BY <1>1, ReserveKeeps, AnswerKeeps, FailKeeps, TakeHopKeeps, ReleaseHopKeeps DEF JobStep

-----------------------------------------------------------------------------
(* Which jobs hold an estimate.                                            *)
LEMMA JobIs ==
    \A j \in Job : \E c \in Candidate, r \in Role : j = Review(c, r) \/ j = Critic(c, r)
BY RunAssumption DEF RunAssumption, RunJobs, Review, Critic

LEMMA AreJobs ==
    ASSUME NEW c \in Candidate, NEW r \in Role
    PROVE  /\ Review(c, r) \in Job /\ Critic(c, r) \in Job
           /\ Review(c, r)[1] = c /\ Critic(c, r)[1] = c
           /\ Review(c, r) # Critic(c, r)
BY RunAssumption DEF RunAssumption, RunJobs, Review, Critic

OnlyReviews == underWay \subseteq Job \ Critique
Holders ==
    OnlyReviews =>
      \A c \in Candidate, r \in Role :
        /\ Review(c, r) \in Holding <=> Review(c, r) \in underWay
        /\ Critic(c, r) \in Holding <=>
             cand[c] \in {"critiquing", "verifying", "raised"} /\ finding[<<c, r>>] = "held"

LEMMA HoldingIs == Holders
<1> SUFFICES ASSUME OnlyReviews, NEW c \in Candidate, NEW r \in Role
    PROVE  /\ Review(c, r) \in Holding <=> Review(c, r) \in underWay
           /\ Critic(c, r) \in Holding <=>
                cand[c] \in {"critiquing", "verifying", "raised"} /\ finding[<<c, r>>] = "held"
  BY DEF Holders
<1>1. Critic(c, r) \notin underWay
  <2>1. Critic(c, r) \in Critique
    BY RunAssumption DEF RunAssumption, RunCritiques, Critic
  <2> QED BY <2>1 DEF OnlyReviews
<1>2. Review(c, r) \notin HeldCritics
  BY DEF HeldCritics, CriticsOf, Review, Critic
<1>3. Critic(c, r) \in HeldCritics <=>
        cand[c] \in {"critiquing", "verifying", "raised"} /\ finding[<<c, r>>] = "held"
  <2>1. ASSUME NEW d \in Candidate
        PROVE  Critic(c, r) \in CriticsOf(d) <=> d = c /\ finding[<<c, r>>] = "held"
    BY DEF CriticsOf, Critic
  <2>2. Critic(c, r) \in HeldCritics <=>
          \E d \in Candidate : /\ cand[d] \in {"critiquing", "verifying", "raised"}
                               /\ Critic(c, r) \in CriticsOf(d)
    BY DEF HeldCritics
  <2> QED BY <2>1, <2>2
<1> QED BY <1>1, <1>2, <1>3 DEF Holding

(* A candidate's stage and findings decide about its own critics only, and *)
(* other candidates' reviews stay where they are.                          *)
Apart(c) ==
    \A d \in Candidate \ {c} :
        /\ cand'[d] = cand[d]
        /\ \A r \in Role : /\ finding'[<<d, r>>] = finding[<<d, r>>]
                           /\ Review(d, r) \in underWay' <=> Review(d, r) \in underWay

(* What the pool holds after a step of c: some of c's jobs are added to it *)
(* and some are taken out.                                                 *)
LEMMA HoldingAfter ==
    ASSUME OnlyReviews, OnlyReviews', NEW c \in Candidate, Apart(c),
           NEW H, NEW R, \A j \in H : j[1] = c, \A j \in R : j[1] = c,
           \A r \in Role :
             /\ Review(c, r) \in underWay' <=>
                  \/ Review(c, r) \in underWay /\ Review(c, r) \notin R
                  \/ Review(c, r) \in H
             /\ (cand'[c] \in {"critiquing", "verifying", "raised"} /\ finding'[<<c, r>>] = "held") <=>
                  \/ /\ cand[c] \in {"critiquing", "verifying", "raised"} /\ finding[<<c, r>>] = "held"
                     /\ Critic(c, r) \notin R
                  \/ Critic(c, r) \in H
    PROVE  \A j \in Job : j \in Holding' <=> (j \in Holding /\ j \notin R) \/ j \in H
<1> TAKE j \in Job
<1>1. PICK d \in Candidate, r \in Role : j = Review(d, r) \/ j = Critic(d, r)
  BY JobIs
<1>2. Holders /\ Holders'
  BY HoldingIs, PTL
<1>3. j[1] = d
  BY <1>1, AreJobs
<1> DEFINE heldNow == cand[d] \in {"critiquing", "verifying", "raised"} /\ finding[<<d, r>>] = "held"
           heldThen == cand'[d] \in {"critiquing", "verifying", "raised"} /\ finding'[<<d, r>>] = "held"
<1>4. /\ Review(d, r) \in Holding <=> Review(d, r) \in underWay
      /\ Critic(d, r) \in Holding <=> heldNow
  BY <1>2 DEF Holders
<1>5. /\ Review(d, r) \in Holding' <=> Review(d, r) \in underWay'
      /\ Critic(d, r) \in Holding' <=> heldThen
  BY <1>2 DEF Holders
<1>6. /\ Review(d, r) \in underWay' <=> (Review(d, r) \in underWay /\ Review(d, r) \notin R) \/ Review(d, r) \in H
      /\ heldThen <=> (heldNow /\ Critic(d, r) \notin R) \/ Critic(d, r) \in H
  <2>1. CASE d # c
    <3>1. /\ cand'[d] = cand[d] /\ finding'[<<d, r>>] = finding[<<d, r>>]
          /\ Review(d, r) \in underWay' <=> Review(d, r) \in underWay
      BY <2>1 DEF Apart
    <3>2. /\ Review(d, r) \notin H /\ Review(d, r) \notin R
          /\ Critic(d, r) \notin H /\ Critic(d, r) \notin R
      BY <2>1, AreJobs
    <3> QED BY <3>1, <3>2
  <2>2. CASE d = c
    BY <2>2
  <2> QED BY <2>1, <2>2
<1> HIDE DEF heldNow, heldThen
<1>7. CASE j = Review(d, r)
  BY <1>4, <1>5, <1>6, <1>7
<1>8. CASE j = Critic(d, r)
  BY <1>4, <1>5, <1>6, <1>8
<1> QED BY <1>1, <1>7, <1>8

-----------------------------------------------------------------------------
(* The pool, when the estimates of some jobs are put into it ...           *)
LEMMA PoolOfHolds ==
    ASSUME PoolIsShared, phase = "running", RunTypeOK, RunTypeOK', OverrunType,
           NEW R \in SUBSET Job,
           \A j \in Job : /\ Share'[j] = Share[j] + (IF j \in R THEN InputEstimate[j] ELSE 0)
                          /\ Gain'[j] = Gain[j],
           pool' = pool + TotalOf(InputEstimate, R), pool' <= MaxTotalInput,
           overrun' = overrun
    PROVE  PoolIsShared'
<1> DEFINE E == [j \in Job |-> IF j \in R THEN InputEstimate[j] ELSE 0]
<1>1. /\ Share \in [Job -> Nat] /\ Gain \in [Job -> Nat]
      /\ InputEstimate \in [Job -> Nat] /\ MaxTotalInput \in Nat
  BY ShareType, EstimateType, JobAssumption DEF JobAssumption
<1>2. \A j \in Job : /\ Share[j] \in Int /\ E[j] \in Int /\ Share'[j] = Share[j] + E[j]
                     /\ InputEstimate[j] \in Int
                     /\ E[j] = IF j \in R THEN InputEstimate[j] ELSE 0
  BY <1>1
<1>3. \A j \in Job : Gain[j] = Gain'[j]
  OBVIOUS
<1> HIDE DEF E
<1>4. TotalOf(Share', Job) = TotalOf(Share, Job) + TotalOf(E, Job)
  BY <1>2, JobsAreFinite, TotalSum
<1>5. TotalOf(E, Job) = TotalOf(InputEstimate, R)
  BY <1>2, JobsAreFinite, TotalPart
<1>6. TotalOf(Gain, Job) = TotalOf(Gain', Job)
  BY <1>3, JobsAreFinite, TotalSame
<1>7. /\ pool = TotalOf(Share, Job) /\ TotalOf(Gain, Job) <= overrun["input_tokens"]
  BY DEF PoolIsShared
<1>8. pool' = TotalOf(Share', Job)
  BY <1>4, <1>5, <1>7
<1>9. TotalOf(Gain, Job) \in Nat /\ pool' \in Nat
  BY SharesAreNat DEF RunTypeOK
<1>10. /\ TotalOf(Gain', Job) <= overrun'["input_tokens"]
       /\ pool' + TotalOf(Gain', Job) <= MaxTotalInput + overrun'["input_tokens"]
  BY <1>1, <1>6, <1>7, <1>9 DEF OverrunType
<1> QED BY <1>8, <1>10 DEF PoolIsShared

(* ... and when they are replaced by what the jobs used.  The floor at     *)
(* zero does not act.                                                      *)
LEMMA PoolOfSettlement ==
    ASSUME PoolIsShared, phase = "running", RunTypeOK, OverrunType,
           NEW R \in SUBSET Job, \A j \in R : j \in Holding /\ job[j] \in Ended,
           UNCHANGED <<job, tokens>>,
           \A j \in Job : j \in Holding' <=> j \in Holding /\ j \notin R,
           pool' = Floor(pool - TotalOf(InputEstimate, R) + TotalOf(tokens, OkIn(R))),
           UNCHANGED <<overrun, ending>>
    PROVE  PoolIsShared' /\ pool' \in Nat
<1> DEFINE E == [j \in Job |-> IF j \in R THEN InputEstimate[j] ELSE 0]
           K == [j \in Job |-> IF j \in OkIn(R) THEN tokens[j] ELSE 0]
           H == [j \in Job |-> Share[j] + K[j]]
           G == [j \in Job |-> Share[j] + Gain[j]]
           F == [j \in Job |-> Share'[j] + Gain'[j]]
<1>1. /\ Share \in [Job -> Nat] /\ Gain \in [Job -> Nat]
      /\ InputEstimate \in [Job -> Nat] /\ MaxTotalInput \in Nat
  BY ShareType, EstimateType, JobAssumption DEF JobAssumption
<1>2. \A j \in Job : tokens[j] \in Nat
  <2>1. \A j \in Job : tokens[j] \in InputUsage \cup {0}
    BY DEF RunTypeOK
  <2>2. InputUsage \cup {0} \subseteq Nat
    BY EstimateType
  <2> QED BY <2>1, <2>2
<1>3. \A j \in Job : j \in OkIn(R) <=> j \in R /\ job[j] = "ok"
  BY DEF OkIn
<1>4. \A j \in R : /\ Share[j] = InputEstimate[j]
                   /\ Gain[j] = IF job[j] = "ok" THEN Floor(tokens[j] - InputEstimate[j])
                                ELSE 0
                   /\ Share'[j] = IF job[j] = "ok" THEN tokens[j] ELSE 0
                   /\ Gain'[j] = 0
  <2> TAKE j \in R
  <2>1. j \in Holding /\ job[j] \in Ended /\ j \notin Holding'
    OBVIOUS
  <2>2. job[j] \notin HoldsAgain /\ job[j] # "release"
    BY <2>1 DEF Ended, Handled, HoldsAgain
  <2>3. Share[j] = InputEstimate[j]
    BY <1>1, <2>1, <2>2 DEF Share
  <2>4. Gain[j] = IF job[j] = "ok" THEN Floor(tokens[j] - InputEstimate[j]) ELSE 0
    BY <2>1, <2>2 DEF Gain, Answered
  <2>5. Share'[j] = IF job[j] = "ok" THEN tokens[j] ELSE 0
    BY <1>2, <2>1, <2>2 DEF Share
  <2>6. Gain'[j] = 0
    BY <2>1 DEF Gain
  <2> QED BY <2>3, <2>4, <2>5, <2>6
<1>5. \A j \in Job \ R : Share'[j] = Share[j] /\ Gain'[j] = Gain[j]
  BY DEF Share, Gain, Answered
<1>6. \A j \in Job : Share'[j] \in Nat /\ Gain'[j] \in Nat
  BY <1>1, <1>2, <1>4, <1>5
<1>7. \A j \in Job : /\ E[j] \in Int /\ K[j] \in Int /\ H[j] \in Int
                     /\ Share[j] \in Int /\ Share'[j] \in Int
                     /\ H[j] = Share[j] + K[j]
                     /\ InputEstimate[j] \in Int /\ tokens[j] \in Int
                     /\ E[j] = IF j \in R THEN InputEstimate[j] ELSE 0
                     /\ K[j] = IF j \in OkIn(R) THEN tokens[j] ELSE 0
  BY <1>1, <1>2, <1>6
<1>8. \A j \in Job : H[j] = Share'[j] + E[j]
  <2> TAKE j \in Job
  <2>1. CASE j \in R
    BY <1>1, <1>2, <1>3, <1>4, <2>1
  <2>2. CASE j \notin R
    BY <1>1, <1>3, <1>5, <1>7, <2>2
  <2> QED BY <2>1, <2>2
<1>9. \A j \in Job : /\ F[j] = Share'[j] + Gain'[j] /\ G[j] = Share[j] + Gain[j]
                     /\ F[j] \in Int /\ G[j] \in Int
                     /\ Gain'[j] \in Int /\ Gain[j] \in Int
  BY <1>1, <1>6
<1>10. \A j \in Job : F[j] <= G[j] /\ Gain'[j] <= Gain[j]
  <2> TAKE j \in Job
  <2>1. CASE j \in R
    BY <1>1, <1>2, <1>4, <1>9, <2>1 DEF Floor
  <2>2. CASE j \notin R
    BY <1>1, <1>5, <1>9, <2>2
  <2> QED BY <2>1, <2>2
<1>11. OkIn(R) \in SUBSET Job
  BY DEF OkIn
<1> HIDE DEF E, K, H, F, G
<1>12. /\ TotalOf(H, Job) = TotalOf(Share, Job) + TotalOf(K, Job)
       /\ TotalOf(H, Job) = TotalOf(Share', Job) + TotalOf(E, Job)
  <2>1. TotalOf(H, Job) = TotalOf(Share, Job) + TotalOf(K, Job)
    BY <1>7, JobsAreFinite, TotalSum
  <2>2. TotalOf(H, Job) = TotalOf(Share', Job) + TotalOf(E, Job)
    BY <1>7, <1>8, JobsAreFinite, TotalSum
  <2> QED BY <2>1, <2>2
<1>13. /\ TotalOf(E, Job) = TotalOf(InputEstimate, R)
       /\ TotalOf(K, Job) = TotalOf(tokens, OkIn(R))
  BY <1>7, <1>11, JobsAreFinite, TotalPart
<1>14. /\ TotalOf(F, Job) = TotalOf(Share', Job) + TotalOf(Gain', Job)
       /\ TotalOf(G, Job) = TotalOf(Share, Job) + TotalOf(Gain, Job)
  <2>1. \A j \in Job : /\ Share'[j] \in Int /\ Gain'[j] \in Int /\ F[j] = Share'[j] + Gain'[j]
                       /\ Share[j] \in Int /\ Gain[j] \in Int /\ G[j] = Share[j] + Gain[j]
    BY <1>7, <1>9
  <2>2. TotalOf(F, Job) = TotalOf(Share', Job) + TotalOf(Gain', Job)
    BY <2>1, JobsAreFinite, TotalSum
  <2>3. TotalOf(G, Job) = TotalOf(Share, Job) + TotalOf(Gain, Job)
    BY <2>1, JobsAreFinite, TotalSum
  <2> QED BY <2>2, <2>3
<1>15. /\ TotalOf(F, Job) <= TotalOf(G, Job)
       /\ TotalOf(Gain', Job) <= TotalOf(Gain, Job)
  <2>1. TotalOf(F, Job) <= TotalOf(G, Job)
    BY <1>9, <1>10, JobsAreFinite, TotalLess
  <2>2. TotalOf(Gain', Job) <= TotalOf(Gain, Job)
    BY <1>9, <1>10, JobsAreFinite, TotalLess
  <2> QED BY <2>1, <2>2
<1>16. /\ TotalOf(Share', Job) \in Nat /\ TotalOf(Gain', Job) \in Nat
       /\ TotalOf(Share, Job) \in Nat /\ TotalOf(Gain, Job) \in Nat
       /\ TotalOf(E, Job) \in Int /\ TotalOf(K, Job) \in Int
  BY <1>6, <1>7, SharesAreNat, JobsAreFinite, TotalNat, TotalInt
<1>17. /\ pool = TotalOf(Share, Job)
       /\ TotalOf(Gain, Job) <= overrun["input_tokens"]
       /\ pool + TotalOf(Gain, Job) <= MaxTotalInput + overrun["input_tokens"]
  BY DEF PoolIsShared
<1>18. pool - TotalOf(E, Job) + TotalOf(K, Job) = TotalOf(Share', Job)
  BY <1>12, <1>16, <1>17
<1>19. pool' = TotalOf(Share', Job)
  BY <1>13, <1>16, <1>18 DEF Floor
<1>20. /\ TotalOf(Gain', Job) <= overrun'["input_tokens"]
       /\ pool' + TotalOf(Gain', Job) <= MaxTotalInput + overrun'["input_tokens"]
  BY <1>1, <1>14, <1>15, <1>16, <1>17, <1>19 DEF OverrunType
<1> QED BY <1>16, <1>19, <1>20 DEF PoolIsShared

-----------------------------------------------------------------------------
(* The steps of a candidate.                                               *)

(* What the invariant says of one candidate and its jobs. *)
Own(c) ==
    \A r \in Role :
      /\ job[Review(c, r)] \in Busy => Review(c, r) \in underWay
      /\ job[Critic(c, r)] \in Busy =>
           cand[c] \in {"critiquing", "verifying", "raised"} /\ finding[<<c, r>>] = "held"
      /\ cand[c] \notin {"verifying", "raised"} \cup Complete => job[Critic(c, r)] = "idle"
      /\ cand[c] \notin Complete => finding[<<c, r>>] \notin {"verified", "unverified"}
      /\ (cand[c] = "reviewed" /\ finding[<<c, r>>] \in Kept \ {"accepted"}) =>
           \/ job[Critic(c, r)] = "ok"
           \/ job[Critic(c, r)] = "failed" /\ FailurePolicy = "fail_open"

Staged == Stages /\ NotYetVerified /\ AnsweredOrFailed
OwnStages ==
    (phase = "running" /\ OnlyReviews) => (Staged <=> \A c \in Candidate : Own(c))

LEMMA OwnIs == OwnStages
<1> SUFFICES ASSUME phase = "running", OnlyReviews PROVE Staged <=> \A c \in Candidate : Own(c)
  BY DEF OwnStages
<1>1. ASSUME Staged, NEW c \in Candidate, NEW r \in Role
      PROVE  /\ job[Review(c, r)] \in Busy => Review(c, r) \in underWay
             /\ job[Critic(c, r)] \in Busy =>
                  cand[c] \in {"critiquing", "verifying", "raised"} /\ finding[<<c, r>>] = "held"
             /\ cand[c] \notin {"verifying", "raised"} \cup Complete => job[Critic(c, r)] = "idle"
             /\ cand[c] \notin Complete => finding[<<c, r>>] \notin {"verified", "unverified"}
             /\ (cand[c] = "reviewed" /\ finding[<<c, r>>] \in Kept \ {"accepted"}) =>
                  \/ job[Critic(c, r)] = "ok"
                  \/ job[Critic(c, r)] = "failed" /\ FailurePolicy = "fail_open"
  <2>1. Review(c, r) \in Job /\ Critic(c, r) \in Job /\ Holders
    BY AreJobs, HoldingIs
  <2>2. Stages /\ NotYetVerified /\ AnsweredOrFailed
    BY <1>1 DEF Staged
  <2>3. (cand[c] = "reviewed" /\ finding[<<c, r>>] \in Kept \ {"accepted"}) =>
           \/ job[Critic(c, r)] = "ok"
           \/ job[Critic(c, r)] = "failed" /\ FailurePolicy = "fail_open"
    BY <2>2 DEF AnsweredOrFailed, Published
  <2>4. /\ job[Review(c, r)] \in Busy => Review(c, r) \in underWay
        /\ job[Critic(c, r)] \in Busy =>
             cand[c] \in {"critiquing", "verifying", "raised"} /\ finding[<<c, r>>] = "held"
    BY <2>1, <2>2 DEF Stages, Holders
  <2> QED BY <2>2, <2>3, <2>4 DEF Stages, NotYetVerified
<1>2. ASSUME \A c \in Candidate : Own(c) PROVE Stages
  <2>1. ASSUME NEW j \in Job, job[j] \in Busy PROVE j \in Holding
    <3>1. PICK c \in Candidate, r \in Role : j = Review(c, r) \/ j = Critic(c, r)
      BY JobIs
    <3>2. Holders
      BY HoldingIs
    <3> QED BY <1>2, <2>1, <3>1, <3>2 DEF Own, Holders
  <2> QED BY <1>2, <2>1 DEF Stages, Own
<1>3. ASSUME \A c \in Candidate : Own(c) PROVE NotYetVerified
  BY <1>3 DEF NotYetVerified, Own
<1>4. ASSUME \A c \in Candidate : Own(c) PROVE AnsweredOrFailed
  <2> SUFFICES ASSUME NEW x \in Published, finding[x] # "accepted"
      PROVE  \/ job[Critic(x[1], x[2])] = "ok"
             \/ job[Critic(x[1], x[2])] = "failed" /\ FailurePolicy = "fail_open"
    BY DEF AnsweredOrFailed
  <2>1. PICK c \in Candidate, r \in Role : x = <<c, r>>
    BY DEF Published
  <2>2. x[1] = c /\ x[2] = r /\ cand[c] = "reviewed" /\ finding[<<c, r>>] \in Kept
    BY <2>1 DEF Published
  <2> QED BY <1>4, <2>1, <2>2 DEF Own
<1> QED BY <1>1, <1>2, <1>3, <1>4 DEF Own, Staged

LEMMA OwnElsewhere ==
    ASSUME Staged, phase = "running", OnlyReviews, OnlyReviews',
           NEW c \in Candidate, Apart(c), phase' = phase,
           \A j \in Job : j[1] # c => job'[j] = job[j], Own(c)'
    PROVE  Staged'
<1>1. OwnStages /\ OwnStages'
  BY OwnIs, PTL
<1>2. \A d \in Candidate : Own(d)
  BY <1>1 DEF OwnStages
<1>3. ASSUME NEW d \in Candidate \ {c} PROVE Own(d)'
  <2>1. /\ cand'[d] = cand[d]
        /\ \A r \in Role : /\ finding'[<<d, r>>] = finding[<<d, r>>]
                           /\ Review(d, r) \in underWay' <=> Review(d, r) \in underWay
    BY DEF Apart
  <2>2. \A r \in Role : /\ job'[Review(d, r)] = job[Review(d, r)]
                        /\ job'[Critic(d, r)] = job[Critic(d, r)]
    BY AreJobs
  <2>3. Own(d)
    BY <1>2
  <2> SUFFICES ASSUME NEW r \in Role
      PROVE
        /\ job'[Review(d, r)] \in Busy => Review(d, r) \in underWay'
        /\ job'[Critic(d, r)] \in Busy =>
             cand'[d] \in {"critiquing", "verifying", "raised"} /\ finding'[<<d, r>>] = "held"
        /\ cand'[d] \notin {"verifying", "raised"} \cup Complete => job'[Critic(d, r)] = "idle"
        /\ cand'[d] \notin Complete => finding'[<<d, r>>] \notin {"verified", "unverified"}
        /\ (cand'[d] = "reviewed" /\ finding'[<<d, r>>] \in Kept \ {"accepted"}) =>
             \/ job'[Critic(d, r)] = "ok"
             \/ job'[Critic(d, r)] = "failed" /\ FailurePolicy = "fail_open"
    BY DEF Own, Review, Critic
  <2> QED BY <2>1, <2>2, <2>3 DEF Own
<1>4. (\A d \in Candidate : Own(d))'
  BY <1>3
<1> QED BY <1>1, <1>4 DEF OwnStages

(* Jobs that start, and jobs whose estimates a candidate puts into the     *)
(* pool: none of them has run.                                             *)
LEMMA StartKeeps ==
    ASSUME RunTypeOK, Attempted, RefusedByLedger, NEW R \in SUBSET Job, Start(R),
           \A j \in R : job[j] = "idle",
           UNCHANGED <<attempts, ending, tokens, callState, charge, phase, status>>
    PROVE  /\ Attempted' /\ RefusedByLedger' /\ job' \in [Job -> JobState]
           /\ \A j \in Job : job'[j] \in {"calling", "hop", "hop_reserve"} =>
                               attempts'[j] <= RetryLimit + 1
<1>1. \A j \in Job : job'[j] = IF j \in R THEN "reserve" ELSE job[j]
  BY DEF Start
<1>2. job' \in [Job -> JobState]
  BY DEF Start, RunTypeOK, JobState
<1>3. RetryLimit \in Nat
  BY JobAssumption DEF JobAssumption
<1>4. Attempted'
  BY <1>1, <1>3 DEF Attempted, Tried, Spent, Calling
<1>5. RefusedByLedger'
  <2>1. \A j \in Job : Denied(j)' <=> Denied(j)
    BY <1>1 DEF Denied
  <2> QED BY <2>1 DEF RefusedByLedger, NeverRefused
<1> QED BY <1>1, <1>2, <1>4, <1>5 DEF RunTypeOK

LEMMA SharesOfStart ==
    ASSUME RunTypeOK, NEW R \in SUBSET Job, NEW H \in SUBSET Job, Start(R),
           \A j \in R \cup H : job[j] = "idle", UNCHANGED <<tokens, ending>>,
           \A j \in Job : j \in Holding' <=> j \in Holding \/ j \in H,
           \A j \in H : j \notin Holding
    PROVE  \A j \in Job :
             /\ Share'[j] = Share[j] + (IF j \in H THEN InputEstimate[j] ELSE 0)
             /\ Gain'[j] = Gain[j]
<1> SUFFICES ASSUME NEW j \in Job
    PROVE  /\ Share'[j] = Share[j] + (IF j \in H THEN InputEstimate[j] ELSE 0)
           /\ Gain'[j] = Gain[j]
  OBVIOUS
<1>1. /\ job'[j] = IF j \in R THEN "reserve" ELSE job[j]
      /\ InputEstimate[j] \in Nat
  BY EstimateType DEF Start
<1>2. CASE j \in H
  <2>1. job[j] = "idle" /\ job'[j] \in {"idle", "reserve"} /\ j \notin Holding
        /\ j \in Holding'
    BY <1>1, <1>2
  <2>2. Share[j] = 0 /\ Share'[j] = InputEstimate[j]
    BY <1>1, <2>1 DEF Share, HoldsAgain
  <2>3. Gain[j] = 0 /\ Gain'[j] = 0
    BY <2>1 DEF Gain, Answered
  <2> QED BY <1>1, <1>2, <2>2, <2>3
<1>3. CASE j \notin H
  <2>1. j \in Holding' <=> j \in Holding
    BY <1>3
  <2>2. Share'[j] = Share[j] /\ Gain'[j] = Gain[j]
    <3>1. CASE j \in R
      BY <1>1, <2>1, <3>1 DEF Share, Gain, Answered, HoldsAgain
    <3>2. CASE j \notin R
      BY <1>1, <2>1, <3>2 DEF Share, Gain, Answered, HoldsAgain
    <3> QED BY <3>1, <3>2
  <2>3. Share[j] \in Nat
    BY ShareType
  <2> QED BY <1>3, <2>2, <2>3
<1> QED BY <1>2, <1>3

LEMMA PoolUntouched ==
    ASSUME PoolIsShared, phase = "running", UNCHANGED <<pool, overrun>>,
           \A j \in Job : Share'[j] = Share[j] /\ Gain'[j] = Gain[j]
    PROVE  PoolIsShared'
<1>1. Share' = Share /\ Gain' = Gain
  BY DEF Share, Gain
<1> QED BY <1>1 DEF PoolIsShared

LEMMA OwnOf ==
    ASSUME Staged, phase = "running", OnlyReviews, NEW c \in Candidate PROVE Own(c)
BY OwnIs DEF OwnStages

Unsettled == <<attempts, ending, tokens, ledgerVars, phase, status>>
RunKept ==
    RunTypeOK /\ Attempted /\ RefusedByLedger /\ PoolIsShared /\ Staged

(* A step that starts jobs and holds estimates of jobs that have not run.  *)
LEMMA HoldKeeps ==
    ASSUME JobInv, phase = "running",
           UNCHANGED Unsettled, NEW R \in SUBSET Job, Start(R),
           NEW H \in SUBSET Job, \A j \in R \cup H : job[j] = "idle",
           \A j \in Job : j \in Holding' <=> j \in Holding \/ j \in H,
           \A j \in H : j \notin Holding,
           \/ H = {} /\ pool' = pool
           \/ /\ pool' = pool + TotalOf(InputEstimate, H) /\ IsFiniteSet(H)
              /\ Fits(TotalOf(InputEstimate, H)),
           cand' \in [Candidate -> CandidateState],
           finding' \in [Candidate \X Role -> FindingState],
           OnlyReviews', Staged'
    PROVE  RunKept'
<1>0. /\ RunTypeOK /\ Book!TypeOK /\ Attempted /\ RefusedByLedger
      /\ PoolIsShared /\ Stages
  BY DEF JobInv, Book!IInv
<1>2. UNCHANGED <<attempts, ending, tokens, callState, charge, overrun, phase, status>>
  BY DEF Unsettled, ledgerVars
<1>3. /\ Attempted' /\ RefusedByLedger' /\ job' \in [Job -> JobState]
      /\ \A j \in Job : job'[j] \in {"calling", "hop", "hop_reserve"} =>
                          attempts'[j] <= RetryLimit + 1
  BY <1>0, <1>2, StartKeeps
<1>4. pool' \in Nat
  <2>1. CASE H = {} /\ pool' = pool
    BY <1>0, <2>1 DEF RunTypeOK
  <2>2. CASE pool' = pool + TotalOf(InputEstimate, H) /\ IsFiniteSet(H)
    <3>1. \A j \in H : InputEstimate[j] \in Nat
      BY EstimateType
    <3>2. TotalOf(InputEstimate, H) \in Nat
      BY <2>2, <3>1, TotalNat
    <3> QED BY <1>0, <2>2, <3>2 DEF RunTypeOK
  <2> QED BY <2>1, <2>2
<1>5. RunTypeOK'
  BY <1>0, <1>2, <1>3, <1>4 DEF RunTypeOK, OnlyReviews
<1>6. \A j \in Job :
        /\ Share'[j] = Share[j] + (IF j \in H THEN InputEstimate[j] ELSE 0)
        /\ Gain'[j] = Gain[j]
  BY <1>0, <1>2, SharesOfStart
<1>7. PoolIsShared'
  <2>1. CASE H = {} /\ pool' = pool
    <3>1. \A j \in Job : Share[j] \in Nat
      BY <1>0, ShareType
    <3>2. \A j \in Job : Share'[j] = Share[j] /\ Gain'[j] = Gain[j]
      BY <1>6, <2>1, <3>1
    <3> QED BY <1>0, <1>2, <2>1, <3>2, PoolUntouched
  <2>2. CASE /\ pool' = pool + TotalOf(InputEstimate, H)
             /\ Fits(TotalOf(InputEstimate, H))
    <3>1. pool' <= MaxTotalInput
      BY <2>2 DEF Fits
    <3>2. OverrunType
      BY <1>0 DEF OverrunType, Book!TypeOK, Book!Amounts, Book!Meter, Book!Token
    <3> QED BY <1>0, <1>2, <1>5, <1>6, <2>2, <3>1, <3>2, PoolOfHolds
  <2> QED BY <2>1, <2>2
<1> QED BY <1>3, <1>5, <1>7 DEF RunKept

(* A step that settles the estimates of jobs that have ended. *)
LEMMA SettleKeeps ==
    ASSUME JobInv, phase = "running",
           UNCHANGED Unsettled, UNCHANGED job, NEW R \in SUBSET Job,
           \A j \in R : j \in Holding /\ job[j] \in Ended,
           \A j \in Job : j \in Holding' <=> j \in Holding /\ j \notin R,
           pool' = Floor(pool - TotalOf(InputEstimate, R) + TotalOf(tokens, OkIn(R))),
           cand' \in [Candidate -> CandidateState],
           finding' \in [Candidate \X Role -> FindingState],
           OnlyReviews', Staged'
    PROVE  RunKept'
<1>0. /\ RunTypeOK /\ Book!TypeOK /\ Attempted /\ RefusedByLedger
      /\ PoolIsShared /\ Stages
  BY DEF JobInv, Book!IInv
<1>1. UNCHANGED <<attempts, ending, tokens, callState, charge, overrun, phase, status>>
  BY DEF Unsettled, ledgerVars
<1>2. PoolIsShared' /\ pool' \in Nat
  <2>1. OverrunType
    BY <1>0 DEF OverrunType, Book!TypeOK, Book!Amounts, Book!Meter, Book!Token
  <2> QED BY <1>0, <1>1, <2>1, PoolOfSettlement
<1>3. RunTypeOK'
  BY <1>0, <1>1, <1>2 DEF RunTypeOK, OnlyReviews
<1>4. Attempted' /\ RefusedByLedger'
  BY <1>0, <1>1 DEF Attempted, Tried, Spent, RefusedByLedger, Denied, NeverRefused, Calling
<1> QED BY <1>2, <1>3, <1>4 DEF RunKept

(* A step that changes neither jobs nor what they hold. *)
LEMMA QuietKeeps ==
    ASSUME JobInv, phase = "running",
           UNCHANGED Unsettled, UNCHANGED <<job, pool>>,
           \A j \in Job : j \in Holding' <=> j \in Holding,
           cand' \in [Candidate -> CandidateState],
           finding' \in [Candidate \X Role -> FindingState],
           OnlyReviews', Staged'
    PROVE  RunKept'
<1>1. PICK N : N = {}
  OBVIOUS
<1>2. /\ N \in SUBSET Job
      /\ \A j \in N \cup N : job[j] = "idle"
      /\ \A j \in Job : j \in Holding' <=> j \in Holding \/ j \in N
      /\ \A j \in N : j \notin Holding
      /\ N = {} /\ pool' = pool
  BY <1>1
<1>3. Start(N)
  BY <1>1 DEF JobInv, RunTypeOK, Start
<1> QED BY <1>2, <1>3, HoldKeeps

LEMMA ReviewsOnly == RunTypeOK => OnlyReviews
BY DEF RunTypeOK, OnlyReviews

(* A step of one candidate that leaves jobs and estimates alone, and moves *)
(* no critic's finding into or out of the pool.                            *)
LEMMA MoveKeeps ==
    ASSUME JobInv, Staged, phase = "running", NEW c \in Candidate,
           UNCHANGED <<finding, underWay, jobVars, pool, ledgerVars, phase, status>>,
           NEW from, NEW to \in CandidateState, cand[c] = from, Goto(c, to),
           from \notin Complete \cup {"critiquing", "verifying", "raised"},
           to # "reviewed", to # "verifying",
           to \in {"critiquing", "raised"} => \A r \in Role : finding[<<c, r>>] # "held"
    PROVE  RunKept' /\ UNCHANGED ledgerVars
<1>0. RunTypeOK /\ OnlyReviews /\ Own(c)
  BY ReviewsOnly, OwnOf DEF JobInv
<1>1. /\ cand' = [cand EXCEPT ![c] = to] /\ cand'[c] = to
      /\ cand' \in [Candidate -> CandidateState]
  BY <1>0 DEF Goto, RunTypeOK
<1>2. UNCHANGED <<job, finding, pool>> /\ UNCHANGED Unsettled
  BY DEF Unsettled, jobVars
<1>3. /\ Apart(c) /\ OnlyReviews'
      /\ finding' \in [Candidate \X Role -> FindingState]
  BY <1>0, <1>1 DEF Apart, RunTypeOK, OnlyReviews, Review
<1>4. \A j \in Job : j \in Holding' <=> j \in Holding
  <2>1. PICK N : N = {}
    OBVIOUS
  <2>2. /\ \A j \in N : j[1] = c
        /\ \A r \in Role :
             /\ Review(c, r) \in underWay' <=>
                  \/ Review(c, r) \in underWay /\ Review(c, r) \notin N
                  \/ Review(c, r) \in N
             /\ (cand'[c] \in {"critiquing", "verifying", "raised"} /\ finding'[<<c, r>>] = "held") <=>
                  \/ /\ cand[c] \in {"critiquing", "verifying", "raised"} /\ finding[<<c, r>>] = "held"
                     /\ Critic(c, r) \notin N
                  \/ Critic(c, r) \in N
    BY <1>1, <1>2, <2>1 DEF Review
  <2>3. \A j \in Job : j \in Holding' <=> (j \in Holding /\ j \notin N) \/ j \in N
    BY <1>0, <1>3, <2>2, HoldingAfter
  <2> QED BY <2>1, <2>3
<1>5. Own(c)'
  <2> SUFFICES ASSUME NEW r \in Role
      PROVE  /\ job[Review(c, r)] \in Busy => Review(c, r) \in underWay
             /\ job[Critic(c, r)] = "idle"
             /\ finding[<<c, r>>] \notin {"verified", "unverified"}
    BY <1>1, <1>2 DEF Own, Busy, Review, Critic
  <2> QED BY <1>0 DEF Own
<1>6. Staged'
  BY <1>0, <1>2, <1>3, <1>5, OwnElsewhere
<1> QED BY <1>2, <1>3, <1>4, <1>6, <1>1, QuietKeeps

LEMMA PrepareFailsKeeps ==
    ASSUME JobInv, Staged, phase = "running", NEW c \in Candidate,
           PrepareFails(c), UNCHANGED <<phase, status>>
    PROVE  RunKept' /\ UNCHANGED ledgerVars
<1>1. /\ cand[c] = "preparing" /\ Goto(c, "failed")
      /\ UNCHANGED <<finding, underWay, jobVars, pool, ledgerVars, phase, status>>
  BY DEF PrepareFails
<1>2. /\ "preparing" \notin Complete \cup {"critiquing", "verifying", "raised"}
      /\ "failed" \in CandidateState
  BY DEF Complete, CandidateState
<1> QED BY <1>1, <1>2, MoveKeeps

(* The critics of a candidate, and what the pool holds of them. *)
LEMMA CriticsAre ==
    ASSUME NEW c \in Candidate
    PROVE  /\ CriticsOf(c) \in SUBSET Job /\ IsFiniteSet(CriticsOf(c))
           /\ \A j \in CriticsOf(c) : j[1] = c
           /\ \A r \in Role : /\ Critic(c, r) \in CriticsOf(c) <=> finding[<<c, r>>] = "held"
                              /\ Review(c, r) \notin CriticsOf(c)
<1>1. /\ CriticsOf(c) \in SUBSET Job
      /\ \A j \in CriticsOf(c) : j[1] = c
  BY AreJobs DEF CriticsOf
<1>2. \A r \in Role : /\ Critic(c, r) \in CriticsOf(c) <=> finding[<<c, r>>] = "held"
                      /\ Review(c, r) \notin CriticsOf(c)
  BY DEF CriticsOf, Critic, Review
<1> QED BY <1>1, <1>2, JobsAreFinite, FS_Subset

LEMMA HoldCriticKeeps ==
    ASSUME JobInv, Staged, phase = "running", NEW c \in Candidate, NEW r \in Role,
           HoldCritic(c, r), UNCHANGED <<phase, status>>
    PROVE  RunKept' /\ UNCHANGED ledgerVars
<1> DEFINE j == Critic(c, r)
<1>0. RunTypeOK /\ OnlyReviews /\ Own(c)
  BY ReviewsOnly, OwnOf DEF JobInv
<1>1. /\ cand[c] = "critiquing" /\ finding[<<c, r>>] = "selected"
      /\ \/ /\ Fits(InputEstimate[j]) /\ pool' = pool + InputEstimate[j]
            /\ finding' = [finding EXCEPT ![<<c, r>>] = "held"]
         \/ /\ finding' = [finding EXCEPT ![<<c, r>>] = "suppressed"]
            /\ pool' = pool
      /\ UNCHANGED <<cand, underWay, job, ledgerVars>> /\ UNCHANGED Unsettled
  BY DEF HoldCritic, jobVars, Unsettled
<1>2. /\ Apart(c) /\ OnlyReviews' /\ cand' \in [Candidate -> CandidateState]
      /\ finding' \in [Candidate \X Role -> FindingState]
      /\ finding'[<<c, r>>] \in {"held", "suppressed"}
      /\ \A s \in Role \ {r} : finding'[<<c, s>>] = finding[<<c, s>>]
  BY <1>0, <1>1 DEF Apart, RunTypeOK, FindingState, OnlyReviews, Review
<1>3. /\ j \in Job /\ j[1] = c /\ job[j] = "idle" /\ InputEstimate[j] \in Nat
      /\ \A x \in Role : (Critic(c, x) = j <=> x = r) /\ Review(c, x) # j
  <2>1. j \in Job /\ j[1] = c /\ InputEstimate[j] \in Nat
    BY AreJobs, EstimateType
  <2>2. job[j] = "idle"
    BY <1>0, <1>1 DEF Own, Complete
  <2>3. \A x \in Role : (Critic(c, x) = j <=> x = r) /\ Review(c, x) # j
    BY DEF Critic, Review
  <2> QED BY <2>1, <2>2, <2>3
<1>4. j \notin Holding
  BY <1>0, <1>1, HoldingIs DEF Holders
<1>5. Own(c)'
  <2> SUFFICES ASSUME NEW x \in Role
      PROVE  /\ job'[Review(c, x)] \in Busy => Review(c, x) \in underWay'
             /\ job'[Critic(c, x)] = "idle"
             /\ finding'[<<c, x>>] \notin {"verified", "unverified"}
    BY <1>1 DEF Own, Complete, Busy, Review, Critic
  <2> QED BY <1>0, <1>1, <1>2 DEF Own, Complete
<1>6. Staged'
  BY <1>0, <1>1, <1>2, <1>5, OwnElsewhere DEF Unsettled
<1>7. PICK N : N = {}
  OBVIOUS
<1>8. Start(N) /\ N \in SUBSET Job
  BY <1>0, <1>1, <1>7 DEF RunTypeOK, Start
<1>9. CASE finding'[<<c, r>>] = "held"
  <2>1. Fits(InputEstimate[j]) /\ pool' = pool + InputEstimate[j]
    BY <1>0, <1>1, <1>9 DEF RunTypeOK
  <2>2. PICK H : H = {j}
    OBVIOUS
  <2>3. IsFiniteSet(H) /\ H \in SUBSET Job
    BY <1>3, <2>2, FS_Singleton
  <2>4. TotalOf(InputEstimate, H) = InputEstimate[j]
    BY <1>3, <2>2, TotalSingle
  <2>5. /\ \A k \in H : k[1] = c /\ k \notin Holding
        /\ \A k \in N : k[1] = c
        /\ \A k \in N \cup H : job[k] = "idle"
    BY <1>3, <1>4, <1>7, <2>2
  <2>6. \A x \in Role :
          /\ Review(c, x) \in underWay' <=>
               \/ Review(c, x) \in underWay /\ Review(c, x) \notin N
               \/ Review(c, x) \in H
          /\ (cand'[c] \in {"critiquing", "verifying", "raised"} /\ finding'[<<c, x>>] = "held") <=>
               \/ /\ cand[c] \in {"critiquing", "verifying", "raised"} /\ finding[<<c, x>>] = "held"
                  /\ Critic(c, x) \notin N
               \/ Critic(c, x) \in H
    BY <1>1, <1>2, <1>3, <1>7, <1>9, <2>2 DEF Review
  <2>9. OnlyReviews /\ OnlyReviews' /\ Apart(c) /\ c \in Candidate
    BY <1>0, <1>2
  <2>7. \A k \in Job : k \in Holding' <=> (k \in Holding /\ k \notin N) \/ k \in H
    <3>1. (\A k \in H : k[1] = c) /\ (\A k \in N : k[1] = c)
      BY <2>5
    <3> QED BY <2>6, <2>9, <3>1, HoldingAfter
  <2>8. \A k \in Job : k \in Holding' <=> k \in Holding \/ k \in H
    BY <1>7, <2>7
  <2> QED BY <1>1, <1>2, <1>6, <1>8, <2>1, <2>3, <2>4, <2>5, <2>8, HoldKeeps
<1>10. CASE finding'[<<c, r>>] = "suppressed"
  <2>1. pool' = pool
    BY <1>0, <1>1, <1>10 DEF RunTypeOK
  <2>2. \A x \in Role :
          /\ Review(c, x) \in underWay' <=>
               \/ Review(c, x) \in underWay /\ Review(c, x) \notin N
               \/ Review(c, x) \in N
          /\ (cand'[c] \in {"critiquing", "verifying", "raised"} /\ finding'[<<c, x>>] = "held") <=>
               \/ /\ cand[c] \in {"critiquing", "verifying", "raised"} /\ finding[<<c, x>>] = "held"
                  /\ Critic(c, x) \notin N
               \/ Critic(c, x) \in N
    BY <1>1, <1>2, <1>3, <1>7, <1>10 DEF Review
  <2>3. \A k \in N : k[1] = c
    BY <1>7
  <2>4. \A k \in Job : k \in Holding' <=> (k \in Holding /\ k \notin N) \/ k \in N
    BY <1>0, <1>2, <2>2, <2>3, HoldingAfter
  <2>5. \A k \in Job : k \in Holding' <=> k \in Holding
    BY <1>7, <2>4
  <2> QED BY <1>1, <1>2, <1>6, <2>1, <2>5, QuietKeeps
<1> QED BY <1>1, <1>2, <1>9, <1>10

LEMMA StartCriticsKeeps ==
    ASSUME JobInv, Staged, phase = "running", NEW c \in Candidate,
           StartCritics(c), UNCHANGED <<phase, status>>
    PROVE  RunKept' /\ UNCHANGED ledgerVars
<1> DEFINE R == CriticsOf(c)
<1>0. RunTypeOK /\ OnlyReviews /\ Own(c)
  BY ReviewsOnly, OwnOf DEF JobInv
<1>1. /\ cand[c] = "critiquing" /\ Start(R) /\ finding' = finding /\ pool' = pool
      /\ cand' = [cand EXCEPT ![c] = IF R = {} THEN "reviewed" ELSE "verifying"]
      /\ underWay' = underWay
      /\ UNCHANGED ledgerVars /\ UNCHANGED Unsettled
  BY DEF StartCritics, Goto, Unsettled
<1>2. /\ Apart(c) /\ OnlyReviews' /\ cand' \in [Candidate -> CandidateState]
      /\ finding' \in [Candidate \X Role -> FindingState]
      /\ cand'[c] = IF R = {} THEN "reviewed" ELSE "verifying"
  BY <1>0, <1>1 DEF Apart, RunTypeOK, CandidateState, InFlight, Complete, OnlyReviews, Review
<1>3. /\ R \in SUBSET Job /\ \A j \in R : j[1] = c
      /\ \A r \in Role : /\ Critic(c, r) \in R <=> finding[<<c, r>>] = "held"
                         /\ Review(c, r) \notin R
  BY CriticsAre
<1>4. \A j \in R : job[j] = "idle"
  <2>1. \A r \in Role : job[Critic(c, r)] = "idle"
    BY <1>0, <1>1 DEF Own, Complete
  <2> QED BY <2>1 DEF CriticsOf
<1>6. Own(c)'
  <2> SUFFICES ASSUME NEW r \in Role
      PROVE  /\ job'[Review(c, r)] \in Busy => Review(c, r) \in underWay'
             /\ job'[Critic(c, r)] \in Busy =>
                  cand'[c] = "verifying" /\ finding'[<<c, r>>] = "held"
             /\ finding'[<<c, r>>] \notin {"verified", "unverified"}
    BY <1>2 DEF Own, Complete, Kept, Review, Critic
  <2>1. /\ job'[Review(c, r)] = job[Review(c, r)]
        /\ Critic(c, r) \notin R => job'[Critic(c, r)] = job[Critic(c, r)]
    BY <1>1, <1>3, AreJobs DEF Start
  <2>2. /\ job[Critic(c, r)] = "idle"
        /\ job[Review(c, r)] \in Busy => Review(c, r) \in underWay
        /\ finding[<<c, r>>] \notin {"verified", "unverified"}
    BY <1>0, <1>1 DEF Own, Complete
  <2>3. Critic(c, r) \in R => cand'[c] = "verifying" /\ finding'[<<c, r>>] = "held"
    BY <1>1, <1>2, <1>3
  <2> QED BY <1>1, <2>1, <2>2, <2>3 DEF Busy, Review
<1> HIDE DEF R
<1>7. PICK N : N = {}
  OBVIOUS
<1>8. \A r \in Role :
        /\ Review(c, r) \in underWay' <=>
             \/ Review(c, r) \in underWay /\ Review(c, r) \notin N
             \/ Review(c, r) \in N
        /\ (cand'[c] \in {"critiquing", "verifying", "raised"} /\ finding'[<<c, r>>] = "held") <=>
             \/ /\ cand[c] \in {"critiquing", "verifying", "raised"} /\ finding[<<c, r>>] = "held"
                /\ Critic(c, r) \notin N
             \/ Critic(c, r) \in N
  BY <1>1, <1>2, <1>3, <1>7 DEF Review
<1>9. \A j \in N : j[1] = c
  BY <1>7
<1>10. \A j \in Job : j \in Holding' <=> (j \in Holding /\ j \notin N) \/ j \in N
  BY <1>0, <1>2, <1>8, <1>9, HoldingAfter
<1>11. /\ N \in SUBSET Job /\ N = {} /\ pool' = pool
       /\ \A j \in R \cup N : job[j] = "idle"
       /\ \A j \in Job : j \in Holding' <=> j \in Holding \/ j \in N
       /\ \A j \in N : j \notin Holding
  BY <1>1, <1>4, <1>7, <1>10
<1>12. \A j \in Job : j[1] # c => job'[j] = job[j]
  BY <1>1, <1>3 DEF Start
<1>13. Staged'
  BY <1>0, <1>1, <1>2, <1>6, <1>12, OwnElsewhere DEF Unsettled
<1> QED BY <1>1, <1>2, <1>3, <1>11, <1>13, HoldKeeps

LEMMA CriticsRaiseKeeps ==
    ASSUME JobInv, Staged, phase = "running", NEW c \in Candidate,
           CriticsRaise(c), UNCHANGED <<phase, status>>
    PROVE  RunKept' /\ UNCHANGED ledgerVars
<1>0. RunTypeOK /\ OnlyReviews /\ Own(c)
  BY ReviewsOnly, OwnOf DEF JobInv
<1>1. /\ cand[c] = "verifying" /\ cand' = [cand EXCEPT ![c] = "raised"]
      /\ UNCHANGED <<finding, underWay, pool, job, ledgerVars>> /\ UNCHANGED Unsettled
  BY DEF CriticsRaise, Goto, jobVars, Unsettled
<1>2. /\ Apart(c) /\ OnlyReviews' /\ cand' \in [Candidate -> CandidateState]
      /\ finding' \in [Candidate \X Role -> FindingState] /\ cand'[c] = "raised"
  BY <1>0, <1>1 DEF Apart, RunTypeOK, CandidateState, OnlyReviews, Review
<1>3. \A j \in Job : j \in Holding' <=> j \in Holding
  <2>1. \A d \in Candidate : cand'[d] \in {"critiquing", "verifying", "raised"} <=>
                               cand[d] \in {"critiquing", "verifying", "raised"}
    BY <1>0, <1>1 DEF RunTypeOK
  <2>2. \A d \in Candidate : CriticsOf(d)' = CriticsOf(d)
    BY <1>1 DEF CriticsOf, Critic
  <2>3. HeldCritics' = HeldCritics
    BY <2>1, <2>2 DEF HeldCritics
  <2> QED BY <1>1, <2>3 DEF Holding
<1>4. Own(c)'
  <2> SUFFICES ASSUME NEW r \in Role
      PROVE  /\ job'[Review(c, r)] \in Busy => Review(c, r) \in underWay'
             /\ job'[Critic(c, r)] \in Busy => finding'[<<c, r>>] = "held"
             /\ finding'[<<c, r>>] \notin {"verified", "unverified"}
    BY <1>2 DEF Own, Complete, Review, Critic
  <2> QED BY <1>0, <1>1 DEF Own, Complete, Review, Critic
<1>5. Staged'
  BY <1>0, <1>1, <1>2, <1>4, OwnElsewhere DEF Unsettled
<1> QED BY <1>1, <1>2, <1>3, <1>5, QuietKeeps

LEMMA FinishCriticsKeeps ==
    ASSUME JobInv, Staged, phase = "running", NEW c \in Candidate,
           FinishCritics(c), UNCHANGED <<phase, status>>
    PROVE  RunKept' /\ UNCHANGED ledgerVars
<1> DEFINE R == CriticsOf(c)
<1>0. RunTypeOK /\ OnlyReviews /\ Own(c)
  BY ReviewsOnly, OwnOf DEF JobInv
<1>1. /\ cand[c] = "verifying" /\ \A j \in R : job[j] \in Handled /\ job[j] \in Ended
      /\ pool' = Floor(pool - TotalOf(InputEstimate, R) + TotalOf(tokens, OkIn(R)))
      /\ cand' = [cand EXCEPT ![c] = "reviewed"]
      /\ UNCHANGED <<underWay, jobVars, ledgerVars>>
  BY DEF FinishCritics, Goto, Ended
<1>2. UNCHANGED job /\ UNCHANGED Unsettled
  BY <1>1 DEF jobVars, Unsettled
<1>3. PICK verdict \in [R -> FindingState] :
        /\ \A j \in R : verdict[j] \in Verdicts(job[j])
        /\ finding' = [x \in Candidate \X Role |->
                         IF Critic(x[1], x[2]) \in R
                         THEN verdict[Critic(x[1], x[2])] ELSE finding[x]]
  BY DEF FinishCritics
<1>4. /\ R \in SUBSET Job /\ \A j \in R : j[1] = c
      /\ \A r \in Role : /\ Critic(c, r) \in R <=> finding[<<c, r>>] = "held"
                         /\ Review(c, r) \notin R
  BY CriticsAre
<1>5. /\ finding' \in [Candidate \X Role -> FindingState]
      /\ \A r \in Role : finding'[<<c, r>>] = IF Critic(c, r) \in R
                                               THEN verdict[Critic(c, r)]
                                               ELSE finding[<<c, r>>]
      /\ \A d \in Candidate \ {c}, r \in Role : finding'[<<d, r>>] = finding[<<d, r>>]
  <2>1. \A d \in Candidate \ {c}, r \in Role : Critic(d, r) \notin R
    BY <1>4, AreJobs
  <2>2. finding \in [Candidate \X Role -> FindingState]
    BY <1>0 DEF RunTypeOK
  <2> HIDE DEF R
  <2> QED BY <1>3, <2>1, <2>2
<1>6. /\ Apart(c) /\ OnlyReviews'
      /\ cand' \in [Candidate -> CandidateState] /\ cand'[c] = "reviewed"
  BY <1>0, <1>1, <1>5 DEF Apart, RunTypeOK, CandidateState, InFlight, Complete, OnlyReviews, Review
<1>7. \A j \in R : j \in Holding /\ job[j] \in Ended
  <2>1. Holders
    BY HoldingIs
  <2>2. \A r \in Role : Critic(c, r) \in R => Critic(c, r) \in Holding
    BY <1>0, <1>1, <1>4, <2>1 DEF Holders
  <2>3. \A j \in R : j \in Holding
    BY <2>2 DEF CriticsOf
  <2> QED BY <1>1, <2>3
<1>10. Own(c)'
  <2> SUFFICES ASSUME NEW r \in Role
      PROVE  /\ job'[Review(c, r)] \in Busy => Review(c, r) \in underWay'
             /\ job'[Critic(c, r)] \notin Busy
             /\ finding'[<<c, r>>] \in Kept \ {"accepted"} =>
                  \/ job'[Critic(c, r)] = "ok"
                  \/ job'[Critic(c, r)] = "failed" /\ FailurePolicy = "fail_open"
    BY <1>6 DEF Own, Complete, Review, Critic
  <2>1. job'[Review(c, r)] \in Busy => Review(c, r) \in underWay'
    BY <1>0, <1>1, <1>2 DEF Own, Review
  <2>2. CASE Critic(c, r) \in R
    <3>1. /\ job[Critic(c, r)] \in Handled /\ job[Critic(c, r)] \in Ended
          /\ finding'[<<c, r>>] \in Verdicts(job[Critic(c, r)])
      BY <1>1, <1>3, <1>5, <2>2
    <3>2. FailurePolicy \in {"fail_open", "hold_for_review"}
      BY RunAssumption DEF RunAssumption
    <3>3. finding'[<<c, r>>] \in Kept \ {"accepted"} =>
                  \/ job'[Critic(c, r)] = "ok"
                  \/ job'[Critic(c, r)] = "failed" /\ FailurePolicy = "fail_open"
      BY <1>2, <3>1, <3>2 DEF Verdicts, Ended, Handled, Kept
    <3>4. job'[Critic(c, r)] \notin Busy
      BY <1>2, <3>1 DEF Busy
    <3> QED BY <2>1, <3>3, <3>4
  <2>3. CASE Critic(c, r) \notin R
    <3>1. finding'[<<c, r>>] = finding[<<c, r>>] /\ finding[<<c, r>>] # "held"
      BY <1>4, <1>5, <2>3
    <3>2. /\ finding[<<c, r>>] \notin {"verified", "unverified"}
          /\ job[Critic(c, r)] \notin Busy
      BY <1>0, <1>1, <3>1 DEF Own, Complete
    <3> QED BY <1>2, <2>1, <3>1, <3>2 DEF Kept
  <2> QED BY <2>2, <2>3
<1> HIDE DEF R
<1>11. PICK N : N = {}
  OBVIOUS
<1>12. \A r \in Role :
         /\ Review(c, r) \in underWay' <=>
              \/ Review(c, r) \in underWay /\ Review(c, r) \notin R
              \/ Review(c, r) \in N
         /\ (cand'[c] \in {"critiquing", "verifying", "raised"} /\ finding'[<<c, r>>] = "held") <=>
              \/ /\ cand[c] \in {"critiquing", "verifying", "raised"} /\ finding[<<c, r>>] = "held"
                 /\ Critic(c, r) \notin R
              \/ Critic(c, r) \in N
  BY <1>1, <1>4, <1>6, <1>11 DEF Review
<1>13. \A j \in N : j[1] = c
  BY <1>11
<1>14. \A j \in Job : j \in Holding' <=> (j \in Holding /\ j \notin R) \/ j \in N
  BY <1>0, <1>4, <1>6, <1>12, <1>13, HoldingAfter
<1>15. \A j \in Job : j \in Holding' <=> j \in Holding /\ j \notin R
  BY <1>11, <1>14
<1>16. Staged'
  BY <1>0, <1>2, <1>6, <1>10, OwnElsewhere DEF Unsettled
<1> QED BY <1>1, <1>2, <1>4, <1>5, <1>6, <1>7, <1>15, <1>16, SettleKeeps

-----------------------------------------------------------------------------
(* What both strategies keep.  The timeout leaves a reason in the ledger.  *)
LateIsReported == phase = "cancelled" => terminationReason # Book!NoReason
RunInv ==
    /\ JobInv /\ NotYetVerified /\ AnsweredOrFailed
    /\ PoolCeilingHeld /\ RefusalEndsPartial /\ LateIsReported

LEMMA RunInvIs ==
    RunInv <=> /\ RunTypeOK /\ Book!IInv /\ Attempted /\ RefusedByLedger
               /\ PoolIsShared /\ Staged /\ PoolCeilingHeld /\ RefusalEndsPartial
               /\ LateIsReported
BY DEF RunInv, JobInv, Staged

LEMMA PublishedWasAsked == RunInv => RefusalNeverPublishes
<1> SUFFICES ASSUME RunInv, NEW x \in Published, finding[x] # "accepted"
    PROVE  /\ NeverRefused(Critic(x[1], x[2]))
           /\ \/ job[Critic(x[1], x[2])] = "ok"
              \/ FailurePolicy = "fail_open" /\ AskedInVain(Critic(x[1], x[2]))
  BY DEF RefusalNeverPublishes
<1> DEFINE j == Critic(x[1], x[2])
<1>1. j \in Job
  BY AreJobs DEF Published
<1>2. job[j] = "ok" \/ (job[j] = "failed" /\ FailurePolicy = "fail_open")
  BY DEF RunInv, AnsweredOrFailed
<1>3. Tried(j) /\ (Denied(j) <=> ~NeverRefused(j))
  BY <1>1 DEF RunInv, JobInv, Attempted, RefusedByLedger
<1> HIDE DEF j
<1>4. NeverRefused(j)
  BY <1>2, <1>3 DEF Denied
<1>5. job[j] = "failed" => AskedInVain(j)
  BY <1>3 DEF Tried, Spent, AskedInVain
<1> QED BY <1>2, <1>4, <1>5 DEF j

(* The pool holds what jobs contribute and no more than the ceiling, in    *)
(* terms of the invariant.                                                 *)
LEMMA CeilingFromShares ==
    ASSUME RunTypeOK, Book!TypeOK, PoolIsShared, phase = "running"
    PROVE  PoolCeilingHeld
<1>1. /\ TotalOf(Gain, Job) \in Nat /\ pool \in Nat /\ MaxTotalInput \in Nat
      /\ overrun["input_tokens"] \in Nat
  BY SharesAreNat, JobAssumption
  DEF JobAssumption, RunTypeOK, Book!TypeOK, Book!Amounts, Book!Meter, Book!Token
<1>2. pool + TotalOf(Gain, Job) <= MaxTotalInput + overrun["input_tokens"]
  BY DEF PoolIsShared
<1> QED BY <1>1, <1>2 DEF PoolCeilingHeld

LEMMA LedgerStep ==
    ASSUME Book!IInv, Ledger!Next \/ UNCHANGED ledgerVars
    PROVE  Book!IInv'
<1>1. ASSUME Ledger!Next PROVE Book!Next
  <2>1. CASE Ledger!Elapse \/ Ledger!Terminate
    BY <2>1, SameElapse, SameTerminate DEF Book!Next
  <2>2. CASE \E call \in Calls : Ledger!CallStep(call)
    <3>1. PICK call \in Calls : Ledger!CallStep(call)
      BY <2>2
    <3>2. CASE Ledger!CallFails(call)
      BY <3>2, SameFails DEF Book!Next, Book!CallStep, Calls
    <3>3. CASE \E n \in InputUsage : Ledger!Reconcile(call, TokenCounts(n))
      <4>1. PICK n \in InputUsage : Ledger!Reconcile(call, TokenCounts(n))
        BY <3>3
      <4>2. Book!Reconcile(call, TokenCounts(n))
        BY <4>1, SameReconcile
      <4> QED BY <4>2 DEF Book!Next, Book!CallStep, Calls
    <3>4. CASE \E q \in Ledger!Requests : Ledger!MayAsk(q) /\ Ledger!ReserveCall(call, q)
      <4>1. PICK q \in Ledger!Requests : Ledger!MayAsk(q) /\ Ledger!ReserveCall(call, q)
        BY <3>4
      <4>2. Book!ReserveCall(call, q)
        BY <4>1, SameReserve
      <4>3. q \in Book!Requests /\ Book!MayAsk(q)
        BY <4>1 DEF Ledger!Requests, Book!Requests, Ledger!MayAsk, Book!MayAsk
      <4> QED BY <4>2, <4>3 DEF Book!Next, Book!CallStep, Calls
    <3>5. \/ Ledger!CallFails(call)
          \/ \E n \in InputUsage : Ledger!Reconcile(call, TokenCounts(n))
          \/ \E q \in Ledger!Requests : Ledger!MayAsk(q) /\ Ledger!ReserveCall(call, q)
      <4> USE <3>1 DEF Ledger!CallStep
      <4> QED OBVIOUS
    <3> QED BY <3>2, <3>3, <3>4, <3>5
  <2> QED BY <1>1, <2>1, <2>2 DEF Ledger!Next, Calls
<1>2. ASSUME UNCHANGED ledgerVars PROVE UNCHANGED Book!vars
  BY <1>2 DEF ledgerVars, Book!vars, Book!counterVars, Book!reasonVars, Book!callVars
<1> QED BY <1>1, <1>2, Book!NextIInv, LedgerAssumption

LEMMA RunStarts == InitRun => RunInv
<1> SUFFICES ASSUME InitRun PROVE RunInv
  OBVIOUS
<1>1. /\ Ledger!Init /\ job = [j \in Job |-> "idle"] /\ attempts = [j \in Job |-> 0]
      /\ ending = [j \in Job |-> "failed"] /\ tokens = [j \in Job |-> 0] /\ pool = 0
      /\ cand = [c \in Candidate |-> "waiting"]
      /\ finding = [x \in Candidate \X Role |-> "none"]
      /\ phase = "running" /\ status = "running" /\ underWay = {}
  BY DEF InitRun, InitJobs
<1>2. Book!IInv
  BY <1>1, SameInit, Book!InitIInv, LedgerAssumption
<1>3. RunTypeOK
  BY <1>1, JobAssumption
  DEF RunTypeOK, JobAssumption, JobState, Ended, Handled, CandidateState, InFlight, Complete,
      FindingState
<1>4. Attempted /\ RefusedByLedger
  <2>1. \A call \in Calls : callState[call] = "unused"
    BY <1>1 DEF Ledger!Init, Calls
  <2> QED BY <1>1, <2>1, JobAssumption DEF Calls, JobAssumption, Attempted, Tried, Spent, RefusedByLedger, Denied, NeverRefused, Calling
<1>5. Staged
  <2>1. \A c \in Candidate : Own(c)
    <3> TAKE c \in Candidate
    <3>1. \A r \in Role : /\ cand[c] = "waiting" /\ finding[<<c, r>>] = "none"
                          /\ job[Review(c, r)] = "idle" /\ job[Critic(c, r)] = "idle"
      BY <1>1, AreJobs
    <3>2. "idle" \notin Busy
      BY DEF Busy
    <3> QED BY <3>1, <3>2 DEF Own, Complete
  <2> QED BY <1>1, <1>3, <2>1, OwnIs, ReviewsOnly DEF OwnStages
<1>6. \A j \in Job : Share[j] = 0 /\ Gain[j] = 0
  <2> TAKE j \in Job
  <2>1. job[j] = "idle" /\ j \notin Holding
    <3>1. PICK c \in Candidate, r \in Role : j = Review(c, r) \/ j = Critic(c, r)
      BY JobIs
    <3>2. Holders /\ OnlyReviews /\ cand[c] = "waiting"
      BY <1>1, <1>3, HoldingIs, ReviewsOnly
    <3> QED BY <1>1, <3>1, <3>2, AreJobs DEF Holders
  <2> QED BY <2>1 DEF Share, Gain, Answered, HoldsAgain
<1>7. TotalOf(Share, Job) = 0 /\ TotalOf(Gain, Job) = 0
  <2>1. PICK N : N = {}
    OBVIOUS
  <2>2. N \in SUBSET Job /\ \A j \in Job : /\ Share[j] \in Int /\ Gain[j] \in Int
                                           /\ Share[j] = IF j \in N THEN Share[j] ELSE 0
                                           /\ Gain[j] = IF j \in N THEN Gain[j] ELSE 0
    BY <1>6, <2>1
  <2>3. TotalOf(Share, Job) = TotalOf(Share, N) /\ TotalOf(Gain, Job) = TotalOf(Gain, N)
    BY <2>2, JobsAreFinite, TotalPart
  <2>4. TotalOf(Share, {}) = 0 /\ TotalOf(Gain, {}) = 0
    BY SameTotal, Book!TotalOfNone, LedgerAssumption
  <2> QED BY <2>1, <2>3, <2>4
<1>8. Book!TypeOK /\ overrun["input_tokens"] \in Nat /\ MaxTotalInput \in Nat
  BY <1>2, JobAssumption
  DEF Book!IInv, Book!TypeOK, Book!Amounts, Book!Meter, Book!Token, JobAssumption
<1>9. PoolIsShared
  BY <1>1, <1>7, <1>8 DEF PoolIsShared
<1>10. PoolCeilingHeld /\ RefusalEndsPartial /\ LateIsReported
  BY <1>1, <1>8 DEF PoolCeilingHeld, RefusalEndsPartial, LateIsReported
<1> QED BY <1>2, <1>3, <1>4, <1>5, <1>9, <1>10, RunInvIs

(* While the run goes on, the rest of the invariant follows. *)
RunningInv == RunKept /\ Book!IInv /\ phase = "running" => RunInv
LEMMA WhileRunning == RunningInv
<1> SUFFICES ASSUME RunKept, Book!IInv, phase = "running" PROVE RunInv
  BY DEF RunningInv
<1>1. /\ RunTypeOK /\ Attempted /\ RefusedByLedger /\ PoolIsShared /\ Staged
      /\ Book!TypeOK
  BY DEF RunKept, Book!IInv
<1>2. PoolCeilingHeld
  BY <1>1, CeilingFromShares
<1>3. RefusalEndsPartial /\ LateIsReported
  BY <1>1 DEF RefusalEndsPartial, RefusedByLedger, LateIsReported, Over
<1> QED BY <1>1, <1>2, <1>3, RunInvIs

LEMMA JobKeeps ==
    ASSUME RunInv, phase = "running", NEW j \in Job, JobStep(j), UNCHANGED runVars
    PROVE  RunInv' /\ Moved(j) /\ (Ledger!Next \/ UNCHANGED ledgerVars)
<1>0. JobInv /\ Staged /\ Book!IInv /\ RunTypeOK /\ OnlyReviews
  BY RunInvIs, ReviewsOnly DEF RunInv
<1>1. /\ RunTypeOK' /\ Attempted' /\ RefusedByLedger' /\ PoolIsShared'
      /\ Moved(j) /\ (Ledger!Next \/ UNCHANGED ledgerVars)
  BY <1>0, JobStepKeeps
<1>2. PICK c \in Candidate, r \in Role : j = Review(c, r) \/ j = Critic(c, r)
  BY JobIs
<1>3. UNCHANGED <<cand, finding, phase, status, underWay>> /\ OnlyReviews'
  BY <1>0 DEF runVars, OnlyReviews
<1>4. Apart(c) /\ \A k \in Job : k[1] # c => job'[k] = job[k]
  <2>1. Apart(c)
    BY <1>3 DEF Apart, Review
  <2>2. \A k \in Job : k[1] # c => job'[k] = job[k]
    BY <1>1, <1>2, AreJobs DEF Moved
  <2> QED BY <2>1, <2>2
<1>5. Own(c)'
  <2> SUFFICES ASSUME NEW s \in Role
      PROVE
        /\ job'[Review(c, s)] \in Busy => Review(c, s) \in underWay
        /\ job'[Critic(c, s)] \in Busy =>
             cand[c] \in {"critiquing", "verifying", "raised"} /\ finding[<<c, s>>] = "held"
        /\ cand[c] \notin {"verifying", "raised"} \cup Complete => job'[Critic(c, s)] = "idle"
        /\ cand[c] \notin Complete => finding[<<c, s>>] \notin {"verified", "unverified"}
        /\ (cand[c] = "reviewed" /\ finding[<<c, s>>] \in Kept \ {"accepted"}) =>
             \/ job'[Critic(c, s)] = "ok"
             \/ job'[Critic(c, s)] = "failed" /\ FailurePolicy = "fail_open"
    BY <1>3 DEF Own, Review, Critic
  <2>1. Own(c)
    BY <1>0, OwnOf
  <2>2. Review(c, s) # j => job'[Review(c, s)] = job[Review(c, s)]
    BY <1>1, AreJobs DEF Moved
  <2>3. Critic(c, s) # j => job'[Critic(c, s)] = job[Critic(c, s)]
    BY <1>1, AreJobs DEF Moved
  <2>4. Review(c, s) = j => Review(c, s) \in underWay
    BY <1>1, <2>1 DEF Own, Moved
  <2>5. Critic(c, s) = j => cand[c] \in {"verifying", "raised"} /\ finding[<<c, s>>] = "held"
    <3>1. Critic(c, s) = j => job[Critic(c, s)] # "idle" /\ job[Critic(c, s)] \in Busy
      BY <1>1 DEF Moved, Busy
    <3> QED BY <2>1, <3>1 DEF Own, Complete
  <2>6. /\ cand[c] \in {"verifying", "raised"} => cand[c] \notin Complete
        /\ "verifying" # "reviewed"
    BY DEF Complete
  <2> QED BY <2>1, <2>2, <2>3, <2>4, <2>5, <2>6 DEF Own
<1>6. Staged'
  BY <1>0, <1>3, <1>4, <1>5, OwnElsewhere
<1>7. Book!IInv'
  BY <1>0, <1>1, LedgerStep
<1>8. RunningInv'
  BY WhileRunning, PTL
<1> QED BY <1>0, <1>1, <1>3, <1>6, <1>7, <1>8 DEF RunKept, RunningInv

(* A step under the run's own control keeps the rest. *)
LEMMA StepKeeps ==
    ASSUME RunInv, phase' = "running", RunKept', UNCHANGED ledgerVars
    PROVE  RunInv'
<1>1. Book!IInv'
  BY RunInvIs, LedgerStep
<1>2. RunningInv'
  BY WhileRunning, PTL
<1> QED BY <1>1, <1>2 DEF RunningInv

(* Time passes, and the run's own time-out ends it. *)
LEMMA ElapseKeeps ==
    ASSUME RunInv, phase = "running", Elapse
    PROVE  RunInv' /\ Ledger!Next
<1>1. Ledger!Next
  BY DEF Elapse, Ledger!Next
<1>2. /\ UNCHANGED <<job, attempts, ending, tokens, pool, cand, finding, phase, status, underWay>>
      /\ UNCHANGED <<callState, charge, overrun>>
  BY SameElapse DEF Elapse, Book!Elapse, Book!callVars, jobVars, runVars
<1>3. Book!IInv'
  BY <1>1, RunInvIs, LedgerStep
<1>4. /\ RunTypeOK /\ Attempted /\ RefusedByLedger /\ PoolIsShared /\ Staged
  BY RunInvIs
<1>5. RunTypeOK' /\ Attempted' /\ RefusedByLedger'
  BY <1>2, <1>4 DEF RunTypeOK, Attempted, Tried, Spent, RefusedByLedger,
         Denied, NeverRefused, Calling
<1>6. Holding' = Holding
  BY <1>2 DEF Holding, HeldCritics, CriticsOf, Critic
<1>7. PoolIsShared'
  <2>1. Share' = Share /\ Gain' = Gain
    BY <1>2, <1>6 DEF Share, Gain, Answered
  <2> QED BY <1>2, <1>4, <2>1 DEF PoolIsShared
<1>8. Staged'
  BY <1>2, <1>4, <1>6
  DEF Staged, Stages, NotYetVerified, AnsweredOrFailed, Published, Review, Critic
<1>9. RunningInv'
  BY WhileRunning, PTL
<1> QED BY <1>1, <1>2, <1>3, <1>5, <1>7, <1>8, <1>9 DEF RunKept, RunningInv

LEMMA TimeOutKeeps ==
    ASSUME RunInv, phase = "running", TimeOut
    PROVE  RunInv' /\ Ledger!Next
<1>1. Ledger!Next
  BY DEF TimeOut, Ledger!Next
<1>2. /\ UNCHANGED <<job, attempts, ending, tokens, pool, finding, status, underWay>>
      /\ UNCHANGED <<callState, charge, overrun>> /\ phase' = "cancelled"
      /\ cand' = [c \in Candidate |->
                    IF cand[c] \in Complete THEN cand[c] ELSE "skipped"]
  BY SameTerminate DEF TimeOut, Book!Terminate, Book!callVars, jobVars
<1>3. Book!IInv'
  BY <1>1, RunInvIs, LedgerStep
<1>4. /\ RunTypeOK /\ Attempted /\ RefusedByLedger /\ Staged /\ PoolCeilingHeld
  BY RunInvIs
<1>5. RunTypeOK'
  BY <1>2, <1>4 DEF RunTypeOK, CandidateState, Complete
<1>6. Attempted' /\ RefusedByLedger'
  BY <1>2, <1>4 DEF Attempted, Tried, Spent, RefusedByLedger, Denied, NeverRefused, Calling, Over
<1>7. PoolIsShared' /\ Stages'
  BY <1>2 DEF PoolIsShared, Stages
<1>8. NotYetVerified'
  BY <1>2 DEF NotYetVerified, Complete
<1>9. AnsweredOrFailed'
  <2>1. Published' \subseteq Published
    BY <1>2 DEF Published
  <2> QED BY <1>2, <1>4, <2>1 DEF Staged, AnsweredOrFailed, Critic
<1>10. PoolCeilingHeld' /\ RefusalEndsPartial' /\ LateIsReported'
  <2>1. terminationReason' # Book!NoReason
    BY SameTerminate DEF TimeOut, Book!Terminate, Book!NoReason
  <2> QED
    BY <1>2, <1>4, <2>1
    DEF PoolCeilingHeld, RefusalEndsPartial, RefusedByLedger, LateIsReported, Over
<1> QED
  BY <1>1, <1>3, <1>5, <1>6, <1>7, <1>8, <1>9, <1>10 DEF RunInv, JobInv

LEMMA EndKeeps ==
    ASSUME RunInv, EndRun
    PROVE  RunInv' /\ UNCHANGED ledgerVars
<1>1. /\ UNCHANGED <<job, attempts, ending, tokens, pool, cand, finding, underWay>>
      /\ UNCHANGED ledgerVars /\ phase' \in Over /\ status' = RunStatus
      /\ phase' = "timed_out" => phase = "cancelled"
  BY DEF EndRun, jobVars, Over
<1>2. UNCHANGED <<callState, charge, overrun>>
  BY <1>1 DEF ledgerVars
<1>3. Book!IInv /\ Book!IInv'
  BY <1>1, RunInvIs, LedgerStep
<1>4. /\ RunTypeOK /\ Attempted /\ RefusedByLedger /\ Staged /\ PoolCeilingHeld
      /\ LateIsReported
  BY RunInvIs
<1>5. RunTypeOK'
  BY <1>1, <1>4 DEF RunTypeOK, RunStatus
<1>6. Attempted' /\ RefusedByLedger'
  BY <1>1, <1>2, <1>4 DEF Attempted, Tried, Spent, RefusedByLedger, Denied, NeverRefused, Calling
<1>7. PoolIsShared' /\ Stages' /\ LateIsReported'
  BY <1>1 DEF PoolIsShared, Stages, LateIsReported, Over
<1>8. NotYetVerified' /\ AnsweredOrFailed'
  BY <1>1, <1>4 DEF Staged, NotYetVerified, AnsweredOrFailed, Published, Critic
<1>9. PoolCeilingHeld'
  BY <1>1, <1>2, <1>4 DEF PoolCeilingHeld
<1>10. RefusalEndsPartial'
  <2> SUFFICES ASSUME RunStatus = "succeeded"
      PROVE  /\ phase' # "timed_out"
             /\ \A j \in Job : job[j] # "refused"
             /\ \A call \in DOMAIN callState : callState[call] # "refused"
    BY <1>1, <1>2 DEF RefusalEndsPartial
  <2>1. Book!ReportedReason = Book!NoReason
    BY SameReason DEF RunStatus
  <2>2. \A call \in Calls : callState[call] # "refused"
    BY <1>3, <2>1 DEF Book!IInv, Book!RefusalIsReported, Calls
  <2>3. DOMAIN callState = Calls
    BY <1>3 DEF Book!IInv, Book!TypeOK, Calls
  <2>4. phase' # "timed_out"
    BY <1>1, <1>4, <2>1 DEF LateIsReported, Book!ReportedReason, Book!NoReason
  <2>5. \A j \in Job : job[j] # "refused"
    BY <1>4, <2>2 DEF RefusedByLedger, Denied, NeverRefused, Calls
  <2> QED BY <2>2, <2>3, <2>4, <2>5
<1> QED
  BY <1>1, <1>3, <1>5, <1>6, <1>7, <1>8, <1>9, <1>10 DEF RunInv, JobInv

(* An exception ends the run with what it had, and marks it failed. *)
LEMMA FailRunKeeps ==
    ASSUME RunInv, FailRun
    PROVE  RunInv' /\ UNCHANGED ledgerVars
<1>1. /\ UNCHANGED <<job, attempts, ending, tokens, pool, cand, finding, underWay>>
      /\ UNCHANGED ledgerVars /\ phase' = "ended" /\ status' = "failed"
  BY DEF FailRun, jobVars
<1>2. UNCHANGED <<callState, charge, overrun>>
  BY <1>1 DEF ledgerVars
<1>3. Book!IInv'
  BY <1>1, RunInvIs, LedgerStep
<1>4. /\ RunTypeOK /\ Attempted /\ RefusedByLedger /\ Staged /\ PoolCeilingHeld
  BY RunInvIs
<1>5. RunTypeOK'
  BY <1>1, <1>4 DEF RunTypeOK, Over
<1>6. Attempted' /\ RefusedByLedger'
  BY <1>1, <1>2, <1>4
  DEF Attempted, Tried, Spent, RefusedByLedger, Denied, NeverRefused, Calling, Over
<1>7. PoolIsShared' /\ Stages' /\ LateIsReported' /\ RefusalEndsPartial'
  BY <1>1 DEF PoolIsShared, Stages, LateIsReported, RefusalEndsPartial
<1>8. NotYetVerified' /\ AnsweredOrFailed' /\ PoolCeilingHeld'
  BY <1>1, <1>2, <1>4
  DEF Staged, NotYetVerified, AnsweredOrFailed, Published, Critic, PoolCeilingHeld
<1> QED BY <1>1, <1>3, <1>5, <1>6, <1>7, <1>8 DEF RunInv, JobInv

LEMMA StutterKeeps ==
    ASSUME RunInv, UNCHANGED <<ledgerVars, jobVars, pool, runVars>>
    PROVE  RunInv'
<1>1. /\ UNCHANGED <<job, attempts, ending, tokens, pool, cand, finding, phase, status, underWay>>
      /\ UNCHANGED ledgerVars
  BY DEF jobVars, runVars
<1>2. UNCHANGED <<callState, charge, overrun>>
  BY <1>1 DEF ledgerVars
<1>3. Book!IInv'
  BY <1>1, RunInvIs, LedgerStep
<1>4. Holding' = Holding
  BY <1>1 DEF Holding, HeldCritics, CriticsOf, Critic
<1>5. Share' = Share /\ Gain' = Gain
  BY <1>1, <1>4 DEF Share, Gain, Answered
<1>6. RunTypeOK' /\ Attempted' /\ RefusedByLedger'
  BY <1>1, <1>2 DEF RunInv, JobInv, RunTypeOK, Attempted, Tried, Spent, RefusedByLedger,
         Denied, NeverRefused, Calling
<1>7. PoolIsShared' /\ Stages'
  BY <1>1, <1>2, <1>4, <1>5 DEF RunInv, JobInv, PoolIsShared, Stages, Critic
<1>8. /\ NotYetVerified' /\ AnsweredOrFailed' /\ PoolCeilingHeld'
      /\ RefusalEndsPartial' /\ LateIsReported'
  BY <1>1, <1>2
  DEF RunInv, NotYetVerified, AnsweredOrFailed, Published, Critic,
      PoolCeilingHeld, RefusalEndsPartial, LateIsReported, ledgerVars
<1> QED BY <1>3, <1>6, <1>7, <1>8 DEF RunInv, JobInv

(* The pool, read from the jobs' shares: the estimates held, those held    *)
(* once more for a hop, and what answered jobs used.                       *)
LEMMA PoolFromShares ==
    ASSUME RunTypeOK, PoolIsShared, phase = "running"
    PROVE  PoolAccountsFor(underWay)
<1> SUFFICES pool = TotalOf(InputEstimate, Holding)
             + TotalOf(InputEstimate, {j \in Job : job[j] \in HoldsAgain})
             + TotalOf(tokens, {j \in Job \ Holding : job[j] = "ok"})
  BY DEF PoolAccountsFor, Holding
<1> DEFINE Again == {j \in Job : job[j] \in HoldsAgain}
           Usages == {j \in Job \ Holding : job[j] = "ok"}
           A == [j \in Job |-> IF j \in Holding THEN InputEstimate[j] ELSE 0]
           B == [j \in Job |-> IF j \in Again THEN InputEstimate[j] ELSE 0]
           T == [j \in Job |-> IF j \in Usages THEN tokens[j] ELSE 0]
           AB == [j \in Job |-> A[j] + B[j]]
<1>1. \A j \in Job : tokens[j] \in Nat
  <2>1. \A j \in Job : tokens[j] \in InputUsage \cup {0}
    BY DEF RunTypeOK
  <2>2. InputUsage \cup {0} \subseteq Nat
    BY EstimateType
  <2> QED BY <2>1, <2>2
<1>2. Again \in SUBSET Job /\ Usages \in SUBSET Job
  OBVIOUS
<1>3. Holding \in SUBSET Job
  <2>1. \A c \in Candidate : CriticsOf(c) \subseteq Job
    BY CriticsAre
  <2>2. underWay \subseteq Job
    BY DEF RunTypeOK
  <2> QED BY <2>1, <2>2 DEF Holding, HeldCritics
<1>4. \A j \in Job : /\ A[j] = IF j \in Holding THEN InputEstimate[j] ELSE 0
                     /\ B[j] = IF j \in Again THEN InputEstimate[j] ELSE 0
                     /\ T[j] = IF j \in Usages THEN tokens[j] ELSE 0
                     /\ AB[j] = A[j] + B[j]
                     /\ InputEstimate[j] \in Int /\ tokens[j] \in Int
                     /\ A[j] \in Int /\ B[j] \in Int /\ T[j] \in Int /\ AB[j] \in Int
  BY <1>1, EstimateType
<1>5. \A j \in Job : Share[j] = AB[j] + T[j]
  <2> TAKE j \in Job
  <2>1. (j \in Again <=> job[j] \in HoldsAgain)
        /\ (j \in Usages <=> j \notin Holding /\ job[j] = "ok")
    OBVIOUS
  <2> HIDE DEF Again, Usages, A, B, T, AB
  <2>2. "ok" \notin HoldsAgain
    BY DEF HoldsAgain
  <2> QED BY <1>1, <1>4, <2>1, <2>2, EstimateType DEF Share
<1> HIDE DEF Again, Usages, A, B, T, AB
<1>6. /\ TotalOf(A, Job) = TotalOf(InputEstimate, Holding)
      /\ TotalOf(B, Job) = TotalOf(InputEstimate, Again)
      /\ TotalOf(T, Job) = TotalOf(tokens, Usages)
  BY <1>2, <1>3, <1>4, JobsAreFinite, TotalPart
<1>7. TotalOf(AB, Job) = TotalOf(A, Job) + TotalOf(B, Job)
  BY <1>4, JobsAreFinite, TotalSum
<1>8. TotalOf(Share, Job) = TotalOf(AB, Job) + TotalOf(T, Job)
  BY <1>4, <1>5, JobsAreFinite, TotalSum
<1>9. pool = TotalOf(Share, Job)
  BY DEF PoolIsShared
<1> QED BY <1>6, <1>7, <1>8, <1>9 DEF Again, Usages

-----------------------------------------------------------------------------
(* The specialist strategy: the reviews under way are those of the         *)
(* candidates that are being reviewed, or whose review raised; they start  *)
(* with the review and end with it, and critics come after it.             *)
RolesOf(c) ==
    \A r \in Role :
      /\ Review(c, r) \in underWay <=> Owed(c)
      /\ cand[c] \in {"waiting", "prepared", "preparing"} => job[Review(c, r)] = "idle"
      /\ cand[c] # "reviewing" => job[Review(c, r)] \notin Busy
      /\ cand[c] \in {"waiting", "prepared", "preparing", "reviewing"} =>
           finding[<<c, r>>] # "held"
RolesHeld == phase = "running" => \A c \in Candidate : RolesOf(c)

IInv == RunInv /\ RolesHeld

LEMMA RolesElsewhere ==
    ASSUME RolesHeld, phase = "running", NEW c \in Candidate, Apart(c),
           \A j \in Job : j[1] # c => job'[j] = job[j], RolesOf(c)'
    PROVE  RolesHeld'
<1> SUFFICES ASSUME NEW d \in Candidate PROVE RolesOf(d)'
  BY DEF RolesHeld
<1>1. CASE d = c
  BY <1>1
<1>2. CASE d # c
  <2>1. RolesOf(d)
    BY DEF RolesHeld
  <2>2. \A r \in Role : job'[Review(d, r)] = job[Review(d, r)]
    BY <1>2, AreJobs
  <2>3. /\ cand'[d] = cand[d]
        /\ \A r \in Role : Review(d, r) \in underWay' <=> Review(d, r) \in underWay
    BY <1>2 DEF Apart
  <2>4. Owed(d)' <=> Owed(d)
    BY <2>2, <2>3 DEF Owed, ReviewsOf, Review
  <2>5. \A r \in Role : finding'[<<d, r>>] = finding[<<d, r>>]
    BY <1>2 DEF Apart
  <2> SUFFICES ASSUME NEW r \in Role
      PROVE  /\ Review(d, r) \in underWay' <=> Owed(d)'
             /\ cand'[d] \in {"waiting", "prepared", "preparing"} =>
                  job'[Review(d, r)] = "idle"
             /\ cand'[d] # "reviewing" => job'[Review(d, r)] \notin Busy
             /\ cand'[d] \in {"waiting", "prepared", "preparing", "reviewing"} =>
                  finding'[<<d, r>>] # "held"
    BY DEF RolesOf, Review, Busy
  <2> QED BY <2>1, <2>2, <2>3, <2>4, <2>5 DEF RolesOf
<1> QED BY <1>1, <1>2

(* Steps that leave a candidate's reviews alone. *)
LEMMA RolesUntouched ==
    ASSUME RolesHeld, phase = "running", NEW c \in Candidate,
           \A d \in Candidate \ {c} :
             /\ cand'[d] = cand[d]
             /\ \A r \in Role : finding'[<<d, r>>] = finding[<<d, r>>],
           underWay' = underWay,
           \A d \in Candidate, r \in Role : job'[Review(d, r)] = job[Review(d, r)],
           cand'[c] # "reviewing", cand[c] # "reviewing",
           cand'[c] \in {"waiting", "prepared", "preparing"} =>
             /\ cand[c] \in {"waiting", "prepared", "preparing"}
             /\ \A r \in Role : finding'[<<c, r>>] = finding[<<c, r>>]
    PROVE  RolesHeld'
<1> SUFFICES ASSUME NEW d \in Candidate, NEW r \in Role
    PROVE  /\ Review(d, r) \in underWay' <=> Owed(d)'
           /\ cand'[d] \in {"waiting", "prepared", "preparing"} =>
                job'[Review(d, r)] = "idle"
           /\ cand'[d] # "reviewing" => job'[Review(d, r)] \notin Busy
           /\ cand'[d] \in {"waiting", "prepared", "preparing", "reviewing"} =>
                finding'[<<d, r>>] # "held"
  BY DEF RolesHeld, RolesOf, Review, Busy
<1>1. RolesOf(d)
  BY DEF RolesHeld
<1>2. cand'[d] = "reviewing" <=> cand[d] = "reviewing"
  OBVIOUS
<1>3. Owed(d)' <=> Owed(d)
  BY <1>2 DEF Owed, ReviewsOf, Review
<1> QED BY <1>1, <1>2, <1>3 DEF RolesOf

LEMMA ReviewsAre ==
    ASSUME NEW c \in Candidate
    PROVE  /\ ReviewsOf(c) \in SUBSET Job /\ IsFiniteSet(ReviewsOf(c))
           /\ \A j \in ReviewsOf(c) : j[1] = c
           /\ \A r \in Role : Review(c, r) \in ReviewsOf(c) /\ Critic(c, r) \notin ReviewsOf(c)
           /\ \A j \in Job \ Critique : j \in ReviewsOf(c) <=> j[1] = c
           /\ ReviewsOf(c) \cap Critique = {}
<1>1. ReviewsOf(c) \in SUBSET Job /\ \A j \in ReviewsOf(c) : j[1] = c
  BY AreJobs DEF ReviewsOf
<1>2. \A r \in Role : Review(c, r) \in ReviewsOf(c) /\ Critic(c, r) \notin ReviewsOf(c)
  BY DEF ReviewsOf, Review, Critic
<1>3. ReviewsOf(c) \cap Critique = {}
  BY RunAssumption DEF RunAssumption, RunCritiques, ReviewsOf, Review
<1>4. ASSUME NEW j \in Job \ Critique, j[1] = c PROVE j \in ReviewsOf(c)
  <2>1. PICK d \in Candidate, r \in Role : j = Review(d, r) \/ j = Critic(d, r)
    BY JobIs
  <2>2. d = c
    BY <1>4, <2>1, AreJobs
  <2>3. Critic(c, r) \in Critique
    BY RunAssumption DEF RunAssumption, RunCritiques, Critic
  <2> QED BY <2>1, <2>2, <2>3 DEF ReviewsOf
<1> QED BY <1>1, <1>2, <1>3, <1>4, JobsAreFinite, FS_Subset

LEMMA PrepareKeeps ==
    ASSUME IInv, phase = "running", NEW c \in Candidate,
           Prepare(c), UNCHANGED <<phase, status>>
    PROVE  RunKept' /\ RolesHeld' /\ UNCHANGED ledgerVars
<1>0. JobInv /\ Staged /\ RolesHeld /\ RunTypeOK
  BY RunInvIs DEF IInv, RunInv
<1>1. /\ cand[c] = "waiting" /\ Goto(c, "preparing")
      /\ UNCHANGED <<finding, underWay, jobVars, pool, ledgerVars, phase, status>>
  BY DEF Prepare
<1>2. /\ "waiting" \notin Complete \cup {"critiquing", "verifying", "raised"}
      /\ "preparing" \in CandidateState
  BY DEF Complete, CandidateState, InFlight
<1>3. RunKept' /\ UNCHANGED ledgerVars
  BY <1>0, <1>1, <1>2, MoveKeeps
<1>4. RolesHeld'
  <2>1. cand'[c] = "preparing" /\ \A d \in Candidate \ {c} : cand'[d] = cand[d]
    BY <1>0, <1>1 DEF Goto, RunTypeOK
  <2>2. /\ \A d \in Candidate, r \in Role : job'[Review(d, r)] = job[Review(d, r)]
        /\ \A d \in Candidate, r \in Role : finding'[<<d, r>>] = finding[<<d, r>>]
        /\ underWay' = underWay
    BY <1>1 DEF jobVars
  <2>3. \A d \in Candidate \ {c} :
          /\ cand'[d] = cand[d]
          /\ \A r \in Role : finding'[<<d, r>>] = finding[<<d, r>>]
    BY <2>1, <2>2
  <2> QED BY <1>0, <1>1, <2>1, <2>2, <2>3, RolesUntouched
<1> QED BY <1>3, <1>4

LEMMA CriticsKeep ==
    ASSUME IInv, phase = "running", NEW c \in Candidate,
           \/ PrepareFails(c) \/ StartCritics(c) \/ FinishCritics(c) \/ CriticsRaise(c)
           \/ \E r \in Role : HoldCritic(c, r),
           UNCHANGED <<phase, status>>
    PROVE  RunKept' /\ RolesHeld' /\ UNCHANGED ledgerVars
<1>0. JobInv /\ Staged /\ RolesHeld /\ RunTypeOK
  BY RunInvIs DEF IInv, RunInv
<1>1. RunKept' /\ UNCHANGED ledgerVars
  BY <1>0, PrepareFailsKeeps, HoldCriticKeeps, StartCriticsKeeps, FinishCriticsKeeps,
     CriticsRaiseKeeps
<1>2. \A d \in Candidate, r \in Role : job'[Review(d, r)] = job[Review(d, r)]
  <2>1. CASE StartCritics(c)
    <3>1. \A d \in Candidate, r \in Role : Review(d, r) \in Job \ CriticsOf(c)
      BY AreJobs DEF CriticsOf, Critic, Review
    <3> QED BY <2>1, <3>1 DEF StartCritics, Start
  <2>2. CASE ~StartCritics(c)
    BY <2>2 DEF PrepareFails, FinishCritics, CriticsRaise, HoldCritic, jobVars
  <2> QED BY <2>1, <2>2
<1>3. /\ underWay' = underWay /\ \A d \in Candidate \ {c} : cand'[d] = cand[d]
      /\ cand[c] \in {"preparing", "critiquing", "verifying"}
      /\ cand'[c] \in {"failed", "critiquing", "reviewed", "verifying", "raised"}
  BY <1>0
  DEF PrepareFails, StartCritics, FinishCritics, CriticsRaise, HoldCritic, Goto, RunTypeOK
<1>4. \A d \in Candidate \ {c}, r \in Role : finding'[<<d, r>>] = finding[<<d, r>>]
  <2> SUFFICES ASSUME NEW d \in Candidate \ {c}, NEW r \in Role
      PROVE  finding'[<<d, r>>] = finding[<<d, r>>]
    OBVIOUS
  <2>1. CASE FinishCritics(c)
    <3>1. Critic(d, r) \notin CriticsOf(c)
      BY CriticsAre, AreJobs
    <3> QED BY <2>1, <3>1 DEF FinishCritics
  <2>2. CASE \E s \in Role : HoldCritic(c, s)
    BY <1>0, <2>2 DEF HoldCritic, RunTypeOK
  <2>3. CASE PrepareFails(c) \/ StartCritics(c) \/ CriticsRaise(c)
    BY <2>3 DEF PrepareFails, StartCritics, CriticsRaise
  <2> QED BY <2>1, <2>2, <2>3
<1>5. \A d \in Candidate \ {c} :
        /\ cand'[d] = cand[d]
        /\ \A r \in Role : finding'[<<d, r>>] = finding[<<d, r>>]
  BY <1>3, <1>4
<1>6. RolesHeld'
  BY <1>0, <1>2, <1>3, <1>5, RolesUntouched
<1> QED BY <1>1, <1>6

LEMMA RolesRaiseKeeps ==
    ASSUME IInv, phase = "running", NEW c \in Candidate,
           RolesRaise(c), UNCHANGED <<phase, status>>
    PROVE  RunKept' /\ RolesHeld' /\ UNCHANGED ledgerVars
<1>0. /\ JobInv /\ Staged /\ RolesHeld /\ RunTypeOK /\ OnlyReviews /\ RolesOf(c)
  BY RunInvIs, ReviewsOnly DEF IInv, RunInv, RolesHeld
<1>1. /\ cand[c] = "reviewing" /\ Goto(c, "raised")
      /\ UNCHANGED <<finding, underWay, jobVars, pool, ledgerVars, phase, status>>
      /\ \A j \in ReviewsOf(c) : job[j] \in Ended
      /\ \E j \in ReviewsOf(c) : job[j] = "raised"
  BY DEF RolesRaise
<1>2. /\ "reviewing" \notin Complete \cup {"critiquing", "verifying", "raised"}
      /\ "raised" \in CandidateState
      /\ \A r \in Role : finding[<<c, r>>] # "held"
  BY <1>0, <1>1 DEF Complete, CandidateState, RolesOf
<1>3. RunKept' /\ UNCHANGED ledgerVars
  BY <1>0, <1>1, <1>2, MoveKeeps
<1>4. cand'[c] = "raised" /\ \A d \in Candidate \ {c} : cand'[d] = cand[d]
  BY <1>0, <1>1 DEF Goto, RunTypeOK
<1>5. job' = job /\ \A j \in Job : j[1] # c => job'[j] = job[j]
  BY <1>1 DEF jobVars
<1>6. Apart(c)
  BY <1>1, <1>4 DEF Apart, Review
<1>7. RolesOf(c)'
  <2>1. Owed(c) /\ Owed(c)'
    BY <1>1, <1>5 DEF Owed, ReviewsOf, Review
  <2>2. \A r \in Role : job[Review(c, r)] \notin Busy
    BY <1>1 DEF Busy, ReviewsOf
  <2> QED BY <1>0, <1>1, <1>4, <1>5, <2>1, <2>2 DEF RolesOf, Review, Busy
<1>8. RolesHeld'
  BY <1>0, <1>5, <1>6, <1>7, RolesElsewhere
<1> QED BY <1>3, <1>8

LEMMA HoldRolesKeeps ==
    ASSUME IInv, phase = "running", NEW c \in Candidate,
           HoldRoles(c), UNCHANGED <<phase, status>>
    PROVE  RunKept' /\ RolesHeld' /\ UNCHANGED ledgerVars
<1> DEFINE R == ReviewsOf(c)
<1>0. /\ JobInv /\ Staged /\ RolesHeld /\ RunTypeOK /\ OnlyReviews
      /\ Own(c) /\ RolesOf(c)
  BY RunInvIs, ReviewsOnly, OwnOf DEF IInv, RunInv, RolesHeld
<1>1. /\ cand[c] = "preparing" /\ UNCHANGED <<finding, ledgerVars>>
      /\ \/ /\ pool' = pool + TotalOf(InputEstimate, R)
            /\ Fits(TotalOf(InputEstimate, R))
            /\ Goto(c, "reviewing") /\ Start(R) /\ underWay' = underWay \cup R
         \/ /\ Goto(c, "skipped")
            /\ UNCHANGED <<pool, job, underWay>>
      /\ UNCHANGED <<attempts, ending, tokens>>
  BY DEF HoldRoles
<1>2. UNCHANGED Unsettled
  BY <1>1 DEF Unsettled
<1>3. CASE /\ pool' = pool + TotalOf(InputEstimate, R)
           /\ Fits(TotalOf(InputEstimate, R))
           /\ Goto(c, "reviewing") /\ Start(R) /\ underWay' = underWay \cup R
  <2>1. /\ cand'[c] = "reviewing" /\ cand' \in [Candidate -> CandidateState]
        /\ \A d \in Candidate \ {c} : cand'[d] = cand[d]
    BY <1>0, <1>3 DEF RunTypeOK, Goto, CandidateState, InFlight
  <2>2. /\ R \in SUBSET Job /\ IsFiniteSet(R) /\ \A j \in R : j[1] = c
        /\ \A r \in Role : Review(c, r) \in R /\ Critic(c, r) \notin R
        /\ R \cap Critique = {}
    BY ReviewsAre
  <2>3. \A j \in R : job[j] = "idle" /\ j \notin Holding
    <3>1. \A r \in Role : job[Review(c, r)] = "idle" /\ Review(c, r) \notin Holding
      BY <1>0, <1>1, HoldingIs DEF RolesOf, Holders, Owed, ReviewsOf
    <3> QED BY <3>1 DEF ReviewsOf
  <2> HIDE DEF R
  <2>4. finding' \in [Candidate \X Role -> FindingState] /\ OnlyReviews'
    BY <1>0, <1>1, <1>3, <2>2 DEF RunTypeOK, OnlyReviews
  <2>5. Apart(c)
    <3> SUFFICES ASSUME NEW d \in Candidate \ {c}, NEW r \in Role
        PROVE  Review(d, r) \in underWay' <=> Review(d, r) \in underWay
      BY <1>1, <2>1 DEF Apart, Review
    <3>1. Review(d, r) \notin R
      BY <2>2, AreJobs
    <3> QED BY <1>3, <3>1
  <2>6. PICK N : N = {}
    OBVIOUS
  <2>7. \A r \in Role :
          /\ Review(c, r) \in underWay' <=>
               \/ Review(c, r) \in underWay /\ Review(c, r) \notin N
               \/ Review(c, r) \in R
          /\ (cand'[c] \in {"critiquing", "verifying", "raised"} /\ finding'[<<c, r>>] = "held") <=>
               \/ /\ cand[c] \in {"critiquing", "verifying", "raised"} /\ finding[<<c, r>>] = "held"
                  /\ Critic(c, r) \notin N
               \/ Critic(c, r) \in R
    BY <1>1, <1>3, <2>1, <2>2, <2>6 DEF Review
  <2>8. \A j \in N : j[1] = c
    BY <2>6
  <2>9. \A j \in Job : j \in Holding' <=> (j \in Holding /\ j \notin N) \/ j \in R
    BY <1>0, <2>2, <2>4, <2>5, <2>7, <2>8, HoldingAfter
  <2>10. \A j \in Job : j \in Holding' <=> j \in Holding \/ j \in R
    BY <2>6, <2>9
  <2>11. \A r \in Role : /\ job'[Critic(c, r)] = job[Critic(c, r)]
                         /\ Review(c, r) \in underWay'
    BY <1>3, <2>2, AreJobs DEF Start
  <2>12. Own(c)'
    <3> SUFFICES ASSUME NEW r \in Role
        PROVE  /\ Review(c, r) \in underWay' /\ job'[Critic(c, r)] = "idle"
               /\ finding'[<<c, r>>] \notin {"verified", "unverified"}
      BY <2>1 DEF Own, Complete, Busy, Review, Critic
    <3> QED BY <1>0, <1>1, <2>11 DEF Own, Complete
  <2>13. \A j \in Job : j[1] # c => job'[j] = job[j]
    BY <1>3, <2>2 DEF Start
  <2>14. Staged'
    BY <1>0, <1>2, <2>4, <2>5, <2>12, <2>13, OwnElsewhere DEF Unsettled
  <2>15. RolesOf(c)'
    BY <1>0, <1>1, <2>1, <2>11 DEF RolesOf, Owed, Review
  <2>16. RolesHeld'
    BY <1>0, <2>5, <2>13, <2>15, RolesElsewhere
  <2>17. RunKept'
    <3>1. \A j \in R \cup R : job[j] = "idle"
      BY <2>3
    <3>2. \A j \in R : j \notin Holding
      BY <2>3
    <3> QED BY <1>0, <1>2, <1>3, <2>1, <2>2, <2>4, <2>10, <2>14, <3>1, <3>2, HoldKeeps
  <2> QED BY <1>1, <2>16, <2>17
<1>4. CASE Goto(c, "skipped") /\ UNCHANGED <<pool, job, underWay>>
  <2>1. /\ "preparing" \notin Complete \cup {"critiquing", "verifying", "raised"}
        /\ "skipped" \in CandidateState
        /\ UNCHANGED <<finding, underWay, jobVars, pool, ledgerVars, phase, status>>
    BY <1>1, <1>4 DEF Complete, CandidateState, jobVars
  <2>2. RunKept'
    BY <1>0, <1>1, <1>4, <2>1, MoveKeeps
  <2>3. /\ cand'[c] = "skipped"
        /\ \A d \in Candidate \ {c} :
             /\ cand'[d] = cand[d]
             /\ \A r \in Role : finding'[<<d, r>>] = finding[<<d, r>>]
    BY <1>0, <1>1, <1>4 DEF RunTypeOK, Goto
  <2>4. RolesHeld'
    BY <1>0, <1>1, <1>4, <2>3, RolesUntouched
  <2> QED BY <1>1, <2>2, <2>4
<1> QED BY <1>1, <1>3, <1>4

LEMMA FinishRolesKeeps ==
    ASSUME IInv, phase = "running", NEW c \in Candidate,
           FinishRoles(c), UNCHANGED <<phase, status>>
    PROVE  RunKept' /\ RolesHeld' /\ UNCHANGED ledgerVars
<1> DEFINE R == ReviewsOf(c)
<1>0. /\ JobInv /\ Staged /\ RolesHeld /\ RunTypeOK /\ OnlyReviews
      /\ Own(c) /\ RolesOf(c)
  BY RunInvIs, ReviewsOnly, OwnOf DEF IInv, RunInv, RolesHeld
<1>1. /\ cand[c] = "reviewing" /\ \A j \in R : job[j] \in Ended /\ job[j] # "raised"
      /\ pool' = Floor(pool - TotalOf(InputEstimate, R) + TotalOf(tokens, OkIn(R)))
      /\ underWay' = underWay \ R
      /\ UNCHANGED <<jobVars, ledgerVars>>
  BY DEF FinishRoles, Ended, Handled
<1>2. UNCHANGED job /\ UNCHANGED Unsettled
  BY <1>1 DEF jobVars, Unsettled
<1>3. /\ cand' = [cand EXCEPT ![c] = cand'[c]] /\ cand'[c] \in {"skipped", "failed", "critiquing"}
      /\ \A r \in Role : cand'[c] = "critiquing" =>
           finding'[<<c, r>>] \in {"none", "accepted", "selected"}
      /\ \A x \in Candidate \X Role : x[1] # c => finding'[x] = finding[x]
      /\ finding' \in [Candidate \X Role -> FindingState]
  <2>1. CASE OkIn(R) = {}
    <3>1. /\ Goto(c, IF \E j \in R : job[j] = "refused" THEN "skipped" ELSE "failed")
          /\ finding' = finding
      BY <2>1 DEF FinishRoles
    <3>2. \/ cand' = [cand EXCEPT ![c] = "skipped"]
          \/ cand' = [cand EXCEPT ![c] = "failed"]
      BY <3>1 DEF Goto
    <3>3. cand'[c] \in {"skipped", "failed"} /\ cand' = [cand EXCEPT ![c] = cand'[c]]
      BY <1>0, <3>2 DEF RunTypeOK
    <3> QED BY <1>0, <3>1, <3>3 DEF RunTypeOK
  <2>2. CASE OkIn(R) # {}
    <3>1. cand' = [cand EXCEPT ![c] = "critiquing"]
      BY <2>2 DEF FinishRoles, Goto
    <3>2. PICK found \in [Role -> {"none", "accepted", "selected"}] :
            finding' = [x \in Candidate \X Role |->
                          IF x[1] = c THEN found[x[2]] ELSE finding[x]]
      BY <2>2 DEF FinishRoles
    <3>3. cand'[c] = "critiquing"
      BY <1>0, <3>1 DEF RunTypeOK
    <3>4. \A r \in Role : finding'[<<c, r>>] = found[r]
      BY <3>2
    <3>5. finding' \in [Candidate \X Role -> FindingState]
      BY <1>0, <3>2 DEF RunTypeOK, FindingState, Kept
    <3> QED BY <3>1, <3>2, <3>3, <3>4, <3>5
  <2> QED BY <2>1, <2>2
<1>4. /\ R \in SUBSET Job /\ \A j \in R : j[1] = c
      /\ \A r \in Role : Review(c, r) \in R /\ Critic(c, r) \notin R
  BY ReviewsAre
<1>5. \A j \in R : j \in Holding /\ job[j] \in Ended
  <2>1. \A r \in Role : Review(c, r) \in Holding
    BY <1>0, <1>1, HoldingIs DEF RolesOf, Holders, Owed
  <2> QED BY <1>1, <2>1 DEF ReviewsOf
<1>6. \A r \in Role : job[Review(c, r)] \in Ended
  BY <1>1, <1>4
<1> HIDE DEF R
<1>7. /\ cand' \in [Candidate -> CandidateState] /\ OnlyReviews'
      /\ \A d \in Candidate \ {c} : cand'[d] = cand[d]
  BY <1>0, <1>1, <1>3 DEF RunTypeOK, CandidateState, InFlight, Complete, OnlyReviews
<1>8. Apart(c)
  <2> SUFFICES ASSUME NEW d \in Candidate \ {c}, NEW r \in Role
      PROVE  /\ finding'[<<d, r>>] = finding[<<d, r>>]
             /\ Review(d, r) \in underWay' <=> Review(d, r) \in underWay
    BY <1>7 DEF Apart, Review
  <2>1. Review(d, r) \notin R
    BY <1>4, AreJobs
  <2> QED BY <1>1, <1>3, <2>1
<1>9. PICK N : N = {}
  OBVIOUS
<1>10. \A r \in Role :
         /\ Review(c, r) \in underWay' <=>
              \/ Review(c, r) \in underWay /\ Review(c, r) \notin R
              \/ Review(c, r) \in N
         /\ (cand'[c] \in {"critiquing", "verifying", "raised"} /\ finding'[<<c, r>>] = "held") <=>
              \/ /\ cand[c] \in {"critiquing", "verifying", "raised"} /\ finding[<<c, r>>] = "held"
                 /\ Critic(c, r) \notin R
              \/ Critic(c, r) \in N
  BY <1>1, <1>3, <1>4, <1>9 DEF Review
<1>11. \A j \in N : j[1] = c
  BY <1>9
<1>12. \A j \in Job : j \in Holding' <=> (j \in Holding /\ j \notin R) \/ j \in N
  BY <1>0, <1>4, <1>7, <1>8, <1>10, <1>11, HoldingAfter
<1>13. \A j \in Job : j \in Holding' <=> j \in Holding /\ j \notin R
  BY <1>9, <1>12
<1>14. Own(c)'
  <2> SUFFICES ASSUME NEW r \in Role
      PROVE  /\ job'[Review(c, r)] \in Ended /\ job'[Critic(c, r)] = "idle"
             /\ cand'[c] = "critiquing" =>
                  finding'[<<c, r>>] \notin {"verified", "unverified"}
    BY <1>3 DEF Own, Complete, Busy, Ended, Handled, Review, Critic
  <2> QED BY <1>0, <1>1, <1>2, <1>3, <1>6 DEF Own, Complete
<1>15. Staged'
  BY <1>0, <1>2, <1>7, <1>8, <1>14, OwnElsewhere DEF Unsettled
<1>16. RolesOf(c)'
  <2>1. \A j \in ReviewsOf(c) : job'[j] \in Ended /\ job'[j] # "raised"
    BY <1>1, <1>2 DEF R
  <2>2. ~Owed(c)'
    BY <1>3, <2>1 DEF Owed, ReviewsOf, Review
  <2>3. \A r \in Role : job'[Review(c, r)] \notin Busy
    BY <2>1 DEF Busy, ReviewsOf
  <2> QED BY <1>1, <1>3, <1>4, <2>2, <2>3 DEF RolesOf, Review, Busy
<1>17. RolesHeld'
  BY <1>0, <1>2, <1>8, <1>16, RolesElsewhere
<1>18. RunKept'
  BY <1>0, <1>1, <1>2, <1>3, <1>4, <1>5, <1>7, <1>13, <1>15, SettleKeeps
<1> QED BY <1>1, <1>17, <1>18

LEMMA CandidateStepKeeps ==
    ASSUME IInv, phase = "running", NEW c \in Candidate, CandidateStep(c)
    PROVE  IInv' /\ UNCHANGED ledgerVars
<1>1. RunKept' /\ RolesHeld' /\ UNCHANGED ledgerVars /\ UNCHANGED <<phase, status>>
  BY PrepareKeeps, CriticsKeep, HoldRolesKeeps, FinishRolesKeeps, RolesRaiseKeeps
  DEF CandidateStep
<1> QED BY <1>1, StepKeeps DEF IInv

LEMMA RunInit == Init => IInv
<1> SUFFICES ASSUME Init PROVE RunInv /\ RolesHeld
  BY DEF IInv
<1>1. RunInv
  BY RunStarts DEF Init
<1>2. RolesHeld
  <2> SUFFICES ASSUME NEW c \in Candidate, NEW r \in Role
      PROVE  /\ Review(c, r) \in underWay <=> Owed(c)
             /\ job[Review(c, r)] = "idle" /\ finding[<<c, r>>] = "none"
    BY DEF RolesHeld, RolesOf, Busy
  <2> QED BY AreJobs DEF Init, InitRun, InitJobs, Owed, ReviewsOf
<1> QED BY <1>1, <1>2

LEMMA RunningJobKeeps ==
    ASSUME IInv, NEW j \in Job, RunningJob(j)
    PROVE  IInv' /\ (Ledger!Next \/ UNCHANGED ledgerVars)
<1>1. RunInv /\ RolesHeld /\ phase = "running" /\ JobStep(j) /\ UNCHANGED runVars
  BY DEF IInv, RunningJob
<1>2. RunInv' /\ Moved(j) /\ (Ledger!Next \/ UNCHANGED ledgerVars)
  BY <1>1, JobKeeps
<1>3. UNCHANGED <<cand, finding, underWay, phase>>
  BY <1>1 DEF runVars
<1>4. RolesHeld'
  <2> SUFFICES ASSUME NEW c \in Candidate, NEW r \in Role
      PROVE  /\ Review(c, r) \in underWay' <=> Owed(c)'
             /\ cand'[c] \in {"waiting", "prepared", "preparing"} =>
                  job'[Review(c, r)] = "idle"
             /\ cand'[c] # "reviewing" => job'[Review(c, r)] \notin Busy
             /\ cand'[c] \in {"waiting", "prepared", "preparing", "reviewing"} =>
                  finding'[<<c, r>>] # "held"
    BY DEF RolesHeld, RolesOf, Review, Busy
  <2>1. RolesOf(c)
    BY <1>1 DEF RolesHeld
  <2>2. ASSUME NEW s \in Role
        PROVE  /\ job[Review(c, s)] \notin Busy => job'[Review(c, s)] = job[Review(c, s)]
               /\ job[Review(c, s)] = "raised" => job'[Review(c, s)] = "raised"
    BY <1>2, AreJobs DEF Moved, Busy, Ended
  <2>3. cand[c] # "reviewing" => (Owed(c)' <=> Owed(c))
    BY <1>3, <2>1, <2>2 DEF RolesOf, Owed, ReviewsOf, Review
  <2>4. cand[c] = "reviewing" => Owed(c) /\ Owed(c)'
    BY <1>3 DEF Owed
  <2>5. "idle" \notin Busy
    BY DEF Busy
  <2> QED BY <1>3, <2>1, <2>2, <2>3, <2>4, <2>5 DEF RolesOf
<1> QED BY <1>2, <1>4 DEF IInv

LEMMA NextKeepsIInv ==
    IInv /\ [Next]_vars => IInv' /\ (Ledger!Next \/ UNCHANGED ledgerVars)
<1> SUFFICES ASSUME IInv, [Next]_vars
    PROVE  IInv' /\ (Ledger!Next \/ UNCHANGED ledgerVars)
  OBVIOUS
<1>0. RunInv /\ RolesHeld
  BY DEF IInv
<1>1. CASE \E j \in Job : RunningJob(j)
  BY <1>1, RunningJobKeeps
<1>2. CASE phase = "running" /\ \E c \in Candidate : CandidateStep(c)
  BY <1>2, CandidateStepKeeps
<1>3. CASE phase = "running" /\ TimeOut
  <2>1. RolesHeld'
    BY <1>3 DEF TimeOut, RolesHeld
  <2> QED BY <1>0, <1>3, <2>1, TimeOutKeeps DEF IInv
<1>4. CASE phase = "running" /\ Elapse
  <2>1. UNCHANGED <<job, cand, finding, underWay, phase>>
    BY <1>4 DEF Elapse, jobVars, runVars
  <2>2. RolesHeld'
    BY <1>0, <2>1 DEF RolesHeld, RolesOf, Owed, ReviewsOf, Review, Busy
  <2> QED BY <1>0, <1>4, <2>2, ElapseKeeps DEF IInv
<1>5. CASE EndRun
  <2>1. RolesHeld'
    BY <1>5 DEF EndRun, RolesHeld
  <2> QED BY <1>0, <1>5, <2>1, EndKeeps DEF IInv
<1>7. CASE FailRun
  <2>1. RolesHeld'
    BY <1>7 DEF FailRun, RolesHeld
  <2> QED BY <1>0, <1>7, <2>1, FailRunKeeps DEF IInv
<1>6. CASE UNCHANGED vars
  <2>1. /\ UNCHANGED <<job, cand, finding, underWay, phase>> /\ UNCHANGED ledgerVars
        /\ UNCHANGED <<ledgerVars, jobVars, pool, runVars>>
    BY <1>6 DEF vars, jobVars, runVars
  <2>2. RolesHeld'
    BY <1>0, <2>1 DEF RolesHeld, RolesOf, Owed, ReviewsOf, Review, Busy
  <2> QED BY <1>0, <2>1, <2>2, StutterKeeps DEF IInv
<1> QED BY <1>1, <1>2, <1>3, <1>4, <1>5, <1>6, <1>7 DEF Next

LEMMA RunInvariance == Spec => []IInv
<1>1. IInv /\ [Next]_vars => IInv'
  BY NextKeepsIInv
<1> QED BY <1>1, RunInit, PTL DEF Spec

(* Candidates, jobs, findings and the pool are always in states the code   *)
(* has: a job never makes an attempt beyond its retries and its one hop,   *)
(* and the pool is never negative.                                         *)
THEOREM RunTypeCorrect == Spec => []RunTypeOK
<1>1. IInv => RunTypeOK
  BY RunInvIs DEF IInv
<1> QED BY <1>1, RunInvariance, PTL

(* budget_state["used_input_tokens"] is exact and within its ceiling in    *)
(* every run: however candidates, roles, critics, retries and hops         *)
(* interleave, nothing is counted twice, every way out of a call gives     *)
(* back what it held, the floor at zero never acts, and only usage in      *)
(* excess of the estimates passes max_total_input_tokens.                  *)
THEOREM PoolIsKept == Spec => []PoolKept
<1>1. ASSUME IInv PROVE PoolKept
  <2>1. RunTypeOK /\ PoolIsShared /\ PoolCeilingHeld /\ RolesHeld
    BY <1>1, RunInvIs DEF IInv
  <2>2. ASSUME phase = "running"
        PROVE  underWay = UNION {ReviewsOf(c) : c \in {d \in Candidate : Owed(d)}}
    <3>1. ASSUME NEW j \in underWay
          PROVE  \E c \in Candidate : Owed(c) /\ j \in ReviewsOf(c)
      <4>1. j \in Job \ Critique
        BY <2>1 DEF RunTypeOK
      <4>2. PICK c \in Candidate, r \in Role : j = Review(c, r) \/ j = Critic(c, r)
        BY <4>1, JobIs
      <4>3. Critic(c, r) \in Critique
        BY RunAssumption DEF RunAssumption, RunCritiques, Critic
      <4>4. j = Review(c, r) /\ j \in ReviewsOf(c)
        BY <4>1, <4>2, <4>3 DEF ReviewsOf
      <4> QED BY <2>1, <2>2, <3>1, <4>4 DEF RolesHeld, RolesOf
    <3>2. ASSUME NEW c \in Candidate, Owed(c)
          PROVE  ReviewsOf(c) \subseteq underWay
      BY <2>1, <2>2, <3>2 DEF RolesHeld, RolesOf, ReviewsOf
    <3> QED BY <3>1, <3>2
  <2>3. ASSUME phase = "running" PROVE PoolAccountsFor(underWay)
    BY <2>1, <2>3, PoolFromShares
  <2>4. PoolExact
    BY <2>2, <2>3 DEF PoolExact
  <2> QED BY <2>1, <2>4 DEF PoolKept
<1> QED BY <1>1, RunInvariance, PTL

(* A finding that has to be verified is published only when its critic was *)
(* called: the ledger refused none of its calls, retries and fallbacks,    *)
(* and the pool could hold it.  It answered, or, under fail_open, failed   *)
(* in its last call, which is also what a critic comes to when the pool    *)
(* has no room for its fallback.                                           *)
THEOREM RefusalPublishesNothing == Spec => []RefusalNeverPublishes
<1>1. IInv => RefusalNeverPublishes
  BY PublishedWasAsked DEF IInv
<1> QED BY <1>1, RunInvariance, PTL

(* A run in which the ledger refused anything, or which its time limit     *)
(* interrupted, does not succeed.                                          *)
THEOREM RefusalsEndPartial == Spec => []RefusalEndsPartial
<1>1. IInv => RefusalEndsPartial
  BY DEF IInv, RunInv
<1> QED BY <1>1, RunInvariance, PTL

(* The run uses the ledger as its specification prescribes: concurrent     *)
(* candidates, retries and hops never reconcile a call twice, or one that  *)
(* was not reserved.                                                       *)
THEOREM RunImplementsLedger == Spec => ImplementsLedger
<1>1. Init => Ledger!Init
  BY DEF Init, InitRun, InitJobs
<1>2. IInv /\ [Next]_vars => [Ledger!Next]_(Ledger!vars)
  <2>1. UNCHANGED ledgerVars => UNCHANGED Ledger!vars
    BY DEF ledgerVars, Ledger!vars, Ledger!counterVars, Ledger!reasonVars, Ledger!callVars
  <2> QED BY <2>1, NextKeepsIInv
<1> QED BY <1>1, <1>2, RunInvariance, PTL DEF Spec, ImplementsLedger, Ledger!Spec

-----------------------------------------------------------------------------
(* The single pass: what its calls, its stage and its jobs have to do with *)
(* one another.                                                            *)
CallRecord == [role : Role, targets : SUBSET Candidate]
CallsInv ==
    /\ calls \in Seq(CallRecord)
    /\ stage \in {"prepare", "verify"} => calls = <<>>
    /\ \A i \in DOMAIN calls :
         /\ calls[i].targets # {}
         /\ \A c \in calls[i].targets : cand[c] = "prepared"
         /\ stage = "first_pass" =>
              /\ calls[i].role = "unified"
              /\ \A c \in calls[i].targets, r \in Role : finding[<<c, r>>] = "none"
         /\ stage = "escalate" => calls[i].role # "unified"
    /\ \A i, k \in DOMAIN calls : i # k => calls[i].targets \cap calls[k].targets = {}

(* A call's job does not start before the call's turn, and only the call   *)
(* whose turn it is has its estimate in the pool.                          *)
TurnsInv ==
    /\ \A i \in DOMAIN calls : i # 1 => job[Owner(calls[i])] = "idle"
    /\ underWay = UnderWay

StageInv ==
    /\ stage \in {"prepare", "first_pass", "escalate", "verify"}
    /\ stage # "verify" =>
         \A c \in Candidate : cand[c] \in {"waiting", "preparing", "prepared", "failed", "skipped", "raised"}
    /\ stage # "prepare" => \A c \in Candidate : cand[c] \notin {"waiting", "preparing"}
    /\ stage = "prepare" =>
         /\ \A x \in Candidate \X Role : finding[x] = "none"
         /\ \A j \in Job \ Critique : job[j] = "idle"
    /\ stage = "first_pass" => \A j \in Escalation : job[j] = "idle"
    /\ \A c \in Candidate, r \in Role : cand[c] = "prepared" => finding[<<c, r>>] # "held"

(* The calls that are left, the present attempts included, fit under both  *)
(* ceilings, as long as no escalation makes a second attempt.              *)
EnoughCalls ==
    (stage = "escalate" /\ calls # <<>> /\ \A j \in Escalation : attempts[j] <= 1) =>
        LET needed == providerCalls + Len(calls) - attempts[Owner(Head(calls))] IN
        needed < Book!MaxProviderCalls /\ needed <= Book!MaxReviewCalls

(* A job that has not been refused at its first attempt has made one, and  *)
(* has tokens only once it has an answer.                                  *)
JobsCount ==
    \A j \in Job :
        /\ job[j] \notin {"idle", "reserve", "refused"} => attempts[j] > 0
        /\ ~Answered(j) => tokens[j] = 0

(* What refused an escalation was there before it, and stays. *)
RefusedForGood ==
    \A j \in Escalation :
        /\ job[j] = "refused" /\ attempts[j] = 0
        /\ \A i \in Escalation \ {j} : attempts[i] <= 1
        => /\ terminationReason \notin {Book!NoReason, "max_provider_calls"}
           /\ reviewPhaseDenied = Book!NoReason

PassInv ==
    /\ RunInv /\ JobsCount /\ RefusedForGood
    /\ phase = "running" =>
         CallsInv /\ TurnsInv /\ StageInv /\ EnoughCalls /\ NoFindingIsLost

(* The job of a call is that of one of its targets. *)
LEMMA OwnerIs ==
    ASSUME NEW call \in CallRecord, call.targets # {}
    PROVE  /\ \E c \in call.targets : Owner(call) = Review(c, call.role)
           /\ Owner(call) \in Job \ Critique /\ Owner(call)[1] \in call.targets
           /\ Owner(call) \in Escalation <=> call.role # "unified"
<1>1. PICK c \in call.targets : Owner(call) = Review(c, call.role)
  BY DEF Owner
<1>2. c \in Candidate /\ call.role \in Role
  BY DEF CallRecord
<1>3. Review(c, call.role) \in Job \ Critique
  BY <1>2, RunAssumption DEF RunAssumption, RunJobs, RunCritiques, Review
<1>4. Review(c, call.role)[1] = c /\ Review(c, call.role)[2] = call.role
  BY DEF Review
<1> QED BY <1>1, <1>3, <1>4 DEF Escalation

LEMMA OwnersAre ==
    ASSUME CallsInv, NEW i \in DOMAIN calls
    PROVE  /\ Owner(calls[i]) \in Job \ Critique /\ Owner(calls[i])[1] \in calls[i].targets
           /\ Owner(calls[i]) \in Escalation <=> calls[i].role # "unified"
           /\ \E c \in calls[i].targets : Owner(calls[i]) = Review(c, calls[i].role)
           /\ calls[i].targets \subseteq Candidate /\ calls[i].role \in Role
<1>1. calls[i] \in CallRecord /\ calls[i].targets # {}
  BY DEF CallsInv
<1>2. calls[i].targets \subseteq Candidate /\ calls[i].role \in Role
  BY <1>1 DEF CallRecord
<1> QED BY <1>1, <1>2, OwnerIs

LEMMA FirstCall ==
    ASSUME CallsInv, calls # <<>>
    PROVE  /\ 1 \in DOMAIN calls /\ Head(calls) = calls[1] /\ Len(calls) \in Nat \ {0}
           /\ Len(Tail(calls)) = Len(calls) - 1
           /\ DOMAIN Tail(calls) = 1..(Len(calls) - 1)
           /\ \A i \in DOMAIN Tail(calls) : /\ i + 1 \in DOMAIN calls /\ i + 1 # 1
                                            /\ Tail(calls)[i] = calls[i + 1]
           /\ Tail(calls) \in Seq(CallRecord)
BY DEF CallsInv

LEMMA EscalationsAreJobs ==
    Escalation \subseteq Job \ Critique
BY DEF Escalation

LEMMA AttemptsAreNat ==
    ASSUME RunTypeOK, NEW j \in Job PROVE attempts[j] \in Nat
<1>1. attempts[j] \in 0..(RetryLimit + 2)
  BY DEF RunTypeOK
<1> QED BY <1>1

(* A termination reason sticks, and nothing is recorded after it. *)
LEMMA ReasonSticks ==
    ASSUME Ledger!Next \/ UNCHANGED ledgerVars, terminationReason # Book!NoReason
    PROVE  UNCHANGED <<terminationReason, reviewPhaseDenied>>
<1>1. CASE UNCHANGED ledgerVars
  BY <1>1 DEF ledgerVars
<1>2. CASE Ledger!Elapse \/ Ledger!Terminate
  BY <1>2 DEF Ledger!Elapse, Ledger!Terminate, Ledger!reasonVars,
              Ledger!NoReason, Book!NoReason
<1>3. CASE \E call \in Calls : Ledger!CallStep(call)
  <2>1. PICK call \in Calls : Ledger!CallStep(call)
    BY <1>3
  <2>2. CASE Ledger!CallFails(call)
    BY <2>2 DEF Ledger!CallFails, Ledger!reasonVars
  <2>3. CASE \E n \in {TokenCounts(x) : x \in InputUsage} : Ledger!Reconcile(call, n)
    BY <2>3 DEF Ledger!Reconcile, Ledger!ReasonAfter, Ledger!NoReason, Book!NoReason
  <2>4. CASE \E q \in Ledger!Requests : Ledger!ReserveCall(call, q)
    BY <2>4 DEF Ledger!ReserveCall, Ledger!RefuseTerminated, Ledger!Deny,
                Ledger!DenyReviewPhase, Ledger!Grant, Ledger!reasonVars,
                Ledger!NoReason, Book!NoReason
  <2> QED BY <2>1, <2>2, <2>3, <2>4 DEF Ledger!CallStep
<1> QED BY <1>1, <1>2, <1>3 DEF Ledger!Next, Calls

(* A review's first call that is refused although both ceilings leave room *)
(* for it is refused for another reason than the number of calls.          *)
LEMMA RefusedWithRoom ==
    ASSUME Book!IInv, NEW j \in Job \ Critique, attempts[j] = 0, NEW call,
           Ledger!ReserveCall(call, CallOf(j)), callState'[call] = "refused",
           call \in Calls,
           providerCalls < Book!MaxProviderCalls, providerCalls < Book!MaxReviewCalls
    PROVE  /\ terminationReason' \notin {Book!NoReason, "max_provider_calls"}
           /\ reviewPhaseDenied' = Book!NoReason
<1>0. /\ Book!TypeOK /\ Book!OutOfCalls /\ ~CallOf(j).verification
      /\ Book!MaxProviderCalls \in Nat /\ Book!MaxReviewCalls \in Nat
      /\ providerCalls \in Nat /\ reviewCalls \in Nat
  <2>1. ~CallOf(j).verification
    <3>1. CallOf(j).verification = (j \in Critique)
      BY DEF CallOf
    <3> QED BY <3>1
  <2>2. Book!TypeOK /\ Book!OutOfCalls
    BY DEF Book!IInv
  <2>3. providerCalls \in Nat /\ reviewCalls \in Nat
    BY <2>2 DEF Book!TypeOK
  <2>4. Book!MaxProviderCalls \in Nat /\ Book!MaxReviewCalls \in Nat
    BY Book!CeilingsAreNat, LedgerAssumption
  <2> QED BY <2>1, <2>2, <2>3, <2>4
<1>1. /\ terminationReason # "max_provider_calls" /\ reviewPhaseDenied = Book!NoReason
  BY <1>0 DEF Book!OutOfCalls
<1>2. Book!ReserveCall(call, CallOf(j))
  BY SameReserve
<1>3. ~Book!Fails("max_provider_calls", CallOf(j)) /\ ~Book!Fails("review_phase", CallOf(j))
  BY <1>0 DEF Book!Fails, Book!ReviewPhaseFull, Book!OutOfCalls
<1>4. CASE Book!RefuseTerminated(call, CallOf(j))
  BY <1>1, <1>4 DEF Book!RefuseTerminated, Book!reasonVars
<1>5. CASE Book!Deny(call, CallOf(j))
  <2>1. PICK reason \in Book!BudgetTerminationReason :
          Book!FailsFirst(CallOf(j), reason) /\ terminationReason' = reason
    BY <1>5 DEF Book!Deny
  <2>2. Book!Fails(reason, CallOf(j))
    BY <2>1 DEF Book!FailsFirst
  <2>3. reason # "max_provider_calls"
    BY <1>3, <2>2
  <2>4. reason # Book!NoReason
    BY DEF Book!BudgetTerminationReason, Book!NoReason
  <2> QED BY <1>1, <1>5, <2>1, <2>3, <2>4 DEF Book!Deny
<1>6. CASE Book!DenyReviewPhase(call, CallOf(j))
  <2>1. Book!Fails("review_phase", CallOf(j))
    BY <1>6 DEF Book!DenyReviewPhase, Book!FailsFirst
  <2> QED BY <1>3, <2>1
<1>7. CASE Book!Grant(call, CallOf(j))
  <2>1. callState'[call] = "reserved"
    BY <1>0, <1>7 DEF Book!Grant, Book!TypeOK, Calls
  <2> QED BY <2>1
<1> QED BY <1>2, <1>4, <1>5, <1>6, <1>7 DEF Book!ReserveCall

(* What a step of a job does to the calls that are counted. *)
Counted(j) ==
    /\ attempts'[j] \in {attempts[j], attempts[j] + 1}
    /\ providerCalls' - providerCalls = attempts'[j] - attempts[j]
    /\ job'[j] \notin {"idle", "reserve", "refused"} => attempts'[j] > 0
    /\ ~Answered(j)' => tokens'[j] = 0
    /\ (job'[j] = "refused" /\ attempts'[j] = 0 /\ j \notin Critique
          /\ providerCalls < Book!MaxProviderCalls
          /\ providerCalls < Book!MaxReviewCalls) =>
         /\ terminationReason' \notin {Book!NoReason, "max_provider_calls"}
         /\ reviewPhaseDenied' = Book!NoReason

LEMMA ReserveCounts ==
    ASSUME JobInv, JobsCount, NEW j \in Job, Reserve(j)
    PROVE  Counted(j)
<1> DEFINE call == <<j, attempts[j] + 1>>
<1>0. RunTypeOK /\ Book!TypeOK /\ Book!IInv /\ Attempted
  BY DEF JobInv, Book!IInv
<1>1. /\ job[j] \in {"reserve", "hop_reserve"} /\ UNCHANGED <<tokens, pool>>
      /\ Ledger!ReserveCall(call, CallOf(j))
      /\ \/ /\ callState'[call] = "reserved"
            /\ attempts' = [attempts EXCEPT ![j] = @ + 1]
            /\ job' = [job EXCEPT ![j] = IF @ = "reserve" THEN "calling"
                                         ELSE "hop_calling"]
            /\ UNCHANGED ending
         \/ /\ callState'[call] = "refused"
            /\ Leave(j, "refused", "refused")
            /\ UNCHANGED attempts
  BY DEF Reserve, CallOf
<1>2. attempts[j] \in Nat /\ providerCalls \in Nat
  BY <1>0, AttemptsAreNat DEF Book!TypeOK
<1>3. attempts[j] <= RetryLimit + 1 /\ call \in Calls
  <2>1. job[j] = "reserve" => attempts[j] <= RetryLimit
    BY <1>0 DEF Attempted, Tried
  <2>2. job[j] = "hop_reserve" => attempts[j] <= RetryLimit + 1
    BY <1>0 DEF RunTypeOK
  <2> QED BY <1>1, <1>2, <2>1, <2>2, JobAssumption DEF JobAssumption, Calls
<1>4. tokens[j] = 0
  BY <1>1 DEF JobsCount, Answered
<1>5. Book!ReserveCall(call, CallOf(j))
  BY <1>1, SameReserve
<1>6. CASE callState'[call] = "reserved"
  <2>1. providerCalls' = providerCalls + 1
    <3>1. ~Book!Refused(call, CallOf(j))
      BY <1>0, <1>3, <1>6 DEF Book!Refused, Book!TypeOK, Calls
    <3>2. Book!Grant(call, CallOf(j))
      BY <1>5, <3>1 DEF Book!ReserveCall, Book!RefuseTerminated, Book!Deny,
                         Book!DenyReviewPhase
    <3> QED BY <3>2 DEF Book!Grant
  <2>2. /\ attempts'[j] = attempts[j] + 1 /\ job'[j] \in {"calling", "hop_calling"}
        /\ tokens'[j] = tokens[j]
    BY <1>0, <1>1, <1>6 DEF RunTypeOK
  <2> QED BY <1>2, <1>4, <2>1, <2>2 DEF Counted
<1>7. CASE callState'[call] = "refused"
  <2>1. providerCalls' = providerCalls
    <3>1. ~Book!Grant(call, CallOf(j))
      BY <1>0, <1>3, <1>7 DEF Book!Grant, Book!TypeOK, Calls
    <3>2. Book!Refused(call, CallOf(j))
      BY <1>5, <3>1 DEF Book!ReserveCall, Book!RefuseTerminated, Book!Deny,
                         Book!DenyReviewPhase
    <3> QED BY <3>2 DEF Book!Refused, Book!counterVars
  <2>2. /\ attempts'[j] = attempts[j] /\ tokens'[j] = tokens[j]
        /\ ending'[j] = "refused"
        /\ job'[j] = IF job[j] = "hop_reserve" THEN "release" ELSE "refused"
    BY <1>0, <1>1, <1>7 DEF RunTypeOK, Leave
  <2>3. job[j] = "hop_reserve" => attempts[j] > 0
    BY DEF JobsCount
  <2>4. ~Answered(j)'
    BY <2>2 DEF Answered
  <2>5. /\ providerCalls' - providerCalls = attempts'[j] - attempts[j]
        /\ job'[j] \notin {"idle", "reserve", "refused"} => attempts'[j] > 0
    BY <1>1, <1>2, <2>1, <2>2, <2>3
  <2>6. ASSUME attempts'[j] = 0, j \notin Critique,
               providerCalls < Book!MaxProviderCalls, providerCalls < Book!MaxReviewCalls
        PROVE  /\ terminationReason' \notin {Book!NoReason, "max_provider_calls"}
               /\ reviewPhaseDenied' = Book!NoReason
    <3> HIDE DEF call
    <3> QED BY <1>0, <1>1, <1>3, <1>7, <2>2, <2>6, RefusedWithRoom
  <2> QED BY <1>4, <2>2, <2>4, <2>5, <2>6 DEF Counted
<1> QED BY <1>1, <1>6, <1>7

LEMMA OtherStepsCount ==
    ASSUME JobInv, JobsCount, NEW j \in Job,
           \/ Answer(j) \/ AnswerMalformed(j) \/ FailTransiently(j)
           \/ FailFatally(j) \/ FailUnexpectedly(j) \/ TakeHop(j) \/ ReleaseHop(j)
    PROVE  Counted(j)
<1>0. RunTypeOK /\ Attempted /\ Book!TypeOK
  BY DEF JobInv, Book!IInv
<1>1. attempts[j] \in Nat /\ providerCalls \in Nat
  BY <1>0, AttemptsAreNat DEF Book!TypeOK
<1>2. attempts' = attempts /\ providerCalls' = providerCalls
  BY DEF Answer, AnswerMalformed, FailTransiently, FailFatally, FailUnexpectedly, TakeHop,
         ReleaseHop, Ledger!Reconcile, Ledger!CallFails, Ledger!counterVars, ledgerVars
<1>3. attempts[j] > 0
  <2>1. job[j] \notin {"idle", "reserve", "refused"}
    BY DEF Answer, AnswerMalformed, FailTransiently, FailFatally, FailUnexpectedly, TakeHop,
           ReleaseHop, Calling
  <2> QED BY <2>1 DEF JobsCount
<1>4. ~Answered(j)' => tokens'[j] = 0
  <2>1. CASE Answer(j)
    <3>1. Answered(j)'
      BY <1>0, <2>1 DEF Answer, Leave, Calling, RunTypeOK, Answered
    <3> QED BY <3>1
  <2>2. CASE \/ AnswerMalformed(j) \/ FailTransiently(j) \/ FailFatally(j)
             \/ FailUnexpectedly(j) \/ TakeHop(j)
    <3>1. ~Answered(j) /\ tokens'[j] = tokens[j]
      BY <2>2 DEF AnswerMalformed, FailTransiently, FailFatally, FailUnexpectedly, TakeHop,
                  Calling, Answered
    <3> QED BY <3>1 DEF JobsCount
  <2>3. CASE ReleaseHop(j)
    <3>1. /\ job[j] = "release" /\ job'[j] = ending[j] /\ tokens'[j] = tokens[j]
          /\ ending'[j] = ending[j]
      BY <1>0, <2>3 DEF ReleaseHop, RunTypeOK
    <3>2. Answered(j) => Answered(j)'
      BY <3>1 DEF Answered
    <3> QED BY <3>1, <3>2 DEF JobsCount
  <2> QED BY <2>1, <2>2, <2>3
<1> QED BY <1>1, <1>2, <1>3, <1>4 DEF Counted

LEMMA StepCounts ==
    ASSUME JobInv, JobsCount, NEW j \in Job, JobStep(j), Moved(j)
    PROVE  Counted(j) /\ JobsCount'
<1>1. Counted(j)
  BY ReserveCounts, OtherStepsCount DEF JobStep
<1>2. JobsCount'
  BY <1>1 DEF Counted, JobsCount, Moved, Answered
<1> QED BY <1>1, <1>2

LEMMA StartCounts ==
    ASSUME JobsCount, NEW R \in SUBSET Job, Start(R), \A j \in R : job[j] = "idle",
           UNCHANGED <<attempts, ending, tokens>>
    PROVE  JobsCount'
<1> SUFFICES ASSUME NEW j \in Job
    PROVE  /\ job'[j] \notin {"idle", "reserve", "refused"} => attempts'[j] > 0
           /\ ~Answered(j)' => tokens'[j] = 0
  BY DEF JobsCount
<1>1. job'[j] = IF j \in R THEN "reserve" ELSE job[j]
  BY DEF Start
<1> QED BY <1>1 DEF JobsCount, Answered

(* What refused an escalation outlasts every step after it. *)
LEMMA RefusalsStay ==
    ASSUME RefusedForGood, Ledger!Next \/ UNCHANGED ledgerVars,
           \A j \in Escalation : /\ attempts[j] \in Nat /\ attempts'[j] \in Nat
                                 /\ attempts[j] <= attempts'[j],
           \A j \in Escalation :
             (/\ job'[j] = "refused" /\ attempts'[j] = 0
              /\ \A i \in Escalation \ {j} : attempts'[i] <= 1
              /\ job[j] # "refused") =>
               /\ terminationReason' \notin {Book!NoReason, "max_provider_calls"}
               /\ reviewPhaseDenied' = Book!NoReason
    PROVE  RefusedForGood'
<1> SUFFICES ASSUME NEW j \in Escalation, job'[j] = "refused", attempts'[j] = 0,
                    \A i \in Escalation \ {j} : attempts'[i] <= 1
    PROVE  /\ terminationReason' \notin {Book!NoReason, "max_provider_calls"}
           /\ reviewPhaseDenied' = Book!NoReason
  BY DEF RefusedForGood, Escalation, Book!NoReason
<1>1. CASE job[j] # "refused"
  BY <1>1
<1>2. CASE job[j] = "refused"
  <2>1. attempts[j] = 0
    OBVIOUS
  <2>2. \A i \in Escalation \ {j} : attempts[i] <= 1
    OBVIOUS
  <2>3. /\ terminationReason \notin {Book!NoReason, "max_provider_calls"}
        /\ reviewPhaseDenied = Book!NoReason
    BY <1>2, <2>1, <2>2 DEF RefusedForGood
  <2> QED BY <2>3, ReasonSticks
<1> QED BY <1>1, <1>2

LEMMA RefusalsUntouched ==
    ASSUME RunTypeOK, RefusedForGood, Ledger!Next \/ UNCHANGED ledgerVars,
           UNCHANGED attempts, \A j \in Job \ Critique : job'[j] = "refused" => job[j] = "refused"
    PROVE  RefusedForGood'
<1>1. \A j \in Escalation : /\ attempts[j] \in Nat /\ attempts'[j] = attempts[j]
                            /\ job'[j] = "refused" => job[j] = "refused"
  BY EscalationsAreJobs, AttemptsAreNat
<1> QED BY <1>1, RefusalsStay

(* A review that is at work belongs to the call whose turn it is. *)
LEMMA WhoWorks ==
    ASSUME CallsInv, TurnsInv, NEW j \in underWay
    PROVE  /\ calls # <<>> /\ j = Owner(calls[1]) /\ j = Owner(Head(calls))
           /\ job[j] # "idle" /\ j \in Job \ Critique
<1>1. j \in Job \ Critique /\ job[j] # "idle" /\ \E i \in DOMAIN calls : j = Owner(calls[i])
  BY DEF TurnsInv, UnderWay
<1>2. PICK i \in DOMAIN calls : j = Owner(calls[i])
  BY <1>1
<1>3. i = 1
  BY <1>1, <1>2 DEF TurnsInv
<1>4. calls # <<>>
  BY <1>2
<1> QED BY <1>1, <1>2, <1>3, <1>4, FirstCall

LEMMA PassJobKeeps ==
    ASSUME PassInv, NEW j \in Job, PassJob(j)
    PROVE  PassInv' /\ (Ledger!Next \/ UNCHANGED ledgerVars)
<1>0. /\ RunInv /\ JobsCount /\ RefusedForGood /\ phase = "running"
      /\ CallsInv /\ TurnsInv /\ StageInv /\ EnoughCalls /\ NoFindingIsLost
      /\ JobStep(j) /\ UNCHANGED runVars /\ \A c \in Candidate : cand[c] # "raised"
  BY DEF PassInv, PassJob, Going, In
<1>1. RunInv' /\ Moved(j) /\ (Ledger!Next \/ UNCHANGED ledgerVars)
  BY <1>0, JobKeeps
<1>2. JobInv /\ RunTypeOK /\ RunTypeOK' /\ Staged /\ Book!IInv /\ OnlyReviews
  <2>1. RunTypeOK'
    BY <1>1 DEF RunInv, JobInv
  <2> QED BY <1>0, <2>1, RunInvIs, ReviewsOnly DEF RunInv
<1>3. Counted(j) /\ JobsCount'
  BY <1>0, <1>1, <1>2, StepCounts
<1>4. UNCHANGED <<cand, finding, phase, status, underWay, stage, calls>>
  BY DEF PassJob, runVars, passVars
<1>5. /\ job[j] \in Busy /\ job[j] # "idle" /\ job'[j] # "idle"
      /\ \A k \in Job \ {j} : job'[k] = job[k] /\ attempts'[k] = attempts[k]
  BY <1>1 DEF Moved, Busy
<1>6. \/ stage = "verify"
      \/ /\ j \in Job \ Critique /\ calls # <<>> /\ j = Owner(Head(calls)) /\ j = Owner(calls[1])
         /\ stage \in {"first_pass", "escalate"}
  <2>1. PICK c \in Candidate, r \in Role : j = Review(c, r) \/ j = Critic(c, r)
    BY JobIs
  <2>2. Own(c)
    BY <1>0, <1>2, OwnOf
  <2>3. CASE j = Critic(c, r)
    <3>1. cand[c] \in {"critiquing", "verifying", "raised"}
      BY <1>5, <2>2, <2>3 DEF Own
    <3> QED BY <1>0, <3>1 DEF StageInv
  <2>4. CASE j = Review(c, r)
    <3>1. j \in underWay
      BY <1>5, <2>2, <2>4 DEF Own
    <3>2. /\ calls # <<>> /\ j = Owner(Head(calls)) /\ j = Owner(calls[1])
          /\ j \in Job \ Critique
      BY <1>0, <3>1, WhoWorks
    <3> QED BY <1>0, <3>2 DEF CallsInv, StageInv
  <2> QED BY <2>1, <2>3, <2>4
<1>7. CallsInv'
  BY <1>0, <1>4 DEF CallsInv
<1>8. TurnsInv'
  <2>1. \A i \in DOMAIN calls : i # 1 => job'[Owner(calls[i])] = "idle"
    <3> TAKE i \in DOMAIN calls
    <3> SUFFICES ASSUME i # 1 PROVE job'[Owner(calls[i])] = "idle"
      OBVIOUS
    <3>1. Owner(calls[i]) \in Job /\ job[Owner(calls[i])] = "idle"
      BY <1>0, OwnersAre DEF TurnsInv
    <3> QED BY <1>5, <3>1
  <2>2. \A k \in Job : job'[k] # "idle" <=> job[k] # "idle"
    BY <1>5
  <2>3. UnderWay' = UnderWay
    BY <1>4, <2>2 DEF UnderWay, Owner, Review
  <2> QED BY <1>0, <1>4, <2>1, <2>3 DEF TurnsInv, Owner, Review
<1>9. StageInv'
  <2>1. stage = "prepare" => \A k \in Job \ Critique : job'[k] = "idle"
    BY <1>0, <1>5, <1>6 DEF StageInv
  <2>2. stage = "first_pass" => \A k \in Escalation : job'[k] = "idle"
    <3> SUFFICES ASSUME stage = "first_pass", NEW k \in Escalation PROVE job'[k] = "idle"
      OBVIOUS
    <3>1. job[k] = "idle" /\ k \in Job
      BY <1>0, EscalationsAreJobs DEF StageInv
    <3> QED BY <1>5, <3>1
  <2>3. StageInv
    BY <1>0
  <2> QED BY <1>4, <2>1, <2>2, <2>3 DEF StageInv, Escalation
<1>10. NoFindingIsLost'
  BY <1>0, <1>4 DEF NoFindingIsLost
<1>11. /\ \A k \in Job : attempts[k] \in Nat /\ attempts'[k] \in Nat
       /\ \A k \in Job : attempts[k] <= attempts'[k]
       /\ providerCalls \in Nat
  <2>1. \A k \in Job : attempts[k] \in Nat
    BY <1>2, AttemptsAreNat
  <2>2. \A k \in Job : attempts'[k] \in Nat /\ attempts[k] <= attempts'[k]
    BY <1>3, <1>5, <2>1 DEF Counted
  <2> QED BY <1>2, <2>1, <2>2 DEF Book!IInv, Book!TypeOK
<1>12. ASSUME stage = "escalate", calls # <<>>, \A k \in Escalation : attempts'[k] <= 1
       PROVE  /\ providerCalls + Len(calls) - attempts[Owner(Head(calls))] < Book!MaxProviderCalls
              /\ providerCalls + Len(calls) - attempts[Owner(Head(calls))] <= Book!MaxReviewCalls
              /\ j = Owner(Head(calls)) /\ Len(calls) \in Nat \ {0}
  <2>1. \A k \in Escalation : attempts[k] <= 1
    <3> TAKE k \in Escalation
    <3>1. k \in Job
      BY EscalationsAreJobs
    <3> QED BY <1>11, <1>12, <3>1
  <2>2. j = Owner(Head(calls))
    BY <1>6, <1>12
  <2>3. Len(calls) \in Nat \ {0}
    BY <1>0, <1>12, FirstCall
  <2> QED BY <1>0, <1>12, <2>1, <2>2, <2>3 DEF EnoughCalls
<1>13. EnoughCalls'
  <2> SUFFICES ASSUME stage = "escalate", calls # <<>>, \A k \in Escalation : attempts'[k] <= 1
      PROVE  /\ providerCalls' + Len(calls) - attempts'[Owner(Head(calls))] < Book!MaxProviderCalls
             /\ providerCalls' + Len(calls) - attempts'[Owner(Head(calls))] <= Book!MaxReviewCalls
    BY <1>4 DEF EnoughCalls, Escalation, Owner, Review, Book!MaxProviderCalls,
                Book!MaxReviewCalls, Book!ReviewCallBudget, Book!Smaller, Book!Larger
  <2>1. providerCalls' - providerCalls = attempts'[j] - attempts[j]
    BY <1>3 DEF Counted
  <2>2. providerCalls' \in Nat /\ attempts[j] \in Nat /\ attempts'[j] \in Nat
    BY <1>1, <1>11, RunInvIs DEF Book!IInv, Book!TypeOK, RunInv, JobInv
  <2>3. \A k \in Escalation : attempts[k] <= 1
    <3> TAKE k \in Escalation
    <3>1. attempts[k] \in Nat /\ attempts'[k] \in Nat /\ attempts[k] <= attempts'[k] /\ attempts'[k] <= 1
      BY <1>11, EscalationsAreJobs
    <3> QED BY <3>1
  <2>4. /\ providerCalls + Len(calls) - attempts[Owner(Head(calls))] < Book!MaxProviderCalls
        /\ providerCalls + Len(calls) - attempts[Owner(Head(calls))] <= Book!MaxReviewCalls
        /\ j = Owner(Head(calls)) /\ Len(calls) \in Nat \ {0}
    BY <1>12
  <2>5. providerCalls' + Len(calls) - attempts'[j] = providerCalls + Len(calls) - attempts[j]
    <3>1. providerCalls \in Int /\ providerCalls' \in Int /\ attempts[j] \in Int /\ attempts'[j] \in Int
          /\ Len(calls) \in Int
      BY <1>11, <2>2, <2>4
    <3> DEFINE n == Len(calls)
               a == attempts[j]
               b == attempts'[j]
               p == providerCalls
               q == providerCalls'
    <3>2. n \in Int /\ a \in Int /\ b \in Int /\ p \in Int /\ q \in Int /\ q - p = b - a
      BY <2>1, <3>1
    <3> HIDE DEF n, a, b, p, q
    <3>3. q + n - b = p + n - a
      BY <3>2
    <3> QED BY <3>3 DEF n, a, b, p, q
  <2> QED BY <2>4, <2>5
<1>14. RefusedForGood'
  <2>1. ASSUME NEW k \in Escalation, job'[k] = "refused", attempts'[k] = 0,
               \A i \in Escalation \ {k} : attempts'[i] <= 1, job[k] # "refused"
        PROVE  /\ terminationReason' \notin {Book!NoReason, "max_provider_calls"}
               /\ reviewPhaseDenied' = Book!NoReason
    <3>1. k = j /\ k \in Job \ Critique
      BY <1>5, <2>1, EscalationsAreJobs
    <3>2. stage = "escalate" /\ calls # <<>>
      <4>1. job[k] # "idle" /\ k \notin Critique
        BY <1>5, <3>1
      <4>2. stage # "first_pass"
        BY <1>0, <4>1 DEF StageInv
      <4>3. stage # "verify"
        <5>1. PICK c \in Candidate, r \in Role : j = Review(c, r) \/ j = Critic(c, r)
          BY JobIs
        <5>2. Critic(c, r) \in Critique
          BY RunAssumption DEF RunAssumption, RunCritiques, Critic
        <5>3. j \in underWay
          <6>1. j = Review(c, r) /\ job[Review(c, r)] \in Busy
            BY <1>5, <3>1, <5>1, <5>2
          <6>2. Own(c)
            BY <1>0, <1>2, OwnOf
          <6> QED BY <6>1, <6>2 DEF Own
        <5> QED BY <1>0, <5>3, WhoWorks DEF CallsInv
      <4> QED BY <1>6, <4>2, <4>3
    <3>3. \A i \in Escalation : attempts'[i] <= 1
      BY <2>1
    <3>4. attempts[j] = 0
      BY <1>11, <2>1, <3>1
    <3>5. providerCalls < Book!MaxProviderCalls /\ providerCalls < Book!MaxReviewCalls
      <4>1. Book!MaxProviderCalls \in Nat /\ Book!MaxReviewCalls \in Nat
        BY Book!CeilingsAreNat, LedgerAssumption
      <4>2. Len(calls) \in Nat \ {0} /\ attempts[Owner(Head(calls))] = 0
            /\ providerCalls + Len(calls) - attempts[Owner(Head(calls))] < Book!MaxProviderCalls
            /\ providerCalls + Len(calls) - attempts[Owner(Head(calls))] <= Book!MaxReviewCalls
        BY <1>12, <3>2, <3>3, <3>4
      <4> QED BY <1>11, <4>1, <4>2
    <3> QED BY <1>3, <2>1, <3>1, <3>5 DEF Counted
  <2>2. \A k \in Escalation : /\ attempts[k] \in Nat /\ attempts'[k] \in Nat
                              /\ attempts[k] <= attempts'[k]
    BY <1>11, EscalationsAreJobs
  <2> QED BY <1>0, <1>1, <2>1, <2>2, RefusalsStay
<1> QED BY <1>0, <1>1, <1>3, <1>4, <1>7, <1>8, <1>9, <1>10, <1>13, <1>14 DEF PassInv

(* A step of one candidate that is not waiting for its verification: the   *)
(* calls that are left have nothing to do with it.                         *)
Beside(c) ==
    /\ cand[c] # "prepared"
    /\ \A d \in Candidate \ {c} : cand'[d] = cand[d]
    /\ \A d \in Candidate \ {c}, r \in Role : finding'[<<d, r>>] = finding[<<d, r>>]
    /\ \A j \in Job \ Critique : job'[j] = job[j]
    /\ UNCHANGED <<stage, calls, underWay, phase, attempts, ledgerVars>>
    /\ stage # "verify" => cand'[c] \in {"waiting", "preparing", "prepared", "failed", "skipped", "raised"}
    /\ stage # "prepare" => cand'[c] \notin {"waiting", "preparing"}
    /\ stage = "prepare" => finding' = finding
    /\ \A r \in Role : cand'[c] = "prepared" => finding'[<<c, r>>] # "held"
    /\ \A r \in Role : finding'[<<c, r>>] # "none" => cand'[c] \notin {"failed", "skipped"}

LEMMA OthersUndisturbed ==
    ASSUME PassInv, phase = "running", NEW c \in Candidate, Beside(c),
           RunInv', JobsCount'
    PROVE  PassInv'
<1>0. /\ RunInv /\ JobsCount /\ RefusedForGood
      /\ CallsInv /\ TurnsInv /\ StageInv /\ EnoughCalls /\ NoFindingIsLost
  BY DEF PassInv
<1>1. /\ RunTypeOK
      /\ UNCHANGED <<stage, calls, underWay, phase, attempts, ledgerVars, providerCalls>>
  BY <1>0 DEF Beside, RunInv, JobInv, ledgerVars
<1>2. CallsInv'
  <2> SUFFICES ASSUME NEW i \in DOMAIN calls, NEW d \in calls[i].targets
      PROVE  /\ cand'[d] = "prepared"
             /\ stage = "first_pass" => \A r \in Role : finding'[<<d, r>>] = "none"
    BY <1>0, <1>1 DEF CallsInv
  <2>1. d \in Candidate /\ cand[d] = "prepared" /\ d # c
    BY <1>0, OwnersAre DEF CallsInv, Beside
  <2>2. stage = "first_pass" => \A r \in Role : finding[<<d, r>>] = "none"
    BY <1>0 DEF CallsInv
  <2> QED BY <2>1, <2>2 DEF Beside
<1>3. TurnsInv'
  <2>1. \A i \in DOMAIN calls : i # 1 => job'[Owner(calls[i])] = "idle"
    BY <1>0, OwnersAre DEF TurnsInv, Beside
  <2>2. UnderWay' = UnderWay
    <3>1. \A k \in Job \ Critique : job'[k] # "idle" <=> job[k] # "idle"
      BY DEF Beside
    <3> QED BY <1>1, <3>1 DEF UnderWay, Owner, Review
  <2> QED BY <1>0, <1>1, <2>1, <2>2 DEF TurnsInv, Owner, Review
<1>4. StageInv'
  <2>1. StageInv /\ stage' = stage
    BY <1>0, <1>1
  <2>2. /\ stage # "verify" =>
             \A d \in Candidate : cand'[d] \in {"waiting", "preparing", "prepared", "failed", "skipped", "raised"}
        /\ stage # "prepare" => \A d \in Candidate : cand'[d] \notin {"waiting", "preparing"}
    BY <2>1 DEF StageInv, Beside
  <2>3. stage = "prepare" =>
         /\ \A x \in Candidate \X Role : finding'[x] = "none"
         /\ \A j \in Job \ Critique : job'[j] = "idle"
    BY <2>1 DEF StageInv, Beside
  <2>4. stage = "first_pass" => \A j \in Escalation : job'[j] = "idle"
    BY <2>1, EscalationsAreJobs DEF StageInv, Beside
  <2>5. \A d \in Candidate, r \in Role : cand'[d] = "prepared" => finding'[<<d, r>>] # "held"
    BY <2>1 DEF StageInv, Beside
  <2>6. stage \in {"prepare", "first_pass", "escalate", "verify"}
    BY <2>1 DEF StageInv
  <2> QED BY <2>1, <2>2, <2>3, <2>4, <2>5, <2>6 DEF StageInv, Escalation
<1>5. EnoughCalls'
  BY <1>0, <1>1 DEF EnoughCalls, Escalation, Owner, Review, Book!MaxProviderCalls,
                    Book!MaxReviewCalls, Book!ReviewCallBudget, Book!Smaller, Book!Larger
<1>6. NoFindingIsLost'
  <2> SUFFICES ASSUME NEW x \in Candidate \X Role, finding'[x] # "none"
      PROVE  cand'[x[1]] \notin {"failed", "skipped"}
    BY DEF NoFindingIsLost
  <2>1. PICK d \in Candidate, r \in Role : x = <<d, r>>
    OBVIOUS
  <2>2. CASE d = c
    BY <2>1, <2>2 DEF Beside
  <2>3. CASE d # c
    <3>1. finding[x] # "none" /\ cand'[d] = cand[d]
      BY <2>1, <2>3 DEF Beside
    <3>2. cand[x[1]] \notin {"failed", "skipped"}
      BY <1>0, <3>1 DEF NoFindingIsLost
    <3> QED BY <2>1, <3>1, <3>2
  <2> QED BY <2>2, <2>3
<1>7. RefusedForGood'
  <2>1. \A j \in Job \ Critique : job'[j] = "refused" => job[j] = "refused"
    BY DEF Beside
  <2> QED BY <1>0, <1>1, <2>1, RefusalsUntouched
<1> QED BY <1>2, <1>3, <1>4, <1>5, <1>6, <1>7 DEF PassInv

LEMMA CountsUntouched ==
    ASSUME JobsCount, UNCHANGED jobVars PROVE JobsCount'
BY DEF JobsCount, Answered, jobVars

LEMMA CriticsArePaid ==
    ASSUME NEW c \in Candidate
    PROVE  \A j \in Job \ Critique : j \notin CriticsOf(c)
<1>1. \A r \in Role : Critic(c, r) \in Critique
  BY RunAssumption DEF RunAssumption, RunCritiques, Critic
<1> QED BY <1>1 DEF CriticsOf

LEMMA PassCandidateKeeps ==
    ASSUME PassInv, phase = "running", NEW c \in Candidate, PassCandidateStep(c)
    PROVE  PassInv' /\ UNCHANGED ledgerVars
<1>0. /\ RunInv /\ JobsCount /\ JobInv /\ Staged /\ RunTypeOK
      /\ CallsInv /\ TurnsInv /\ StageInv /\ NoFindingIsLost
      /\ UNCHANGED <<phase, status, stage, calls>>
  BY RunInvIs DEF PassInv, RunInv, PassCandidateStep, passVars
<1>1. CASE StartPreparing(c) \/ PrepareFails(c) \/ Prepared(c)
  <2>1. /\ UNCHANGED <<finding, underWay, jobVars, pool, ledgerVars, phase, status>>
        /\ \/ cand[c] = "waiting" /\ Goto(c, "preparing")
           \/ cand[c] = "preparing" /\ Goto(c, "failed")
           \/ cand[c] = "preparing" /\ Goto(c, "prepared")
    BY <1>0, <1>1 DEF StartPreparing, PrepareFails, Prepared
  <2>2. PICK to \in {"preparing", "failed", "prepared"} : Goto(c, to)
    BY <2>1
  <2>3. cand[c] \in {"waiting", "preparing"}
    BY <2>1
  <2>4. /\ cand'[c] = to /\ \A d \in Candidate \ {c} : cand'[d] = cand[d]
    BY <1>0, <2>2 DEF Goto, RunTypeOK
  <2>5. RunKept' /\ UNCHANGED ledgerVars
    <3>1. /\ cand[c] \notin Complete \cup {"critiquing", "verifying", "raised"}
          /\ to \in CandidateState /\ to \notin {"reviewed", "verifying", "critiquing"}
      BY <2>2, <2>3 DEF Complete, CandidateState, InFlight
    <3>2. PICK from : from = cand[c]
      OBVIOUS
    <3> QED BY <1>0, <2>1, <2>2, <3>1, <3>2, MoveKeeps
  <2>6. RunInv'
    BY <1>0, <2>5, StepKeeps
  <2>7. stage = "prepare" /\ \A r \in Role : finding[<<c, r>>] = "none"
    BY <1>0, <2>3 DEF StageInv
  <2>8. Beside(c)
    BY <1>0, <2>1, <2>2, <2>3, <2>4, <2>7 DEF Beside, jobVars
  <2> QED BY <1>0, <2>1, <2>6, <2>8, CountsUntouched, OthersUndisturbed
<1>2. CASE \/ StartCritics(c) \/ FinishCritics(c) \/ CriticsRaise(c)
           \/ \E r \in Role : HoldCritic(c, r)
  <2>1. RunKept' /\ UNCHANGED ledgerVars
    BY <1>0, <1>2, HoldCriticKeeps, StartCriticsKeeps, FinishCriticsKeeps, CriticsRaiseKeeps
  <2>2. RunInv'
    BY <1>0, <2>1, StepKeeps
  <2>3. /\ cand[c] \in {"critiquing", "verifying"}
        /\ cand'[c] \in {"critiquing", "verifying", "reviewed", "raised"}
        /\ \A d \in Candidate \ {c} : cand'[d] = cand[d]
        /\ UNCHANGED <<underWay, attempts>>
    BY <1>0, <1>2 DEF StartCritics, FinishCritics, CriticsRaise, HoldCritic, Goto, RunTypeOK,
                      jobVars
  <2>4. stage = "verify"
    BY <1>0, <2>3 DEF StageInv
  <2>5. \A j \in Job \ Critique : job'[j] = job[j]
    <3>1. CASE StartCritics(c)
      BY <3>1, CriticsArePaid DEF StartCritics, Start
    <3>2. CASE ~StartCritics(c)
      BY <1>2, <3>2 DEF FinishCritics, CriticsRaise, HoldCritic, jobVars
    <3> QED BY <3>1, <3>2
  <2>6. \A d \in Candidate \ {c}, r \in Role : finding'[<<d, r>>] = finding[<<d, r>>]
    <3>1. CASE StartCritics(c) \/ CriticsRaise(c)
      BY <3>1 DEF StartCritics, CriticsRaise
    <3>2. CASE \E r \in Role : HoldCritic(c, r)
      BY <1>0, <3>2 DEF HoldCritic, RunTypeOK
    <3>3. CASE FinishCritics(c)
      <4> DEFINE R == CriticsOf(c)
      <4>1. PICK verdict \in [R -> FindingState] :
              finding' = [x \in Candidate \X Role |->
                            IF Critic(x[1], x[2]) \in R
                            THEN verdict[Critic(x[1], x[2])] ELSE finding[x]]
        BY <3>3 DEF FinishCritics
      <4>2. \A d \in Candidate \ {c}, r \in Role : Critic(d, r) \notin R
        BY CriticsAre, AreJobs
      <4> HIDE DEF R
      <4> QED BY <4>1, <4>2
    <3> QED BY <1>2, <3>1, <3>2, <3>3
  <2>7. Beside(c)
    BY <1>0, <2>1, <2>3, <2>4, <2>5, <2>6 DEF Beside
  <2>8. JobsCount'
    <3>1. CASE StartCritics(c)
      <4>1. \A r \in Role : job[Critic(c, r)] = "idle"
        BY <1>0, <3>1, OwnOf, ReviewsOnly DEF Own, StartCritics, Complete
      <4>2. CriticsOf(c) \in SUBSET Job
        BY CriticsAre
      <4>3. \A j \in CriticsOf(c) : job[j] = "idle"
        BY <4>1 DEF CriticsOf
      <4> QED BY <1>0, <3>1, <4>2, <4>3, StartCounts DEF StartCritics
    <3>2. CASE ~StartCritics(c)
      BY <1>0, <1>2, <3>2, CountsUntouched DEF FinishCritics, CriticsRaise, HoldCritic
    <3> QED BY <3>1, <3>2
  <2> QED BY <2>1, <2>2, <2>7, <2>8, OthersUndisturbed
<1> QED BY <1>1, <1>2 DEF PassCandidateStep

-----------------------------------------------------------------------------
(* The steps of the pass itself: calls are planned, start and end.         *)

(* What the pool holds after such a step: reviews enter or leave it, and   *)
(* no critic does.                                                         *)
LEMMA CallHolds ==
    ASSUME OnlyReviews, OnlyReviews', NEW R \in SUBSET (Job \ Critique),
           NEW H \in SUBSET (Job \ Critique), underWay' = (underWay \ R) \cup H,
           \A c \in Candidate :
             \/ cand'[c] = cand[c] /\ \A r \in Role : finding'[<<c, r>>] = finding[<<c, r>>]
             \/ /\ cand[c] \notin {"critiquing", "verifying", "raised"}
                /\ \/ cand'[c] \notin {"critiquing", "verifying", "raised"}
                   \/ \A r \in Role : finding'[<<c, r>>] # "held"
    PROVE  \A j \in Job : j \in Holding' <=> (j \in Holding /\ j \notin R) \/ j \in H
<1> TAKE j \in Job
<1>1. PICK c \in Candidate, r \in Role : j = Review(c, r) \/ j = Critic(c, r)
  BY JobIs
<1>2. Holders /\ Holders'
  BY HoldingIs, PTL
<1>3. CASE j = Review(c, r)
  <2>1. /\ j \in Holding <=> j \in underWay
        /\ j \in Holding' <=> j \in underWay'
    BY <1>2, <1>3 DEF Holders, Review
  <2> QED BY <2>1
<1>4. CASE j = Critic(c, r)
  <2>1. j \notin R /\ j \notin H
    <3>1. Critic(c, r) \in Critique
      BY RunAssumption DEF RunAssumption, RunCritiques, Critic
    <3> QED BY <1>4, <3>1
  <2>2. /\ j \in Holding <=> cand[c] \in {"critiquing", "verifying", "raised"} /\ finding[<<c, r>>] = "held"
        /\ j \in Holding' <=> cand'[c] \in {"critiquing", "verifying", "raised"} /\ finding'[<<c, r>>] = "held"
    BY <1>2, <1>4 DEF Holders, Critic
  <2> QED BY <2>1, <2>2
<1> QED BY <1>1, <1>3, <1>4

LEMMA CallStages ==
    ASSUME Staged, phase = "running", phase' = phase, OnlyReviews, OnlyReviews',
           \A c \in Candidate :
             \/ cand'[c] = cand[c] /\ \A r \in Role : finding'[<<c, r>>] = finding[<<c, r>>]
             \/ /\ cand[c] = "prepared" /\ cand'[c] \in {"prepared", "skipped", "failed", "raised"}
                /\ \A r \in Role : finding'[<<c, r>>] \notin {"verified", "unverified"},
           \A j \in Critique : job'[j] = job[j],
           \A j \in Job \ Critique : job'[j] \in Busy => j \in underWay'
    PROVE  Staged'
<1>1. OwnStages /\ OwnStages'
  BY OwnIs, PTL
<1>2. \A c \in Candidate : Own(c)
  BY <1>1 DEF OwnStages
<1>3. ASSUME NEW c \in Candidate PROVE Own(c)'
  <2> SUFFICES ASSUME NEW r \in Role
      PROVE
        /\ job'[Review(c, r)] \in Busy => Review(c, r) \in underWay'
        /\ job'[Critic(c, r)] \in Busy =>
             cand'[c] \in {"critiquing", "verifying", "raised"} /\ finding'[<<c, r>>] = "held"
        /\ cand'[c] \notin {"verifying", "raised"} \cup Complete => job'[Critic(c, r)] = "idle"
        /\ cand'[c] \notin Complete => finding'[<<c, r>>] \notin {"verified", "unverified"}
        /\ (cand'[c] = "reviewed" /\ finding'[<<c, r>>] \in Kept \ {"accepted"}) =>
             \/ job'[Critic(c, r)] = "ok"
             \/ job'[Critic(c, r)] = "failed" /\ FailurePolicy = "fail_open"
    BY DEF Own, Busy, Review, Critic
  <2>1. Review(c, r) \in Job \ Critique /\ Critic(c, r) \in Critique
    BY RunAssumption DEF RunAssumption, RunJobs, RunCritiques, Review, Critic
  <2>2. /\ job'[Review(c, r)] \in Busy => Review(c, r) \in underWay'
        /\ job'[Critic(c, r)] = job[Critic(c, r)]
    BY <2>1
  <2>3. CASE cand'[c] = cand[c] /\ finding'[<<c, r>>] = finding[<<c, r>>]
    BY <1>2, <2>2, <2>3 DEF Own
  <2>4. CASE /\ cand[c] = "prepared" /\ cand'[c] \in {"prepared", "skipped", "failed", "raised"}
             /\ finding'[<<c, r>>] \notin {"verified", "unverified"}
    <3>1. job[Critic(c, r)] = "idle"
      BY <1>2, <2>4 DEF Own, Complete
    <3>2. "idle" \notin Busy
      BY DEF Busy
    <3> QED BY <2>2, <2>4, <3>1, <3>2
  <2> QED BY <2>3, <2>4
<1> QED BY <1>1, <1>3 DEF OwnStages

(* The call whose turn it is, and nothing else, has an estimate in the pool. *)
LEMMA FirstAtWork ==
    ASSUME CallsInv, TurnsInv, calls # <<>>
    PROVE  /\ job[Owner(Head(calls))] = "idle" => underWay = {}
           /\ job[Owner(Head(calls))] # "idle" => underWay = {Owner(Head(calls))}
<1>1. \A j \in underWay : j = Owner(Head(calls)) /\ job[j] # "idle"
  BY WhoWorks
<1>2. job[Owner(Head(calls))] # "idle" => Owner(Head(calls)) \in underWay
  <2>1. Owner(Head(calls)) = Owner(calls[1]) /\ 1 \in DOMAIN calls
    BY FirstCall
  <2>2. Owner(calls[1]) \in Job \ Critique
    BY <2>1, OwnersAre
  <2> QED BY <2>1, <2>2 DEF TurnsInv, UnderWay
<1> QED BY <1>1, <1>2

LEMMA NoneAtWork ==
    ASSUME TurnsInv, calls = <<>>
    PROVE  underWay = {}
BY DEF TurnsInv, UnderWay

(* Once the first call is over, the next one takes its turn. *)
LEMMA NextTurn ==
    ASSUME CallsInv, TurnsInv, calls # <<>>, calls' = Tail(calls), UNCHANGED job, underWay' = {}
    PROVE  TurnsInv'
<1>1. \A i \in DOMAIN Tail(calls) : job[Owner(Tail(calls)[i])] = "idle"
  BY FirstCall DEF TurnsInv
<1>2. \A i \in DOMAIN calls' : job'[Owner(calls'[i])] = "idle"
  BY <1>1
<1>3. UnderWay' = {}
  BY <1>2 DEF UnderWay, Owner, Review
<1> QED BY <1>2, <1>3 DEF TurnsInv, Owner, Review

LEMMA NextCall ==
    ASSUME CallsInv, calls # <<>>, calls' = Tail(calls), stage' = stage,
           \A c \in Candidate \ calls[1].targets :
             cand'[c] = cand[c] /\ \A r \in Role : finding'[<<c, r>>] = finding[<<c, r>>]
    PROVE  CallsInv'
<1>1. /\ Tail(calls) \in Seq(CallRecord)
      /\ \A i \in DOMAIN Tail(calls) : /\ i + 1 \in DOMAIN calls /\ i + 1 # 1
                                       /\ Tail(calls)[i] = calls[i + 1]
      /\ 1 \in DOMAIN calls
      /\ \A i \in DOMAIN Tail(calls) : i \in Int
  BY FirstCall
<1>2. stage \notin {"prepare", "verify"}
  BY DEF CallsInv
<1>3. ASSUME NEW i \in DOMAIN Tail(calls)
      PROVE /\ Tail(calls)[i].targets # {}
            /\ \A c \in Tail(calls)[i].targets : cand'[c] = "prepared"
            /\ stage = "first_pass" =>
                 /\ Tail(calls)[i].role = "unified"
                 /\ \A c \in Tail(calls)[i].targets, r \in Role : finding'[<<c, r>>] = "none"
            /\ stage = "escalate" => Tail(calls)[i].role # "unified"
  <2>1. /\ i + 1 \in DOMAIN calls /\ i + 1 # 1 /\ Tail(calls)[i] = calls[i + 1]
    BY <1>1
  <2>2. \A c \in calls[i + 1].targets : c \in Candidate \ calls[1].targets
    <3>1. calls[i + 1].targets \cap calls[1].targets = {}
      BY <1>1, <2>1 DEF CallsInv
    <3>2. calls[i + 1].targets \subseteq Candidate
      BY <2>1, OwnersAre
    <3> QED BY <3>1, <3>2
  <2>3. \A c \in calls[i + 1].targets : cand'[c] = "prepared"
    BY <2>1, <2>2 DEF CallsInv
  <2>4. stage = "first_pass" =>
          \A c \in calls[i + 1].targets, r \in Role : finding'[<<c, r>>] = "none"
    <3> SUFFICES ASSUME stage = "first_pass", NEW c \in calls[i + 1].targets, NEW r \in Role
        PROVE  finding'[<<c, r>>] = "none"
      OBVIOUS
    <3>1. finding[<<c, r>>] = "none"
      BY <2>1 DEF CallsInv
    <3>2. finding'[<<c, r>>] = finding[<<c, r>>]
      BY <2>2
    <3> QED BY <3>1, <3>2
  <2> QED BY <2>1, <2>3, <2>4 DEF CallsInv
<1>4. ASSUME NEW i \in DOMAIN Tail(calls), NEW k \in DOMAIN Tail(calls), i # k
      PROVE  Tail(calls)[i].targets \cap Tail(calls)[k].targets = {}
  <2>1. /\ i + 1 \in DOMAIN calls /\ Tail(calls)[i] = calls[i + 1]
        /\ k + 1 \in DOMAIN calls /\ Tail(calls)[k] = calls[k + 1]
        /\ i + 1 # k + 1
    BY <1>1, <1>4
  <2> QED BY <2>1 DEF CallsInv
<1> QED BY <1>1, <1>2, <1>3, <1>4 DEF CallsInv

LEMMA NextFits ==
    ASSUME CallsInv, TurnsInv, EnoughCalls, RunTypeOK, Attempted, Book!TypeOK,
           calls # <<>>, calls' = Tail(calls),
           UNCHANGED <<stage, attempts, providerCalls, terminationReason>>
    PROVE  EnoughCalls'
<1> SUFFICES ASSUME stage = "escalate", Tail(calls) # <<>>, \A j \in Escalation : attempts[j] <= 1
    PROVE  /\ providerCalls + Len(Tail(calls)) - attempts[Owner(Head(Tail(calls)))]
                < Book!MaxProviderCalls
           /\ providerCalls + Len(Tail(calls)) - attempts[Owner(Head(Tail(calls)))]
                <= Book!MaxReviewCalls
  BY DEF EnoughCalls, Escalation, Owner, Review, Book!MaxProviderCalls,
         Book!MaxReviewCalls, Book!ReviewCallBudget, Book!Smaller, Book!Larger
<1>1. /\ Len(Tail(calls)) = Len(calls) - 1 /\ Len(calls) \in Nat
      /\ Head(calls) = calls[1] /\ 1 \in DOMAIN calls
  BY FirstCall
<1>2. attempts[Owner(Head(Tail(calls)))] = 0
  <2>1. 1 \in DOMAIN Tail(calls) /\ Head(Tail(calls)) = Tail(calls)[1]
    BY FirstCall
  <2>2. 2 \in DOMAIN calls /\ Head(Tail(calls)) = calls[2]
    BY <2>1, FirstCall
  <2>3. Owner(calls[2]) \in Job /\ job[Owner(calls[2])] = "idle"
    BY <2>2, OwnersAre DEF TurnsInv
  <2> QED BY <2>2, <2>3 DEF Attempted, Tried
<1>3. attempts[Owner(Head(calls))] <= 1 /\ attempts[Owner(Head(calls))] \in Nat
  <2>1. Owner(calls[1]) \in Escalation /\ Owner(calls[1]) \in Job
    BY <1>1, OwnersAre DEF CallsInv
  <2> QED BY <1>1, <2>1, AttemptsAreNat
<1>4. /\ providerCalls + Len(calls) - attempts[Owner(Head(calls))] < Book!MaxProviderCalls
      /\ providerCalls + Len(calls) - attempts[Owner(Head(calls))] <= Book!MaxReviewCalls
  BY DEF EnoughCalls
<1>5. Book!MaxProviderCalls \in Nat /\ Book!MaxReviewCalls \in Nat /\ providerCalls \in Nat
  BY Book!CeilingsAreNat, LedgerAssumption DEF Book!TypeOK
<1> QED BY <1>1, <1>2, <1>3, <1>4, <1>5

(* A call without an answer: the candidates of a batch are given up, those *)
(* of an escalation stay, unless its exception is on its way.              *)
LEMMA GivenUp ==
    ASSUME CallsInv, StageInv, RunTypeOK, calls # <<>>,
           NEW state \in {"skipped", "failed", "raised"}, Unanswered(calls[1], state)
    PROVE  /\ cand' \in [Candidate -> CandidateState]
           /\ \A c \in Candidate \ calls[1].targets : cand'[c] = cand[c]
           /\ \A c \in Candidate :
                \/ cand'[c] = cand[c]
                \/ /\ cand[c] = "prepared" /\ cand'[c] = state
                   /\ state # "raised" =>
                        stage = "first_pass" /\ \A r \in Role : finding[<<c, r>>] = "none"
                   /\ \A r \in Role : finding[<<c, r>>] # "held"
<1>0. /\ 1 \in DOMAIN calls /\ cand \in [Candidate -> CandidateState]
      /\ state \in CandidateState
  BY FirstCall DEF RunTypeOK, CandidateState, Complete
<1>1. CASE ~(calls[1].role = "unified" \/ state = "raised")
  BY <1>0, <1>1 DEF Unanswered
<1>2. CASE calls[1].role = "unified" \/ state = "raised"
  <2>1. cand' = [c \in Candidate |-> IF c \in calls[1].targets THEN state ELSE cand[c]]
    BY <1>2 DEF Unanswered
  <2>2. state # "raised" => stage = "first_pass"
    BY <1>0, <1>2 DEF CallsInv, StageInv
  <2>3. \A c \in calls[1].targets :
          /\ c \in Candidate /\ cand[c] = "prepared"
          /\ state # "raised" => \A r \in Role : finding[<<c, r>>] = "none"
          /\ \A r \in Role : finding[<<c, r>>] # "held"
    <3>1. \A c \in calls[1].targets : c \in Candidate /\ cand[c] = "prepared"
      BY <1>0, OwnersAre DEF CallsInv
    <3>2. \A c \in calls[1].targets : state # "raised" => \A r \in Role : finding[<<c, r>>] = "none"
      BY <1>0, <2>2 DEF CallsInv
    <3> QED BY <3>1, <3>2 DEF StageInv
  <2> QED BY <1>0, <2>1, <2>2, <2>3
<1> QED BY <1>1, <1>2

LEMMA PlanBatchesKeeps ==
    ASSUME PassInv, phase = "running", PlanBatches
    PROVE  PassInv' /\ UNCHANGED ledgerVars
<1>0. /\ RunInv /\ JobsCount /\ RefusedForGood /\ RunTypeOK
      /\ CallsInv /\ TurnsInv /\ StageInv /\ EnoughCalls /\ NoFindingIsLost
      /\ stage = "prepare" /\ calls = <<>> /\ underWay = {}
  BY NoneAtWork, RunInvIs DEF PassInv, PlanBatches, CallsInv
<1>1. /\ UNCHANGED <<ledgerVars, jobVars, pool, runVars>>
      /\ UNCHANGED <<cand, finding, phase, underWay, job, attempts, terminationReason>>
      /\ stage' = "first_pass"
  BY DEF PlanBatches, jobVars, runVars, ledgerVars
<1>2. RunInv' /\ JobsCount'
  BY <1>0, <1>1, StutterKeeps, CountsUntouched
<1>3. PICK number \in 1..Cardinality(In("prepared")) :
        \E batch \in [In("prepared") -> 1..number] :
          /\ \A i \in 1..number : \E c \in In("prepared") : batch[c] = i
          /\ calls' = Batches(number, batch)
  BY DEF PlanBatches
<1>4. PICK batch \in [In("prepared") -> 1..number] :
        /\ \A i \in 1..number : \E c \in In("prepared") : batch[c] = i
        /\ calls' = Batches(number, batch)
  BY <1>3
<1>5. number \in Nat
  <2>1. IsFiniteSet(In("prepared"))
    BY RunAssumption, FS_Subset DEF RunAssumption, In
  <2>2. Cardinality(In("prepared")) \in Nat
    BY <2>1, FS_CardinalityType
  <2> QED BY <2>2
<1>6. /\ calls' \in Seq(CallRecord) /\ DOMAIN calls' = 1..number
      /\ \A i \in DOMAIN calls' :
           /\ calls'[i].role = "unified"
           /\ calls'[i].targets = {c \in In("prepared") : batch[c] = i}
  <2>1. ASSUME NEW i \in 1..number
        PROVE  [role |-> "unified", targets |-> {c \in In("prepared") : batch[c] = i}] \in CallRecord
    BY SinglePassAssumption DEF CallRecord, SinglePassAssumption, In
  <2> QED BY <1>4, <1>5, <2>1 DEF Batches
<1>7. \A i \in DOMAIN calls' : /\ calls'[i] \in CallRecord /\ calls'[i].targets # {}
                               /\ \A c \in calls'[i].targets : c \in Candidate /\ cand[c] = "prepared"
  <2> TAKE i \in DOMAIN calls'
  <2>1. calls'[i] \in CallRecord
    BY <1>6
  <2>2. calls'[i].targets # {}
    BY <1>4, <1>6
  <2>3. \A c \in calls'[i].targets : c \in Candidate /\ cand[c] = "prepared"
    BY <1>6 DEF In
  <2> QED BY <2>1, <2>2, <2>3
<1>8. CallsInv'
  <2>1. \A i \in DOMAIN calls', k \in DOMAIN calls' : i # k => calls'[i].targets \cap calls'[k].targets = {}
    BY <1>6
  <2>2. \A i \in DOMAIN calls' :
          /\ \A c \in calls'[i].targets : cand'[c] = "prepared"
          /\ \A c \in calls'[i].targets, r \in Role : finding'[<<c, r>>] = "none"
    BY <1>0, <1>1, <1>7 DEF StageInv
  <2> QED BY <1>1, <1>6, <1>7, <2>1, <2>2 DEF CallsInv
<1>9. \A i \in DOMAIN calls' : job'[Owner(calls'[i])] = "idle"
  <2> TAKE i \in DOMAIN calls'
  <2>1. Owner(calls'[i]) \in Job \ Critique
    BY <1>7, OwnerIs
  <2> QED BY <1>0, <1>1, <2>1 DEF StageInv
<1>10. TurnsInv'
  <2>1. UnderWay' = {}
    BY <1>9 DEF UnderWay, Owner, Review
  <2> QED BY <1>0, <1>1, <1>9, <2>1 DEF TurnsInv, Owner, Review
<1>11. StageInv'
  <2>1. \A c \in Candidate : cand[c] \notin {"waiting", "preparing"}
    BY DEF PlanBatches, In
  <2>2. \A j \in Escalation : job[j] = "idle"
    BY <1>0, EscalationsAreJobs DEF StageInv
  <2> QED BY <1>0, <1>1, <2>1, <2>2 DEF StageInv, Escalation
<1>12. EnoughCalls' /\ NoFindingIsLost'
  BY <1>0, <1>1 DEF EnoughCalls, NoFindingIsLost
<1>13. RefusedForGood'
  <2>1. \A j \in Job \ Critique : job'[j] = "refused" => job[j] = "refused"
    BY <1>1
  <2> QED BY <1>0, <1>1, <2>1, RefusalsUntouched
<1> QED BY <1>1, <1>2, <1>8, <1>10, <1>11, <1>12, <1>13 DEF PassInv

(* What the plans of the escalations are. *)
IsPlan(plans) ==
    /\ plans \in Seq(CallRecord)
    /\ \A i \in DOMAIN plans :
         /\ plans[i].targets # {} /\ plans[i].role # "unified"
         /\ plans[i].targets \subseteq In("prepared")
    /\ \A i, k \in DOMAIN plans : i # k => plans[i].targets \cap plans[k].targets = {}

LEMMA PlanShape ==
    ASSUME NEW s \in SUBSET In("prepared"), NEW t \in SUBSET In("prepared")
    PROVE  IsPlan(Escalations(s, t))
<1>0. PICK plans : plans = Escalations(s, t)
  OBVIOUS
<1>1. plans = (IF s = {} THEN <<>> ELSE <<[role |-> "security", targets |-> s]>>)
                \o (IF t \ s = {} THEN <<>> ELSE <<[role |-> "correctness", targets |-> t \ s]>>)
  BY <1>0 DEF Escalations
<1>2. PICK u : u = t \ s
  OBVIOUS
<1>3. u \in SUBSET In("prepared") /\ u \cap s = {}
  BY <1>2
<1>4. PICK S : S = [role |-> "security", targets |-> s]
  OBVIOUS
<1>5. PICK C : C = [role |-> "correctness", targets |-> u]
  OBVIOUS
<1>6. /\ S \in CallRecord /\ S.role # "unified" /\ S.targets = s
      /\ C \in CallRecord /\ C.role # "unified" /\ C.targets = u
  BY <1>3, <1>4, <1>5, SinglePassAssumption DEF SinglePassAssumption, CallRecord, In
<1>7. plans = (IF s = {} THEN <<>> ELSE <<S>>) \o (IF u = {} THEN <<>> ELSE <<C>>)
  BY <1>1, <1>2, <1>4, <1>5
<1>8. /\ plans \in Seq(CallRecord)
      /\ \A i \in DOMAIN plans : plans[i] \in {S, C}
      /\ \A i \in DOMAIN plans : plans[i] = S => s # {} /\ i = 1
      /\ \A i \in DOMAIN plans : plans[i] = C => u # {}
      /\ \A i, k \in DOMAIN plans : i # k => plans[i] # plans[k]
  <2>0. S # C
    BY <1>4, <1>5
  <2>1. CASE s = {} /\ u = {}
    BY <1>7, <2>1
  <2>2. CASE s # {} /\ u = {}
    <3>1. plans = <<S>>
      BY <1>6, <1>7, <2>2
    <3> QED BY <1>6, <2>0, <2>2, <3>1
  <2>3. CASE s = {} /\ u # {}
    <3>1. plans = <<C>>
      BY <1>6, <1>7, <2>3
    <3>2. plans \in Seq(CallRecord) /\ DOMAIN plans = {1} /\ plans[1] = C
      BY <1>6, <3>1
    <3> QED BY <2>0, <2>3, <3>2
  <2>4. CASE s # {} /\ u # {}
    <3>1. plans = <<S>> \o <<C>>
      BY <1>7, <2>4
    <3>2. /\ <<S>> \in Seq(CallRecord) /\ <<C>> \in Seq(CallRecord)
          /\ Len(<<S>>) = 1 /\ Len(<<C>>) = 1 /\ <<S>>[1] = S /\ <<C>>[1] = C
      BY <1>6
    <3>3. /\ plans \in Seq(CallRecord) /\ DOMAIN plans = 1..2
          /\ plans[1] = S /\ plans[2] = C
      BY <3>1, <3>2
    <3>4. \A i \in DOMAIN plans : i = 1 \/ i = 2
      BY <3>3
    <3>5. 1 \in DOMAIN plans /\ 2 \in DOMAIN plans
      BY <3>3
    <3> QED BY <2>0, <2>4, <3>3, <3>4, <3>5
  <2> QED BY <2>1, <2>2, <2>3, <2>4
<1>9. \A i \in DOMAIN plans :
        /\ plans[i].targets # {} /\ plans[i].role # "unified"
        /\ plans[i].targets \subseteq In("prepared")
  BY <1>3, <1>6, <1>8
<1>10. ASSUME NEW i \in DOMAIN plans, NEW k \in DOMAIN plans, i # k
       PROVE  plans[i].targets \cap plans[k].targets = {}
  <2>1. (plans[i] = S /\ plans[k] = C) \/ (plans[i] = C /\ plans[k] = S)
    BY <1>8, <1>10
  <2> QED BY <1>3, <1>6, <2>1
<1> QED BY <1>0, <1>8, <1>9, <1>10 DEF IsPlan

LEMMA PlanEscalationsKeeps ==
    ASSUME PassInv, phase = "running", PlanEscalations
    PROVE  PassInv' /\ UNCHANGED ledgerVars
<1>0. /\ RunInv /\ JobsCount /\ RefusedForGood /\ RunTypeOK /\ Attempted /\ Book!TypeOK
      /\ CallsInv /\ TurnsInv /\ StageInv /\ NoFindingIsLost
      /\ stage = "first_pass" /\ calls = <<>> /\ underWay = {}
  BY NoneAtWork, RunInvIs DEF PassInv, PlanEscalations, Book!IInv
<1>1. /\ UNCHANGED <<ledgerVars, jobVars, pool, runVars>>
      /\ UNCHANGED <<cand, finding, phase, underWay, job, attempts, providerCalls>>
      /\ stage' = "escalate"
  BY DEF PlanEscalations, jobVars, runVars, ledgerVars
<1>2. RunInv' /\ JobsCount'
  BY <1>0, <1>1, StutterKeeps, CountsUntouched
<1>3. /\ calls' \in Seq(CallRecord)
      /\ calls' # <<>> => Len(calls') <= Affordable
      /\ \A i \in DOMAIN calls' :
           /\ calls'[i].targets # {} /\ calls'[i].role # "unified"
           /\ calls'[i].targets \subseteq In("prepared")
      /\ \A i, k \in DOMAIN calls' : i # k => calls'[i].targets \cap calls'[k].targets = {}
  <2>1. PICK s \in SUBSET In("prepared"), t \in SUBSET In("prepared") : calls' = Escalations(s, t)
    BY DEF PlanEscalations
  <2>2. PICK plans : plans = Escalations(s, t) /\ calls' = plans
    BY <2>1
  <2>3. IsPlan(plans)
    BY <2>1, <2>2, PlanShape
  <2>4. calls' # <<>> => Len(calls') <= Affordable
    BY DEF PlanEscalations
  <2> QED BY <2>2, <2>3, <2>4 DEF IsPlan
<1>4. CallsInv'
  <2>1. \A i \in DOMAIN calls' : \A c \in calls'[i].targets : cand'[c] = "prepared"
    BY <1>1, <1>3 DEF In
  <2> QED BY <1>1, <1>3, <2>1 DEF CallsInv
<1>5. \A i \in DOMAIN calls' : /\ Owner(calls'[i]) \in Escalation /\ Owner(calls'[i]) \in Job
                               /\ job'[Owner(calls'[i])] = "idle"
  <2> TAKE i \in DOMAIN calls'
  <2>1. calls'[i] \in CallRecord /\ calls'[i].targets # {} /\ calls'[i].role # "unified"
    BY <1>3
  <2>2. Owner(calls'[i]) \in Escalation /\ Owner(calls'[i]) \in Job
    BY <2>1, OwnerIs
  <2> QED BY <1>0, <1>1, <2>2 DEF StageInv
<1>6. TurnsInv'
  <2>1. UnderWay' = {}
    BY <1>5 DEF UnderWay, Owner, Review
  <2> QED BY <1>0, <1>1, <1>5, <2>1 DEF TurnsInv, Owner, Review
<1>7. StageInv'
  BY <1>0, <1>1 DEF StageInv
<1>8. EnoughCalls'
  <2> SUFFICES ASSUME calls' # <<>>
      PROVE  /\ providerCalls + Len(calls') - attempts[Owner(Head(calls'))] < Book!MaxProviderCalls
             /\ providerCalls + Len(calls') - attempts[Owner(Head(calls'))] <= Book!MaxReviewCalls
    BY <1>1 DEF EnoughCalls, Owner, Review, Book!MaxProviderCalls,
                Book!MaxReviewCalls, Book!ReviewCallBudget, Book!Smaller, Book!Larger
  <2>1. 1 \in DOMAIN calls' /\ Head(calls') = calls'[1] /\ Len(calls') \in Nat
    BY <1>3
  <2>2. attempts[Owner(Head(calls'))] = 0
    BY <1>0, <1>1, <1>5, <2>1 DEF Attempted, Tried
  <2>3. Book!MaxProviderCalls \in Nat /\ Book!MaxReviewCalls \in Nat /\ providerCalls \in Nat
    BY <1>0, Book!CeilingsAreNat, LedgerAssumption DEF Book!TypeOK
  <2>4. Affordable = Book!Smaller(Book!MaxProviderCalls - providerCalls,
                                  Book!MaxReviewCalls - providerCalls + 1) - 1
    BY DEF Affordable, Ledger!Smaller, Ledger!MaxProviderCalls, Ledger!MaxReviewCalls,
           Ledger!ReviewCallBudget, Ledger!Larger, Book!Smaller, Book!MaxProviderCalls,
           Book!MaxReviewCalls, Book!ReviewCallBudget, Book!Larger
  <2>5. Len(calls') <= Affordable
    BY <1>3
  <2> QED BY <2>1, <2>2, <2>3, <2>4, <2>5 DEF Book!Smaller
<1>9. NoFindingIsLost'
  BY <1>0, <1>1 DEF NoFindingIsLost
<1>10. RefusedForGood'
  <2>1. \A j \in Job \ Critique : job'[j] = "refused" => job[j] = "refused"
    BY <1>1
  <2> QED BY <1>0, <1>1, <2>1, RefusalsUntouched
<1> QED BY <1>1, <1>2, <1>4, <1>6, <1>7, <1>8, <1>9, <1>10 DEF PassInv

LEMMA StartVerifyingKeeps ==
    ASSUME PassInv, phase = "running", StartVerifying
    PROVE  PassInv' /\ UNCHANGED ledgerVars
<1>0. /\ RunInv /\ JobsCount /\ RefusedForGood /\ RunTypeOK /\ JobInv /\ Staged
      /\ CallsInv /\ TurnsInv /\ StageInv /\ NoFindingIsLost
  BY RunInvIs DEF PassInv, RunInv
<1>1. PICK c \in In("prepared") : Goto(c, "critiquing")
  BY DEF StartVerifying
<1>2. /\ c \in Candidate /\ cand[c] = "prepared" /\ calls = <<>> /\ calls' = calls
      /\ UNCHANGED <<finding, underWay, jobVars, pool, ledgerVars, phase, status>>
      /\ UNCHANGED <<job, attempts>> /\ stage \in {"escalate", "verify"} /\ stage' = "verify"
  BY <1>1 DEF StartVerifying, In, jobVars
<1>3. cand'[c] = "critiquing" /\ \A d \in Candidate \ {c} : cand'[d] = cand[d]
  BY <1>0, <1>1, <1>2 DEF Goto, RunTypeOK
<1>4. RunInv'
  <2>1. /\ "prepared" \notin Complete \cup {"critiquing", "verifying", "raised"}
        /\ "critiquing" \in CandidateState
    BY DEF Complete, CandidateState, InFlight
  <2>2. \A r \in Role : finding[<<c, r>>] # "held"
    BY <1>0, <1>2 DEF StageInv
  <2>3. RunKept'
    BY <1>0, <1>1, <1>2, <2>1, <2>2, MoveKeeps
  <2> QED BY <1>0, <1>2, <2>3, StepKeeps
<1>5. CallsInv'
  BY <1>2 DEF CallsInv
<1>6. TurnsInv'
  BY <1>0, <1>2 DEF TurnsInv, UnderWay
<1>7. StageInv'
  <2>1. \A d \in Candidate : cand'[d] \notin {"waiting", "preparing"}
    BY <1>0, <1>2, <1>3 DEF StageInv
  <2>2. \A d \in Candidate, r \in Role : cand'[d] = "prepared" => finding'[<<d, r>>] # "held"
    BY <1>0, <1>2, <1>3 DEF StageInv
  <2> QED BY <1>2, <2>1, <2>2 DEF StageInv
<1>8. EnoughCalls'
  BY <1>2 DEF EnoughCalls
<1>9. NoFindingIsLost'
  <2> SUFFICES ASSUME NEW x \in Candidate \X Role, finding[x] # "none"
      PROVE  cand'[x[1]] \notin {"failed", "skipped"}
    BY <1>2 DEF NoFindingIsLost
  <2>1. cand[x[1]] \notin {"failed", "skipped"} /\ x[1] \in Candidate
    BY <1>0 DEF NoFindingIsLost
  <2> QED BY <1>3, <2>1
<1>10. RefusedForGood' /\ JobsCount'
  <2>1. \A j \in Job \ Critique : job'[j] = "refused" => job[j] = "refused"
    BY <1>2
  <2> QED BY <1>0, <1>2, <2>1, RefusalsUntouched, CountsUntouched
<1> QED BY <1>2, <1>4, <1>5, <1>6, <1>7, <1>8, <1>9, <1>10 DEF PassInv

LEMMA StartCallKeeps ==
    ASSUME PassInv, phase = "running", StartCall
    PROVE  PassInv' /\ UNCHANGED ledgerVars
<1> DEFINE owner == Owner(Head(calls))
<1>0. /\ RunInv /\ JobsCount /\ RefusedForGood /\ RunTypeOK /\ JobInv /\ Staged
      /\ CallsInv /\ TurnsInv /\ StageInv /\ EnoughCalls /\ NoFindingIsLost
      /\ OnlyReviews /\ Attempted /\ Book!TypeOK
  BY RunInvIs, ReviewsOnly DEF PassInv, RunInv, Book!IInv
<1>1. /\ calls # <<>> /\ job[owner] = "idle"
      /\ UNCHANGED <<finding, phase, status, stage, attempts, ending, tokens, ledgerVars>>
      /\ UNCHANGED Unsettled
      /\ \/ /\ Fits(InputEstimate[owner]) /\ pool' = pool + InputEstimate[owner]
            /\ Start({owner}) /\ underWay' = underWay \cup {owner}
            /\ UNCHANGED <<cand, calls>>
         \/ /\ Unanswered(Head(calls), "skipped") /\ calls' = Tail(calls)
            /\ UNCHANGED <<pool, job, underWay>>
  BY DEF StartCall, Unsettled
<1>2. /\ 1 \in DOMAIN calls /\ Head(calls) = calls[1]
      /\ owner = Owner(calls[1]) /\ owner \in Job \ Critique /\ owner \in Job
      /\ owner \in Escalation <=> calls[1].role # "unified"
  <2>1. 1 \in DOMAIN calls /\ Head(calls) = calls[1]
    BY <1>0, <1>1, FirstCall
  <2> QED BY <1>0, <2>1, OwnersAre
<1>3. underWay = {}
  BY <1>0, <1>1, FirstAtWork
<1>4. PICK o : o = owner
  OBVIOUS
<1> HIDE DEF owner
<1>5. CASE /\ Fits(InputEstimate[owner]) /\ pool' = pool + InputEstimate[owner]
           /\ Start({owner}) /\ underWay' = underWay \cup {owner}
           /\ UNCHANGED <<cand, calls>>
  <2>1. PICK H : H = {owner}
    OBVIOUS
  <2>2. PICK N : N = {}
    OBVIOUS
  <2>3. /\ H \in SUBSET Job /\ H \in SUBSET (Job \ Critique) /\ IsFiniteSet(H)
        /\ N \in SUBSET (Job \ Critique)
        /\ \A j \in H \cup H : job[j] = "idle"
    BY <1>1, <1>2, <2>1, <2>2, FS_Singleton
  <2>4. TotalOf(InputEstimate, H) = InputEstimate[owner]
    <3>1. InputEstimate[owner] \in Nat
      BY <1>2, EstimateType
    <3> QED BY <2>1, <3>1, TotalSingle
  <2>5. OnlyReviews' /\ underWay' = (underWay \ N) \cup H /\ underWay' = {owner}
    BY <1>2, <1>3, <1>5, <2>1, <2>2 DEF OnlyReviews
  <2>6. \A c \in Candidate :
          cand'[c] = cand[c] /\ \A r \in Role : finding'[<<c, r>>] = finding[<<c, r>>]
    BY <1>1, <1>5
  <2>7. \A j \in Job : j \in Holding' <=> (j \in Holding /\ j \notin N) \/ j \in H
    BY <1>0, <2>3, <2>5, <2>6, CallHolds
  <2>8. /\ \A j \in Job : j \in Holding' <=> j \in Holding \/ j \in H
        /\ \A j \in H : j \notin Holding
    <3>1. owner \notin Holding
      <4>1. PICK c \in Candidate, r \in Role : owner = Review(c, r)
        <5>1. PICK c \in Candidate, r \in Role : owner = Review(c, r) \/ owner = Critic(c, r)
          BY <1>2, JobIs
        <5>2. Critic(c, r) \in Critique
          BY RunAssumption DEF RunAssumption, RunCritiques, Critic
        <5> QED BY <1>2, <5>1, <5>2
      <4> QED BY <1>0, <1>3, <4>1, HoldingIs DEF Holders
    <3> QED BY <2>1, <2>2, <2>7, <3>1
  <2>9. \A j \in Job : job'[j] = IF j = owner THEN "reserve" ELSE job[j]
    BY <1>5 DEF Start
  <2>10. /\ \A j \in Critique : job'[j] = job[j]
         /\ \A j \in Job \ Critique : job'[j] \in Busy => j \in underWay'
    <3>1. \A j \in Critique : job'[j] = job[j]
      <4>1. Critique \subseteq Job
        BY RunAssumption DEF RunAssumption, RunJobs, RunCritiques
      <4> QED BY <1>2, <2>9, <4>1
    <3>2. ASSUME NEW j \in Job \ Critique, job[j] \in Busy PROVE j \in underWay
      <4>1. PICK c \in Candidate, r \in Role : j = Review(c, r) \/ j = Critic(c, r)
        BY JobIs
      <4>2. Critic(c, r) \in Critique
        BY RunAssumption DEF RunAssumption, RunCritiques, Critic
      <4> QED BY <1>0, <3>2, <4>1, <4>2, OwnOf DEF Own
    <3> QED BY <2>5, <2>9, <3>1, <3>2, <1>3
  <2>11. Staged'
    BY <1>0, <1>1, <2>5, <2>6, <2>10, CallStages
  <2>12. /\ cand' \in [Candidate -> CandidateState]
         /\ finding' \in [Candidate \X Role -> FindingState]
         /\ Start(H) /\ Fits(TotalOf(InputEstimate, H))
         /\ pool' = pool + TotalOf(InputEstimate, H)
    BY <1>0, <1>1, <1>5, <2>1, <2>4 DEF RunTypeOK
  <2>13. RunKept'
    BY <1>0, <1>1, <2>3, <2>5, <2>8, <2>11, <2>12, HoldKeeps
  <2>14. RunInv'
    BY <1>0, <1>1, <2>13, StepKeeps
  <2>15. JobsCount'
    <3>1. \A j \in H : job[j] = "idle"
      BY <2>3
    <3> QED BY <1>0, <1>1, <2>3, <2>12, <3>1, StartCounts
  <2>16. CallsInv'
    BY <1>0, <1>1, <1>5 DEF CallsInv
  <2>17. TurnsInv'
    <3>1. ASSUME NEW i \in DOMAIN calls, i # 1
          PROVE  /\ Owner(calls[i]) \in Job /\ Owner(calls[i]) # owner
                 /\ job'[Owner(calls[i])] = "idle"
      <4>1. Owner(calls[i]) \in Job /\ Owner(calls[i])[1] \in calls[i].targets
        BY <1>0, OwnersAre
      <4>2. owner[1] \in calls[1].targets
        BY <1>0, <1>2, OwnersAre
      <4>3. calls[i].targets \cap calls[1].targets = {}
        BY <1>0, <1>2, <3>1 DEF CallsInv
      <4>4. Owner(calls[i]) # owner
        BY <4>1, <4>2, <4>3
      <4>5. job[Owner(calls[i])] = "idle"
        BY <1>0, <3>1 DEF TurnsInv
      <4> QED BY <2>9, <4>1, <4>4, <4>5
    <3>2. UnderWay' = {owner}
      <4>1. UnderWay' = {j \in Job \ Critique : job'[j] # "idle"} \cap {Owner(calls[i]) : i \in DOMAIN calls}
        BY <1>5 DEF UnderWay, Owner, Review
      <4>2. owner \in UnderWay'
        BY <1>2, <2>9, <4>1
      <4>3. ASSUME NEW j \in UnderWay' PROVE j = owner
        BY <1>2, <3>1, <4>1
      <4> QED BY <4>2, <4>3
    <3> QED BY <1>5, <2>5, <3>1, <3>2 DEF TurnsInv, Owner, Review
  <2>18. StageInv'
    <3>1. stage \in {"first_pass", "escalate"}
      BY <1>0, <1>1 DEF CallsInv, StageInv
    <3>2. stage = "first_pass" => owner \notin Escalation
      BY <1>0, <1>2 DEF CallsInv
    <3>3. stage = "first_pass" => \A j \in Escalation : job'[j] = "idle"
      BY <1>0, <2>9, <3>2, EscalationsAreJobs DEF StageInv
    <3>4. UNCHANGED <<cand, finding, stage>>
      BY <1>1, <1>5
    <3> QED BY <1>0, <3>1, <3>3, <3>4 DEF StageInv, Escalation
  <2>19. EnoughCalls'
    <3>1. UNCHANGED <<stage, calls, attempts, providerCalls>>
      BY <1>1, <1>5 DEF ledgerVars
    <3> QED BY <1>0, <3>1 DEF EnoughCalls, Escalation, Owner, Review, Book!MaxProviderCalls,
                    Book!MaxReviewCalls, Book!ReviewCallBudget, Book!Smaller, Book!Larger
  <2>20. NoFindingIsLost'
    BY <1>0, <1>1, <1>5 DEF NoFindingIsLost
  <2>21. RefusedForGood'
    <3>1. \A j \in Job \ Critique : job'[j] = "refused" => job[j] = "refused"
      BY <2>9
    <3> QED BY <1>0, <1>1, <3>1, RefusalsUntouched
  <2> QED BY <1>1, <2>14, <2>15, <2>16, <2>17, <2>18, <2>19, <2>20, <2>21 DEF PassInv
<1>6. CASE /\ Unanswered(Head(calls), "skipped") /\ calls' = Tail(calls)
           /\ UNCHANGED <<pool, job, underWay>>
  <2>1. /\ cand' \in [Candidate -> CandidateState]
        /\ \A c \in Candidate \ calls[1].targets : cand'[c] = cand[c]
        /\ \A c \in Candidate :
             \/ cand'[c] = cand[c]
             \/ /\ cand[c] = "prepared" /\ cand'[c] = "skipped" /\ stage = "first_pass"
                /\ \A r \in Role : finding[<<c, r>>] = "none"
    <3>1. "skipped" \in {"skipped", "failed", "raised"} /\ Unanswered(calls[1], "skipped")
      BY <1>2, <1>6
    <3> QED BY <1>0, <1>1, <3>1, GivenUp
  <2>2. JobsCount' /\ RefusedForGood'
    <3>1. \A j \in Job \ Critique : job'[j] = "refused" => job[j] = "refused"
      BY <1>6
    <3>2. UNCHANGED jobVars
      BY <1>1, <1>6 DEF jobVars
    <3> QED BY <1>0, <1>1, <3>1, <3>2, CountsUntouched, RefusalsUntouched
  <2>3. PICK N : N = {}
    OBVIOUS
  <2>4. /\ OnlyReviews' /\ N \in SUBSET (Job \ Critique) /\ underWay' = (underWay \ N) \cup N
    BY <1>0, <1>6, <2>3 DEF OnlyReviews
  <2>5. \A c \in Candidate :
          \/ cand'[c] = cand[c] /\ \A r \in Role : finding'[<<c, r>>] = finding[<<c, r>>]
          \/ /\ cand[c] \notin {"critiquing", "verifying", "raised"}
             /\ \/ cand'[c] \notin {"critiquing", "verifying", "raised"}
                \/ \A r \in Role : finding'[<<c, r>>] # "held"
    BY <1>1, <2>1
  <2>6. \A j \in Job : j \in Holding' <=> (j \in Holding /\ j \notin N) \/ j \in N
    BY <1>0, <2>4, <2>5, CallHolds
  <2>7. \A j \in Job : j \in Holding' <=> j \in Holding
    BY <2>3, <2>6
  <2>8. \A c \in Candidate :
          \/ cand'[c] = cand[c] /\ \A r \in Role : finding'[<<c, r>>] = finding[<<c, r>>]
          \/ /\ cand[c] = "prepared" /\ cand'[c] \in {"prepared", "skipped", "failed", "raised"}
             /\ \A r \in Role : finding'[<<c, r>>] \notin {"verified", "unverified"}
    BY <1>1, <2>1
  <2>9. /\ \A j \in Critique : job'[j] = job[j]
        /\ \A j \in Job \ Critique : job'[j] \in Busy => j \in underWay'
    <3>1. ASSUME NEW j \in Job \ Critique, job[j] \in Busy PROVE j \in underWay
      <4>1. PICK c \in Candidate, r \in Role : j = Review(c, r) \/ j = Critic(c, r)
        BY JobIs
      <4>2. Critic(c, r) \in Critique
        BY RunAssumption DEF RunAssumption, RunCritiques, Critic
      <4> QED BY <1>0, <3>1, <4>1, <4>2, OwnOf DEF Own
    <3> QED BY <1>6, <3>1
  <2>10. Staged'
    BY <1>0, <1>1, <2>4, <2>8, <2>9, CallStages
  <2>11. finding' \in [Candidate \X Role -> FindingState] /\ UNCHANGED <<job, pool>>
    BY <1>0, <1>1, <1>6 DEF RunTypeOK
  <2>12. RunKept'
    BY <1>0, <1>1, <2>1, <2>4, <2>7, <2>10, <2>11, QuietKeeps
  <2>13. RunInv'
    BY <1>0, <1>1, <2>12, StepKeeps
  <2>14. CallsInv'
    <3>1. \A c \in Candidate \ calls[1].targets :
            cand'[c] = cand[c] /\ \A r \in Role : finding'[<<c, r>>] = finding[<<c, r>>]
      BY <1>1, <2>1
    <3> QED BY <1>0, <1>1, <1>6, <3>1, NextCall
  <2>15. TurnsInv'
    BY <1>0, <1>1, <1>3, <1>6, NextTurn
  <2>16. EnoughCalls'
    <3>1. UNCHANGED <<stage, attempts, providerCalls, terminationReason>>
      BY <1>1 DEF ledgerVars
    <3> QED BY <1>0, <1>1, <1>6, <3>1, NextFits
  <2>17. StageInv'
    BY <1>0, <1>1, <1>6, <2>1 DEF StageInv, Escalation
  <2>18. NoFindingIsLost'
    <3> SUFFICES ASSUME NEW c \in Candidate, NEW r \in Role, finding[<<c, r>>] # "none"
        PROVE  cand'[c] \notin {"failed", "skipped"}
      BY <1>1 DEF NoFindingIsLost
    <3>1. cand[c] \notin {"failed", "skipped"}
      BY <1>0 DEF NoFindingIsLost
    <3> QED BY <2>1, <3>1
  <2> QED BY <1>1, <2>2, <2>13, <2>14, <2>15, <2>16, <2>17, <2>18 DEF PassInv
<1> QED BY <1>1, <1>5, <1>6

LEMMA FinishCallKeeps ==
    ASSUME PassInv, phase = "running", FinishCall
    PROVE  PassInv' /\ UNCHANGED ledgerVars
<1> DEFINE owner == Owner(Head(calls))
<1>0. /\ RunInv /\ JobsCount /\ RefusedForGood /\ RunTypeOK /\ JobInv /\ Staged
      /\ CallsInv /\ TurnsInv /\ StageInv /\ EnoughCalls /\ NoFindingIsLost
      /\ OnlyReviews /\ Attempted /\ Book!TypeOK
  BY RunInvIs, ReviewsOnly DEF PassInv, RunInv, Book!IInv
<1>1. /\ calls # <<>> /\ job[owner] \in Ended
      /\ pool' = Floor(pool - InputEstimate[owner] + tokens[owner])
      /\ underWay' = underWay \ {owner} /\ calls' = Tail(calls)
      /\ UNCHANGED <<phase, status, stage, jobVars, ledgerVars>>
      /\ UNCHANGED <<job, attempts, ending, tokens>>
      /\ UNCHANGED Unsettled
  BY DEF FinishCall, Unsettled, jobVars
<1>2. /\ 1 \in DOMAIN calls /\ Head(calls) = calls[1]
      /\ owner = Owner(calls[1]) /\ owner \in Job \ Critique /\ owner \in Job
  <2>1. 1 \in DOMAIN calls /\ Head(calls) = calls[1]
    BY <1>0, <1>1, FirstCall
  <2> QED BY <1>0, <2>1, OwnersAre
<1>3. underWay = {owner} /\ underWay' = {}
  <2>1. job[owner] # "idle"
    BY <1>1 DEF Ended, Handled
  <2>2. underWay = {owner}
    BY <1>0, <1>1, <2>1, FirstAtWork
  <2> QED BY <1>1, <2>2
<1>4. /\ cand' \in [Candidate -> CandidateState]
      /\ \A c \in Candidate \ calls[1].targets :
           cand'[c] = cand[c] /\ \A r \in Role : finding'[<<c, r>>] = finding[<<c, r>>]
      /\ \A c \in Candidate :
           \/ cand'[c] = cand[c] /\ \A r \in Role : finding'[<<c, r>>] = finding[<<c, r>>]
           \/ /\ cand[c] = "prepared" /\ cand'[c] \in {"prepared", "skipped", "failed", "raised"}
              /\ cand'[c] \in {"skipped", "failed"} =>
                   stage = "first_pass" /\ \A r \in Role : finding'[<<c, r>>] = "none"
              /\ \A r \in Role : finding'[<<c, r>>] \notin {"verified", "unverified", "held"}
      /\ finding' \in [Candidate \X Role -> FindingState]
  <2>0. /\ cand \in [Candidate -> CandidateState]
        /\ finding \in [Candidate \X Role -> FindingState]
    BY <1>0 DEF RunTypeOK
  <2>1. CASE job[owner] = "ok"
    <3>0. \E found \in [Head(calls).targets -> {"none", "accepted", "selected"}] :
            /\ finding' = [x \in Candidate \X Role |->
                             IF x[2] = Head(calls).role /\ x[1] \in Head(calls).targets
                             THEN found[x[1]] ELSE finding[x]]
            /\ UNCHANGED cand
      BY <2>1 DEF FinishCall
    <3>1. PICK found \in [calls[1].targets -> {"none", "accepted", "selected"}] :
            /\ finding' = [x \in Candidate \X Role |->
                             IF x[2] = calls[1].role /\ x[1] \in calls[1].targets
                             THEN found[x[1]] ELSE finding[x]]
            /\ UNCHANGED cand
      BY <1>2, <3>0
    <3>2. \A c \in Candidate, r \in Role :
            finding'[<<c, r>>] = IF r = calls[1].role /\ c \in calls[1].targets
                                 THEN found[c] ELSE finding[<<c, r>>]
      BY <3>1
    <3>3. \A c \in calls[1].targets : c \in Candidate /\ cand[c] = "prepared"
      BY <1>0, <1>2, OwnersAre DEF CallsInv
    <3>4. \A c \in calls[1].targets, r \in Role :
            finding[<<c, r>>] \notin {"verified", "unverified", "held"}
      <4> SUFFICES ASSUME NEW c \in calls[1].targets, NEW r \in Role
          PROVE  finding[<<c, r>>] \notin {"verified", "unverified", "held"}
        OBVIOUS
      <4>1. Own(c)
        BY <1>0, <3>3, OwnOf
      <4>2. finding[<<c, r>>] # "held"
        BY <1>0, <3>3 DEF StageInv
      <4> QED BY <3>3, <4>1, <4>2 DEF Own, Complete
    <3>5. \A c \in calls[1].targets, r \in Role :
            finding'[<<c, r>>] \notin {"verified", "unverified", "held"}
      BY <3>2, <3>3, <3>4
    <3>6. finding' \in [Candidate \X Role -> FindingState]
      BY <2>0, <3>1 DEF FindingState, Kept
    <3> QED BY <2>0, <3>1, <3>2, <3>3, <3>5, <3>6
  <2>2. CASE job[owner] # "ok"
    <3>1. PICK state \in {"skipped", "failed", "raised"} :
            Unanswered(calls[1], state) /\ UNCHANGED finding
      <4>1. /\ Unanswered(calls[1], IF job[owner] = "refused" THEN "skipped" ELSE job[owner])
            /\ UNCHANGED finding
        BY <1>2, <2>2 DEF FinishCall
      <4>2. job[owner] \in {"failed", "refused", "raised"}
        BY <1>1, <2>2 DEF Ended, Handled
      <4> HIDE DEF owner
      <4>3. CASE job[owner] = "refused"
        BY <4>1, <4>3
      <4>4. CASE job[owner] = "failed"
        BY <4>1, <4>4
      <4>5. CASE job[owner] = "raised"
        BY <4>1, <4>5
      <4> QED BY <4>2, <4>3, <4>4, <4>5
    <3>2. /\ cand' \in [Candidate -> CandidateState]
          /\ \A c \in Candidate \ calls[1].targets : cand'[c] = cand[c]
          /\ \A c \in Candidate :
               \/ cand'[c] = cand[c]
               \/ /\ cand[c] = "prepared" /\ cand'[c] = state
                  /\ state # "raised" =>
                       stage = "first_pass" /\ \A r \in Role : finding[<<c, r>>] = "none"
                  /\ \A r \in Role : finding[<<c, r>>] # "held"
      BY <1>0, <1>1, <3>1, GivenUp
    <3>3. \A c \in Candidate, r \in Role :
            cand[c] = "prepared" => finding[<<c, r>>] \notin {"verified", "unverified"}
      <4> TAKE c \in Candidate, r \in Role
      <4>1. Own(c)
        BY <1>0, OwnOf
      <4> QED BY <4>1 DEF Own, Complete
    <3> QED BY <2>0, <3>1, <3>2, <3>3
  <2> QED BY <2>1, <2>2
<1>5. PICK R : R = {owner}
  OBVIOUS
<1>6. PICK N : N = {}
  OBVIOUS
<1>7. /\ R \in SUBSET Job /\ R \in SUBSET (Job \ Critique) /\ N \in SUBSET (Job \ Critique)
      /\ OnlyReviews' /\ underWay' = (underWay \ R) \cup N
  BY <1>1, <1>2, <1>3, <1>5, <1>6 DEF OnlyReviews
<1> HIDE DEF owner
<1>8. pool' = Floor(pool - TotalOf(InputEstimate, R) + TotalOf(tokens, OkIn(R)))
  <2>1. tokens[owner] \in Nat /\ InputEstimate[owner] \in Nat
    <3>1. tokens[owner] \in InputUsage \cup {0}
      BY <1>0, <1>2 DEF RunTypeOK
    <3>2. InputUsage \cup {0} \subseteq Nat /\ InputEstimate[owner] \in Nat
      BY <1>2, EstimateType
    <3> QED BY <3>1, <3>2
  <2>2. TotalOf(InputEstimate, R) = InputEstimate[owner]
    BY <1>5, <2>1, TotalSingle
  <2>3. TotalOf(tokens, OkIn(R)) = tokens[owner]
    <3>1. CASE job[owner] = "ok"
      <4>1. OkIn(R) = {owner}
        BY <1>5, <3>1 DEF OkIn
      <4> QED BY <2>1, <4>1, TotalSingle
    <3>2. CASE job[owner] # "ok"
      <4>1. OkIn(R) = {}
        BY <1>5, <3>2 DEF OkIn
      <4>2. tokens[owner] = 0
        BY <1>0, <1>1, <1>2, <3>2 DEF JobsCount, Answered, Ended, Handled
      <4>3. TotalOf(tokens, {}) = 0
        BY SameTotal, Book!TotalOfNone, LedgerAssumption
      <4> QED BY <4>1, <4>2, <4>3
    <3> QED BY <3>1, <3>2
  <2> QED BY <1>1, <2>2, <2>3
<1>9. /\ \A j \in Job : j \in Holding' <=> j \in Holding /\ j \notin R
      /\ \A j \in R : j \in Holding /\ job[j] \in Ended
  <2>1. \A c \in Candidate :
          \/ cand'[c] = cand[c] /\ \A r \in Role : finding'[<<c, r>>] = finding[<<c, r>>]
          \/ /\ cand[c] \notin {"critiquing", "verifying", "raised"}
             /\ \/ cand'[c] \notin {"critiquing", "verifying", "raised"}
                \/ \A r \in Role : finding'[<<c, r>>] # "held"
    BY <1>4
  <2>2. \A j \in Job : j \in Holding' <=> (j \in Holding /\ j \notin R) \/ j \in N
    BY <1>0, <1>7, <2>1, CallHolds
  <2>3. owner \in Holding
    BY <1>3 DEF Holding
  <2> QED BY <1>1, <1>5, <1>6, <2>2, <2>3
<1>10. Staged'
  <2>1. \A c \in Candidate :
          \/ cand'[c] = cand[c] /\ \A r \in Role : finding'[<<c, r>>] = finding[<<c, r>>]
          \/ /\ cand[c] = "prepared" /\ cand'[c] \in {"prepared", "skipped", "failed", "raised"}
             /\ \A r \in Role : finding'[<<c, r>>] \notin {"verified", "unverified"}
    BY <1>4
  <2>2. \A j \in Critique : job'[j] = job[j]
    BY <1>1
  <2>3. ASSUME NEW j \in Job \ Critique, job'[j] \in Busy PROVE j \in underWay'
    <3>1. job[j] \in Busy /\ job[j] \notin Ended
      BY <1>1, <2>3 DEF Busy
    <3>2. PICK c \in Candidate, r \in Role : j = Review(c, r) \/ j = Critic(c, r)
      BY JobIs
    <3>3. Critic(c, r) \in Critique
      BY RunAssumption DEF RunAssumption, RunCritiques, Critic
    <3>4. j \in underWay
      BY <1>0, <3>1, <3>2, <3>3, OwnOf DEF Own
    <3> QED BY <1>1, <1>3, <3>1, <3>4
  <2> QED BY <1>0, <1>1, <1>7, <2>1, <2>2, <2>3, CallStages
<1>11. RunInv'
  <2>1. RunKept'
    BY <1>0, <1>1, <1>4, <1>7, <1>8, <1>9, <1>10, SettleKeeps
  <2> QED BY <1>0, <1>1, <2>1, StepKeeps
<1>12. JobsCount' /\ RefusedForGood'
  <2>1. \A j \in Job \ Critique : job'[j] = "refused" => job[j] = "refused"
    BY <1>1
  <2> QED BY <1>0, <1>1, <2>1, CountsUntouched, RefusalsUntouched
<1>13. CallsInv'
  BY <1>0, <1>1, <1>4, NextCall
<1>14. TurnsInv'
  BY <1>0, <1>1, <1>3, NextTurn
<1>15. EnoughCalls'
  <2>1. UNCHANGED <<stage, attempts, providerCalls, terminationReason>>
    BY <1>1 DEF ledgerVars
  <2> QED BY <1>0, <1>1, <2>1, NextFits
<1>16. StageInv'
  <2>1. stage \in {"first_pass", "escalate"}
    BY <1>0, <1>1 DEF CallsInv, StageInv
  <2>2. \A c \in Candidate :
          /\ cand'[c] \in {"waiting", "preparing", "prepared", "failed", "skipped", "raised"}
          /\ cand'[c] \notin {"waiting", "preparing"}
    BY <1>0, <1>4, <2>1 DEF StageInv
  <2>3. \A c \in Candidate, r \in Role : cand'[c] = "prepared" => finding'[<<c, r>>] # "held"
    BY <1>0, <1>4 DEF StageInv
  <2>4. stage = "first_pass" => \A j \in Escalation : job'[j] = "idle"
    BY <1>0, <1>1 DEF StageInv
  <2> QED BY <1>1, <2>1, <2>2, <2>3, <2>4 DEF StageInv, Escalation
<1>17. NoFindingIsLost'
  <2> SUFFICES ASSUME NEW c \in Candidate, NEW r \in Role, finding'[<<c, r>>] # "none"
      PROVE  cand'[c] \notin {"failed", "skipped"}
    BY DEF NoFindingIsLost
  <2>1. CASE cand'[c] = cand[c] /\ finding'[<<c, r>>] = finding[<<c, r>>]
    BY <1>0, <2>1 DEF NoFindingIsLost
  <2>2. CASE /\ cand'[c] \in {"prepared", "skipped", "failed", "raised"}
             /\ cand'[c] \in {"skipped", "failed"} => finding'[<<c, r>>] = "none"
    BY <2>2
  <2> QED BY <1>4, <2>1, <2>2
<1> QED BY <1>1, <1>11, <1>12, <1>13, <1>14, <1>15, <1>16, <1>17 DEF PassInv

-----------------------------------------------------------------------------
(* What the single pass guarantees.                                        *)
LEMMA PassStarts == PassInit => PassInv
<1> SUFFICES ASSUME PassInit PROVE PassInv
  OBVIOUS
<1>1. /\ InitRun /\ stage = "prepare" /\ calls = <<>> /\ phase = "running" /\ underWay = {}
      /\ job = [j \in Job |-> "idle"] /\ tokens = [j \in Job |-> 0]
      /\ cand = [c \in Candidate |-> "waiting"]
      /\ finding = [x \in Candidate \X Role |-> "none"]
  BY DEF PassInit, InitRun, InitJobs
<1>2. RunInv
  BY <1>1, RunStarts
<1>3. JobsCount /\ RefusedForGood
  BY <1>1, EscalationsAreJobs DEF JobsCount, RefusedForGood
<1>4. CallsInv /\ TurnsInv /\ EnoughCalls /\ NoFindingIsLost
  BY <1>1 DEF CallsInv, TurnsInv, UnderWay, EnoughCalls, NoFindingIsLost
<1>5. StageInv
  BY <1>1 DEF StageInv
<1> QED BY <1>2, <1>3, <1>4, <1>5 DEF PassInv

LEMMA PassTimeKeeps ==
    ASSUME PassInv, phase = "running", TimeOut \/ Elapse, UNCHANGED passVars
    PROVE  PassInv' /\ Ledger!Next
<1>0. RunInv /\ RunTypeOK /\ JobsCount /\ RefusedForGood
  BY RunInvIs DEF PassInv
<1>1. RunInv' /\ Ledger!Next
  BY <1>0, TimeOutKeeps, ElapseKeeps
<1>2. UNCHANGED jobVars /\ UNCHANGED <<job, attempts>>
  BY DEF TimeOut, Elapse, jobVars
<1>3. JobsCount' /\ RefusedForGood'
  <2>1. \A j \in Job \ Critique : job'[j] = "refused" => job[j] = "refused"
    BY <1>2
  <2> QED BY <1>0, <1>1, <1>2, <2>1, CountsUntouched, RefusalsUntouched
<1>4. CASE TimeOut
  <2>1. phase' # "running"
    BY <1>4 DEF TimeOut
  <2> QED BY <1>1, <1>3, <2>1 DEF PassInv
<1>5. CASE Elapse
  <2>1. /\ UNCHANGED <<cand, finding, phase, underWay, job, attempts, stage, calls>>
        /\ UNCHANGED providerCalls
    <3>1. UNCHANGED providerCalls
      BY <1>5 DEF Elapse, Ledger!Elapse, Ledger!counterVars
    <3> QED BY <1>2, <1>5, <3>1 DEF Elapse, runVars, passVars
  <2>2. CallsInv /\ TurnsInv /\ StageInv /\ EnoughCalls /\ NoFindingIsLost
    BY DEF PassInv
  <2>3. CallsInv' /\ NoFindingIsLost'
    BY <2>1, <2>2 DEF CallsInv, NoFindingIsLost
  <2>4. TurnsInv'
    BY <2>1, <2>2 DEF TurnsInv, UnderWay, Owner, Review
  <2>5. StageInv'
    BY <2>1, <2>2 DEF StageInv, Escalation
  <2>6. EnoughCalls'
    BY <2>1, <2>2 DEF EnoughCalls, Escalation, Owner, Review, Book!MaxProviderCalls,
                    Book!MaxReviewCalls, Book!ReviewCallBudget, Book!Smaller, Book!Larger
  <2> QED BY <1>1, <1>3, <2>3, <2>4, <2>5, <2>6 DEF PassInv
<1> QED BY <1>4, <1>5

LEMMA PassEndKeeps ==
    ASSUME PassInv, EndRun \/ FailRun
    PROVE  PassInv' /\ UNCHANGED ledgerVars
<1>0. RunInv /\ RunTypeOK /\ JobsCount /\ RefusedForGood
  BY RunInvIs DEF PassInv
<1>1. RunInv' /\ UNCHANGED ledgerVars
  BY <1>0, EndKeeps, FailRunKeeps
<1>2. phase' # "running" /\ UNCHANGED jobVars /\ UNCHANGED <<job, attempts>>
  BY DEF EndRun, FailRun, jobVars
<1>3. JobsCount' /\ RefusedForGood'
  <2>1. \A j \in Job \ Critique : job'[j] = "refused" => job[j] = "refused"
    BY <1>2
  <2> QED BY <1>0, <1>1, <1>2, <2>1, CountsUntouched, RefusalsUntouched
<1> QED BY <1>1, <1>2, <1>3 DEF PassInv

LEMMA PassStutters ==
    ASSUME PassInv, UNCHANGED passRunVars
    PROVE  PassInv' /\ UNCHANGED ledgerVars
<1>0. /\ RunInv /\ RunTypeOK /\ JobsCount /\ RefusedForGood
      /\ phase = "running" => CallsInv /\ TurnsInv /\ StageInv /\ EnoughCalls /\ NoFindingIsLost
  BY RunInvIs DEF PassInv
<1>1. /\ UNCHANGED <<ledgerVars, jobVars, pool, runVars>> /\ UNCHANGED ledgerVars
      /\ UNCHANGED <<cand, finding, phase, underWay, job, attempts, stage, calls, providerCalls>>
  BY DEF passRunVars, passVars, runVars, jobVars, ledgerVars
<1>2. RunInv' /\ JobsCount'
  BY <1>0, <1>1, StutterKeeps, CountsUntouched
<1>3. RefusedForGood'
  <2>1. \A j \in Job \ Critique : job'[j] = "refused" => job[j] = "refused"
    BY <1>1
  <2> QED BY <1>0, <1>1, <2>1, RefusalsUntouched
<1>4. ASSUME phase = "running"
      PROVE  CallsInv' /\ TurnsInv' /\ StageInv' /\ EnoughCalls' /\ NoFindingIsLost'
  <2>1. CallsInv' /\ NoFindingIsLost'
    BY <1>0, <1>1, <1>4 DEF CallsInv, NoFindingIsLost
  <2>2. TurnsInv'
    BY <1>0, <1>1, <1>4 DEF TurnsInv, UnderWay, Owner, Review
  <2>3. StageInv'
    BY <1>0, <1>1, <1>4 DEF StageInv, Escalation
  <2>4. EnoughCalls'
    BY <1>0, <1>1, <1>4 DEF EnoughCalls, Escalation, Owner, Review, Book!MaxProviderCalls,
                    Book!MaxReviewCalls, Book!ReviewCallBudget, Book!Smaller, Book!Larger
  <2> QED BY <2>1, <2>2, <2>3, <2>4
<1> QED BY <1>1, <1>2, <1>3, <1>4 DEF PassInv

LEMMA PassNextKeeps ==
    PassInv /\ [PassNext]_passRunVars => PassInv' /\ (Ledger!Next \/ UNCHANGED ledgerVars)
<1> SUFFICES ASSUME PassInv, [PassNext]_passRunVars
    PROVE  PassInv' /\ (Ledger!Next \/ UNCHANGED ledgerVars)
  OBVIOUS
<1>1. CASE \E j \in Job : PassJob(j)
  BY <1>1, PassJobKeeps
<1>2. CASE Going /\ PassStep
  BY <1>2, PlanBatchesKeeps, StartCallKeeps, FinishCallKeeps, PlanEscalationsKeeps,
     StartVerifyingKeeps DEF PassStep, Going
<1>3. CASE Going /\ \E c \in Candidate : PassCandidateStep(c)
  BY <1>3, PassCandidateKeeps DEF Going
<1>4. CASE Going /\ (TimeOut \/ Elapse) /\ UNCHANGED passVars
  BY <1>4, PassTimeKeeps DEF Going
<1>5. CASE (EndRun \/ FailRun) /\ UNCHANGED passVars
  BY <1>5, PassEndKeeps
<1>6. CASE UNCHANGED passRunVars
  BY <1>6, PassStutters
<1> QED BY <1>1, <1>2, <1>3, <1>4, <1>5, <1>6 DEF PassNext

LEMMA PassInvariance == PassSpec => []PassInv
<1>1. PassInv /\ [PassNext]_passRunVars => PassInv'
  BY PassNextKeeps
<1> QED BY <1>1, PassStarts, PTL DEF PassSpec

(* Whatever calls of a single-pass run are refused, fail, are retried or   *)
(* replaced: a finding that was made stays, none that had to be verified   *)
(* is published because the ledger refused its critic a call or the pool   *)
(* could not hold it, an escalation that was planned is not refused for    *)
(* the number of calls unless another one made more than its own, and      *)
(* budget_state["used_input_tokens"] is exact.                             *)
THEOREM EscalationsAddOnly == PassSpec => []EscalationsOnlyAdd
<1>1. ASSUME PassInv PROVE EscalationsOnlyAdd
  <2>1. RunInv /\ RefusedForGood /\ RunTypeOK /\ PoolIsShared
    BY <1>1, RunInvIs DEF PassInv
  <2>2. NoFindingIsLost
    BY <1>1 DEF PassInv, NoFindingIsLost
  <2>3. EscalationsAreAffordable
    BY <2>1 DEF RefusedForGood, EscalationsAreAffordable, Book!NoReason
  <2>4. RefusalNeverPublishes
    BY <2>1, PublishedWasAsked DEF RunInv
  <2>5. PassPoolExact
    <3> SUFFICES ASSUME phase = "running" PROVE PoolAccountsFor(UnderWay)
      BY DEF PassPoolExact
    <3>1. underWay = UnderWay
      BY <1>1 DEF PassInv, TurnsInv
    <3>2. PoolAccountsFor(underWay)
      BY <2>1, PoolFromShares
    <3> QED BY <3>1, <3>2
  <2> QED BY <2>2, <2>3, <2>4, <2>5 DEF EscalationsOnlyAdd
<1> QED BY <1>1, PassInvariance, PTL

(* A single-pass run in which the ledger refused anything, or which its    *)
(* time limit interrupted, does not succeed.                               *)
THEOREM PassRefusalsEndPartial == PassSpec => []RefusalEndsPartial
<1>1. PassInv => RefusalEndsPartial
  BY DEF PassInv, RunInv
<1> QED BY <1>1, PassInvariance, PTL

(* The single pass uses the ledger as its specification prescribes. *)
THEOREM PassImplementsLedger == PassSpec => ImplementsLedger
<1>1. PassInit => Ledger!Init
  BY DEF PassInit, InitRun, InitJobs
<1>2. PassInv /\ [PassNext]_passRunVars => [Ledger!Next]_(Ledger!vars)
  <2>1. UNCHANGED ledgerVars => UNCHANGED Ledger!vars
    BY DEF ledgerVars, Ledger!vars, Ledger!counterVars, Ledger!reasonVars, Ledger!callVars
  <2> QED BY <2>1, PassNextKeeps
<1> QED BY <1>1, <1>2, PassInvariance, PTL DEF PassSpec, ImplementsLedger, Ledger!Spec

-----------------------------------------------------------------------------
(* How many escalations are planned in the first place.                    *)
Risk == INSTANCE ChangeRisk

(* The tiers of a change (ChangeRiskTier).                                 *)
ChangeRiskTier == {"no_ai", "tiny", "normal", "elevated", "high_risk"}

LEMMA MaxOfTwo == ASSUME NEW a \in Int, NEW b \in Int PROVE Risk!Max({a, b}) = IF a >= b THEN a ELSE b
BY DEF Risk!Max
LEMMA MinOfTwo == ASSUME NEW a \in Int, NEW b \in Int PROVE Risk!Min({a, b}) = IF a <= b THEN a ELSE b
BY DEF Risk!Min

(* What a tier pays for, in calls.                                         *)
LEMMA CallBudgets ==
  /\ Risk!CallBudget("no_ai") = 0 /\ Risk!CallBudget("tiny") = 2 /\ Risk!CallBudget("normal") = 2
  /\ Risk!CallBudget("elevated") = 3 /\ Risk!CallBudget("high_risk") = 5
  /\ Risk!VerificationReserve("no_ai") = 0 /\ Risk!VerificationReserve("tiny") = 1
  /\ Risk!VerificationReserve("normal") = 1 /\ Risk!VerificationReserve("elevated") = 1
  /\ Risk!VerificationReserve("high_risk") = 2
BY DEF Risk!CallBudget, Risk!VerificationReserve

LEMMA ReviewCallBudgets ==
  /\ Risk!ReviewCallBudget("no_ai") = 0 /\ Risk!ReviewCallBudget("tiny") = 1 /\ Risk!ReviewCallBudget("normal") = 1
  /\ Risk!ReviewCallBudget("elevated") = 2 /\ Risk!ReviewCallBudget("high_risk") = 3
BY CallBudgets, MaxOfTwo DEF Risk!ReviewCallBudget

LEMMA PairOf == ASSUME NEW x, NEW y PROVE <<x>> \o <<y>> = <<x, y>>
<1>1. <<x>> \in Seq({x, y}) /\ <<y>> \in Seq({x, y}) /\ <<x, y>> \in Seq({x, y}) OBVIOUS
<1>2. Len(<<x>> \o <<y>>) = 2 /\ (<<x>> \o <<y>>)[1] = x /\ (<<x>> \o <<y>>)[2] = y /\ <<x>> \o <<y>> \in Seq({x, y})
  BY <1>1, ConcatProperties
<1>3. \A i \in 1..2 : (<<x>> \o <<y>>)[i] = <<x, y>>[i] BY <1>2
<1> QED BY <1>1, <1>2, <1>3, SeqEqual

(* EscalationsLeaveVerificationItsCall: whatever the change, the targets   *)
(* and the number of calls already spent, the escalations that are planned  *)
(* fit what is left of detection, leave the verification a call, come only *)
(* from an elevated change or worse, and never look twice at one target    *)
(* (decide_escalations).                                                   *)
THEOREM EscalationsLeaveVerificationItsCall ==
  ASSUME NEW c, NEW targets, NEW spent \in Nat, c.tier \in ChangeRiskTier
  PROVE  Risk!EscalationsAreAffordable(c, targets, spent)
<1> DEFINE left == Risk!RemainingCalls(c.tier, spent)
           plans == Risk!Escalations(c, targets, left)
           security == Risk!SecurityTargets(c, targets)
           first == security # {} /\ left >= 2
           others == Risk!CorrectnessTargets(c, targets) \ (IF first THEN security ELSE {})
           second == c.tier = "high_risk" /\ others # {} /\ left - (IF first THEN 1 ELSE 0) >= 2
           one == [role |-> "security", targets |-> security]
           two == [role |-> "correctness", targets |-> others]
<1>1. plans = IF c.tier \notin {"elevated", "high_risk"} THEN <<>>
              ELSE (IF first THEN <<one>> ELSE <<>>) \o (IF second THEN <<two>> ELSE <<>>)
  BY DEF Risk!Escalations
<1>2. left \in Nat /\ (left >= 2 => /\ left <= Risk!CallBudget(c.tier) - spent
                                   /\ left <= Risk!ReviewCallBudget(c.tier) - spent + 1)
  <2> DEFINE x == Risk!CallBudget(c.tier) - spent  y == Risk!ReviewCallBudget(c.tier) - spent + 1
  <2>1. x \in Int /\ y \in Int BY CallBudgets, ReviewCallBudgets DEF ChangeRiskTier
  <2>2. left = Risk!Max({0, Risk!Min({x, y})}) BY DEF Risk!RemainingCalls
  <2> HIDE DEF x, y, left
  <2>3. left \in Nat /\ (left >= 2 => left <= x /\ left <= y)  BY <2>1, <2>2, MaxOfTwo, MinOfTwo
  <2> QED BY <2>3 DEF x, y
<1> HIDE DEF plans, left, security, others, one, two
<1>3. one.targets = security /\ two.targets = others /\ (first => others \cap security = {})
  BY DEF one, two, others
<1> HIDE DEF first, second
<1> SUFFICES /\ Len(plans) <= (IF c.tier = "high_risk" THEN 2 ELSE IF c.tier = "elevated" THEN 1 ELSE 0)
             /\ plans # <<>> => /\ spent + Len(plans) <= Risk!ReviewCallBudget(c.tier)
                                /\ spent + Len(plans) < Risk!CallBudget(c.tier)
             /\ \A i \in DOMAIN plans : plans[i].targets # {}
             /\ \A i, j \in DOMAIN plans : i # j => plans[i].targets \cap plans[j].targets = {}
  BY DEF Risk!EscalationsAreAffordable, plans, left
<1>4. CASE c.tier \notin {"elevated", "high_risk"} \/ (~first /\ ~second)
  <2>1. plans = <<>> BY <1>1, <1>4
  <2> QED BY <2>1
<1>5. CASE c.tier \in {"elevated", "high_risk"} /\ first /\ ~second
  <2>1. plans = <<one>> BY <1>1, <1>5
  <2>2. security # {} /\ left >= 2 BY <1>5 DEF first
  <2> QED BY <1>2, <1>3, <1>5, <2>1, <2>2, CallBudgets, ReviewCallBudgets
<1>6. CASE c.tier \in {"elevated", "high_risk"} /\ ~first /\ second
  <2>1. plans = <<two>> BY <1>1, <1>6
  <2>2. c.tier = "high_risk" /\ others # {} /\ left >= 2 BY <1>2, <1>6 DEF second
  <2> QED BY <1>2, <1>3, <2>1, <2>2, CallBudgets, ReviewCallBudgets
<1>7. CASE c.tier \in {"elevated", "high_risk"} /\ first /\ second
  <2>1. plans = <<one, two>>
    <3>1. plans = <<one>> \o <<two>> BY <1>1, <1>7
    <3> QED BY <3>1, PairOf
  <2>2. security # {} BY <1>7 DEF first
  <2>3. c.tier = "high_risk" /\ others # {} /\ left >= 3 BY <1>2, <1>7 DEF second
  <2> QED BY <1>2, <1>3, <1>7, <2>1, <2>2, <2>3, CallBudgets, ReviewCallBudgets
<1>8. first \in BOOLEAN /\ second \in BOOLEAN BY DEF first, second
<1>9. \/ c.tier \notin {"elevated", "high_risk"} \/ (~first /\ ~second)
      \/ c.tier \in {"elevated", "high_risk"} /\ first /\ ~second
      \/ c.tier \in {"elevated", "high_risk"} /\ ~first /\ second
      \/ c.tier \in {"elevated", "high_risk"} /\ first /\ second
  BY <1>8
<1> QED BY <1>4, <1>5, <1>6, <1>7, <1>9
=============================================================================
