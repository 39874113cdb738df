--------------------------- MODULE FixVerification ---------------------------
(***************************************************************************)
(* Verifying fixes (patchfrog.fix_verification): whether a commit resolves *)
(* a finding, asked by agents over MCP, decided once per pair of the two.  *)
(*                                                                         *)
(* A call of start_fix_attempt checks two limits, creates the attempt's    *)
(* row, verifies the commit itself and records the verdict.  Tests are run *)
(* by the verifier, another process: the call stages an artifact, sends a  *)
(* task and waits for its answer with a timeout.  A call may die anywhere; *)
(* its row then stays as it was.                                           *)
(***************************************************************************)
EXTENDS Integers, FiniteSets
LOCAL INSTANCE TLC

CONSTANTS
    Finding,
    Head,             \* candidate_fix_commit_sha
    Call,             \* calls that may be under way at once
    MaxActive,        \* MAX_ACTIVE_FIX_ATTEMPTS_PER_REPOSITORY
    MaxPerFinding,    \* MAX_FIX_ATTEMPTS_PER_FINDING
    HasVerifier,      \* a verifier_dispatcher is configured
    HasCritic,        \* a fix_critic_provider is configured
    MaxDeaths         \* bounds the calls that end by an exception or die

Attempt == Finding \X Head

ASSUME FixAssumption ==
    /\ IsFiniteSet(Finding) /\ IsFiniteSet(Head) /\ IsFiniteSet(Call)
    /\ MaxActive \in Nat /\ MaxPerFinding \in Nat /\ MaxDeaths \in Nat
    /\ HasVerifier \in BOOLEAN /\ HasCritic \in BOOLEAN
    /\ Call # {} /\ Attempt # {}

ActiveStatus == {"pending", "verifying"}
Verdict == {"fixed", "still_present", "inconclusive", "stale", "error"}

(* FixEvidenceDirection without NO_SIGNAL; no code yields PROVES_RESOLVED *)
Direction == {"confirms_present", "supports_present", "supports_resolved"}
(* VerificationOutcome; "none_of_these" stands for the four that tell nothing *)
Outcome == {"passed", "confirmed_failure", "none_of_these"}

Stage == {"idle", "counting", "counted", "creating", "created", "minting", "ancestry", "surface",
          "tests", "waiting", "judging", "recording"}
(* The call has created its attempt and not yet ended. *)
Owning == {"created", "minting", "ancestry", "surface", "tests", "waiting", "judging", "recording"}

VARIABLES
    row,        \* [Attempt -> {"none"} \cup ActiveStatus \cup Verdict]
    call,       \* [Call -> Stage]
    about,      \* [Call -> Attempt], what the call is about
    mapped,     \* [Call -> BOOLEAN], the finding's symbol was found at the head
    signals,    \* [Call -> SUBSET Direction]
    verdict,    \* [Call -> Verdict], still to be recorded
    task,       \* [Attempt -> state of its verifier task]
    artifact,   \* attempts whose staged artifact is on disk
    (* history *)
    started,    \* [Attempt -> verifications begun]
    abandoned,  \* attempts whose call died or raised
    deaths

vars == <<row, call, about, mapped, signals, verdict, task, artifact, started, abandoned, deaths>>
found == <<mapped, signals, verdict>>
history == <<started, abandoned, deaths>>

Init ==
    /\ row = [a \in Attempt |-> "none"]
    /\ call = [c \in Call |-> "idle"]
    /\ about \in {[c \in Call |-> a] : a \in Attempt}
    /\ mapped = [c \in Call |-> FALSE]
    /\ signals = [c \in Call |-> {}]
    /\ verdict = [c \in Call |-> "error"]
    /\ task = [a \in Attempt |-> "none"]
    /\ artifact = {}
    /\ started = [a \in Attempt |-> 0]
    /\ abandoned = {}
    /\ deaths = 0

(* The locals of a call are gone when it ends. *)
Forget(c) ==
    /\ call' = [call EXCEPT ![c] = "idle"]
    /\ mapped' = [mapped EXCEPT ![c] = FALSE]
    /\ signals' = [signals EXCEPT ![c] = {}]
    /\ verdict' = [verdict EXCEPT ![c] = "error"]

Goto(c, stage) == call' = [call EXCEPT ![c] = stage]
Active == {a \in Attempt : row[a] \in ActiveStatus}
Of(f) == {a \in Attempt : a[1] = f /\ row[a] # "none"}

-----------------------------------------------------------------------------
(* Admission                                                               *)

(* get_existing; what exists is left to create *)
Ask(c, a) ==
    /\ call[c] = "idle"
    /\ about' = [about EXCEPT ![c] = a]
    /\ Goto(c, IF row[a] = "none" THEN "counting" ELSE "creating")
    /\ UNCHANGED <<row, found, task, artifact, history>>

(* count_active_for_repository *)
CountActive(c) ==
    /\ call[c] = "counting"
    /\ Goto(c, IF Cardinality(Active) >= MaxActive THEN "idle" ELSE "counted")
    /\ UNCHANGED <<row, about, found, task, artifact, history>>

(* count_for_finding *)
CountFinding(c) ==
    /\ call[c] = "counted"
    /\ Goto(c, IF Cardinality(Of(about[c][1])) >= MaxPerFinding THEN "idle" ELSE "creating")
    /\ UNCHANGED <<row, about, found, task, artifact, history>>

(* The row another call has created meanwhile is verified once more. *)
CreateLostVerifies(c) ==
    /\ row[about[c]] # "none"
    /\ Goto(c, "created")
    /\ UNCHANGED row

(* The unique constraint: the call returns the row of the one that won.    *)
CreateLost(c) ==
    /\ row[about[c]] # "none"
    /\ Goto(c, "idle")
    /\ UNCHANGED row

CreateWon(c) ==
    /\ row[about[c]] = "none"
    /\ row' = [row EXCEPT ![about[c]] = "pending"]
    /\ Goto(c, "created")

(* create and the commit; a concurrent insert of the pair waits for it     *)
Create(c) ==
    /\ call[c] = "creating"
    /\ CreateLost(c) \/ CreateWon(c)
    /\ UNCHANGED <<about, found, task, artifact, history>>

-----------------------------------------------------------------------------
(* _run_verification                                                       *)

Record(c, status) == row' = [row EXCEPT ![about[c]] = status]

MarkVerifying(c) ==
    /\ call[c] = "created"
    /\ Record(c, "verifying")
    /\ Goto(c, "minting")
    /\ started' = [started EXCEPT ![about[c]] = @ + 1]
    /\ UNCHANGED <<about, found, task, artifact, abandoned, deaths>>

(* Ends the verification with a verdict, to be recorded next. *)
Decide(c, status) ==
    /\ verdict' = [verdict EXCEPT ![c] = status]
    /\ Goto(c, "recording")

MintToken(c) ==
    /\ call[c] = "minting"
    /\ Goto(c, "ancestry")
    /\ UNCHANGED <<row, about, found, task, artifact, history>>

(* verify_ancestor_with_diff *)
CheckAncestry(c) ==
    /\ call[c] = "ancestry"
    /\ \/ \E status \in {"stale", "error"} : Decide(c, status) /\ UNCHANGED signals
       \/ \E unchanged \in BOOLEAN :
             /\ signals' = [signals EXCEPT ![c] = IF unchanged THEN {"supports_present"} ELSE {}]
             /\ Goto(c, "surface")
             /\ UNCHANGED verdict
    /\ UNCHANGED <<row, about, mapped, task, artifact, history>>

(* map_finding_surface and _static_signal; the snapshot may fail           *)
MapSurface(c) ==
    /\ call[c] = "surface"
    /\ \/ Decide(c, "error") /\ UNCHANGED <<mapped, signals>>
       \/ \E safely, same \in BOOLEAN,
             rule \in {{"confirms_present"}, {"supports_resolved"}, {}} :
             /\ ~safely => ~same /\ rule = {}
             /\ mapped' = [mapped EXCEPT ![c] = safely]
             /\ signals' = [signals EXCEPT ![c] =
                              @ \cup rule \cup (IF same THEN {"supports_present"} ELSE {})]
             /\ Goto(c, "tests")
             /\ UNCHANGED verdict
    /\ UNCHANGED <<row, about, task, artifact, history>>

(* _ev_signal: no verifier, no target or no artifact *)
NoTests(c) ==
    /\ call[c] = "tests"
    /\ Goto(c, "judging")
    /\ UNCHANGED <<row, about, found, task, artifact, history>>

(* export_artifact and send_task; a broker that is down is NoAnswer *)
Dispatch(c) ==
    /\ call[c] = "tests" /\ HasVerifier
    /\ artifact' = artifact \cup {about[c]}
    /\ \E sent \in {"queued", "none"} : task' = [task EXCEPT ![about[c]] = sent]
    /\ Goto(c, "waiting")
    /\ UNCHANGED <<row, about, found, history>>

-----------------------------------------------------------------------------
(* The verifier                                                            *)

(* _run_verification of apps.verifier: the artifact is copied and its      *)
(* digest compared before any test is run.                                 *)
RunTests(a) ==
    /\ task[a] = "queued"
    /\ \E outcome \in IF a \in artifact THEN Outcome ELSE {"none_of_these"} :
          task' = [task EXCEPT ![a] = outcome]
    /\ UNCHANGED <<row, call, about, found, artifact, history>>

(* The verifier dies with the task, or the task raises. *)
LoseTask(a) ==
    /\ task[a] = "queued"
    /\ task' = [task EXCEPT ![a] = "failed"]
    /\ UNCHANGED <<row, call, about, found, artifact, history>>

SignalOf(outcome) ==
    CASE outcome = "confirmed_failure" -> {"supports_present"}
      [] outcome = "passed"            -> {"supports_resolved"}
      [] OTHER                         -> {}

Unstage(c) == artifact' = artifact \ {about[c]}

(* dispatch returns; result_matches_request held *)
Receive(c) ==
    /\ call[c] = "waiting" /\ task[about[c]] \in Outcome
    /\ signals' = [signals EXCEPT ![c] = @ \cup SignalOf(task[about[c]])]
    /\ Unstage(c)
    /\ Goto(c, "judging")
    /\ UNCHANGED <<row, about, mapped, verdict, task, history>>

(* dispatch returns None: the time is up, the backend failed, the answer   *)
(* is malformed or for another request                                     *)
NoAnswer(c) ==
    /\ call[c] = "waiting"
    /\ Unstage(c)
    /\ Goto(c, "judging")
    /\ UNCHANGED <<row, about, found, task, history>>

-----------------------------------------------------------------------------
(* _classify: what the signals say, and what the model says of the code    *)

Judgments(dirs, safely) ==
    IF "confirms_present" \in dirs THEN {"still_present"}
    ELSE IF dirs \cap {"supports_present", "supports_resolved"} = {} \/ ~HasCritic \/ ~safely
         THEN {"inconclusive"}
         ELSE {"fixed", "still_present", "inconclusive"}

Judge(c) ==
    /\ call[c] = "judging"
    /\ \E status \in Judgments(signals[c], mapped[c]) : Decide(c, status)
    /\ UNCHANGED <<row, about, mapped, signals, task, artifact, history>>

(* mark_result or mark_error, and the commit *)
Finish(c) ==
    /\ call[c] = "recording"
    /\ Record(c, verdict[c])
    /\ Forget(c)
    /\ UNCHANGED <<about, task, artifact, history>>

-----------------------------------------------------------------------------
Abandon(c) ==
    /\ deaths < MaxDeaths
    /\ deaths' = deaths + 1
    /\ abandoned' = IF call[c] \in Owning THEN abandoned \cup {about[c]} ELSE abandoned
    /\ Forget(c)
    /\ UNCHANGED <<row, about, task, started>>

(* An error that is no GitError, a token that cannot be minted among them, *)
(* leaves the row as it is; what was staged is removed.                    *)
Raise(c) ==
    /\ call[c] \in Owning
    /\ Abandon(c)
    /\ artifact' = IF call[c] = "waiting" THEN artifact \ {about[c]} ELSE artifact

Die(c) ==
    /\ call[c] # "idle"
    /\ Abandon(c)
    /\ UNCHANGED artifact

CallStep(c) ==
    \/ \E a \in Attempt : Ask(c, a)
    \/ CountActive(c) \/ CountFinding(c) \/ Create(c)
    \/ MarkVerifying(c) \/ MintToken(c) \/ CheckAncestry(c) \/ MapSurface(c)
    \/ NoTests(c) \/ Dispatch(c) \/ Receive(c) \/ NoAnswer(c)
    \/ Judge(c) \/ Finish(c)
    \/ Raise(c) \/ Die(c)

Next ==
    \/ \E c \in Call : CallStep(c)
    \/ \E a \in Attempt : RunTests(a) \/ LoseTask(a)

Spec == Init /\ [][Next]_vars

-----------------------------------------------------------------------------
(* Properties                                                              *)

TypeOK ==
    /\ row \in [Attempt -> {"none"} \cup ActiveStatus \cup Verdict]
    /\ call \in [Call -> Stage]
    /\ about \in [Call -> Attempt]
    /\ mapped \in [Call -> BOOLEAN]
    /\ signals \in [Call -> SUBSET Direction]
    /\ verdict \in [Call -> Verdict]
    /\ task \in [Attempt -> {"none", "queued", "failed"} \cup Outcome]
    /\ artifact \in SUBSET Attempt
    /\ started \in [Attempt -> Nat]
    /\ abandoned \in SUBSET Attempt
    /\ deaths \in Nat

OwnersOf(a) == {c \in Call : call[c] \in Owning /\ about[c] = a}

(* However calls for one pair of finding and commit interleave, the pair   *)
(* is verified once, by one call, and its verdict is final.                *)
VerifiedOnce ==
    \A a \in Attempt :
        /\ started[a] <= 1
        /\ \A c, d \in OwnersOf(a) : c = d
        /\ row[a] \in Verdict => OwnersOf(a) = {}

(* Calls that have passed CountActive, or CountFinding for a finding, and  *)
(* not yet created their attempt.                                          *)
ToCreate == {c \in Call : call[c] \in {"counted", "creating"} /\ row[about[c]] = "none"}
ToCreateOf(f) == {c \in Call : call[c] = "creating" /\ row[about[c]] = "none" /\ about[c][1] = f}

(* The limits are counted before an attempt is created: they are passed by *)
(* no more than the calls that count at once.                              *)
ActiveWithinLimit ==
    Cardinality(Active) + Cardinality(ToCreate) < MaxActive + Cardinality(Call)
FindingWithinLimit ==
    \A f \in Finding :
        Cardinality(Of(f)) + Cardinality(ToCreateOf(f)) < MaxPerFinding + Cardinality(Call)

(* An attempt is active, and an artifact staged, only while a call works   *)
(* on it, unless that call died or raised.                                 *)
ActiveMeansUnderWay ==
    /\ \A a \in Active : OwnersOf(a) # {} \/ a \in abandoned
    /\ \A a \in artifact : (\E c \in OwnersOf(a) : call[c] = "waiting") \/ a \in abandoned
    /\ Cardinality(abandoned) <= deaths

AttemptsAreKept ==
    VerifiedOnce /\ ActiveWithinLimit /\ FindingWithinLimit /\ ActiveMeansUnderWay

Symmetry == Permutations(Head) \cup Permutations(Call)      \* for TLC: commits and calls are alike
=============================================================================
