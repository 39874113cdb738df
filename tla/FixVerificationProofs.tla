------------------------ MODULE FixVerificationProofs ------------------------
(***************************************************************************)
(* What holds of what humans and agents do about published findings: of    *)
(* fix attempts, for any number of calls, findings, commits and deaths,    *)
(* and of the feedback that is synced, for any comments, reactions,        *)
(* replies and syncs, and of how the events are assessed.                  *)
(***************************************************************************)
EXTENDS FixVerification, Feedback, FeedbackAssessment, FiniteSetTheorems, TLAPS

LEMMA FixTypeInit == Init => TypeOK
<1> SUFFICES ASSUME Init PROVE TypeOK
  OBVIOUS
<1> QED BY DEF Init, TypeOK, Stage, Verdict

(* Owning and admission steps in one place, for the leaves below. *)
LEMMA FixTypeStep == TypeOK /\ [Next]_vars => TypeOK'
<1> SUFFICES ASSUME TypeOK, [Next]_vars PROVE TypeOK'
  OBVIOUS
<1> USE DEF TypeOK, Goto, Stage, Verdict, ActiveStatus, found, history
<1>1. ASSUME NEW c \in Call, CallStep(c) PROVE TypeOK'
  <2>1. CASE \E a \in Attempt : Ask(c, a)
    BY <2>1 DEF Ask
  <2>2. CASE CountActive(c) \/ CountFinding(c) \/ MintToken(c) \/ NoTests(c)
    BY <2>2 DEF CountActive, CountFinding, MintToken, NoTests
  <2>3. CASE Create(c)
    BY <2>3 DEF Create, CreateLost, CreateWon
  <2>4. CASE MarkVerifying(c)
    BY <2>4 DEF MarkVerifying, Record
  <2>5. CASE CheckAncestry(c)
    BY <2>5 DEF CheckAncestry, Decide, Direction
  <2>6. CASE MapSurface(c)
    <3>1. signals' \in [Call -> SUBSET Direction]
      BY <2>6 DEF MapSurface, Direction
    <3> QED BY <2>6, <3>1 DEF MapSurface, Decide
  <2>7. CASE Dispatch(c)
    BY <2>7 DEF Dispatch
  <2>8. CASE Receive(c)
    BY <2>8 DEF Receive, Unstage, SignalOf, Direction
  <2>9. CASE NoAnswer(c)
    BY <2>9 DEF NoAnswer, Unstage
  <2>10. CASE Judge(c)
    BY <2>10 DEF Judge, Decide, Judgments
  <2>11. CASE Finish(c)
    BY <2>11 DEF Finish, Record, Forget
  <2>12. CASE Raise(c)
    BY <2>12 DEF Raise, Abandon, Forget
  <2>13. CASE Die(c)
    BY <2>13 DEF Die, Abandon, Forget
  <2> QED BY <1>1, <2>1, <2>2, <2>3, <2>4, <2>5, <2>6, <2>7, <2>8, <2>9, <2>10, <2>11, <2>12, <2>13
         DEF CallStep
<1>2. ASSUME NEW a \in Attempt, RunTests(a) \/ LoseTask(a) PROVE TypeOK'
  <2>1. task' \in [Attempt -> {"none", "queued", "failed"} \cup Outcome]
    BY <1>2 DEF RunTests, LoseTask, Outcome
  <2> QED BY <1>2, <2>1 DEF RunTests, LoseTask
<1>3. CASE UNCHANGED vars
  BY <1>3 DEF vars
<1> QED BY <1>1, <1>2, <1>3 DEF Next

(* The type invariant, for every value of the constants. *)
THEOREM FixTypeCorrect == Spec => []TypeOK
BY FixTypeInit, FixTypeStep, PTL DEF Spec

-----------------------------------------------------------------------------
(* Why an attempt is verified once: a call that owns an attempt is alone,  *)
(* and its row is active.                                                  *)
OwnInv ==
    \A a \in Attempt :
        /\ started[a] <= 1
        /\ row[a] = "none" => started[a] = 0
        /\ \A c \in Call : call[c] \in Owning /\ about[c] = a =>
              /\ row[a] \in ActiveStatus
              /\ call[c] = "created" => started[a] = 0
              /\ \A d \in Call : call[d] \in Owning /\ about[d] = a => c = d

LEMMA OwnInit == Init => OwnInv
BY DEF Init, OwnInv, Owning

LEMMA OwnStep == TypeOK /\ OwnInv /\ [Next]_vars => OwnInv'
<1> SUFFICES ASSUME TypeOK, OwnInv, [Next]_vars PROVE OwnInv'
  OBVIOUS
<1> USE DEF TypeOK, Goto, Owning, found, history
<1>1. ASSUME NEW c \in Call, CallStep(c) PROVE OwnInv'
  <2>1. CASE \E a \in Attempt : Ask(c, a)
    <3>1. PICK a \in Attempt : Ask(c, a)
      BY <2>1
    <3>2. /\ UNCHANGED <<row, started>>
          /\ \A d \in Call : call'[d] \in Owning => d # c /\ call[d] = call'[d] /\ about[d] = about'[d]
      BY <3>1 DEF Ask
    <3> QED BY <3>2 DEF OwnInv
  <2>2. CASE CountActive(c) \/ CountFinding(c)
    BY <2>2 DEF CountActive, CountFinding, OwnInv
  <2>3. CASE Create(c) /\ CreateLost(c)
    BY <2>3 DEF Create, CreateLost, OwnInv
  <2>4. CASE Create(c) /\ CreateWon(c)
    <3>1. /\ row[about[c]] = "none" /\ row' = [row EXCEPT ![about[c]] = "pending"]
          /\ call' = [call EXCEPT ![c] = "created"] /\ UNCHANGED <<about, started>>
          /\ about[c] \in Attempt
      BY <2>4 DEF Create, CreateWon
    <3>2. \A d \in Call : call[d] \in Owning => about[d] # about[c]
      BY <3>1 DEF OwnInv, ActiveStatus
    <3> QED BY <3>1, <3>2 DEF OwnInv, ActiveStatus
  <2>5. CASE MarkVerifying(c)
    <3>1. /\ row' = [row EXCEPT ![about[c]] = "verifying"]
          /\ call[c] = "created" /\ call' = [call EXCEPT ![c] = "minting"]
          /\ started' = [started EXCEPT ![about[c]] = @ + 1]
          /\ UNCHANGED about /\ about[c] \in Attempt
      BY <2>5 DEF MarkVerifying, Record
    <3>2. started[about[c]] = 0
      BY <3>1 DEF OwnInv
    <3>3. \A d \in Call : call[d] \in Owning /\ about[d] = about[c] => d = c
      BY <3>1 DEF OwnInv
    <3> QED BY <3>1, <3>2, <3>3 DEF OwnInv, ActiveStatus
  <2>6. CASE \/ MintToken(c) \/ CheckAncestry(c) \/ MapSurface(c) \/ NoTests(c)
             \/ Dispatch(c) \/ Receive(c) \/ NoAnswer(c) \/ Judge(c)
    <3>1. /\ UNCHANGED <<row, about, started>>
          /\ call[c] \in Owning /\ call[c] # "created"
          /\ \E s \in Owning \ {"created"} : call' = [call EXCEPT ![c] = s]
      BY <2>6 DEF MintToken, CheckAncestry, MapSurface, NoTests, Dispatch, Receive, NoAnswer, Judge,
                  Decide
    <3> QED BY <3>1 DEF OwnInv
  <2>7. CASE Finish(c)
    <3>1. /\ row' = [row EXCEPT ![about[c]] = verdict[c]]
          /\ call[c] = "recording" /\ call' = [call EXCEPT ![c] = "idle"]
          /\ UNCHANGED <<about, started>> /\ about[c] \in Attempt /\ verdict[c] \in Verdict
      BY <2>7 DEF Finish, Record, Forget
    <3>2. \A d \in Call : d # c /\ call[d] \in Owning => about[d] # about[c]
      BY <3>1 DEF OwnInv
    <3>3. verdict[c] # "none"
      BY <3>1 DEF Verdict
    <3> QED BY <3>1, <3>2, <3>3 DEF OwnInv
  <2>8. CASE Raise(c) \/ Die(c)
    <3>1. UNCHANGED <<row, about, started>> /\ call' = [call EXCEPT ![c] = "idle"]
      BY <2>8 DEF Raise, Die, Abandon, Forget
    <3> QED BY <3>1 DEF OwnInv
  <2> QED BY <1>1, <2>1, <2>2, <2>3, <2>4, <2>5, <2>6, <2>7, <2>8 DEF CallStep, Create
<1>2. ASSUME NEW a \in Attempt, RunTests(a) \/ LoseTask(a) PROVE OwnInv'
  BY <1>2 DEF RunTests, LoseTask, OwnInv
<1>3. CASE UNCHANGED vars
  BY <1>3 DEF vars, OwnInv
<1> QED BY <1>1, <1>2, <1>3 DEF Next

LEMMA OwnIsOnce == TypeOK /\ OwnInv => VerifiedOnce
BY DEF TypeOK, OwnInv, VerifiedOnce, OwnersOf, ActiveStatus, Verdict

(* Each pair of finding and commit is verified once, by one call, and its  *)
(* verdict is final, for any number of calls that raise or die.            *)
THEOREM EachVerifiedOnce == Spec => []VerifiedOnce
<1>1. Init => TypeOK /\ OwnInv
  BY FixTypeInit, OwnInit
<1>2. TypeOK /\ OwnInv /\ [Next]_vars => (TypeOK /\ OwnInv)'
  BY FixTypeStep, OwnStep
<1> QED BY <1>1, <1>2, OwnIsOnce, PTL DEF Spec

-----------------------------------------------------------------------------
(* Why the limits hold: what was counted stays an upper bound while the    *)
(* calls that counted create.                                              *)
LEMMA SetsFinite ==
    ASSUME TypeOK
    PROVE  /\ IsFiniteSet(Attempt)
           /\ \A S \in SUBSET Attempt : IsFiniteSet(S) /\ Cardinality(S) \in Nat
           /\ \A S \in SUBSET Call : /\ IsFiniteSet(S) /\ Cardinality(S) \in Nat
                                     /\ Cardinality(S) <= Cardinality(Call)
           /\ Cardinality(Call) \in Nat \ {0}
           /\ MaxActive \in Nat /\ MaxPerFinding \in Nat
<1>1. IsFiniteSet(Attempt)
  BY FixAssumption, FS_Product DEF Attempt
<1>2. \A S \in SUBSET Attempt : IsFiniteSet(S) /\ Cardinality(S) \in Nat
  BY <1>1, FS_Subset, FS_CardinalityType
<1>3. \A S \in SUBSET Call : /\ IsFiniteSet(S) /\ Cardinality(S) \in Nat
                             /\ Cardinality(S) <= Cardinality(Call)
  BY FixAssumption, FS_Subset, FS_CardinalityType
<1>4. Cardinality(Call) \in Nat \ {0}
  BY FixAssumption, FS_EmptySet, FS_CardinalityType
<1> QED BY <1>1, <1>2, <1>3, <1>4, FixAssumption

(* A bound on members and candidates survives a step that only loses some  *)
(* of either, and one that makes one candidate a member.                   *)
LEMMA BoundKept ==
    ASSUME TypeOK, NEW S \in SUBSET Attempt, NEW T \in SUBSET Call,
           NEW S1 \in SUBSET Attempt, NEW T1 \in SUBSET Call, NEW n \in Nat,
           Cardinality(S) + Cardinality(T) < n,
           \/ S1 \subseteq S /\ T1 \subseteq T
           \/ \E a \in Attempt, c \in T : S1 \subseteq S \cup {a} /\ T1 \subseteq T \ {c}
    PROVE  Cardinality(S1) + Cardinality(T1) < n
<1>1. /\ IsFiniteSet(S) /\ IsFiniteSet(T) /\ IsFiniteSet(S1) /\ IsFiniteSet(T1)
      /\ Cardinality(S) \in Nat /\ Cardinality(T) \in Nat
      /\ Cardinality(S1) \in Nat /\ Cardinality(T1) \in Nat
  BY SetsFinite
<1>2. CASE S1 \subseteq S /\ T1 \subseteq T
  <2>1. Cardinality(S1) <= Cardinality(S) /\ Cardinality(T1) <= Cardinality(T)
    BY <1>1, <1>2, FS_Subset
  <2> QED BY <1>1, <2>1
<1>3. CASE \E a \in Attempt, c \in T : S1 \subseteq S \cup {a} /\ T1 \subseteq T \ {c}
  <2>1. PICK a \in Attempt, c \in T : S1 \subseteq S \cup {a} /\ T1 \subseteq T \ {c}
    BY <1>3
  <2>2. /\ IsFiniteSet(S \cup {a}) /\ Cardinality(S \cup {a}) \in Nat
        /\ Cardinality(S \cup {a}) <= Cardinality(S) + 1
    <3>1. /\ IsFiniteSet(S \cup {a})
          /\ Cardinality(S \cup {a}) = IF a \in S THEN Cardinality(S) ELSE Cardinality(S) + 1
      BY <1>1, FS_AddElement
    <3> QED BY <1>1, <3>1
  <2>3. IsFiniteSet(T \ {c}) /\ Cardinality(T \ {c}) = Cardinality(T) - 1
    BY <1>1, FS_RemoveElement
  <2>4. Cardinality(S1) <= Cardinality(S \cup {a}) /\ Cardinality(T1) <= Cardinality(T \ {c})
    BY <1>1, <2>1, <2>2, <2>3, FS_Subset
  <2> QED BY <1>1, <2>2, <2>3, <2>4
<1> QED BY <1>2, <1>3

(* A step takes nothing into the counts but by creating an attempt.        *)
LEMMA CountsMove ==
    ASSUME TypeOK, OwnInv, [Next]_vars,
           \A c \in Call : ~CountActive(c) /\ ~CountFinding(c) /\ ~(Create(c) /\ CreateWon(c))
    PROVE  /\ Active' \subseteq Active
           /\ ToCreate' \subseteq ToCreate
           /\ \A f \in Finding : Of(f)' \subseteq Of(f) /\ ToCreateOf(f)' \subseteq ToCreateOf(f)
<1> USE DEF TypeOK, Goto, found, history, Active, ToCreate, Of, ToCreateOf, ActiveStatus
<1>1. ASSUME NEW c \in Call, CallStep(c)
      PROVE  /\ Active' \subseteq Active
             /\ ToCreate' \subseteq ToCreate
             /\ \A f \in Finding : Of(f)' \subseteq Of(f) /\ ToCreateOf(f)' \subseteq ToCreateOf(f)
  <2>1. CASE \E a \in Attempt : Ask(c, a)
    BY <2>1 DEF Ask
  <2>2. CASE Create(c) /\ CreateLost(c)
    BY <2>2 DEF Create, CreateLost
  <2>3. CASE MarkVerifying(c)
    <3>1. row[about[c]] \in ActiveStatus /\ about[c] \in Attempt
      BY <2>3 DEF MarkVerifying, OwnInv, Owning
    <3> QED BY <2>3, <3>1 DEF MarkVerifying, Record
  <2>4. CASE \/ MintToken(c) \/ CheckAncestry(c) \/ MapSurface(c) \/ NoTests(c)
             \/ Dispatch(c) \/ Receive(c) \/ NoAnswer(c) \/ Judge(c)
    <3>1. /\ UNCHANGED <<row, about>>
          /\ \E s \in Owning \ {"created"} : call' = [call EXCEPT ![c] = s]
      BY <2>4 DEF MintToken, CheckAncestry, MapSurface, NoTests, Dispatch, Receive, NoAnswer, Judge,
                  Decide, Owning
    <3> QED BY <3>1 DEF Owning
  <2>5. CASE Finish(c)
    <3>1. row[about[c]] \in ActiveStatus /\ about[c] \in Attempt /\ verdict[c] \in Verdict
      BY <2>5 DEF Finish, OwnInv, Owning
    <3> QED BY <2>5, <3>1 DEF Finish, Record, Forget, Verdict
  <2>6. CASE Raise(c) \/ Die(c)
    <3>1. UNCHANGED <<row, about>> /\ call' = [call EXCEPT ![c] = "idle"]
      BY <2>6 DEF Raise, Die, Abandon, Forget
    <3> QED BY <3>1
  <2> QED BY <1>1, <2>1, <2>2, <2>3, <2>4, <2>5, <2>6 DEF CallStep, Create
<1>2. ASSUME NEW a \in Attempt, RunTests(a) \/ LoseTask(a)
      PROVE  UNCHANGED <<row, call, about>>
  BY <1>2 DEF RunTests, LoseTask
<1>3. ASSUME UNCHANGED <<row, call, about>>
      PROVE  /\ Active' \subseteq Active
             /\ ToCreate' \subseteq ToCreate
             /\ \A f \in Finding : Of(f)' \subseteq Of(f) /\ ToCreateOf(f)' \subseteq ToCreateOf(f)
  BY <1>3
<1>4. CASE UNCHANGED vars
  BY <1>3, <1>4 DEF vars
<1> QED BY <1>1, <1>2, <1>3, <1>4 DEF Next

Limits == ActiveWithinLimit /\ FindingWithinLimit

LEMMA LimitsInit == Init => Limits
<1> SUFFICES ASSUME Init PROVE Limits
  OBVIOUS
<1>1. Active = {} /\ ToCreate = {} /\ \A f \in Finding : Of(f) = {} /\ ToCreateOf(f) = {}
  BY DEF Init, Active, ToCreate, Of, ToCreateOf, ActiveStatus
<1>2. Cardinality({}) = 0
  BY FS_EmptySet
<1>3. MaxActive \in Nat /\ MaxPerFinding \in Nat /\ Cardinality(Call) \in Nat \ {0}
  BY FixTypeInit, SetsFinite
<1>4. ActiveWithinLimit
  BY <1>1, <1>2, <1>3 DEF ActiveWithinLimit
<1>5. FindingWithinLimit
  BY <1>1, <1>2, <1>3 DEF FindingWithinLimit
<1> QED BY <1>4, <1>5 DEF Limits

LEMMA LimitsStep == TypeOK /\ OwnInv /\ Limits /\ [Next]_vars => Limits'
<1> SUFFICES ASSUME TypeOK, OwnInv, Limits, [Next]_vars PROVE Limits'
  OBVIOUS
<1>1. TypeOK'
  BY FixTypeStep
<1>2. /\ Active \in SUBSET Attempt /\ ToCreate \in SUBSET Call
      /\ Active' \in SUBSET Attempt /\ ToCreate' \in SUBSET Call
      /\ \A f \in Finding : /\ Of(f) \in SUBSET Attempt /\ ToCreateOf(f) \in SUBSET Call
                            /\ Of(f)' \in SUBSET Attempt /\ ToCreateOf(f)' \in SUBSET Call
  BY DEF Active, ToCreate, Of, ToCreateOf
<1>3. MaxActive + Cardinality(Call) \in Nat /\ MaxPerFinding + Cardinality(Call) \in Nat
  BY SetsFinite
<1>4. CASE \A c \in Call : ~CountActive(c) /\ ~CountFinding(c) /\ ~(Create(c) /\ CreateWon(c))
  <2>1. ActiveWithinLimit'
    BY <1>2, <1>3, <1>4, CountsMove, BoundKept DEF Limits, ActiveWithinLimit
  <2>2. ASSUME NEW f \in Finding
        PROVE  Cardinality(Of(f)') + Cardinality(ToCreateOf(f)') < MaxPerFinding + Cardinality(Call)
    BY <1>2, <1>3, <1>4, CountsMove, BoundKept DEF Limits, FindingWithinLimit
  <2> QED BY <2>1, <2>2 DEF Limits, FindingWithinLimit
<1>5. ASSUME NEW c \in Call, CountActive(c) PROVE Limits'
  <2>1. Active' = Active /\ \A f \in Finding : Of(f)' = Of(f) /\ ToCreateOf(f)' \subseteq ToCreateOf(f)
    BY <1>5 DEF CountActive, Goto, Active, Of, ToCreateOf, TypeOK
  <2>2. ToCreate' \subseteq ToCreate \/ Cardinality(Active) < MaxActive
    <3>1. CASE Cardinality(Active) >= MaxActive
      BY <1>5, <3>1 DEF CountActive, Goto, ToCreate, TypeOK
    <3> QED BY <1>2, <3>1, SetsFinite
  <2>3. ActiveWithinLimit'
    <3>1. CASE ToCreate' \subseteq ToCreate
      BY <1>2, <1>3, <2>1, <3>1, BoundKept DEF Limits, ActiveWithinLimit
    <3>2. CASE Cardinality(Active) < MaxActive
      BY <1>2, <2>1, <3>2, SetsFinite DEF ActiveWithinLimit
    <3> QED BY <2>2, <3>1, <3>2
  <2>4. ASSUME NEW f \in Finding
        PROVE  Cardinality(Of(f)') + Cardinality(ToCreateOf(f)') < MaxPerFinding + Cardinality(Call)
    BY <1>2, <1>3, <2>1, BoundKept DEF Limits, FindingWithinLimit
  <2> QED BY <2>3, <2>4 DEF Limits, FindingWithinLimit
<1>6. ASSUME NEW c \in Call, CountFinding(c) PROVE Limits'
  <2>1. /\ Active' = Active /\ ToCreate' \subseteq ToCreate
        /\ \A f \in Finding : Of(f)' = Of(f)
        /\ \A f \in Finding : f # about[c][1] => ToCreateOf(f)' \subseteq ToCreateOf(f)
    BY <1>6 DEF CountFinding, Goto, Active, ToCreate, Of, ToCreateOf, TypeOK
  <2>2. ActiveWithinLimit'
    BY <1>2, <1>3, <2>1, BoundKept DEF Limits, ActiveWithinLimit
  <2>3. ASSUME NEW f \in Finding
        PROVE  Cardinality(Of(f)') + Cardinality(ToCreateOf(f)') < MaxPerFinding + Cardinality(Call)
    <3>1. CASE ToCreateOf(f)' \subseteq ToCreateOf(f)
      BY <1>2, <1>3, <2>1, <3>1, BoundKept DEF Limits, FindingWithinLimit
    <3>2. CASE Cardinality(Of(f)) < MaxPerFinding
      BY <1>2, <2>1, <3>2, SetsFinite
    <3>3. CASE f = about[c][1] /\ Cardinality(Of(f)) >= MaxPerFinding
      <4>1. ToCreateOf(f)' \subseteq ToCreateOf(f)
        BY <1>6, <3>3 DEF CountFinding, Goto, ToCreateOf, TypeOK
      <4> QED BY <3>1, <4>1
    <3> QED BY <1>2, <2>1, <3>1, <3>2, <3>3, SetsFinite
  <2> QED BY <2>2, <2>3 DEF Limits, FindingWithinLimit
<1>7. ASSUME NEW c \in Call, Create(c), CreateWon(c) PROVE Limits'
  <2>1. /\ call[c] = "creating" /\ row[about[c]] = "none" /\ about[c] \in Attempt
        /\ row' = [row EXCEPT ![about[c]] = "pending"]
        /\ call' = [call EXCEPT ![c] = "created"] /\ UNCHANGED about
    BY <1>7 DEF Create, CreateWon, Goto, TypeOK
  <2>2. /\ c \in ToCreate /\ Active' \subseteq Active \cup {about[c]} /\ ToCreate' \subseteq ToCreate \ {c}
    BY <2>1 DEF Active, ToCreate, TypeOK
  <2>3. ActiveWithinLimit'
    BY <1>2, <1>3, <2>1, <2>2, BoundKept DEF Limits, ActiveWithinLimit
  <2>4. ASSUME NEW f \in Finding
        PROVE  Cardinality(Of(f)') + Cardinality(ToCreateOf(f)') < MaxPerFinding + Cardinality(Call)
    <3>1. CASE f = about[c][1]
      <4>1. /\ c \in ToCreateOf(f) /\ Of(f)' \subseteq Of(f) \cup {about[c]}
            /\ ToCreateOf(f)' \subseteq ToCreateOf(f) \ {c}
        BY <2>1, <3>1 DEF Of, ToCreateOf, TypeOK
      <4> QED BY <1>2, <1>3, <2>1, <4>1, BoundKept DEF Limits, FindingWithinLimit
    <3>2. CASE f # about[c][1]
      <4>1. Of(f)' \subseteq Of(f) /\ ToCreateOf(f)' \subseteq ToCreateOf(f)
        BY <2>1, <3>2 DEF Of, ToCreateOf, TypeOK
      <4> QED BY <1>2, <1>3, <4>1, BoundKept DEF Limits, FindingWithinLimit
    <3> QED BY <3>1, <3>2
  <2> QED BY <2>3, <2>4 DEF Limits, FindingWithinLimit
<1> QED BY <1>4, <1>5, <1>6, <1>7

-----------------------------------------------------------------------------
LEMMA UnderWayInit == Init => ActiveMeansUnderWay
BY FS_EmptySet, FixTypeInit DEF Init, ActiveMeansUnderWay, Active, ActiveStatus

LEMMA UnderWayStep == TypeOK /\ OwnInv /\ ActiveMeansUnderWay /\ [Next]_vars => ActiveMeansUnderWay'
<1> SUFFICES ASSUME TypeOK, OwnInv, ActiveMeansUnderWay, [Next]_vars PROVE ActiveMeansUnderWay'
  OBVIOUS
<1> USE DEF TypeOK, Goto, found, history, ActiveStatus, Active, OwnersOf, Owning
<1>1. ASSUME UNCHANGED <<abandoned, deaths>> PROVE Cardinality(abandoned') <= deaths'
  BY <1>1 DEF ActiveMeansUnderWay
<1>2. ASSUME NEW c \in Call, CallStep(c) PROVE ActiveMeansUnderWay'
  <2>1. CASE \E a \in Attempt : Ask(c, a)
    <3>1. PICK a \in Attempt : Ask(c, a)
      BY <2>1
    <3>2. /\ UNCHANGED <<row, artifact, abandoned, deaths>>
          /\ \A d \in Call : call[d] \in Owning => call'[d] = call[d] /\ about'[d] = about[d]
      BY <3>1 DEF Ask
    <3> QED BY <1>1, <3>2 DEF ActiveMeansUnderWay
  <2>2. CASE CountActive(c) \/ CountFinding(c) \/ (Create(c) /\ CreateLost(c))
    <3>1. /\ UNCHANGED <<row, about, artifact, abandoned, deaths>>
          /\ \A d \in Call : call[d] \in Owning => call'[d] = call[d]
      BY <2>2 DEF CountActive, CountFinding, Create, CreateLost
    <3> QED BY <1>1, <3>1 DEF ActiveMeansUnderWay
  <2>3. CASE Create(c) /\ CreateWon(c)
    <3>1. /\ row' = [row EXCEPT ![about[c]] = "pending"] /\ call' = [call EXCEPT ![c] = "created"]
          /\ call[c] = "creating" /\ UNCHANGED <<about, artifact, abandoned, deaths>>
      BY <2>3 DEF Create, CreateWon
    <3> QED BY <1>1, <3>1 DEF ActiveMeansUnderWay
  <2>4. CASE MarkVerifying(c)
    <3>1. /\ row' = [row EXCEPT ![about[c]] = "verifying"] /\ call' = [call EXCEPT ![c] = "minting"]
          /\ call[c] = "created" /\ UNCHANGED <<about, artifact, abandoned, deaths>>
      BY <2>4 DEF MarkVerifying, Record
    <3> QED BY <1>1, <3>1 DEF ActiveMeansUnderWay
  <2>5. CASE MintToken(c) \/ CheckAncestry(c) \/ MapSurface(c) \/ NoTests(c) \/ Judge(c)
    <3>1. /\ UNCHANGED <<row, about, artifact, abandoned, deaths>>
          /\ call[c] \in Owning \ {"waiting"}
          /\ \E s \in Owning : call' = [call EXCEPT ![c] = s]
      BY <2>5 DEF MintToken, CheckAncestry, MapSurface, NoTests, Judge, Decide
    <3> QED BY <1>1, <3>1 DEF ActiveMeansUnderWay
  <2>6. CASE Dispatch(c)
    <3>1. /\ UNCHANGED <<row, about, abandoned, deaths>> /\ artifact' = artifact \cup {about[c]}
          /\ call[c] = "tests" /\ call' = [call EXCEPT ![c] = "waiting"]
      BY <2>6 DEF Dispatch
    <3> QED BY <1>1, <3>1 DEF ActiveMeansUnderWay
  <2>7. CASE Receive(c) \/ NoAnswer(c)
    <3>1. /\ UNCHANGED <<row, about, abandoned, deaths>> /\ artifact' = artifact \ {about[c]}
          /\ call[c] = "waiting" /\ call' = [call EXCEPT ![c] = "judging"]
      BY <2>7 DEF Receive, NoAnswer, Unstage
    <3> QED BY <1>1, <3>1 DEF ActiveMeansUnderWay
  <2>8. CASE Finish(c)
    <3>1. /\ row' = [row EXCEPT ![about[c]] = verdict[c]] /\ verdict[c] \in Verdict
          /\ call[c] = "recording" /\ call' = [call EXCEPT ![c] = "idle"]
          /\ UNCHANGED <<about, artifact, abandoned, deaths>>
      BY <2>8 DEF Finish, Record, Forget
    <3>2. verdict[c] \notin ActiveStatus
      BY <3>1 DEF Verdict
    <3> QED BY <1>1, <3>1, <3>2 DEF ActiveMeansUnderWay
  <2>9. CASE Raise(c) \/ Die(c)
    <3>1. /\ UNCHANGED <<row, about>> /\ artifact' \subseteq artifact /\ deaths' = deaths + 1
          /\ call' = [call EXCEPT ![c] = "idle"]
          /\ abandoned' = IF call[c] \in Owning THEN abandoned \cup {about[c]} ELSE abandoned
      BY <2>9 DEF Raise, Die, Abandon, Forget
    <3>2. IsFiniteSet(abandoned) /\ Cardinality(abandoned) \in Nat
      BY SetsFinite
    <3>3. /\ Cardinality(abandoned \cup {about[c]}) \in Nat
          /\ Cardinality(abandoned \cup {about[c]}) <= Cardinality(abandoned) + 1
      <4>1. Cardinality(abandoned \cup {about[c]}) =
              IF about[c] \in abandoned THEN Cardinality(abandoned) ELSE Cardinality(abandoned) + 1
        BY <3>2, FS_AddElement
      <4> QED BY <3>2, <4>1
    <3>4. Cardinality(abandoned') <= deaths'
      BY <3>1, <3>2, <3>3 DEF ActiveMeansUnderWay
    <3> QED BY <3>1, <3>4 DEF ActiveMeansUnderWay
  <2> QED BY <1>2, <2>1, <2>2, <2>3, <2>4, <2>5, <2>6, <2>7, <2>8, <2>9 DEF CallStep, Create
<1>3. ASSUME NEW a \in Attempt, RunTests(a) \/ LoseTask(a) PROVE ActiveMeansUnderWay'
  BY <1>3 DEF RunTests, LoseTask, ActiveMeansUnderWay
<1>4. CASE UNCHANGED vars
  BY <1>4 DEF vars, ActiveMeansUnderWay
<1> QED BY <1>2, <1>3, <1>4 DEF Next

(* Attempts are verified once, kept within the limits but for the calls    *)
(* that count at once, and left under way only by calls that died, for     *)
(* every number of findings, commits, calls and deaths.                    *)
THEOREM AttemptsKept == Spec => []AttemptsAreKept
<1>1. Init => TypeOK /\ OwnInv /\ Limits /\ ActiveMeansUnderWay
  BY FixTypeInit, OwnInit, LimitsInit, UnderWayInit
<1>2. TypeOK /\ OwnInv /\ Limits /\ ActiveMeansUnderWay /\ [Next]_vars
        => (TypeOK /\ OwnInv /\ Limits /\ ActiveMeansUnderWay)'
  BY FixTypeStep, OwnStep, LimitsStep, UnderWayStep
<1>3. TypeOK /\ OwnInv /\ Limits /\ ActiveMeansUnderWay => AttemptsAreKept
  BY OwnIsOnce DEF AttemptsAreKept, Limits
<1> QED BY <1>1, <1>2, <1>3, PTL DEF Spec

-----------------------------------------------------------------------------
(***************************************************************************)
(* The feedback.                                                           *)
(***************************************************************************)
(* Events: what a sync can write, by kind; the id tells the kind, and for  *)
(* reactions the reaction.                                                 *)
Added(e) == \E r \in Reaction : e = Event(<<"reaction", r>>, On[r], "reaction_added", r, Hint[r], 0)
Removed(e) == \E r \in Reaction : \E n :
    e = Event(<<"reaction_removed", r>>, On[r], "reaction_removed", r, Hint[r], n)
Threaded(e) == \E c \in Comment, type \in {"thread_resolved", "thread_reopened"} : \E n :
    e = Event(<<"thread", c, n>>, c, type, "thread", "closed", n)
Other(e) ==
    /\ e.id[1] \notin {"reaction", "reaction_removed", "thread"}
    /\ e.type \notin {"reaction_added", "reaction_removed", "thread_resolved", "thread_reopened"}
Known(e) == Added(e) \/ Removed(e) \/ Threaded(e) \/ Other(e)

(* What a set of ids says of a comment's reactions. *)
Kept(ids, c) ==
    {r \in Reaction : On[r] = c /\ <<"reaction", r>> \in ids /\ <<"reaction_removed", r>> \notin ids}

ThreadsOf(V, c) == ThreadEvents(EventsOf(V, c))

LEMMA AddedHas ==
    ASSUME NEW e, Added(e)
    PROVE  \E r \in Reaction : /\ e.id = <<"reaction", r>> /\ e.comment = On[r] /\ e.type = "reaction_added"
                               /\ e.key = r /\ e.signal = Hint[r] /\ e.at = 0
BY DEF Added, Event
LEMMA RemovedHas ==
    ASSUME NEW e, Removed(e)
    PROVE  \E r \in Reaction : /\ e.id = <<"reaction_removed", r>> /\ e.comment = On[r]
                               /\ e.type = "reaction_removed" /\ e.key = r
BY DEF Removed, Event
LEMMA ThreadedHas ==
    ASSUME NEW e, Threaded(e)
    PROVE  \E c \in Comment : /\ e.id = <<"thread", c, e.at>> /\ e.comment = c
                              /\ e.type \in {"thread_resolved", "thread_reopened"}
BY DEF Threaded, Event

(* Ids of different kinds differ. *)
LEMMA KindsDiffer ==
    ASSUME NEW e, Known(e)
    PROVE  /\ \A r : e.id = <<"reaction", r>> => Added(e) /\ e.key = r
           /\ \A r : e.id = <<"reaction_removed", r>> => Removed(e) /\ e.key = r
           /\ \A c, n : e.id = <<"thread", c, n>> => Threaded(e) /\ e.at = n
           /\ e.type = "reaction_added" => Added(e)
           /\ e.type = "reaction_removed" => Removed(e)
           /\ e.type \in {"thread_resolved", "thread_reopened"} => Threaded(e)
<1>1. CASE Added(e)
  <2>1. PICK r \in Reaction : /\ e.id = <<"reaction", r>> /\ e.type = "reaction_added" /\ e.key = r /\ e.at = 0
    BY <1>1, AddedHas
  <2>2. e.id[1] = "reaction" /\ e.id[2] = r
    BY <2>1
  <2>3. \A q : e.id = <<"reaction", q>> => q = r
    BY <2>2
  <2> QED BY <1>1, <2>1, <2>2, <2>3
<1>2. CASE Removed(e)
  <2>1. PICK r \in Reaction : /\ e.id = <<"reaction_removed", r>> /\ e.type = "reaction_removed" /\ e.key = r
    BY <1>2, RemovedHas
  <2>2. e.id[1] = "reaction_removed" /\ e.id[2] = r
    BY <2>1
  <2>3. \A q : e.id = <<"reaction_removed", q>> => q = r
    BY <2>2
  <2> QED BY <1>2, <2>1, <2>2, <2>3
<1>3. CASE Threaded(e)
  <2>1. PICK c \in Comment : /\ e.id = <<"thread", c, e.at>>
                             /\ e.type \in {"thread_resolved", "thread_reopened"}
    BY <1>3, ThreadedHas
  <2>2. e.id[1] = "thread" /\ e.id[3] = e.at
    BY <2>1
  <2>3. \A d, n : e.id = <<"thread", d, n>> => e.at = n
    BY <2>2
  <2> QED BY <1>3, <2>1, <2>2, <2>3
<1>4. CASE Other(e)
  BY <1>4 DEF Other
<1> QED BY <1>1, <1>2, <1>3, <1>4 DEF Known

(* Reactions are active exactly if their ids say so. *)
LEMMA ActiveIsKept ==
    ASSUME NEW V, \A e \in V : Known(e), \A e \in V : e.at \in Nat, NEW c
    PROVE  {e.key : e \in ActiveReactions(EventsOf(V, c))} = Kept(Ids(V), c)
<1> DEFINE A == ActiveReactions(EventsOf(V, c))
<1>1. ASSUME NEW e \in A PROVE e.key \in Kept(Ids(V), c)
  <2>1. /\ e \in V /\ e.comment = c /\ e.type = "reaction_added"
        /\ ~ \E d \in V : d.comment = c /\ d.type = "reaction_removed" /\ d.key = e.key /\ d.at >= e.at
    BY <1>1 DEF ActiveReactions, EventsOf, OfType
  <2>2. PICK r \in Reaction : e.id = <<"reaction", r>> /\ e.comment = On[r] /\ e.key = r /\ e.at = 0
    BY <2>1, KindsDiffer, AddedHas
  <2>3. ASSUME NEW d \in V, d.id = <<"reaction_removed", r>> PROVE FALSE
    <3>1. Removed(d) /\ d.key = r
      BY <2>3, KindsDiffer
    <3>2. d.comment = On[r] /\ d.type = "reaction_removed" /\ d.at >= 0
      BY <3>1, RemovedHas
    <3> QED BY <2>1, <2>2, <3>1, <3>2
  <2> QED BY <2>1, <2>2, <2>3 DEF Kept, Ids
<1>2. ASSUME NEW r \in Kept(Ids(V), c) PROVE \E e \in A : e.key = r
  <2>1. PICK e \in V : e.id = <<"reaction", r>>
    BY <1>2 DEF Kept, Ids
  <2>2. Added(e) /\ e.key = r /\ e.type = "reaction_added" /\ e.comment = c
    BY <2>1, KindsDiffer, AddedHas, <1>2 DEF Kept
  <2>3. \A d \in V : d.type = "reaction_removed" => d.key # r
    <3> SUFFICES ASSUME NEW d \in V, d.type = "reaction_removed", d.key = r PROVE FALSE
      OBVIOUS
    <3>1. d.id = <<"reaction_removed", r>>
      BY KindsDiffer, RemovedHas
    <3> QED BY <3>1, <1>2 DEF Kept, Ids
  <2> QED BY <2>1, <2>2, <2>3 DEF ActiveReactions, EventsOf, OfType
<1> QED BY <1>1, <1>2

-----------------------------------------------------------------------------
(* Times.  As long as the times used are numbered without a gap too many,  *)
(* one more than their count is later than all of them.                    *)
Times(V) == {e.at : e \in V}
Clocked(V) == Times(V) \subseteq 0..Cardinality(Times(V)) /\ Cardinality(Times(V)) \in Nat
Next1(V) == 1 + Cardinality(Times(V))

LEMMA ClockGoesOn ==
    ASSUME NEW V, Clocked(V), NEW W, \A e \in W : e.at \in {0, Next1(V)}
    PROVE  Clocked(V \cup W)
<1>1. PICK n \in Nat : n = Cardinality(Times(V)) /\ Times(V) \subseteq 0..n
  BY DEF Clocked
<1>2. PICK T : T = Times(V \cup W)
  OBVIOUS
<1>3. Times(V) \subseteq T /\ T \subseteq Times(V) \cup Times(W)
  BY <1>2 DEF Times
<1>4. Times(W) \subseteq {0, n + 1}
  <2>1. Next1(V) = n + 1
    BY <1>1 DEF Next1
  <2>2. \A e \in W : e.at \in {0, n + 1}
    BY <2>1
  <2> QED BY ONLY <2>2 DEF Times
<1>5. T \subseteq 0..(n + 1)
  BY <1>1, <1>3, <1>4
<1>6. IsFiniteSet(T) /\ IsFiniteSet(Times(V))
  <2>1. 0 \in Int /\ n \in Int /\ n + 1 \in Int
    BY <1>1
  <2>2. IsFiniteSet(0..n) /\ IsFiniteSet(0..(n + 1))
    BY <2>1, FS_Interval
  <2>3. IsFiniteSet(Times(V))
    BY <1>1, <2>2, FS_Subset
  <2>4. IsFiniteSet(T)
    BY <1>5, <2>2, FS_Subset
  <2> QED BY <2>3, <2>4
<1>7. Cardinality(T) \in Nat /\ n <= Cardinality(T)
  BY <1>1, <1>3, <1>6, FS_CardinalityType, FS_Subset
<1>8. CASE n + 1 \in T
  <2>1. Times(V) \cup {n + 1} \subseteq T /\ n + 1 \notin Times(V)
    BY <1>1, <1>3, <1>8
  <2>2. /\ Cardinality(Times(V) \cup {n + 1}) = n + 1
        /\ IsFiniteSet(Times(V) \cup {n + 1})
    BY <2>1, <1>1, <1>6, FS_AddElement
  <2>3. n + 1 <= Cardinality(T)
    BY <2>1, <2>2, <1>6, FS_Subset
  <2>4. T \subseteq 0..Cardinality(T)
    BY <1>5, <1>7, <2>3
  <2> QED BY <1>2, <1>7, <2>4 DEF Clocked
<1>9. CASE n + 1 \notin T
  <2>1. T \subseteq 0..n
    BY <1>9, <1>5, <1>1
  <2>2. T \subseteq 0..Cardinality(T)
    BY <1>7, <2>1
  <2> QED BY <1>2, <1>7, <2>2 DEF Clocked
<1> QED BY <1>8, <1>9

Says(V, c, type) == ThreadResolved(EventsOf(V, c)) <=> type = "thread_resolved"

(* The latest event about a comment's thread is the new one. *)
LEMMA LatestIsNew ==
    ASSUME NEW V, NEW c, NEW n \in Nat, \A e \in V : e.at \in Nat /\ e.at < n,
           NEW W, NEW type, ThreadsOf(W, c) # {},
           \A e \in ThreadsOf(W, c) : e.at = n /\ e.type = type
    PROVE  Says(V \cup W, c, type)
<1> DEFINE E == ThreadEvents(EventsOf(V \cup W, c))
<1>1. E = ThreadsOf(V, c) \cup ThreadsOf(W, c)
  BY DEF ThreadsOf, ThreadEvents, EventsOf, OfType
<1>2. \A e \in ThreadsOf(V, c) : e.at \in Nat /\ e.at < n
  BY DEF ThreadsOf, ThreadEvents, EventsOf, OfType
<1> DEFINE l == CHOOSE e \in E : \A d \in E : d.at <= e.at
<1>3. l \in E /\ \A d \in E : d.at <= l.at
  <2>1. PICK e \in ThreadsOf(W, c) : TRUE
    OBVIOUS
  <2>2. e.at = n
    BY <2>1
  <2>3. \A d \in E : d.at <= n
    BY <1>1, <1>2
  <2>4. e \in E /\ \A d \in E : d.at <= e.at
    BY <1>1, <2>1, <2>2, <2>3
  <2> QED BY <2>4
<1>4. l \in ThreadsOf(W, c)
  <2>1. PICK e \in ThreadsOf(W, c) : e.at = n
    OBVIOUS
  <2>2. n <= l.at
    BY <1>1, <1>3, <2>1
  <2>3. l \notin ThreadsOf(V, c)
    BY <1>2, <2>2
  <2> QED BY <1>1, <1>3, <2>3
<1>5. l.type = type /\ E # {}
  BY <1>3, <1>4
<1> HIDE DEF E
<1> QED BY <1>5 DEF Says, ThreadResolved, LatestType, E, l

LEMMA ThreadStays ==
    ASSUME NEW V, NEW W, NEW c, ThreadsOf(W, c) = {}
    PROVE  ThreadResolved(EventsOf(V \cup W, c)) = ThreadResolved(EventsOf(V, c))
<1>1. ThreadsOf(V \cup W, c) = ThreadsOf(V, c)
  BY DEF ThreadsOf, ThreadEvents, EventsOf, OfType
<1> QED BY <1>1 DEF ThreadResolved, ThreadsOf

-----------------------------------------------------------------------------
(* The invariant.                                                          *)
Fields == {"stage", "replies", "todo", "comment", "fetched", "threads", "pending", "enriched",
           "saw", "view"}
View == [Comment -> [reactions : SUBSET Reaction, thread : BOOLEAN]]

WorldTyped ==
    /\ reaction \in [Reaction -> {"never", "on", "off"}]
    /\ resolved \in [Comment -> BOOLEAN]
    /\ deleted \subseteq Comment /\ attributed \subseteq Comment
    /\ overlapped \in BOOLEAN /\ seen \in View
    /\ DOMAIN sync = Sync

(* Events are of the known kinds, and of reactions that were there. *)
AllKnown(V) == \A e \in V : Known(e) /\ (Added(e) => reaction[e.key] # "never")

(* What is so of a sync x, however many there are. *)
SyncInv(x) ==
    /\ DOMAIN x = Fields /\ x.view \in View
    /\ x.todo \subseteq Comment /\ x.enriched \subseteq Comment
    /\ x.stage = "idle" => x = Idle
    /\ x.stage = "reactions" =>
         /\ x.comment \in Comment
         /\ \/ x.fetched = Tombstone
            \/ x.fetched \subseteq {r \in Reaction : On[r] = x.comment /\ reaction[r] # "never"}
    /\ x.stage = "threads" => /\ DOMAIN x.threads \subseteq Comment
                              /\ \A c \in DOMAIN x.threads : x.threads[c] \in BOOLEAN
    /\ AllKnown(x.pending)
    /\ x.saw \subseteq Ids(log \cup x.pending)

(* The events V say what the view says, except for the threads of X. *)
Follows(V, view, X) ==
    /\ Clocked(V)
    /\ \A c \in Comment :
         /\ Kept(Ids(V), c) = view[c].reactions
         /\ c \notin X => ThreadResolved(EventsOf(V, c)) = view[c].thread
    /\ \A r \in Reaction :
         <<"reaction_removed", r>> \in Ids(V) => reaction[r] = "off" \/ On[r] \in deleted

Open(x) == IF x.stage = "threads" THEN DOMAIN x.threads ELSE {}

(* A sync that is alone: its own events on top of the log follow what it   *)
(* has read, and what it fetched last is not contradicted by them.         *)
Works(x) ==
    /\ Follows(log \cup x.pending, x.view, Open(x))
    /\ x.stage = "threads" => \A c \in DOMAIN x.threads : x.view[c].thread = x.threads[c]
    /\ x.stage = "reactions" /\ x.fetched # Tombstone =>
         \A r \in Reaction :
           /\ r \in x.fetched => <<"reaction_removed", r>> \notin Ids(log \cup x.pending)
           /\ On[r] = x.comment /\ r \notin x.fetched
              /\ <<"reaction", r>> \in Ids(log \cup x.pending) => reaction[r] = "off"

Alone == \A s, t \in Sync : sync[s].stage # "idle" /\ sync[t].stage # "idle" => s = t

MirrorInv ==
    /\ WorldTyped /\ AllKnown(log) /\ told \subseteq Ids(log)
    /\ \A s \in Sync : SyncInv(sync[s])
    /\ ~overlapped => /\ Alone /\ Follows(log, seen, {})
                      /\ \A s \in Sync : sync[s].stage # "idle" => Works(sync[s])

LEMMA MirrorTells == MirrorInv => FeedbackMirrorsGitHub
<1> SUFFICES ASSUME MirrorInv PROVE FeedbackMirrorsGitHub
  OBVIOUS
<1>1. told \subseteq Ids(log)
  BY DEF MirrorInv
<1>2. ASSUME ~overlapped, NEW c \in Comment
      PROVE  /\ {e.key : e \in ActiveReactions(EventsOf(log, c))} = seen[c].reactions
             /\ ThreadResolved(EventsOf(log, c)) = seen[c].thread
  <2>1. Follows(log, seen, {}) /\ \A e \in log : Known(e)
    BY <1>2 DEF MirrorInv, AllKnown
  <2>2. \A e \in log : e.at \in Nat
    <3>1. PICK n \in Nat : Times(log) \subseteq 0..n
      BY <2>1 DEF Follows, Clocked
    <3> QED BY <3>1 DEF Times
  <2>3. {e.key : e \in ActiveReactions(EventsOf(log, c))} = Kept(Ids(log), c)
    BY <2>1, <2>2, ActiveIsKept
  <2> QED BY <2>1, <2>3 DEF Follows
<1>3. ASSUME ~overlapped, NEW r \in Reaction, <<"reaction_removed", r>> \in Ids(log)
      PROVE  reaction[r] = "off" \/ On[r] \in deleted
  BY <1>3 DEF MirrorInv, Follows
<1> QED BY <1>1, <1>2, <1>3 DEF FeedbackMirrorsGitHub, NothingSeenIsLost, LogIsWhatWasSeen

LEMMA IdleIsSo == SyncInv(Idle)
BY DEF SyncInv, Idle, Fields, View, Unseen, AllKnown

LEMMA MirrorInit == FeedbackInit => MirrorInv
<1> SUFFICES ASSUME FeedbackInit PROVE MirrorInv
  OBVIOUS
<1>1. WorldTyped /\ AllKnown(log) /\ told \subseteq Ids(log)
  BY DEF FeedbackInit, WorldTyped, AllKnown, View, Unseen
<1>2. \A s \in Sync : sync[s] = Idle
  BY DEF FeedbackInit
<1>3. \A s \in Sync : sync[s].stage = "idle"
  BY <1>2 DEF Idle
<1>4. Times(log) = {} /\ Cardinality(Times(log)) = 0
  BY FS_EmptySet DEF FeedbackInit, Times
<1>5. \A c \in Comment : Kept(Ids(log), c) = {} /\ ~ThreadResolved(EventsOf(log, c))
  BY DEF FeedbackInit, Kept, Ids, ThreadResolved, LatestType, ThreadEvents, EventsOf, OfType
<1>6. Follows(log, seen, {})
  <2>1. Clocked(log)
    BY <1>4 DEF Clocked
  <2>2. \A c \in Comment : seen[c].reactions = {} /\ seen[c].thread = FALSE
    BY DEF FeedbackInit, Unseen
  <2>3. Ids(log) = {}
    BY DEF FeedbackInit, Ids
  <2>4. \A c \in Comment : Kept(Ids(log), c) = seen[c].reactions
    BY <1>5, <2>2
  <2>5. \A c \in Comment : ThreadResolved(EventsOf(log, c)) = seen[c].thread
    <3>1. \A c \in Comment : ThreadResolved(EventsOf(log, c)) \in BOOLEAN
      BY DEF ThreadResolved
    <3> QED BY <1>5, <2>2, <3>1
  <2>6. \A r \in Reaction : <<"reaction_removed", r>> \notin Ids(log)
    BY <2>3
  <2> QED BY <2>1, <2>4, <2>5, <2>6 DEF Follows
<1> QED BY <1>1, <1>2, <1>3, <1>6, IdleIsSo DEF MirrorInv, Alone

-----------------------------------------------------------------------------
(* The world moves one way: a reaction that was seen never was not, one    *)
(* taken back stays so, and what is deleted is gone.                       *)
OneWay ==
    /\ WorldTyped' /\ deleted \subseteq deleted'
    /\ \A r \in Reaction :
         /\ reaction[r] # "never" => reaction'[r] # "never"
         /\ reaction[r] = "off" => reaction'[r] = "off"

LEMMA MirrorUnderWorld ==
    ASSUME MirrorInv, UNCHANGED <<database, sync, syncHistory>>, OneWay
    PROVE  MirrorInv'
<1> USE DEF OneWay
<1>1. UNCHANGED <<log, attributed, seen, told, overlapped, sync>>
  BY DEF database, syncHistory
<1>2. ASSUME NEW V, AllKnown(V) PROVE AllKnown(V)'
  <2> SUFFICES ASSUME NEW e \in V PROVE Known(e)' /\ (Added(e)' => reaction'[e.key] # "never")
    BY DEF AllKnown
  <2>1. Known(e) /\ (Added(e) => reaction[e.key] # "never")
    BY <1>2 DEF AllKnown
  <2>2. Added(e) => e.key \in Reaction
    BY AddedHas
  <2>3. Known(e)'
    BY <2>1 DEF Known, Added, Removed, Threaded, Other, Event
  <2>4. Added(e)' => Added(e)
    BY DEF Added, Event
  <2> QED BY <2>1, <2>2, <2>3, <2>4
<1>3. ASSUME NEW V, NEW view, NEW X, Follows(V, view, X) PROVE Follows(V, view, X)'
  <2>1. Clocked(V)'
    BY <1>3 DEF Follows, Clocked, Times
  <2>2. \A c \in Comment : Kept(Ids(V), c)' = view[c].reactions
    BY <1>3 DEF Follows, Kept, Ids
  <2>3. \A c \in Comment : c \notin X => ThreadResolved(EventsOf(V, c))' = view[c].thread
    BY <1>3 DEF Follows, EventsOf, ThreadResolved, ThreadEvents, OfType, LatestType
  <2>4. \A r \in Reaction :
          <<"reaction_removed", r>> \in Ids(V)' => reaction'[r] = "off" \/ On[r] \in deleted'
    BY <1>3 DEF Follows, Ids
  <2> QED BY <2>1, <2>2, <2>3, <2>4 DEF Follows
<1>4. ASSUME NEW x, SyncInv(x) PROVE SyncInv(x)'
  <2>1. AllKnown(x.pending)'
    BY <1>2, <1>4 DEF SyncInv
  <2>2. x.stage = "idle" => x = Idle
    BY <1>4 DEF SyncInv
  <2>3. x.saw \subseteq Ids(log \cup x.pending)'
    BY <1>1, <1>4 DEF SyncInv, Ids
  <2>4. x.stage = "reactions" =>
          /\ x.comment \in Comment
          /\ \/ x.fetched = Tombstone
             \/ x.fetched \subseteq {r \in Reaction : On[r] = x.comment /\ reaction'[r] # "never"}
    BY <1>4 DEF SyncInv
  <2> QED BY <1>4, <2>1, <2>2, <2>3, <2>4 DEF SyncInv
<1>5. ASSUME NEW x, Works(x) PROVE Works(x)'
  <2>1. Follows(log \cup x.pending, x.view, Open(x))'
    <3>1. Follows(log \cup x.pending, x.view, Open(x))
      BY <1>5 DEF Works
    <3>2. PICK V : V = log \cup x.pending
      OBVIOUS
    <3>3. PICK X : X = Open(x)
      OBVIOUS
    <3>4. Follows(V, x.view, X)'
      BY <3>1, <3>2, <3>3, <1>3
    <3> QED BY <1>1, <3>2, <3>3, <3>4 DEF Open
  <2>2. Ids(log \cup x.pending)' = Ids(log \cup x.pending)
    BY <1>1 DEF Ids
  <2>3. x.stage = "threads" => \A c \in DOMAIN x.threads : x.view[c].thread = x.threads[c]
    BY <1>5 DEF Works
  <2>4. x.stage = "reactions" /\ x.fetched # Tombstone =>
          \A r \in Reaction :
           /\ r \in x.fetched => <<"reaction_removed", r>> \notin Ids(log \cup x.pending)'
           /\ On[r] = x.comment /\ r \notin x.fetched
              /\ <<"reaction", r>> \in Ids(log \cup x.pending)' => reaction'[r] = "off"
    BY <1>5, <2>2 DEF Works
  <2> QED BY <2>1, <2>3, <2>4 DEF Works
<1>6. AllKnown(log)'
  <2>1. PICK V : V = log
    OBVIOUS
  <2> QED BY <1>1, <1>2, <2>1 DEF MirrorInv
<1>7. \A s \in Sync : SyncInv(sync[s])'
  <2> SUFFICES ASSUME NEW s \in Sync PROVE SyncInv(sync[s])'
    OBVIOUS
  <2>1. PICK x : x = sync[s]
    OBVIOUS
  <2>2. SyncInv(x)'
    BY <1>4, <2>1 DEF MirrorInv
  <2> QED BY <1>1, <2>1, <2>2
<1>8. ASSUME ~overlapped'
      PROVE  /\ Alone' /\ Follows(log, seen, {})'
             /\ \A s \in Sync : sync'[s].stage # "idle" => Works(sync[s])'
  <2>1. Alone /\ Follows(log, seen, {}) /\ \A s \in Sync : sync[s].stage # "idle" => Works(sync[s])
    BY <1>1, <1>8 DEF MirrorInv
  <2>2. Alone'
    BY <1>1, <2>1 DEF Alone
  <2>3. Follows(log, seen, {})'
    <3>1. PICK V, view : V = log /\ view = seen
      OBVIOUS
    <3>2. Follows(V, view, {})'
      BY <1>3, <2>1, <3>1
    <3> QED BY <1>1, <3>1, <3>2
  <2>4. ASSUME NEW s \in Sync, sync'[s].stage # "idle" PROVE Works(sync[s])'
    <3>1. PICK x : x = sync[s]
      OBVIOUS
    <3>2. Works(x)'
      BY <1>1, <1>5, <2>1, <2>4, <3>1
    <3> QED BY <1>1, <3>1, <3>2
  <2> QED BY <2>2, <2>3, <2>4
<1> QED BY <1>1, <1>6, <1>7, <1>8 DEF MirrorInv

LEMMA MirrorWorld == MirrorInv /\ World => MirrorInv'
<1> SUFFICES ASSUME MirrorInv, World PROVE MirrorInv'
  OBVIOUS
<1>0. WorldTyped
  BY DEF MirrorInv
<1>1. UNCHANGED <<database, sync, syncHistory>>
  BY DEF World
<1>2. OneWay
  <2> USE <1>0, <1>1 DEF OneWay, WorldTyped, database, syncHistory
  <2>1. ASSUME NEW r \in Reaction, React(r) \/ TakeBack(r) PROVE OneWay
    BY <2>1 DEF React, TakeBack
  <2>2. ASSUME NEW c \in Comment, Toggle(c) \/ Delete(c) PROVE OneWay
    BY <2>2 DEF Toggle, Delete
  <2>3. ASSUME UNCHANGED <<reaction, resolved, deleted>> PROVE OneWay
    BY <2>3
  <2> QED BY <2>1, <2>2, <2>3 DEF World, Write, MemoryMoves, CloseOrReopen
<1> QED BY <1>1, <1>2, MirrorUnderWorld

-----------------------------------------------------------------------------
(* Steps of a sync.                                                        *)
LEMMA OneSyncMoves ==
    ASSUME MirrorInv, NEW s \in Sync, NEW x, UNCHANGED <<world, database, syncHistory>>,
           sync[s].stage # "idle",
           sync' = [sync EXCEPT ![s] = x], SyncInv(x), ~overlapped => Works(x)
    PROVE  MirrorInv'
<1>1. /\ UNCHANGED <<reaction, resolved, deleted, log, attributed, seen, told, overlapped>>
      /\ DOMAIN sync = Sync
  BY DEF MirrorInv, WorldTyped, world, database, syncHistory
<1>2. /\ DOMAIN sync' = Sync /\ sync'[s] = x
      /\ \A t \in Sync \ {s} : sync'[t] = sync[t]
  BY <1>1
<1>3. WorldTyped' /\ AllKnown(log)' /\ (told \subseteq Ids(log))'
  BY <1>1, <1>2 DEF MirrorInv, WorldTyped, AllKnown
<1>4. ASSUME NEW t \in Sync PROVE SyncInv(sync[t])'
  <2>1. PICK y : y = sync'[t]
    OBVIOUS
  <2>2. SyncInv(y)
    BY <1>2, <2>1 DEF MirrorInv
  <2>3. SyncInv(y)'
    BY <1>1, <2>2 DEF SyncInv, AllKnown, Idle
  <2> QED BY <2>1, <2>3
<1>5. ASSUME ~overlapped'
      PROVE  /\ Alone' /\ Follows(log, seen, {})'
             /\ \A t \in Sync : sync'[t].stage # "idle" => Works(sync[t])'
  <2>1. Alone /\ Follows(log, seen, {}) /\ \A t \in Sync : sync[t].stage # "idle" => Works(sync[t])
    BY <1>1, <1>5 DEF MirrorInv
  <2>2. \A t \in Sync : sync'[t].stage # "idle" => t = s
    BY <1>2, <2>1 DEF Alone
  <2>3. Works(x)'
    BY <1>1, <1>5 DEF Works, Follows, Open
  <2>4. Follows(log, seen, {})'
    BY <1>1, <2>1 DEF Follows
  <2> QED BY <1>2, <2>2, <2>3, <2>4 DEF Alone
<1> QED BY <1>1, <1>3, <1>4, <1>5 DEF MirrorInv

LEMMA IdsJoin ==
    ASSUME NEW s, NEW new
    PROVE  /\ Ids(Visible(s) \cup Created(s, new)) = Ids(Visible(s)) \cup Ids(new)
           /\ Created(s, new) \subseteq new
BY DEF Created, Ids

LEMMA NowAlone ==
    ASSUME MirrorInv, ~overlapped, NEW s \in Sync, sync[s].stage # "idle"
    PROVE  Now = Next1(Visible(s))
<1>1. \A t \in Sync \ {s} : sync[t].pending = {}
  <2>1. \A t \in Sync \ {s} : sync[t].stage = "idle"
    BY DEF MirrorInv, Alone
  <2>2. \A t \in Sync \ {s} : sync[t] = Idle
    BY <2>1 DEF MirrorInv, SyncInv
  <2> QED BY <2>2 DEF Idle
<1>2. UNION ({log} \cup {sync[t].pending : t \in Sync}) = Visible(s)
  BY <1>1 DEF Visible
<1> QED BY <1>2 DEF Now, Next1, Times

(* The next record of a sync, for one that adds to its events. *)
LEMMA Adds ==
    ASSUME MirrorInv, NEW s \in Sync, ~overlapped, sync[s].stage # "idle",
           NEW new, \A e \in new : e.at \in {0, Now}
    PROVE  /\ Clocked(Visible(s)) /\ Clocked(Visible(s) \cup Created(s, new))
           /\ Now \in Nat /\ \A e \in Visible(s) : e.at \in Nat /\ e.at < Now
<1>1. Clocked(Visible(s))
  BY DEF MirrorInv, Works, Follows, Visible
<1>2. Now = Next1(Visible(s))
  BY NowAlone
<1>3. Clocked(Visible(s) \cup Created(s, new))
  <2>1. PICK V, W : V = Visible(s) /\ W = Created(s, new)
    OBVIOUS
  <2>2. \A e \in W : e.at \in {0, Next1(V)}
    BY <1>2, <2>1, IdsJoin
  <2> QED BY <1>1, <2>1, <2>2, ClockGoesOn
<1>4. Now \in Nat /\ \A e \in Visible(s) : e.at \in Nat /\ e.at < Now
  <2>1. PICK n \in Nat : n = Cardinality(Times(Visible(s))) /\ Times(Visible(s)) \subseteq 0..n
    BY <1>1 DEF Clocked
  <2>2. Now = n + 1
    BY <1>2, <2>1 DEF Next1
  <2>3. \A e \in Visible(s) : e.at \in 0..n
    BY <2>1 DEF Times
  <2> QED BY <2>2, <2>3
<1> QED BY <1>1, <1>3, <1>4

LEMMA MirrorList ==
    ASSUME MirrorInv, NEW s \in Sync, List(s)
    PROVE  MirrorInv'
<1>0. PICK x : x = sync'[s]
  OBVIOUS
<1>1. /\ UNCHANGED <<reaction, resolved, deleted, log, attributed, seen, told>>
      /\ DOMAIN sync = Sync /\ attributed \subseteq Comment /\ seen \in View
      /\ sync[s].stage = "idle" /\ overlapped \in BOOLEAN
  BY DEF MirrorInv, WorldTyped, List, At, world, database
<1>2. /\ DOMAIN sync' = Sync /\ \A t \in Sync \ {s} : sync'[t] = sync[t]
      /\ x = [Idle EXCEPT !.stage = "comments", !.replies = reply,
                 !.enriched = Comment \ (deleted \cup attributed),
                 !.todo = attributed \cup (Comment \ (deleted \cup attributed)), !.view = seen]
  BY <1>0, <1>1 DEF List
<1>3. /\ x.stage = "comments" /\ x.pending = {} /\ x.saw = {} /\ x.view = seen
      /\ DOMAIN x = Fields /\ x.todo \subseteq Comment /\ x.enriched \subseteq Comment
  BY <1>1, <1>2 DEF Idle, Fields
<1>4. overlapped' <=> overlapped \/ \E t \in Sync \ {s} : sync[t].stage # "idle"
  BY <1>1 DEF List, At
<1>5. WorldTyped' /\ AllKnown(log)' /\ (told \subseteq Ids(log))'
  <2>1. overlapped' \in BOOLEAN
    BY <1>1 DEF List
  <2> QED BY <1>1, <1>2, <2>1 DEF MirrorInv, WorldTyped, AllKnown
<1>6. SyncInv(x)'
  <2>1. SyncInv(x)
    BY <1>1, <1>3 DEF SyncInv, AllKnown
  <2> QED BY <1>1, <2>1 DEF SyncInv, AllKnown, Idle
<1>7. ASSUME NEW t \in Sync \ {s} PROVE SyncInv(sync[t])'
  <2>1. PICK y : y = sync'[t]
    OBVIOUS
  <2>2. SyncInv(y)
    BY <1>2, <2>1 DEF MirrorInv
  <2>3. SyncInv(y)'
    BY <1>1, <2>2 DEF SyncInv, AllKnown, Idle
  <2> QED BY <2>1, <2>3
<1>8. ASSUME ~overlapped'
      PROVE  /\ Alone' /\ Follows(log, seen, {})'
             /\ \A t \in Sync : sync'[t].stage # "idle" => Works(sync[t])'
  <2>1. /\ Follows(log, seen, {})
        /\ \A t \in Sync \ {s} : sync[t].stage = "idle"
    BY <1>4, <1>8 DEF MirrorInv
  <2>2. \A t \in Sync : sync'[t].stage # "idle" => t = s
    BY <1>2, <2>1
  <2>3. Follows(log, seen, {})'
    BY <1>1, <2>1 DEF Follows
  <2>4. Works(x)'
    <3>1. Open(x) = {} /\ log \cup x.pending = log
      BY <1>3 DEF Open
    <3>2. Follows(log \cup x.pending, x.view, Open(x))
      BY <1>3, <2>1, <3>1
    <3>3. Works(x)
      BY <1>3, <3>2 DEF Works
    <3> QED BY <1>1, <3>3 DEF Works, Follows, Open
  <2> QED BY <1>0, <2>2, <2>3, <2>4 DEF Alone
<1> QED BY <1>0, <1>5, <1>6, <1>7, <1>8 DEF MirrorInv

LEMMA MirrorFails ==
    ASSUME MirrorInv, NEW s \in Sync, Fail(s)
    PROVE  MirrorInv'
<1>1. /\ UNCHANGED <<reaction, resolved, deleted, log, attributed, seen, told, overlapped>>
      /\ DOMAIN sync' = Sync /\ sync'[s] = Idle
      /\ \A t \in Sync \ {s} : sync'[t] = sync[t]
  BY DEF MirrorInv, WorldTyped, Fail, world, database, syncHistory
<1>2. WorldTyped' /\ AllKnown(log)' /\ (told \subseteq Ids(log))'
  BY <1>1 DEF MirrorInv, WorldTyped, AllKnown
<1>3. ASSUME NEW t \in Sync PROVE SyncInv(sync[t])'
  <2>1. PICK y : y = sync'[t]
    OBVIOUS
  <2>2. SyncInv(y)
    BY <1>1, <2>1, IdleIsSo DEF MirrorInv
  <2>3. SyncInv(y)'
    BY <1>1, <2>2 DEF SyncInv, AllKnown, Idle
  <2> QED BY <2>1, <2>3
<1>4. sync'[s].stage = "idle"
  BY <1>1 DEF Idle
<1>5. ASSUME ~overlapped'
      PROVE  /\ Alone' /\ Follows(log, seen, {})'
             /\ \A t \in Sync : sync'[t].stage # "idle" => Works(sync[t])'
  <2>1. Alone /\ Follows(log, seen, {}) /\ sync[s].stage # "idle"
    BY <1>1, <1>5 DEF MirrorInv, Fail, At
  <2>2. \A t \in Sync : sync'[t].stage = "idle"
    BY <1>1, <1>4, <2>1 DEF Alone
  <2> QED BY <1>1, <2>1, <2>2 DEF Alone, Follows
<1> QED BY <1>2, <1>3, <1>5 DEF MirrorInv

LEMMA MirrorFetchReactions ==
    ASSUME MirrorInv, NEW s \in Sync, NEW c \in Comment, FetchReactions(s, c)
    PROVE  MirrorInv'
<1> DEFINE there == {r \in Reaction : On[r] = c /\ reaction[r] = "on"}
<1>1. /\ SyncInv(sync[s]) /\ DOMAIN sync[s] = Fields /\ DOMAIN sync = Sync /\ sync[s].stage = "comments"
      /\ UNCHANGED <<world, database, syncHistory>>
  BY DEF MirrorInv, WorldTyped, SyncInv, FetchReactions, At
<1>2. PICK x : x = [sync[s] EXCEPT !.stage = "reactions", !.comment = c,
                      !.fetched = IF c \in deleted THEN Tombstone ELSE there]
  OBVIOUS
<1>3. sync' = [sync EXCEPT ![s] = x]
  BY <1>1, <1>2 DEF FetchReactions
<1>4. /\ x.stage = "reactions" /\ x.comment = c
      /\ x.fetched = IF c \in deleted THEN Tombstone ELSE there
      /\ x.view = sync[s].view /\ x.pending = sync[s].pending /\ x.saw = sync[s].saw
      /\ x.todo = sync[s].todo /\ x.enriched = sync[s].enriched /\ DOMAIN x = Fields
  BY <1>1, <1>2 DEF Fields
<1>5. SyncInv(x)
  BY <1>1, <1>4 DEF SyncInv
<1>6. ASSUME ~overlapped PROVE Works(x)
  <2>1. Works(sync[s])
    BY <1>1, <1>6 DEF MirrorInv
  <2>2. Follows(log \cup x.pending, x.view, Open(x))
    BY <1>1, <1>4, <2>1 DEF Works, Open
  <2>3. ASSUME x.fetched # Tombstone, NEW r \in Reaction
        PROVE  /\ r \in x.fetched => <<"reaction_removed", r>> \notin Ids(log \cup x.pending)
               /\ On[r] = x.comment /\ r \notin x.fetched
                  /\ <<"reaction", r>> \in Ids(log \cup x.pending) => reaction[r] = "off"
    <3>1. c \notin deleted /\ x.fetched = there
      BY <1>4, <2>3
    <3>2. ASSUME r \in x.fetched PROVE <<"reaction_removed", r>> \notin Ids(log \cup x.pending)
      BY <2>2, <3>1, <3>2 DEF Follows
    <3>3. ASSUME On[r] = x.comment, r \notin x.fetched, <<"reaction", r>> \in Ids(log \cup x.pending)
          PROVE  reaction[r] = "off"
      <4>1. PICK e \in log \cup x.pending : e.id = <<"reaction", r>>
        BY <3>3 DEF Ids
      <4>2. Known(e) /\ (Added(e) => reaction[e.key] # "never")
        BY <1>5 DEF MirrorInv, SyncInv, AllKnown
      <4>3. reaction[r] # "never" /\ reaction[r] # "on"
        BY <1>4, <3>1, <3>3, <4>1, <4>2, KindsDiffer
      <4>4. reaction[r] \in {"never", "on", "off"}
        BY DEF MirrorInv, WorldTyped
      <4> QED BY <4>3, <4>4
    <3> QED BY <3>2, <3>3
  <2> QED BY <1>4, <2>2, <2>3 DEF Works
<1> QED BY <1>1, <1>3, <1>5, <1>6, OneSyncMoves

(* What a comment's reactions and replies add, by their ids. *)
CommentAdded(s, new) ==
    /\ AllKnown(new) /\ \A e \in new : e.at \in {0, Now}
    /\ \A c \in Comment : ThreadsOf(new, c) = {}
    /\ \A r \in Reaction :
         /\ <<"reaction", r>> \in Ids(new) <=>
              sync[s].fetched # Tombstone /\ r \in sync[s].fetched
         /\ <<"reaction_removed", r>> \in Ids(new) <=>
              /\ sync[s].fetched # Tombstone /\ r \notin sync[s].fetched
              /\ On[r] = sync[s].comment /\ <<"reaction", r>> \in Ids(Visible(s))

LEMMA CommentAdds ==
    ASSUME MirrorInv, NEW s \in Sync, sync[s].stage = "reactions",
           NEW new, new = ReactionChanges(s, sync[s].comment, sync[s].fetched)
                            \cup ReplyEvents(sync[s].comment, sync[s].replies)
    PROVE  CommentAdded(s, new)
<1> DEFINE c == sync[s].comment
           fetched == sync[s].fetched
           V == Visible(s)
           replies == ReplyEvents(c, sync[s].replies)
<1>1. /\ c \in Comment
      /\ \/ fetched = Tombstone
         \/ fetched \subseteq {r \in Reaction : On[r] = c /\ reaction[r] # "never"}
  BY DEF MirrorInv, SyncInv
<1>2. ASSUME NEW e \in replies
      PROVE  /\ Other(e) /\ e.at = 0
             /\ e.type \notin {"thread_resolved", "thread_reopened"}
             /\ \A r : e.id # <<"reaction", r>> /\ e.id # <<"reaction_removed", r>>
  <2>1. \/ \E p : e = Event(<<"comment", p>>, c, "reply", p, "developer_engaged", 0)
        \/ \E p, t : e = Event(<<"command", p>>, c, "command", p, t, 0)
    BY DEF ReplyEvents
  <2>2. /\ e.id[1] \in {"comment", "command"} /\ e.type \in {"reply", "command"} /\ e.at = 0
    BY <2>1 DEF Event
  <2>3. \A r : <<"reaction", r>>[1] = "reaction" /\ <<"reaction_removed", r>>[1] = "reaction_removed"
    OBVIOUS
  <2> QED BY <2>2, <2>3 DEF Other
<1>3. \A e \in V : Known(e) /\ (Added(e) => reaction[e.key] # "never")
  BY DEF MirrorInv, SyncInv, AllKnown, Visible
<1>4. CASE fetched = Tombstone
  <2>1. new = replies
    BY <1>4 DEF ReactionChanges
  <2>2. \A e \in new : Known(e) /\ ~Added(e)
    <3> SUFFICES ASSUME NEW e \in new PROVE Known(e) /\ ~Added(e)
      OBVIOUS
    <3>1. Other(e)
      BY <1>2, <2>1
    <3>2. ~Added(e)
      BY <3>1, AddedHas DEF Other
    <3> QED BY <3>1, <3>2 DEF Known
  <2>3. \A d \in Comment : ThreadsOf(new, d) = {}
    BY <1>2, <2>1 DEF ThreadsOf, ThreadEvents, EventsOf, OfType
  <2> QED BY <1>2, <1>4, <2>1, <2>2, <2>3 DEF AllKnown, Ids, CommentAdded
<1>5. CASE fetched # Tombstone
  <2>0. fetched \subseteq {r \in Reaction : On[r] = c /\ reaction[r] # "never"}
    BY <1>1, <1>5
  <2> DEFINE adds == ReactionEvents(c, fetched)
             removes == RemovalEvents(s, c, fetched)
  <2>1. new = adds \cup removes \cup replies
    BY <1>5 DEF ReactionChanges
  <2>2. ASSUME NEW e \in adds
        PROVE  /\ \E r \in fetched : e.id = <<"reaction", r>> /\ e.key = r
               /\ Added(e) /\ e.at = 0 /\ e.type = "reaction_added" /\ e.comment = c
    BY <2>0 DEF ReactionEvents, Added, Event
  <2>3. ASSUME NEW r \in fetched PROVE <<"reaction", r>> \in Ids(adds)
    <3>1. PICK e : e = Event(<<"reaction", r>>, c, "reaction_added", r, Hint[r], 0)
      OBVIOUS
    <3>2. e \in adds /\ e.id = <<"reaction", r>>
      BY <3>1 DEF ReactionEvents, Event
    <3> QED BY <3>2 DEF Ids
  <2>4. ASSUME NEW e \in removes
        PROVE  \E r \in Reaction :
                 /\ e = Event(<<"reaction_removed", r>>, On[r], "reaction_removed", r, Hint[r], Now)
                 /\ r \notin fetched /\ On[r] = c /\ <<"reaction", r>> \in Ids(V)
    <3>1. PICK a \in V \cup adds : /\ a.comment = c /\ a.type = "reaction_added" /\ a.key \notin fetched
                  /\ e = Event(<<"reaction_removed", a.key>>, c, "reaction_removed", a.key, a.signal, Now)
      BY DEF RemovalEvents, OfType, EventsOf
    <3>2. a \in V
      BY <2>2, <3>1
    <3>3. Added(a)
      BY <1>3, <3>1, <3>2, KindsDiffer
    <3>4. PICK r \in Reaction : a.id = <<"reaction", r>> /\ a.comment = On[r] /\ a.key = r /\ a.signal = Hint[r]
      BY <3>3, AddedHas
    <3> QED BY <3>1, <3>2, <3>4 DEF Ids
  <2>5. ASSUME NEW r \in Reaction, r \notin fetched, On[r] = c, <<"reaction", r>> \in Ids(V)
        PROVE  <<"reaction_removed", r>> \in Ids(removes)
    <3>1. PICK a \in V : a.id = <<"reaction", r>>
      BY <2>5 DEF Ids
    <3>2. Added(a) /\ a.key = r
      BY <1>3, <3>1, KindsDiffer
    <3>3. a.type = "reaction_added" /\ a.comment = c
      BY <3>2, <2>5, AddedHas
    <3>4. PICK e : e = Event(<<"reaction_removed", a.key>>, c, "reaction_removed", a.key, a.signal, Now)
      OBVIOUS
    <3>5. e \in removes
      BY <2>5, <3>2, <3>3, <3>4 DEF RemovalEvents, OfType, EventsOf
    <3>6. e.id = <<"reaction_removed", r>>
      BY <3>2, <3>4 DEF Event
    <3> QED BY <3>5, <3>6 DEF Ids
  <2>6. ASSUME NEW e \in removes
        PROVE  Removed(e) /\ e.at = Now /\ e.type = "reaction_removed" /\ \A r : e.id # <<"reaction", r>>
    <3>1. PICK r \in Reaction :
            e = Event(<<"reaction_removed", r>>, On[r], "reaction_removed", r, Hint[r], Now)
      BY <2>4
    <3>2. e.id[1] = "reaction_removed" /\ \A q : <<"reaction", q>>[1] = "reaction"
      BY <3>1 DEF Event
    <3> QED BY <3>1, <3>2 DEF Removed, Event
  <2> HIDE DEF adds, removes, replies
  <2>7. ASSUME NEW e \in new
        PROVE  /\ Known(e) /\ (Added(e) => reaction[e.key] # "never") /\ e.at \in {0, Now}
               /\ e.type \notin {"thread_resolved", "thread_reopened"}
    <3>1. CASE e \in adds
      BY <2>0, <2>2, <3>1 DEF Known
    <3>2. CASE e \in removes
      <4>1. ~Added(e)
        BY <2>6, <3>2, AddedHas
      <4> QED BY <2>6, <3>2, <4>1 DEF Known
    <3>3. CASE e \in replies
      <4>1. ~Added(e)
        BY <1>2, <3>3, AddedHas DEF Other
      <4> QED BY <1>2, <3>3, <4>1 DEF Known
    <3> QED BY <2>1, <3>1, <3>2, <3>3
  <2>8. \A d \in Comment : ThreadsOf(new, d) = {}
    BY <2>7 DEF ThreadsOf, ThreadEvents, EventsOf, OfType
  <2>9. Ids(new) = Ids(adds) \cup Ids(removes) \cup Ids(replies)
    BY <2>1 DEF Ids
  <2>10. ASSUME NEW r \in Reaction
         PROVE  /\ <<"reaction", r>> \notin Ids(removes) \cup Ids(replies)
                /\ <<"reaction_removed", r>> \notin Ids(adds) \cup Ids(replies)
                /\ <<"reaction", r>> \in Ids(adds) => r \in fetched
                /\ <<"reaction_removed", r>> \in Ids(removes) =>
                     r \notin fetched /\ On[r] = c /\ <<"reaction", r>> \in Ids(V)
    <3>1. <<"reaction", r>> \notin Ids(removes) \cup Ids(replies) /\ <<"reaction_removed", r>> \notin Ids(replies)
      BY <1>2, <2>6 DEF Ids
    <3>2. ASSUME NEW e \in adds PROVE e.id # <<"reaction_removed", r>> /\ (e.id = <<"reaction", r>> => r \in fetched)
      <4>1. PICK q \in fetched : e.id = <<"reaction", q>>
        BY <2>2
      <4>2. e.id[1] = "reaction" /\ e.id[2] = q /\ <<"reaction_removed", r>>[1] = "reaction_removed"
            /\ <<"reaction", r>>[2] = r
        BY <4>1
      <4> QED BY <4>2
    <3>3. ASSUME NEW e \in removes, e.id = <<"reaction_removed", r>>
          PROVE r \notin fetched /\ On[r] = c /\ <<"reaction", r>> \in Ids(V)
      <4>1. PICK q \in Reaction :
                 /\ e = Event(<<"reaction_removed", q>>, On[q], "reaction_removed", q, Hint[q], Now)
                 /\ q \notin fetched /\ On[q] = c /\ <<"reaction", q>> \in Ids(V)
        BY <2>4
      <4>2. e.id[2] = q /\ <<"reaction_removed", r>>[2] = r
        BY <4>1 DEF Event
      <4> QED BY <3>3, <4>1, <4>2
    <3> QED BY <3>1, <3>2, <3>3 DEF Ids
  <2> QED BY <1>5, <2>3, <2>5, <2>7, <2>8, <2>9, <2>10 DEF AllKnown, CommentAdded
<1> QED BY <1>4, <1>5

LEMMA MirrorRecordComment ==
    ASSUME MirrorInv, NEW s \in Sync, RecordComment(s)
    PROVE  MirrorInv'
<1> DEFINE c == sync[s].comment
           fetched == sync[s].fetched
           V == Visible(s)
<1>1. /\ SyncInv(sync[s]) /\ DOMAIN sync[s] = Fields /\ DOMAIN sync = Sync /\ sync[s].stage = "reactions"
      /\ c \in Comment /\ sync[s].view \in View
      /\ UNCHANGED <<world, database, syncHistory>>
  BY DEF MirrorInv, WorldTyped, SyncInv, RecordComment, At
<1>2. PICK new : new = ReactionChanges(s, c, fetched) \cup ReplyEvents(c, sync[s].replies)
  OBVIOUS
<1>3. PICK x : x = [sync[s] EXCEPT !.stage = "comments", !.todo = @ \ {c},
                      !.pending = @ \cup Created(s, new), !.saw = @ \cup Ids(new),
                      !.fetched = {}, !.comment = "none",
                      !.view[c].reactions = IF fetched = Tombstone THEN @ ELSE fetched]
  OBVIOUS
<1>4. sync' = [sync EXCEPT ![s] = x]
  <2>1. PICK todo, pending, saw, react, d, f :
             /\ todo = sync[s].todo \ {c} /\ pending = sync[s].pending \cup Created(s, new)
             /\ saw = sync[s].saw \cup Ids(new) /\ d = c /\ f = sync
             /\ react = IF fetched = Tombstone THEN sync[s].view[c].reactions ELSE fetched
    OBVIOUS
  <2>2. sync' = [f EXCEPT ![s].stage = "comments", ![s].todo = todo, ![s].pending = pending,
                    ![s].saw = saw, ![s].fetched = {}, ![s].comment = "none",
                    ![s].view[d].reactions = react]
    BY <1>2, <2>1 DEF RecordComment
  <2>3. x = [f[s] EXCEPT !.stage = "comments", !.todo = todo, !.pending = pending,
                    !.saw = saw, !.fetched = {}, !.comment = "none", !.view[d].reactions = react]
    BY <1>3, <2>1
  <2>4. s \in DOMAIN f /\ DOMAIN f[s] = Fields
    BY <1>1, <2>1
  <2>5. [f EXCEPT ![s].stage = "comments", ![s].todo = todo, ![s].pending = pending,
                    ![s].saw = saw, ![s].fetched = {}, ![s].comment = "none",
                    ![s].view[d].reactions = react]
        = [f EXCEPT ![s] = [f[s] EXCEPT !.stage = "comments", !.todo = todo, !.pending = pending,
                    !.saw = saw, !.fetched = {}, !.comment = "none", !.view[d].reactions = react]]
    BY <2>4, ZenonT(30) DEF Fields
  <2> QED BY <2>1, <2>2, <2>3, <2>5
<1>5. /\ x.stage = "comments" /\ x.todo \subseteq sync[s].todo /\ DOMAIN x = Fields
      /\ x.pending = sync[s].pending \cup Created(s, new) /\ x.saw = sync[s].saw \cup Ids(new)
      /\ x.enriched = sync[s].enriched
      /\ x.view = [sync[s].view EXCEPT ![c].reactions = IF fetched = Tombstone THEN @ ELSE fetched]
  BY <1>1, <1>3 DEF Fields
<1>6. /\ AllKnown(new) /\ \A e \in new : e.at \in {0, Now}
      /\ \A d \in Comment : ThreadsOf(new, d) = {}
      /\ \A r \in Reaction :
           /\ <<"reaction", r>> \in Ids(new) <=> fetched # Tombstone /\ r \in fetched
           /\ <<"reaction_removed", r>> \in Ids(new) <=>
                /\ fetched # Tombstone /\ r \notin fetched
                /\ On[r] = c /\ <<"reaction", r>> \in Ids(V)
  <2>1. new = ReactionChanges(s, sync[s].comment, sync[s].fetched)
                \cup ReplyEvents(sync[s].comment, sync[s].replies)
    BY <1>2
  <2>2. sync[s].stage = "reactions"
    BY <1>1
  <2>3. CommentAdded(s, new)
    BY <2>1, <2>2, CommentAdds
  <2> QED BY <2>3 DEF CommentAdded
<1>7. /\ log \cup x.pending = V \cup Created(s, new)
      /\ Ids(V \cup Created(s, new)) = Ids(V) \cup Ids(new) /\ Created(s, new) \subseteq new
  BY <1>5, IdsJoin DEF Visible
<1>8. fetched = Tombstone \/ fetched \subseteq {r \in Reaction : On[r] = c /\ reaction[r] # "never"}
  BY <1>1 DEF SyncInv
<1>9. /\ x.view \in View
      /\ \A d \in Comment :
           /\ x.view[d].thread = sync[s].view[d].thread
           /\ x.view[d].reactions = IF d = c /\ fetched # Tombstone THEN fetched
                                    ELSE sync[s].view[d].reactions
  <2>1. \A d \in Comment : sync[s].view[d] \in [reactions : SUBSET Reaction, thread : BOOLEAN]
    BY <1>1 DEF View
  <2> QED BY <1>1, <1>5, <1>8, <2>1 DEF View
<1>10. SyncInv(x)
  <2>1. AllKnown(x.pending)
    BY <1>1, <1>5, <1>6, <1>7 DEF SyncInv, AllKnown
  <2>2. x.saw \subseteq Ids(log \cup x.pending)
    BY <1>1, <1>5, <1>7 DEF SyncInv, Visible
  <2> QED BY <1>1, <1>5, <1>9, <2>1, <2>2 DEF SyncInv
<1>11. ASSUME ~overlapped PROVE Works(x)
  <2>1. Works(sync[s])
    BY <1>1, <1>11 DEF MirrorInv
  <2>2. Follows(V, sync[s].view, {})
    BY <1>1, <2>1 DEF Works, Open, Visible
  <2>3. Clocked(V \cup Created(s, new))
    BY <1>1, <1>6, <1>11, Adds
  <2>4. ASSUME NEW d \in Comment
        PROVE  /\ Kept(Ids(V \cup Created(s, new)), d) = x.view[d].reactions
               /\ ThreadResolved(EventsOf(V \cup Created(s, new), d)) = x.view[d].thread
    <3>1. Kept(Ids(V), d) = sync[s].view[d].reactions
      BY <2>2 DEF Follows
    <3>2. Kept(Ids(V) \cup Ids(new), d) = x.view[d].reactions
      <4>1. CASE fetched = Tombstone
        BY <1>6, <1>9, <3>1, <4>1 DEF Kept
      <4>2. CASE fetched # Tombstone /\ d = c
        <5>1. \A r \in fetched : r \in Reaction /\ On[r] = c /\ <<"reaction_removed", r>> \notin Ids(V)
          BY <1>1, <1>8, <2>1, <4>2 DEF Works, Visible
        <5> QED BY <1>6, <1>9, <4>2, <5>1 DEF Kept
      <4>3. CASE fetched # Tombstone /\ d # c
        <5>1. \A r \in fetched : r \in Reaction /\ On[r] = c
          BY <1>8, <4>3
        <5> QED BY <1>6, <1>9, <3>1, <4>3, <5>1 DEF Kept
      <4> QED BY <4>1, <4>2, <4>3
    <3>3. ThreadsOf(Created(s, new), d) = {}
      BY <1>6, <1>7 DEF ThreadsOf, ThreadEvents, EventsOf, OfType
    <3>4. ThreadResolved(EventsOf(V \cup Created(s, new), d)) = ThreadResolved(EventsOf(V, d))
      BY <3>3, ThreadStays
    <3> QED BY <1>7, <1>9, <2>2, <3>2, <3>4 DEF Follows
  <2>5. ASSUME NEW r \in Reaction, <<"reaction_removed", r>> \in Ids(V \cup Created(s, new))
        PROVE  reaction[r] = "off" \/ On[r] \in deleted
    <3>1. CASE <<"reaction_removed", r>> \in Ids(V)
      BY <2>2, <3>1 DEF Follows
    <3>2. CASE <<"reaction_removed", r>> \in Ids(new)
      BY <1>1, <1>6, <2>1, <3>2 DEF Works, Visible
    <3> QED BY <1>7, <2>5, <3>1, <3>2
  <2>6. Follows(V \cup Created(s, new), x.view, {})
    BY <2>3, <2>4, <2>5 DEF Follows
  <2> QED BY <1>5, <1>7, <2>6 DEF Works, Open
<1> QED BY <1>1, <1>4, <1>10, <1>11, OneSyncMoves

LEMMA MirrorFetchThreads ==
    ASSUME MirrorInv, NEW s \in Sync, FetchThreads(s)
    PROVE  MirrorInv'
<1>1. /\ SyncInv(sync[s]) /\ DOMAIN sync[s] = Fields /\ DOMAIN sync = Sync /\ sync[s].stage = "comments"
      /\ sync[s].view \in View /\ resolved \in [Comment -> BOOLEAN]
      /\ attributed \cup sync[s].enriched \subseteq Comment
      /\ UNCHANGED <<world, database, syncHistory>>
  BY DEF MirrorInv, WorldTyped, SyncInv, FetchThreads, At
<1>2. PICK threads : threads = [c \in (attributed \cup sync[s].enriched) \ deleted |-> resolved[c]]
  OBVIOUS
<1>3. PICK x : x = [sync[s] EXCEPT !.stage = "threads", !.threads = threads,
                      !.view = [c \in Comment |-> IF c \in DOMAIN threads
                                                  THEN [@[c] EXCEPT !.thread = threads[c]] ELSE @[c]]]
  OBVIOUS
<1>4. sync' = [sync EXCEPT ![s] = x]
  <2>1. PICK y : y = [sync EXCEPT ![s].stage = "threads", ![s].threads = threads]
    OBVIOUS
  <2>2. y[s].view = sync[s].view
    BY <1>1, <2>1
  <2>3. PICK v : v = [c \in Comment |-> IF c \in DOMAIN threads
                        THEN [sync[s].view[c] EXCEPT !.thread = threads[c]] ELSE sync[s].view[c]]
    OBVIOUS
  <2>4. sync' = [y EXCEPT ![s].view = v]
    <3>1. sync' = [y EXCEPT ![s].view = [c \in Comment |-> IF c \in DOMAIN threads
                        THEN [y[s].view[c] EXCEPT !.thread = threads[c]] ELSE y[s].view[c]]]
      BY <1>2, <2>1 DEF FetchThreads
    <3> QED BY <2>2, <2>3, <3>1
  <2>5. x = [sync[s] EXCEPT !.stage = "threads", !.threads = threads, !.view = v]
    BY <1>3, <2>3
  <2> QED BY <1>1, <2>1, <2>4, <2>5
<1>5. /\ x.stage = "threads" /\ x.threads = threads /\ DOMAIN x = Fields
      /\ x.pending = sync[s].pending /\ x.saw = sync[s].saw
      /\ x.todo = sync[s].todo /\ x.enriched = sync[s].enriched
      /\ x.view = [c \in Comment |-> IF c \in DOMAIN threads
                      THEN [sync[s].view[c] EXCEPT !.thread = threads[c]] ELSE sync[s].view[c]]
  BY <1>1, <1>3 DEF Fields
<1>6. DOMAIN threads \subseteq Comment /\ \A c \in DOMAIN threads : threads[c] \in BOOLEAN
  BY <1>1, <1>2
<1>7. /\ x.view \in View
      /\ \A c \in Comment :
           /\ x.view[c].reactions = sync[s].view[c].reactions
           /\ x.view[c].thread = IF c \in DOMAIN threads THEN threads[c] ELSE sync[s].view[c].thread
  <2>1. \A d \in Comment : sync[s].view[d] \in [reactions : SUBSET Reaction, thread : BOOLEAN]
    BY <1>1 DEF View
  <2> QED BY <1>5, <1>6, <2>1 DEF View
<1>8. SyncInv(x)
  BY <1>1, <1>5, <1>6, <1>7 DEF SyncInv
<1>9. ASSUME ~overlapped PROVE Works(x)
  <2>1. Works(sync[s])
    BY <1>1, <1>9 DEF MirrorInv
  <2>2. Follows(log \cup x.pending, sync[s].view, {})
    BY <1>1, <1>5, <2>1 DEF Works, Open
  <2>3. Follows(log \cup x.pending, x.view, DOMAIN threads)
    BY <1>7, <2>2 DEF Follows
  <2> QED BY <1>5, <1>6, <1>7, <2>3 DEF Works, Open
<1> QED BY <1>1, <1>4, <1>8, <1>9, OneSyncMoves

(* What the threads and the review memory add. *)
ThreadsAdded(s, new) ==
    /\ \A e \in new : /\ Known(e) /\ ~Added(e) /\ e.at = Now
                      /\ \A r : e.id # <<"reaction", r>> /\ e.id # <<"reaction_removed", r>>
    /\ \A c \in Comment : \A e \in ThreadsOf(new, c) :
         /\ c \in DOMAIN sync[s].threads
         /\ sync[s].threads[c] # ThreadResolved(EventsOf(Visible(s), c))
         /\ e.type = IF sync[s].threads[c] THEN "thread_resolved" ELSE "thread_reopened"
    /\ \A c \in DOMAIN sync[s].threads :
         sync[s].threads[c] # ThreadResolved(EventsOf(Visible(s), c)) =>
           \E e \in ThreadsOf(new, c) : e.id = <<"thread", c, Now>>

LEMMA ThreadsAdd ==
    ASSUME MirrorInv, NEW s \in Sync, sync[s].stage = "threads",
           NEW new, new = ThreadChanges(s, sync[s].threads) \cup LifecycleChanges
    PROVE  ThreadsAdded(s, new)
<1> DEFINE threads == sync[s].threads
           V == Visible(s)
           changed == ThreadChanges(s, threads)
<1>1. DOMAIN threads \subseteq Comment
  BY DEF MirrorInv, SyncInv
<1>2. ASSUME NEW e \in changed
      PROVE  \E c \in DOMAIN threads :
               /\ threads[c] # ThreadResolved(EventsOf(V, c))
               /\ e.id = <<"thread", c, Now>> /\ e.comment = c /\ e.at = Now /\ Threaded(e)
               /\ e.type = IF threads[c] THEN "thread_resolved" ELSE "thread_reopened"
  <2>1. PICK c \in DOMAIN threads :
          /\ threads[c] # ThreadResolved(EventsOf(V, c))
          /\ e = Event(<<"thread", c, Now>>, c,
                       IF threads[c] THEN "thread_resolved" ELSE "thread_reopened", "thread", "closed", Now)
    BY DEF ThreadChanges
  <2>2. Threaded(e)
    BY <1>1, <2>1 DEF Threaded
  <2> QED BY <2>1, <2>2 DEF Event
<1>3. ASSUME NEW c \in DOMAIN threads, threads[c] # ThreadResolved(EventsOf(V, c))
      PROVE  \E e \in ThreadsOf(changed, c) : e.id = <<"thread", c, Now>>
  <2>1. PICK type : type = IF threads[c] THEN "thread_resolved" ELSE "thread_reopened"
    OBVIOUS
  <2>2. PICK e : e = Event(<<"thread", c, Now>>, c, type, "thread", "closed", Now)
    OBVIOUS
  <2>3. e \in changed
    BY <1>3, <2>1, <2>2 DEF ThreadChanges
  <2>4. e.comment = c /\ e.type = type /\ e.id = <<"thread", c, Now>>
    BY <2>2 DEF Event
  <2> QED BY <2>1, <2>3, <2>4 DEF ThreadsOf, ThreadEvents, EventsOf, OfType
<1>4. ASSUME NEW e \in LifecycleChanges
      PROVE  /\ Other(e) /\ e.at = Now /\ e.id[1] = "memory"
             /\ e.type \notin {"thread_resolved", "thread_reopened"}
  <2>1. PICK c \in Comment : /\ memory[c].status \in {"carried_forward", "changed", "resolved"}
          /\ e = Event(<<"memory", c, memory[c]>>, c, LifecycleType[memory[c].status], "memory", "", Now)
    BY DEF LifecycleChanges, LifecycleType
  <2>2. LifecycleType[memory[c].status] \in {"code_unchanged", "code_changed", "disappeared"}
    BY <2>1 DEF LifecycleType
  <2>3. e.id[1] = "memory" /\ e.at = Now /\ e.type \in {"code_unchanged", "code_changed", "disappeared"}
    BY <2>1, <2>2 DEF Event
  <2> QED BY <2>3 DEF Other
<1> HIDE DEF changed
<1>5. new = changed \cup LifecycleChanges
  BY DEF changed
<1>6. ASSUME NEW e \in new
      PROVE  /\ Known(e) /\ ~Added(e) /\ e.at = Now /\ e.id[1] \in {"thread", "memory"}
  <2>1. CASE e \in changed
    <3>1. e.id[1] = "thread" /\ Threaded(e) /\ e.at = Now
      BY <1>2, <2>1
    <3>2. ~Added(e)
      BY <1>2, <2>1, AddedHas
    <3> QED BY <3>1, <3>2 DEF Known
  <2>2. CASE e \in LifecycleChanges
    <3>1. ~Added(e)
      BY <1>4, <2>2, AddedHas DEF Other
    <3> QED BY <1>4, <2>2, <3>1 DEF Known
  <2> QED BY <1>5, <2>1, <2>2
<1>7. \A e \in new : \A r : e.id # <<"reaction", r>> /\ e.id # <<"reaction_removed", r>>
  <2>1. \A r : <<"reaction", r>>[1] = "reaction" /\ <<"reaction_removed", r>>[1] = "reaction_removed"
    OBVIOUS
  <2> QED BY <1>6, <2>1
<1>8. \A c : ThreadsOf(new, c) = ThreadsOf(changed, c)
  BY <1>4, <1>5 DEF ThreadsOf, ThreadEvents, EventsOf, OfType
<1>9. \A c, e : e \in ThreadsOf(changed, c) => e \in changed /\ e.comment = c
  BY DEF ThreadsOf, ThreadEvents, EventsOf, OfType
<1>10. ASSUME NEW c \in Comment, NEW e \in ThreadsOf(new, c)
       PROVE  /\ c \in DOMAIN threads /\ threads[c] # ThreadResolved(EventsOf(V, c))
              /\ e.type = IF threads[c] THEN "thread_resolved" ELSE "thread_reopened"
  <2>1. e \in changed /\ e.comment = c
    BY <1>8, <1>9
  <2> QED BY <1>2, <2>1
<1>11. \A c \in DOMAIN threads : threads[c] # ThreadResolved(EventsOf(V, c)) =>
         \E e \in ThreadsOf(new, c) : e.id = <<"thread", c, Now>>
  BY <1>3, <1>8
<1>12. \A e \in new : /\ Known(e) /\ ~Added(e) /\ e.at = Now
                      /\ \A r : e.id # <<"reaction", r>> /\ e.id # <<"reaction_removed", r>>
  BY <1>6, <1>7
<1> QED BY <1>10, <1>11, <1>12 DEF ThreadsAdded

LEMMA MirrorRecordThreads ==
    ASSUME MirrorInv, NEW s \in Sync, RecordThreads(s)
    PROVE  MirrorInv'
<1> DEFINE threads == sync[s].threads
           V == Visible(s)
<1>1. /\ SyncInv(sync[s]) /\ DOMAIN sync[s] = Fields /\ DOMAIN sync = Sync /\ sync[s].stage = "threads"
      /\ UNCHANGED <<world, database, syncHistory>>
  BY DEF MirrorInv, WorldTyped, SyncInv, RecordThreads, At
<1>2. PICK new : new = ThreadChanges(s, threads) \cup LifecycleChanges
  OBVIOUS
<1>3. PICK x : x = [sync[s] EXCEPT !.stage = "pull_request", !.threads = <<>>,
                      !.pending = @ \cup Created(s, new)]
  OBVIOUS
<1>4. sync' = [sync EXCEPT ![s] = x]
  BY <1>1, <1>2, <1>3 DEF RecordThreads
<1>5. /\ x.stage = "pull_request" /\ DOMAIN x = Fields
      /\ x.pending = sync[s].pending \cup Created(s, new) /\ x.saw = sync[s].saw
      /\ x.todo = sync[s].todo /\ x.enriched = sync[s].enriched /\ x.view = sync[s].view
  BY <1>1, <1>3 DEF Fields
<1>6. /\ \A e \in new : /\ Known(e) /\ ~Added(e) /\ e.at = Now
                        /\ \A r : e.id # <<"reaction", r>> /\ e.id # <<"reaction_removed", r>>
      /\ \A c \in Comment : \A e \in ThreadsOf(new, c) :
            /\ c \in DOMAIN threads /\ threads[c] # ThreadResolved(EventsOf(V, c))
            /\ e.type = IF threads[c] THEN "thread_resolved" ELSE "thread_reopened"
      /\ \A c \in DOMAIN threads : threads[c] # ThreadResolved(EventsOf(V, c)) =>
            \E e \in ThreadsOf(new, c) : e.id = <<"thread", c, Now>>
  <2>1. new = ThreadChanges(s, sync[s].threads) \cup LifecycleChanges
    BY <1>2
  <2>2. sync[s].stage = "threads"
    BY <1>1
  <2>3. ThreadsAdded(s, new)
    BY <2>1, <2>2, ThreadsAdd
  <2> QED BY <2>3 DEF ThreadsAdded
<1>7. /\ log \cup x.pending = V \cup Created(s, new)
      /\ Ids(V \cup Created(s, new)) = Ids(V) \cup Ids(new) /\ Created(s, new) \subseteq new
  BY <1>5, IdsJoin DEF Visible
<1>8. SyncInv(x)
  <2>1. AllKnown(x.pending)
    BY <1>1, <1>5, <1>6, <1>7 DEF SyncInv, AllKnown
  <2>2. x.saw \subseteq Ids(log \cup x.pending)
    BY <1>1, <1>5, <1>7 DEF SyncInv, Visible, Ids
  <2> QED BY <1>1, <1>5, <2>1, <2>2 DEF SyncInv
<1>9. ASSUME ~overlapped PROVE Works(x)
  <2>1. Works(sync[s])
    BY <1>1, <1>9 DEF MirrorInv
  <2>2. /\ Follows(V, x.view, DOMAIN threads)
        /\ \A c \in DOMAIN threads : x.view[c].thread = threads[c]
    BY <1>1, <1>5, <2>1 DEF Works, Open, Visible
  <2>3. /\ Clocked(V \cup Created(s, new)) /\ Now \in Nat
        /\ \A e \in V : e.at \in Nat /\ e.at < Now
    BY <1>1, <1>6, <1>9, Adds
  <2>4. \A r : /\ <<"reaction", r>> \in Ids(V \cup Created(s, new)) <=> <<"reaction", r>> \in Ids(V)
               /\ <<"reaction_removed", r>> \in Ids(V \cup Created(s, new)) <=>
                    <<"reaction_removed", r>> \in Ids(V)
    BY <1>6, <1>7 DEF Ids
  <2>5. ASSUME NEW c \in Comment
        PROVE  ThreadResolved(EventsOf(V \cup Created(s, new), c)) = x.view[c].thread
    <3>1. CASE c \in DOMAIN threads /\ threads[c] # ThreadResolved(EventsOf(V, c))
      <4>1. PICK e \in ThreadsOf(new, c) : e.id = <<"thread", c, Now>>
        BY <1>6, <3>1
      <4>2. e.id \notin Ids(V)
        <5> SUFFICES ASSUME NEW v \in V, v.id = <<"thread", c, Now>> PROVE FALSE
          BY <4>1 DEF Ids
        <5>1. Known(v)
          BY <1>1 DEF MirrorInv, SyncInv, AllKnown, Visible
        <5>2. v.at = Now
          BY <5>1, KindsDiffer
        <5> QED BY <2>3, <5>2
      <4>3. e \in ThreadsOf(Created(s, new), c)
        BY <4>1, <4>2 DEF Created, ThreadsOf, ThreadEvents, EventsOf, OfType
      <4>4. PICK type : type = IF threads[c] THEN "thread_resolved" ELSE "thread_reopened"
        OBVIOUS
      <4>5. \A d \in ThreadsOf(Created(s, new), c) : d.at = Now /\ d.type = type
        <5>1. \A d \in ThreadsOf(Created(s, new), c) : d \in new /\ d \in ThreadsOf(new, c)
          BY <1>7 DEF ThreadsOf, ThreadEvents, EventsOf, OfType
        <5> QED BY <1>6, <4>4, <5>1
      <4>6. ThreadResolved(EventsOf(V \cup Created(s, new), c)) <=> type = "thread_resolved"
        <5>1. PICK n, W, U : n = Now /\ W = Created(s, new) /\ U = V
          OBVIOUS
        <5>2. /\ n \in Nat /\ \A d \in U : d.at \in Nat /\ d.at < n
              /\ ThreadsOf(W, c) # {}
              /\ \A d \in ThreadsOf(W, c) : d.at = n /\ d.type = type
          BY <2>3, <4>3, <4>5, <5>1
        <5>3. Says(U \cup W, c, type)
          BY <5>2, LatestIsNew, Zenon
        <5> QED BY <5>1, <5>3 DEF Says
      <4>7. threads[c] \in BOOLEAN /\ x.view[c].thread = threads[c]
        BY <1>1, <2>2, <3>1 DEF SyncInv
      <4>8. ThreadResolved(EventsOf(V \cup Created(s, new), c)) \in BOOLEAN
        BY DEF ThreadResolved
      <4> QED BY <4>4, <4>6, <4>7, <4>8
    <3>2. CASE c \notin DOMAIN threads \/ threads[c] = ThreadResolved(EventsOf(V, c))
      <4>1. ThreadsOf(new, c) = {}
        BY <1>6, <3>2
      <4>2. ThreadsOf(Created(s, new), c) = {}
        BY <1>7, <4>1 DEF ThreadsOf, ThreadEvents, EventsOf, OfType
      <4>3. ThreadResolved(EventsOf(V \cup Created(s, new), c)) = ThreadResolved(EventsOf(V, c))
        BY <4>2, ThreadStays
      <4> QED BY <2>2, <3>2, <4>3 DEF Follows
    <3> QED BY <3>1, <3>2
  <2>6. \A c \in Comment : Kept(Ids(V \cup Created(s, new)), c) = x.view[c].reactions
    BY <2>2, <2>4 DEF Follows, Kept
  <2>7. \A r \in Reaction : <<"reaction_removed", r>> \in Ids(V \cup Created(s, new)) =>
                             reaction[r] = "off" \/ On[r] \in deleted
    BY <2>2, <2>4 DEF Follows
  <2>8. Follows(V \cup Created(s, new), x.view, {})
    BY <2>3, <2>5, <2>6, <2>7 DEF Follows
  <2> QED BY <1>5, <1>7, <2>8 DEF Works, Open
<1> QED BY <1>1, <1>4, <1>8, <1>9, OneSyncMoves

LEMMA MirrorRecordPullRequest ==
    ASSUME MirrorInv, NEW s \in Sync, RecordPullRequest(s)
    PROVE  MirrorInv'
<1> DEFINE V == Visible(s)
<1>1. /\ SyncInv(sync[s]) /\ DOMAIN sync[s] = Fields /\ DOMAIN sync = Sync /\ sync[s].stage = "pull_request"
      /\ UNCHANGED <<world, database, syncHistory>>
  BY DEF MirrorInv, WorldTyped, SyncInv, RecordPullRequest, At
<1>2. PICK new : new = PullRequestEvents
  OBVIOUS
<1>3. PICK x : x = [sync[s] EXCEPT !.stage = "commit", !.pending = @ \cup Created(s, new)]
  OBVIOUS
<1>4. sync' = [sync EXCEPT ![s] = x]
  BY <1>1, <1>2, <1>3 DEF RecordPullRequest
<1>5. /\ x.stage = "commit" /\ DOMAIN x = Fields
      /\ x.pending = sync[s].pending \cup Created(s, new) /\ x.saw = sync[s].saw
      /\ x.todo = sync[s].todo /\ x.enriched = sync[s].enriched /\ x.view = sync[s].view
  BY <1>1, <1>3 DEF Fields
<1>6. ASSUME NEW e \in new
      PROVE  /\ Known(e) /\ ~Added(e) /\ e.at = Now
             /\ e.type \notin {"thread_resolved", "thread_reopened"}
             /\ \A r : e.id # <<"reaction", r>> /\ e.id # <<"reaction_removed", r>>
  <2>1. e = Event(<<"pr", pullRequest>>, "none", "pull_request", "pr", pullRequest, Now)
    BY <1>2 DEF PullRequestEvents
  <2>2. e.id[1] = "pr" /\ e.type = "pull_request" /\ e.at = Now
    BY <2>1 DEF Event
  <2>3. Other(e)
    BY <2>2 DEF Other
  <2>4. ~Added(e)
    BY <2>3, AddedHas DEF Other
  <2>5. \A r : <<"reaction", r>>[1] = "reaction" /\ <<"reaction_removed", r>>[1] = "reaction_removed"
    OBVIOUS
  <2> QED BY <2>2, <2>3, <2>4, <2>5 DEF Known
<1>7. /\ log \cup x.pending = V \cup Created(s, new)
      /\ Ids(V \cup Created(s, new)) = Ids(V) \cup Ids(new) /\ Created(s, new) \subseteq new
  BY <1>5, IdsJoin DEF Visible
<1>8. SyncInv(x)
  <2>1. AllKnown(x.pending)
    BY <1>1, <1>5, <1>6, <1>7 DEF SyncInv, AllKnown
  <2>2. x.saw \subseteq Ids(log \cup x.pending)
    BY <1>1, <1>5, <1>7 DEF SyncInv, Visible, Ids
  <2> QED BY <1>1, <1>5, <2>1, <2>2 DEF SyncInv
<1>9. ASSUME ~overlapped PROVE Works(x)
  <2>1. Follows(V, x.view, {})
    BY <1>1, <1>5, <1>9 DEF MirrorInv, Works, Open, Visible
  <2>2. Clocked(V \cup Created(s, new))
    BY <1>1, <1>6, <1>9, Adds
  <2>3. \A r : /\ <<"reaction", r>> \in Ids(V \cup Created(s, new)) <=> <<"reaction", r>> \in Ids(V)
               /\ <<"reaction_removed", r>> \in Ids(V \cup Created(s, new)) <=>
                    <<"reaction_removed", r>> \in Ids(V)
    BY <1>6, <1>7 DEF Ids
  <2>4. ASSUME NEW c \in Comment
        PROVE  /\ Kept(Ids(V \cup Created(s, new)), c) = x.view[c].reactions
               /\ ThreadResolved(EventsOf(V \cup Created(s, new), c)) = x.view[c].thread
    <3>1. ThreadsOf(Created(s, new), c) = {}
      BY <1>6, <1>7 DEF ThreadsOf, ThreadEvents, EventsOf, OfType
    <3>2. ThreadResolved(EventsOf(V \cup Created(s, new), c)) = ThreadResolved(EventsOf(V, c))
      BY <3>1, ThreadStays
    <3>3. Kept(Ids(V \cup Created(s, new)), c) = Kept(Ids(V), c)
      BY <2>3 DEF Kept
    <3> QED BY <2>1, <3>2, <3>3 DEF Follows
  <2>5. \A r \in Reaction : <<"reaction_removed", r>> \in Ids(V \cup Created(s, new)) =>
                             reaction[r] = "off" \/ On[r] \in deleted
    BY <2>1, <2>3 DEF Follows
  <2>6. Follows(V \cup Created(s, new), x.view, {})
    BY <2>2, <2>4, <2>5 DEF Follows
  <2> QED BY <1>5, <1>7, <2>6 DEF Works, Open
<1> QED BY <1>1, <1>4, <1>8, <1>9, OneSyncMoves

LEMMA MirrorCommit ==
    ASSUME MirrorInv, NEW s \in Sync, Commit(s)
    PROVE  MirrorInv'
<1>1. /\ UNCHANGED <<reaction, resolved, deleted, overlapped>>
      /\ SyncInv(sync[s]) /\ sync[s].stage = "commit"
      /\ DOMAIN sync' = Sync /\ sync'[s] = Idle /\ \A t \in Sync \ {s} : sync'[t] = sync[t]
      /\ log' = Visible(s) /\ seen' = sync[s].view /\ told' = told \cup sync[s].saw
      /\ attributed' = attributed \cup sync[s].enriched
  BY DEF MirrorInv, WorldTyped, Commit, At, Visible, world
<1>2. WorldTyped'
  BY <1>1 DEF MirrorInv, WorldTyped, SyncInv
<1>3. AllKnown(log)'
  BY <1>1 DEF MirrorInv, SyncInv, AllKnown, Visible
<1>4. (told \subseteq Ids(log))'
  BY <1>1 DEF MirrorInv, SyncInv, Visible, Ids
<1>5. ASSUME NEW t \in Sync PROVE SyncInv(sync[t])'
  <2>1. PICK y : y = sync'[t]
    OBVIOUS
  <2>2. SyncInv(y)
    BY <1>1, <2>1, IdleIsSo DEF MirrorInv
  <2>3. Ids(log \cup y.pending) \subseteq Ids(log' \cup y.pending)
    BY <1>1 DEF Ids, Visible
  <2>4. (y.saw \subseteq Ids(log \cup y.pending))'
    BY <2>2, <2>3 DEF SyncInv, Ids
  <2>5. SyncInv(y)'
    BY <1>1, <2>2, <2>4 DEF SyncInv, AllKnown, Idle
  <2> QED BY <2>1, <2>5
<1>6. sync'[s].stage = "idle"
  BY <1>1 DEF Idle
<1>7. ASSUME ~overlapped'
      PROVE  /\ Alone' /\ Follows(log, seen, {})'
             /\ \A t \in Sync : sync'[t].stage # "idle" => Works(sync[t])'
  <2>1. Alone /\ Works(sync[s])
    BY <1>1, <1>7 DEF MirrorInv
  <2>2. \A t \in Sync : sync'[t].stage = "idle"
    BY <1>1, <1>6, <2>1 DEF Alone
  <2>3. PICK V, view : V = Visible(s) /\ view = sync[s].view
    OBVIOUS
  <2>4. Follows(V, view, {})
    BY <1>1, <2>1, <2>3 DEF Works, Open, Visible
  <2>5. Follows(V, view, {})'
    BY <1>1, <2>4 DEF Follows
  <2>6. Follows(log, seen, {})'
    BY <1>1, <2>3, <2>5
  <2> QED BY <2>2, <2>6 DEF Alone
<1> QED BY <1>2, <1>3, <1>4, <1>5, <1>7 DEF MirrorInv

LEMMA MirrorStays == MirrorInv /\ UNCHANGED feedbackVars => MirrorInv'
<1> SUFFICES ASSUME MirrorInv, UNCHANGED feedbackVars PROVE MirrorInv'
  OBVIOUS
<1>1. UNCHANGED <<database, sync, syncHistory, world>>
  BY DEF feedbackVars
<1>2. OneWay
  BY <1>1 DEF OneWay, MirrorInv, WorldTyped, world, database, syncHistory
<1> QED BY <1>1, <1>2, MirrorUnderWorld

(* The log never misses what a committed sync saw, and as long as no two   *)
(* syncs overlapped it says of every comment what the last one saw.        *)
THEOREM LogFollowsGitHub == FeedbackSpec => []FeedbackMirrorsGitHub
<1>1. MirrorInv /\ FeedbackNext => MirrorInv'
  <2> SUFFICES ASSUME MirrorInv, FeedbackNext PROVE MirrorInv'
    OBVIOUS
  <2>1. CASE World
    BY <2>1, MirrorWorld
  <2>2. ASSUME NEW s \in Sync, SyncStep(s) PROVE MirrorInv'
    <3>1. ASSUME NEW c \in Comment, FetchReactions(s, c) PROVE MirrorInv'
      BY <3>1, MirrorFetchReactions
    <3> QED BY <2>2, <3>1, MirrorList, MirrorRecordComment, MirrorFetchThreads, MirrorRecordThreads,
               MirrorRecordPullRequest, MirrorCommit DEF SyncStep
  <2>3. ASSUME NEW s \in Sync, Fail(s) PROVE MirrorInv'
    BY <2>3, MirrorFails
  <2> QED BY <2>1, <2>2, <2>3 DEF FeedbackNext
<1> QED BY MirrorInit, <1>1, MirrorStays, MirrorTells, PTL DEF FeedbackSpec

-----------------------------------------------------------------------------
(* What feedback says of a finding, for any finite set of events.          *)

Strengths == {1, 2, 3}

LEMMA StrengthIs == \A e : StrengthRank(e) \in Strengths
BY DEF StrengthRank, Strengths

(* CHOOSE finds a strongest event, since there are three strengths.        *)
LEMMA StrongestIs ==
  ASSUME NEW S, S # {}
  PROVE  /\ StrongestSignal(S) \in Strengths
         /\ \A e \in S : StrengthRank(e) <= StrongestSignal(S)
         /\ \E e \in S : StrengthRank(e) = StrongestSignal(S)
<1> DEFINE top(e) == \A d \in S : StrengthRank(d) <= StrengthRank(e)
<1>1. \E e \in S : top(e)
  <2>1. CASE \E e \in S : StrengthRank(e) = 3
    BY <2>1, StrengthIs DEF Strengths
  <2>2. CASE (~\E e \in S : StrengthRank(e) = 3) /\ \E e \in S : StrengthRank(e) = 2
    BY <2>2, StrengthIs DEF Strengths
  <2>3. CASE ~\E e \in S : StrengthRank(e) \in {2, 3}
    BY <2>3, StrengthIs DEF Strengths
  <2> QED BY <2>1, <2>2, <2>3
<1>2. PICK m : m = CHOOSE e \in S : top(e)
  OBVIOUS
<1>3. m \in S /\ top(m)
  BY <1>1, <1>2
<1>4. StrongestSignal(S) = StrengthRank(m)
  BY <1>2 DEF StrongestSignal
<1> QED BY <1>3, <1>4, StrengthIs

LEMMA StrongerWithMore ==
  ASSUME NEW S, NEW e
  PROVE  StrongestSignal(S \cup {e}) >= StrongestSignal(S)
<1>1. CASE S = {}
  <2>1. StrongestSignal(S) = 0 BY <1>1 DEF StrongestSignal
  <2> QED BY <2>1, StrongestIs DEF Strengths
<1>2. CASE S # {}
  <2>1. PICK d \in S : StrengthRank(d) = StrongestSignal(S) BY <1>2, StrongestIs
  <2>2. StrengthRank(d) <= StrongestSignal(S \cup {e}) BY StrongestIs
  <2> QED BY <1>2, <2>1, <2>2, StrongestIs DEF Strengths
<1> QED BY <1>1, <1>2

(* What a developer does who finds a comment wrong.                        *)
IsComplaint(e) == \/ e.type = "reaction_added" /\ e.signal = "negative"
                  \/ e.type = "command" /\ e.signal = "false-positive"

LEMMA PolarityRanks ==
  /\ PolarityRank("negative") = 0 /\ PolarityRank("neutral") = 1
  /\ PolarityRank("unknown") = 1 /\ PolarityRank("positive") = 2
BY DEF PolarityRank

LEMMA FewerThan ==
  ASSUME NEW A, NEW B, IsFiniteSet(B), A \subseteq B
  PROVE  Cardinality(A) \in Nat /\ Cardinality(B) \in Nat /\ Cardinality(A) <= Cardinality(B)
BY FS_Subset, FS_CardinalityType

(* ComplaintsNeverHelpAFinding: whatever was recorded of a finding before, *)
(* one more complaint never makes the assessment better in any respect,    *)
(* leaves its resolution alone, and never takes the finding off the list of*)
(* false positives (compute_finding_assessment, is_false_positive_candidate*)
(* and is_high_value_candidate).                                           *)
THEOREM ComplaintsNeverHelpAFinding ==
  ASSUME NEW events, IsFiniteSet(events), NEW complaint, IsComplaint(complaint)
  PROVE  ComplaintsNeverHelp(events, complaint)
<1> DEFINE more == events \cup {complaint}
<1>1. /\ ThreadEvents(more) = ThreadEvents(events)
      /\ LifecycleEvents(more) = LifecycleEvents(events)
      /\ OfType(more, "disappeared") = OfType(events, "disappeared")
      /\ OfType(more, "code_changed") = OfType(events, "code_changed")
      /\ OfType(more, "reaction_removed") = OfType(events, "reaction_removed")
  BY DEF IsComplaint, ThreadEvents, LifecycleEvents, Lifecycle, OfType
<1>2. /\ Said(more, "useful") <=> Said(events, "useful")
      /\ Said(more, "fixed") <=> Said(events, "fixed")
      /\ Said(events, "false-positive") => Said(more, "false-positive")
  BY DEF IsComplaint, Said, OfType
<1>3. /\ LatestLifecycle(more) = LatestLifecycle(events)
      /\ Resolution(more) = Resolution(events)
  BY <1>1 DEF LatestLifecycle, Resolution, ThreadResolved
<1>4. /\ Reactions(events, "positive") \in Nat /\ Reactions(more, "positive") = Reactions(events, "positive")
      /\ Reactions(events, "negative") \in Nat /\ Reactions(more, "negative") \in Nat
      /\ Reactions(events, "negative") <= Reactions(more, "negative")
  <2> DEFINE of(S, hint) == {e \in ActiveReactions(S) : e.signal = hint}
  <2>10. \A S, hint : Reactions(S, hint) = Cardinality(of(S, hint))
    BY DEF Reactions
  <2>1. ActiveReactions(events) \subseteq events /\ ActiveReactions(more) \subseteq more
    BY DEF ActiveReactions, OfType
  <2>2. IsFiniteSet(more)
    BY FS_AddElement
  <2>3. \A e \in events : e \in ActiveReactions(events) <=> e \in ActiveReactions(more)
    BY <1>1 DEF ActiveReactions, OfType
  <2>4. of(more, "positive") = of(events, "positive")
    <3>1. complaint \in ActiveReactions(more) => complaint.signal = "negative"
      BY DEF IsComplaint, ActiveReactions, OfType
    <3> QED BY <2>1, <2>3, <3>1
  <2>5. of(events, "negative") \subseteq of(more, "negative")
    BY <2>1, <2>3
  <2>6. of(events, "positive") \subseteq events /\ of(more, "negative") \subseteq more
    BY <2>1
  <2>7. IsFiniteSet(of(more, "negative"))
    BY <2>2, <2>6, FS_Subset
  <2> HIDE DEF of
  <2>8. Cardinality(of(events, "positive")) \in Nat
    BY <2>6, FewerThan
  <2>9. /\ Cardinality(of(events, "negative")) \in Nat /\ Cardinality(of(more, "negative")) \in Nat
        /\ Cardinality(of(events, "negative")) <= Cardinality(of(more, "negative"))
    BY <2>5, <2>7, FewerThan
  <2> QED BY <2>4, <2>8, <2>9, <2>10
<1> HIDE DEF more
<1>5. PolarityRank(Usefulness(more)) <= PolarityRank(Usefulness(events))
  BY <1>2, <1>4, PolarityRanks DEF Usefulness
<1>6. PolarityRank(Correctness(more)) <= PolarityRank(Correctness(events))
  BY <1>2, <1>3, <1>4, PolarityRanks DEF Correctness
<1>7. StrongestSignal(more) >= StrongestSignal(events)
  BY StrongerWithMore DEF more
<1>8. /\ IsFalsePositiveCandidate(events) => IsFalsePositiveCandidate(more)
      /\ IsHighValueCandidate(more) => IsHighValueCandidate(events)
  BY <1>1, <1>2, <1>3, <1>4 DEF IsFalsePositiveCandidate, IsHighValueCandidate
<1> QED BY <1>3, <1>5, <1>6, <1>7, <1>8 DEF ComplaintsNeverHelp, Assessment, more

(* TakenBackLeavesNoTrace: a reaction that was added and taken back changes*)
(* neither the assessment of its finding nor its place among the false     *)
(* positives, whatever else was recorded; a reaction has a key of its own  *)
(* (ActiveReactions of compute_finding_assessment).                        *)
THEOREM TakenBackLeavesNoTrace ==
  ASSUME NEW events, NEW added, NEW removed,
         added.type = "reaction_added", removed.type = "reaction_removed",
         removed.key = added.key, removed.at >= added.at,
         \A e \in events : e.type = "reaction_added" => e.key # added.key
  PROVE  TakenBackCountsForNothing(events, added, removed)
<1> DEFINE both == events \cup {added, removed}
<1>1. ActiveReactions(both) = ActiveReactions(events)
  BY DEF ActiveReactions, OfType
<1>2. OfType(both, "command") = OfType(events, "command") /\ LifecycleEvents(both) = LifecycleEvents(events)
  BY DEF OfType, LifecycleEvents, Lifecycle
<1> HIDE DEF both
<1>3. /\ \A hint : Reactions(both, hint) = Reactions(events, hint)
      /\ \A command : Said(both, command) = Said(events, command)
      /\ LatestLifecycle(both) = LatestLifecycle(events)
  BY <1>1, <1>2 DEF Reactions, Said, LatestLifecycle
<1>4. Usefulness(both) = Usefulness(events) /\ Correctness(both) = Correctness(events)
  BY <1>3 DEF Usefulness, Correctness
<1>5. IsFalsePositiveCandidate(both) = IsFalsePositiveCandidate(events)
  BY <1>3 DEF IsFalsePositiveCandidate
<1> QED BY <1>4, <1>5 DEF TakenBackCountsForNothing, Assessment, both
=============================================================================
