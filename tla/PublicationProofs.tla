------------------------- MODULE PublicationProofs -------------------------
(***************************************************************************)
(* Theorems about Publication, for any sets of attempts, rows and commits  *)
(* and any bound on crashes; and about what is decided on the way to it,   *)
(* for any candidate, finding, verdict and diff.                           *)
(***************************************************************************)
EXTENDS Publication, FindingPipeline, ReviewScope, FiniteSetTheorems, TLAPS

TypeInv == TypeOK /\ ErrorsOK

USE DEF Goto, Finish, FailWith

LEMMA TypeInvInit == Init => TypeInv
  BY PublicationAssumption
  DEF Init, TypeInv, TypeOK, ErrorsOK, RowStatus, AllModes, Location, Working, Reconciling

LEMMA GetOrCreateTypeInv ==
  ASSUME TypeInv, NEW a \in Attempt, NEW m \in Mode, GetOrCreateAttempt(a, m)
  PROVE  TypeInv'
<1> USE PublicationAssumption
    DEF TypeInv, TypeOK, ErrorsOK, Location, Working, Reconciling, AllModes, RowStatus,
        GetOrCreateAttempt, githubVars, Rows
<1>1. CASE AlreadyPublished(a, m)
  BY <1>1 DEF AlreadyPublished
<1>2. CASE InProgressElsewhere(a, m)
  BY <1>2 DEF InProgressElsewhere
<1>3. CASE ReconcileNeeded(a, m)
  BY <1>3 DEF ReconcileNeeded
<1>4. CASE Create(a, m)
  BY <1>4 DEF Create
<1> QED BY <1>1, <1>2, <1>3, <1>4

LEMMA AttemptStepTypeInv ==
  ASSUME TypeInv, NEW a \in Attempt, AttemptStep(a)
  PROVE  TypeInv'
<1> USE PublicationAssumption
    DEF TypeInv, TypeOK, ErrorsOK, Location, Working, Reconciling, AllModes, RowStatus,
        rowVars, githubVars
<1>1. CASE ScanForMarker(a)
  BY <1>1 DEF ScanForMarker
<1>2. CASE ScanFails(a)
  BY <1>2 DEF ScanFails
<1>3. CASE SupersedeAbandoned(a)
  BY <1>3 DEF SupersedeAbandoned
<1>4. CASE BuildPlan(a)
  BY <1>4 DEF BuildPlan, AllPlanOutcomes
<1>5. CASE ReadFails(a)
  BY <1>5 DEF ReadFails
<1>6. CASE PersistPlanComments(a)
  BY <1>6 DEF PersistPlanComments
<1>7. CASE FinalizeNoWrite(a)
  <2>1. NoWriteStatus(a) \in RowStatus
    BY DEF NoWriteStatus
  <2> QED BY <1>7, <2>1 DEF FinalizeNoWrite
<1>8. CASE FinalHeadCheck(a)
  BY <1>8 DEF FinalHeadCheck
<1>9. CASE MarkStale(a)
  BY <1>9 DEF MarkStale
<1>10. CASE SendReview(a)
  BY <1>10 DEF SendReview
<1>11. CASE ReceiveResponse(a)
  BY <1>11 DEF ReceiveResponse
<1>12. CASE WriteRejected(a)
  BY <1>12 DEF WriteRejected
<1>13. CASE ResponseLost(a)
  BY <1>13 DEF ResponseLost
<1>14. CASE MarkPublished(a)
  BY <1>14 DEF MarkPublished
<1>15. CASE Fail(a)
  <2>1. Head(errors[a]) \in PublicationFailureClass
    BY <1>15 DEF Fail, PublicationFailureClass
  <2> QED BY <1>15, <2>1 DEF Fail
<1>16. CASE TaskReturns(a)
  BY <1>16 DEF TaskReturns
<1> QED
  BY <1>1, <1>2, <1>3, <1>4, <1>5, <1>6, <1>7, <1>8, <1>9, <1>10, <1>11, <1>12,
     <1>13, <1>14, <1>15, <1>16 DEF AttemptStep

LEMMA TypeInvNext == TypeInv /\ [Next]_vars => TypeInv'
<1> SUFFICES ASSUME TypeInv, [Next]_vars PROVE TypeInv'
  OBVIOUS
<1> USE DEF rowVars, githubVars, attemptVars
<1>1. CASE \E a \in Attempt, m \in Mode : GetOrCreateAttempt(a, m)
  BY <1>1, GetOrCreateTypeInv
<1>2. CASE \E a \in Attempt : AttemptStep(a)
  BY <1>2, AttemptStepTypeInv
<1>3. CASE \E a \in Attempt : Crash(a)
  BY <1>3 DEF Crash, TypeInv, TypeOK, ErrorsOK, Location
<1>4. CASE \E p \in Pub : GitHubStep(p)
  BY <1>4 DEF GitHubStep, ReviewLands, RequestLost, TypeInv, TypeOK, ErrorsOK
<1>5. CASE \E p \in Pub : GracePasses(p)
  BY <1>5 DEF GracePasses, TypeInv, TypeOK, ErrorsOK
<1>6. CASE \E h \in Commit : Push(h)
  BY <1>6 DEF Push, TypeInv, TypeOK, ErrorsOK
<1>7. CASE UNCHANGED vars
  BY <1>7 DEF vars, TypeInv, TypeOK, ErrorsOK
<1> QED BY <1>1, <1>2, <1>3, <1>4, <1>5, <1>6, <1>7 DEF Next

(* PublicationTypeCorrect: every variable stays in its type, and the task  *)
(* reads result.errors only where _fail has written them.                  *)
THEOREM PublicationTypeCorrect == Spec => [](TypeOK /\ ErrorsOK)
<1>1. Spec => []TypeInv
  BY TypeInvInit, TypeInvNext, PTL DEF Spec
<1> QED BY <1>1, PTL DEF TypeInv

-----------------------------------------------------------------------------
(***************************************************************************)
(* At most one review, when attempts are prompt and answered.  A row that  *)
(* leaves PUBLISHING without a review must not get one later: its creator  *)
(* is gone before the row expires, its request with it, and the marker     *)
(* scan sees every review that landed.  Ownership says so; NoOrphanReview  *)
(* and OneLiveRow then leave room for one review only.                     *)
(***************************************************************************)
Inv == TypeInv /\ Ownership /\ NoOrphanReview /\ OneLiveRow

LEMMA InvInit == Init => Inv
<1> SUFFICES ASSUME Init PROVE Ownership /\ NoOrphanReview /\ OneLiveRow
  BY TypeInvInit DEF Inv
<1> QED
  BY DEF Init, Ownership, NoOrphanReview, OneLiveRow, Live, Written, Working, Reconciling

LEMMA GetOrCreateInv ==
  ASSUME Inv, NEW a \in Attempt, NEW m \in Mode, GetOrCreateAttempt(a, m)
  PROVE  Ownership' /\ NoOrphanReview' /\ OneLiveRow'
<1> USE PublicationAssumption
    DEF Inv, TypeInv, TypeOK, Ownership, NoOrphanReview, OneLiveRow, Live, Written, Rows,
        Working, Reconciling, AllModes, GetOrCreateAttempt, githubVars
<1>1. CASE AlreadyPublished(a, m)
  BY <1>1 DEF AlreadyPublished
<1>2. CASE InProgressElsewhere(a, m)
  BY <1>2 DEF InProgressElsewhere
<1>3. CASE ReconcileNeeded(a, m)
  BY <1>3 DEF ReconcileNeeded
<1>4. CASE Create(a, m)
  BY <1>4 DEF Create
<1> QED BY <1>1, <1>2, <1>3, <1>4

LEMMA AttemptStepInv ==
  ASSUME PromptAndAnswered, Inv, NEW a \in Attempt, AttemptStep(a)
  PROVE  Ownership' /\ NoOrphanReview' /\ OneLiveRow'
<1> USE PublicationAssumption
    DEF PromptAndAnswered, Inv, TypeInv, TypeOK, Ownership, NoOrphanReview, OneLiveRow,
        Live, Written, Working, Reconciling, AllModes, rowVars, githubVars
<1>1. CASE ScanForMarker(a)
  BY <1>1 DEF ScanForMarker
<1>2. CASE ScanFails(a)
  BY <1>2 DEF ScanFails
<1>3. CASE SupersedeAbandoned(a)
  BY <1>3 DEF SupersedeAbandoned
<1>4. CASE BuildPlan(a)
  BY <1>4 DEF BuildPlan
<1>5. CASE ReadFails(a)
  BY <1>5 DEF ReadFails
<1>6. CASE PersistPlanComments(a)
  BY <1>6 DEF PersistPlanComments, WritesNothing
<1>7. CASE FinalizeNoWrite(a)
  <2>1. NoWriteStatus(a) \notin {"absent", "publishing", "published"}
    BY <1>7 DEF FinalizeNoWrite, NoWriteStatus
  <2> QED BY <1>7, <2>1 DEF FinalizeNoWrite
<1>8. CASE FinalHeadCheck(a)
  BY <1>8 DEF FinalHeadCheck
<1>9. CASE MarkStale(a)
  BY <1>9 DEF MarkStale
<1>10. CASE SendReview(a)
  BY <1>10 DEF SendReview
<1>11. CASE ReceiveResponse(a)
  BY <1>11 DEF ReceiveResponse
<1>12. CASE WriteRejected(a)
  BY <1>12 DEF WriteRejected
<1>13. CASE ResponseLost(a)
  BY <1>13 DEF ResponseLost, Prompt
<1>14. CASE MarkPublished(a)
  BY <1>14 DEF MarkPublished, Rows
<1>15. CASE Fail(a)
  BY <1>15 DEF Fail
<1>16. CASE TaskReturns(a)
  BY <1>16 DEF TaskReturns
<1> QED
  BY <1>1, <1>2, <1>3, <1>4, <1>5, <1>6, <1>7, <1>8, <1>9, <1>10, <1>11, <1>12,
     <1>13, <1>14, <1>15, <1>16 DEF AttemptStep

LEMMA EnvironmentInv ==
  ASSUME PromptAndAnswered, Inv,
         \/ \E a \in Attempt : Crash(a)
         \/ \E p \in Pub : GitHubStep(p) \/ GracePasses(p)
         \/ \E h \in Commit : Push(h)
         \/ UNCHANGED vars
  PROVE  Ownership' /\ NoOrphanReview' /\ OneLiveRow'
<1> USE PublicationAssumption
    DEF Inv, TypeInv, TypeOK, Ownership, NoOrphanReview, OneLiveRow,
        Live, Written, Working, Reconciling, rowVars, githubVars, attemptVars
<1>1. CASE \E a \in Attempt : Crash(a)
  BY <1>1 DEF Crash
<1>2. CASE \E p \in Pub : ReviewLands(p)
  BY <1>2 DEF ReviewLands
<1>3. CASE \E p \in Pub : RequestLost(p)
  BY <1>3 DEF RequestLost
<1>4. CASE \E p \in Pub : GracePasses(p)
  BY <1>4 DEF GracePasses, PromptAndAnswered, Prompt
<1>5. CASE \E h \in Commit : Push(h)
  BY <1>5 DEF Push
<1>6. CASE UNCHANGED vars
  BY <1>6 DEF vars
<1> QED BY <1>1, <1>2, <1>3, <1>4, <1>5, <1>6 DEF GitHubStep

LEMMA InvNext ==
  ASSUME PromptAndAnswered
  PROVE  Inv /\ [Next]_vars => Inv'
<1> SUFFICES ASSUME Inv, [Next]_vars PROVE Inv'
  OBVIOUS
<1>1. TypeInv'
  BY TypeInvNext DEF Inv
<1>2. Ownership' /\ NoOrphanReview' /\ OneLiveRow'
  BY GetOrCreateInv, AttemptStepInv, EnvironmentInv DEF Next
<1> QED BY <1>1, <1>2 DEF Inv

LEMMA InvAlways ==
  ASSUME PromptAndAnswered
  PROVE  Spec => []Inv
<1>1. Init => Inv
  BY InvInit
<1>2. Inv /\ [Next]_vars => Inv'
  BY InvNext
<1> QED BY <1>1, <1>2, PTL DEF Spec

(* NoOrphanReviewHolds: a review on GitHub always belongs to a row that    *)
(* the next attempt will find, PUBLISHED or PUBLISHING, whatever crashes.  *)
THEOREM NoOrphanReviewHolds ==
  ASSUME PromptAndAnswered
  PROVE  Spec => []NoOrphanReview
<1>1. Inv => NoOrphanReview
  BY DEF Inv
<1> QED BY <1>1, InvAlways, PTL

LEMMA InvAtMostOneReview == Inv => AtMostOneReview
  BY DEF Inv, TypeInv, TypeOK, Ownership, NoOrphanReview, OneLiveRow, Live, Written,
         AtMostOneReview

(* AtMostOneReviewHolds: no number of concurrent, crashed or repeated      *)
(* attempts leaves two reviews of one run on the pull request.             *)
THEOREM AtMostOneReviewHolds ==
  ASSUME PromptAndAnswered
  PROVE  Spec => []AtMostOneReview
BY InvAtMostOneReview, InvAlways, PTL

-----------------------------------------------------------------------------
(***************************************************************************)
(* What holds with slow attempts and lost answers too.                     *)
(***************************************************************************)
FaultyInv ==
    /\ OneCanonicalRow
    /\ PublishedIsBacked
    /\ WrittenAsPlanned
    /\ \A p \in Written : status[p] # "absent"
    /\ \A a \in Attempt : pc[a] # "idle" => status[cur[a]] # "absent"
    /\ \A a \in Attempt :
         pc[a] \in {"check", "mark_stale", "send", "await", "mark"}
           => mode[cur[a]] = "publish" /\ cur[a] \in commented
    /\ \A a \in Attempt : pc[a] \in {"mark", "adopt"} => cur[a] \in posted

LEMMA GetOrCreateFaultyInv ==
  ASSUME TypeInv, FaultyInv, NEW a \in Attempt, NEW m \in Mode, GetOrCreateAttempt(a, m)
  PROVE  FaultyInv'
<1> USE PublicationAssumption
    DEF TypeInv, TypeOK, FaultyInv, OneCanonicalRow, PublishedIsBacked, WrittenAsPlanned,
        Written, Rows, Working, Reconciling, AllModes, GetOrCreateAttempt, githubVars
<1>1. CASE AlreadyPublished(a, m)
  BY <1>1 DEF AlreadyPublished
<1>2. CASE InProgressElsewhere(a, m)
  BY <1>2 DEF InProgressElsewhere
<1>3. CASE ReconcileNeeded(a, m)
  BY <1>3 DEF ReconcileNeeded
<1>4. CASE Create(a, m)
  BY <1>4 DEF Create
<1> QED BY <1>1, <1>2, <1>3, <1>4

LEMMA AttemptStepFaultyInv ==
  ASSUME TypeInv, FaultyInv, NEW a \in Attempt, AttemptStep(a)
  PROVE  FaultyInv'
<1> USE PublicationAssumption
    DEF TypeInv, TypeOK, FaultyInv, OneCanonicalRow, PublishedIsBacked, WrittenAsPlanned,
        Written, Rows, Working, Reconciling, AllModes, rowVars, githubVars
<1>1. CASE ScanForMarker(a)
  BY <1>1 DEF ScanForMarker
<1>2. CASE ScanFails(a)
  BY <1>2 DEF ScanFails
<1>3. CASE SupersedeAbandoned(a)
  BY <1>3 DEF SupersedeAbandoned
<1>4. CASE BuildPlan(a)
  BY <1>4 DEF BuildPlan
<1>5. CASE ReadFails(a)
  BY <1>5 DEF ReadFails
<1>6. CASE PersistPlanComments(a)
  BY <1>6 DEF PersistPlanComments, WritesNothing
<1>7. CASE FinalizeNoWrite(a)
  <2>1. NoWriteStatus(a) \notin {"absent", "publishing", "published"}
    BY <1>7 DEF FinalizeNoWrite, NoWriteStatus
  <2> QED BY <1>7, <2>1 DEF FinalizeNoWrite
<1>8. CASE FinalHeadCheck(a)
  BY <1>8 DEF FinalHeadCheck
<1>9. CASE MarkStale(a)
  BY <1>9 DEF MarkStale
<1>10. CASE SendReview(a)
  BY <1>10 DEF SendReview
<1>11. CASE ReceiveResponse(a)
  BY <1>11 DEF ReceiveResponse
<1>12. CASE WriteRejected(a)
  BY <1>12 DEF WriteRejected
<1>13. CASE ResponseLost(a)
  BY <1>13 DEF ResponseLost
<1>14. CASE MarkPublished(a)
  BY <1>14 DEF MarkPublished
<1>15. CASE Fail(a)
  BY <1>15 DEF Fail
<1>16. CASE TaskReturns(a)
  BY <1>16 DEF TaskReturns
<1> QED
  BY <1>1, <1>2, <1>3, <1>4, <1>5, <1>6, <1>7, <1>8, <1>9, <1>10, <1>11, <1>12,
     <1>13, <1>14, <1>15, <1>16 DEF AttemptStep

LEMMA FaultyInvNext == TypeInv /\ FaultyInv /\ [Next]_vars => FaultyInv'
<1> SUFFICES ASSUME TypeInv, FaultyInv, [Next]_vars PROVE FaultyInv'
  OBVIOUS
<1> USE DEF TypeInv, TypeOK, FaultyInv, OneCanonicalRow, PublishedIsBacked,
            WrittenAsPlanned, Written, Rows, rowVars, githubVars, attemptVars
<1>1. CASE \E a \in Attempt, m \in Mode : GetOrCreateAttempt(a, m)
  BY <1>1, GetOrCreateFaultyInv
<1>2. CASE \E a \in Attempt : AttemptStep(a)
  BY <1>2, AttemptStepFaultyInv
<1>3. CASE \E a \in Attempt : Crash(a)
  BY <1>3 DEF Crash
<1>4. CASE \E p \in Pub : GitHubStep(p)
  BY <1>4 DEF GitHubStep, ReviewLands, RequestLost
<1>5. CASE \E p \in Pub : GracePasses(p)
  BY <1>5 DEF GracePasses
<1>6. CASE \E h \in Commit : Push(h)
  BY <1>6 DEF Push
<1>7. CASE UNCHANGED vars
  BY <1>7 DEF vars
<1> QED BY <1>1, <1>2, <1>3, <1>4, <1>5, <1>6, <1>7 DEF Next

LEMMA FaultyInvAlways == Spec => [](TypeInv /\ FaultyInv)
<1>1. Init => FaultyInv
  BY DEF Init, FaultyInv, OneCanonicalRow, PublishedIsBacked, WrittenAsPlanned, Written, Rows
<1> QED BY <1>1, TypeInvInit, TypeInvNext, FaultyInvNext, PTL DEF Spec

(* OneCanonicalRowHolds: the re-check of mark_published under the lock is  *)
(* enough to keep the partial unique index from ever being hit.            *)
THEOREM OneCanonicalRowHolds == Spec => []OneCanonicalRow
<1>1. FaultyInv => OneCanonicalRow
  BY DEF FaultyInv
<1> QED BY <1>1, FaultyInvAlways, PTL

(* PublishedIsBackedHolds: no fault makes PUBLISHED a lie.                 *)
THEOREM PublishedIsBackedHolds == Spec => []PublishedIsBacked
<1>1. FaultyInv => PublishedIsBacked
  BY DEF FaultyInv
<1> QED BY <1>1, FaultyInvAlways, PTL

(* WrittenAsPlannedHolds: no review goes out for a dry run, or before its  *)
(* comment rows are durable.                                               *)
THEOREM WrittenAsPlannedHolds == Spec => []WrittenAsPlanned
<1>1. FaultyInv => WrittenAsPlanned
  BY DEF FaultyInv
<1> QED BY <1>1, FaultyInvAlways, PTL

-----------------------------------------------------------------------------
(* The rows and the reviews implement PublishOnce.                         *)
Recorded == \E p \in Pub : status[p] = "published"

LEMMA POStep ==
  ASSUME PromptAndAnswered, Inv, FaultyInv, [Next]_vars
  PROVE  [PO!Next]_<<posted, Recorded>>
<1> USE PublicationAssumption
    DEF Inv, TypeInv, TypeOK, Ownership, NoOrphanReview, OneLiveRow, Live, Written,
        FaultyInv, PublishedIsBacked, Recorded, Working, Reconciling, AllModes,
        PO!Next, PO!Post, PO!Record, rowVars, githubVars, attemptVars
<1>1. CASE \E p \in Pub : ReviewLands(p)
  <2>1. PICK p \in Pub : ReviewLands(p)
    BY <1>1
  <2>2. posted = {} /\ posted' = {p} /\ Recorded' = Recorded
    BY <2>1 DEF ReviewLands
  <2> QED BY <2>2
<1>2. CASE \E a \in Attempt : MarkPublished(a)
  <2>1. PICK a \in Attempt : MarkPublished(a)
    BY <1>2
  <2>2. posted' = posted /\ posted # {}
    BY <2>1 DEF MarkPublished
  <2>3. Recorded'
    BY <2>1 DEF MarkPublished, Rows
  <2> QED BY <2>2, <2>3
<1>3. ASSUME NEW a \in Attempt, AttemptStep(a), ~MarkPublished(a)
      PROVE  posted' = posted /\ Recorded' = Recorded
  <2>1. CASE SupersedeAbandoned(a)
    BY <2>1 DEF SupersedeAbandoned
  <2>2. CASE FinalizeNoWrite(a)
    <3>1. NoWriteStatus(a) # "published"
      BY <2>2 DEF FinalizeNoWrite, NoWriteStatus
    <3> QED BY <2>2, <3>1 DEF FinalizeNoWrite
  <2>3. CASE MarkStale(a)
    BY <2>3 DEF MarkStale
  <2>4. CASE Fail(a)
    BY <2>4 DEF Fail
  <2>5. CASE \/ ScanForMarker(a) \/ ScanFails(a) \/ BuildPlan(a) \/ ReadFails(a)
             \/ PersistPlanComments(a) \/ FinalHeadCheck(a) \/ SendReview(a)
             \/ ReceiveResponse(a) \/ WriteRejected(a) \/ ResponseLost(a) \/ TaskReturns(a)
    BY <2>5 DEF ScanForMarker, ScanFails, BuildPlan, ReadFails, PersistPlanComments,
      FinalHeadCheck, SendReview, ReceiveResponse, WriteRejected, ResponseLost, TaskReturns
  <2> QED BY <1>3, <2>1, <2>2, <2>3, <2>4, <2>5 DEF AttemptStep
<1>4. ASSUME NEW a \in Attempt, NEW m \in Mode, GetOrCreateAttempt(a, m)
      PROVE  posted' = posted /\ Recorded' = Recorded
  BY <1>4 DEF GetOrCreateAttempt, AlreadyPublished, InProgressElsewhere, ReconcileNeeded,
    Create
<1>5. ASSUME \/ \E a \in Attempt : Crash(a)
             \/ \E p \in Pub : RequestLost(p) \/ GracePasses(p)
             \/ \E h \in Commit : Push(h)
             \/ UNCHANGED vars
      PROVE  posted' = posted /\ Recorded' = Recorded
  BY <1>5 DEF Crash, RequestLost, GracePasses, Push, vars
<1> QED BY <1>1, <1>2, <1>3, <1>4, <1>5 DEF Next, GitHubStep

(* PublicationImplementsPublishOnce: prompt and answered attempts, however *)
(* many and however often killed, show the pull request and the database   *)
(* no more than PublishOnce does.                                          *)
THEOREM PublicationImplementsPublishOnce ==
  ASSUME PromptAndAnswered
  PROVE  Spec => ImplementsPublishOnce
<1>1. Init => PO!Init
  BY DEF Init, PO!Init
<1>2. Inv /\ FaultyInv /\ [Next]_vars => [PO!Next]_<<posted, Recorded>>
  BY POStep
<1>3. Spec => [][PO!Next]_<<posted, Recorded>>
  BY <1>2, InvAlways, FaultyInvAlways, PTL DEF Spec
<1> QED BY <1>1, <1>3, PTL DEF Spec, ImplementsPublishOnce, PO!Spec, Recorded

-----------------------------------------------------------------------------
(* What is decided about a finding before the plan is published.           *)

(* The scales of findings as numbers.                                      *)
LEMMA ConfidenceRanks ==
  /\ ConfidenceRank("low") = 0 /\ ConfidenceRank("medium") = 1 /\ ConfidenceRank("high") = 2
  /\ SeverityRank("info") = 0 /\ SeverityRank("low") = 1 /\ SeverityRank("medium") = 2
  /\ SeverityRank("high") = 3 /\ SeverityRank("critical") = 4
BY DEF ConfidenceRank, SeverityRank

(* SkippedNeverPublishes: a finding that the critic is spared because even *)
(* its best case would be too unsure is not published on any verdict that  *)
(* does not raise it: not accepted, not downgraded in severity alone, and  *)
(* not downgraded to a confidence within its best case (should_critique    *)
(* against aggregate).                                                     *)
THEOREM SkippedNeverPublishes ==
  ASSUME NEW f, NEW verdict, NEW minimum \in Confidence,
         f.confidence \in Confidence, f.static \in BOOLEAN,
         verdict.confidence \in Confidence \cup {"none"}
  PROVE  SkippedCouldNotPublish(f, verdict, minimum)
<1> SUFFICES ASSUME BestCase(f) < ConfidenceRank(minimum),
                    MeetsMinimum(Aggregate(f, verdict).confidence, minimum)
    PROVE  /\ verdict.decision = "downgrade" /\ verdict.confidence # "none"
           /\ ConfidenceRank(verdict.confidence) > BestCase(f)
  BY DEF SkippedCouldNotPublish
<1>1. CASE verdict.decision = "downgrade" /\ verdict.confidence # "none"
  <2>1. Aggregate(f, verdict).confidence = verdict.confidence
    BY <1>1 DEF Aggregate
  <2>2. /\ ConfidenceRank(verdict.confidence) \in 0..2 /\ ConfidenceRank(minimum) \in 0..2
        /\ BestCase(f) \in 0..2
    BY <1>1, ConfidenceRanks DEF BestCase, Confidence
  <2> QED BY <1>1, <2>1, <2>2 DEF MeetsMinimum
<1>2. CASE ~(verdict.decision = "downgrade" /\ verdict.confidence # "none")
  BY <1>2, ConfidenceRanks DEF BestCase, MeetsMinimum, Aggregate, Confidence
<1> QED BY <1>1, <1>2

(* GraverIsNotSpared: of two findings in one place, of which one is graver *)
(* or less sure or has less to corroborate it, the critic is asked about   *)
(* that one whenever it is asked about the other, for any neighbours and   *)
(* either reading of the rule, unless even its best case could not be      *)
(* published.                                                              *)
THEOREM GraverIsNotSpared ==
  ASSUME NEW f, NEW worse, NEW peers, NEW minimum \in Confidence, NEW relaxed \in BOOLEAN,
         f.confidence \in Confidence, f.static \in BOOLEAN, f.severity \in Severity,
         worse.confidence \in Confidence, worse.static \in BOOLEAN, worse.severity \in Severity,
         SeverityRank(f.severity) <= SeverityRank(worse.severity),
         ConfidenceRank(worse.confidence) <= ConfidenceRank(f.confidence),
         worse.static => f.static, worse.category \in {f.category, "security"},
         worse.file = f.file, worse.start = f.start, worse.end = f.end
  PROVE  CriticIsMonotone(f, worse, peers, minimum, relaxed)
<1>1. f.severity \in {"high", "critical"} => worse.severity \in {"high", "critical"}
  BY ConfidenceRanks DEF Severity
<1>2. f.confidence # "high" => worse.confidence # "high"
  BY ConfidenceRanks DEF Confidence
<1>3. Serious(f) => Serious(worse)
  BY <1>1 DEF Serious
<1>4. \A p : Overlap(f, p) = Overlap(worse, p)
  BY DEF Overlap
<1> QED BY <1>2, <1>3, <1>4 DEF CriticIsMonotone, ShouldCritique

(* CommentsStandOnTheDiff: for any finding and any diff, a comment is      *)
(* placed on lines that one hunk shows and that belong to the finding, and *)
(* a finding whose first or last line is shown gets one.                   *)
THEOREM CommentsStandOnTheDiff ==
  ASSUME NEW f, NEW diff, f.start \in Nat, f.end \in Nat, f.start <= f.end, f.start > 0
  PROVE  PositionIsShown(f, diff)
<1> USE DEF NoPosition, HunksOf
<1> DEFINE shown(n) == \E h \in DOMAIN diff.hunks : n \in diff.hunks[h]
           whole == \E h \in DOMAIN diff.hunks : f.start..f.end \subseteq diff.hunks[h]
           p == Position(f, diff)
<1>1. \A n : (HunksOf(diff, n) # {}) <=> shown(n) OBVIOUS
<1>2. p = IF diff.status \in {"absent", "removed"} \/ ~diff.patch THEN NoPosition
          ELSE IF f.start # f.end /\ whole THEN [start |-> f.start, line |-> f.end]
          ELSE IF shown(f.end) THEN [start |-> f.end, line |-> f.end]
          ELSE IF shown(f.start) THEN [start |-> f.start, line |-> f.start]
          ELSE NoPosition
  BY <1>1 DEF Position
<1> HIDE DEF p
<1>3. p # NoPosition =>
        /\ \E h \in DOMAIN diff.hunks : p.start..p.line \subseteq diff.hunks[h]
        /\ p.start \in f.start..f.end /\ p.line \in f.start..f.end
  <2>1. CASE p = [start |-> f.start, line |-> f.end] /\ whole BY <2>1
  <2>2. \A n \in Nat : n..n = {n} OBVIOUS
  <2>3. CASE p = [start |-> f.end, line |-> f.end] /\ shown(f.end) BY <2>2, <2>3
  <2>4. CASE p = [start |-> f.start, line |-> f.start] /\ shown(f.start) BY <2>2, <2>4
  <2> QED BY <1>2, <2>1, <2>3, <2>4
<1>4. (p = NoPosition /\ diff.status = "modified" /\ diff.patch) => ~shown(f.start) /\ ~shown(f.end)
  BY <1>2
<1> QED BY <1>1, <1>3, <1>4 DEF PositionIsShown, p

-----------------------------------------------------------------------------
(* What effort a candidate of a run is worth.                              *)

(* A part of a finite set is no larger.                                    *)
LEMMA FewerOf ==
  ASSUME NEW A, NEW B, IsFiniteSet(B), A \subseteq B
  PROVE  Cardinality(A) \in Nat /\ Cardinality(B) \in Nat /\ Cardinality(A) <= Cardinality(B)
BY FS_Subset, FS_CardinalityType

(* more has the signals of c, and perhaps others.                          *)
AsManySignals(c, more) ==
  /\ c.static \subseteq more.static /\ c.cross \subseteq more.cross /\ IsFiniteSet(more.cross)
  /\ (c.sensitive => more.sensitive) /\ (c.large => more.large) /\ (c.many => more.many)

(* With more facts there are more signals, and finitely many.              *)
LEMMA SignalsGrow ==
  ASSUME NEW c, NEW more, AsManySignals(c, more)
  PROVE  Signals(c) \subseteq Signals(more) /\ IsFiniteSet(Signals(more))
<1> DEFINE own == {"static", "severity", "security", "category", "large", "many"}
<1>1. Signals(c) \subseteq Signals(more)
  BY DEF AsManySignals, Signals, SecurityIsRealSignal
<1>2. IsFiniteSet(own)
  <2> DEFINE A1 == {"static"}  A2 == A1 \cup {"severity"}  A3 == A2 \cup {"security"}
             A4 == A3 \cup {"category"}  A5 == A4 \cup {"large"}  A6 == A5 \cup {"many"}
  <2>1. IsFiniteSet(A1) BY FS_Singleton
  <2> HIDE DEF A1
  <2>2. IsFiniteSet(A2) BY <2>1, FS_AddElement
  <2> HIDE DEF A2
  <2>3. IsFiniteSet(A3) BY <2>2, FS_AddElement
  <2> HIDE DEF A3
  <2>4. IsFiniteSet(A4) BY <2>3, FS_AddElement
  <2> HIDE DEF A4
  <2>5. IsFiniteSet(A5) BY <2>4, FS_AddElement
  <2> HIDE DEF A5
  <2>6. IsFiniteSet(A6) BY <2>5, FS_AddElement
  <2> QED BY <2>6 DEF A6, A5, A4, A3, A2, A1
<1>3. Signals(more) \subseteq own \cup more.cross
  BY DEF Signals
<1>4. IsFiniteSet(own \cup more.cross)
  BY <1>2, FS_Union DEF AsManySignals
<1> QED BY <1>1, <1>3, <1>4, FS_Subset

(* The tiers of effort in their order.                                     *)
TierNumber(t) == CASE t = "light" -> 0 [] t = "standard" -> 1 [] t = "deep" -> 2
Effortful == {"light", "standard", "deep"}

LEMMA TierNumbers == TierNumber("light") = 0 /\ TierNumber("standard") = 1 /\ TierNumber("deep") = 2
BY DEF TierNumber
LEMMA CriticRanks == CriticRank("optional") = 0 /\ CriticRank("selective") = 1 /\ CriticRank("mandatory") = 2
BY DEF CriticRank

(* With more facts the tier is no lower.                                   *)
LEMMA TierGrows ==
  ASSUME NEW c, NEW more, AsManySignals(c, more)
  PROVE  /\ Tier(c) \in Effortful /\ Tier(more) \in Effortful
         /\ TierNumber(Tier(c)) <= TierNumber(Tier(more))
<1>1. Signals(c) \subseteq Signals(more) /\ IsFiniteSet(Signals(more))
  BY SignalsGrow
<1>2. /\ Cardinality(Signals(c)) \in Nat /\ Cardinality(Signals(more)) \in Nat
      /\ Cardinality(Signals(c)) <= Cardinality(Signals(more))
  BY <1>1, FewerOf
<1>3. Cardinality(Signals(c)) >= 2 => Cardinality(Signals(more)) >= 2
  BY <1>2
<1>4. Cardinality(Signals(c)) >= 2 => Signals(c) # {}
  BY FS_EmptySet
<1> QED BY <1>1, <1>3, TierNumbers DEF Tier, Effortful

(* What a tier buys, whoever is asked and whatever the critic does.        *)
Buys(e, tier, n) ==
  /\ tier = "light" => /\ e.context = 4 /\ e.adaptive = FALSE
                       /\ e.retries = (IF n < 1 THEN n ELSE 1) /\ e.output = 2
  /\ tier = "standard" => /\ e.context = 8 /\ e.adaptive = TRUE
                          /\ e.retries = n /\ e.output = 3
  /\ tier = "deep" => /\ e.context = 8 /\ e.adaptive = TRUE
                      /\ e.retries = n /\ e.output = 4
CriticOf(tier) == IF tier = "light" THEN "optional" ELSE IF tier = "standard" THEN "selective" ELSE "mandatory"

LEMMA EffortIs ==
  ASSUME NEW tier \in Effortful, NEW roles, NEW n \in Nat
  PROVE  /\ Effort(tier, roles, n).tier = tier /\ Effort(tier, roles, n).roles = roles
         /\ Buys(Effort(tier, roles, n), tier, n) /\ Effort(tier, roles, n).critic = CriticOf(tier)
<1> DEFINE s == Semantics(tier, n)
           e == Effort(tier, roles, n)
<1>1. e = [tier |-> tier, roles |-> roles, context |-> s.context, adaptive |-> s.adaptive,
           critic |-> s.critic, retries |-> s.retries, output |-> s.output]
  BY DEF Effort
<1>2. /\ tier = "light" => s = [context |-> 4, adaptive |-> FALSE, critic |-> "optional",
                                retries |-> IF n < 1 THEN n ELSE 1, output |-> 2]
      /\ tier = "standard" => s = [context |-> 8, adaptive |-> TRUE, critic |-> "selective", retries |-> n, output |-> 3]
      /\ tier = "deep" => s = [context |-> 8, adaptive |-> TRUE, critic |-> "mandatory", retries |-> n, output |-> 4]
  BY DEF Semantics
<1> HIDE DEF s, e
<1>3. /\ e.tier = tier /\ e.roles = roles /\ e.context = s.context /\ e.adaptive = s.adaptive
      /\ e.critic = s.critic /\ e.retries = s.retries /\ e.output = s.output
  BY <1>1
<1>4. Buys(e, tier, n)
  BY <1>2, <1>3 DEF Buys
<1>5. e.critic = CriticOf(tier)
  BY <1>2, <1>3 DEF CriticOf, Effortful
<1> QED BY <1>3, <1>4, <1>5 DEF e

(* What a candidate gets before its review. *)
LEMMA ProvisionalIs ==
  ASSUME NEW c, NEW n \in Nat, Tier(c) \in Effortful
  PROVE  /\ Provisional(c, n).tier = Tier(c)
         /\ Provisional(c, n).roles = (IF Tier(c) = "light" THEN {"correctness"} ELSE AllRoles)
         /\ Buys(Provisional(c, n), Tier(c), n)
         /\ Provisional(c, n).critic = (IF c.cross # {} THEN "mandatory" ELSE CriticOf(Tier(c)))
<1> DEFINE roles == IF Tier(c) = "light" THEN {"correctness"} ELSE AllRoles
           s == Semantics(Tier(c), n)
           effort == Effort(Tier(c), roles, n)
           e == Provisional(c, n)
<1>1. e = IF c.cross # {} THEN [effort EXCEPT !.critic = "mandatory"] ELSE effort
  BY DEF Provisional
<1>2. effort = [tier |-> Tier(c), roles |-> roles, context |-> s.context, adaptive |-> s.adaptive,
                critic |-> s.critic, retries |-> s.retries, output |-> s.output]
  BY DEF Effort
<1>3. effort.tier = Tier(c) /\ effort.roles = roles /\ Buys(effort, Tier(c), n) /\ effort.critic = CriticOf(Tier(c))
  <2> HIDE DEF roles
  <2> QED BY EffortIs DEF effort
<1> HIDE DEF effort, e, s
<1>4. /\ e.tier = effort.tier /\ e.roles = effort.roles /\ e.context = effort.context
      /\ e.adaptive = effort.adaptive /\ e.retries = effort.retries /\ e.output = effort.output
      /\ e.critic = IF c.cross # {} THEN "mandatory" ELSE effort.critic
  <2>1. CASE c.cross # {}
    BY <1>1, <1>2, <2>1
  <2>2. CASE c.cross = {}
    BY <1>1, <2>2
  <2> QED BY <2>1, <2>2
<1>5. Buys(e, Tier(c), n)
  BY <1>3, <1>4 DEF Buys
<1> QED BY <1>3, <1>4, <1>5 DEF e

(* No less is bought by a higher tier, more roles and a stricter critic.   *)
LEMMA NoLess ==
  ASSUME NEW x, NEW y, NEW t \in Effortful, NEW u \in Effortful, NEW n \in Nat,
         TierNumber(t) <= TierNumber(u), Buys(x, t, n), Buys(y, u, n),
         x.roles \subseteq y.roles, CriticRank(x.critic) <= CriticRank(y.critic)
  PROVE  NoLessEffort(x, y)
<1>1. CASE t = "light" /\ u = "light"
  BY <1>1 DEF Buys, NoLessEffort
<1>2. CASE t = "light" /\ u \in {"standard", "deep"}
  BY <1>2 DEF Buys, NoLessEffort
<1>3. CASE t = "standard" /\ u \in {"standard", "deep"}
  BY <1>3 DEF Buys, NoLessEffort
<1>4. CASE t = "deep" /\ u = "deep"
  BY <1>4 DEF Buys, NoLessEffort
<1> QED BY <1>1, <1>2, <1>3, <1>4, TierNumbers DEF Effortful

(* A higher tier has the stricter critic.                                  *)
LEMMA CriticFollowsTier == \A t \in Effortful : CriticRank(CriticOf(t)) = TierNumber(t) /\ TierNumber(t) \in 0..2
BY TierNumbers, CriticRanks DEF Effortful, CriticOf

(* MoreSignalsBuyMore: whatever is known of a candidate, knowing more never*)
(* buys it less effort, neither before its review nor after the escalations*)
(* that follow it; and a real signal of security gets it the security role *)
(* (ReviewEffortPolicy).                                                   *)
THEOREM MoreSignalsBuyMore ==
  ASSUME NEW c, NEW more, AsManySignals(c, more), NEW grew \in BOOLEAN, NEW risky \in BOOLEAN, NEW n \in Nat
  PROVE  MoreSignalsMoreEffort(c, more, grew, risky, n)
<1> DEFINE e == Provisional(c, n)
           m == Provisional(more, n)
           after(x) == Escalated(Escalated(x, grew /\ x.adaptive, n), risky, n)
           t == Tier(c)
           u == Tier(more)
           re == IF t = "light" THEN {"correctness"} ELSE AllRoles
           rm == IF u = "light" THEN {"correctness"} ELSE AllRoles
           deep(roles) == Effort("deep", roles, n)
<1>1. t \in Effortful /\ u \in Effortful /\ TierNumber(t) <= TierNumber(u)
  BY TierGrows
<1>2. /\ e.tier = t /\ e.roles = re /\ Buys(e, t, n)
      /\ e.critic = (IF c.cross # {} THEN "mandatory" ELSE CriticOf(t))
  BY <1>1, ProvisionalIs
<1>3. /\ m.tier = u /\ m.roles = rm /\ Buys(m, u, n)
      /\ m.critic = (IF more.cross # {} THEN "mandatory" ELSE CriticOf(u))
  BY <1>1, ProvisionalIs
<1>4. \A roles : /\ deep(roles).tier = "deep" /\ deep(roles).roles = roles
                 /\ Buys(deep(roles), "deep", n) /\ deep(roles).critic = "mandatory"
  BY EffortIs DEF Effortful, CriticOf
<1>5. c.cross \subseteq more.cross
  BY DEF AsManySignals
<1>6. SecurityIsRealSignal(c) => t # "light"
  BY DEF Tier, Signals
<1>7. ASSUME NEW x, x.tier \in Effortful
      PROVE  after(x) = IF x.tier # "deep" /\ ((grew /\ x.adaptive) \/ risky) THEN deep(x.roles) ELSE x
  <2> HIDE DEF deep
  <2>1. \A y, reason : Escalated(y, reason, n) = IF ~reason \/ y.tier = "deep" THEN y ELSE deep(y.roles)
    BY DEF Escalated, deep
  <2> QED BY <1>4, <2>1
<1> HIDE DEF e, m, t, u, after, deep
<1>8. re \subseteq rm
  <2>1. t # "light" => u # "light"
    BY <1>1, TierNumbers DEF Effortful
  <2> QED BY <2>1 DEF AllRoles
<1>9. SecurityIsRealSignal(c) => "security" \in re
  BY <1>6 DEF AllRoles
<1> HIDE DEF re, rm
<1>10. /\ CriticRank(e.critic) \in 0..2 /\ CriticRank(m.critic) \in 0..2 /\ CriticRank("mandatory") = 2
       /\ CriticRank(e.critic) <= CriticRank(m.critic)
  <2>1. CASE more.cross = {}
    BY <1>1, <1>2, <1>3, <1>5, <2>1, CriticFollowsTier, CriticRanks
  <2>2. CASE more.cross # {}
    <3>1. CriticRank(e.critic) \in 0..2
      BY <1>1, <1>2, CriticFollowsTier, CriticRanks
    <3> QED BY <1>3, <2>2, <3>1, CriticRanks
  <2> QED BY <2>1, <2>2
<1>11. /\ TierNumber(t) <= TierNumber("deep") /\ TierNumber(u) <= TierNumber("deep") /\ "deep" \in Effortful
       /\ TierNumber("deep") <= TierNumber("deep")
  BY <1>1, TierNumbers DEF Effortful
<1>12. NoLessEffort(e, m)
  BY <1>1, <1>2, <1>3, <1>8, <1>10, NoLess
<1>13. NoLessEffort(e, e) /\ NoLessEffort(e, deep(re)) /\ NoLessEffort(e, deep(rm)) /\ NoLessEffort(deep(re), deep(rm))
  <2>1. NoLessEffort(e, e)
    <3>1. TierNumber(t) <= TierNumber(t) /\ CriticRank(e.critic) <= CriticRank(e.critic)
      BY <1>1, <1>10, CriticFollowsTier
    <3> QED BY <1>1, <1>2, <3>1, NoLess
  <2>2. NoLessEffort(e, deep(re)) /\ NoLessEffort(e, deep(rm))
    BY <1>1, <1>2, <1>4, <1>8, <1>10, <1>11, NoLess
  <2>3. NoLessEffort(deep(re), deep(rm))
    BY <1>4, <1>8, <1>10, <1>11, NoLess
  <2> QED BY <2>1, <2>2, <2>3
<1>14. after(e) \in {e, deep(re)} /\ after(m) \in {m, deep(rm)}
  BY <1>1, <1>2, <1>3, <1>7
<1>15. NoLessEffort(e, after(e))
  BY <1>13, <1>14
<1>16. NoLessEffort(after(e), after(m))
  <2>1. CASE after(e) = e
    BY <1>12, <1>13, <1>14, <2>1
  <2>2. CASE after(e) # e
    <3>1. after(e) = deep(re) /\ t # "deep" /\ ((grew /\ e.adaptive) \/ risky)
      BY <1>1, <1>2, <1>7, <2>2
    <3>2. grew /\ e.adaptive => u = "deep" \/ m.adaptive
      <4>1. e.adaptive => t # "light"
        BY <1>2 DEF Buys
      <4>2. t # "light" => u = "deep" \/ u = "standard"
        BY <1>1, TierNumbers DEF Effortful
      <4> QED BY <1>3, <4>1, <4>2 DEF Buys
    <3>3. CASE u = "deep"
      <4>1. after(m) = m
        BY <1>1, <1>3, <1>7, <3>3
      <4>2. m.critic = "mandatory"
        BY <1>3, <3>3 DEF CriticOf
      <4>3. NoLessEffort(deep(re), m)
        BY <1>3, <1>4, <1>8, <1>10, <1>11, <3>3, <4>2, NoLess
      <4> QED BY <3>1, <4>1, <4>3
    <3>4. CASE u # "deep"
      <4>1. after(m) = deep(rm)
        BY <1>1, <1>3, <1>7, <3>1, <3>2, <3>4
      <4> QED BY <1>13, <3>1, <4>1
    <3> QED BY <3>3, <3>4
  <2> QED BY <2>1, <2>2
<1>17. SecurityIsRealSignal(c) => "security" \in e.roles
  BY <1>2, <1>9
<1> QED BY <1>12, <1>15, <1>16, <1>17 DEF MoreSignalsMoreEffort, e, m, after
=============================================================================
