--------------------------- MODULE PipelineProofs ---------------------------
(***************************************************************************)
(* What the chain of tasks keeps for any number of pull requests, commits, *)
(* deliveries, retries and faults.                                         *)
(***************************************************************************)
EXTENDS ReviewPipeline, FiniteSetTheorems, SequenceTheorems, WellFoundedInduction, TLAPS

(* A chain has no active index before its own indexing has succeeded, and  *)
(* one that needs an index has it or was replaced.                         *)
Early == {"none", "sent", "queue", "pipeline", "index"}
Late  == {"reviewing", "publish", "finish", "ended", "lost"}

IndexInv ==
    \A c \in Chain :
        /\ chains[c].stage # "none" => chains[c].commit \in Commit
        /\ chains[c].stage \in Early => c \notin active
        /\ UsesIndex(c) => c \in active \cup replaced
        /\ chains[c].stale => chains[c].stage \in Late /\ c \in replaced

Inv == TypeOK /\ IndexInv

LEMMA InitInv == Init => Inv
<1> SUFFICES ASSUME Init PROVE Inv
  OBVIOUS
<1>1. Unused \in ChainState
  BY PipelineAssumption DEF Unused, ChainState, Stage, Over, CheckStatus, Open, PipelineAssumption
<1>2. TypeOK
  BY <1>1, PipelineAssumption DEF Init, TypeOK, IndexStatus, PipelineAssumption
<1>3. IndexInv
  BY DEF Init, IndexInv, Unused, UsesIndex
<1> QED BY <1>2, <1>3 DEF Inv

(* A step of the chain that reads no more of c than this: it changes its   *)
(* record to one of the right kind, and leaves indexes and history alone.  *)
LEMMA ChainMoves ==
    ASSUME Inv, NEW c \in Chain, NEW r \in ChainState,
           chains' = [chains EXCEPT ![c] = r],
           r.commit \in Commit,
           r.stage \in Early => c \notin active,
           r.stage \in {"review", "run", "load", "reviewing"} => c \in active \cup replaced,
           r.stale => r.stage \in Late /\ c \in replaced,
           UNCHANGED <<indexes, active, replaced>>
    PROVE  chains' \in [Chain -> ChainState] /\ IndexInv'
<1>1. chains' \in [Chain -> ChainState]
  BY DEF Inv, TypeOK
<1>2. \A d \in Chain : chains'[d] = IF d = c THEN r ELSE chains[d]
  BY DEF Inv, TypeOK
<1>3. IndexInv'
  BY <1>2 DEF Inv, IndexInv, UsesIndex
<1> QED BY <1>1, <1>3

(* How records move.  *)
LEMMA ChainsAre == Inv => chains \in [Chain -> ChainState]
BY DEF Inv, TypeOK

LEMMA GoesType ==
    ASSUME Inv, NEW c \in Chain, NEW s \in Stage, Goes(c, s)
    PROVE  /\ [chains[c] EXCEPT !.stage = s] \in ChainState
           /\ chains' = [chains EXCEPT ![c] = [chains[c] EXCEPT !.stage = s]]
<1>1. chains \in [Chain -> ChainState]
  BY ChainsAre
<1>2. chains[c] \in ChainState
  BY <1>1
<1>3. [chains[c] EXCEPT !.stage = s] \in ChainState
  BY <1>2 DEF ChainState
<1>4. chains' = [chains EXCEPT ![c] = [chains[c] EXCEPT !.stage = s]]
  BY <1>1 DEF Goes
<1> QED BY <1>3, <1>4

LEMMA WriteType ==
    ASSUME Inv, NEW c \in Chain, NEW s \in Stage, NEW w \in CheckStatus,
           GoesToWrite(c, s, w),
           s \in Early => c \notin active,
           s \in {"review", "run", "load", "reviewing"} => c \in active \cup replaced,
           chains[c].stage # "none",
           chains[c].stale => s \in Late,
           UNCHANGED <<indexes, active, replaced>>
    PROVE  chains' \in [Chain -> ChainState] /\ IndexInv'
<1> DEFINE r == [chains[c] EXCEPT !.stage = s, !.want = w, !.tries = 0,
                                  !.good = FALSE, !.bad = FALSE]
<1>1. chains' = [chains EXCEPT ![c] = r]
  BY DEF GoesToWrite, Inv, TypeOK, ChainState
<1>2. r \in ChainState
  <2>1. chains[c] \in ChainState /\ 0 \in 0..MaxRetries
    BY PipelineAssumption DEF Inv, TypeOK, PipelineAssumption
  <2> QED BY <2>1 DEF ChainState
<1>3. r.commit \in Commit /\ r.stage = s /\ r.stale = chains[c].stale
  BY DEF Inv, TypeOK, IndexInv, ChainState
<1>4. r.stale => c \in replaced
  BY <1>3 DEF Inv, IndexInv
<1> HIDE DEF r
<1> QED BY <1>1, <1>2, <1>3, <1>4, ChainMoves

LEMMA StepTo ==
    ASSUME Inv, NEW c \in Chain, NEW s \in Stage, Goes(c, s),
           s \in Early => c \notin active,
           s \in {"review", "run", "load", "reviewing"} => c \in active \cup replaced,
           chains[c].stage # "none",
           chains[c].stale => s \in Late,
           UNCHANGED <<indexes, active, replaced>>
    PROVE  chains' \in [Chain -> ChainState] /\ IndexInv'
<1> DEFINE r == [chains[c] EXCEPT !.stage = s]
<1>1. r \in ChainState /\ chains' = [chains EXCEPT ![c] = r]
  BY GoesType
<1>2. r.commit \in Commit /\ r.stage = s /\ r.stale = chains[c].stale
  BY DEF Inv, TypeOK, IndexInv, ChainState
<1>3. r.stale => c \in replaced
  BY <1>2 DEF Inv, IndexInv
<1> HIDE DEF r
<1> QED BY <1>1, <1>2, <1>3, ChainMoves

(* One lemma per action that is not a plain move.  *)
LEMMA AnnouncedInv ==
    ASSUME Inv, NEW p \in PullRequest, NEW c \in Chain, HeadAnnounced(p, c)
    PROVE  Inv'
<1>1. PICK n \in Commit :
         /\ \/ owner' = [owner EXCEPT ![n] = p]
            \/ UNCHANGED owner
         /\ head' = [head EXCEPT ![p] = n]
         /\ Announced(c, n)
  BY DEF HeadAnnounced
<1>2. UNCHANGED <<checks, indexes, active, reviewed, overlapped, replaced, faults>>
  BY DEF HeadAnnounced, historyVars
<1> DEFINE r == [chains[c] EXCEPT !.commit = n, !.stage = "sent"]
<1>3. chains' = [chains EXCEPT ![c] = r] /\ chains[c] = Unused
  BY <1>1 DEF Announced, Inv, TypeOK, ChainState
<1>4. r \in ChainState
  <2>1. chains[c] \in ChainState
    BY ChainsAre
  <2> QED BY <2>1 DEF ChainState, Stage
<1>5. c \notin active
  BY <1>3 DEF Inv, IndexInv, Early, Unused
<1>6. r.commit = n /\ r.stage = "sent" /\ ~r.stale
  BY <1>3 DEF Unused
<1> HIDE DEF r
<1>7. chains' \in [Chain -> ChainState] /\ IndexInv'
  BY <1>2, <1>3, <1>4, <1>5, <1>6, ChainMoves
<1>8. TypeOK'
  BY <1>1, <1>2, <1>7 DEF Inv, TypeOK
<1> QED BY <1>7, <1>8 DEF Inv

LEMMA ScheduleInv ==
    ASSUME Inv, NEW c \in Chain, Schedule(c)
    PROVE  Inv'
<1>1. /\ chains[c].stage = "sent" /\ c \notin active
      /\ chains[c].commit \in Commit /\ ~chains[c].stale
  BY DEF Schedule, At, Inv, IndexInv, Early, Late
<1>2. UNCHANGED <<owner, head, checks, indexes, active, reviewed, replaced, faults>>
  BY DEF Schedule
<1>3. /\ "queue" \in Stage /\ "skip" \in Stage
      /\ "queued" \in CheckStatus /\ "skipped" \in CheckStatus
      /\ "queue" \in Early /\ "skip" \notin Early
  BY DEF Stage, Writing, CheckStatus, Open, Completed, Early
<1>4. chains' \in [Chain -> ChainState] /\ IndexInv'
  BY <1>1, <1>2, <1>3, WriteType DEF Schedule
<1>5. overlapped' \subseteq Commit
  BY <1>1 DEF Schedule, CommitOf, Inv, TypeOK
<1> QED BY <1>2, <1>4, <1>5 DEF Inv, TypeOK

LEMMA ListedInv ==
    ASSUME Inv, NEW c \in Chain, CheckListed(c)
    PROVE  Inv'
<1>1. UNCHANGED <<owner, head, checks, indexes, active, reviewed, overlapped, replaced, faults>>
  BY DEF CheckListed, historyVars
<1>2. chains[c].stage \in Writing /\ chains[c].commit \in Commit
  BY DEF CheckListed, Writes, Writing, Inv, IndexInv
<1>3. DOMAIN checks[chains[c].commit] \subseteq Nat
  BY <1>2 DEF Inv, TypeOK
<1>4. PICK k \in Nat : chains' = [chains EXCEPT ![c].seen = k]
  BY <1>3 DEF CheckListed, Matching, CommitOf
<1> DEFINE r == [chains[c] EXCEPT !.seen = k]
<1>5. chains' = [chains EXCEPT ![c] = r] /\ r \in ChainState
  <2>1. chains \in [Chain -> ChainState]
    BY ChainsAre
  <2>2. chains[c] \in ChainState
    BY <2>1
  <2>3. r \in ChainState
    BY <1>4, <2>2 DEF ChainState
  <2> QED BY <1>4, <2>1, <2>3
<1>6. /\ r.commit = chains[c].commit /\ r.stage = chains[c].stage
      /\ r.stale = chains[c].stale
  BY DEF Inv, TypeOK, ChainState
<1> HIDE DEF r
<1>7. chains' \in [Chain -> ChainState] /\ IndexInv'
  <2>1. r.stage \in {"review", "run", "load", "reviewing"} => c \in active \cup replaced
    BY <1>6 DEF Inv, IndexInv, UsesIndex
  <2>2. r.stage \in Early => c \notin active
    BY <1>6 DEF Inv, IndexInv
  <2>3. r.stale => r.stage \in Late /\ c \in replaced
    BY <1>6 DEF Inv, IndexInv
  <2> QED BY <1>1, <1>2, <1>5, <1>6, <2>1, <2>2, <2>3, ChainMoves
<1> QED BY <1>1, <1>7 DEF Inv, TypeOK

(* The end of a write, done or failed. *)
LEMMA WrittenInv ==
    ASSUME Inv, NEW c \in Chain, NEW failed \in BOOLEAN,
           Writes(c), Written(c, failed),
           UNCHANGED <<indexes, active, replaced>>
    PROVE  chains' \in [Chain -> ChainState] /\ IndexInv'
<1> DEFINE s == AfterWriting(c)
           r == [chains[c] EXCEPT !.stage = s, !.seen = Nothing, !.unheard = failed]
<1>1. /\ s \in {"pipeline", "load", "ended"}
      /\ s = "pipeline" => chains[c].stage = "queue"
      /\ s = "load" => chains[c].stage = "run"
  BY DEF AfterWriting, At
<1> HIDE DEF s
<1>2. chains' = [chains EXCEPT ![c] = r] /\ r \in ChainState
  <2>1. chains[c] \in ChainState /\ s \in Stage /\ Nothing \in Nat \cup {Nothing}
    BY <1>1 DEF Inv, TypeOK, Stage, Over
  <2>2. r \in ChainState
    BY <2>1 DEF ChainState
  <2>3. chains' = [chains EXCEPT ![c] = r]
    BY DEF Written, s, Inv, TypeOK, ChainState
  <2> QED BY <2>2, <2>3
<1>3. r.commit \in Commit /\ r.stage = s /\ r.stale = chains[c].stale
  BY DEF Inv, TypeOK, IndexInv, ChainState, Writes, Writing
<1> HIDE DEF r
<1>4. r.stage \in Early => c \notin active
  BY <1>1, <1>3 DEF Inv, IndexInv, Early
<1>5. r.stage \in {"review", "run", "load", "reviewing"} => c \in active \cup replaced
  BY <1>1, <1>3 DEF Inv, IndexInv, UsesIndex
<1>6. r.stale => r.stage \in Late /\ c \in replaced
  BY <1>1, <1>3 DEF Inv, IndexInv, Late, Writes, Writing
<1> QED BY <1>2, <1>3, <1>4, <1>5, <1>6, ChainMoves

LEMMA CheckWrittenInv ==
    ASSUME Inv, NEW c \in Chain, CheckWritten(c)
    PROVE  Inv'
<1>1. UNCHANGED <<owner, head, indexes, active, reviewed, overlapped, replaced, faults>>
  BY DEF CheckWritten, historyVars
<1>2. chains' \in [Chain -> ChainState] /\ IndexInv'
  BY <1>1, WrittenInv DEF CheckWritten
<1> DEFINE n == CommitOf(c)  k == chains[c].seen  w == chains[c].want
<1>3. n \in Commit /\ w \in CheckStatus /\ k \in Nat \cup {Nothing}
  BY DEF CheckWritten, Writes, Writing, CommitOf, Inv, IndexInv, TypeOK, ChainState
<1>4. checks[n] \in Seq(CheckStatus)
  BY <1>3 DEF Inv, TypeOK
<1> HIDE DEF n, k, w
<1>5. /\ Append(checks[n], w) \in Seq(CheckStatus)
      /\ [checks[n] EXCEPT ![k] = w] \in Seq(CheckStatus)
  <2>1. Append(checks[n], w) \in Seq(CheckStatus)
    BY <1>3, <1>4
  <2>2. [checks[n] EXCEPT ![k] = w] \in Seq(CheckStatus)
    <3>1. CASE k \in 1..Len(checks[n])
      BY <3>1, <1>3, <1>4, ExceptSeq
    <3>2. CASE k \notin 1..Len(checks[n])
      <4>1. [checks[n] EXCEPT ![k] = w] = checks[n]
        BY <3>2, <1>4
      <4> QED BY <4>1, <1>4
    <3> QED BY <3>1, <3>2
  <2> QED BY <2>1, <2>2
<1>6. checks' \in [Commit -> Seq(CheckStatus)]
  BY <1>3, <1>5 DEF CheckWritten, Inv, TypeOK, n, k, w
<1> QED BY <1>1, <1>2, <1>6 DEF Inv, TypeOK

LEMMA NotWrittenInv ==
    ASSUME Inv, NEW c \in Chain, CheckNotWritten(c)
    PROVE  Inv'
<1>1. UNCHANGED <<owner, head, checks, indexes, active, reviewed, overlapped, replaced>>
  BY DEF CheckNotWritten
<1>2. chains' \in [Chain -> ChainState] /\ IndexInv'
  BY <1>1, WrittenInv DEF CheckNotWritten
<1>3. faults' \in 0..MaxFaults
  BY PipelineAssumption DEF CheckNotWritten, Inv, TypeOK, PipelineAssumption
<1> QED BY <1>1, <1>2, <1>3 DEF Inv, TypeOK

(* The tasks up to the review. *)
LEMMA RetryInv ==
    ASSUME Inv, NEW c \in Chain, RetryOrLose(c),
           chains[c].stage \in {"pipeline", "index"},
           UNCHANGED <<active, replaced>>
    PROVE  chains' \in [Chain -> ChainState] /\ IndexInv'
<1>1. /\ chains[c].commit \in Commit /\ c \notin active /\ ~chains[c].stale
      /\ chains[c] \in ChainState
  BY DEF Inv, TypeOK, IndexInv, Early, Late
<1>2. PICK r \in ChainState :
        /\ chains' = [chains EXCEPT ![c] = r]
        /\ r.commit = chains[c].commit /\ ~r.stale
        /\ r.stage \in {"pipeline", "lost"}
  <2>1. CASE Goes(c, "lost")
    <3> DEFINE t == [chains[c] EXCEPT !.stage = "lost"]
    <3>1. "lost" \in Stage
      BY DEF Stage, Over
    <3>2. t \in ChainState /\ chains' = [chains EXCEPT ![c] = t]
      BY <2>1, <3>1, GoesType
    <3>3. t.commit = chains[c].commit /\ ~t.stale /\ t.stage = "lost"
      BY <1>1 DEF ChainState
    <3> HIDE DEF t
    <3> QED BY <3>2, <3>3
  <2>2. CASE /\ chains[c].tries < MaxRetries
             /\ chains' = [chains EXCEPT ![c].stage = "pipeline", ![c].tries = @ + 1]
    <3> DEFINE t == [chains[c] EXCEPT !.stage = "pipeline", !.tries = chains[c].tries + 1]
    <3>1. chains[c].tries + 1 \in 0..MaxRetries
      BY <1>1, <2>2, PipelineAssumption DEF ChainState, PipelineAssumption
    <3>2. t \in ChainState /\ t.commit = chains[c].commit /\ ~t.stale /\ t.stage = "pipeline"
      BY <1>1, <3>1 DEF ChainState, Stage
    <3>3. chains' = [chains EXCEPT ![c] = t]
      BY <2>2 DEF Inv, TypeOK
    <3> QED BY <3>2, <3>3
  <2> QED BY <2>1, <2>2 DEF RetryOrLose
<1>3. \A d \in Chain : chains'[d] = IF d = c THEN r ELSE chains[d]
  BY <1>2 DEF Inv, TypeOK
<1>4. chains' \in [Chain -> ChainState]
  BY <1>2 DEF Inv, TypeOK
<1>5. IndexInv'
  BY <1>1, <1>2, <1>3 DEF Inv, IndexInv, UsesIndex, Early, Late
<1> QED BY <1>4, <1>5

LEMMA IndexStepsInv ==
    ASSUME Inv, NEW c \in Chain,
           FetchOrLimitsFail(c) \/ StartIndex(c) \/ FailIndex(c)
    PROVE  Inv'
<1>1. /\ UNCHANGED <<owner, head, checks, active, reviewed, overlapped, replaced, faults>>
      /\ chains[c].stage \in {"pipeline", "index"}
  BY DEF FetchOrLimitsFail, StartIndex, FailIndex, historyVars, At
<1>2. c \notin active /\ chains[c].commit \in Commit /\ ~chains[c].stale
  BY <1>1 DEF Inv, IndexInv, Early, Late
<1>3. /\ indexes' \in [Chain -> IndexStatus]
      /\ active \subseteq {d \in Chain : indexes'[d] = "succeeded"}
  BY <1>2 DEF FetchOrLimitsFail, StartIndex, FailIndex, Inv, TypeOK, IndexStatus
<1>4. chains' \in [Chain -> ChainState] /\ IndexInv'
  <2>1. CASE RetryOrLose(c)
    BY <1>1, <2>1, RetryInv
  <2>2. CASE Goes(c, "index")
    <3> DEFINE r == [chains[c] EXCEPT !.stage = "index"]
    <3>1. /\ "index" \in Stage
          /\ r.commit = chains[c].commit /\ r.stage = "index" /\ r.stale = chains[c].stale
      BY DEF Stage, Inv, TypeOK, ChainState
    <3>2. r \in ChainState /\ chains' = [chains EXCEPT ![c] = r]
      BY <2>2, <3>1, GoesType
    <3> HIDE DEF r
    <3>3. \A d \in Chain : chains'[d] = IF d = c THEN r ELSE chains[d]
      BY <3>2 DEF Inv, TypeOK
    <3>4. chains' \in [Chain -> ChainState]
      BY <3>2 DEF Inv, TypeOK
    <3>5. IndexInv'
      BY <1>1, <1>2, <3>1, <3>3 DEF Inv, IndexInv, UsesIndex, Early, Late
    <3> QED BY <3>4, <3>5
  <2> QED BY <2>1, <2>2 DEF FetchOrLimitsFail, StartIndex, FailIndex
<1> QED BY <1>1, <1>3, <1>4 DEF Inv, TypeOK

LEMMA FinishIndexInv ==
    ASSUME Inv, NEW c \in Chain, FinishIndex(c)
    PROVE  Inv'
<1>1. /\ chains[c].stage = "index" /\ chains[c].commit \in Commit /\ ~chains[c].stale
      /\ UNCHANGED <<owner, head, checks, reviewed, overlapped, faults>>
  BY DEF FinishIndex, At, Inv, IndexInv, Late
<1> DEFINE r == [chains[c] EXCEPT !.stage = "review"]
<1>2. /\ "review" \in Stage
      /\ r.commit = chains[c].commit /\ r.stage = "review" /\ r.stale = chains[c].stale
  BY DEF Stage, Inv, TypeOK, ChainState
<1>3. r \in ChainState /\ chains' = [chains EXCEPT ![c] = r]
  BY <1>2, GoesType DEF FinishIndex
<1> HIDE DEF r
<1>4. \A d \in Chain : chains'[d] = IF d = c THEN r ELSE chains[d]
  BY <1>3 DEF Inv, TypeOK
<1>5. chains' \in [Chain -> ChainState]
  BY <1>3 DEF Inv, TypeOK
<1>6. /\ active' = {c}
      /\ \A d \in Chain \ {c} : d \in replaced' <=> d \in replaced \/ UsesIndex(d)
      /\ replaced' \subseteq Chain
  BY DEF FinishIndex, Inv, TypeOK
<1>7. IndexInv'
  BY <1>1, <1>2, <1>4, <1>6 DEF Inv, IndexInv, UsesIndex, Early, Late
<1>8. /\ indexes' \in [Chain -> IndexStatus]
      /\ active' \subseteq {d \in Chain : indexes'[d] = "succeeded"}
      /\ \A b, d \in active' : b = d
  BY <1>6 DEF FinishIndex, Inv, TypeOK, IndexStatus
<1> QED BY <1>1, <1>5, <1>6, <1>7, <1>8 DEF Inv, TypeOK

(* The review and the publication. *)
LEMMA ReviewStepsInv ==
    ASSUME Inv, NEW c \in Chain,
           StartReview(c) \/ ReviewRaises(c) \/ EndRun(c) \/ Publish(c)
    PROVE  Inv'
<1>1. /\ UNCHANGED <<owner, head, checks, indexes, active, overlapped, replaced, faults>>
      /\ chains[c].stage \in {"review", "load", "reviewing", "publish"}
  BY DEF StartReview, ReviewRaises, EndRun, Publish, historyVars, At
<1>2. /\ chains[c].commit \in Commit
      /\ chains[c].stale => chains[c].stage \in {"reviewing", "publish"}
      /\ chains[c].stage = "review" => c \in active \cup replaced
  BY <1>1 DEF Inv, IndexInv, Late, UsesIndex
<1>3. reviewed' \subseteq Commit
  BY <1>2 DEF StartReview, ReviewRaises, EndRun, Publish, Inv, TypeOK, CommitOf
<1>4. \/ /\ chains[c].stage = "review"
         /\ \/ GoesToWrite(c, "skip", "skipped") \/ GoesToWrite(c, "run", "in_progress")
      \/ \E s \in {"publish", "finish"}, w \in Completed : GoesToWrite(c, s, w)
      \/ Goes(c, "finish")
  BY DEF StartReview, ReviewRaises, EndRun, Publish, Fails, Completed, At
<1>5. /\ {"skip", "run", "publish", "finish"} \subseteq Stage
      /\ Completed \subseteq CheckStatus
      /\ {"skipped", "in_progress"} \subseteq CheckStatus
      /\ {"skip", "run", "publish", "finish"} \cap Early = {}
      /\ {"publish", "finish"} \subseteq Late
      /\ chains[c].stage # "none"
  BY <1>1 DEF Stage, Writing, CheckStatus, Open, Completed, Early, Late
<1>6. chains' \in [Chain -> ChainState] /\ IndexInv'
  <2>1. CASE chains[c].stage = "review" /\ GoesToWrite(c, "skip", "skipped")
    BY <1>1, <1>2, <1>5, <2>1, WriteType
  <2>2. CASE chains[c].stage = "review" /\ GoesToWrite(c, "run", "in_progress")
    BY <1>1, <1>2, <1>5, <2>2, WriteType
  <2>3. ASSUME NEW s \in {"publish", "finish"}, NEW w \in Completed, GoesToWrite(c, s, w)
        PROVE  chains' \in [Chain -> ChainState] /\ IndexInv'
    BY <1>1, <1>5, <2>3, WriteType
  <2>4. CASE Goes(c, "finish")
    BY <1>1, <1>5, <2>4, StepTo
  <2> QED BY <1>4, <2>1, <2>2, <2>3, <2>4
<1> QED BY <1>1, <1>3, <1>6 DEF Inv, TypeOK

(* A chain that was not replaced finds its own index, of its own commit.   *)
LEMMA OwnIndex ==
    ASSUME Inv, NEW c \in Chain, UsesIndex(c), ~HasActiveIndex(CommitOf(c))
    PROVE  c \in replaced
BY DEF Inv, IndexInv, HasActiveIndex, CommitOf

LEMMA StartRunInv ==
    ASSUME Inv, NEW c \in Chain, StartRun(c)
    PROVE  Inv'
<1>1. /\ UNCHANGED <<owner, head, checks, indexes, active, reviewed, overlapped, replaced, faults>>
      /\ chains[c].stage = "load" /\ chains[c].commit \in Commit /\ ~chains[c].stale
      /\ c \in active \cup replaced
  BY DEF StartRun, historyVars, At, Inv, IndexInv, UsesIndex, Late
<1>2. /\ {"publish", "finish", "reviewing"} \subseteq Stage
      /\ {"reviewed", "failure"} \subseteq CheckStatus
      /\ {"publish", "finish", "reviewing"} \subseteq Late
      /\ {"publish", "finish", "reviewing"} \cap Early = {}
  BY DEF Stage, Writing, CheckStatus, Completed, Late, Early
<1>3. chains' \in [Chain -> ChainState] /\ IndexInv'
  <2>1. CASE ~HasActiveIndex(CommitOf(c))
    <3> DEFINE r == [chains[c] EXCEPT !.stage = "finish", !.want = "failure", !.stale = TRUE]
    <3>0. chains[c] \in ChainState
      BY DEF Inv, TypeOK
    <3>1. r \in ChainState
      BY <1>2, <3>0 DEF ChainState
    <3>4. chains' = [chains EXCEPT ![c] = r]
      BY <2>1 DEF StartRun, Inv, TypeOK, ChainState
    <3>2. r.commit = chains[c].commit /\ r.stage = "finish"
      BY DEF Inv, TypeOK, ChainState
    <3>3. c \in replaced
      BY <1>1, <2>1, OwnIndex DEF UsesIndex
    <3> HIDE DEF r
    <3>5. r.stale => r.stage \in Late /\ c \in replaced
      BY <1>2, <3>2, <3>3
    <3> QED BY <1>1, <1>2, <3>1, <3>2, <3>4, <3>5, ChainMoves
  <2>2. CASE Goes(c, "reviewing")
    BY <1>1, <1>2, <2>2, StepTo
  <2>3. ASSUME NEW s \in {"publish", "finish"}, GoesToWrite(c, s, "reviewed")
        PROVE  chains' \in [Chain -> ChainState] /\ IndexInv'
    BY <1>1, <1>2, <2>3, WriteType
  <2> QED BY <2>1, <2>2, <2>3 DEF StartRun
<1> QED BY <1>1, <1>3 DEF Inv, TypeOK

LEMMA ReviewCandidateInv ==
    ASSUME Inv, NEW c \in Chain, ReviewCandidate(c)
    PROVE  Inv'
<1>1. /\ UNCHANGED <<owner, head, checks, indexes, active, reviewed, overlapped, replaced, faults>>
      /\ chains[c].stage = "reviewing" /\ chains[c].commit \in Commit
      /\ chains[c].stale => c \in replaced
      /\ c \in active \cup replaced
  BY DEF ReviewCandidate, historyVars, At, Inv, IndexInv, UsesIndex
<1>2. PICK r \in ChainState :
        /\ chains' = [chains EXCEPT ![c] = r]
        /\ r.commit = chains[c].commit /\ r.stage = "reviewing"
        /\ r.stale => chains[c].stale \/ ~HasActiveIndex(CommitOf(c))
  <2> DEFINE g == [chains[c] EXCEPT !.good = TRUE]
             b == [chains[c] EXCEPT !.bad = TRUE]
             x == [chains[c] EXCEPT !.bad = TRUE, !.stale = TRUE]
  <2>1. g \in ChainState /\ b \in ChainState /\ x \in ChainState
    <3>1. chains[c] \in ChainState
      BY ChainsAre
    <3> QED BY <3>1 DEF ChainState
  <2>2. /\ g.commit = chains[c].commit /\ g.stage = chains[c].stage /\ g.stale = chains[c].stale
        /\ b.commit = chains[c].commit /\ b.stage = chains[c].stage /\ b.stale = chains[c].stale
        /\ x.commit = chains[c].commit /\ x.stage = chains[c].stage
    BY DEF Inv, TypeOK, ChainState
  <2>3. \/ chains' = [chains EXCEPT ![c] = g]
        \/ chains' = [chains EXCEPT ![c] = b]
        \/ chains' = [chains EXCEPT ![c] = x] /\ ~HasActiveIndex(CommitOf(c))
    BY DEF ReviewCandidate, Inv, TypeOK
  <2> HIDE DEF g, b, x
  <2> QED BY <1>1, <2>1, <2>2, <2>3
<1>3. r.stale => c \in replaced
  BY <1>1, <1>2, OwnIndex DEF UsesIndex
<1>4. "reviewing" \in Late /\ "reviewing" \notin Early
  BY DEF Late, Early
<1>5. chains' \in [Chain -> ChainState] /\ IndexInv'
  BY <1>1, <1>2, <1>3, <1>4, ChainMoves
<1> QED BY <1>1, <1>5 DEF Inv, TypeOK

LEMMA TaskLostInv ==
    ASSUME Inv, NEW c \in Chain, TaskLost(c)
    PROVE  Inv'
<1>1. /\ UNCHANGED <<owner, head, checks, indexes, active, reviewed, overlapped, replaced>>
      /\ chains[c].stage # "none" /\ Goes(c, "lost")
  BY DEF TaskLost, Over
<1>2. "lost" \in Stage /\ "lost" \in Late /\ "lost" \notin Early
  BY DEF Stage, Over, Late, Early
<1>3. chains' \in [Chain -> ChainState] /\ IndexInv'
  BY <1>1, <1>2, StepTo
<1>4. faults' \in 0..MaxFaults
  BY PipelineAssumption DEF TaskLost, Inv, TypeOK, PipelineAssumption
<1> QED BY <1>1, <1>3, <1>4 DEF Inv, TypeOK

LEMMA StutterInv ==
    ASSUME Inv, UNCHANGED vars
    PROVE  Inv'
BY DEF Inv, TypeOK, IndexInv, UsesIndex, vars, historyVars

LEMMA Inductive == Spec => []Inv
<1>1. Inv /\ [Next]_vars => Inv'
  <2> SUFFICES ASSUME Inv, [Next]_vars PROVE Inv'
    OBVIOUS
  <2>1. ASSUME NEW p \in PullRequest, NEW c \in Chain, HeadAnnounced(p, c) PROVE Inv'
    BY <2>1, AnnouncedInv
  <2>2. ASSUME NEW c \in Chain, TaskStep(c) PROVE Inv'
    BY <2>2, ScheduleInv, ListedInv, CheckWrittenInv, IndexStepsInv, FinishIndexInv,
       ReviewStepsInv, StartRunInv, ReviewCandidateInv DEF TaskStep
  <2>3. ASSUME NEW c \in Chain, CheckNotWritten(c) \/ TaskLost(c) PROVE Inv'
    BY <2>3, NotWrittenInv, TaskLostInv
  <2> QED BY <2>1, <2>2, <2>3, StutterInv DEF Next
<1> QED BY <1>1, InitInv, PTL DEF Spec

(* The types hold and a repository has at most one active index, which is  *)
(* one that was built: mark_succeeded, create_running and _fail_run.       *)
THEOREM TypeCorrect == Spec => []TypeOK
<1>1. Inv => TypeOK
  BY DEF Inv
<1> QED BY <1>1, Inductive, PTL

(* A review is refused, or a candidate of it left out, for its index only  *)
(* if another chain's indexing has ended since its own: no failing, dying  *)
(* or retried indexing costs another commit its review.                    *)
THEOREM StaleIsReplaced == Spec => []StaleOnlyIfReplaced
<1>1. Inv => StaleOnlyIfReplaced
  BY DEF Inv, IndexInv, StaleOnlyIfReplaced
<1> QED BY <1>1, Inductive, PTL

-----------------------------------------------------------------------------
(* One check per head.  Of the chains of a commit that never overlapped at *)
(* most one is at work, and what it has listed is still so when it writes. *)
Idle == Over \cup {"sent"}
Busy(c) == chains[c].stage \notin Idle

OneInv ==
    /\ \A c \in Chain : chains[c].seen # Nothing => chains[c].stage \in Writing \cup {"lost"}
    /\ \A n \in Commit \ overlapped :
         /\ Len(checks[n]) <= 1
         /\ \A b, c \in ChainsOf(n) : Busy(b) /\ Busy(c) => b = c
         /\ \A c \in ChainsOf(n) : Busy(c) /\ chains[c].seen = 0 => checks[n] = <<>>

(* Only the record of c changes. *)
OnlyOf(c) == \A d \in Chain \ {c} : chains'[d] = chains[d]

(* A step of one chain that writes no check: it goes on with its work, not *)
(* having listed, or stops.                                                *)
LEMMA WorkGoesOn ==
    ASSUME OneInv, NEW c \in Chain, OnlyOf(c),
           chains'[c].commit = chains[c].commit,
           chains'[c].stage = "lost" \/ (Busy(c) /\ chains'[c].seen = Nothing),
           UNCHANGED <<checks, overlapped>>
    PROVE  OneInv'
<1>1. \A n \in Commit : ChainsOf(n)' = ChainsOf(n) /\ ChainsOf(n) \subseteq Chain
  BY DEF ChainsOf, CommitOf, OnlyOf
<1>2. \A d \in Chain : Busy(d)' => Busy(d)
  BY DEF Busy, Idle, Over, OnlyOf
<1>3. Nothing # 0
  BY PipelineAssumption DEF PipelineAssumption
<1>4. ASSUME NEW d \in Chain, Busy(d)', chains'[d].seen # Nothing
      PROVE  d # c /\ chains'[d] = chains[d] /\ Busy(d)
  BY <1>2, <1>4 DEF OnlyOf, Busy, Idle, Over
<1>5. \A d \in Chain : chains'[d].seen # Nothing => chains'[d].stage \in Writing \cup {"lost"}
  BY DEF OneInv, OnlyOf
<1>6. ASSUME NEW n \in Commit \ overlapped
      PROVE  /\ Len(checks[n]) <= 1
             /\ \A b, d \in ChainsOf(n)' : Busy(b)' /\ Busy(d)' => b = d
             /\ \A d \in ChainsOf(n)' : Busy(d)' /\ chains'[d].seen = 0 => checks[n] = <<>>
  BY <1>1, <1>2, <1>3, <1>4, <1>6 DEF OneInv
<1> QED BY <1>5, <1>6 DEF OneInv

(* Every step of the tasks that moves a chain without writing its check.   *)
Moves(c) ==
    \/ FetchOrLimitsFail(c) \/ StartIndex(c) \/ FinishIndex(c) \/ FailIndex(c)
    \/ StartReview(c) \/ ReviewRaises(c) \/ StartRun(c)
    \/ ReviewCandidate(c) \/ EndRun(c) \/ Publish(c)

LEMMA MovesOne ==
    ASSUME Inv, OneInv, NEW c \in Chain, Moves(c)
    PROVE  OneInv'
<1>1. UNCHANGED <<checks, overlapped>>
  BY DEF Moves, FetchOrLimitsFail, StartIndex, FinishIndex, FailIndex, StartReview,
         ReviewRaises, StartRun, ReviewCandidate, EndRun, Publish, historyVars
<1>2. Busy(c) /\ chains[c].stage \notin Writing
  BY DEF Moves, FetchOrLimitsFail, StartIndex, FinishIndex, FailIndex, StartReview,
         ReviewRaises, StartRun, ReviewCandidate, EndRun, Publish, At,
         Busy, Idle, Over, Writing
<1>3. chains[c].seen = Nothing
  BY <1>2 DEF OneInv, Busy, Idle, Over
<1>4. \/ \E s \in Stage : Goes(c, s)
      \/ \E s \in Stage, w \in CheckStatus : GoesToWrite(c, s, w)
      \/ RetryOrLose(c) \/ StartRun(c) \/ ReviewCandidate(c)
  BY DEF Moves, FetchOrLimitsFail, StartIndex, FinishIndex, FailIndex, StartReview,
         ReviewRaises, EndRun, Publish, Fails, Stage, Writing, CheckStatus, Completed, Open
<1>5. /\ OnlyOf(c) /\ chains'[c].commit = chains[c].commit
      /\ chains'[c].seen = chains[c].seen
  <2>1. chains \in [Chain -> ChainState]
    BY DEF Inv, TypeOK
  <2>2. ASSUME NEW s \in Stage, Goes(c, s)
        PROVE  OnlyOf(c) /\ chains'[c].commit = chains[c].commit
                         /\ chains'[c].seen = chains[c].seen
    BY <2>1, <2>2 DEF Goes, OnlyOf, ChainState
  <2>3. ASSUME NEW s \in Stage, NEW w \in CheckStatus, GoesToWrite(c, s, w)
        PROVE  OnlyOf(c) /\ chains'[c].commit = chains[c].commit
                         /\ chains'[c].seen = chains[c].seen
    BY <2>1, <2>3 DEF GoesToWrite, OnlyOf, ChainState
  <2>4. ASSUME RetryOrLose(c)
        PROVE  OnlyOf(c) /\ chains'[c].commit = chains[c].commit
                         /\ chains'[c].seen = chains[c].seen
    BY <2>1, <2>4 DEF RetryOrLose, Goes, OnlyOf, ChainState
  <2>5. ASSUME StartRun(c)
        PROVE  OnlyOf(c) /\ chains'[c].commit = chains[c].commit
                         /\ chains'[c].seen = chains[c].seen
    BY <2>1, <2>5 DEF StartRun, Goes, GoesToWrite, OnlyOf, ChainState
  <2>6. ASSUME ReviewCandidate(c)
        PROVE  OnlyOf(c) /\ chains'[c].commit = chains[c].commit
                         /\ chains'[c].seen = chains[c].seen
    BY <2>1, <2>6 DEF ReviewCandidate, OnlyOf, ChainState
  <2> QED BY <1>4, <2>2, <2>3, <2>4, <2>5, <2>6
<1> QED BY <1>1, <1>2, <1>3, <1>5, WorkGoesOn

LEMMA LostOne ==
    ASSUME Inv, OneInv, NEW c \in Chain, TaskLost(c)
    PROVE  OneInv'
<1>1. /\ OnlyOf(c) /\ chains'[c].commit = chains[c].commit
      /\ chains'[c].stage = "lost" /\ UNCHANGED <<checks, overlapped>>
  BY DEF TaskLost, Goes, OnlyOf, Inv, TypeOK, ChainState
<1> QED BY <1>1, WorkGoesOn

(* A delivery of a commit is announced: its chain is not at work yet. *)
LEMMA AnnouncedOne ==
    ASSUME Inv, OneInv, NEW p \in PullRequest, NEW c \in Chain, HeadAnnounced(p, c)
    PROVE  OneInv'
<1>1. /\ UNCHANGED <<checks, overlapped>> /\ OnlyOf(c)
      /\ chains'[c].stage = "sent"
  BY DEF HeadAnnounced, Announced, historyVars, OnlyOf, Inv, TypeOK, ChainState
<1>2. ~Busy(c)'
  BY <1>1 DEF Busy, Idle
<1>6. chains'[c].seen = Nothing
  BY DEF HeadAnnounced, Announced, Unused, Inv, TypeOK, ChainState
<1>3. \A d \in Chain : Busy(d)' => d # c /\ chains'[d] = chains[d] /\ Busy(d)
  BY <1>1, <1>2 DEF OnlyOf, Busy
<1>4. \A n \in Commit : \A d \in ChainsOf(n)' : Busy(d)' => d \in ChainsOf(n)
  BY <1>3 DEF ChainsOf, CommitOf
<1>5. \A n \in Commit : ChainsOf(n)' \subseteq Chain
  BY DEF ChainsOf
<1>7. \A d \in Chain : chains'[d].seen # Nothing => chains'[d].stage \in Writing \cup {"lost"}
  BY <1>1, <1>6 DEF OneInv, OnlyOf
<1>8. ASSUME NEW n \in Commit \ overlapped
      PROVE  /\ Len(checks[n]) <= 1
             /\ \A b, d \in ChainsOf(n)' : Busy(b)' /\ Busy(d)' => b = d
             /\ \A d \in ChainsOf(n)' : Busy(d)' /\ chains'[d].seen = 0 => checks[n] = <<>>
  BY <1>3, <1>4, <1>5, <1>8 DEF OneInv
<1> QED BY <1>1, <1>7, <1>8 DEF OneInv

(* A chain starts to work: if another of its commit does, they overlap.    *)
LEMMA ScheduleOne ==
    ASSUME Inv, OneInv, NEW c \in Chain, Schedule(c)
    PROVE  OneInv'
<1>1. /\ UNCHANGED checks /\ OnlyOf(c)
      /\ chains'[c].commit = chains[c].commit /\ chains'[c].seen = chains[c].seen
      /\ chains'[c].stage \in {"queue", "skip"}
  BY DEF Schedule, GoesToWrite, OnlyOf, Inv, TypeOK, ChainState
<1>2. chains[c].stage = "sent"
  BY DEF Schedule, At
<1>3. overlapped \subseteq overlapped'
  BY DEF Schedule
<1>4. ASSUME NEW b \in ChainsOf(CommitOf(c)), b # c, Busy(b)
      PROVE  CommitOf(c) \in overlapped'
  BY <1>4 DEF Schedule, Busy, Idle
<1>5. \A n \in Commit : ChainsOf(n)' = ChainsOf(n) /\ ChainsOf(n) \subseteq Chain
  BY <1>1 DEF ChainsOf, CommitOf, OnlyOf
<1>6. \A d \in Chain \ {c} : chains'[d] = chains[d] /\ (Busy(d)' <=> Busy(d))
  BY <1>1 DEF OnlyOf, Busy
<1>7. chains'[c].seen = Nothing
  BY <1>1, <1>2 DEF OneInv, Writing
<1>8. \A d \in Chain : chains'[d].seen # Nothing => chains'[d].stage \in Writing \cup {"lost"}
  BY <1>6, <1>7 DEF OneInv
<1>9. ASSUME NEW n \in Commit \ overlapped'
      PROVE  /\ Len(checks[n]) <= 1
             /\ \A b, d \in ChainsOf(n)' : Busy(b)' /\ Busy(d)' => b = d
             /\ \A d \in ChainsOf(n)' : Busy(d)' /\ chains'[d].seen = 0 => checks[n] = <<>>
  <2>1. n \in Commit \ overlapped
    BY <1>3, <1>9
  <2>2. \A b \in ChainsOf(n) \ {c} : c \in ChainsOf(n) => ~Busy(b)
    BY <1>4, <1>9 DEF ChainsOf, CommitOf
  <2>3. Nothing # 0
    BY PipelineAssumption DEF PipelineAssumption
  <2>4. \A b, d \in ChainsOf(n)' : Busy(b)' /\ Busy(d)' => b = d
    BY <1>5, <1>6, <2>1, <2>2 DEF OneInv
  <2>5. \A d \in ChainsOf(n)' : Busy(d)' /\ chains'[d].seen = 0 => checks[n] = <<>>
    BY <1>5, <1>6, <1>7, <2>1, <2>3 DEF OneInv
  <2> QED BY <2>1, <2>4, <2>5 DEF OneInv
<1> QED BY <1>1, <1>8, <1>9 DEF OneInv

(* The commit's checks are listed: none, or the one there is.              *)
LEMMA ListedOne ==
    ASSUME Inv, OneInv, NEW c \in Chain, CheckListed(c)
    PROVE  OneInv'
<1>1. /\ UNCHANGED <<checks, overlapped>> /\ OnlyOf(c)
      /\ chains'[c].commit = chains[c].commit /\ chains'[c].stage = chains[c].stage
      /\ chains[c].stage \in Writing
  BY DEF CheckListed, Writes, historyVars, OnlyOf, Inv, TypeOK, ChainState
<1>2. chains[c].commit \in Commit
  BY <1>1 DEF Inv, IndexInv, Writing
<1>3. checks[chains[c].commit] \in Seq(CheckStatus)
  BY <1>2 DEF Inv, TypeOK
<1>4. chains'[c].seen = 0 => checks[chains[c].commit] = <<>>
  <2>1. chains'[c].seen \in IF Matching(CommitOf(c)) = {} THEN {0} ELSE Matching(CommitOf(c))
    BY DEF CheckListed, Inv, TypeOK, ChainState
  <2>2. Matching(CommitOf(c)) = 1..Len(checks[chains[c].commit])
    BY <1>3 DEF Matching, CommitOf
  <2> QED BY <1>3, <2>1, <2>2
<1>5. \A n \in Commit : ChainsOf(n)' = ChainsOf(n) /\ ChainsOf(n) \subseteq Chain
  BY <1>1 DEF ChainsOf, CommitOf, OnlyOf
<1>6. \A d \in Chain : (Busy(d)' <=> Busy(d)) /\ (d # c => chains'[d] = chains[d])
  BY <1>1 DEF OnlyOf, Busy
<1>7. \A d \in Chain : chains'[d].seen # Nothing => chains'[d].stage \in Writing \cup {"lost"}
  BY <1>1, <1>6 DEF OneInv
<1>8. ASSUME NEW n \in Commit \ overlapped
      PROVE  /\ Len(checks[n]) <= 1
             /\ \A b, d \in ChainsOf(n)' : Busy(b)' /\ Busy(d)' => b = d
             /\ \A d \in ChainsOf(n)' : Busy(d)' /\ chains'[d].seen = 0 => checks[n] = <<>>
  BY <1>4, <1>5, <1>6, <1>8 DEF OneInv, ChainsOf, CommitOf
<1> QED BY <1>1, <1>7, <1>8 DEF OneInv

(* The write, done or failed, and the task goes on, having listed nothing. *)
LEMMA WriteOne ==
    ASSUME Inv, OneInv, NEW c \in Chain, CheckWritten(c) \/ CheckNotWritten(c)
    PROVE  OneInv'
<1>1. /\ UNCHANGED overlapped /\ OnlyOf(c)
      /\ chains'[c].commit = chains[c].commit /\ chains'[c].seen = Nothing
      /\ chains[c].stage \in Writing
  BY DEF CheckWritten, CheckNotWritten, Written, Writes, historyVars, OnlyOf,
         Inv, TypeOK, ChainState
<1>2. Busy(c) /\ chains[c].commit \in Commit
  BY <1>1 DEF Busy, Idle, Over, Writing, Inv, IndexInv
<1> DEFINE n == chains[c].commit  k == chains[c].seen
<1>3. checks[n] \in Seq(CheckStatus) /\ chains[c].want \in CheckStatus
  BY <1>2 DEF Inv, TypeOK, ChainState
<1>4. \A m \in Commit \ {n} : checks'[m] = checks[m]
  BY DEF CheckWritten, CheckNotWritten, Inv, TypeOK, CommitOf
<1>5. n \notin overlapped => Len(checks'[n]) <= 1
  <2>1. ASSUME n \notin overlapped, k = 0, CheckWritten(c)
        PROVE  Len(checks'[n]) <= 1
    <3>1. checks[n] = <<>>
      BY <1>2, <2>1 DEF OneInv, ChainsOf, CommitOf
    <3>2. checks'[n] = Append(checks[n], chains[c].want)
      BY <1>2, <2>1 DEF CheckWritten, Inv, TypeOK, CommitOf
    <3> QED BY <1>3, <3>1, <3>2
  <2>2. ASSUME n \notin overlapped, k # 0, CheckWritten(c)
        PROVE  Len(checks'[n]) <= 1
    <3>1. checks'[n] = [checks[n] EXCEPT ![k] = chains[c].want]
      BY <1>2, <2>2 DEF CheckWritten, Inv, TypeOK, CommitOf
    <3>2. Len(checks'[n]) = Len(checks[n])
      BY <1>3, <3>1
    <3> QED BY <1>2, <2>2, <3>2 DEF OneInv
  <2>3. ASSUME n \notin overlapped, CheckNotWritten(c)
        PROVE  Len(checks'[n]) <= 1
    BY <1>2, <2>3 DEF CheckNotWritten, OneInv
  <2> QED BY <2>1, <2>2, <2>3
<1>6. \A m \in Commit : ChainsOf(m)' = ChainsOf(m) /\ ChainsOf(m) \subseteq Chain
  BY <1>1 DEF ChainsOf, CommitOf, OnlyOf
<1>7. \A d \in Chain : (Busy(d)' => Busy(d)) /\ (d # c => chains'[d] = chains[d])
  BY <1>1, <1>2 DEF OnlyOf, Busy
<1>8. \A d \in Chain : chains'[d].seen # Nothing => chains'[d].stage \in Writing \cup {"lost"}
  BY <1>1, <1>7 DEF OneInv
<1>9. ASSUME NEW m \in Commit \ overlapped
      PROVE  /\ Len(checks'[m]) <= 1
             /\ \A b, d \in ChainsOf(m)' : Busy(b)' /\ Busy(d)' => b = d
             /\ \A d \in ChainsOf(m)' : Busy(d)' /\ chains'[d].seen = 0 => checks'[m] = <<>>
  <2>1. Len(checks'[m]) <= 1
    BY <1>4, <1>5, <1>9 DEF OneInv
  <2>2. \A b, d \in ChainsOf(m)' : Busy(b)' /\ Busy(d)' => b = d
    BY <1>6, <1>7, <1>9 DEF OneInv
  <2>3. ASSUME NEW d \in ChainsOf(m)', Busy(d)', chains'[d].seen = 0
        PROVE  checks'[m] = <<>>
    <3>1. d # c /\ d \in ChainsOf(m) /\ d \in Chain /\ Busy(d) /\ chains[d].seen = 0
      BY <1>1, <1>6, <1>7, <2>3, PipelineAssumption DEF PipelineAssumption
    <3>2. m # n
      BY <1>2, <1>9, <3>1 DEF OneInv, ChainsOf, CommitOf
    <3> QED BY <1>4, <1>9, <3>1, <3>2 DEF OneInv
  <2> QED BY <2>1, <2>2, <2>3
<1> QED BY <1>1, <1>8, <1>9 DEF OneInv

LEMMA OneInductive == Spec => []OneInv
<1>1. Init => OneInv
  BY DEF Init, OneInv, Unused, ChainsOf, CommitOf, Busy, Idle, Over
<1>2. Inv /\ OneInv /\ [Next]_vars => OneInv'
  <2> SUFFICES ASSUME Inv, OneInv, [Next]_vars PROVE OneInv'
    OBVIOUS
  <2>1. ASSUME NEW p \in PullRequest, NEW c \in Chain, HeadAnnounced(p, c) PROVE OneInv'
    BY <2>1, AnnouncedOne
  <2>2. ASSUME NEW c \in Chain, TaskStep(c) PROVE OneInv'
    BY <2>2, ScheduleOne, ListedOne, WriteOne, MovesOne DEF TaskStep, Moves
  <2>3. ASSUME NEW c \in Chain, CheckNotWritten(c) \/ TaskLost(c) PROVE OneInv'
    BY <2>3, WriteOne, LostOne
  <2>4. CASE UNCHANGED vars
    BY <2>4 DEF OneInv, vars, historyVars, ChainsOf, CommitOf, Busy
  <2> QED BY <2>1, <2>2, <2>3, <2>4 DEF Next
<1> QED BY <1>1, <1>2, Inductive, PTL DEF Spec

(* A commit has one check run, whatever is retried, fails or dies, unless  *)
(* two chains for it ran side by side: reconcile's list and its create.    *)
THEOREM OneCheck == Spec => []OneCheckPerHead
<1>1. OneInv => OneCheckPerHead
  BY DEF OneInv, OneCheckPerHead
<1> QED BY <1>1, OneInductive, PTL

-----------------------------------------------------------------------------
(* What the check says.  The chains of a commit that never overlapped work *)
(* in the order of their announcement, so when the last one writes, the    *)
(* others are over; and a stage that ends a chain by its write has, from   *)
(* the step that entered it, an outcome to write.                          *)
Concluding == {"skip", "publish", "finish"}

InTurn ==
    /\ \A c \in Chain : chains[c].stage = "none" => chains[c] = Unused
    /\ \A b, c \in Chain : b < c /\ chains[c].stage # "none" => chains[b].stage # "none"
    /\ \A n \in Commit \ overlapped : \A b, c \in ChainsOf(n) :
         b < c /\ chains[c].stage # "sent" => chains[b].stage \in Over

Outcomes ==
    \A c \in Chain :
        /\ chains[c].stage \in Concluding => chains[c].want \in Completed
        /\ chains[c].seen \notin {0, Nothing} => chains[c].seen \in DOMAIN checks[chains[c].commit]

Told(n) ==
    \A c \in ChainsOf(n) :
        (\A b \in ChainsOf(n) : b <= c) /\ chains[c].stage = "ended" /\ ~chains[c].unheard
          => checks[n] = <<chains[c].want>> /\ chains[c].want \in Completed

TellInv == InTurn /\ Outcomes /\ \A n \in Commit \ overlapped : Told(n)

(* A chain at work goes on with it, or is lost, and no check is written.   *)
LEMMA WorkTells ==
    ASSUME Inv, OneInv, TellInv, NEW c \in Chain, OnlyOf(c), Busy(c),
           chains'[c].commit = chains[c].commit,
           chains'[c].stage \notin {"none", "sent", "ended"},
           chains'[c].stage \in Concluding => chains'[c].want \in Completed,
           chains'[c].seen \notin {0, Nothing} => chains'[c].seen \in DOMAIN checks[chains[c].commit],
           UNCHANGED <<checks, overlapped>>
    PROVE  TellInv'
<1>1. \A n \in Commit : ChainsOf(n)' = ChainsOf(n) /\ ChainsOf(n) \subseteq Chain
  BY DEF ChainsOf, CommitOf, OnlyOf
<1>2. \A d \in Chain : chains'[d] = chains[d] \/ d = c
  BY DEF OnlyOf
<1>3. chains[c].stage \notin Over \cup {"sent"} /\ chains[c].stage # "none" /\ chains[c].stage # "ended"
  BY DEF Busy, Idle, Over
<1>4. InTurn'
  <2>1. \A d \in Chain : chains'[d].stage = "none" => chains'[d] = Unused
    BY <1>2 DEF TellInv, InTurn
  <2>2. \A b, d \in Chain : b < d /\ chains'[d].stage # "none" => chains'[b].stage # "none"
    BY <1>2, <1>3 DEF TellInv, InTurn
  <2>3. ASSUME NEW n \in Commit \ overlapped, NEW b \in ChainsOf(n), NEW d \in ChainsOf(n),
               b < d, chains'[d].stage # "sent"
        PROVE  chains'[b].stage \in Over
    <3>1. chains[d].stage # "sent"
      BY <1>1, <1>2, <1>3, <2>3
    <3>2. chains[b].stage \in Over
      BY <2>3, <3>1 DEF TellInv, InTurn
    <3> QED BY <1>1, <1>2, <1>3, <3>2
  <2> QED BY <1>1, <2>1, <2>2, <2>3 DEF InTurn
<1>5. Outcomes'
  BY <1>2 DEF TellInv, Outcomes
<1>6. ASSUME NEW n \in Commit \ overlapped PROVE Told(n)'
  BY <1>1, <1>2, <1>6 DEF TellInv, Told
<1> QED BY <1>4, <1>5, <1>6 DEF TellInv

LEMMA MovesTell ==
    ASSUME Inv, OneInv, TellInv, NEW c \in Chain, Moves(c)
    PROVE  TellInv'
<1>1. UNCHANGED <<checks, overlapped>>
  BY DEF Moves, FetchOrLimitsFail, StartIndex, FinishIndex, FailIndex, StartReview,
         ReviewRaises, StartRun, ReviewCandidate, EndRun, Publish, historyVars
<1>2. Busy(c) /\ chains[c].stage \notin Writing
  BY DEF Moves, FetchOrLimitsFail, StartIndex, FinishIndex, FailIndex, StartReview,
         ReviewRaises, StartRun, ReviewCandidate, EndRun, Publish, At,
         Busy, Idle, Over, Writing
<1>3. chains[c] \in ChainState /\ chains \in [Chain -> ChainState]
  BY DEF Inv, TypeOK
<1> DEFINE Good == /\ OnlyOf(c) /\ chains'[c].commit = chains[c].commit
                   /\ chains'[c].seen = chains[c].seen
                   /\ chains'[c].stage \notin {"none", "sent", "ended"}
                   /\ chains'[c].stage \in Concluding => chains'[c].want \in Completed
<1>4. ASSUME NEW s \in {"lost", "index", "review", "reviewing"}, Goes(c, s) PROVE Good
  BY <1>3, <1>4 DEF Goes, OnlyOf, ChainState, Concluding
<1>5. ASSUME NEW s \in {"run", "publish", "finish", "skip"}, NEW w \in CheckStatus,
             s # "run" => w \in Completed, GoesToWrite(c, s, w) PROVE Good
  BY <1>3, <1>5 DEF GoesToWrite, OnlyOf, ChainState, Concluding
<1>6. ASSUME RetryOrLose(c) PROVE Good
  BY <1>3, <1>4, <1>6 DEF RetryOrLose, Goes, OnlyOf, ChainState, Concluding
<1>7. {"failure", "skipped", "neutral", "reviewed"} = Completed /\ "in_progress" \in CheckStatus
      /\ Completed \subseteq CheckStatus
  BY DEF Completed, CheckStatus, Open
<1>8. ASSUME StartRun(c) PROVE Good
  <2>1. CASE ~HasActiveIndex(CommitOf(c))
    BY <1>3, <1>7, <1>8, <2>1 DEF StartRun, OnlyOf, ChainState, Concluding
  <2>2. CASE HasActiveIndex(CommitOf(c))
    <3> HIDE DEF Good
    <3> QED BY <1>4, <1>5, <1>7, <1>8, <2>2 DEF StartRun
  <2> QED BY <2>1, <2>2
<1>9. ASSUME ReviewCandidate(c) PROVE Good
  BY <1>3, <1>9 DEF ReviewCandidate, At, OnlyOf, ChainState, Concluding
<1>10. ASSUME Publish(c) PROVE Good
  <2>1. CASE Goes(c, "finish")
    <3>1. chains[c].want \in Completed
      BY <1>10 DEF Publish, At, TellInv, Outcomes, Concluding
    <3> QED BY <1>3, <2>1, <3>1 DEF Goes, OnlyOf, ChainState, Concluding
  <2> HIDE DEF Good
  <2>2. CASE GoesToWrite(c, "finish", "skipped") \/ Fails(c)
    BY <1>5, <1>7, <2>2 DEF Fails
  <2> QED BY <1>10, <2>1, <2>2 DEF Publish
<1>11. Good
  <2> HIDE DEF Good
  <2>1. CASE EndRun(c) \/ StartReview(c) \/ ReviewRaises(c)
    BY <1>5, <1>7, <2>1 DEF EndRun, StartReview, ReviewRaises, Fails
  <2>2. CASE FetchOrLimitsFail(c) \/ StartIndex(c) \/ FinishIndex(c) \/ FailIndex(c)
    BY <1>4, <1>6, <2>2 DEF FetchOrLimitsFail, StartIndex, FinishIndex, FailIndex
  <2> QED BY <1>8, <1>9, <1>10, <2>1, <2>2 DEF Moves
<1>12. chains'[c].seen \notin {0, Nothing} => chains'[c].seen \in DOMAIN checks[chains[c].commit]
  BY <1>11 DEF TellInv, Outcomes
<1> QED BY <1>1, <1>2, <1>11, <1>12, WorkTells

LEMMA LostTells ==
    ASSUME Inv, OneInv, TellInv, NEW c \in Chain, TaskLost(c)
    PROVE  TellInv'
<1>1. /\ OnlyOf(c) /\ Busy(c) /\ chains'[c].commit = chains[c].commit
      /\ chains'[c].stage = "lost" /\ UNCHANGED <<checks, overlapped>>
      /\ chains'[c].seen = chains[c].seen
  BY DEF TaskLost, Goes, OnlyOf, Inv, TypeOK, ChainState, Busy, Idle
<1> QED BY <1>1, WorkTells DEF TellInv, Outcomes, Concluding

LEMMA ListedTells ==
    ASSUME Inv, OneInv, TellInv, NEW c \in Chain, CheckListed(c)
    PROVE  TellInv'
<1>1. /\ UNCHANGED <<checks, overlapped>> /\ OnlyOf(c)
      /\ chains'[c].commit = chains[c].commit /\ chains'[c].stage = chains[c].stage
      /\ chains'[c].want = chains[c].want
      /\ chains[c].stage \in Writing
      /\ chains'[c].seen \in {0} \cup DOMAIN checks[chains[c].commit]
  BY DEF CheckListed, Writes, historyVars, OnlyOf, Inv, TypeOK, ChainState, Matching, CommitOf
<1>2. Busy(c) /\ chains'[c].stage \notin {"none", "sent", "ended"}
  BY <1>1 DEF Busy, Idle, Over, Writing
<1>3. chains'[c].stage \in Concluding => chains'[c].want \in Completed
  BY <1>1 DEF TellInv, Outcomes
<1> QED BY <1>1, <1>2, <1>3, WorkTells

(* A new delivery's chain comes after all there are. *)
LEMMA AnnouncedTells ==
    ASSUME Inv, OneInv, TellInv, NEW p \in PullRequest, NEW c \in Chain, HeadAnnounced(p, c)
    PROVE  TellInv'
<1>1. /\ UNCHANGED <<checks, overlapped>> /\ OnlyOf(c)
      /\ chains'[c].stage = "sent" /\ chains'[c].seen = Nothing
      /\ chains[c] = Unused
  BY DEF HeadAnnounced, Announced, historyVars, OnlyOf, Inv, TypeOK, ChainState, Unused
<1>2. chains[c].stage = "none" /\ chains[c].commit = Nothing
  BY <1>1 DEF Unused
<1>3. \A b \in Chain : b < c => chains[b].stage # "none"
  BY DEF HeadAnnounced, Announced, TellInv, InTurn
<1>4. \A d \in Chain : c < d => chains[d].stage = "none"
  BY <1>2 DEF TellInv, InTurn
<1>5. \A d \in Chain \ {c} : chains'[d] = chains[d]
  BY <1>1 DEF OnlyOf
<1>6. Chain \subseteq Nat /\ Nothing \notin Commit
  BY PipelineAssumption DEF Chain, Commit, PipelineAssumption
<1>7. \A n \in Commit : ChainsOf(n) \subseteq Chain \ {c} /\ ChainsOf(n)' \subseteq ChainsOf(n) \cup {c}
                        /\ ChainsOf(n) \subseteq ChainsOf(n)'
  BY <1>2, <1>5, <1>6 DEF ChainsOf, CommitOf
<1>8. \A n \in Commit : \A d \in ChainsOf(n) : chains[d].stage # "none"
  BY <1>6 DEF ChainsOf, CommitOf, TellInv, InTurn, Unused
<1>9. InTurn'
  <2>1. \A d \in Chain : chains'[d].stage = "none" => chains'[d] = Unused
    BY <1>1, <1>5 DEF TellInv, InTurn
  <2>2. \A b, d \in Chain : b < d /\ chains'[d].stage # "none" => chains'[b].stage # "none"
    BY <1>1, <1>3, <1>5 DEF TellInv, InTurn
  <2>3. ASSUME NEW n \in Commit \ overlapped, NEW b \in ChainsOf(n)', NEW d \in ChainsOf(n)',
               b < d, chains'[d].stage # "sent"
        PROVE  chains'[b].stage \in Over
    <3>1. d # c /\ d \in ChainsOf(n) /\ d \in Chain
      BY <1>1, <1>7, <2>3
    <3>2. b # c
      BY <1>4, <1>8, <2>3, <3>1
    <3> QED BY <1>5, <1>7, <2>3, <3>1, <3>2 DEF TellInv, InTurn
  <2> QED BY <1>1, <2>1, <2>2, <2>3 DEF InTurn
<1>10. Outcomes'
  BY <1>1, <1>5 DEF TellInv, Outcomes, Concluding
<1>11. ASSUME NEW n \in Commit \ overlapped PROVE Told(n)'
  BY <1>1, <1>5, <1>7, <1>11 DEF TellInv, Told
<1> QED BY <1>1, <1>9, <1>10, <1>11 DEF TellInv

LEMMA ScheduleTells ==
    ASSUME Inv, OneInv, TellInv, NEW c \in Chain, Schedule(c)
    PROVE  TellInv'
<1>1. /\ UNCHANGED checks /\ OnlyOf(c)
      /\ chains'[c].commit = chains[c].commit /\ chains'[c].seen = chains[c].seen
      /\ \/ chains'[c].stage = "queue"
         \/ chains'[c].stage = "skip" /\ chains'[c].want = "skipped"
      /\ chains[c].stage = "sent" /\ overlapped \subseteq overlapped'
  BY DEF Schedule, At, GoesToWrite, OnlyOf, Inv, TypeOK, ChainState
<1>2. \A n \in Commit : ChainsOf(n)' = ChainsOf(n) /\ ChainsOf(n) \subseteq Chain
  BY <1>1 DEF ChainsOf, CommitOf, OnlyOf
<1>3. \A d \in Chain \ {c} : chains'[d] = chains[d]
  BY <1>1 DEF OnlyOf
<1>4. CommitOf(c) \notin overlapped' => \A b \in ChainsOf(CommitOf(c)) : b < c => chains[b].stage \in Over
  <2>1. c \in Nat
    BY DEF Chain
  <2>2. \A b \in ChainsOf(CommitOf(c)) : b < c => b # c
    BY <2>1
  <2> QED BY <2>2 DEF Schedule, At
<1>5. InTurn'
  <2>1. \A d \in Chain : chains'[d].stage = "none" => chains'[d] = Unused
    BY <1>1, <1>3 DEF TellInv, InTurn
  <2>2. \A b, d \in Chain : b < d /\ chains'[d].stage # "none" => chains'[b].stage # "none"
    BY <1>1, <1>3 DEF TellInv, InTurn
  <2>3. ASSUME NEW n \in Commit \ overlapped', NEW b \in ChainsOf(n), NEW d \in ChainsOf(n),
               b < d, chains'[d].stage # "sent"
        PROVE  chains'[b].stage \in Over
    <3>0. n \in Commit \ overlapped /\ b \in Chain /\ d \in Chain
      BY <1>1, <1>2, <2>3
    <3>1. CASE d = c
      <4>1. chains[b].stage \in Over
        BY <1>4, <2>3, <3>1 DEF ChainsOf, CommitOf
      <4> QED BY <1>1, <1>3, <3>0, <4>1 DEF Over
    <3>2. CASE d # c
      <4>1. chains[b].stage \in Over
        BY <1>3, <2>3, <3>0, <3>2 DEF TellInv, InTurn
      <4> QED BY <1>1, <1>3, <3>0, <4>1 DEF Over
    <3> QED BY <3>1, <3>2
  <2> QED BY <1>2, <2>1, <2>2, <2>3 DEF InTurn
<1>6. Outcomes'
  BY <1>1, <1>3 DEF TellInv, Outcomes, Concluding, Completed
<1>7. ASSUME NEW n \in Commit \ overlapped' PROVE Told(n)'
  BY <1>1, <1>2, <1>3, <1>7 DEF TellInv, Told
<1> QED BY <1>5, <1>6, <1>7 DEF TellInv

(* The write that ends a chain leaves the outcome and nothing else.        *)
LEMMA WriteTells ==
    ASSUME Inv, OneInv, TellInv, NEW c \in Chain, CheckWritten(c) \/ CheckNotWritten(c)
    PROVE  TellInv'
<1> DEFINE n == chains[c].commit  k == chains[c].seen  w == chains[c].want
<1>1. /\ UNCHANGED overlapped /\ OnlyOf(c)
      /\ chains'[c].commit = n /\ chains'[c].seen = Nothing /\ chains'[c].want = w
      /\ chains[c].stage \in Writing
      /\ chains'[c].stage \in {"pipeline", "load", "ended"}
      /\ chains'[c].stage = "ended" => chains[c].stage \in Concluding
      /\ ~chains'[c].unheard => CheckWritten(c)
  BY DEF CheckWritten, CheckNotWritten, Written, AfterWriting, At, Writes, Writing, Concluding,
         historyVars, OnlyOf, Inv, TypeOK, ChainState
<1>2. Busy(c) /\ n \in Commit /\ chains[c].stage \notin Over \cup {"none", "sent", "ended"}
  BY <1>1 DEF Busy, Idle, Over, Writing, Inv, IndexInv
<1>3. checks[n] \in Seq(CheckStatus) /\ w \in CheckStatus /\ k \in Nat \cup {Nothing}
  BY <1>2 DEF Inv, TypeOK, ChainState
<1>4. \A m \in Commit \ {n} : checks'[m] = checks[m]
  BY DEF CheckWritten, CheckNotWritten, Inv, TypeOK, CommitOf
<1>5. CheckWritten(c) =>
         k # Nothing /\ checks'[n] = (IF k = 0 THEN Append(checks[n], w) ELSE [checks[n] EXCEPT ![k] = w])
  BY <1>2 DEF CheckWritten, Inv, TypeOK, CommitOf
<1>6. \A m \in Commit : ChainsOf(m)' = ChainsOf(m) /\ ChainsOf(m) \subseteq Chain
  BY <1>1 DEF ChainsOf, CommitOf, OnlyOf
<1>7. \A d \in Chain \ {c} : chains'[d] = chains[d]
  BY <1>1 DEF OnlyOf
<1>8. InTurn'
  <2>1. \A d \in Chain : chains'[d].stage = "none" => chains'[d] = Unused
    BY <1>1, <1>7 DEF TellInv, InTurn
  <2>2. \A b, d \in Chain : b < d /\ chains'[d].stage # "none" => chains'[b].stage # "none"
    BY <1>1, <1>2, <1>7 DEF TellInv, InTurn
  <2>3. ASSUME NEW m \in Commit \ overlapped, NEW b \in ChainsOf(m), NEW d \in ChainsOf(m),
               b < d, chains'[d].stage # "sent"
        PROVE  chains'[b].stage \in Over
    <3>1. b \in Chain /\ d \in Chain
      BY <1>6, <2>3
    <3>2. chains[d].stage # "sent"
      BY <1>2, <1>7, <2>3, <3>1
    <3>3. chains[b].stage \in Over
      BY <2>3, <3>2 DEF TellInv, InTurn
    <3> QED BY <1>2, <1>7, <3>1, <3>3
  <2> QED BY <1>1, <1>6, <2>1, <2>2, <2>3 DEF InTurn
<1>9. DOMAIN checks[n] \subseteq DOMAIN checks'[n]
  <2>1. CASE CheckWritten(c) /\ k = 0
    <3>1. checks'[n] = Append(checks[n], w)
      BY <1>5, <2>1
    <3> QED BY <1>3, <3>1
  <2>2. CASE CheckWritten(c) /\ k # 0
    <3>1. checks'[n] = [checks[n] EXCEPT ![k] = w]
      BY <1>5, <2>2
    <3> QED BY <1>3, <3>1
  <2>3. CASE CheckNotWritten(c)
    BY <2>3 DEF CheckNotWritten
  <2> QED BY <2>1, <2>2, <2>3
<1>10. Outcomes'
  <2>1. \A d \in Chain : chains'[d].stage \in Concluding => chains'[d].want \in Completed
    BY <1>1, <1>7 DEF TellInv, Outcomes, Concluding
  <2>2. ASSUME NEW d \in Chain, chains'[d].seen \notin {0, Nothing}
        PROVE  chains'[d].seen \in DOMAIN checks'[chains'[d].commit]
    <3>1. d # c /\ chains'[d] = chains[d]
      BY <1>1, <1>7, <2>2
    <3>2. chains[d].seen \in DOMAIN checks[chains[d].commit]
      BY <2>2, <3>1 DEF TellInv, Outcomes
    <3>3. chains[d].commit \in Commit
      <4>1. chains[d].stage # "none"
        BY <2>2, <3>1 DEF TellInv, InTurn, Unused
      <4> QED BY <4>1 DEF Inv, IndexInv
    <3> QED BY <1>4, <1>9, <3>1, <3>2, <3>3
  <2> QED BY <2>1, <2>2 DEF Outcomes
<1>11. ASSUME NEW m \in Commit \ overlapped, NEW d \in ChainsOf(m),
              \A b \in ChainsOf(m) : b <= d, chains'[d].stage = "ended", ~chains'[d].unheard
       PROVE  checks'[m] = <<chains'[d].want>> /\ chains'[d].want \in Completed
  <2>1. CASE d = c
    <3>1. m = n /\ w \in Completed /\ CheckWritten(c)
      BY <1>1, <1>11, <2>1 DEF TellInv, Outcomes, ChainsOf, CommitOf
    <3>2. Len(checks[n]) <= 1 /\ (k = 0 => checks[n] = <<>>)
      BY <1>2, <1>11, <3>1 DEF OneInv, ChainsOf, CommitOf
    <3>3. CASE k = 0
      <4>1. checks'[n] = Append(<<>>, w)
        BY <1>5, <3>1, <3>2, <3>3
      <4> QED BY <1>1, <1>3, <2>1, <3>1, <4>1
    <3>4. CASE k # 0
      <4>1. k \in DOMAIN checks[n]
        BY <1>5, <3>1, <3>4 DEF TellInv, Outcomes
      <4>2. k = 1 /\ Len(checks[n]) = 1
        <5>1. DOMAIN checks[n] = 1..Len(checks[n]) /\ Len(checks[n]) \in Nat
          BY <1>3
        <5>2. Len(checks[n]) <= 1
          BY <3>2
        <5>3. k \in 1..Len(checks[n])
          BY <4>1, <5>1
        <5>4. \A l \in Nat : \A j \in 1..l : l <= 1 => j = 1 /\ l = 1
          OBVIOUS
        <5> QED BY <5>1, <5>2, <5>3, <5>4
      <4>3. checks'[n] = [checks[n] EXCEPT ![1] = w]
        BY <1>5, <3>1, <3>4, <4>2
      <4>4. checks'[n] = <<w>>
        BY <1>3, <4>2, <4>3
      <4> QED BY <1>1, <2>1, <3>1, <4>4
    <3> QED BY <3>3, <3>4
  <2>2. CASE d # c
    <3>1. chains'[d] = chains[d] /\ d \in Chain
      BY <1>6, <1>7, <1>11, <2>2
    <3>2. m # n
      <4> SUFFICES ASSUME m = n PROVE FALSE
        OBVIOUS
      <4>1. c \in ChainsOf(m) /\ c < d
        BY <1>11, <2>2 DEF ChainsOf, CommitOf, Chain
      <4>2. chains[c].stage \in Over
        BY <1>11, <3>1, <4>1 DEF TellInv, InTurn
      <4> QED BY <1>2, <4>2
    <3> QED BY <1>4, <1>11, <3>1, <3>2 DEF TellInv, Told
  <2> QED BY <2>1, <2>2
<1>12. ASSUME NEW m \in Commit \ overlapped PROVE Told(m)'
  BY <1>6, <1>11, <1>12 DEF Told
<1> QED BY <1>1, <1>8, <1>10, <1>12 DEF TellInv

LEMMA TellInductive == Spec => []TellInv
<1>1. Init => TellInv
  <2>1. Nothing \notin Commit
    BY PipelineAssumption DEF Commit, PipelineAssumption
  <2> QED BY <2>1 DEF Init, TellInv, InTurn, Outcomes, Told, Unused, ChainsOf, CommitOf, Concluding
<1>2. Inv /\ OneInv /\ TellInv /\ [Next]_vars => TellInv'
  <2> SUFFICES ASSUME Inv, OneInv, TellInv, [Next]_vars PROVE TellInv'
    OBVIOUS
  <2>1. ASSUME NEW p \in PullRequest, NEW c \in Chain, HeadAnnounced(p, c) PROVE TellInv'
    BY <2>1, AnnouncedTells
  <2>2. ASSUME NEW c \in Chain, TaskStep(c) PROVE TellInv'
    BY <2>2, ScheduleTells, ListedTells, WriteTells, MovesTell DEF TaskStep, Moves
  <2>3. ASSUME NEW c \in Chain, CheckNotWritten(c) \/ TaskLost(c) PROVE TellInv'
    BY <2>3, WriteTells, LostTells
  <2>4. CASE UNCHANGED vars
    BY <2>4 DEF TellInv, InTurn, Outcomes, Told, vars, historyVars, ChainsOf, CommitOf
  <2> QED BY <2>1, <2>2, <2>3, <2>4 DEF Next
<1> QED BY <1>1, <1>2, Inductive, OneInductive, PTL DEF Spec

(* Among chains there is a last: a set of them that holds no smaller set   *)
(* of those from some chain on.                                            *)
LEMMA LastExists ==
    ASSUME NEW C \in SUBSET Chain, C # {}
    PROVE  \E c \in C : \A b \in C : b <= c
<1> DEFINE From(c) == {b \in C : c <= b}
           F == {s \in SUBSET Chain : \E c \in C : s = From(c)}
<1>0. Chain \subseteq Nat /\ IsFiniteSet(Chain)
  BY FS_Interval, PipelineAssumption DEF Chain, PipelineAssumption
<1>1. F \subseteq SUBSET Chain /\ F # {}
  <2>1. PICK c : c \in C
    OBVIOUS
  <2>2. From(c) \in F
    BY <2>1
  <2> QED BY <2>2
<1>2. PICK s \in F : \A t \in F : <<t, s>> \notin StrictSubsetOrdering(Chain)
  <2> HIDE DEF F
  <2>1. IsWellFoundedOn(StrictSubsetOrdering(Chain), SUBSET Chain)
    BY <1>0, FS_StrictSubsetOrderingWellFounded, FS_FiniteSubsetsOfFinite
  <2> QED BY <1>1, <2>1, WFMin
<1>3. PICK c \in C : s = From(c)
  BY <1>2
<1>4. ASSUME NEW b \in C PROVE b <= c
  <2> SUFFICES ASSUME c < b PROVE FALSE
    BY <1>0
  <2>1. From(b) \in F
    OBVIOUS
  <2>2. From(b) \subseteq s /\ c \in s /\ c \notin From(b)
    <3>1. b \in Nat /\ c \in Nat /\ \A x \in C : x \in Nat
      BY <1>0
    <3>2. \A x \in C : b <= x => c <= x
      BY <3>1
    <3>3. c <= c /\ ~(b <= c)
      BY <3>1
    <3> QED BY <1>3, <3>2, <3>3
  <2>3. <<From(b), s>> \in StrictSubsetOrdering(Chain)
    BY <1>3, <2>1, <2>2 DEF StrictSubsetOrdering
  <2> QED BY <1>2, <2>1, <2>3
<1> QED BY <1>4

(* When the chains of a commit ran one after the other and all are over,   *)
(* its check, written by listing and updating, says how the last one ended *)
(* if that one's last write got through: no earlier word stands after it.  *)
THEOREM CheckTells == Spec => []CheckTellsOutcome
<1>1. Inv /\ TellInv => CheckTellsOutcome
  <2> SUFFICES ASSUME Inv, TellInv, NEW n \in Commit \ overlapped, ChainsOf(n) # {},
                      chains[LastChain(n)].stage = "ended", ~chains[LastChain(n)].unheard
               PROVE  /\ checks[n] = <<chains[LastChain(n)].want>>
                      /\ chains[LastChain(n)].want \in Completed
    BY DEF CheckTellsOutcome
  <2>1. ChainsOf(n) \in SUBSET Chain
    BY DEF ChainsOf
  <2>2. LastChain(n) \in ChainsOf(n) /\ \A b \in ChainsOf(n) : b <= LastChain(n)
    BY <2>1, LastExists DEF LastChain
  <2> QED BY <2>2 DEF TellInv, Told
<1> QED BY <1>1, Inductive, TellInductive, PTL
=============================================================================
