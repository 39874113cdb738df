------------------------- MODULE ReviewMemoryProofs -------------------------
(***************************************************************************)
(* Theorems about ReviewMemory, for any tasks, commits, units, bodies,     *)
(* history, models and bound on crashes.                                   *)
(*                                                                         *)
(* Everything rests on one fact: a row of review_runs that has ended never *)
(* changes, because only the task that inserted it writes to it, and only  *)
(* while it reviews.  RunStage ties the rows to the tasks' stages.         *)
(***************************************************************************)
EXTENDS ReviewMemory, SequenceTheorems, TLAPS

RunOfStage(t) ==
    /\ stage[t] # "idle" => commit[t] \in Commit
    /\ stage[t] \notin {"reviewed", "reconciling"} => result[t] = t
    /\ stage[t] \in {"idle", "queued", "started", "compared", "prepared"}
        => runs[t] = NoRun
    /\ stage[t] = "reviewing"
        => /\ runs[t] \in Run
           /\ runs[t].status = "running"
           /\ Identity(runs[t]) = OwnIdentity(t)
    /\ stage[t] \in {"reviewed", "reconciling"}
        => /\ runs[result[t]] \in Run
           /\ runs[result[t]].status \in Ended
           /\ runs[result[t]].commit = commit[t]

RunStage == \A t \in Task : RunOfStage(t)

DecisionsKnown ==
    \A t \in Task : \A d \in decisions[t] : memory[d.finding] # NoFinding

TypeInv == TypeOK /\ RunStage /\ DecisionsKnown

LEMMA StatusOfEnds ==
  ASSUME NEW r, NEW f, NEW b
  PROVE  StatusOf(r, f, b) \in Ended
BY DEF StatusOf, Ended

LEMMA TypeInvInit == Init => TypeInv
BY MemoryAssumption
DEF Init, TypeInv, TypeOK, RunStage, RunOfStage, DecisionsKnown, NoMemoryContext, Context,
    Mode, Stage, Finding

(***************************************************************************)
(* Rows of runs that have ended stay as they are.                          *)
(***************************************************************************)
HasEnded(r) == runs[r] # NoRun /\ runs[r].status \in Ended

LEMMA EndedRowsStay ==
  ASSUME TypeInv, NEW t \in Task, TaskStep(t), NEW r \in Task, HasEnded(r)
  PROVE  runs'[r] = runs[r]
<1> USE DEF TypeInv, TypeOK, RunStage, RunOfStage, HasEnded, Ended
<1>1. CASE runs' = runs
  BY <1>1
<1>2. CASE GetOrCreateRun(t)
  BY <1>2 DEF GetOrCreateRun, ReuseRun, StartRun, InsertRunning
<1>3. CASE FinishRun(t)
  <2>1. r # t
    BY <1>3 DEF FinishRun
  <2>2. CASE Superseded(t)
    BY <2>1, <2>2 DEF Superseded, MarkFailed
  <2>3. CASE PersistReview(t)
    BY <2>1, <2>3 DEF PersistReview, Persist
  <2> QED BY <1>3, <2>2, <2>3 DEF FinishRun
<1>4. CASE RunRaises(t)
  <2>1. r # t
    BY <1>4 DEF RunRaises
  <2> QED BY <1>4, <2>1 DEF RunRaises, MarkFailed
<1> QED
  BY <1>1, <1>2, <1>3, <1>4
  DEF TaskStep, Enqueue, Start, ReadLatest, ReadOpenFindings, FinalizeCheck,
      FinalizeCommit, Crash

(***************************************************************************)
(* Type correctness.                                                       *)
(***************************************************************************)
LEMMA ResolveType ==
  ASSUME NEW p, NEW c, NEW confirmed
  PROVE  Resolve(p, c, confirmed) \subseteq Decision
<1>1. ASSUME NEW f \in LiveFindings
      PROVE  /\ f \in Finding
             /\ DispositionOf(f, p, c, confirmed) \in Disposition
             /\ Tracked(f, p) \in BOOLEAN
  BY <1>1 DEF LiveFindings, DispositionOf, Disposition, Tracked
<1> QED BY <1>1 DEF Resolve, Decision

LEMMA ResolveKnown ==
  ASSUME NEW p, NEW c, NEW confirmed, NEW d \in Resolve(p, c, confirmed)
  PROVE  memory[d.finding] # NoFinding
<1>1. PICK f \in LiveFindings : d.finding = f
  BY DEF Resolve
<1>2. memory[f].status \in {"open", "kept"}
  BY DEF LiveFindings, Live
<1> QED BY <1>1, <1>2 DEF NoFinding

LEMMA TransitionType ==
  ASSUME TypeInv, NEW t \in Task, stage[t] = "reconciling", NEW d \in decisions[t]
  PROVE  Transition(t, d) \in MemoryFinding
<1> DEFINE f == d.finding
           at == IF d.tracked /\ d.as # "gone" THEN commit[t] ELSE memory[f].at
           u == CHOOSE v \in MatchesOf(t, d) : TRUE
<1>1. f \in Finding /\ memory[f] \in MemoryFinding
  BY DEF TypeInv, TypeOK, DecisionsKnown, Decision
<1>2. commit[t] \in Commit /\ result[t] \in Task /\ runs[result[t]] \in Run
  BY DEF TypeInv, TypeOK, RunStage, RunOfStage
<1>3. at \in Commit /\ memory[f].current \in Finding
  BY <1>1, <1>2 DEF MemoryFinding
<1>4. MatchesOf(t, d) \subseteq Unit
  BY <1>2 DEF MatchesOf, Run
<1>5. CASE MatchesOf(t, d) # {}
  <2>1. u \in Unit
    BY <1>4, <1>5
  <2>2. \A v \in Unit : <<result[t], v>> \in Finding
    BY <1>2 DEF Finding
  <2>3. Transition(t, d) = [status |-> "kept", at |-> at, current |-> <<result[t], u>>]
    BY <1>5 DEF Transition
  <2> HIDE DEF u, at
  <2> QED BY <2>1, <2>2, <2>3, <1>3 DEF MemoryFinding, Live
<1>6. CASE MatchesOf(t, d) = {}
  <2>1. Transition(t, d) = [status |-> IF d.as = "carry" THEN "kept" ELSE "resolved",
                            at |-> at, current |-> memory[f].current]
    BY <1>6 DEF Transition
  <2> QED BY <2>1, <1>3 DEF MemoryFinding, Live
<1> QED BY <1>5, <1>6

LEMMA RememberedType ==
  ASSUME TypeInv, NEW t \in Task, stage[t] = "reconciling"
  PROVE  /\ Remembered(t) \in [Finding -> MemoryFinding \cup {NoFinding}]
         /\ \A f \in Finding : memory[f] # NoFinding => Remembered(t)[f] # NoFinding
<1>1. ASSUME NEW f \in Finding
      PROVE  /\ Decided(t)[f] \in MemoryFinding \cup {NoFinding}
             /\ memory[f] # NoFinding => Decided(t)[f] \in MemoryFinding
  <2>1. CASE \E d \in decisions[t] : d.finding = f
    <3> DEFINE d == CHOOSE e \in decisions[t] : e.finding = f
    <3>1. d \in decisions[t]
      BY <2>1
    <3>2. Transition(t, d) \in MemoryFinding
      BY <3>1, TransitionType
    <3> QED BY <2>1, <3>2 DEF Decided
  <2>2. CASE ~ \E d \in decisions[t] : d.finding = f
    BY <2>2 DEF Decided, TypeInv, TypeOK
  <2> QED BY <2>1, <2>2
<1>2. commit[t] \in Commit
  BY DEF TypeInv, RunStage, RunOfStage
<1>3. ASSUME NEW f \in Finding
      PROVE  /\ Remembered(t)[f] \in MemoryFinding \cup {NoFinding}
             /\ memory[f] # NoFinding => Remembered(t)[f] \in MemoryFinding
  <2>1. CASE f[1] = result[t] /\ f[2] \in NewFindings(t)
    BY <2>1, <1>2, <1>3 DEF Remembered, MemoryFinding, Live
  <2>2. CASE /\ ~(f[1] = result[t] /\ f[2] \in NewFindings(t))
             /\ f[2] \in NewFindings(t) /\ Decided(t)[f].status \in Live
    <3>1. Decided(t)[f] \in MemoryFinding
      BY <2>2, <1>1, <1>3 DEF NoFinding, Live
    <3>2. Remembered(t)[f] = [Decided(t)[f] EXCEPT !.status = "superseded"]
      BY <2>2, <1>3 DEF Remembered
    <3> QED BY <3>1, <3>2 DEF MemoryFinding
  <2>3. CASE /\ ~(f[1] = result[t] /\ f[2] \in NewFindings(t))
             /\ ~(f[2] \in NewFindings(t) /\ Decided(t)[f].status \in Live)
    BY <2>3, <1>1, <1>3 DEF Remembered
  <2> QED BY <2>1, <2>2, <2>3
<1>4. NoFinding \notin MemoryFinding
  BY DEF NoFinding, MemoryFinding, Live
<1> QED BY <1>3, <1>4 DEF Remembered

(***************************************************************************)
(* A step of one task leaves what the others know, and their rows, alone.  *)
(***************************************************************************)
LEMMA OthersStay ==
  ASSUME TypeInv, NEW t \in Task, TaskStep(t), NEW u \in Task, u # t
  PROVE  /\ runs'[u] = runs[u] /\ stage'[u] = stage[u] /\ commit'[u] = commit[u]
         /\ context'[u] = context[u] /\ result'[u] = result[u]
         /\ decisions'[u] = decisions[u] /\ prev'[u] = prev[u]
         /\ selected'[u] = selected[u]
<1> USE DEF TypeInv, TypeOK, Goto, End, taskVars
<1>1. CASE Enqueue(t) \/ Start(t)
  BY <1>1 DEF Enqueue, Start
<1>2. CASE ReadLatest(t)
  BY <1>2 DEF ReadLatest, NoUsableGeneration, AncestryNotProven, SameCommitRaises,
              AncestryProven, PrepareFull
<1>3. CASE ReadOpenFindings(t)
  BY <1>3 DEF ReadOpenFindings
<1>4. CASE GetOrCreateRun(t)
  BY <1>4 DEF GetOrCreateRun, ReuseRun, StartRun, InsertRunning
<1>5. CASE FinishRun(t)
  <2>1. CASE Superseded(t)
    BY <1>5, <2>1 DEF FinishRun, Superseded, MarkFailed
  <2>2. CASE PersistReview(t)
    <3>1. runs'[u] = runs[u]
      BY <2>2 DEF PersistReview, Persist
    <3>2. UNCHANGED result
      BY <2>2 DEF PersistReview
    <3> QED BY <1>5, <3>1, <3>2 DEF FinishRun
  <2> QED BY <1>5, <2>1, <2>2 DEF FinishRun
<1>6. CASE RunRaises(t)
  BY <1>6 DEF RunRaises, MarkFailed
<1>7. CASE FinalizeCheck(t)
  BY <1>7 DEF FinalizeCheck
<1>8. CASE FinalizeCommit(t)
  BY <1>8 DEF FinalizeCommit, CreateGeneration, FinalizeRaises
<1>9. CASE Crash(t)
  BY <1>9 DEF Crash
<1> QED
  BY <1>1, <1>2, <1>3, <1>4, <1>5, <1>6, <1>7, <1>8, <1>9 DEF TaskStep

LEMMA MemoryStays ==
  ASSUME TypeInv, NEW t \in Task, TaskStep(t), NEW f \in Finding, memory[f] # NoFinding
  PROVE  memory'[f] # NoFinding
<1>1. CASE memory' = memory
  BY <1>1
<1>2. CASE FinalizeCommit(t)
  BY <1>2, RememberedType DEF FinalizeCommit, CreateGeneration, FinalizeRaises
<1> QED
  BY <1>1, <1>2
  DEF TaskStep, Enqueue, Start, ReadLatest, ReadOpenFindings, GetOrCreateRun, FinishRun,
      RunRaises, FinalizeCheck, Crash, taskVars

LEMMA OthersKeepRunOfStage ==
  ASSUME TypeInv, NEW t \in Task, TaskStep(t), NEW u \in Task, u # t
  PROVE  RunOfStage(u)'
<1>1. RunOfStage(u)
  BY DEF TypeInv, RunStage
<1>2. CASE stage[u] \in {"reviewed", "reconciling"}
  <2>1. HasEnded(result[u]) /\ result[u] \in Task
    BY <1>1, <1>2 DEF RunOfStage, HasEnded, TypeInv, TypeOK, NoRun, Ended
  <2>2. runs'[result[u]] = runs[result[u]]
    BY <2>1, EndedRowsStay
  <2> QED BY <1>1, <1>2, <2>2, OthersStay DEF RunOfStage
<1>3. CASE stage[u] \notin {"reviewed", "reconciling"}
  BY <1>1, <1>3, OthersStay DEF RunOfStage, OwnIdentity, Identity
<1> QED BY <1>2, <1>3

LEMMA OwnDecisionsKnown ==
  ASSUME TypeInv, NEW t \in Task, TaskStep(t), NEW d \in decisions'[t]
  PROVE  memory[d.finding] # NoFinding
<1> USE DEF TypeInv, TypeOK, DecisionsKnown, End, taskVars
<1>1. CASE decisions' = decisions \/ decisions' = [decisions EXCEPT ![t] = {}]
  BY <1>1
<1>2. CASE ReadOpenFindings(t)
  <2>1. PICK confirmed \in SUBSET LiveFindings :
          decisions' = [decisions EXCEPT ![t] =
              Resolve(generations[prev[t]].commit, commit[t], confirmed)]
    BY <1>2 DEF ReadOpenFindings
  <2>2. d \in Resolve(generations[prev[t]].commit, commit[t], confirmed)
    BY <2>1
  <2> QED BY <2>2, ResolveKnown
<1> QED
  BY <1>1, <1>2
  DEF TaskStep, Enqueue, Start, ReadLatest, NoUsableGeneration, AncestryNotProven,
      SameCommitRaises, AncestryProven, PrepareFull, GetOrCreateRun, FinishRun,
      RunRaises, FinalizeCheck, FinalizeCommit, CreateGeneration, FinalizeRaises, Crash

(***************************************************************************)
(* Type correctness, one step per action.                                  *)
(***************************************************************************)
LEMMA GetOrCreateType ==
  ASSUME TypeInv, NEW t \in Task, GetOrCreateRun(t)
  PROVE  TypeOK' /\ RunOfStage(t)'
<1> USE DEF TypeInv, TypeOK, RunStage, RunOfStage, GetOrCreateRun, Goto, Stage
<1>1. CASE ReuseRun(t)
  <2>1. PICK r \in SucceededRuns(OwnIdentity(t)) : result' = [result EXCEPT ![t] = r]
    BY <1>1 DEF ReuseRun
  <2>2. /\ r \in Task /\ runs[r] \in Run
        /\ runs[r].status = "succeeded" /\ runs[r].commit = commit[t]
    BY <2>1 DEF SucceededRuns, Identity, OwnIdentity, NoRun
  <2> QED BY <1>1, <2>1, <2>2 DEF ReuseRun, Ended
<1>2. CASE StartRun(t)
  <2> DEFINE row == [status |-> "running", commit |-> commit[t], model |-> ModelOf[t],
                     context |-> context[t], offered |-> {}, reviewed |-> {},
                     findings |-> {}]
  <2>1. row \in Run /\ row.status = "running" /\ Identity(row) = OwnIdentity(t)
    BY MemoryAssumption DEF Run, Identity, OwnIdentity
  <2>2. runs' = [runs EXCEPT ![t] = row]
    BY <1>2 DEF StartRun, InsertRunning
  <2> HIDE DEF row
  <2>3. OwnIdentity(t)' = OwnIdentity(t)
    BY DEF OwnIdentity
  <2> QED BY <1>2, <2>1, <2>2, <2>3 DEF StartRun, Identity
<1> QED BY <1>1, <1>2

LEMMA FinishType ==
  ASSUME TypeInv, NEW t \in Task, FinishRun(t)
  PROVE  TypeOK' /\ RunOfStage(t)'
<1> USE DEF TypeInv, TypeOK, RunStage, RunOfStage, FinishRun, Goto, Stage
<1>1. runs[t] \in Run /\ Identity(runs[t]) = OwnIdentity(t)
  OBVIOUS
<1>2. CASE Superseded(t)
  <2>1. PICK r \in SucceededRuns(OwnIdentity(t)) : result' = [result EXCEPT ![t] = r]
    BY <1>2 DEF Superseded
  <2>2. /\ r \in Task /\ r # t /\ runs[r] \in Run
        /\ runs[r].status = "succeeded" /\ runs[r].commit = commit[t]
    BY <2>1 DEF SucceededRuns, Identity, OwnIdentity, NoRun
  <2>3. runs' = [runs EXCEPT ![t] = [runs[t] EXCEPT !.status = "failed"]]
    BY <1>2 DEF Superseded, MarkFailed
  <2>4. [runs[t] EXCEPT !.status = "failed"] \in Run
    BY <1>1 DEF Run, Ended
  <2>5. runs'[r] = runs[r] /\ result'[t] = r
    BY <2>1, <2>2, <2>3
  <2> QED BY <2>1, <2>2, <2>3, <2>4, <2>5 DEF Ended
<1>3. CASE PersistReview(t)
  <2>1. PICK reviewed \in SUBSET selected[t] :
          \E failed \in SUBSET (selected[t] \ reviewed), found \in SUBSET reviewed,
             terminated \in BOOLEAN :
               Persist(t, StatusOf(reviewed, failed, terminated),
                       selected[t], reviewed, found)
    BY <1>3 DEF PersistReview
  <2>2. PICK failed \in SUBSET (selected[t] \ reviewed), found \in SUBSET reviewed,
             terminated \in BOOLEAN :
          Persist(t, StatusOf(reviewed, failed, terminated), selected[t], reviewed, found)
    BY <2>1
  <2> DEFINE status == StatusOf(reviewed, failed, terminated)
             row == [runs[t] EXCEPT !.status = status, !.offered = selected[t],
                                    !.reviewed = reviewed, !.findings = found]
  <2>3. status \in Ended
    BY StatusOfEnds
  <2> HIDE DEF status
  <2>4. runs' = [runs EXCEPT ![t] = row]
    BY <2>2, <1>1 DEF Persist, status
  <2>5. selected[t] \subseteq Unit
    OBVIOUS
  <2>6. row \in Run /\ row.status \in Ended /\ row.commit = runs[t].commit
    BY <2>3, <2>5, <1>1 DEF Run
  <2> HIDE DEF row
  <2>7. runs[t].commit = commit[t]
    BY <1>1 DEF Identity, OwnIdentity
  <2> QED BY <1>3, <2>4, <2>6, <2>7 DEF PersistReview
<1> QED BY <1>2, <1>3

LEMMA PrepareType ==
  ASSUME TypeInv, NEW t \in Task, ReadLatest(t) \/ ReadOpenFindings(t)
  PROVE  TypeOK' /\ RunOfStage(t)'
<1> USE DEF TypeInv, TypeOK, RunStage, RunOfStage, Goto, Stage
<1>1. Len(generations) \in Nat /\ NoMemoryContext \in Context
  BY DEF NoMemoryContext, Context, Mode
<1>2. Candidates(commit[t]) \subseteq Unit
  BY DEF Candidates, Touched
<1>3. CASE ReadLatest(t)
  <2>1. CASE PrepareFull(t)
    BY <1>1, <1>2, <1>3, <2>1 DEF ReadLatest, PrepareFull
  <2>2. CASE SameCommitRaises(t)
    BY <1>1, <1>3, <2>2 DEF ReadLatest, SameCommitRaises, End
  <2>3. CASE AncestryProven(t)
    BY <1>1, <1>3, <2>3 DEF ReadLatest, AncestryProven
  <2> QED
    BY <1>3, <2>1, <2>2, <2>3 DEF ReadLatest, NoUsableGeneration, AncestryNotProven
<1>4. CASE ReadOpenFindings(t)
  <2> DEFINE g == generations[prev[t]]
  <2>1. PICK confirmed \in SUBSET LiveFindings, mode \in Mode, units \in SUBSET Unit :
          /\ decisions' = [decisions EXCEPT ![t] = Resolve(g.commit, commit[t], confirmed)]
          /\ context' = [context EXCEPT ![t] = <<mode, prev[t]>>]
          /\ selected' = [selected EXCEPT ![t] = units]
    <3> DEFINE ds(confirmed) == Resolve(g.commit, commit[t], confirmed)
               mode == IF g.model = ModelOf[t] THEN "incremental" ELSE "full"
               units(confirmed) == IF mode = "full" THEN Candidates(commit[t])
                                   ELSE Incremental(g.commit, commit[t], ds(confirmed))
    <3>1. PICK confirmed \in SUBSET LiveFindings :
            /\ decisions' = [decisions EXCEPT ![t] = ds(confirmed)]
            /\ context' = [context EXCEPT ![t] = <<mode, prev[t]>>]
            /\ selected' = [selected EXCEPT ![t] = units(confirmed)]
      BY <1>4 DEF ReadOpenFindings
    <3>2. mode \in Mode /\ units(confirmed) \in SUBSET Unit
      BY <1>2 DEF Mode, Incremental
    <3> HIDE DEF mode, units
    <3> QED BY <3>1, <3>2
  <2>2. <<mode, prev[t]>> \in Context
    BY DEF Context
  <2>3. Resolve(g.commit, commit[t], confirmed) \in SUBSET Decision
    BY ResolveType
  <2> QED BY <1>4, <2>1, <2>2, <2>3 DEF ReadOpenFindings
<1> QED BY <1>3, <1>4

LEMMA FinalizeType ==
  ASSUME TypeInv, NEW t \in Task, FinalizeCheck(t) \/ FinalizeCommit(t)
  PROVE  TypeOK' /\ RunOfStage(t)'
<1> USE DEF TypeInv, TypeOK, RunStage, RunOfStage, Goto, Stage, End, taskVars
<1>1. NoMemoryContext \in Context
  BY DEF NoMemoryContext, Context, Mode
<1>2. CASE FinalizeCheck(t)
  <2>1. CASE End(t, "done")
    BY <1>1, <1>2, <2>1 DEF FinalizeCheck
  <2>2. CASE Goto(t, "reconciling") /\ UNCHANGED taskVars
    BY <1>2, <2>2 DEF FinalizeCheck
  <2> QED BY <1>2, <2>1, <2>2 DEF FinalizeCheck
<1>3. CASE FinalizeCommit(t) /\ CreateGeneration(t)
  <2> DEFINE g == [run |-> result[t], commit |-> commit[t], model |-> ModelOf[t],
                   previous |-> prev[t]]
  <2>1. g \in Generation
    BY <1>3, MemoryAssumption DEF FinalizeCommit, Generation
  <2>2. generations' \in Seq(Generation)
    BY <1>3, <2>1 DEF CreateGeneration
  <2> HIDE DEF g
  <2>3. memory' \in [Finding -> MemoryFinding \cup {NoFinding}]
    BY <1>3, RememberedType DEF FinalizeCommit, CreateGeneration
  <2> QED BY <1>1, <1>3, <2>2, <2>3 DEF FinalizeCommit, CreateGeneration
<1>4. CASE FinalizeCommit(t) /\ FinalizeRaises(t)
  BY <1>1, <1>4 DEF FinalizeCommit, FinalizeRaises
<1> QED BY <1>2, <1>3, <1>4 DEF FinalizeCommit

LEMMA SimpleType ==
  ASSUME TypeInv, NEW t \in Task, Enqueue(t) \/ Start(t) \/ RunRaises(t) \/ Crash(t)
  PROVE  TypeOK' /\ RunOfStage(t)'
<1> USE DEF TypeInv, TypeOK, RunStage, RunOfStage, Goto, Stage, End, taskVars
<1>1. NoMemoryContext \in Context
  BY DEF NoMemoryContext, Context, Mode
<1>2. CASE Enqueue(t)
  BY <1>2 DEF Enqueue
<1>3. CASE Start(t)
  BY <1>3 DEF Start
<1>4. CASE RunRaises(t)
  <2>1. runs' = [runs EXCEPT ![t] = [runs[t] EXCEPT !.status = "failed"]]
    BY <1>4 DEF RunRaises, MarkFailed
  <2>2. [runs[t] EXCEPT !.status = "failed"] \in Run
    <3>1. runs[t] \in Run
      BY <1>4 DEF RunRaises
    <3> QED BY <3>1 DEF Run, Ended
  <2> QED BY <1>1, <1>4, <2>1, <2>2 DEF RunRaises
<1>5. CASE Crash(t)
  BY <1>1, <1>5 DEF Crash, Ending
<1> QED BY <1>2, <1>3, <1>4, <1>5

LEMMA TypeInvStep == TypeInv /\ [Next]_vars => TypeInv'
<1> SUFFICES ASSUME TypeInv, [Next]_vars PROVE TypeInv'
  OBVIOUS
<1>1. ASSUME NEW t \in Task, TaskStep(t) PROVE TypeInv'
  <2>1. TypeOK' /\ RunOfStage(t)'
    BY <1>1, GetOrCreateType, FinishType, PrepareType, FinalizeType, SimpleType DEF TaskStep
  <2>2. RunStage'
    BY <1>1, <2>1, OthersKeepRunOfStage DEF RunStage
  <2>3. ASSUME NEW u \in Task, NEW d \in decisions'[u] PROVE memory'[d.finding] # NoFinding
    <3>1. memory[d.finding] # NoFinding
      <4>1. CASE u = t
        BY <1>1, <2>3, <4>1, OwnDecisionsKnown
      <4>2. CASE u # t
        BY <1>1, <2>3, <4>2, OthersStay DEF TypeInv, DecisionsKnown
      <4> QED BY <4>1, <4>2
    <3>2. d.finding \in Finding
      BY <2>1, <2>3 DEF TypeOK, Decision
    <3> QED BY <1>1, <3>1, <3>2, MemoryStays
  <2> QED BY <2>1, <2>2, <2>3 DEF TypeInv, DecisionsKnown
<1>2. ASSUME NEW c \in Commit, Push(c) PROVE TypeInv'
  BY <1>2 DEF TypeInv, TypeOK, RunStage, RunOfStage, DecisionsKnown, Push, taskVars,
              OwnIdentity, Identity
<1>3. CASE UNCHANGED vars
  BY <1>3 DEF TypeInv, TypeOK, RunStage, RunOfStage, DecisionsKnown, vars, taskVars,
              OwnIdentity, Identity
<1> QED BY <1>1, <1>2, <1>3 DEF Next

LEMMA TypeInvHolds == Spec => []TypeInv
BY TypeInvInit, TypeInvStep, PTL DEF Spec

(***************************************************************************)
(* Every variable keeps its type, however tasks, pushes and crashes         *)
(* interleave.                                                             *)
(***************************************************************************)
THEOREM TypeCorrect == Spec => []TypeOK
<1>1. TypeInv => TypeOK
  BY DEF TypeInv
<1> QED BY <1>1, TypeInvHolds, PTL

(***************************************************************************)
(* A run that SUCCEEDED is final: no losing, failing or late worker        *)
(* changes the row that others reuse.                                      *)
(***************************************************************************)
THEOREM SucceededStays == Spec => SucceededIsFinal
<1>1. ASSUME TypeInv, [Next]_vars, NEW r \in Task, runs[r].status = "succeeded"
      PROVE  runs'[r] = runs[r]
  <2>1. HasEnded(r)
    BY <1>1 DEF HasEnded, Ended, NoRun
  <2>2. ASSUME NEW t \in Task, TaskStep(t) PROVE runs'[r] = runs[r]
    BY <1>1, <2>1, <2>2, EndedRowsStay
  <2>3. CASE runs' = runs
    BY <2>3
  <2> QED BY <1>1, <2>2, <2>3 DEF Next, Push, vars
<1>2. TypeInv /\ [Next]_vars
        => [\A t \in Task : runs[t].status = "succeeded" => runs'[t] = runs[t]]_runs
  BY <1>1
<1> QED BY <1>2, TypeInvHolds, PTL DEF Spec, SucceededIsFinal

(***************************************************************************)
(* A run comes to SUCCEED in one way only: its task persists it, with the  *)
(* candidates it had selected, when no other run of its identity has.      *)
(***************************************************************************)
LEMMA BecomesSucceeded ==
  ASSUME TypeInv, NEW t \in Task, TaskStep(t),
         runs[t].status # "succeeded", runs'[t].status = "succeeded"
  PROVE  /\ stage[t] = "reviewing" /\ ~ClaimLost(t)
         /\ Identity(runs'[t]) = Identity(runs[t])
         /\ Identity(runs[t]) = OwnIdentity(t)
         /\ runs'[t].offered = selected[t]
<1> USE DEF TypeInv, TypeOK, RunStage, RunOfStage
<1>1. CASE runs' = runs
  BY <1>1
<1>2. CASE GetOrCreateRun(t)
  BY <1>2 DEF GetOrCreateRun, ReuseRun, StartRun, InsertRunning
<1>3. ASSUME MarkFailed(t), runs[t] \in Run PROVE FALSE
  <2>1. runs' = [runs EXCEPT ![t] = [runs[t] EXCEPT !.status = "failed"]]
    BY <1>3 DEF MarkFailed
  <2>2. runs'[t].status = "failed"
    BY <1>3, <2>1 DEF Run
  <2> QED BY <2>2
<1>4. CASE FinishRun(t)
  <2>1. stage[t] = "reviewing" /\ runs[t] \in Run /\ Identity(runs[t]) = OwnIdentity(t)
    BY <1>4 DEF FinishRun
  <2>2. PersistReview(t)
    BY <1>3, <1>4, <2>1 DEF FinishRun, Superseded
  <2>3. PICK s, reviewed, found : Persist(t, s, selected[t], reviewed, found)
    BY <2>2 DEF PersistReview
  <2>4. runs' = [runs EXCEPT ![t] =
                   [runs[t] EXCEPT !.status = s, !.offered = selected[t],
                                   !.reviewed = reviewed, !.findings = found]]
    BY <2>1, <2>3 DEF Persist
  <2>5. /\ runs'[t].commit = runs[t].commit /\ runs'[t].model = runs[t].model
        /\ runs'[t].context = runs[t].context /\ runs'[t].offered = selected[t]
    BY <2>1, <2>4 DEF Run
  <2> QED BY <2>1, <2>2, <2>5 DEF PersistReview, Identity
<1>5. CASE RunRaises(t)
  BY <1>3, <1>5 DEF RunRaises
<1> QED
  BY <1>1, <1>2, <1>4, <1>5
  DEF TaskStep, Enqueue, Start, ReadLatest, ReadOpenFindings, FinalizeCheck,
      FinalizeCommit, Crash

LEMMA SucceededHasEnded ==
  ASSUME NEW r \in Task, runs[r].status = "succeeded"
  PROVE  HasEnded(r)
BY DEF HasEnded, Ended, NoRun

(***************************************************************************)
(* At most one run of an identity SUCCEEDS, whichever workers race for it. *)
(***************************************************************************)
THEOREM OneSucceeded == Spec => []OneSucceededPerIdentity
<1>1. Init => OneSucceededPerIdentity
  BY DEF Init, OneSucceededPerIdentity, NoRun
<1>2. ASSUME TypeInv, OneSucceededPerIdentity, [Next]_vars
      PROVE  OneSucceededPerIdentity'
  <2>1. CASE runs' = runs
    BY <1>2, <2>1 DEF OneSucceededPerIdentity, Identity
  <2>2. ASSUME NEW t \in Task, TaskStep(t) PROVE OneSucceededPerIdentity'
    <3>1. ASSUME NEW u \in Task, NEW v \in Task, u # v,
                 runs'[u].status = "succeeded", runs'[v].status = "succeeded",
                 Identity(runs'[u]) = Identity(runs'[v])
          PROVE  FALSE
      <4>1. ASSUME NEW w \in Task, runs'[w].status = "succeeded"
            PROVE  \/ runs'[w] = runs[w] /\ runs[w].status = "succeeded"
                   \/ w = t /\ runs[w].status # "succeeded"
        BY <1>2, <2>2, <4>1, OthersStay, EndedRowsStay, SucceededHasEnded
      <4>2. ASSUME NEW w \in Task, w # t, runs'[w].status = "succeeded",
                   runs'[t].status = "succeeded", runs[t].status # "succeeded",
                   Identity(runs'[w]) = Identity(runs'[t])
            PROVE  FALSE
        <5>1. runs[w].status = "succeeded" /\ runs'[w] = runs[w]
          BY <4>1, <4>2
        <5>2. ~ClaimLost(t) /\ Identity(runs'[t]) = Identity(runs[t])
          BY <1>2, <2>2, <4>2, BecomesSucceeded
        <5>3. w \in SucceededRuns(Identity(runs[t])) \ {t}
          BY <4>2, <5>1, <5>2 DEF SucceededRuns
        <5> QED BY <5>2, <5>3 DEF ClaimLost
      <4> QED BY <1>2, <3>1, <4>1, <4>2 DEF OneSucceededPerIdentity
    <3> QED BY <3>1 DEF OneSucceededPerIdentity
  <2> QED BY <1>2, <2>1, <2>2 DEF Next, Push, vars
<1> QED BY <1>1, <1>2, TypeInvHolds, PTL DEF Spec

(***************************************************************************)
(* A run has at most one generation, made after the run ended and at its   *)
(* commit, also when two workers finalize the same run.                    *)
(***************************************************************************)
LEMMA GenerationsStep ==
  ASSUME TypeInv, GenerationsMatchRuns, [Next]_vars
  PROVE  GenerationsMatchRuns'
<1> USE DEF TypeInv, TypeOK
<1>1. ASSUME NEW i \in DOMAIN generations
      PROVE  /\ generations[i].run \in Task
             /\ runs'[generations[i].run] = runs[generations[i].run]
  <2>1. generations[i].run \in Task
    <3>1. generations[i] \in Generation
      OBVIOUS
    <3> QED BY <3>1 DEF Generation
  <2>2. HasEnded(generations[i].run)
    BY <2>1 DEF GenerationsMatchRuns, HasEnded, Ended, NoRun
  <2>3. ASSUME NEW t \in Task, TaskStep(t)
        PROVE  runs'[generations[i].run] = runs[generations[i].run]
    BY <2>1, <2>2, <2>3, EndedRowsStay
  <2> QED BY <2>1, <2>3 DEF Next, Push, vars
<1>2. CASE generations' = generations
  BY <1>1, <1>2 DEF GenerationsMatchRuns
<1>3. ASSUME NEW t \in Task, FinalizeCommit(t), CreateGeneration(t)
      PROVE  GenerationsMatchRuns'
  <2> DEFINE g == [run |-> result[t], commit |-> commit[t], model |-> ModelOf[t],
                   previous |-> prev[t]]
             n == Len(generations) + 1
  <2>1. g.run = result[t] /\ g.commit = commit[t]
    OBVIOUS
  <2>2. generations' = Append(generations, g)
    BY <1>3 DEF CreateGeneration
  <2> HIDE DEF g
  <2>3. /\ DOMAIN generations' = DOMAIN generations \cup {n} /\ n \notin DOMAIN generations
        /\ generations'[n] = g
        /\ \A i \in DOMAIN generations : generations'[i] = generations[i]
    BY <2>2
  <2> HIDE DEF n
  <2>4. runs'[result[t]].status \in Ended /\ runs'[result[t]].commit = commit[t]
    BY <1>3 DEF FinalizeCommit, RunStage, RunOfStage
  <2>5. \A i \in DOMAIN generations : generations[i].run # result[t]
    BY <1>3 DEF CreateGeneration, ConstraintViolated, HasGeneration
  <2> QED BY <1>1, <2>1, <2>3, <2>4, <2>5 DEF GenerationsMatchRuns
<1> QED
  BY <1>2, <1>3
  DEF Next, Push, vars, TaskStep, Enqueue, Start, ReadLatest, ReadOpenFindings,
      GetOrCreateRun, FinishRun, RunRaises, FinalizeCheck, FinalizeCommit,
      FinalizeRaises, Crash

THEOREM GenerationsMatch == Spec => []GenerationsMatchRuns
<1>1. Init => GenerationsMatchRuns
  BY DEF Init, GenerationsMatchRuns
<1> QED BY <1>1, GenerationsStep, TypeInvHolds, PTL DEF Spec

(***************************************************************************)
(* Incremental review never skips code nobody was asked to look at, when   *)
(* the cap on candidates cuts nothing off.  What makes it inductive:       *)
(* every run that SUCCEEDED covers all that its commit touches, itself or  *)
(* through runs before it, and the run a task starts from SUCCEEDED.       *)
(***************************************************************************)
NothingIsCut == \A c \in Commit : Candidates(c) = Touched(c)

SucceededCovers ==
    \A r \in Task : runs[r].status = "succeeded" =>
        \A u \in Touched(runs[r].commit) : WasOffered(u, Body[runs[r].commit][u])

StartsFromSucceeded ==
    \A t \in Task : stage[t] = "compared" =>
        /\ prev[t] \in DOMAIN generations
        /\ runs[generations[prev[t]].run].status = "succeeded"

CoverInv == /\ TypeInv /\ GenerationsMatchRuns
            /\ SucceededCovers /\ StartsFromSucceeded /\ SkippedCodeWasOffered

LEMMA SucceededRowsStay ==
  ASSUME TypeInv, [Next]_vars, NEW r \in Task, runs[r].status = "succeeded"
  PROVE  runs'[r] = runs[r]
<1>1. ASSUME NEW t \in Task, TaskStep(t) PROVE runs'[r] = runs[r]
  BY <1>1, EndedRowsStay, SucceededHasEnded
<1> QED BY <1>1 DEF Next, Push, vars

LEMMA WasOfferedStays ==
  ASSUME TypeInv, [Next]_vars, NEW u, NEW b, WasOffered(u, b)
  PROVE  WasOffered(u, b)'
BY SucceededRowsStay DEF WasOffered

(* The code an incremental plan leaves out was covered by the run it       *)
(* starts from.                                                            *)
LEMMA IncrementalSkips ==
  ASSUME CoverInv, NEW t \in Task, ReadOpenFindings(t), NothingIsCut,
         NEW u \in Candidates(commit[t]) \ selected'[t]
  PROVE  WasOffered(u, Body[commit[t]][u])
<1> DEFINE g == generations[prev[t]]
           c == commit[t]
           p == g.commit
<1>1. PICK confirmed \in SUBSET LiveFindings :
        selected' = [selected EXCEPT ![t] =
            IF (IF g.model = ModelOf[t] THEN "incremental" ELSE "full") = "full"
              THEN Candidates(c)
              ELSE Incremental(p, c, Resolve(p, c, confirmed))]
  BY DEF ReadOpenFindings
<1>2. u \notin Incremental(p, c, Resolve(p, c, confirmed)) /\ u \in Candidates(c)
  BY <1>1 DEF CoverInv, TypeInv, TypeOK
<1>3. u \in Unit /\ Body[p][u] = Body[c][u]
  BY <1>2 DEF Incremental, FilesChanged, SymbolsChanged, Candidates, Touched
<1>4. c \in Commit
  BY DEF ReadOpenFindings, CoverInv, TypeInv, RunStage, RunOfStage
<1>5. u \in Touched(c)
  BY <1>2, <1>4 DEF NothingIsCut
<1>6. u \in Touched(p)
  BY <1>3, <1>5 DEF Touched
<1>7. prev[t] \in DOMAIN generations /\ runs[g.run].status = "succeeded"
  BY DEF ReadOpenFindings, CoverInv, StartsFromSucceeded
<1>8. runs[g.run].commit = p
  BY <1>7 DEF CoverInv, GenerationsMatchRuns
<1>9. g.run \in Task
  <2>1. g \in Generation
    BY <1>7 DEF CoverInv, TypeInv, TypeOK
  <2> QED BY <2>1 DEF Generation
<1> QED BY <1>3, <1>6, <1>7, <1>8, <1>9 DEF CoverInv, SucceededCovers

LEMMA SkippedStep ==
  ASSUME CoverInv, NothingIsCut, [Next]_vars
  PROVE  SkippedCodeWasOffered'
<1> SUFFICES ASSUME NEW t \in Task, stage'[t] \in Planned,
                    NEW u \in Candidates(commit'[t]) \ selected'[t],
                    NEW body, body = Body[commit'[t]][u]
             PROVE  WasOffered(u, body)'
  BY DEF SkippedCodeWasOffered, Candidates, Touched, WasOffered, Planned
<1> USE DEF CoverInv, TypeInv, TypeOK, Planned, Goto
<1>1. CASE stage'[t] = stage[t] /\ commit'[t] = commit[t] /\ selected'[t] = selected[t]
  BY <1>1, WasOfferedStays DEF SkippedCodeWasOffered
<1>2. CASE PrepareFull(t)
  BY <1>2 DEF PrepareFull
<1>3. CASE ReadOpenFindings(t)
  <2>1. commit'[t] = commit[t]
    BY <1>3 DEF ReadOpenFindings
  <2>2. WasOffered(u, body)
    BY <1>3, <2>1, IncrementalSkips
  <2> QED BY <2>1, <2>2, WasOfferedStays
<1>4. CASE GetOrCreateRun(t)
  <2>1. stage[t] \in Planned /\ commit'[t] = commit[t] /\ selected'[t] = selected[t]
    BY <1>4 DEF GetOrCreateRun
  <2> QED BY <2>1, WasOfferedStays DEF SkippedCodeWasOffered
<1>5. ASSUME NEW v \in Task, v # t, TaskStep(v)
      PROVE  stage'[t] = stage[t] /\ commit'[t] = commit[t] /\ selected'[t] = selected[t]
  BY <1>5, OthersStay
<1>6. ASSUME TaskStep(t)
      PROVE  PrepareFull(t) \/ ReadOpenFindings(t) \/ GetOrCreateRun(t)
  <2> USE DEF Stage, End, taskVars
  <2>1. ~ FinalizeCommit(t) /\ ~ FinalizeCheck(t)
    BY DEF FinalizeCommit, CreateGeneration, FinalizeRaises, FinalizeCheck
  <2>2. ~ Enqueue(t) /\ ~ Start(t) /\ ~ FinishRun(t) /\ ~ RunRaises(t) /\ ~ Crash(t)
    BY DEF Enqueue, Start, FinishRun, RunRaises, Crash
  <2> QED
    BY <1>6, <2>1, <2>2
    DEF TaskStep, ReadLatest, NoUsableGeneration, AncestryNotProven, SameCommitRaises,
        AncestryProven
<1> QED
  BY <1>1, <1>2, <1>3, <1>4, <1>5, <1>6 DEF Next, Push, vars, taskVars

LEMMA CoversStep ==
  ASSUME CoverInv, NothingIsCut, [Next]_vars
  PROVE  SucceededCovers'
<1> SUFFICES ASSUME NEW r \in Task, runs'[r].status = "succeeded",
                    NEW u \in Touched(runs'[r].commit),
                    NEW body, body = Body[runs'[r].commit][u]
             PROVE  WasOffered(u, body)'
  BY DEF SucceededCovers, Touched, WasOffered
<1>1. CASE runs[r].status = "succeeded"
  <2>1. runs'[r] = runs[r]
    BY <1>1, SucceededRowsStay DEF CoverInv
  <2>2. WasOffered(u, body)
    BY <1>1, <2>1 DEF CoverInv, SucceededCovers
  <2> QED BY <2>2, WasOfferedStays DEF CoverInv
<1>2. ASSUME runs[r].status # "succeeded", TaskStep(r)
      PROVE  WasOffered(u, body)'
  <2>1. /\ stage[r] = "reviewing" /\ runs'[r].offered = selected[r]
        /\ Identity(runs'[r]) = OwnIdentity(r)
    BY <1>2, BecomesSucceeded DEF CoverInv
  <2>2. runs'[r].commit = commit[r] /\ commit[r] \in Commit
    BY <2>1 DEF Identity, OwnIdentity, CoverInv, TypeInv, RunStage, RunOfStage
  <2>3. u \in Candidates(commit[r])
    BY <2>2 DEF NothingIsCut
  <2>4. CASE u \in selected[r]
    BY <2>1, <2>4 DEF WasOffered
  <2>5. CASE u \notin selected[r]
    <3>1. WasOffered(u, body)
      BY <2>1, <2>2, <2>3, <2>5 DEF CoverInv, SkippedCodeWasOffered, Planned
    <3> QED BY <3>1, WasOfferedStays DEF CoverInv
  <2> QED BY <2>4, <2>5
<1>3. ASSUME NEW t \in Task, t # r, TaskStep(t)
      PROVE  runs'[r] = runs[r]
  BY <1>3, OthersStay DEF CoverInv
<1>4. CASE runs' = runs
  BY <1>1, <1>4
<1> QED BY <1>1, <1>2, <1>3, <1>4 DEF Next, Push, vars

LEMMA StartsStep ==
  ASSUME CoverInv, [Next]_vars
  PROVE  StartsFromSucceeded'
<1> USE DEF CoverInv, TypeInv, TypeOK, Goto
<1> SUFFICES ASSUME NEW t \in Task, stage'[t] = "compared"
             PROVE  /\ prev'[t] \in DOMAIN generations'
                    /\ runs'[generations'[prev'[t]].run].status = "succeeded"
  BY DEF StartsFromSucceeded
<1>1. \A i \in DOMAIN generations :
        i \in DOMAIN generations' /\ generations'[i] = generations[i]
  <2>1. CASE generations' = generations
    BY <2>1
  <2>2. ASSUME NEW v \in Task, CreateGeneration(v)
        PROVE  \A i \in DOMAIN generations :
                 i \in DOMAIN generations' /\ generations'[i] = generations[i]
    <3>1. PICK g : generations' = Append(generations, g)
      BY <2>2 DEF CreateGeneration
    <3> QED BY <3>1
  <2> QED
    BY <2>1, <2>2
    DEF Next, Push, vars, TaskStep, Enqueue, Start, ReadLatest, ReadOpenFindings,
        GetOrCreateRun, FinishRun, RunRaises, FinalizeCheck, FinalizeCommit,
        FinalizeRaises, Crash
<1>2. ASSUME NEW i \in DOMAIN generations, runs[generations[i].run].status = "succeeded"
      PROVE  runs'[generations[i].run].status = "succeeded"
  <2>1. generations[i].run \in Task
    <3>1. generations[i] \in Generation
      OBVIOUS
    <3> QED BY <3>1 DEF Generation
  <2> QED BY <1>2, <2>1, SucceededRowsStay
<1>3. CASE stage[t] = "compared" /\ prev'[t] = prev[t]
  BY <1>1, <1>2, <1>3 DEF StartsFromSucceeded
<1>4. CASE AncestryProven(t)
  <2>1. prev'[t] = Len(generations)
    BY <1>4 DEF AncestryProven
  <2>2. Len(generations) \in DOMAIN generations
    BY <1>4 DEF AncestryProven, HasUsableGeneration
  <2>3. runs[generations[Len(generations)].run].status = "succeeded"
    BY <1>4 DEF AncestryProven, HasUsableGeneration, Latest
  <2> QED BY <1>1, <1>2, <2>1, <2>2, <2>3
<1>5. ASSUME NEW v \in Task, v # t, TaskStep(v)
      PROVE  stage[t] = "compared" /\ prev'[t] = prev[t]
  BY <1>5, OthersStay
<1>6. ASSUME TaskStep(t) PROVE AncestryProven(t)
  <2> USE DEF Stage, End, taskVars
  <2>1. ~ FinalizeCommit(t) /\ ~ FinalizeCheck(t)
    BY DEF FinalizeCommit, CreateGeneration, FinalizeRaises, FinalizeCheck
  <2>2. ~ Enqueue(t) /\ ~ Start(t) /\ ~ FinishRun(t) /\ ~ RunRaises(t) /\ ~ Crash(t)
    BY DEF Enqueue, Start, FinishRun, RunRaises, Crash
  <2>3. ~ GetOrCreateRun(t) /\ ~ ReadOpenFindings(t)
    BY DEF GetOrCreateRun, ReuseRun, StartRun, ReadOpenFindings
  <2> QED
    BY <1>6, <2>1, <2>2, <2>3
    DEF TaskStep, ReadLatest, NoUsableGeneration, AncestryNotProven, SameCommitRaises,
        PrepareFull
<1> QED BY <1>3, <1>4, <1>5, <1>6 DEF Next, Push, vars, taskVars

THEOREM SkippedWasOffered ==
  ASSUME NothingIsCut
  PROVE  Spec => []SkippedCodeWasOffered
<1>1. Init => CoverInv
  <2>1. Init => SucceededCovers /\ StartsFromSucceeded /\ SkippedCodeWasOffered
    BY DEF Init, SucceededCovers, StartsFromSucceeded, SkippedCodeWasOffered, Planned, NoRun
  <2>2. Init => GenerationsMatchRuns
    BY DEF Init, GenerationsMatchRuns
  <2> QED BY <2>1, <2>2, TypeInvInit DEF CoverInv
<1>2. CoverInv /\ [Next]_vars => CoverInv'
  <2>1. CoverInv /\ [Next]_vars => TypeInv' /\ GenerationsMatchRuns'
    BY TypeInvStep, GenerationsStep DEF CoverInv
  <2> QED BY <2>1, CoversStep, StartsStep, SkippedStep DEF CoverInv
<1>3. CoverInv => SkippedCodeWasOffered
  BY DEF CoverInv
<1> QED BY <1>1, <1>2, <1>3, PTL DEF Spec

(***************************************************************************)
(* What becomes of findings.  A task has one decision on each finding it   *)
(* read; a tracked one that is to be rechecked is selected whenever it is  *)
(* a candidate; and a run that the task wrote itself offered what it       *)
(* selected.                                                               *)
(***************************************************************************)
DecidedOf(t) ==
    /\ stage[t] = "idle" => decisions[t] = {}
    /\ \A d, e \in decisions[t] : d.finding = e.finding => d = e
    /\ \A d \in decisions[t] : d.tracked =>
         /\ d.as = "gone" => Body[commit[t]][d.finding[2]] = NoBody
         /\ d.as = "recheck" /\ d.finding[2] \in Candidates(commit[t])
              => d.finding[2] \in selected[t]
    /\ stage[t] \in {"reviewed", "reconciling"} /\ result[t] = t
         => runs[t].offered = selected[t]

DecidedInv == \A t \in Task : DecidedOf(t)

LEMMA ResolveDecides ==
  ASSUME NEW p, NEW c, NEW confirmed, NEW d \in Resolve(p, c, confirmed)
  PROVE  /\ \A e \in Resolve(p, c, confirmed) : d.finding = e.finding => d = e
         /\ d.tracked => /\ d.finding[2] \notin Region
                         /\ d.as = "gone" => Body[c][d.finding[2]] = NoBody
<1>1. ASSUME NEW f \in LiveFindings, Tracked(f, p), DispositionOf(f, p, c, confirmed) = "gone"
      PROVE  Body[c][f[2]] = NoBody
  BY <1>1 DEF DispositionOf, Tracked
<1>2. PICK f \in LiveFindings :
        d = [finding |-> f, as |-> DispositionOf(f, p, c, confirmed), tracked |-> Tracked(f, p)]
  BY DEF Resolve
<1>3. ASSUME NEW e \in Resolve(p, c, confirmed), d.finding = e.finding PROVE d = e
  <2>1. PICK g \in LiveFindings :
          e = [finding |-> g, as |-> DispositionOf(g, p, c, confirmed), tracked |-> Tracked(g, p)]
    BY DEF Resolve
  <2> QED BY <1>2, <1>3, <2>1
<1>4. d.tracked => d.finding[2] \notin Region
  BY <1>2 DEF Tracked
<1>5. d.tracked /\ d.as = "gone" => Body[c][d.finding[2]] = NoBody
  BY <1>1, <1>2
<1> QED BY <1>3, <1>4, <1>5

LEMMA ReadDecides ==
  ASSUME TypeInv, NEW t \in Task, ReadOpenFindings(t)
  PROVE  DecidedOf(t)'
<1> USE DEF TypeInv, TypeOK
<1> DEFINE g == generations[prev[t]]
           c == commit[t]
           mode == IF g.model = ModelOf[t] THEN "incremental" ELSE "full"
<1>1. PICK confirmed \in SUBSET LiveFindings :
        /\ decisions' = [decisions EXCEPT ![t] = Resolve(g.commit, c, confirmed)]
        /\ selected' = [selected EXCEPT ![t] =
             IF mode = "full" THEN Candidates(c)
             ELSE Incremental(g.commit, c, Resolve(g.commit, c, confirmed))]
  BY DEF ReadOpenFindings
<1> DEFINE ds == Resolve(g.commit, c, confirmed)
<1>2. /\ decisions'[t] = ds /\ stage'[t] = "prepared" /\ commit'[t] = c
      /\ selected'[t] = IF mode = "full" THEN Candidates(c) ELSE Incremental(g.commit, c, ds)
  BY <1>1 DEF ReadOpenFindings, Goto
<1>3. \A d \in ds : /\ \A e \in ds : d.finding = e.finding => d = e
                    /\ d.tracked => /\ d.finding[2] \notin Region
                                    /\ d.as = "gone" => Body[c][d.finding[2]] = NoBody
  BY ResolveDecides
<1>4. ASSUME NEW d \in ds, d.tracked, d.as = "recheck", d.finding[2] \in Candidates(c)
      PROVE  d.finding[2] \in selected'[t]
  <2>1. d.finding[2] \in Incremental(g.commit, c, ds)
    <3>1. d.finding[2] \notin Region
      BY <1>3, <1>4
    <3> HIDE DEF ds
    <3> QED BY <1>4, <3>1 DEF Incremental
  <2> QED BY <1>2, <1>4, <2>1
<1>5. Candidates(commit[t])' = Candidates(c)
  BY <1>2 DEF Candidates, Touched
<1> HIDE DEF ds, mode, c
<1> QED BY <1>2, <1>3, <1>4, <1>5 DEF DecidedOf, c

LEMMA CandidatesFollow ==
  ASSUME NEW t \in Task
  PROVE  Candidates(commit[t])' = Candidates(commit'[t])
BY DEF Candidates, Touched

(* A step that leaves what DecidedOf speaks of keeps it.                   *)
LEMMA DecidedKept ==
  ASSUME NEW t \in Task, DecidedOf(t), stage'[t] = "idle" => stage[t] = "idle",
         commit'[t] = commit[t], selected'[t] = selected[t], decisions'[t] = decisions[t],
         stage'[t] \in {"reviewed", "reconciling"} /\ result'[t] = t
           => runs'[t].offered = selected'[t]
  PROVE  DecidedOf(t)'
<1>1. Candidates(commit[t])' = Candidates(commit[t])
  BY CandidatesFollow
<1> QED BY <1>1 DEF DecidedOf

LEMMA DecidedOfOthers ==
  ASSUME TypeInv, NEW t \in Task, TaskStep(t), NEW u \in Task, u # t, DecidedOf(u)
  PROVE  DecidedOf(u)'
<1>1. /\ runs'[u] = runs[u] /\ stage'[u] = stage[u] /\ commit'[u] = commit[u]
      /\ result'[u] = result[u] /\ decisions'[u] = decisions[u] /\ selected'[u] = selected[u]
  BY OthersStay
<1>2. stage'[u] \in {"reviewed", "reconciling"} /\ result'[u] = u => runs'[u].offered = selected'[u]
  BY <1>1 DEF DecidedOf
<1> QED BY <1>1, <1>2, DecidedKept

LEMMA DecidedStep ==
  ASSUME TypeInv, DecidedInv, NEW t \in Task, TaskStep(t)
  PROVE  DecidedInv'
<1> USE DEF TypeInv, TypeOK, Goto
<1> SUFFICES DecidedOf(t)'
  BY DecidedOfOthers DEF DecidedInv
<1>2. DecidedOf(t)
  BY DEF DecidedInv
<1>3. ASSUME decisions'[t] = {}, stage'[t] \notin {"reviewed", "reconciling"}
      PROVE  DecidedOf(t)'
  BY <1>3 DEF DecidedOf
<1>4. CASE ReadOpenFindings(t)
  BY <1>4, ReadDecides
<1>5. CASE GetOrCreateRun(t)
  <2>1. /\ UNCHANGED <<commit, selected, decisions>> /\ stage'[t] # "idle"
        /\ stage'[t] # "reconciling"
        /\ stage'[t] = "reviewed" => ReuseRun(t)
    BY <1>5 DEF GetOrCreateRun, ReuseRun, StartRun
  <2>2. ReuseRun(t) => result'[t] # t
    BY <1>5 DEF GetOrCreateRun, ReuseRun, SucceededRuns, RunStage, RunOfStage, NoRun
  <2> QED BY <1>2, <2>1, <2>2, DecidedKept
<1>6. CASE FinishRun(t)
  <2>1. UNCHANGED <<commit, selected, decisions>> /\ stage'[t] = "reviewed"
    BY <1>6 DEF FinishRun
  <2>2. runs[t] \in Run /\ runs[t].status = "running"
    BY <1>6 DEF FinishRun, RunStage, RunOfStage
  <2>3. Superseded(t) => result'[t] # t
    BY <2>2 DEF Superseded, SucceededRuns
  <2>4. ASSUME PersistReview(t) PROVE runs'[t].offered = selected[t]
    <3>2. PICK reviewed, s, found : Persist(t, s, selected[t], reviewed, found)
      BY <2>4 DEF PersistReview
    <3>3. runs'[t] = [runs[t] EXCEPT !.status = s, !.offered = selected[t],
                                     !.reviewed = reviewed, !.findings = found]
      BY <3>2 DEF Persist
    <3> QED BY <2>2, <3>3 DEF Run
  <2> QED BY <1>2, <1>6, <2>1, <2>3, <2>4, DecidedKept DEF FinishRun
<1>7. CASE FinalizeCheck(t)
  <2>1. CASE End(t, "done")
    BY <1>3, <2>1 DEF End
  <2>2. CASE Goto(t, "reconciling") /\ UNCHANGED taskVars
    <3>1. stage[t] = "reviewed" /\ UNCHANGED runs
      BY <1>7 DEF FinalizeCheck
    <3> QED BY <1>2, <2>2, <3>1, DecidedKept DEF taskVars, DecidedOf
  <2> QED BY <1>7, <2>1, <2>2 DEF FinalizeCheck
<1>8. CASE Enqueue(t)
  BY <1>2, <1>3, <1>8 DEF Enqueue, DecidedOf
<1>9. CASE Start(t)
  BY <1>2, <1>9, DecidedKept DEF Start, taskVars
<1>10. CASE ReadLatest(t)
  <2>1. CASE AncestryProven(t)
    BY <1>2, <2>1, DecidedKept DEF AncestryProven
  <2>2. CASE PrepareFull(t) \/ End(t, "failed")
    BY <1>3, <2>2 DEF PrepareFull, End
  <2> QED BY <1>10, <2>1, <2>2 DEF ReadLatest, NoUsableGeneration, AncestryNotProven, SameCommitRaises
<1>11. CASE RunRaises(t) \/ FinalizeCommit(t) \/ Crash(t)
  BY <1>3, <1>11 DEF RunRaises, FinalizeCommit, CreateGeneration, FinalizeRaises, Crash, End
<1> QED BY <1>4, <1>5, <1>6, <1>7, <1>8, <1>9, <1>10, <1>11 DEF TaskStep

LEMMA DecidedHolds == Spec => []DecidedInv
<1>1. Init => DecidedInv
  BY DEF Init, DecidedInv, DecidedOf
<1>2. TypeInv /\ DecidedInv /\ [Next]_vars => DecidedInv'
  <2>1. ASSUME DecidedInv, UNCHANGED <<runs, stage, taskVars>>, NEW t \in Task PROVE DecidedOf(t)'
    <3>1. DecidedOf(t)
      BY <2>1 DEF DecidedInv
    <3>2. /\ stage' = stage /\ commit' = commit /\ selected' = selected /\ decisions' = decisions
          /\ result' = result /\ runs' = runs
      BY <2>1 DEF taskVars
    <3>3. stage'[t] \in {"reviewed", "reconciling"} /\ result'[t] = t => runs'[t].offered = selected'[t]
      BY <3>1, <3>2 DEF DecidedOf
    <3> QED BY <3>1, <3>2, <3>3, DecidedKept
  <2>2. DecidedInv /\ UNCHANGED <<runs, stage, taskVars>> => DecidedInv'
    BY <2>1 DEF DecidedInv
  <2> QED BY <2>2, DecidedStep DEF Next, Push, vars
<1> QED BY <1>1, <1>2, TypeInvHolds, PTL DEF Spec

(* The decision on a finding is the one that finalize follows.             *)
LEMMA DecidedIsTransition ==
  ASSUME TypeInv, DecidedInv, NEW t \in Task, NEW d \in decisions[t]
  PROVE  d.finding \in Finding /\ Decided(t)[d.finding] = Transition(t, d)
<1>1. d.finding \in Finding /\ \A e \in decisions[t] : e.finding = d.finding => e = d
  BY DEF TypeInv, TypeOK, Decision, DecidedInv, DecidedOf
<1>2. (CHOOSE e \in decisions[t] : e.finding = d.finding) = d
  BY <1>1
<1> QED BY <1>1, <1>2 DEF Decided

LEMMA GenerationTracks ==
  ASSUME TypeInv, DecidedInv, NEW t \in Task, FinalizeCommit(t), CreateGeneration(t),
         NEW u \in runs[result[t]].findings \ Region
  PROVE  \E f \in Finding : memory'[f].status \in Live /\ memory'[f].current = <<result[t], u>>
<1>1. result[t] \in Task /\ runs[result[t]] \in Run /\ u \in Unit
  BY DEF FinalizeCommit, TypeInv, TypeOK, RunStage, RunOfStage, Run
<1>2. memory' = Remembered(t)
  BY DEF CreateGeneration
<1>3. CASE u \in NewFindings(t)
  <2> DEFINE f == <<result[t], u>>
  <2>1. f \in Finding /\ f[1] = result[t] /\ f[2] = u
    BY <1>1 DEF Finding
  <2> HIDE DEF f
  <2>2. memory'[f] = [status |-> "open", at |-> commit[t], current |-> f]
    BY <1>2, <1>3, <2>1 DEF Remembered
  <2> QED BY <2>1, <2>2 DEF Live, f
<1>4. CASE u \notin NewFindings(t)
  <2>1. PICK d \in decisions[t] : u \in MatchesOf(t, d)
    BY <1>4 DEF NewFindings, Matched
  <2>2. d.as # "gone" /\ Matches(d, u)
    BY <2>1 DEF MatchesOf
  <2>3. d.tracked /\ u = d.finding[2]
    BY <2>2 DEF Matches
  <2>4. MatchesOf(t, d) = {u}
    BY <2>1, <2>3 DEF MatchesOf, Matches
  <2>5. Transition(t, d).status = "kept" /\ Transition(t, d).current = <<result[t], u>>
    BY <2>4 DEF Transition
  <2>6. d.finding \in Finding /\ Decided(t)[d.finding] = Transition(t, d)
    BY DecidedIsTransition
  <2>7. memory'[d.finding] = Transition(t, d)
    BY <1>2, <1>4, <2>3, <2>6 DEF Remembered
  <2> QED BY <2>5, <2>6, <2>7 DEF Live
<1> QED BY <1>3, <1>4

(***************************************************************************)
(* What the latest generation's run found in symbols is in memory and      *)
(* live, so the next review starts from all of it, whichever worker        *)
(* finalized, and whatever was reviewed, reused or raced in between.       *)
(***************************************************************************)
THEOREM SymbolFindingsTracked == Spec => []SymbolFindingsAreTracked
<1>1. Init => SymbolFindingsAreTracked
  BY DEF Init, SymbolFindingsAreTracked
<1>2. ASSUME TypeInv, GenerationsMatchRuns, DecidedInv, SymbolFindingsAreTracked, [Next]_vars
      PROVE  SymbolFindingsAreTracked'
  <2> USE DEF TypeInv, TypeOK
  <2>1. CASE generations' = generations /\ memory' = memory
    <3>1. generations # <<>> => Latest.run \in Task /\ runs'[Latest.run] = runs[Latest.run]
      <4> SUFFICES ASSUME generations # <<>>
                   PROVE  Latest.run \in Task /\ runs'[Latest.run] = runs[Latest.run]
        OBVIOUS
      <4>1. Len(generations) \in DOMAIN generations
        <5>1. generations \in Seq(Generation)
          BY <1>2
        <5> QED BY <5>1
      <4>2. Latest \in Generation
        BY <1>2, <4>1 DEF Latest
      <4>3. Latest.run \in Task /\ HasEnded(Latest.run)
        BY <1>2, <4>1, <4>2 DEF GenerationsMatchRuns, Latest, Generation, HasEnded, Ended, NoRun
      <4>4. ASSUME NEW t \in Task, TaskStep(t) PROVE runs'[Latest.run] = runs[Latest.run]
        BY <1>2, <4>3, <4>4, EndedRowsStay
      <4> QED BY <1>2, <4>3, <4>4 DEF Next, Push, vars
    <3> QED BY <1>2, <2>1, <3>1 DEF SymbolFindingsAreTracked, IsTracked, LiveFindings, Latest
  <2>2. ASSUME NEW t \in Task, FinalizeCommit(t), CreateGeneration(t)
        PROVE  SymbolFindingsAreTracked'
    <3>1. Latest'.run = result[t] /\ runs' = runs
      <4>1. PICK g : generations' = Append(generations, g) /\ g.run = result[t]
        BY <2>2 DEF CreateGeneration
      <4>2. generations'[Len(generations')] = g
        BY <1>2, <4>1
      <4> QED BY <2>2, <4>1, <4>2 DEF Latest, FinalizeCommit
    <3>2. \A u \in runs[result[t]].findings \ Region :
            \E f \in Finding : memory'[f].status \in Live /\ memory'[f].current = <<result[t], u>>
      BY <1>2, <2>2, GenerationTracks
    <3> QED BY <3>1, <3>2 DEF SymbolFindingsAreTracked, IsTracked, LiveFindings
  <2> QED
    BY <1>2, <2>1, <2>2
    DEF Next, Push, vars, TaskStep, Enqueue, Start, ReadLatest, ReadOpenFindings,
        GetOrCreateRun, FinishRun, RunRaises, FinalizeCheck, FinalizeCommit,
        FinalizeRaises, Crash
<1> QED BY <1>1, <1>2, TypeInvHolds, GenerationsMatch, DecidedHolds, PTL DEF Spec

(***************************************************************************)
(* A task that finalizes its own run resolves the finding of a symbol only *)
(* if its run offered the symbol to a reviewer who did not report it       *)
(* again, or the symbol is no candidate any more.                          *)
(***************************************************************************)
THEOREM ResolvedOnlyAfterALook == Spec => ResolvedAfterALook
<1>1. ASSUME TypeInv, DecidedInv, Next, NEW t \in Task, NEW d \in decisions[t],
             stage[t] = "reconciling", stage'[t] = "done", d.tracked, result[t] = t,
             memory'[d.finding].status = "resolved"
      PROVE  \/ d.finding[2] \notin Candidates(commit[t])
             \/ d.finding[2] \in runs[t].offered \ runs[t].findings
  <2> USE DEF TypeInv, TypeOK, Goto
  <2>1. FinalizeCommit(t) /\ CreateGeneration(t)
    <3>1. \A u \in Task : TaskStep(u) => u = t
      BY <1>1, OthersStay
    <3>2. TaskStep(t)
      BY <1>1, <3>1 DEF Next, Push, taskVars
    <3> QED
      BY <1>1, <3>2
      DEF TaskStep, Enqueue, Start, ReadLatest, ReadOpenFindings, GetOrCreateRun, FinishRun,
          RunRaises, FinalizeCheck, FinalizeCommit, FinalizeRaises, End, Crash, Ending
  <2>2. d.finding \in Finding /\ Decided(t)[d.finding] = Transition(t, d)
    BY <1>1, DecidedIsTransition
  <2>3. memory' = Remembered(t)
    BY <2>1 DEF CreateGeneration
  <2>4. Transition(t, d).status = "resolved"
    <3> DEFINE f == d.finding
    <3>1. CASE f[1] = result[t] /\ f[2] \in NewFindings(t)
      BY <1>1, <2>2, <2>3, <3>1 DEF Remembered
    <3>2. CASE /\ ~(f[1] = result[t] /\ f[2] \in NewFindings(t))
               /\ f[2] \in NewFindings(t) /\ Decided(t)[f].status \in Live
      <4>1. memory'[f] = [Decided(t)[f] EXCEPT !.status = "superseded"]
        BY <2>2, <2>3, <3>2 DEF Remembered
      <4>2. Decided(t)[f] \in MemoryFinding
        BY <1>1, <2>1, <2>2, TransitionType DEF FinalizeCommit
      <4> QED BY <1>1, <4>1, <4>2 DEF MemoryFinding
    <3>3. CASE /\ ~(f[1] = result[t] /\ f[2] \in NewFindings(t))
               /\ ~(f[2] \in NewFindings(t) /\ Decided(t)[f].status \in Live)
      <4>1. memory'[f] = Decided(t)[f]
        BY <2>2, <2>3, <3>3 DEF Remembered
      <4> QED BY <1>1, <2>2, <4>1
    <3> QED BY <3>1, <3>2, <3>3
  <2>5. MatchesOf(t, d) = {} /\ d.as # "carry"
    BY <2>4 DEF Transition
  <2>6. d.as \in {"gone", "recheck"}
    BY <1>1, <2>5 DEF Decision, Disposition
  <2>7. DecidedOf(t)
    BY <1>1 DEF DecidedInv
  <2>8. CASE d.as = "gone"
    BY <1>1, <2>7, <2>8 DEF DecidedOf, Candidates, Touched
  <2>9. CASE d.as = "recheck"
    <3>1. d.finding[2] \notin runs[t].findings
      BY <1>1, <2>5, <2>9 DEF MatchesOf, Matches
    <3>2. d.finding[2] \in Candidates(commit[t]) => d.finding[2] \in runs[t].offered
      BY <1>1, <2>7, <2>9 DEF DecidedOf
    <3> QED BY <3>1, <3>2
  <2> QED BY <2>6, <2>8, <2>9
<1>2. TypeInv /\ DecidedInv /\ [Next]_vars =>
        [\A t \in Task : \A d \in decisions[t] :
          (/\ stage[t] = "reconciling" /\ stage'[t] = "done"
           /\ d.tracked /\ result[t] = t
           /\ memory'[d.finding].status = "resolved")
          => \/ d.finding[2] \notin Candidates(commit[t])
             \/ d.finding[2] \in runs[t].offered \ runs[t].findings]_vars
  BY <1>1
<1> QED BY <1>2, TypeInvHolds, DecidedHolds, PTL DEF Spec, ResolvedAfterALook
=============================================================================
