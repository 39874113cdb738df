---------------------------- MODULE CampaignProofs ----------------------------
(***************************************************************************)
(* Theorems about one workspace's campaign, for any repositories, any      *)
(* number of runs side by side, any policy, evidence and verdicts; and     *)
(* about the policies that govern merging and routing, for any number of   *)
(* scopes, findings and attempts.                                          *)
(***************************************************************************)
EXTENDS Campaigns, Governance, FiniteSetTheorems, WellFoundedInduction, TLAPS

(***************************************************************************)
(* What the operators return.                                              *)
(***************************************************************************)
LEMMA DerivedState ==
  ASSUME NEW f \in RepoFacts
  PROVE  /\ DeriveRepoState(f) \in RepoState
         /\ DeriveRepoState(f) = "resolved" => f.class = "not_affected" /\ f.ever
         /\ DeriveRepoState(f) = "not_affected" => f.class = "not_affected" /\ ~f.ever
<1> USE DEF RepoState, InFlight, Blocking, Done
<1>1. PlannedState(f) \in RepoState \ Done
  BY DEF PlannedState, RepoFacts, MigrationStatus
<1>2. AffectedState(f) \in RepoState \ Done
  BY <1>1 DEF AffectedState, RepoFacts, Outcome
<1>3. f.failed => DeriveRepoState(f) = "failed"
  BY DEF DeriveRepoState
<1>4. ~f.failed /\ f.freshness # "fresh" => DeriveRepoState(f) = f.freshness
  BY DEF DeriveRepoState
<1>5. f.freshness \in Freshness /\ f.class \in OrgClass /\ f.ever \in BOOLEAN
  BY DEF RepoFacts
<1>6. CASE ~f.failed /\ f.freshness = "fresh" /\ f.class = "not_affected"
  <2>1. DeriveRepoState(f) = IF f.ever THEN "resolved" ELSE "not_affected"
    BY <1>6 DEF DeriveRepoState
  <2> QED BY <1>5, <1>6, <2>1
<1>7. CASE ~f.failed /\ f.freshness = "fresh" /\ f.class = "unknown"
  <2>1. DeriveRepoState(f) = "unknown"
    BY <1>7 DEF DeriveRepoState
  <2> QED BY <2>1
<1>8. CASE ~f.failed /\ f.freshness = "fresh" /\ f.class = "affected"
  <2>1. DeriveRepoState(f) = AffectedState(f)
    BY <1>8 DEF DeriveRepoState
  <2> QED BY <1>2, <2>1
<1>9. CASE f.failed \/ f.freshness # "fresh"
  BY <1>3, <1>4, <1>5, <1>9 DEF Freshness
<1> QED BY <1>5, <1>6, <1>7, <1>8, <1>9 DEF OrgClass

LEMMA NoFactsType == NoFacts \in RepoFacts
BY DEF NoFacts, RepoFacts, Freshness, OrgClass

LEMMA ClassOf ==
  ASSUME NEW freshness \in Freshness, NEW impact
  PROVE  Classify(freshness, impact) \in OrgClass
BY DEF Classify, OrgClass

(***************************************************************************)
(* What a record says agrees with whether its repository was ever found    *)
(* affected.                                                               *)
(***************************************************************************)
RecordHolds(record) ==
    /\ record.class = "affected" => record.ever
    /\ record.state = "resolved" => record.ever
    /\ record.state = "not_affected" => ~record.ever

LEMMA EvaluatedRecord ==
  ASSUME NEW e \in Entry, NEW raising, NEW outcome \in Outcome, NEW r,
         Prior(r) \in BOOLEAN
  PROVE  LET record == Evaluated(e, r \in raising, outcome, r) IN
         /\ record \in Record
         /\ RecordHolds(record)
         /\ record.ever <=> Prior(r) \/ record.class = "affected"
<1> DEFINE raises == r \in raising
           class == IF raises THEN "unknown"
                    ELSE Classify(e.freshness, IF e.uses THEN "affected" ELSE "unaffected")
           ever == Prior(r) \/ class = "affected"
           verdict == IF class = "affected" /\ Migrates(Policy) THEN outcome ELSE "none"
           facts == [NoFacts EXCEPT !.failed = raises, !.freshness = e.freshness,
                                    !.class = class, !.ever = ever, !.outcome = verdict]
<1>1. e.freshness \in Freshness /\ e.base \in Commit
  BY DEF Entry
<1>2. class \in OrgClass
  BY <1>1, ClassOf DEF OrgClass
<1>3. ever \in BOOLEAN /\ verdict \in Outcome \cup {"none"}
      /\ raises \in BOOLEAN
  OBVIOUS
<1> HIDE DEF raises, class, ever, verdict
<1>5. facts \in RepoFacts /\ facts.class = class /\ facts.ever = ever
  BY <1>1, <1>2, <1>3, NoFactsType DEF RepoFacts
<1> HIDE DEF facts
<1>6. Evaluated(e, r \in raising, outcome, r) =
        [state |-> DeriveRepoState(facts), class |-> class, ever |-> ever, base |-> e.base,
         outcome |-> verdict, pr |-> "none", number |-> 0]
  BY DEF Evaluated, WasAffected, raises, class, ever, verdict, facts
<1>7. class = "affected" => ever
  BY DEF ever
<1>8. DeriveRepoState(facts) \in RepoState
      /\ (DeriveRepoState(facts) = "resolved" => ever)
      /\ (DeriveRepoState(facts) = "not_affected" => ~ever)
  BY <1>5, DerivedState
<1>9. Evaluated(e, r \in raising, outcome, r) \in Record /\ RecordHolds(Evaluated(e, r \in raising, outcome, r))
  BY <1>1, <1>2, <1>3, <1>6, <1>7, <1>8 DEF Record, RecordHolds
<1>10. Evaluated(e, r \in raising, outcome, r).ever = ever /\ Evaluated(e, r \in raising, outcome, r).class = class
  BY <1>6
<1>11. ever <=> Prior(r) \/ class = "affected"
  BY DEF ever
<1> QED BY <1>9, <1>10, <1>11

LEMMA AppliedRecord ==
  ASSUME NEW record \in Record, NEW status \in Status, NEW number \in Nat
  PROVE  LET applied == Applied(record, status, number) IN
         /\ applied \in Record
         /\ RecordHolds(record) => RecordHolds(applied)
         /\ applied.ever = record.ever /\ applied.class = record.class
<1> DEFINE facts == [NoFacts EXCEPT !.ever = record.ever, !.outcome = record.outcome,
                                    !.pr = status, !.number = number]
<1>1. NoFacts.class = "affected"
  BY DEF NoFacts
<1>2. facts \in RepoFacts /\ facts.class = "affected"
  BY <1>1, NoFactsType DEF RepoFacts, Record, Status, PRStatus
<1> HIDE DEF facts
<1>3. DeriveRepoState(facts) \in RepoState \ Done
  BY <1>2, DerivedState DEF Done
<1>4. Applied(record, status, number) =
        [record EXCEPT !.pr = status, !.number = number, !.state = DeriveRepoState(facts)]
  BY DEF Applied, facts
<1> QED BY <1>3, <1>4 DEF Record, RecordHolds, Done

LEMMA CampaignStates ==
  ASSUME NEW states, NEW evaluated, NEW scope
  PROVE  DeriveCampaignState(states, evaluated, scope) \in CampaignState
BY DEF DeriveCampaignState, CampaignState

(***************************************************************************)
(* Some of the first n numbers have a greatest: a set of them that holds   *)
(* no smaller set of those from some one on.                               *)
(***************************************************************************)
LEMMA GreatestExists ==
  ASSUME NEW n \in Nat, NEW S \in SUBSET (1..n), S # {}
  PROVE  \E k \in S : \A j \in S : j <= k
<1> DEFINE From(k) == {j \in S : k <= j}
           F == {T \in SUBSET (1..n) : \E k \in S : T = From(k)}
<1>1. F \subseteq SUBSET (1..n) /\ F # {}
  <2>1. PICK k : k \in S
    OBVIOUS
  <2>2. From(k) \in F
    BY <2>1
  <2> QED BY <2>2
<1>2. PICK T \in F : \A U \in F : <<U, T>> \notin StrictSubsetOrdering(1..n)
  <2> HIDE DEF F
  <2>1. IsWellFoundedOn(StrictSubsetOrdering(1..n), SUBSET (1..n))
    <3>1. IsFiniteSet(1..n)
      BY FS_Interval
    <3>2. PICK N : N = 1..n
      OBVIOUS
    <3>3. IsWellFoundedOn(StrictSubsetOrdering(N), SUBSET N)
      BY <3>1, <3>2, FS_StrictSubsetOrderingWellFounded, FS_FiniteSubsetsOfFinite
    <3> QED BY <3>2, <3>3
  <2> QED BY <1>1, <2>1, WFMin
<1>3. PICK k \in S : T = From(k)
  BY <1>2
<1>4. ASSUME NEW j \in S PROVE j <= k
  <2> SUFFICES ASSUME k < j PROVE FALSE
    OBVIOUS
  <2>1. From(j) \in F
    OBVIOUS
  <2>2. From(j) \subseteq T /\ k \in T /\ k \notin From(j)
    <3>1. \A i \in S : i \in Nat
      OBVIOUS
    <3>2. \A i \in S : j <= i => k <= i
      BY <3>1
    <3>3. k <= k /\ ~(j <= k)
      BY <3>1
    <3> QED BY <1>3, <3>2, <3>3
  <2>3. <<From(j), T>> \in StrictSubsetOrdering(1..n)
    BY <2>1, <2>2 DEF StrictSubsetOrdering
  <2> QED BY <1>2, <2>1, <2>3
<1> QED BY <1>3, <1>4

(* Hence the newest of some pull requests is one of them.                  *)
LEMMA NewestIsOne ==
  ASSUME NEW n \in Nat, NEW S \in SUBSET (1..n), S # {}
  PROVE  Newest(S) \in S
BY GreatestExists DEF Newest

(***************************************************************************)
(* The pull requests of the migration.                                     *)
(***************************************************************************)
LEMMA CommitIsNat == Commit \subseteq Nat \ {0} /\ MaxCommits \in Nat /\ MaxFaults \in Nat
BY MigrationAssumption DEF Commit, MigrationAssumption

LEMMA HumanType ==
  ASSUME MigrationTypeOK, NEW r \in Repo, Human(r)
  PROVE  MigrationTypeOK'
<1> USE CommitIsNat DEF MigrationTypeOK, PullState
<1>1. ASSUME raced' \subseteq Repo, base' \in [Repo -> Commit], uses' \in [Repo -> BOOLEAN],
             pulls' \in [Repo -> Seq(PullState)], UNCHANGED <<branch, rows, work, faults>>
      PROVE  MigrationTypeOK'
  BY <1>1
<1>2. ASSUME NEW others, Disturbs(r, others) PROVE raced' \subseteq Repo
  BY <1>2 DEF Disturbs
<1>3. ASSUME NEW k \in DOMAIN pulls[r], NEW s \in PullState, pulls' = [pulls EXCEPT ![r][k] = s]
      PROVE  pulls' \in [Repo -> Seq(PullState)]
  BY <1>3
<1>4. base[r] < MaxCommits => base[r] + 1 \in Commit
  BY DEF Commit
<1>5. CASE Commits(r)
  BY <1>1, <1>4, <1>5 DEF Commits
<1>6. CASE Merges(r)
  BY <1>1, <1>2, <1>3, <1>4, <1>6 DEF Merges, OpenPulls
<1>7. CASE Closes(r)
  BY <1>1, <1>2, <1>3, <1>7 DEF Closes, OpenPulls
<1>8. CASE Reopens(r)
  BY <1>1, <1>2, <1>3, <1>8 DEF Reopens
<1> QED BY <1>5, <1>6, <1>7, <1>8 DEF Human

(* A step of one publication leaves the others' progress alone.            *)
LEMMA WorkOfOthers ==
  ASSUME MigrationTypeOK, NEW u \in Run, PublishStep(u), NEW v \in Run, v # u
  PROVE  work'[v] = work[v]
BY DEF PublishStep, CompareBase, MoveBranch, ListPulls, UpdatePull, LeaveClosedPull, CreatePull,
       ReportCheck, GitHubFails, Goes, Ends, Decided, MigrationTypeOK

LEMMA PublishType ==
  ASSUME MigrationTypeOK, NEW u \in Run, PublishStep(u)
  PROVE  MigrationTypeOK'
<1> USE CommitIsNat DEF MigrationTypeOK
<1> DEFINE w == work[u]
<1>1. /\ w.stage # "idle" /\ w.repo \in Repo /\ w \in Work
  BY DEF PublishStep, CompareBase, MoveBranch, ListPulls, UpdatePull, LeaveClosedPull, CreatePull,
         ReportCheck, GitHubFails, At
<1>2. ASSUME NEW x \in Work, work' = [work EXCEPT ![u] = x], x.repo = w.repo
      PROVE  work' \in [Run -> Work] /\ \A v \in Run : work'[v].stage # "idle" => work'[v].repo \in Repo
  BY <1>1, <1>2
<1>3. ASSUME NEW s \in {"branch", "list", "write", "check", "record"}, Goes(u, s)
      PROVE  work' \in [Run -> Work] /\ \A v \in Run : work'[v].stage # "idle" => work'[v].repo \in Repo
  BY <1>1, <1>3 DEF Goes, Work
<1>4. ASSUME NEW s \in Status, Ends(u, s)
      PROVE  work' \in [Run -> Work] /\ \A v \in Run : work'[v].stage # "idle" => work'[v].repo \in Repo
  BY <1>1, <1>4 DEF Ends, Work
<1>5. ASSUME NEW s \in Status, NEW n \in Nat, Decided(u, s, n)
      PROVE  work' \in [Run -> Work] /\ \A v \in Run : work'[v].stage # "idle" => work'[v].repo \in Repo
  <2>1. <<>> \in Seq(PullState)
    OBVIOUS
  <2> QED BY <1>1, <1>5, <2>1 DEF Decided, Work
<1>6. ASSUME NEW others, Disturbs(w.repo, others) PROVE raced' \subseteq Repo
  BY <1>1, <1>6 DEF Disturbs
<1>7. pulls[w.repo] \in Seq(PullState) /\ Append(pulls[w.repo], "open") \in Seq(PullState)
      /\ Len(pulls[w.repo]) + 1 \in Nat
  BY <1>1 DEF PullState
<1>8. [pulls EXCEPT ![w.repo] = Append(@, "open")] \in [Repo -> Seq(PullState)]
  BY <1>1, <1>7
<1>9. [branch EXCEPT ![w.repo] = w.base] \in [Repo -> 0..MaxCommits]
  BY <1>1 DEF Work, Commit
<1>10. Status = {"opened", "updated", "no_op_unchanged", "stale_requires_regeneration", "failed"}
  BY DEF Status
<1>11. CASE CompareBase(u)
  BY <1>3, <1>4, <1>10, <1>11 DEF CompareBase, githubVars
<1>12. CASE MoveBranch(u)
  BY <1>3, <1>9, <1>12 DEF MoveBranch
<1>13. CASE ListPulls(u)
  BY <1>1, <1>7, <1>13 DEF ListPulls, githubVars, Work
<1>14. CASE UpdatePull(u)
  <2> DEFINE open == {k \in DOMAIN w.listed : w.listed[k] = "open"}
  <2>1. open # {} /\ Decided(u, "updated", Newest(open))
    BY <1>14 DEF UpdatePull
  <2>2. PICK n \in Nat : open \subseteq 1..n
    <3>1. Len(w.listed) \in Nat /\ open \subseteq 1..Len(w.listed)
      BY <1>1 DEF Work
    <3> QED BY <3>1
  <2> HIDE DEF open
  <2>3. Newest(open) \in open
    BY <2>1, <2>2, NewestIsOne
  <2>4. Newest(open) \in Nat
    <3>1. PICK k \in open : k = Newest(open)
      BY <2>3
    <3>2. k \in 1..n
      BY <2>2
    <3> QED BY <3>1, <3>2
  <2> QED BY <1>5, <1>10, <1>14, <2>1, <2>4 DEF UpdatePull, githubVars
<1>15. CASE LeaveClosedPull(u)
  <2>1. Len(w.listed) \in Nat
    BY <1>1 DEF Work
  <2> QED BY <1>5, <1>10, <1>15, <2>1 DEF LeaveClosedPull, githubVars
<1>16. CASE CreatePull(u)
  BY <1>4, <1>5, <1>6, <1>7, <1>8, <1>10, <1>16 DEF CreatePull
<1>17. CASE ReportCheck(u)
  BY <1>3, <1>17 DEF ReportCheck, githubVars
<1>18. CASE GitHubFails(u)
  <2>1. faults' \in 0..MaxFaults
    BY <1>18 DEF GitHubFails
  <2>2. raced' \subseteq Repo /\ pulls' \in [Repo -> Seq(PullState)] /\ branch' \in [Repo -> 0..MaxCommits]
    BY <1>6, <1>8, <1>9, <1>18 DEF GitHubFails
  <2> QED BY <1>4, <1>10, <1>18, <2>1, <2>2 DEF GitHubFails
<1> QED BY <1>11, <1>12, <1>13, <1>14, <1>15, <1>16, <1>17, <1>18 DEF PublishStep

(***************************************************************************)
(* Types.                                                                  *)
(***************************************************************************)
IsRun(x) == \E given, before, scope \in SUBSET Repo : x \in RunState(given, before, scope)

LEMMA EmptyRecords == \A T : NoRecords \in [{} -> T] /\ DOMAIN NoRecords = {}
BY DEF NoRecords

LEMMA IdleWork == Idle \in Work /\ Idle.stage = "idle" /\ 1 \in Commit
<1>1. <<>> \in Seq(PullState)
  OBVIOUS
<1>2. 1 \in Commit
  BY MigrationAssumption DEF MigrationAssumption, Commit
<1> QED BY <1>1, <1>2 DEF Idle, Work, Status

Ended == [NotRun EXCEPT !.stage = "ended"]

LEMMA NotRunIsRun == IsRun(NotRun) /\ IsRun(Ended) /\ Ended.stage = "ended" /\ Ended.records = NoRecords
<1>1. NotRun \in RunState({}, {}, {}) /\ Ended \in RunState({}, {}, {})
  BY EmptyRecords DEF NotRun, RunState, Ended
<1> QED BY <1>1 DEF IsRun, NotRun, Ended

LEMMA InitType == Init => TypeOK
<1> SUFFICES ASSUME Init PROVE TypeOK
  OBVIOUS
<1>1. MigrationTypeOK
  BY IdleWork, MigrationAssumption
  DEF Init, MigrationInit, MigrationTypeOK, MigrationAssumption
<1>2. \A u \in Run : IsRun(runs[u])
  BY NotRunIsRun DEF Init
<1> QED BY <1>1, <1>2 DEF Init, TypeOK, IsRun

(* What is known of a run, when it is one.                                 *)
LEMMA RunFacts ==
  ASSUME NEW x, IsRun(x)
  PROVE  /\ DOMAIN x.records \subseteq Repo /\ DOMAIN x.entries \subseteq Repo
         /\ \A r \in DOMAIN x.records : x.records[r] \in Record
         /\ \A r \in DOMAIN x.entries : x.entries[r] \in Entry
         /\ x.pending \subseteq DOMAIN x.records /\ x.approved \subseteq Repo
<1>1. PICK given, before, scope \in SUBSET Repo : x \in RunState(given, before, scope)
  BY DEF IsRun
<1>2. x.records \in [scope -> Record] /\ x.entries \in [given -> Entry]
      /\ x.pending \subseteq scope /\ x.approved \subseteq Repo
  BY <1>1 DEF RunState
<1> QED BY <1>2

(* A step that changes one run to another, and nothing stored.             *)
LEMMA RunChanged ==
  ASSUME TypeOK, NEW u \in Run, NEW x, IsRun(x), runs' = [runs EXCEPT ![u] = x],
         MigrationTypeOK', stored' = stored,
         outdated' \subseteq outdated, affected' = affected, remembered' = remembered
  PROVE  TypeOK'
<1>1. \A v \in Run : IsRun(runs'[v]) /\ DOMAIN runs' = Run
  BY DEF TypeOK, IsRun
<1> QED BY <1>1 DEF TypeOK, IsRun

LEMMA LaunchType ==
  ASSUME TypeOK, NEW u \in Run, Launch(u)
  PROVE  TypeOK'
<1>1. PICK scope \in SUBSET Repo : \E fresh \in [scope -> Evidence], approved \in SUBSET scope :
         runs' = [runs EXCEPT ![u] =
           [NotRun EXCEPT !.stage = "launched", !.approved = approved,
                          !.entries = [r \in scope |-> [freshness |-> fresh[r],
                                                        base |-> base[r], uses |-> uses[r]]]]]
  BY DEF Launch
<1>2. PICK fresh \in [scope -> Evidence], approved \in SUBSET scope :
         runs' = [runs EXCEPT ![u] =
           [NotRun EXCEPT !.stage = "launched", !.approved = approved,
                          !.entries = [r \in scope |-> [freshness |-> fresh[r],
                                                        base |-> base[r], uses |-> uses[r]]]]]
  BY <1>1
<1> DEFINE entries == [r \in scope |-> [freshness |-> fresh[r], base |-> base[r], uses |-> uses[r]]]
           x == [NotRun EXCEPT !.stage = "launched", !.approved = approved, !.entries = entries]
<1>3. entries \in [scope -> Entry]
  BY CampaignAssumption DEF CampaignAssumption, Entry, TypeOK, MigrationTypeOK
<1> HIDE DEF entries
<1>4. NotRun \in RunState({}, {}, {})
  BY EmptyRecords DEF NotRun, RunState
<1>5. x \in RunState(scope, {}, {})
  BY <1>3, <1>4 DEF RunState
<1> HIDE DEF x
<1>6. IsRun(x)
  BY <1>5 DEF IsRun
<1>7. runs' = [runs EXCEPT ![u] = x]
  BY <1>2 DEF x, entries
<1>8. MigrationTypeOK'
  BY DEF TypeOK, MigrationTypeOK, Launch, migrationVars, githubVars
<1> QED BY <1>6, <1>7, <1>8, RunChanged DEF Launch, historyVars

(* What is stored, when there is a campaign.                               *)
LEMMA StoredFacts ==
  ASSUME TypeOK
  PROVE  /\ stored # Nothing =>
              /\ DOMAIN stored.records \subseteq Repo
              /\ \A r \in DOMAIN stored.records : stored.records[r] \in Record
              /\ stored.version \in Nat \ {0}
         /\ \A r : Prior(r) \in BOOLEAN
<1>1. ASSUME stored # Nothing
      PROVE  /\ DOMAIN stored.records \subseteq Repo
             /\ \A r \in DOMAIN stored.records : stored.records[r] \in Record
             /\ stored.version \in Nat \ {0}
  <2>1. PICK scope \in SUBSET Repo : stored \in CampaignRow(scope)
    BY <1>1 DEF TypeOK
  <2>2. stored.records \in [scope -> Record] /\ stored.version \in Nat \ {0}
    BY <2>1 DEF CampaignRow
  <2> QED BY <2>2
<1>2. ASSUME NEW r PROVE Prior(r) \in BOOLEAN
  BY <1>1 DEF Prior, Record
<1> QED BY <1>1, <1>2

(* What LoadAndEvaluate gives a run.                                       *)
LEMMA Loaded ==
  ASSUME TypeOK, NEW u \in Run, LoadAndEvaluate(u)
  PROVE  \E x : /\ IsRun(x) /\ x.stage = "publishing" /\ x.previous = stored
                /\ \A r \in DOMAIN x.records :
                     /\ RecordHolds(x.records[r])
                     /\ x.records[r].ever <=> Prior(r) \/ x.records[r].class = "affected"
                /\ runs' = [runs EXCEPT ![u] = x]
<1> DEFINE entries == runs[u].entries
           scope == DOMAIN entries
<1>1. PICK raising \in SUBSET scope, outcome \in [scope -> Outcomes] :
        LET records == [r \in scope |-> Evaluated(entries[r], r \in raising, outcome[r], r)]
        IN  runs' = [runs EXCEPT ![u].stage = "publishing", ![u].previous = stored,
                                 ![u].entries = NoRecords, ![u].records = records,
                                 ![u].pending = ToPublish(u, records)]
  BY DEF LoadAndEvaluate
<1> DEFINE records == [r \in scope |-> Evaluated(entries[r], r \in raising, outcome[r], r)]
           x == [runs[u] EXCEPT !.stage = "publishing", !.previous = stored,
                                !.entries = NoRecords, !.records = records,
                                !.pending = ToPublish(u, records)]
<1>2. IsRun(runs[u])
  BY DEF TypeOK, IsRun
<1>3. ASSUME NEW r \in scope
      PROVE  /\ records[r] \in Record /\ RecordHolds(records[r])
             /\ records[r].ever <=> Prior(r) \/ records[r].class = "affected"
  <2>1. entries[r] \in Entry /\ outcome[r] \in Outcome /\ Prior(r) \in BOOLEAN
    BY <1>2, RunFacts, StoredFacts, CampaignAssumption DEF CampaignAssumption
  <2>2. records[r] = Evaluated(entries[r], r \in raising, outcome[r], r)
    OBVIOUS
  <2> HIDE DEF records, entries
  <2>3. /\ Evaluated(entries[r], r \in raising, outcome[r], r) \in Record
        /\ RecordHolds(Evaluated(entries[r], r \in raising, outcome[r], r))
        /\ Evaluated(entries[r], r \in raising, outcome[r], r).ever
              <=> Prior(r) \/ Evaluated(entries[r], r \in raising, outcome[r], r).class = "affected"
    BY <2>1, EvaluatedRecord
  <2> QED BY <2>2, <2>3
<1>4. records \in [scope -> Record] /\ DOMAIN records = scope
  BY <1>3
<1>5. scope \in SUBSET Repo
  BY <1>2, RunFacts
<1> HIDE DEF records, scope
<1>6. ToPublish(u, records) \subseteq scope
  BY <1>4 DEF ToPublish
<1>7. \E before \in SUBSET Repo : x \in RunState({}, before, scope)
  <2>1. PICK before \in SUBSET Repo : stored \in CampaignRow(before) \cup {Nothing}
    BY DEF TypeOK
  <2>2. PICK g, b, sc \in SUBSET Repo : runs[u] \in RunState(g, b, sc)
    BY <1>2 DEF IsRun
  <2>3. x \in RunState({}, before, scope)
    BY <1>4, <1>6, <2>1, <2>2, EmptyRecords DEF RunState
  <2> QED BY <2>3
<1>8. IsRun(x)
  BY <1>5, <1>7 DEF IsRun
<1>9. x.records = records /\ x.stage = "publishing" /\ x.previous = stored
  <2>2. PICK g, b, sc \in SUBSET Repo : runs[u] \in RunState(g, b, sc)
    BY <1>2 DEF IsRun
  <2> QED BY <2>2 DEF RunState
<1>10. runs' = [runs EXCEPT ![u] = x]
  BY <1>1 DEF records, scope
<1> HIDE DEF x
<1> QED BY <1>3, <1>4, <1>8, <1>9, <1>10

LEMMA LoadType ==
  ASSUME TypeOK, NEW u \in Run, LoadAndEvaluate(u)
  PROVE  TypeOK'
<1>1. PICK x : IsRun(x) /\ runs' = [runs EXCEPT ![u] = x]
  BY Loaded
<1>2. MigrationTypeOK'
  BY DEF TypeOK, MigrationTypeOK, LoadAndEvaluate, migrationVars, githubVars
<1> QED BY <1>1, <1>2, RunChanged DEF LoadAndEvaluate, historyVars

(* How publishing changes a run's records and what is left to publish.     *)
LEMMA PublishChanges ==
  ASSUME TypeOK, NEW u \in Run,
         \/ PublishNext(u) \/ FinishPublish(u) \/ PublishRaises(u)
  PROVE  \E x : /\ IsRun(x) /\ x.stage = runs[u].stage /\ x.previous = runs[u].previous
                /\ DOMAIN x.records = DOMAIN runs[u].records
                /\ \A r \in DOMAIN x.records :
                     /\ RecordHolds(runs[u].records[r]) => RecordHolds(x.records[r])
                     /\ x.records[r].ever = runs[u].records[r].ever
                     /\ x.records[r].class = runs[u].records[r].class
                /\ runs' = [runs EXCEPT ![u] = x]
<1>1. IsRun(runs[u])
  BY DEF TypeOK, IsRun
<1>2. PICK given, before, scope \in SUBSET Repo : runs[u] \in RunState(given, before, scope)
  BY <1>1 DEF IsRun
<1>3. runs[u].records \in [scope -> Record] /\ runs[u].pending \subseteq scope
  BY <1>2 DEF RunState
<1>4. CASE PublishNext(u)
  <2>1. PICK r \in runs[u].pending : runs' = [runs EXCEPT ![u].pending = @ \ {r}]
    BY <1>4 DEF PublishNext
  <2> DEFINE x == [runs[u] EXCEPT !.pending = @ \ {r}]
  <2>2. x \in RunState(given, before, scope)
    BY <1>2 DEF RunState
  <2>3. x.records = runs[u].records /\ x.stage = runs[u].stage /\ x.previous = runs[u].previous
    BY <1>2 DEF RunState
  <2>4. runs' = [runs EXCEPT ![u] = x]
    BY <2>1
  <2> HIDE DEF x
  <2> QED BY <2>2, <2>3, <2>4 DEF IsRun
<1>5. ASSUME NEW r, NEW rec, runs' = [runs EXCEPT ![u].records[r] = rec],
             r \in scope => /\ rec \in Record
                            /\ RecordHolds(runs[u].records[r]) => RecordHolds(rec)
                            /\ rec.ever = runs[u].records[r].ever
                            /\ rec.class = runs[u].records[r].class
      PROVE  \E x : /\ IsRun(x) /\ x.stage = runs[u].stage /\ x.previous = runs[u].previous
                    /\ DOMAIN x.records = DOMAIN runs[u].records
                    /\ \A q \in DOMAIN x.records :
                         /\ RecordHolds(runs[u].records[q]) => RecordHolds(x.records[q])
                         /\ x.records[q].ever = runs[u].records[q].ever
                         /\ x.records[q].class = runs[u].records[q].class
                    /\ runs' = [runs EXCEPT ![u] = x]
  <2> DEFINE records == [runs[u].records EXCEPT ![r] = rec]
             x == [runs[u] EXCEPT !.records = records]
  <2>1. records \in [scope -> Record]
    BY <1>3, <1>5
  <2>2. \A q \in scope : /\ RecordHolds(runs[u].records[q]) => RecordHolds(records[q])
                         /\ records[q].ever = runs[u].records[q].ever
                         /\ records[q].class = runs[u].records[q].class
    BY <1>3, <1>5
  <2>3. runs' = [runs EXCEPT ![u] = x]
    BY <1>5
  <2> HIDE DEF records
  <2>4. x \in RunState(given, before, scope)
    BY <1>2, <2>1 DEF RunState
  <2>5. x.records = records /\ x.stage = runs[u].stage /\ x.previous = runs[u].previous
    BY <1>2 DEF RunState
  <2> HIDE DEF x
  <2> QED BY <1>3, <2>1, <2>2, <2>3, <2>4, <2>5 DEF IsRun
<1>6. work[u] \in Work
  BY DEF TypeOK, MigrationTypeOK
<1>7. CASE FinishPublish(u)
  <2> DEFINE r == work[u].repo
             rec == Applied(runs[u].records[r], work[u].status, work[u].number)
  <2>1. runs' = [runs EXCEPT ![u].records[r] = rec]
    BY <1>7 DEF FinishPublish
  <2>2. work[u].status \in Status /\ work[u].number \in Nat
    BY <1>6 DEF Work
  <2>3. r \in scope => runs[u].records[r] \in Record
    BY <1>3
  <2>4. r \in scope => /\ rec \in Record
                       /\ RecordHolds(runs[u].records[r]) => RecordHolds(rec)
                       /\ rec.ever = runs[u].records[r].ever
                       /\ rec.class = runs[u].records[r].class
    BY <2>2, <2>3, AppliedRecord
  <2> HIDE DEF rec, r
  <2> QED BY <1>5, <2>1, <2>4
<1>8. CASE PublishRaises(u)
  <2> DEFINE r == work[u].repo
             rec == [runs[u].records[r] EXCEPT !.state = "failed"]
  <2>1. runs' = [runs EXCEPT ![u].records[r] = rec]
    BY <1>8 DEF PublishRaises
  <2>2. r \in scope => runs[u].records[r] \in Record
    BY <1>3
  <2>3. r \in scope => /\ rec \in Record
                       /\ RecordHolds(runs[u].records[r]) => RecordHolds(rec)
                       /\ rec.ever = runs[u].records[r].ever
                       /\ rec.class = runs[u].records[r].class
    BY <2>2 DEF Record, RecordHolds, RepoState, Blocking
  <2> HIDE DEF rec, r
  <2> QED BY <1>5, <2>1, <2>3
<1> QED BY <1>4, <1>7, <1>8

LEMMA MigrationTypeKept ==
  ASSUME TypeOK, NEW u \in Run, PublishNext(u) \/ FinishPublish(u) \/ PublishRaises(u) \/ RunLost(u)
  PROVE  MigrationTypeOK'
<1> USE CommitIsNat DEF MigrationTypeOK, TypeOK, githubVars
<1>1. \A x \in Work : (x.stage # "idle" => x.repo \in Repo) /\ work' = [work EXCEPT ![u] = x]
        => work' \in [Run -> Work] /\ \A v \in Run : work'[v].stage # "idle" => work'[v].repo \in Repo
  OBVIOUS
<1>2. CASE PublishNext(u)
  <2>1. PICK r \in runs[u].pending :
          work' = [work EXCEPT ![u] = [Idle EXCEPT !.stage = "base", !.repo = r,
                                                   !.base = runs[u].records[r].base]]
    BY <1>2 DEF PublishNext, BeginPublish
  <2>2. IsRun(runs[u])
    BY DEF IsRun
  <2>3. r \in Repo /\ runs[u].records[r].base \in Commit
    BY <2>2, RunFacts DEF Record
  <2> DEFINE x == [Idle EXCEPT !.stage = "base", !.repo = r, !.base = runs[u].records[r].base]
  <2>4. x \in Work /\ x.repo \in Repo
    BY <2>3, IdleWork DEF Work
  <2> HIDE DEF x
  <2>5. work' = [work EXCEPT ![u] = x]
    BY <2>1 DEF x
  <2> QED BY <1>1, <1>2, <2>4, <2>5 DEF PublishNext
<1>3. CASE FinishPublish(u)
  <2>1. work[u] \in Work /\ work[u].repo \in Repo
    BY <1>3 DEF FinishPublish, RecordRow, At
  <2>2. rows' \in [Repo -> Row \cup {Nothing}]
    BY <1>3, <2>1 DEF FinishPublish, RecordRow, Row, Work
  <2> QED BY <1>1, <1>3, <2>2, IdleWork DEF FinishPublish, RecordRow
<1>4. CASE PublishRaises(u)
  BY <1>1, <1>4, IdleWork DEF PublishRaises
<1>5. CASE RunLost(u)
  BY <1>1, <1>5, IdleWork DEF RunLost
<1> QED BY <1>2, <1>3, <1>4, <1>5

(* The version that is stored.                                             *)
LEMMA StoredVersion ==
  ASSUME TypeOK, NEW u \in Run, Persist(u)
  PROVE  /\ stored' = [state |-> StateOf(runs[u].records), records |-> runs[u].records,
                       version |-> stored'.version]
         /\ stored'.version \in Nat \ {0}
         /\ stored # Nothing /\ runs[u].previous = stored => stored'.version = VersionOf(u)
<1> DEFINE old == IF stored = Nothing THEN 0 ELSE stored.version
<1>1. stored' = [state |-> StateOf(runs[u].records), records |-> runs[u].records,
                 version |-> IF VersionOf(u) > old THEN VersionOf(u) ELSE old]
  BY DEF Persist
<1>2. old \in Nat
  BY StoredFacts
<1>3. VersionOf(u) \in Nat \ {0}
  <2>1. PICK given, before, scope \in SUBSET Repo : runs[u] \in RunState(given, before, scope)
    BY DEF TypeOK
  <2>2. runs[u].previous = Nothing \/ runs[u].previous.version \in Nat \ {0}
    BY <2>1 DEF RunState, CampaignRow
  <2> QED BY <2>2 DEF VersionOf
<1>4. stored # Nothing /\ runs[u].previous = stored => VersionOf(u) \in {old, old + 1}
  BY DEF VersionOf
<1> HIDE DEF old
<1>5. stored # Nothing /\ runs[u].previous = stored
        => (IF VersionOf(u) > old THEN VersionOf(u) ELSE old) = VersionOf(u)
  BY <1>2, <1>4
<1> QED BY <1>1, <1>2, <1>3, <1>5

LEMMA PersistType ==
  ASSUME TypeOK, NEW u \in Run, Persist(u)
  PROVE  TypeOK'
<1>1. PICK given, before, scope \in SUBSET Repo : runs[u] \in RunState(given, before, scope)
  BY DEF TypeOK
<1>2. runs[u].records \in [scope -> Record]
  BY <1>1 DEF RunState
<1>3. StateOf(runs[u].records) \in CampaignState
  BY CampaignStates DEF StateOf
<1>4. stored' \in CampaignRow(scope)
  BY <1>2, <1>3, StoredVersion DEF CampaignRow
<1>5. MigrationTypeOK'
  BY DEF TypeOK, MigrationTypeOK, Persist, migrationVars, githubVars
<1>6. \A v \in Run : IsRun(runs'[v])
  <2>1. runs' = [runs EXCEPT ![u] = Ended]
    BY DEF Persist, Ended
  <2>2. \A v \in Run : IsRun(runs[v])
    BY DEF TypeOK, IsRun
  <2> QED BY <2>1, <2>2, NotRunIsRun DEF TypeOK
<1>7. DOMAIN runs' = Run /\ outdated' \subseteq Run
  BY DEF Persist, TypeOK
<1>8. affected' \subseteq Repo /\ remembered' \subseteq Repo
  BY <1>2 DEF Persist, TypeOK
<1> QED BY <1>4, <1>5, <1>6, <1>7, <1>8 DEF TypeOK, IsRun

LEMMA StepType == TypeOK /\ [Next]_vars => TypeOK'
<1> SUFFICES ASSUME TypeOK, [Next]_vars PROVE TypeOK'
  OBVIOUS
<1>1. ASSUME MigrationTypeOK', UNCHANGED <<stored, runs, historyVars>> PROVE TypeOK'
  BY <1>1 DEF TypeOK, historyVars
<1>2. ASSUME NEW u \in Run, Launch(u) PROVE TypeOK'
  BY <1>2, LaunchType
<1>3. ASSUME NEW u \in Run, LoadAndEvaluate(u) PROVE TypeOK'
  BY <1>3, LoadType
<1>4. ASSUME NEW u \in Run, PublishNext(u) \/ FinishPublish(u) \/ PublishRaises(u) PROVE TypeOK'
  <2>1. PICK x : IsRun(x) /\ runs' = [runs EXCEPT ![u] = x]
    BY <1>4, PublishChanges
  <2>2. UNCHANGED <<stored, historyVars>>
    BY <1>4 DEF PublishNext, FinishPublish, PublishRaises
  <2> QED BY <1>4, <2>1, <2>2, MigrationTypeKept, RunChanged DEF historyVars
<1>5. ASSUME NEW u \in Run, Persist(u) PROVE TypeOK'
  BY <1>5, PersistType
<1>6. ASSUME NEW u \in Run, RunLost(u) PROVE TypeOK'
  <2>1. runs' = [runs EXCEPT ![u] = Ended]
    BY <1>6 DEF RunLost, Ended
  <2> QED BY <1>6, <2>1, NotRunIsRun, MigrationTypeKept, RunChanged DEF RunLost
<1>7. ASSUME NEW u \in Run, PublishStep(u), UNCHANGED <<stored, runs, historyVars>> PROVE TypeOK'
  BY <1>1, <1>7, PublishType DEF TypeOK
<1>8. ASSUME NEW r \in Repo, Human(r), UNCHANGED <<stored, runs, historyVars>> PROVE TypeOK'
  BY <1>1, <1>8, HumanType DEF TypeOK
<1>9. CASE UNCHANGED vars
  BY <1>9 DEF TypeOK, MigrationTypeOK, vars, migrationVars, githubVars, historyVars
<1> QED BY <1>2, <1>3, <1>4, <1>5, <1>6, <1>7, <1>8, <1>9 DEF Next, RunStep

(* Every variable keeps its type.                                          *)
THEOREM TypeCorrect == Spec => []TypeOK
BY InitType, StepType, PTL DEF Spec

(***************************************************************************)
(* One pull request.  Unless they changed under it, a publication that is  *)
(* about to write has the repository's pull requests before it.            *)
(***************************************************************************)
PullsOf(r) ==
    /\ Len(pulls[r]) <= 1
    /\ \A u \in Deciding(r) : work[u].listed = pulls[r]

PullsInv == \A r \in Repo \ raced : PullsOf(r)

(* The pull requests of one repository change, and the publications about  *)
(* to write there are marked, all but one that stops deciding.             *)
LEMMA PullsChange ==
  ASSUME MigrationTypeOK, PullsInv, NEW r \in Repo, NEW others \in SUBSET Run, Disturbs(r, others),
         r \notin raced' => Len(pulls'[r]) <= 1,
         \A q \in Repo \ {r} : pulls'[q] = pulls[q],
         \A u \in others : work'[u] = work[u],
         \A u \in Run \ others : work'[u] = work[u] \/ work'[u].stage # "write",
         \A u \in Run \ others : work'[u].stage = "write" => work'[u].repo # r
  PROVE  PullsInv'
<1> SUFFICES ASSUME NEW q \in Repo, q \notin raced' PROVE PullsOf(q)'
  BY DEF PullsInv
<1>1. raced \subseteq raced'
  BY DEF Disturbs
<1>2. PullsOf(q)
  BY <1>1 DEF PullsInv
<1>3. CASE q # r
  <2>1. Deciding(q)' \subseteq Deciding(q) /\ \A u \in Deciding(q)' : work'[u] = work[u]
    BY <1>3 DEF Deciding
  <2> QED BY <1>2, <1>3, <2>1 DEF PullsOf
<1>4. CASE q = r
  <2>1. Deciding(r) \cap others = {}
    BY <1>4 DEF Disturbs
  <2>2. Deciding(r)' = {}
    BY <2>1 DEF Deciding
  <2> QED BY <1>4, <2>2 DEF PullsOf
<1> QED BY <1>3, <1>4

(* The pull requests stay as they are; whoever is about to write lists     *)
(* them now or was about to write before.                                  *)
LEMMA PullsStay ==
  ASSUME PullsInv, UNCHANGED <<pulls, raced>>,
         \A u \in Run : work'[u].stage = "write" /\ work'[u].repo \in Repo =>
                          work'[u] = work[u] \/ work'[u].listed = pulls[work'[u].repo]
  PROVE  PullsInv'
<1> SUFFICES ASSUME NEW q \in Repo, q \notin raced PROVE PullsOf(q)'
  BY DEF PullsInv
<1>1. PullsOf(q)
  BY DEF PullsInv
<1>2. ASSUME NEW u \in Deciding(q)' PROVE work'[u].listed = pulls[q]
  BY <1>1, <1>2 DEF Deciding, PullsOf
<1> QED BY <1>1, <1>2 DEF PullsOf

LEMMA HumanPulls ==
  ASSUME MigrationTypeOK, PullsInv, NEW r \in Repo, Human(r)
  PROVE  PullsInv'
<1>1. ASSUME NEW k \in DOMAIN pulls[r], NEW s, pulls' = [pulls EXCEPT ![r][k] = s],
             Disturbs(r, Run), UNCHANGED work
      PROVE  PullsInv'
  <2>1. pulls[r] \in Seq(PullState) /\ pulls'[r] = [pulls[r] EXCEPT ![k] = s]
        /\ \A q \in Repo \ {r} : pulls'[q] = pulls[q]
    BY <1>1 DEF MigrationTypeOK
  <2>2. Len(pulls'[r]) = Len(pulls[r])
    BY <2>1
  <2>3. r \notin raced' => Len(pulls'[r]) <= 1
    BY <1>1, <2>2 DEF PullsInv, PullsOf, Disturbs
  <2> QED BY <1>1, <2>1, <2>3, PullsChange
<1>2. CASE Commits(r)
  BY <1>2, PullsStay DEF Commits
<1>3. CASE Merges(r)
  BY <1>1, <1>3 DEF Merges, OpenPulls
<1>4. CASE Closes(r)
  BY <1>1, <1>4 DEF Closes, OpenPulls
<1>5. CASE Reopens(r)
  BY <1>1, <1>5 DEF Reopens
<1> QED BY <1>2, <1>3, <1>4, <1>5 DEF Human

LEMMA PublishPulls ==
  ASSUME MigrationTypeOK, PullsInv, NEW u \in Run, PublishStep(u)
  PROVE  PullsInv'
<1> USE DEF MigrationTypeOK
<1>1. \A v \in Run \ {u} : work'[v] = work[v]
  BY WorkOfOthers
<1>2. work[u] \in Work /\ work[u].stage # "idle" /\ work[u].repo \in Repo
  BY DEF PublishStep, CompareBase, MoveBranch, ListPulls, UpdatePull, LeaveClosedPull, CreatePull,
         ReportCheck, GitHubFails, At
<1>3. ASSUME UNCHANGED <<pulls, raced>>, work'[u].stage # "write" PROVE PullsInv'
  BY <1>1, <1>3, PullsStay
<1>4. ASSUME work[u].stage = "write", work[u].listed = <<>>, work'[u].stage # "write",
             pulls' = [pulls EXCEPT ![work[u].repo] = Append(@, "open")],
             Disturbs(work[u].repo, Run \ {u})
      PROVE  PullsInv'
  <2> DEFINE r == work[u].repo
  <2>1. pulls[r] \in Seq(PullState) /\ pulls'[r] = Append(pulls[r], "open")
        /\ \A q \in Repo \ {r} : pulls'[q] = pulls[q]
    BY <1>2, <1>4
  <2>2. ASSUME r \notin raced' PROVE Len(pulls'[r]) <= 1
    <3>1. PullsOf(r) /\ u \in Deciding(r)
      BY <1>2, <1>4, <2>2 DEF PullsInv, Disturbs, Deciding
    <3>2. pulls[r] = <<>>
      BY <1>4, <3>1 DEF PullsOf
    <3> QED BY <2>1, <3>2
  <2>3. r \in Repo /\ Disturbs(r, Run \ {u})
    BY <1>2, <1>4
  <2> HIDE DEF r
  <2>4. PICK others \in SUBSET Run : others = Run \ {u}
    OBVIOUS
  <2>5. /\ \A v \in others : work'[v] = work[v]
        /\ \A v \in Run \ others : work'[v].stage # "write"
    BY <1>1, <1>4, <2>4
  <2>6. Disturbs(r, others)
    BY <2>3, <2>4
  <2> QED BY <2>1, <2>2, <2>3, <2>5, <2>6, PullsChange
<1>5. CASE ListPulls(u)
  <2>1. work'[u].listed = pulls[work[u].repo] /\ work'[u].repo = work[u].repo
    BY <1>2, <1>5 DEF ListPulls, Work
  <2> QED BY <1>1, <1>5, <2>1, PullsStay DEF ListPulls, githubVars
<1>6. ASSUME NEW s, Goes(u, s), s # "write" PROVE work'[u].stage # "write"
  BY <1>2, <1>6 DEF Goes, Work
<1>7. ASSUME NEW s, Ends(u, s) PROVE work'[u].stage # "write"
  BY <1>2, <1>7 DEF Ends, Work
<1>8. ASSUME NEW s, NEW n, Decided(u, s, n) PROVE work'[u].stage # "write"
  BY <1>2, <1>8 DEF Decided, Work
<1>9. CASE CompareBase(u) \/ MoveBranch(u) \/ ReportCheck(u)
  BY <1>3, <1>6, <1>7, <1>9 DEF CompareBase, MoveBranch, ReportCheck, githubVars
<1>10. CASE UpdatePull(u) \/ LeaveClosedPull(u)
  BY <1>3, <1>8, <1>10 DEF UpdatePull, LeaveClosedPull, githubVars
<1>11. CASE CreatePull(u)
  BY <1>3, <1>4, <1>7, <1>8, <1>11 DEF CreatePull, At
<1>12. CASE GitHubFails(u)
  BY <1>3, <1>4, <1>7, <1>12 DEF GitHubFails, At
<1> QED BY <1>5, <1>9, <1>10, <1>11, <1>12 DEF PublishStep

LEMMA PullsStep == TypeOK /\ PullsInv /\ [Next]_vars => PullsInv'
<1> SUFFICES ASSUME TypeOK, PullsInv, [Next]_vars PROVE PullsInv'
  OBVIOUS
<1>1. MigrationTypeOK
  BY DEF TypeOK
<1>2. ASSUME UNCHANGED <<pulls, raced, work>> PROVE PullsInv'
  BY <1>2, PullsStay
<1>3. ASSUME NEW u \in Run, NEW x, x.stage # "write", work' = [work EXCEPT ![u] = x],
             UNCHANGED <<pulls, raced>>
      PROVE  PullsInv'
  <2>1. \A v \in Run : work'[v] = work[v] \/ work'[v].stage # "write"
    BY <1>1, <1>3 DEF MigrationTypeOK
  <2> QED BY <1>3, <2>1, PullsStay
<1>4. ASSUME NEW u \in Run, Launch(u) \/ LoadAndEvaluate(u) \/ Persist(u) PROVE PullsInv'
  BY <1>2, <1>4 DEF Launch, LoadAndEvaluate, Persist, migrationVars, githubVars
<1>5. ASSUME NEW u \in Run, PublishNext(u) PROVE PullsInv'
  <2>1. \A r, b : [Idle EXCEPT !.stage = "base", !.repo = r, !.base = b].stage # "write"
    BY DEF Idle
  <2>2. PICK r, b : work' = [work EXCEPT ![u] = [Idle EXCEPT !.stage = "base", !.repo = r, !.base = b]]
    BY <1>5 DEF PublishNext, BeginPublish
  <2>3. UNCHANGED <<pulls, raced>>
    BY <1>5 DEF PublishNext, githubVars
  <2> QED BY <1>3, <2>1, <2>2, <2>3
<1>6. ASSUME NEW u \in Run, FinishPublish(u) \/ PublishRaises(u) \/ RunLost(u) PROVE PullsInv'
  BY <1>3, <1>6, IdleWork DEF FinishPublish, RecordRow, PublishRaises, RunLost, githubVars
<1>7. ASSUME NEW u \in Run, PublishStep(u) PROVE PullsInv'
  BY <1>1, <1>7, PublishPulls
<1>8. ASSUME NEW r \in Repo, Human(r) PROVE PullsInv'
  BY <1>1, <1>8, HumanPulls
<1>9. CASE UNCHANGED vars
  BY <1>2, <1>9 DEF vars, migrationVars, githubVars
<1> QED BY <1>4, <1>5, <1>6, <1>7, <1>8, <1>9 DEF Next, RunStep

(***************************************************************************)
(* A migration has one pull request per repository, ever, unless the       *)
(* pull requests changed under a publication between its list and its      *)
(* write: for any number of publications at a time, failing or killed.     *)
(***************************************************************************)
THEOREM OnePullEver == Spec => []OnePull
<1>1. Init => PullsInv
  <2> SUFFICES ASSUME Init PROVE PullsInv
    OBVIOUS
  <2>1. \A r \in Repo : Len(pulls[r]) = 0
    BY DEF Init, MigrationInit
  <2>2. \A r \in Repo : Deciding(r) = {}
    BY IdleWork DEF Init, MigrationInit, Deciding
  <2>3. \A r \in Repo : PullsOf(r)
    <3> SUFFICES ASSUME NEW r \in Repo PROVE PullsOf(r)
      OBVIOUS
    <3>1. Len(pulls[r]) <= 1
      BY <2>1
    <3> QED BY <2>2, <3>1 DEF PullsOf
  <2> QED BY <2>3 DEF PullsInv
<1>2. PullsInv => OnePull
  BY DEF PullsInv, PullsOf, OnePull
<1> QED BY <1>1, <1>2, PullsStep, TypeCorrect, PTL DEF Spec

(***************************************************************************)
(* What a campaign says.  A record remembers that its repository was found *)
(* affected only if a stored run found it, or this run does; a run that    *)
(* none was stored after started from what is stored.                      *)
(***************************************************************************)
RunEarns(x) ==
    \A r \in DOMAIN x.records :
        /\ RecordHolds(x.records[r])
        /\ x.records[r].ever => r \in affected \/ x.records[r].class = "affected"

StoredEarns ==
    stored # Nothing => \A r \in DOMAIN stored.records :
        /\ RecordHolds(stored.records[r])
        /\ stored.records[r].ever => r \in affected

Remembers ==
    \A r \in remembered : stored # Nothing /\ r \in DOMAIN stored.records /\ stored.records[r].ever

StartsFromStored(x) ==
    x.stage = "publishing" =>
        /\ x.previous = stored
        /\ \A r \in remembered \cap DOMAIN x.records : x.records[r].ever

EarnedInv ==
    /\ \A u \in Run : RunEarns(runs[u])
    /\ StoredEarns
    /\ Remembers
    /\ \A u \in Run \ outdated : StartsFromStored(runs[u])

(* Nothing is stored; one run changes to one that still is as said.        *)
LEMMA EarnedByRun ==
  ASSUME TypeOK, EarnedInv, NEW u \in Run, NEW x, runs' = [runs EXCEPT ![u] = x],
         UNCHANGED <<stored, affected, remembered>>, outdated \subseteq outdated' \cup {u},
         RunEarns(x), u \notin outdated' => StartsFromStored(x)
  PROVE  EarnedInv'
<1>1. \A v \in Run \ {u} : runs'[v] = runs[v]
  BY DEF TypeOK
<1>2. runs'[u] = x
  BY DEF TypeOK
<1>3. ASSUME NEW v \in Run PROVE RunEarns(runs[v])'
  <2>1. RunEarns(runs'[v])
    BY <1>1, <1>2 DEF EarnedInv
  <2> QED BY <2>1 DEF RunEarns
<1>4. ASSUME NEW v \in Run, v \notin outdated' PROVE StartsFromStored(runs[v])'
  <2>1. StartsFromStored(runs'[v])
    BY <1>1, <1>2, <1>4 DEF EarnedInv
  <2> QED BY <2>1 DEF StartsFromStored
<1>5. StoredEarns' /\ Remembers'
  BY DEF EarnedInv, StoredEarns, Remembers
<1> QED BY <1>3, <1>4, <1>5 DEF EarnedInv

LEMMA EarnedUnchanged ==
  ASSUME EarnedInv, UNCHANGED <<runs, stored, affected, remembered, outdated>>
  PROVE  EarnedInv'
BY DEF EarnedInv, RunEarns, StoredEarns, Remembers, StartsFromStored

LEMMA LoadEarned ==
  ASSUME TypeOK, EarnedInv, NEW u \in Run, LoadAndEvaluate(u)
  PROVE  EarnedInv'
<1>1. PICK x : /\ x.stage = "publishing" /\ x.previous = stored
               /\ \A r \in DOMAIN x.records :
                    /\ RecordHolds(x.records[r])
                    /\ x.records[r].ever <=> Prior(r) \/ x.records[r].class = "affected"
               /\ runs' = [runs EXCEPT ![u] = x]
  BY Loaded
<1>2. \A r : Prior(r) => r \in affected
  BY DEF Prior, EarnedInv, StoredEarns
<1>3. \A r \in remembered : Prior(r)
  BY DEF Prior, EarnedInv, Remembers
<1>4. RunEarns(x) /\ StartsFromStored(x)
  BY <1>1, <1>2, <1>3 DEF RunEarns, StartsFromStored
<1> QED BY <1>1, <1>4, EarnedByRun DEF LoadAndEvaluate, historyVars

LEMMA PublishEarned ==
  ASSUME TypeOK, EarnedInv, NEW u \in Run,
         PublishNext(u) \/ FinishPublish(u) \/ PublishRaises(u)
  PROVE  EarnedInv'
<1>1. PICK x : /\ x.stage = runs[u].stage /\ x.previous = runs[u].previous
               /\ DOMAIN x.records = DOMAIN runs[u].records
               /\ \A r \in DOMAIN x.records :
                    /\ RecordHolds(runs[u].records[r]) => RecordHolds(x.records[r])
                    /\ x.records[r].ever = runs[u].records[r].ever
                    /\ x.records[r].class = runs[u].records[r].class
               /\ runs' = [runs EXCEPT ![u] = x]
  BY PublishChanges
<1>2. UNCHANGED <<stored, historyVars>>
  BY DEF PublishNext, FinishPublish, PublishRaises
<1>3. RunEarns(x)
  BY <1>1 DEF EarnedInv, RunEarns
<1>4. u \notin outdated => StartsFromStored(x)
  BY <1>1 DEF EarnedInv, StartsFromStored
<1> QED BY <1>1, <1>2, <1>3, <1>4, EarnedByRun DEF historyVars

LEMMA PersistEarned ==
  ASSUME TypeOK, EarnedInv, NEW u \in Run, Persist(u)
  PROVE  EarnedInv'
<1> DEFINE records == runs[u].records
           found == {r \in DOMAIN records : records[r].class = "affected"}
<1>1. stored'.records = records
  BY StoredVersion
<1>2. stored' # Nothing
  <2>1. PICK scope \in SUBSET Repo : records \in [scope -> Record]
    BY DEF TypeOK, RunState
  <2>2. StateOf(records) \in CampaignState
    BY CampaignStates DEF StateOf
  <2>3. stored' \in CampaignRow(scope)
    BY <2>1, <2>2, StoredVersion DEF CampaignRow
  <2> QED BY <2>3, NothingAssumption
<1>3. affected' = affected \cup found
  BY DEF Persist
<1>4. remembered' = found \cup (IF u \in outdated THEN {} ELSE remembered \cap DOMAIN records)
  BY DEF Persist
<1>5. RunEarns(runs[u]) /\ (u \notin outdated => StartsFromStored(runs[u])) /\ Is(u, "publishing")
  BY DEF EarnedInv, Persist
<1>6. StoredEarns'
  <2>1. ASSUME NEW r \in DOMAIN records
        PROVE  RecordHolds(records[r]) /\ (records[r].ever => r \in affected')
    BY <1>3, <1>5 DEF RunEarns
  <2> HIDE DEF records
  <2> QED BY <1>1, <2>1 DEF StoredEarns, RecordHolds
<1>7. Remembers'
  <2>1. \A r \in found : r \in DOMAIN records /\ records[r].ever
    BY <1>5 DEF RunEarns, RecordHolds
  <2>2. u \notin outdated => \A r \in remembered \cap DOMAIN records : records[r].ever
    BY <1>5 DEF StartsFromStored, Is
  <2>3. \A r \in remembered' : r \in DOMAIN records /\ records[r].ever
    BY <1>4, <2>1, <2>2
  <2> HIDE DEF records
  <2> QED BY <1>1, <1>2, <2>3 DEF Remembers
<1>8. runs' = [runs EXCEPT ![u] = Ended]
  BY DEF Persist, Ended
<1>9. \A v \in Run \ {u} : runs'[v] = runs[v]
  BY <1>8 DEF TypeOK
<1>10. runs'[u] = Ended /\ Ended.stage = "ended" /\ DOMAIN Ended.records = {}
  BY <1>8, NotRunIsRun, EmptyRecords DEF TypeOK
<1>11. ASSUME NEW v \in Run PROVE RunEarns(runs[v])'
  <2>1. CASE v = u
    BY <1>10, <2>1 DEF RunEarns
  <2>2. CASE v # u
    <3>1. RunEarns(runs[v]) /\ runs'[v] = runs[v]
      BY <1>9, <2>2 DEF EarnedInv
    <3> QED BY <1>3, <3>1 DEF RunEarns
  <2> QED BY <2>1, <2>2
<1>12. ASSUME NEW v \in Run, v \notin outdated' PROVE StartsFromStored(runs[v])'
  <2>1. runs'[v].stage # "publishing"
    BY <1>9, <1>10, <1>12 DEF Persist, Is
  <2> QED BY <2>1 DEF StartsFromStored
<1> QED BY <1>6, <1>7, <1>11, <1>12 DEF EarnedInv

LEMMA EarnedStep == TypeOK /\ EarnedInv /\ [Next]_vars => EarnedInv'
<1> SUFFICES ASSUME TypeOK, EarnedInv, [Next]_vars PROVE EarnedInv'
  OBVIOUS
<1>1. ASSUME NEW u \in Run, Launch(u) PROVE EarnedInv'
  <2>1. PICK approved, entries :
          runs' = [runs EXCEPT ![u] = [NotRun EXCEPT !.stage = "launched", !.approved = approved,
                                                     !.entries = entries]]
    BY <1>1 DEF Launch
  <2> DEFINE x == [NotRun EXCEPT !.stage = "launched", !.approved = approved, !.entries = entries]
  <2>2. x.stage = "launched" /\ DOMAIN x.records = {}
    BY EmptyRecords DEF NotRun
  <2>3. runs' = [runs EXCEPT ![u] = x]
    BY <2>1
  <2> HIDE DEF x
  <2>4. RunEarns(x) /\ StartsFromStored(x)
    BY <2>2 DEF RunEarns, StartsFromStored
  <2> QED BY <1>1, <2>3, <2>4, EarnedByRun DEF Launch, historyVars
<1>2. ASSUME NEW u \in Run, RunLost(u) PROVE EarnedInv'
  <2>1. runs' = [runs EXCEPT ![u] = Ended]
    BY <1>2 DEF RunLost, Ended
  <2>2. RunEarns(Ended) /\ StartsFromStored(Ended)
    BY NotRunIsRun, EmptyRecords DEF RunEarns, StartsFromStored
  <2> QED BY <1>2, <2>1, <2>2, EarnedByRun DEF RunLost
<1>3. ASSUME NEW u \in Run, RunStep(u) PROVE EarnedInv'
  BY <1>2, <1>3, LoadEarned, PublishEarned, PersistEarned, EarnedUnchanged DEF RunStep, historyVars
<1>4. CASE UNCHANGED <<stored, runs, historyVars>>
  BY <1>4, EarnedUnchanged DEF historyVars
<1> QED BY <1>1, <1>3, <1>4 DEF Next, vars

LEMMA EarnedHolds == Spec => []EarnedInv
<1>1. Init => EarnedInv
  BY NotRunIsRun, EmptyRecords
  DEF Init, EarnedInv, RunEarns, StoredEarns, Remembers, StartsFromStored, NotRun
<1> QED BY <1>1, EarnedStep, TypeCorrect, PTL DEF Spec

(***************************************************************************)
(* A campaign says RESOLVED only of repositories that a stored run found   *)
(* affected, and NOT_AFFECTED of none that it has to remember.             *)
(***************************************************************************)
THEOREM ResolvedEarned == Spec => []ResolvedIsEarned
<1>1. EarnedInv => ResolvedIsEarned
  BY DEF EarnedInv, StoredEarns, Remembers, RecordHolds, ResolvedIsEarned
<1> QED BY <1>1, EarnedHolds, PTL

(***************************************************************************)
(* The version.  What is compared of records is what a reader sees.        *)
(***************************************************************************)
LEMMA SignedFacts ==
  ASSUME NEW a \in Record, NEW b \in Record
  PROVE  [a EXCEPT !.pr = IF @ = "updated" THEN "opened" ELSE @]
           = [b EXCEPT !.pr = IF @ = "updated" THEN "opened" ELSE @]
         <=> Facts(a) = Facts(b)
<1> DEFINE sa == [a EXCEPT !.pr = IF @ = "updated" THEN "opened" ELSE @]
           sb == [b EXCEPT !.pr = IF @ = "updated" THEN "opened" ELSE @]
           same == /\ a.state = b.state /\ a.class = b.class /\ a.ever = b.ever /\ a.base = b.base
                   /\ a.outcome = b.outcome /\ a.number = b.number
           pa == IF a.pr = "updated" THEN "opened" ELSE a.pr
           pb == IF b.pr = "updated" THEN "opened" ELSE b.pr
<1>1. /\ sa.state = a.state /\ sa.class = a.class /\ sa.ever = a.ever /\ sa.base = a.base
      /\ sa.outcome = a.outcome /\ sa.number = a.number /\ sa.pr = pa /\ sa \in Record
  BY DEF Record, Status
<1>2. /\ sb.state = b.state /\ sb.class = b.class /\ sb.ever = b.ever /\ sb.base = b.base
      /\ sb.outcome = b.outcome /\ sb.number = b.number /\ sb.pr = pb /\ sb \in Record
  BY DEF Record, Status
<1>3. sa = sb <=> same /\ pa = pb
  <2> HIDE DEF sa, sb
  <2>1. sa = sb => same /\ pa = pb
    BY <1>1, <1>2
  <2>2. same /\ pa = pb => sa = sb
    BY <1>1, <1>2 DEF Record
  <2> QED BY <2>1, <2>2
<1>4. a.pr \in Status \cup {"none"} /\ b.pr \in Status \cup {"none"}
  BY DEF Record
<1>5. Facts(a) = Facts(b) <=> same /\ pa = pb
  BY <1>4 DEF Facts, Status
<1> QED BY <1>3, <1>5

LEMMA SignatureIsSeen ==
  ASSUME NEW S, NEW T, NEW f \in [S -> Record], NEW g \in [T -> Record]
  PROVE  Signature(f) = Signature(g)
         <=> [r \in DOMAIN f |-> Facts(f[r])] = [r \in DOMAIN g |-> Facts(g[r])]
<1> DEFINE sf == [r \in S |-> [f[r] EXCEPT !.pr = IF @ = "updated" THEN "opened" ELSE @]]
           sg == [r \in T |-> [g[r] EXCEPT !.pr = IF @ = "updated" THEN "opened" ELSE @]]
           ff == [r \in S |-> Facts(f[r])]
           fg == [r \in T |-> Facts(g[r])]
<1>1. Signature(f) = sf /\ Signature(g) = sg
  BY DEF Signature
<1>2. [r \in DOMAIN f |-> Facts(f[r])] = ff /\ [r \in DOMAIN g |-> Facts(g[r])] = fg
  OBVIOUS
<1>3. \A r \in S \cap T : sf[r] = sg[r] <=> ff[r] = fg[r]
  <2> SUFFICES ASSUME NEW r \in S \cap T PROVE sf[r] = sg[r] <=> ff[r] = fg[r]
    OBVIOUS
  <2>1. f[r] \in Record /\ g[r] \in Record
    OBVIOUS
  <2>2. /\ sf[r] = [f[r] EXCEPT !.pr = IF @ = "updated" THEN "opened" ELSE @]
        /\ sg[r] = [g[r] EXCEPT !.pr = IF @ = "updated" THEN "opened" ELSE @]
        /\ ff[r] = Facts(f[r]) /\ fg[r] = Facts(g[r])
    OBVIOUS
  <2> HIDE DEF sf, sg, ff, fg
  <2> QED BY <2>1, <2>2, SignedFacts
<1>4. sf = sg => S = T /\ \A r \in S : sf[r] = sg[r]
  <2>1. DOMAIN sf = S /\ DOMAIN sg = T
    OBVIOUS
  <2> HIDE DEF sf, sg
  <2> QED BY <2>1
<1>5. ff = fg => S = T /\ \A r \in S : ff[r] = fg[r]
  <2>1. DOMAIN ff = S /\ DOMAIN fg = T
    OBVIOUS
  <2> HIDE DEF ff, fg
  <2> QED BY <2>1
<1>6. S = T /\ (\A r \in S : sf[r] = sg[r]) => sf = sg
  OBVIOUS
<1>7. S = T /\ (\A r \in S : ff[r] = fg[r]) => ff = fg
  OBVIOUS
<1> HIDE DEF sf, sg, ff, fg
<1>8. sf = sg <=> ff = fg
  BY <1>3, <1>4, <1>5, <1>6, <1>7
<1> QED BY <1>1, <1>2, <1>8

(***************************************************************************)
(* A run that started from what is stored raises the version exactly if a  *)
(* reader sees a difference.                                               *)
(***************************************************************************)
THEOREM VersionTells == Spec => VersionTellsChange
<1>1. ASSUME TypeOK, EarnedInv, NEW u \in Run \ outdated, Persist(u), stored # Nothing
      PROVE  stored'.version # stored.version <=> Seen(stored') # Seen(stored)
  <2> DEFINE records == runs[u].records
  <2>1. runs[u].previous = stored
    BY <1>1 DEF EarnedInv, StartsFromStored, Persist, Is
  <2>2. /\ stored'.version = VersionOf(u)
        /\ stored'.records = records /\ stored'.state = StateOf(records)
    BY <1>1, <2>1, StoredVersion
  <2>3. stored.version \in Nat
    BY <1>1, StoredFacts
  <2>4. VersionOf(u) = stored.version
          <=> Signature(stored.records) = Signature(records) /\ stored.state = StateOf(records)
    BY <1>1, <2>1, <2>3 DEF VersionOf
  <2>5. Signature(stored.records) = Signature(records)
          <=> [r \in DOMAIN stored.records |-> Facts(stored.records[r])]
                = [r \in DOMAIN records |-> Facts(records[r])]
    <3>1. PICK S \in SUBSET Repo : records \in [S -> Record]
      BY <1>1 DEF TypeOK, RunState
    <3>2. PICK T \in SUBSET Repo : stored.records \in [T -> Record]
      BY <1>1 DEF TypeOK, CampaignRow
    <3> HIDE DEF records
    <3> QED BY <3>1, <3>2, SignatureIsSeen
  <2>6. Seen(stored) = <<stored.state, [r \in DOMAIN stored.records |-> Facts(stored.records[r])]>>
    BY DEF Seen
  <2>7. Seen(stored') = <<StateOf(records), [r \in DOMAIN records |-> Facts(records[r])]>>
    BY <2>2 DEF Seen
  <2>8. Seen(stored') = Seen(stored)
          <=> stored.state = StateOf(records)
              /\ [r \in DOMAIN stored.records |-> Facts(stored.records[r])]
                   = [r \in DOMAIN records |-> Facts(records[r])]
    BY <2>6, <2>7
  <2> QED BY <2>2, <2>4, <2>5, <2>8
<1>2. TypeOK /\ EarnedInv /\ [Next]_vars =>
        [\A u \in Run \ outdated : Persist(u) /\ stored # Nothing =>
            (stored'.version # stored.version <=> Seen(stored') # Seen(stored))]_vars
  BY <1>1
<1> QED BY <1>2, TypeCorrect, EarnedHolds, PTL DEF Spec, VersionTellsChange

-----------------------------------------------------------------------------
(* What policy decides: whether a head may be merged, and which providers  *)
(* are given its code.                                                     *)

(* The scale of severities.                                                *)
LEMMA SeverityRanks ==
  /\ SeverityRank("info") = 0 /\ SeverityRank("low") = 1 /\ SeverityRank("medium") = 2
  /\ SeverityRank("high") = 3 /\ SeverityRank("critical") = 4
BY DEF SeverityRank

(* The latest of some attempts is one of them.                             *)
LEMMA LatestIsOne ==
  ASSUME NEW n \in Nat, NEW S \in SUBSET (1..n), S # {}
  PROVE  Max(S) \in S
<1>1. PICK k \in S : \A j \in S : j <= k
  BY GreatestExists
<1>2. \A j \in S : k >= j
  BY <1>1
<1> QED BY <1>2 DEF Max

(* A finding counts as fixed only if an attempt at the head was verified.  *)
LEMMA FixedIsVerified ==
  ASSUME NEW status, NEW attempts \in Seq(status)
  PROVE  FixStatus(attempts) = "fixed" => \E i \in DOMAIN attempts : attempts[i] = "fixed"
<1> DEFINE meaningful == {i \in DOMAIN attempts : attempts[i] \notin {"stale", "error"}}
<1>1. CASE meaningful = {}
  BY <1>1 DEF FixStatus, None
<1>2. CASE meaningful # {}
  <2>1. meaningful \in SUBSET (1..Len(attempts)) /\ Len(attempts) \in Nat
    OBVIOUS
  <2>2. Max(meaningful) \in meaningful
    BY <1>2, <2>1, LatestIsOne
  <2> QED BY <1>2, <2>2 DEF FixStatus
<1> QED BY <1>1, <1>2

(* The strictest of some floors is one of them, and no laxer than any.     *)
LEMMA FloorIs ==
  ASSUME NEW floors, floors \subseteq Severity \cup {None}
  PROVE  /\ StricterFloor(floors) \in floors \cup {None}
         /\ \A f \in floors \ {None} :
              /\ StricterFloor(floors) # None
              /\ SeverityRank(StricterFloor(floors)) <= SeverityRank(f)
<1> DEFINE given == floors \ {None}
           least(f) == \A g \in given : SeverityRank(f) <= SeverityRank(g)
<1>1. CASE given = {}
  BY <1>1 DEF StricterFloor
<1>2. CASE given # {}
  <2>1. given \subseteq Severity
    OBVIOUS
  <2>2. \E f \in given : least(f)
    <3>1. CASE "info" \in given
      BY <2>1, <3>1, SeverityRanks DEF Severity
    <3>2. CASE "info" \notin given /\ "low" \in given
      BY <2>1, <3>2, SeverityRanks DEF Severity
    <3>3. CASE given \cap {"info", "low"} = {} /\ "medium" \in given
      BY <2>1, <3>3, SeverityRanks DEF Severity
    <3>4. CASE given \cap {"info", "low", "medium"} = {} /\ "high" \in given
      BY <2>1, <3>4, SeverityRanks DEF Severity
    <3>5. CASE given \subseteq {"critical"}
      BY <1>2, <3>5, SeverityRanks
    <3> QED BY <2>1, <3>1, <3>2, <3>3, <3>4, <3>5 DEF Severity
  <2>3. StricterFloor(floors) = CHOOSE f \in given : least(f)
    BY <1>2 DEF StricterFloor
  <2>4. StricterFloor(floors) \in given /\ least(StricterFloor(floors))
    BY <2>2, <2>3
  <2> QED BY <2>4
<1> QED BY <1>1, <1>2

(* The policies of some scopes, as far as the laws read them.              *)
Floor == Severity \cup {None}
IsScopes(scopes) ==
  /\ \E rules : scopes \in Seq(rules)
  /\ \A i \in DOMAIN scopes : scopes[i].block \in Floor /\ scopes[i].human \in Floor

(* The same scopes in the other order.                                     *)
LEMMA RulesOf == ASSUME NEW rules, NEW scopes \in Seq(rules) PROVE ToSet(Reverse(scopes)) = ToSet(scopes)
<1>1. DOMAIN Reverse(scopes) = 1..Len(scopes) /\ DOMAIN scopes = 1..Len(scopes) /\ Len(scopes) \in Nat
  BY DEF Reverse
<1>2. \A i \in 1..Len(scopes) : Len(scopes) - i + 1 \in 1..Len(scopes) /\ Reverse(scopes)[i] = scopes[Len(scopes) - i + 1]
  BY DEF Reverse
<1>3. \A i \in 1..Len(scopes) : Reverse(scopes)[Len(scopes) - i + 1] = scopes[i]
  <2> SUFFICES ASSUME NEW i \in 1..Len(scopes) PROVE Reverse(scopes)[Len(scopes) - i + 1] = scopes[i]
    OBVIOUS
  <2>1. Len(scopes) - i + 1 \in 1..Len(scopes) /\ Len(scopes) - (Len(scopes) - i + 1) + 1 = i
    BY <1>1
  <2> QED BY <1>2, <2>1
<1> QED BY <1>1, <1>2, <1>3 DEF ToSet

(* ScopesTighten: for any number of scopes and any rules, merging policies *)
(* only tightens: no floor is lifted, no provider comes back, and the order*)
(* of the scopes does not matter (merge_policies).                         *)
THEOREM ScopesTighten ==
  ASSUME NEW scopes, IsScopes(scopes)
  PROVE  ScopesOnlyTighten(scopes)
<1> DEFINE rules == ToSet(scopes)
           blocks == {r.block : r \in rules}
           humans == {r.human : r \in rules}
           all == MergePolicies(scopes)
<1>1. \A i \in DOMAIN scopes : scopes[i] \in rules
  BY DEF ToSet
<1>2. blocks \subseteq Floor /\ humans \subseteq Floor
  BY DEF IsScopes, ToSet
<1>3. all.block = StricterFloor(blocks) /\ all.human = StricterFloor(humans)
  BY DEF MergePolicies
<1>4. ASSUME NEW r \in rules
      PROVE  /\ r.block # None => SeverityRank(all.block) <= SeverityRank(r.block)
             /\ r.human # None => SeverityRank(all.human) <= SeverityRank(r.human)
  BY <1>2, <1>3, FloorIs DEF Floor
<1>5. ASSUME NEW r \in rules, r.providers # {None}
      PROVE  all.providers \subseteq r.providers
  <2>1. r.providers \in {q.providers : q \in rules} \ {{None}}
    BY <1>5
  <2> QED BY <2>1 DEF MergePolicies
<1>6. \A r \in rules : r.personal = "no" => ~all.personal
  BY DEF MergePolicies
<1>7. MergePolicies(Reverse(scopes)) = all
  <2>1. ToSet(Reverse(scopes)) = ToSet(scopes)
    BY RulesOf DEF IsScopes
  <2> QED BY <2>1 DEF MergePolicies
<1> QED BY <1>1, <1>4, <1>5, <1>6, <1>7 DEF ScopesOnlyTighten

(* ReadyWasEarned: for any findings, attempts and policies, "ready" means a*)
(* finished review of this very head in which every grave finding was closed*)
(* or had a fix verified at this head (MergeReadinessService.evaluate with *)
(* apply_policy_to_merge_readiness).                                       *)
THEOREM ReadyWasEarned ==
  ASSUME NEW head, NEW run, NEW scopes, NEW verification,
         \A f \in run.findings : \E status : f.attempts \in Seq(status)
  PROVE  ReadyIsEarned(head, run, scopes, verification)
<1> SUFFICES ASSUME Decision(head, run, scopes, verification) = "ready"
             PROVE  /\ run.commit = head /\ run.status = "succeeded" /\ verification # "unmet"
                    /\ \A f \in run.findings : f.severity \in {"high", "critical"}
                         => f.closed \/ \E i \in DOMAIN f.attempts : f.attempts[i] = "fixed"
  BY DEF ReadyIsEarned
<1>1. Readiness(head, run) = "ready" /\ verification # "unmet"
  BY DEF Decision, Governed
<1>2. /\ run.commit = head /\ run.status = "succeeded"
      /\ \A f \in run.findings : Demand(f) \notin {"block", "human"}
  BY <1>1 DEF Readiness
<1>3. \A f \in run.findings : f.severity \in {"high", "critical"} => f.closed \/ FixStatus(f.attempts) = "fixed"
  BY <1>2 DEF Demand, Open
<1> QED BY <1>1, <1>2, <1>3, FixedIsVerified

(* g is f, or the same finding rated graver.                               *)
AsGrave(f, g) ==
  /\ g.closed = f.closed /\ g.attempts = f.attempts /\ g.category = f.category
  /\ f.severity \in Severity /\ g.severity \in Severity
  /\ SeverityRank(f.severity) <= SeverityRank(g.severity)

(* The decisions there are.                                                *)
LEMMA Decisions ==
  /\ \A h, r : Readiness(h, r) \in {"ready", "human", "blocked"}
  /\ ReadyRank("ready") = 2 /\ ReadyRank("human") = 1 /\ ReadyRank("blocked") = 0
BY DEF Readiness, ReadyRank

(* Whom the scopes ask to look: findings of security at a floor or above.  *)
Asked(findings, scopes, verification) ==
  \/ verification = "unmet"
  \/ \E f \in findings :
       /\ Open(f) /\ f.category = "security"
       /\ \/ MeetsFloor(f.severity, MergePolicies(scopes).human)
          \/ MeetsFloor(f.severity, MergePolicies(scopes).block)

(* The policies only take a "ready" back.                                  *)
LEMMA DecisionIs ==
  ASSUME NEW head, NEW run, NEW scopes, NEW verification
  PROVE  Decision(head, run, scopes, verification)
           = IF Asked(run.findings, scopes, verification) /\ Readiness(head, run) = "ready"
             THEN "human" ELSE Readiness(head, run)
BY DEF Decision, Governed, Asked

(* MoreNeverReadier: with more findings, or graver ones, under any policies,*)
(* a head is never readier; nor is it with one more scope that has a rule. *)
THEOREM MoreNeverReadier ==
  ASSUME NEW head, NEW run, NEW worse, NEW scopes, NEW rule, NEW verification,
         IsScopes(scopes), rule.block \in Floor, rule.human \in Floor,
         worse.commit = run.commit, worse.status = run.status,
         \A f \in run.findings : f.severity \in Severity,
         \A f \in run.findings : \E g \in worse.findings : AsGrave(f, g)
  PROVE  MoreFindingsNoReadier(head, run, worse, scopes, rule, verification)
<1> DEFINE policy == MergePolicies(scopes)
           more == MergePolicies(Append(scopes, rule))
<1>1. ASSUME NEW f, NEW g, AsGrave(f, g)
      PROVE  /\ Demand(f) = "block" => Demand(g) = "block"
             /\ Demand(f) = "human" => Demand(g) \in {"human", "block"}
             /\ Open(f) => Open(g)
  BY <1>1, SeverityRanks DEF AsGrave, Demand, Open, Severity
<1>2. ReadyRank(Readiness(head, worse)) <= ReadyRank(Readiness(head, run))
  BY <1>1, Decisions DEF Readiness
<1>3. /\ policy.block \in Floor /\ policy.human \in Floor
      /\ more.block \in Floor /\ more.human \in Floor
      /\ policy.block # None => more.block # None /\ SeverityRank(more.block) <= SeverityRank(policy.block)
      /\ policy.human # None => more.human # None /\ SeverityRank(more.human) <= SeverityRank(policy.human)
  <2> DEFINE rules == ToSet(scopes)  all == ToSet(Append(scopes, rule))
  <2>1. all = rules \cup {rule}
    <3>1. PICK set : scopes \in Seq(set)
      BY DEF IsScopes
    <3>2. /\ DOMAIN Append(scopes, rule) = 1..(Len(scopes) + 1) /\ DOMAIN scopes = 1..Len(scopes) /\ Len(scopes) \in Nat
          /\ \A i \in 1..Len(scopes) : Append(scopes, rule)[i] = scopes[i]
          /\ Append(scopes, rule)[Len(scopes) + 1] = rule
      BY <3>1
    <3>3. DOMAIN Append(scopes, rule) = DOMAIN scopes \cup {Len(scopes) + 1}
      BY <3>2
    <3> QED BY <3>2, <3>3 DEF ToSet
  <2>2. \A r \in all : r.block \in Floor /\ r.human \in Floor
    BY <2>1 DEF IsScopes, ToSet
  <2>3. /\ policy.block = StricterFloor({r.block : r \in rules}) /\ more.block = StricterFloor({r.block : r \in all})
        /\ policy.human = StricterFloor({r.human : r \in rules}) /\ more.human = StricterFloor({r.human : r \in all})
    BY DEF MergePolicies
  <2> HIDE DEF rules, all, policy, more
  <2>4. /\ {r.block : r \in rules} \subseteq {r.block : r \in all} /\ {r.block : r \in all} \subseteq Floor
        /\ {r.human : r \in rules} \subseteq {r.human : r \in all} /\ {r.human : r \in all} \subseteq Floor
    BY <2>1, <2>2
  <2>5. ASSUME NEW A, NEW B, A \subseteq B, B \subseteq Floor
        PROVE  /\ StricterFloor(A) \in Floor /\ StricterFloor(B) \in Floor
               /\ StricterFloor(A) # None => /\ StricterFloor(B) # None
                                             /\ SeverityRank(StricterFloor(B)) <= SeverityRank(StricterFloor(A))
    BY <2>5, FloorIs DEF Floor
  <2> QED BY <2>3, <2>4, <2>5
<1> HIDE DEF policy, more
<1>4. ASSUME NEW s \in Severity, NEW t \in Severity, NEW a \in Floor, NEW b \in Floor,
             SeverityRank(s) <= SeverityRank(t), MeetsFloor(s, a),
             a # None => b # None /\ SeverityRank(b) <= SeverityRank(a)
      PROVE  MeetsFloor(t, b)
  <2>1. SeverityRank(s) \in Nat /\ SeverityRank(t) \in Nat
    BY SeverityRanks DEF Severity
  <2>2. a # None /\ SeverityRank(a) <= SeverityRank(s)
    BY <1>4 DEF MeetsFloor
  <2>3. SeverityRank(a) \in Nat /\ SeverityRank(b) \in Nat
    BY <1>4, <2>2, SeverityRanks DEF Floor, Severity
  <2> QED BY <1>4, <2>1, <2>2, <2>3 DEF MeetsFloor
<1>5. Asked(run.findings, scopes, verification) => Asked(worse.findings, scopes, verification)
  <2> SUFFICES ASSUME NEW f \in run.findings, Open(f), f.category = "security",
                      MeetsFloor(f.severity, policy.human) \/ MeetsFloor(f.severity, policy.block)
               PROVE  Asked(worse.findings, scopes, verification)
    BY DEF Asked, policy
  <2>1. PICK g \in worse.findings : AsGrave(f, g)
    OBVIOUS
  <2>2. SeverityRank(policy.human) <= SeverityRank(policy.human) \/ policy.human = None
    BY <1>3, SeverityRanks DEF Floor, Severity
  <2>3. SeverityRank(policy.block) <= SeverityRank(policy.block) \/ policy.block = None
    BY <1>3, SeverityRanks DEF Floor, Severity
  <2>4. MeetsFloor(g.severity, policy.human) \/ MeetsFloor(g.severity, policy.block)
    BY <1>3, <1>4, <2>1, <2>2, <2>3 DEF AsGrave
  <2> QED BY <1>1, <2>1, <2>4 DEF Asked, AsGrave, policy
<1>6. Asked(run.findings, scopes, verification) => Asked(run.findings, Append(scopes, rule), verification)
  <2> SUFFICES ASSUME NEW f \in run.findings, Open(f), f.category = "security",
                      MeetsFloor(f.severity, policy.human) \/ MeetsFloor(f.severity, policy.block)
               PROVE  Asked(run.findings, Append(scopes, rule), verification)
    BY DEF Asked, policy
  <2>1. f.severity \in Severity /\ SeverityRank(f.severity) <= SeverityRank(f.severity)
    BY SeverityRanks DEF Severity
  <2>2. MeetsFloor(f.severity, more.human) \/ MeetsFloor(f.severity, more.block)
    BY <1>3, <1>4, <2>1
  <2> QED BY <2>2 DEF Asked, more
<1>7. ReadyRank(Decision(head, worse, scopes, verification)) <= ReadyRank(Decision(head, run, scopes, verification))
  BY <1>2, <1>5, DecisionIs, Decisions
<1>8. ReadyRank(Decision(head, run, Append(scopes, rule), verification)) <= ReadyRank(Decision(head, run, scopes, verification))
  BY <1>6, DecisionIs, Decisions
<1> QED BY <1>7, <1>8 DEF MoreFindingsNoReadier

(* The first of the supported providers among some of them is one of those.*)
LEMMA FirstIsOne ==
  ASSUME NEW providers, NEW p \in ToSet(SupportedProviders), p \in providers
  PROVE  FirstSupported(providers) \in providers
<1> DEFINE at == {i \in DOMAIN SupportedProviders : SupportedProviders[i] \in providers}
<1>1. DOMAIN SupportedProviders = {1, 2, 3}
  BY DEF SupportedProviders
<1>2. at # {} /\ at \subseteq {1, 2, 3}
  BY <1>1 DEF ToSet
<1>3. \E i \in at : \A j \in at : i <= j
  <2>1. CASE 1 \in at
    BY <1>2, <2>1
  <2>2. CASE 1 \notin at /\ 2 \in at
    BY <1>2, <2>2
  <2>3. CASE at = {3}
    BY <2>3
  <2> QED BY <1>2, <2>1, <2>2, <2>3
<1>4. Min(at) \in at
  BY <1>3 DEF Min
<1> QED BY <1>4 DEF FirstSupported

(* CodeGoesWhereAllowed: whatever credentials, policy and settings there   *)
(* are, the code goes to no provider without a credential or outside the   *)
(* policy, no fallback stands in for itself, and the critic is the reviewer*)
(* only if it must be (ProviderRouter.route).                              *)
THEOREM CodeGoesWhereAllowed ==
  ASSUME NEW credentials, NEW allowed, NEW settings, NEW cheap \in BOOLEAN, settings.critics \in BOOLEAN
  PROVE  OnlyAllowedProviders(credentials, allowed, settings, cheap)
<1> DEFINE configured == Configured(credentials, allowed)
           reviewer == Reviewer(configured, settings, cheap)
           critic == IF reviewer = NoProvider THEN NoProvider ELSE Critic(configured, settings, reviewer)
           stand(p) == IF p = NoProvider THEN NoProvider ELSE RuntimeFallback(configured, settings, p)
           plan == Route(credentials, allowed, settings, cheap)
<1>1. /\ configured \subseteq ToSet(SupportedProviders) /\ NoProvider \notin configured
      /\ configured \subseteq credentials
      /\ allowed # {NoProvider} => configured \subseteq allowed
  BY DEF Configured, ToSet, SupportedProviders, NoProvider
<1>2. plan = [reviewer |-> reviewer, critic |-> critic,
              reviewerFallback |-> stand(reviewer), criticFallback |-> stand(critic)]
  BY DEF Route
<1> HIDE DEF configured
<1>3. reviewer \in configured \cup {NoProvider}
  BY DEF Reviewer
<1>4. \A p : stand(p) \in configured \cup {NoProvider} /\ (stand(p) # NoProvider => stand(p) # p)
  BY DEF RuntimeFallback
<1>5. /\ critic \in configured \cup {NoProvider}
      /\ critic = reviewer /\ critic # NoProvider => settings.critic = critic \/ Cardinality(configured) = 1
  <2>1. CASE reviewer = NoProvider \/ ~settings.critics \/ Cardinality(configured) = 1 \/ settings.critic \in configured
    BY <1>3, <2>1 DEF Critic
  <2>2. CASE reviewer # NoProvider /\ settings.critics /\ Cardinality(configured) # 1 /\ settings.critic \notin configured
    <3>1. configured # {reviewer}
      BY <2>2, FS_Singleton
    <3>2. PICK p \in configured : p # reviewer
      BY <1>3, <2>2, <3>1
    <3>3. FirstSupported(configured \ {reviewer}) \in configured \ {reviewer}
      BY <1>1, <3>2, FirstIsOne
    <3>4. critic = FirstSupported(configured \ {reviewer})
      BY <2>2 DEF Critic
    <3> QED BY <3>3, <3>4
  <2> QED BY <2>1, <2>2
<1> HIDE DEF reviewer, critic, stand
<1>6. {plan[k] : k \in DOMAIN plan} = {reviewer, critic, stand(reviewer), stand(critic)}
  <2> HIDE DEF plan
  <2>1. DOMAIN plan = {"reviewer", "critic", "reviewerFallback", "criticFallback"}
    BY <1>2
  <2> QED BY <1>2, <2>1
<1>7. reviewer = NoProvider => critic = NoProvider /\ stand(reviewer) = NoProvider /\ stand(critic) = NoProvider
  BY DEF critic, stand
<1> SUFFICES LET used == {plan[k] : k \in DOMAIN plan} \ {NoProvider}
             IN  /\ used \subseteq credentials
                 /\ allowed # {NoProvider} => used \subseteq allowed
                 /\ plan.reviewerFallback # NoProvider => plan.reviewerFallback # plan.reviewer
                 /\ plan.criticFallback # NoProvider => plan.criticFallback # plan.critic
                 /\ plan.critic = plan.reviewer /\ plan.critic # NoProvider =>
                      settings.critic = plan.critic \/ Cardinality(configured) = 1
                 /\ plan.reviewer = NoProvider => used = {}
  BY DEF OnlyAllowedProviders, plan, configured
<1>8. /\ plan.reviewer = reviewer /\ plan.critic = critic
      /\ plan.reviewerFallback = stand(reviewer) /\ plan.criticFallback = stand(critic)
  BY <1>2
<1> HIDE DEF plan
<1>9. {plan[k] : k \in DOMAIN plan} \ {NoProvider} \subseteq configured
  BY <1>3, <1>4, <1>5, <1>6
<1>10. plan.reviewer = NoProvider => {plan[k] : k \in DOMAIN plan} \ {NoProvider} = {}
  BY <1>6, <1>7, <1>8
<1> QED BY <1>1, <1>4, <1>5, <1>8, <1>9, <1>10
=============================================================================
