---------------------------- MODULE ReviewHistory ----------------------------
(***************************************************************************)
(* What earlier reviews, other pull requests and other repositories say    *)
(* about the code of a change (patchfrog.historical_regression_memory,     *)
(* repository_learnings, learning_records, trajectory_intelligence,        *)
(* cross_pr_intelligence and cross_repo_intelligence).                     *)
(*                                                                         *)
(* findings are the repository's: each has the run that reported it, its   *)
(* file, its candidate's name (or NoId) and its category.  A command is    *)
(* what a developer said of one, and when.  A surface is a file and a      *)
(* name.  most holds the MAX_ constants.                                   *)
(***************************************************************************)
EXTENDS IntentAndTests

LOCAL Upto(s, n) == SubSeq(s, 1, IF Len(s) < n THEN Len(s) ELSE n)
LOCAL FirstOf(s, Key(_)) ==
    LET kept == {i \in DOMAIN s : \A j \in 1..(i - 1) : Key(s[j]) # Key(s[i])}
        place == SetToSortSeq(kept, <)
    IN  [i \in DOMAIN place |-> s[place[i]]]
SurfaceOf(x) == <<x.file, x.name>>
SurfacesOf(candidates) == {SurfaceOf(c) : c \in {c \in candidates : c.name # NoId}}

-----------------------------------------------------------------------------
(* fetch_trusted_historical_records: findings that were called fixed or    *)
(* useful, and never wrong nor to be ignored, by the time of the review;   *)
(* the fixed ones and the newest first.                                    *)
SaidOf(commands, f, asOf) == {c \in commands : c.finding = f /\ c.at <= asOf}
HeardOf(commands, f, asOf) == {c.signal : c \in SaidOf(commands, f, asOf)}
LOCAL Praise == {"fixed", "useful"}
LOCAL Least(S) == CHOOSE x \in S : \A y \in S : x <= y
LOCAL Greatest(S) == CHOOSE x \in S : \A y \in S : y <= x

TrustedRecords(findings, commands, asOf, most) ==
    LET signals(f) == HeardOf(commands, f, asOf)
        trusted == {f \in DOMAIN findings : /\ signals(f) \cap Praise # {}
                                            /\ signals(f) \cap {"false-positive", "ignore"} = {}}
        record(f) == [finding |-> f, run |-> findings[f].run, file |-> findings[f].file, name |-> findings[f].name,
                      category |-> findings[f].category,
                      strength |-> IF "fixed" \in signals(f) THEN "confirmed_fixed" ELSE "confirmed_useful",
                      at |-> Least({c.at : c \in {c \in SaidOf(commands, f, asOf) : c.signal \in Praise}})]
        before(a, b) == \/ a.strength = "confirmed_fixed" /\ b.strength # "confirmed_fixed"
                        \/ a.strength = b.strength /\ (a.at > b.at \/ (a.at = b.at /\ a.finding < b.finding))
    IN  Upto(SetToSortSeq({record(f) : f \in trusted}, before), most.lookback)

(* _build_surface_pool: what a change touches or affects, the test units   *)
(* aside                                                                   *)
SurfacePool(report, contract, gaps) ==
    LET entry(n, x, direct) == [unit |-> n, file |-> x.file, name |-> x.name, direct |-> direct]
        units == SelectSeq([n \in DOMAIN report.units |-> n], LAMBDA n : report.units[n].kind # "test")
        own(n) == [i \in DOMAIN report.units[n].candidates |-> entry(n, report.units[n].candidates[i], TRUE)]
                    \o [i \in DOMAIN report.units[n].affected |-> entry(n, report.units[n].affected[i], FALSE)]
        deltas == SelectSeq(AttributedDeltas(report, contract), LAMBDA d : d.units # {})
        radius(d) == [i \in DOMAIN d.delta.affected |-> entry(Least(d.units), d.delta.affected[i], FALSE)]
        all == FlattenSeq([i \in DOMAIN units |-> own(units[i])])
                 \o FlattenSeq([i \in DOMAIN deltas |-> radius(deltas[i])])
                 \o [i \in DOMAIN gaps |-> entry(gaps[i].unit, gaps[i], FALSE)]
    IN  FirstOf(SelectSeq(all, LAMBDA e : e.name # NoId), LAMBDA e : <<e.unit, e.file, e.name>>)

(* _match_kind_for: exactly the symbol the finding was about.              *)
MatchKind(entry, changedFiles) ==
    IF entry.direct THEN "same_symbol"
    ELSE IF entry.file \in changedFiles THEN "same_name_in_same_file" ELSE "graph_related_surface"

(* _enrichment_for *)
Enriches(entry, companions, gaps, testGaps) ==
    LET at(x) == SurfaceOf(x) = SurfaceOf(entry)
    IN  IF \E m \in ToSet(MissingCompanions(companions)) : at(m) THEN "companion"
        ELSE IF \E g \in ToSet(gaps) : at(g) THEN "intent_gap"
        ELSE IF \E g \in ToSet(testGaps) : at(g) THEN "test_gap" ELSE "nothing"

(* derive_historical_regression_candidates *)
HistoricalCandidates(records, pool, changedFiles, companions, gaps, testGaps, most) ==
    LET entries(r) == SelectSeq(pool, LAMBDA e : SurfaceOf(e) = SurfaceOf(r))
        matched == SelectSeq(records, LAMBDA r : r.name # NoId /\ entries(r) # <<>>)
        within == SelectSeq([i \in DOMAIN matched |-> i], LAMBDA i :
                    Cardinality({j \in 1..(i - 1) : SurfaceOf(matched[j]) = SurfaceOf(matched[i])}) < most.perSurface)
        candidate(r) == [unit |-> entries(r)[1].unit, file |-> r.file, name |-> r.name, record |-> r,
                         match |-> MatchKind(entries(r)[1], changedFiles),
                         enriches |-> Enriches(entries(r)[1], companions, gaps, testGaps)]
    IN  Upto([i \in DOMAIN within |-> candidate(matched[within[i]])], most.history)

(* build_historical_regression_report *)
HistoryReport(records, report, contract, companions, gaps, testGaps, most) ==
    LET changedFiles == {c.file : c \in UNION {ToSet(report.units[n].candidates) :
                                               n \in {n \in DOMAIN report.units : report.units[n].kind # "test"}}}
    IN  HistoricalCandidates(records, SurfacePool(report, contract, gaps), changedFiles, companions, gaps, testGaps, most)

(* What the reviewer of a candidate is told of such a report, and the      *)
(* summary of it.                                                          *)
MaxToldOfHistory == 3
ToldOf(entries, c) ==
    Upto(SelectSeq(entries, LAMBDA e : e.file = c.file /\ (c.name = NoId \/ e.name = c.name)), MaxToldOfHistory)
HistorySummary(history, maxLines) ==
    Upto(SelectSeq(history, LAMBDA h : h.match \in {"same_symbol", "same_name_in_same_file"}), maxLines)

-----------------------------------------------------------------------------
(* derive_repository_learnings: trusted findings of one category on one    *)
(* surface in two runs or more; of each run the oldest counts.             *)
MinSupportingEvents == 2
LOCAL LearningKey(r) == <<r.file, r.name, r.category>>
LOCAL ByTime(a, b) == a.at < b.at \/ (a.at = b.at /\ a.finding < b.finding)

Supporters(records, key) ==
    LET of == SelectSeq(records, LAMBDA r : LearningKey(r) = key)
        oldest(run) == CHOOSE r \in ToSet(of) : r.run = run /\ \A s \in ToSet(of) : s.run = run => r.at <= s.at
    IN  SetToSortSeq({oldest(r.run) : r \in ToSet(of)}, ByTime)

Learnings(records, most) ==
    LET keys == FirstOf(SelectSeq(records, LAMBDA r : r.name # NoId), LearningKey)
        learning(r) == LET by == Supporters(records, LearningKey(r)) IN
                       [file |-> r.file, name |-> r.name, category |-> r.category, support |-> Len(by),
                        evidence |-> Upto(by, most.evidence), first |-> by[1].at, last |-> by[Len(by)].at,
                        activated |-> IF Len(by) < MinSupportingEvents THEN 0 ELSE by[MinSupportingEvents].at]
        all == [i \in DOMAIN keys |-> learning(keys[i])]
    IN  Upto(SelectSeq(all, LAMBDA l : l.support >= MinSupportingEvents), most.learnings)

(* derive_repository_learning_applications: a learning only adds to what   *)
(* history already says of a surface.                                      *)
LearningApplications(learnings, history, most) ==
    Upto(SelectSeq(learnings, LAMBDA l : \E h \in ToSet(history) : SurfaceOf(h) = SurfaceOf(l)), most.learnings)

-----------------------------------------------------------------------------
(* fetch_repeated_noise_feedback and derive_noise_suppression_records: a   *)
(* finding called wrong, and never fixed or useful; of each run the newest *)
(* counts.                                                                 *)
NoiseRows(findings, commands, asOf, most) ==
    LET signals(f) == HeardOf(commands, f, asOf)
        noisy == {f \in DOMAIN findings : "false-positive" \in signals(f) /\ signals(f) \cap Praise = {}}
        row(f) == [finding |-> f, run |-> findings[f].run, file |-> findings[f].file, name |-> findings[f].name,
                   category |-> findings[f].category, at |-> Greatest({c.at : c \in SaidOf(commands, f, asOf)})]
    IN  Upto(SetToSortSeq({row(f) : f \in noisy}, LAMBDA a, b : a.at > b.at \/ (a.at = b.at /\ a.finding < b.finding)),
             most.lookback)

(* classify_maturity *)
EstablishedSupportThreshold == 3
Maturity(support) == IF support >= EstablishedSupportThreshold THEN "established" ELSE "candidate"

LOCAL Strongest(records, most) ==
    Upto(SetToSortSeq(records, LAMBDA a, b : a.support > b.support \/ (a.support = b.support /\ a.last > b.last)),
         most.records)
LOCAL RecordOf(type, l) ==
    [type |-> type, file |-> l.file, name |-> l.name, category |-> l.category, maturity |-> Maturity(l.support),
     support |-> l.support, first |-> l.first, last |-> l.last]

UsefulPatternRecords(records, most) ==
    Strongest({RecordOf("useful_finding_pattern", l) : l \in ToSet(Learnings(records, most))}, most)
NoiseSuppressionRecords(rows, most) ==
    LET keys == {LearningKey(r) : r \in {r \in ToSet(rows) : r.name # NoId}}
        of(k) == {r \in ToSet(rows) : LearningKey(r) = k}
        runs(k) == {r.run : r \in of(k)}
        newest(k) == {Greatest({r.at : r \in {r \in of(k) : r.run = run}}) : run \in runs(k)}
        noise(k) == [file |-> k[1], name |-> k[2], category |-> k[3], support |-> Cardinality(runs(k)),
                     first |-> Least(newest(k)), last |-> Greatest(newest(k))]
    IN  Strongest({RecordOf("noise_suppression", noise(k)) :
                     k \in {k \in keys : Cardinality(runs(k)) >= MinSupportingEvents}}, most)

FreshRecords(findings, commands, asOf, most) ==
    ToSet(UsefulPatternRecords(TrustedRecords(findings, commands, asOf, most), most))
      \cup ToSet(NoiseSuppressionRecords(NoiseRows(findings, commands, asOf, most), most))

(* recompute_repository_learnings: upsert_many and retire_missing.  A row  *)
(* is known by its type and surface, and none is ever deleted.             *)
RowKey(r) == <<r.type, r.file, r.name, r.category>>
Recomputed(table, fresh) ==
    LET kept == {r \in table : \A f \in fresh : RowKey(f) # RowKey(r)}
    IN  fresh \cup {[r EXCEPT !.maturity = "retired"] : r \in kept}

(* select_review_hint and noise_advisory_text_for_candidate of the records *)
IncreasesPriority(table, c) ==
    \E r \in table : /\ r.type = "useful_finding_pattern" /\ r.maturity = "established"
                     /\ c.name # NoId /\ SurfaceOf(r) = SurfaceOf(c)
NoiseAdvised(table, c) ==
    \E r \in table : r.type = "noise_suppression" /\ r.maturity # "retired" /\ c.name # NoId /\ SurfaceOf(r) = SurfaceOf(c)

(* aggregate_repository_learnings_for_organization, over the tables of     *)
(* some repositories: established patterns of at least two of them.        *)
OrgMinEstablishedRepositories == 2
OrganizationLearnings(tables, relations) ==
    LET patterns == UNION {{<<r.type, r.category>> : r \in tables[k]} : k \in DOMAIN tables}
        contributing(p) == {k \in DOMAIN tables : \E r \in tables[k] : r.maturity = "established" /\ <<r.type, r.category>> = p}
    IN  {[pattern |-> p, repositories |-> contributing(p),
          related |-> \E r \in relations : r.active /\ {r.source, r.target} \subseteq contributing(p)] :
           p \in {p \in patterns : Cardinality(contributing(p)) >= OrgMinEstablishedRepositories}}

-----------------------------------------------------------------------------
(* fetch_trajectory_heads: from the newest generation back, as far as each *)
(* is known to descend from the one before; oldest first, a commit once.   *)
TrajectoryHeads(generations, most) ==
    LET back[n \in 0..most.heads] ==
          IF n = 0 \/ generations = <<>> THEN <<>>
          ELSE IF n = 1 THEN <<Len(generations)>>
          ELSE LET chain == back[n - 1]
                   oldest == generations[chain[1]]
               IN  IF Len(chain) < n - 1 \/ ~oldest.verified \/ oldest.previous = NoId THEN chain
                   ELSE <<oldest.previous>> \o chain
        chain == back[most.heads]
    IN  FirstOf([i \in DOMAIN chain |-> generations[chain[i]]], LAMBDA g : g.commit)

(* build_trajectory_intelligence_report: the heads a change is compared    *)
(* with.  A generation's surfaces are those of its run's candidates.       *)
LineageHeads(generations, commit, surfaces, verified, most) ==
    LET heads == TrajectoryHeads(generations, most)
        current == [commit |-> commit, surfaces |-> surfaces]
    IN  IF heads # <<>> /\ heads[Len(heads)].commit = commit THEN heads
        ELSE IF heads # <<>> /\ verified THEN Append(heads, current) ELSE <<current>>

(* derive_trajectory_events and derive_trajectory_signals                  *)
MinSurfaceChurnEvents == 3
TrajectoryEvents(heads, most) ==
    LET all == FlattenSeq([i \in DOMAIN heads |->
                 [j \in DOMAIN heads[i].surfaces |-> [commit |-> heads[i].commit, surface |-> heads[i].surfaces[j]]]])
        within == SelectSeq([i \in DOMAIN all |-> i], LAMBDA i :
                    Cardinality({j \in 1..(i - 1) : all[j].surface = all[i].surface}) < most.eventsPerSurface)
    IN  Upto([i \in DOMAIN within |-> all[within[i]]], most.events)
TrajectorySignals(events, most) ==
    LET firsts == FirstOf(events, LAMBDA e : e.surface)
        heads(s) == {e.commit : e \in {e \in ToSet(events) : e.surface = s}}
        churned == SelectSeq(firsts, LAMBDA e : Cardinality(heads(e.surface)) >= MinSurfaceChurnEvents)
    IN  {e.surface : e \in ToSet(Upto(churned, most.signals))}

-----------------------------------------------------------------------------
(* fetch_cross_pr_peers: the other open pull requests (most recently       *)
(* updated first) whose newest generation is of their present head; and    *)
(* what its candidates changed.                                            *)
CrossPRPeers(pullRequests, self, most) ==
    Upto(SelectSeq(pullRequests, LAMBDA p :
           /\ p.number # self /\ p.state = "open"
           /\ p.generations # <<>> /\ p.generations[Len(p.generations)].commit = p.head), most.peers)
PeerSurfaces(p, most) ==
    Upto(FirstOf(p.generations[Len(p.generations)].surfaces, LAMBDA s : s), most.surfacesPerPeer)
CrossPROverlaps(pullRequests, self, surfaces, most) ==
    LET peers == CrossPRPeers(pullRequests, self, most)
        shared(p) == SelectSeq(PeerSurfaces(p, most), LAMBDA s : s \in surfaces)
    IN  Upto(FlattenSeq([i \in DOMAIN peers |->
               [j \in DOMAIN shared(peers[i]) |-> [peer |-> peers[i].number, surface |-> shared(peers[i])[j]]]]), most.overlaps)
LOCAL SignalsOf(overlaps, limit) == {o.surface : o \in ToSet(Upto(FirstOf(overlaps, LAMBDA o : o.surface), limit))}
CrossPRSignals(overlaps, most) == SignalsOf(overlaps, most.signals)

(* fetch_cross_repo_overlaps: repositories registered as consumers of a    *)
(* contract whose function changed, under the same installation, still     *)
(* selected, the newest relation first.                                    *)
CrossRepoOverlaps(keys, relations, repositories, self, deltas, most) ==
    LET changed == {SurfaceOf(d) : d \in ToSet(deltas)}
        rows(r) == {[peer |-> r.target, key |-> k.key, surface |-> SurfaceOf(k)] :
                      k \in {k \in keys : /\ k.repository = self /\ k.key = r.key /\ SurfaceOf(k) \in changed}}
        live(r) == /\ r.source = self /\ r.kind = "explicit_shared_contract" /\ r.active
                   /\ repositories[r.target].installation = repositories[self].installation
                   /\ repositories[r.target].selected
        consumers == SelectSeq(relations, live)
    IN  Upto(FlattenSeq([i \in DOMAIN consumers |-> SetToSeq(rows(consumers[i]))]), most.repoPeers)
CrossRepoSignals(overlaps, most) == SignalsOf(overlaps, most.signals)

(* _requires_critic: the candidates of any signal come first.              *)
RequiresCritic(signals, c) == c.name # NoId /\ SurfaceOf(c) \in signals
CriticalFirst(signals, candidates) ==
    SelectSeq(candidates, LAMBDA c : RequiresCritic(signals, c))
      \o SelectSeq(candidates, LAMBDA c : ~RequiresCritic(signals, c))

-----------------------------------------------------------------------------
(* HistoryIsTold: the reviewer of changed code is told of every finding on *)
(* exactly that code that developers confirmed and none refuted by then,   *)
(* unless a limit was met; is told of no other; and a complaint takes its  *)
(* finding out of what is trusted, and nothing else.                       *)
LOCAL HistoryTells(history, records, findings, commands, asOf, report, most) ==
    LET said(f) == HeardOf(commands, f, asOf)
        onSurface(c) == Cardinality({h \in ToSet(history) : SurfaceOf(h) = SurfaceOf(c)})
        changed == UNION {ToSet(report.units[n].candidates) : n \in {n \in DOMAIN report.units : report.units[n].kind # "test"}}
    IN  /\ \A f \in DOMAIN findings, c \in changed :
             (/\ c.name # NoId /\ SurfaceOf(c) = SurfaceOf(findings[f])
              /\ said(f) \cap Praise # {} /\ said(f) \cap {"false-positive", "ignore"} = {})
               => \/ \E h \in ToSet(ToldOf(history, c)) : h.record.finding = f
                  \/ onSurface(c) = most.perSurface
                  \/ Len(history) = most.history \/ Len(records) = most.lookback
        /\ \A c \in changed : \A h \in ToSet(ToldOf(history, c)) :
             /\ findings[h.record.finding].file = c.file
             /\ c.name # NoId => findings[h.record.finding].name = c.name
             /\ "false-positive" \notin said(h.record.finding)
HistoryIsTold(findings, commands, asOf, report, complaint, most) ==
    LET records == TrustedRecords(findings, commands, asOf, most)
        after == TrustedRecords(findings, commands \cup {complaint}, asOf, most)
        none == [deltas |-> <<>>, stale |-> <<>>]
    IN  /\ HistoryTells(HistoryReport(records, report, none, <<>>, <<>>, <<>>, most), records, findings, commands,
                        asOf, report, most)
        /\ Len(records) < most.lookback
             => ToSet(after) = {r \in ToSet(records) : complaint.at <= asOf => r.finding # complaint.finding}

(* LearningsAreRepeated: after a recomputation, a record that is in force  *)
(* rests on findings of two independent reviews at least (of three, if     *)
(* established) that developers confirmed, or called wrong, and did not    *)
(* take back by saying the opposite; no such pattern goes unrecorded       *)
(* unless a limit was met; no row of the table is lost; and computing      *)
(* again changes nothing.                                                  *)
LOCAL RunsSaying(findings, commands, asOf, key, yes, no) ==
    {findings[f].run : f \in {f \in DOMAIN findings :
       /\ LearningKey(findings[f]) = key
       /\ HeardOf(commands, f, asOf) \cap yes # {} /\ HeardOf(commands, f, asOf) \cap no = {}}}
LOCAL LearningsRest(table, before, fresh, findings, commands, asOf, most) ==
    LET useful(key) == RunsSaying(findings, commands, asOf, key, Praise, {"false-positive", "ignore"})
        noise(key) == RunsSaying(findings, commands, asOf, key, {"false-positive"}, Praise)
        runs(r) == IF r.type = "noise_suppression" THEN noise(LearningKey(r)) ELSE useful(LearningKey(r))
        ofType(type) == {r \in fresh : r.type = type}
        records == TrustedRecords(findings, commands, asOf, most)
    IN  /\ \A r \in table : r.maturity # "retired" =>
             Cardinality(runs(r)) >= IF r.maturity = "established" THEN 3 ELSE 2
        /\ \A f \in DOMAIN findings : LET key == LearningKey(findings[f]) IN
             (findings[f].name # NoId /\ Len(records) < most.lookback)
               => /\ Cardinality(useful(key)) >= 2 =>
                       \/ \E r \in table : RowKey(r) = <<"useful_finding_pattern">> \o key /\ r.maturity # "retired"
                       \/ Cardinality(ofType("useful_finding_pattern")) = most.learnings
                  /\ Cardinality(noise(key)) >= 2 =>
                       \/ \E r \in table : RowKey(r) = <<"noise_suppression">> \o key /\ r.maturity # "retired"
                       \/ Cardinality(ofType("noise_suppression")) = most.records
        /\ {RowKey(r) : r \in before} \subseteq {RowKey(r) : r \in table}
        /\ Cardinality({RowKey(r) : r \in table}) = Cardinality(table)
        /\ Recomputed(table, fresh) = table
LearningsAreRepeated(findings, commands, earlier, asOf, most) ==
    LET before == Recomputed({}, FreshRecords(findings, commands, earlier, most))
        fresh == FreshRecords(findings, commands, asOf, most)
    IN  LearningsRest(Recomputed(before, fresh), before, fresh, findings, commands, asOf, most)

(* ChurnIsTold: code that changed in three heads of one proven lineage     *)
(* gets a second look, unless a limit was met; nothing does because of     *)
(* heads that are not known to descend from each other; and the candidates *)
(* of such code are reviewed before the others.                            *)
LOCAL ChurnTells(heads, events, signals, generations, commit, verified, most) ==
    LET changedIn(s) == {h \in ToSet(heads) : s \in ToSet(h.surfaces)}
        surfaces == UNION {ToSet(h.surfaces) : h \in ToSet(heads)}
    IN  /\ \A s \in surfaces : (Cardinality(changedIn(s)) >= MinSurfaceChurnEvents /\ Len(events) < most.events)
             => s \in signals \/ Cardinality(signals) = most.signals
        /\ \A s \in signals : \E used \in SUBSET DOMAIN generations :
             /\ \A k \in used : /\ s \in ToSet(generations[k].surfaces)
                                /\ \A newer \in (k + 1)..Len(generations) : generations[newer].verified
             /\ Cardinality({generations[k].commit : k \in used})
                  >= IF generations[Len(generations)].commit = commit THEN MinSurfaceChurnEvents
                     ELSE MinSurfaceChurnEvents - 1
             /\ generations[Len(generations)].commit # commit => verified
ChurnIsTold(generations, commit, surfaces, verified, candidates, most) ==
    LET heads == LineageHeads(generations, commit, surfaces, verified, most)
        events == TrajectoryEvents(heads, most)
        signals == TrajectorySignals(events, most)
        ordered == CriticalFirst(signals, candidates)
    IN  /\ ChurnTells(heads, events, signals, generations, commit, verified, most)
        /\ Len(ordered) = Len(candidates) /\ ToSet(ordered) = ToSet(candidates)
        /\ \A i, j \in DOMAIN ordered :
             RequiresCritic(signals, ordered[j]) /\ ~RequiresCritic(signals, ordered[i]) => j < i

(* PeersAreTold: when the reviews of two open pull requests are current,   *)
(* either both are told that they change the same symbol or neither is     *)
(* (unless a limit was met), and none is told of one that is closed or has *)
(* moved on.                                                               *)
PeersAreTold(pullRequests, most) ==
    LET newest(p) == p.generations[Len(p.generations)]
        current == {p \in ToSet(pullRequests) : p.state = "open" /\ p.generations # <<>> /\ newest(p).commit = p.head}
        overlaps(p) == CrossPROverlaps(pullRequests, p.number, ToSet(newest(p).surfaces), most)
        full(p) == Len(overlaps(p)) = most.overlaps \/ Len(pullRequests) > most.peers + 1
        told(p) == {<<o.peer, o.surface>> : o \in {o \in ToSet(overlaps(p)) : o.surface \in CrossPRSignals(overlaps(p), most)}}
    IN  \A p \in current : \A t \in told(p) : \E q \in current :
          /\ q.number = t[1] /\ t[2] \in ToSet(newest(q).surfaces)
          /\ <<p.number, t[2]>> \in told(q) \/ full(q) \/ Cardinality(CrossPRSignals(overlaps(q), most)) = most.signals

(* ConsumersAreTold: a changed contract that a repository of the same      *)
(* installation is registered to consume gets a second look, unless a      *)
(* limit was met, and only such repositories are named.                    *)
ConsumersAreTold(keys, relations, repositories, self, deltas, most) ==
    LET overlaps == CrossRepoOverlaps(keys, relations, repositories, self, deltas, most)
    IN  /\ \A i \in DOMAIN relations, k \in keys, d \in ToSet(deltas) :
             (/\ relations[i].source = self /\ relations[i].active /\ relations[i].kind = "explicit_shared_contract"
              /\ k.repository = self /\ k.key = relations[i].key /\ SurfaceOf(k) = SurfaceOf(d)
              /\ repositories[relations[i].target] = [installation |-> repositories[self].installation, selected |-> TRUE])
               => \/ SurfaceOf(d) \in CrossRepoSignals(overlaps, most)
                  \/ Len(overlaps) = most.repoPeers \/ Cardinality(CrossRepoSignals(overlaps, most)) = most.signals
        /\ \A o \in ToSet(overlaps) :
             /\ repositories[o.peer] = [installation |-> repositories[self].installation, selected |-> TRUE]
             /\ \E r \in ToSet(relations), k \in keys : r.active /\ <<r.target, r.key>> = <<o.peer, k.key>> /\ SurfaceOf(k) = o.surface
=============================================================================
