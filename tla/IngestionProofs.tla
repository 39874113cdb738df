-------------------------- MODULE IngestionProofs --------------------------
(***************************************************************************)
(* What holds of deliveries for any installations, messages, redeliveries  *)
(* and crashes.                                                            *)
(***************************************************************************)
EXTENDS Ingestion, TLAPS

Messages ==
    /\ queue \subseteq SyncMessage \cup PullMessage
    /\ event \in [Delivery -> PullMessage \cup {Nobody}]
    /\ \A d \in Delivery : event[d] # Nobody => event[d].n = d /\ d <= clock
    /\ \A d \in Delivery : stage[d] # "none" => event[d] \in PullMessage
    /\ \A m \in queue : m.kind = "pull_request" => m.n <= clock /\ event[m.n] = m
    /\ pull.head <= clock

(* A delivery that may still be enqueued has not been.                     *)
AdmittedInv ==
    \A d \in Delivery : /\ admitted[d] <= 1
                        /\ stage[d] \in {"none"} \cup Active => admitted[d] = 0

(* Only the operator activates, and a repositories message's default.      *)
Activated ==
    \A i \in Installation :
        (AllowlistMode /\ installations[i] # Nobody /\ installations[i].beta = "active")
          => (i \in approved \/ firstEvent[i] = "repositories")

Inv == TypeOK /\ Messages /\ AdmittedInv /\ Activated

LEMMA InitInv == Init => Inv
<1> SUFFICES ASSUME Init PROVE Inv
  OBVIOUS
<1> USE DEF Init, InstallationsInit
<1>1. InstallationsTypeOK
  BY InstallationsAssumption DEF InstallationsAssumption, InstallationsTypeOK, InstallationRow
<1>2. TypeOK
  <2>1. NoPull \in PullRequest
    BY InstallationsAssumption DEF PullRequest, NoPull, InstallationsAssumption
  <2>2. /\ ingestions \in [Delivery -> {"absent", "in_progress", "succeeded", "failed"}]
        /\ stage \in [Delivery -> {"none", "ended", "killed"} \cup Active]
        /\ fetched \in [Delivery -> PullRequest]
        /\ admitted \in [Delivery -> Nat]
    BY <2>1
  <2> QED BY <1>1, <2>1, <2>2 DEF TypeOK
<1>3. Messages
  BY DEF Messages, NoPull
<1>4. AdmittedInv /\ Activated
  BY DEF AdmittedInv, Activated
<1> QED BY <1>2, <1>3, <1>4 DEF Inv

-----------------------------------------------------------------------------
(* Steps that leave the deliveries alone. *)
LEMMA PullVarsKept ==
    ASSUME Inv, UNCHANGED pullVars, InstallationsTypeOK',
           queue' \subseteq queue \cup SyncMessage, clock' >= clock, Activated'
    PROVE  Inv'
<1> USE DEF pullVars, ingestVars, pipeVars
<1>1. \A m \in queue' : m.kind = "pull_request" => m \in queue
  BY DEF SyncMessage
<1>2. TypeOK'
  BY DEF Inv, TypeOK
<1>3. Messages'
  <2>1. clock \in Nat /\ clock' \in Nat /\ pull.head \in Nat
    BY InstallationsAssumption
       DEF Inv, TypeOK, PullRequest, InstallationsTypeOK, InstallationsAssumption
  <2>2. \A d \in Delivery : d \in Nat
    BY DEF Delivery
  <2>3. \A m \in queue : m.kind = "pull_request" => m.n \in Nat
    BY <2>2 DEF Inv, Messages, SyncMessage, PullMessage
  <2>4. queue' \subseteq SyncMessage \cup PullMessage
    BY DEF Inv, Messages
  <2>5. \A d \in Delivery : event[d] # Nobody => event[d].n = d /\ d <= clock'
    BY <2>1, <2>2 DEF Inv, Messages
  <2>6. \A m \in queue' : m.kind = "pull_request" => m.n <= clock' /\ event[m.n] = m
    BY <1>1, <2>1, <2>3 DEF Inv, Messages
  <2>7. pull.head <= clock'
    BY <2>1 DEF Inv, Messages
  <2> QED BY <2>4, <2>5, <2>6, <2>7 DEF Inv, Messages
<1>4. AdmittedInv'
  BY DEF Inv, AdmittedInv
<1> QED BY <1>2, <1>3, <1>4 DEF Inv

LEMMA GitHubChangesInv ==
    ASSUME Inv, NEW i \in Installation, GitHubChanges(i), UNCHANGED pullVars
    PROVE  Inv'
<1> USE DEF GitHubChanges, Install, Uninstall, Suspend, Unsuspend, Include, Exclude, Announce,
            rowVars, historyVars
<1>1. clock \in Nat /\ clock' = clock + 1 /\ clock' \in 0..MaxMessages /\ clock' \in 1..MaxMessages
  BY InstallationsAssumption DEF Inv, TypeOK, InstallationsTypeOK, InstallationsAssumption
<1>2. /\ installed' \in [Installation -> {"no", "active", "suspended"}]
      /\ access' \in Installation \cup {Nobody}
  BY DEF Inv, TypeOK, InstallationsTypeOK
<1>3. InstallationsTypeOK'
  BY <1>1, <1>2 DEF Inv, TypeOK, InstallationsTypeOK
<1>4. queue' \subseteq queue \cup SyncMessage
  BY <1>1 DEF SyncMessage, LifecycleAction, SelectionAction
<1>5. Activated'
  BY DEF Inv, Activated
<1> QED BY <1>1, <1>3, <1>4, <1>5, PullVarsKept

LEMMA SetBetaInv ==
    ASSUME Inv, NEW i \in Installation, NEW b \in {"active", "suspended"},
           SetBetaState(i, b), UNCHANGED pullVars
    PROVE  Inv'
<1> USE DEF SetBetaState, githubVars
<1>1. installations[i] \in InstallationRow
  BY DEF Inv, TypeOK, InstallationsTypeOK
<1>2. [installations[i] EXCEPT !.beta = b] \in InstallationRow
  BY <1>1 DEF InstallationRow
<1>3. installations' = [installations EXCEPT ![i] = [installations[i] EXCEPT !.beta = b]]
  BY DEF Inv, TypeOK, InstallationsTypeOK
<1>4. InstallationsTypeOK'
  BY <1>2, <1>3 DEF Inv, TypeOK, InstallationsTypeOK
<1>5. Activated'
  <2>1. [installations[i] EXCEPT !.beta = b].beta = b
    BY <1>1 DEF InstallationRow
  <2>2. \A j \in Installation :
           installations'[j] = IF j = i THEN [installations[i] EXCEPT !.beta = b] ELSE installations[j]
    BY <1>3 DEF Inv, TypeOK, InstallationsTypeOK
  <2> QED BY <2>1, <2>2 DEF Inv, Activated
<1>6. clock \in Nat
  BY InstallationsAssumption DEF Inv, TypeOK, InstallationsTypeOK, InstallationsAssumption
<1> QED BY <1>4, <1>5, <1>6, PullVarsKept

(* A row made or changed by a sync has its type, and its beta state is the *)
(* row's own or the default.                                               *)
LEMMA UpsertedType ==
    ASSUME NEW row \in InstallationRow \cup {Nobody}, NEW beta \in {"pending", "active"}
    PROVE  /\ Upserted(row, beta) \in InstallationRow
           /\ row # Nobody => Upserted(row, beta).beta = row.beta
           /\ row = Nobody => Upserted(row, beta).beta = beta
<1>1. CASE row = Nobody
  BY <1>1 DEF Upserted, InstallationRow
<1>2. CASE row # Nobody /\ row.status = "deleted"
  BY <1>2 DEF Upserted, InstallationRow
<1>3. CASE row # Nobody /\ row.status # "deleted"
  BY <1>3 DEF Upserted, InstallationRow
<1> QED BY <1>1, <1>2, <1>3

LEMMA SyncedType ==
    ASSUME NEW row \in InstallationRow \cup {Nobody}, NEW beta \in {"pending", "active"}, NEW action
    PROVE  /\ Synced(row, beta, action) \in InstallationRow
           /\ Synced(row, beta, action).beta = Upserted(row, beta).beta
<1> DEFINE healed == Upserted(row, beta)
<1>1. healed \in InstallationRow
  BY UpsertedType
<1>2. /\ \A s \in {"active", "suspended", "deleted"} :
           /\ [healed EXCEPT !.status = s] \in InstallationRow
           /\ [healed EXCEPT !.status = s].beta = healed.beta
  BY <1>1 DEF InstallationRow
<1> QED BY <1>1, <1>2 DEF Synced

LEMMA SyncInv ==
    ASSUME Inv, NEW m \in queue, Sync(m), UNCHANGED pullVars
    PROVE  Inv'
<1>1. m \in SyncMessage
  BY DEF Sync, SyncInstallation, SyncRepositories, Inv, Messages, PullMessage
<1>2. m.inst \in Installation /\ m.n \in 1..MaxMessages
  BY <1>1 DEF SyncMessage
<1>3. /\ installations[m.inst] \in InstallationRow \cup {Nobody}
      /\ clock \in Nat
  BY <1>2, InstallationsAssumption DEF Inv, TypeOK, InstallationsTypeOK, InstallationsAssumption
<1>4. PICK row \in InstallationRow :
         /\ installations' = [installations EXCEPT ![m.inst] = row]
         /\ installations[m.inst] # Nobody => row.beta = installations[m.inst].beta
         /\ (installations[m.inst] = Nobody /\ AllowlistMode /\ row.beta = "active")
              => m.kind = "repositories"
         /\ repository' \in RepositoryRow \cup {Nobody}
  <2>1. CASE SyncInstallation(m)
    <3> DEFINE beta == IF AllowlistMode THEN "pending" ELSE "active"
    <3>1. beta \in {"pending", "active"} /\ (AllowlistMode => beta # "active")
      OBVIOUS
    <3>2. /\ installations' = [installations EXCEPT ![m.inst] =
                                 Synced(installations[m.inst], beta, m.action)]
          /\ repository' = repository
      BY <2>1 DEF SyncInstallation
    <3> HIDE DEF beta
    <3>3. repository \in RepositoryRow \cup {Nobody}
      BY DEF Inv, TypeOK, InstallationsTypeOK
    <3>4. /\ Synced(installations[m.inst], beta, m.action) \in InstallationRow
          /\ Synced(installations[m.inst], beta, m.action).beta
               = Upserted(installations[m.inst], beta).beta
          /\ installations[m.inst] # Nobody =>
               Upserted(installations[m.inst], beta).beta = installations[m.inst].beta
          /\ installations[m.inst] = Nobody => Upserted(installations[m.inst], beta).beta = beta
      BY <3>1, <1>3, SyncedType, UpsertedType
    <3> QED BY <3>1, <3>2, <3>3, <3>4
  <2>2. CASE SyncRepositories(m)
    <3>1. installations' = [installations EXCEPT ![m.inst] =
                              Upserted(installations[m.inst], "active")]
      BY <2>2 DEF SyncRepositories
    <3>2. repository' \in RepositoryRow \cup {Nobody}
      BY <2>2 DEF SyncRepositories, Inv, TypeOK, InstallationsTypeOK, RepositoryRow
    <3> QED BY <2>2, <3>1, <3>2, <1>3, UpsertedType DEF SyncRepositories
  <2> QED BY <2>1, <2>2 DEF Sync
<1>5. /\ youngest' \in [Installation -> 0..MaxMessages]
      /\ disordered' \subseteq Installation
  BY <1>2 DEF Sync, Take, Inv, TypeOK, InstallationsTypeOK
<1>6. /\ firstEvent' \in [Installation -> {"none", "installation", "repositories"}]
      /\ \A i \in Installation : firstEvent'[i] =
           IF i = m.inst /\ installations[i] = Nobody THEN m.kind ELSE firstEvent[i]
  BY <1>1, <1>2 DEF Sync, FirstEvent, Inv, TypeOK, InstallationsTypeOK, SyncMessage
<1>7. UNCHANGED <<installed, access, clock, approved>>
  BY DEF Sync, githubVars
<1>8. InstallationsTypeOK'
  BY <1>4, <1>5, <1>6, <1>7 DEF Inv, TypeOK, InstallationsTypeOK
<1>9. Activated'
  <2>1. \A i \in Installation :
           installations'[i] = IF i = m.inst THEN CHOOSE r : r = installations'[m.inst] ELSE installations[i]
    BY <1>4 DEF Inv, TypeOK, InstallationsTypeOK
  <2>2. installations'[m.inst].beta = "active" /\ AllowlistMode
          => IF installations[m.inst] = Nobody THEN m.kind = "repositories"
             ELSE installations[m.inst].beta = "active"
    BY <1>2, <1>4 DEF Inv, TypeOK, InstallationsTypeOK
  <2> QED BY <1>6, <1>7, <2>1, <2>2 DEF Inv, Activated
<1>10. queue' \subseteq queue
  BY DEF Sync, Take
<1> QED BY <1>3, <1>7, <1>8, <1>9, <1>10, PullVarsKept

LEMMA SyncLostInv ==
    ASSUME Inv, NEW m \in queue, SyncLost(m), UNCHANGED pullVars
    PROVE  Inv'
<1>1. m.inst \in Installation
  BY DEF SyncLost, Inv, Messages, SyncMessage, PullMessage
<1>2. InstallationsTypeOK' /\ Activated'
  BY <1>1 DEF SyncLost, githubVars, rowVars, Inv, TypeOK, InstallationsTypeOK, Activated
<1>3. clock \in Nat /\ clock' = clock /\ queue' \subseteq queue
  BY InstallationsAssumption DEF SyncLost, Inv, TypeOK, InstallationsTypeOK, InstallationsAssumption
<1> QED BY <1>2, <1>3, PullVarsKept

-----------------------------------------------------------------------------
(* GitHub's and the tasks' steps on deliveries. *)
LEMMA PullRequestInv ==
    ASSUME Inv, PullRequestChanges
    PROVE  Inv'
<1>1. PICK action \in {"opened", "synchronize", "closed", "reopened"}, p \in PullRequest :
         Deliver(action, p) /\ p.head <= clock + 1
  <2>1. /\ pull \in PullRequest /\ pull.head \in 0..MaxMessages /\ pull.head <= clock
        /\ clock \in Nat /\ MaxMessages \in Nat
    BY InstallationsAssumption
       DEF Inv, TypeOK, Messages, PullRequest, InstallationsTypeOK, InstallationsAssumption
  <2>2. \A st \in {"open", "closed"} :
           [pull EXCEPT !.state = st] \in PullRequest /\ [pull EXCEPT !.state = st].head = pull.head
    BY <2>1 DEF PullRequest
  <2>3. pull.head <= clock + 1
    BY <2>1
  <2>4. CASE Deliver("opened", [head |-> 1, state |-> "open"])
    <3>1. clock < MaxMessages
      BY <2>4 DEF Deliver
    <3>2. 1 \in 0..MaxMessages /\ 1 <= clock + 1
      BY <2>1, <3>1
    <3>3. [head |-> 1, state |-> "open"] \in PullRequest
      BY <3>2 DEF PullRequest
    <3> QED BY <2>4, <3>2, <3>3
  <2>5. CASE Deliver("synchronize", [pull EXCEPT !.head = @ + 1])
    <3>1. [pull EXCEPT !.head = @ + 1].head = pull.head + 1
      BY <2>1 DEF PullRequest
    <3>2. clock < MaxMessages
      BY <2>5 DEF Deliver
    <3>3. pull.head + 1 \in 0..MaxMessages /\ pull.head + 1 <= clock + 1
      BY <2>1, <3>2
    <3>4. [pull EXCEPT !.head = @ + 1] \in PullRequest
      BY <2>1, <3>3 DEF PullRequest
    <3> QED BY <2>5, <3>1, <3>3, <3>4
  <2>6. CASE Deliver("closed", [pull EXCEPT !.state = "closed"])
    BY <2>2, <2>3, <2>6
  <2>7. CASE Deliver("reopened", [pull EXCEPT !.state = "open"])
    BY <2>2, <2>3, <2>7
  <2> QED BY <2>4, <2>5, <2>6, <2>7 DEF PullRequestChanges
<1> DEFINE n == clock + 1
           m == [kind |-> "pull_request", n |-> n, inst |-> access, action |-> action, payload |-> p]
<1>2. /\ n \in Delivery /\ clock \in Nat /\ clock' = n /\ pull' = p
      /\ queue' = queue \cup {m} /\ event' = [event EXCEPT ![n] = m]
      /\ m \in PullMessage /\ m.n = n /\ m.kind = "pull_request"
  BY <1>1, InstallationsAssumption
     DEF Deliver, Delivery, PullMessage, Inv, TypeOK, InstallationsTypeOK, InstallationsAssumption
<1>3. UNCHANGED <<githubVars, rowVars, historyVars, ingestVars, pipeVars, overtaken, crashes>>
  BY DEF PullRequestChanges
<1> USE DEF githubVars, rowVars, historyVars, ingestVars, pipeVars
<1>4. TypeOK'
  BY <1>2, <1>3 DEF Inv, TypeOK, InstallationsTypeOK, Delivery
<1>5. Messages'
  <2>1. \A d \in Delivery : d \in Nat /\ (d <= clock => d # n /\ d <= n)
    BY <1>2 DEF Delivery
  <2>2. \A q \in queue : q.kind = "pull_request" => q.n \in Delivery /\ q.n # n /\ q.n <= n /\ event[q.n] = q
    BY <2>1 DEF Inv, Messages, SyncMessage, PullMessage
  <2>3. \A d \in Delivery : event'[d] = IF d = n THEN m ELSE event[d]
    BY <1>2 DEF Inv, Messages
  <2>5. queue' \subseteq SyncMessage \cup PullMessage
    BY <1>2 DEF Inv, Messages
  <2>6. event' \in [Delivery -> PullMessage \cup {Nobody}]
    BY <1>2 DEF Inv, Messages
  <2>7. \A d \in Delivery : event'[d] # Nobody => event'[d].n = d /\ d <= n
    BY <1>2, <2>1, <2>3 DEF Inv, Messages
  <2>8. \A d \in Delivery : stage'[d] # "none" => event'[d] \in PullMessage
    BY <1>2, <1>3, <2>3 DEF Inv, Messages
  <2>9. \A q \in queue' : q.kind = "pull_request" => q.n <= n /\ event'[q.n] = q
    BY <1>2, <2>2, <2>3 DEF Inv, Messages
  <2> HIDE DEF n, m
  <2> QED BY <1>1, <1>2, <2>5, <2>6, <2>7, <2>8, <2>9 DEF Messages, n
<1>6. AdmittedInv' /\ Activated'
  BY <1>3 DEF Inv, AdmittedInv, Activated
<1> QED BY <1>4, <1>5, <1>6 DEF Inv

(* A task or a message whose step changes only these.                      *)
LEMMA TaskKept ==
    ASSUME Inv, NEW d \in Delivery, event[d] \in PullMessage,
           NEW s \in {"ended", "killed"} \cup Active, Move(d, s),
           queue' \subseteq queue, UNCHANGED <<pull, event>>, TypeOK',
           UNCHANGED <<clock, installations, approved, firstEvent>>,
           admitted' = admitted \/ /\ admitted[d] = 0 /\ s = "ended"
                                   /\ admitted' = [admitted EXCEPT ![d] = 1],
           s \in Active => admitted[d] = 0
    PROVE  Inv'
<1>1. \A e \in Delivery : stage'[e] = IF e = d THEN s ELSE stage[e]
  BY DEF Move, Inv, TypeOK
<1>2. s # "none"
  BY DEF Active
<1>3. Messages'
  BY <1>1 DEF Inv, Messages
<1>4. AdmittedInv'
  <2>1. "ended" \notin {"none"} \cup Active /\ "killed" \notin {"none"} \cup Active
    BY DEF Active
  <2>2. \A e \in Delivery : admitted'[e] = admitted[e] \/ (e = d /\ s = "ended" /\ admitted'[e] = 1)
    BY DEF Inv, TypeOK
  <2> QED BY <1>1, <1>2, <2>1, <2>2 DEF Inv, AdmittedInv
<1>5. Activated'
  BY DEF Inv, Activated
<1> QED BY <1>3, <1>4, <1>5 DEF Inv

LEMMA QueueKept ==
    ASSUME Inv, queue' \subseteq queue \cup {event[d] : d \in {d \in Delivery : event[d] # Nobody}},
           UNCHANGED <<pull, event, ingestVars, admitted, overtaken, crashes>>, SyncUnchanged,
           reviewed' \subseteq Delivery
    PROVE  Inv'
<1> USE DEF ingestVars, SyncUnchanged, githubVars, rowVars, historyVars
<1>1. TypeOK'
  BY DEF Inv, TypeOK, InstallationsTypeOK
<1>2. Messages'
  <2>1. \A m \in queue' \ queue :
           m \in PullMessage /\ m.n <= clock /\ event[m.n] = m
    BY DEF Inv, Messages
  <2> QED BY <2>1 DEF Inv, Messages
<1>3. AdmittedInv' /\ Activated'
  BY DEF Inv, AdmittedInv, Activated
<1> QED BY <1>1, <1>2, <1>3 DEF Inv

LEMMA TakeInv ==
    ASSUME Inv, NEW m \in queue, Reserve(m) \/ IngestClosed(m)
    PROVE  Inv'
<1>1. m \in PullMessage /\ event[m.n] = m /\ stage[m.n] = "none" /\ admitted[m.n] = 0
  BY DEF Reserve, IngestClosed, Inv, TypeOK, Messages, SyncMessage, PullMessage, AdmittedInv
<1>2. m.n \in Delivery /\ m.inst \in Installation /\ m.payload \in PullRequest
  BY <1>1 DEF PullMessage
<1>3. overtaken' \in BOOLEAN
  BY <1>2 DEF Reserve, IngestClosed, Starts
<1> USE DEF SyncUnchanged, githubVars, rowVars, historyVars, pipeVars
<1>5. CASE Reserve(m)
  <2>1. TypeOK'
    BY <1>1, <1>2, <1>3, <1>5 DEF Reserve, Move, Active, Inv, TypeOK, InstallationsTypeOK
  <2> QED BY <1>1, <1>2, <1>5, <2>1, TaskKept DEF Reserve, Active
<1>6. CASE IngestClosed(m)
  <2>1. repository' \in RepositoryRow \cup {Nobody}
    BY <1>2, <1>6 DEF IngestClosed, UpsertRepository, RepositoryRow, Inv, TypeOK, InstallationsTypeOK
  <2>2. TypeOK'
    BY <1>1, <1>2, <1>3, <1>6, <2>1 DEF IngestClosed, Move, Active, Inv, TypeOK, InstallationsTypeOK
  <2> QED BY <1>1, <1>2, <1>6, <2>2, TaskKept DEF IngestClosed, Active
<1> QED BY <1>5, <1>6

LEMMA TaskInv ==
    ASSUME Inv, NEW d \in Delivery, TaskStep(d) \/ Crash(d)
    PROVE  Inv'
<1> USE DEF SyncUnchanged, githubVars, rowVars, historyVars, pipeVars, Active
<1>1. stage[d] \in Active
  BY DEF TaskStep, Fetch, FetchFails, Store, Gate, Enqueue, SchedulingFails, Crash
<1>2. event[d] \in PullMessage /\ admitted[d] = 0 /\ event[d].inst \in Installation
  BY <1>1 DEF Inv, Messages, AdmittedInv, PullMessage
<1>3. CASE Fetch(d)
  <2>1. TypeOK'
    BY <1>3 DEF Fetch, Move, Inv, TypeOK, InstallationsTypeOK
  <2> QED BY <1>2, <1>3, <2>1, TaskKept DEF Fetch
<1>4. CASE FetchFails(d)
  <2>1. TypeOK'
    BY <1>4 DEF FetchFails, Move, Inv, TypeOK, InstallationsTypeOK
  <2> QED BY <1>2, <1>4, <2>1, TaskKept DEF FetchFails
<1>5. CASE Store(d)
  <2>1. repository' \in RepositoryRow \cup {Nobody}
    BY <1>2, <1>5 DEF Store, UpsertRepository, RepositoryRow, Inv, TypeOK, InstallationsTypeOK
  <2>2. TypeOK'
    BY <1>5, <2>1 DEF Store, Move, Inv, TypeOK, InstallationsTypeOK
  <2> QED BY <1>2, <1>5, <2>2, TaskKept DEF Store
<1>6. CASE Gate(d)
  <2> DEFINE s == IF Eligible(event[d].inst) THEN "passed" ELSE "ended"
  <2>1. Move(d, s) /\ s \in {"passed", "ended"}
    BY <1>6 DEF Gate
  <2> HIDE DEF s
  <2>2. TypeOK'
    BY <1>6, <2>1 DEF Gate, Move, Inv, TypeOK, InstallationsTypeOK
  <2> QED BY <1>2, <1>6, <2>1, <2>2, TaskKept DEF Gate
<1>7. CASE Enqueue(d)
  <2>1. admitted' = [admitted EXCEPT ![d] = 1]
    BY <1>2, <1>7 DEF Enqueue
  <2>2. TypeOK'
    BY <1>7, <2>1 DEF Enqueue, Move, Inv, TypeOK, InstallationsTypeOK
  <2> QED BY <1>2, <1>7, <2>1, <2>2, TaskKept DEF Enqueue
<1>8. CASE SchedulingFails(d)
  <2>1. TypeOK'
    BY <1>8 DEF SchedulingFails, Move, Inv, TypeOK, InstallationsTypeOK
  <2> QED BY <1>2, <1>8, <2>1, TaskKept DEF SchedulingFails
<1>9. CASE Crash(d)
  <2>1. TypeOK'
    BY <1>9 DEF Crash, Move, Inv, TypeOK, InstallationsTypeOK
  <2> QED BY <1>2, <1>9, <2>1, TaskKept DEF Crash
<1> QED BY <1>3, <1>4, <1>5, <1>6, <1>7, <1>8, <1>9 DEF TaskStep

LEMMA NextInv == Inv /\ [Next]_vars => Inv'
<1> SUFFICES ASSUME Inv, [Next]_vars PROVE Inv'
  OBVIOUS
<1> USE DEF SyncUnchanged, githubVars, rowVars, historyVars, pipeVars
<1>1. ASSUME NEW i \in Installation,
             GitHubChanges(i) \/ \E b \in {"active", "suspended"} : SetBetaState(i, b),
             UNCHANGED pullVars
      PROVE  Inv'
  BY <1>1, GitHubChangesInv, SetBetaInv
<1>2. CASE PullRequestChanges
  BY <1>2, PullRequestInv
<1>3. ASSUME NEW m \in queue, Sync(m) \/ SyncLost(m), UNCHANGED pullVars PROVE Inv'
  BY <1>3, SyncInv, SyncLostInv
<1>4. ASSUME NEW m \in queue, TakeDelivery(m) \/ DeliveryLost(m) PROVE Inv'
  <2>1. reviewed \subseteq Delivery
    BY DEF Inv, TypeOK
  <2>2. CASE Duplicate(m) \/ DeliveryLost(m)
    BY <2>1, <2>2, QueueKept DEF Duplicate, DeliveryLost, pipeVars
  <2> QED BY <1>4, <2>2, TakeInv DEF TakeDelivery
<1>5. ASSUME NEW d \in Delivery, TaskStep(d) \/ Crash(d) \/ Redeliver(d) \/ ReviewRunCreated(d)
      PROVE  Inv'
  <2>1. reviewed \subseteq Delivery
    BY DEF Inv, TypeOK
  <2>2. CASE Redeliver(d)
    BY <2>1, <2>2, QueueKept DEF Redeliver
  <2>3. CASE ReviewRunCreated(d)
    BY <2>1, <2>3, QueueKept DEF ReviewRunCreated
  <2> QED BY <1>5, <2>2, <2>3, TaskInv
<1>6. CASE UNCHANGED vars
  <2>1. reviewed \subseteq Delivery
    BY DEF Inv, TypeOK
  <2> QED BY <1>6, <2>1, QueueKept DEF vars
<1> QED BY <1>1, <1>2, <1>3, <1>4, <1>5, <1>6 DEF Next

LEMMA AlwaysInv == Spec => []Inv
BY InitInv, NextInv, PTL DEF Spec

(* Every variable keeps its type, and a task's stage fits the status of    *)
(* its delivery's row.                                                     *)
THEOREM TypeCorrect == Spec => []TypeOK
<1>1. Inv => TypeOK
  BY DEF Inv
<1> QED BY <1>1, AlwaysInv, PTL

(* However often GitHub sends a delivery, and wherever its task is killed, *)
(* the pipeline is started for it at most once.                            *)
THEOREM AdmittedAtMostOnce == Spec => []AdmittedOnce
<1>1. Inv => AdmittedOnce
  BY DEF Inv, AdmittedInv, AdmittedOnce
<1> QED BY <1>1, AlwaysInv, PTL

(* The gate lets no installation pass that the operator has not activated, *)
(* removals, returns and reordered messages notwithstanding.               *)
THEOREM AllowlistIsKept == Spec => AllowlistHolds
<1>1. ASSUME Inv, Next, NEW d \in Delivery, stage[d] = "stored", stage'[d] = "passed"
      PROVE  ~AllowlistMode \/ event[d].inst \in approved \/ firstEvent[event[d].inst] = "repositories"
  <2>1. event[d] \in PullMessage /\ event[d].inst \in Installation
    BY <1>1 DEF Inv, Messages, PullMessage
  <2>2. \A e \in Delivery, s \in {"reserved", "fetched", "stored", "passed", "ended", "killed"} :
           Move(e, s) => s = "passed" \/ stage'[d] = stage[d] \/ stage'[d] = s
    BY <1>1 DEF Inv, TypeOK, Move
  <2>3. Gate(d)
    <3>1. ~UNCHANGED stage
      BY <1>1
    <3>2. \E e \in Delivery : TaskStep(e) \/ Crash(e)
      <4>1. \A m \in queue : Reserve(m) \/ IngestClosed(m) =>
               \E s \in {"reserved", "ended"} : Move(m.n, s) /\ m.n \in Delivery
        BY <1>1 DEF Reserve, IngestClosed, Inv, Messages, SyncMessage, PullMessage
      <4>2. \A m \in queue : ~(Reserve(m) \/ IngestClosed(m))
        BY <1>1, <2>2, <4>1
      <4> QED BY <1>1, <3>1, <4>2
           DEF Next, pullVars, ingestVars, PullRequestChanges, TakeDelivery, Duplicate,
               DeliveryLost, Redeliver, ReviewRunCreated
    <3>3. PICK e \in Delivery : TaskStep(e) \/ Crash(e)
      BY <3>2
    <3>4. Gate(e)
      BY <1>1, <2>2, <3>3 DEF TaskStep, Fetch, FetchFails, Store, Enqueue, SchedulingFails, Crash
    <3>5. e = d
      BY <1>1, <3>4 DEF Gate, Move, Inv, TypeOK
    <3> QED BY <3>4, <3>5
  <2>4. Eligible(event[d].inst)
    BY <1>1, <2>3 DEF Gate, Move, Inv, TypeOK
  <2> QED BY <1>1, <2>1, <2>4 DEF Eligible, Inv, Activated
<1>2. Inv /\ [Next]_vars =>
        [\A d \in Delivery : stage[d] = "stored" /\ stage'[d] = "passed"
            => \/ ~AllowlistMode
               \/ event[d].inst \in approved
               \/ firstEvent[event[d].inst] = "repositories"]_vars
  BY <1>1
<1> QED BY <1>2, AlwaysInv, PTL DEF Spec, AllowlistHolds

-----------------------------------------------------------------------------
(* What is stored.  The last delivery announces the pull request as it is  *)
(* on GitHub now, and so does what its task fetches.  Tasks that start one *)
(* after another in the order of their deliveries leave no task running    *)
(* that could store anything after the last one has.                       *)
IsLast(d) == event[d] # Nobody /\ \A e \in Delivery : event[e] # Nobody => e <= d

LastIsCurrent ==
    /\ (\E d \in Delivery : event[d] # Nobody) => \E d \in Delivery : IsLast(d)
    /\ (\A d \in Delivery : event[d] = Nobody) => stored = pull
    /\ \A d \in Delivery : IsLast(d) => /\ event[d].payload = pull
                                        /\ stage[d] = "fetched" => fetched[d] = pull

InOrder ==
    ~overtaken =>
      /\ \A d, e \in Delivery : stage[d] \in Active /\ Started(e) => e <= d
      /\ \A d \in Delivery : IsLast(d) /\ ingestions[d] = "succeeded" => stored = pull

StoredInv == LastIsCurrent /\ InOrder

LEMMA StoredStays ==
    ASSUME StoredInv,
           UNCHANGED <<pull, event, stored, stage, ingestions, fetched, overtaken>>
    PROVE  StoredInv'
BY DEF StoredInv, LastIsCurrent, InOrder, IsLast, Started

LEMMA StoredAnnounced ==
    ASSUME Inv, StoredInv, PullRequestChanges
    PROVE  StoredInv'
<1> DEFINE n == clock + 1
<1>1. PICK action, p : Deliver(action, p)
  BY DEF PullRequestChanges
<1> DEFINE m == [kind |-> "pull_request", n |-> n, inst |-> access, action |-> action, payload |-> p]
<1>2. /\ event' = [event EXCEPT ![n] = m] /\ queue' = queue \cup {m}
      /\ m.payload = p /\ pull' = p /\ m.n = n /\ m.kind = "pull_request"
  BY <1>1 DEF Deliver
<1>3. n \in Delivery /\ n \in Nat /\ clock < n /\ Delivery \subseteq Nat
  BY <1>1, InstallationsAssumption
  DEF Deliver, Delivery, Inv, TypeOK, InstallationsTypeOK, InstallationsAssumption
<1>4. UNCHANGED <<stored, stage, ingestions, fetched, overtaken>>
  BY DEF PullRequestChanges, ingestVars
<1>5. \A d \in Delivery : event[d] # Nobody => d < n
  BY <1>3, InstallationsAssumption
  DEF Inv, Messages, TypeOK, InstallationsTypeOK, InstallationsAssumption
<1>6. /\ \A d \in Delivery \ {n} : event'[d] = event[d]
      /\ event'[n] = m /\ event[n] = Nobody
  BY <1>2, <1>3, <1>5 DEF Inv, Messages
<1>7. event'[n] # Nobody
  <2>1. event' \in [Delivery -> PullMessage \cup {Nobody}] /\ queue' \subseteq SyncMessage \cup PullMessage
    BY PullRequestInv DEF Inv, Messages
  <2>2. m \in PullMessage
    BY <1>2, <2>1 DEF SyncMessage
  <2> QED BY <1>6, <2>2, IngestionAssumption DEF IngestionAssumption
<1> HIDE DEF m, n
<1>8. stage[n] = "none" /\ ingestions[n] = "absent"
  BY <1>3, <1>6, IngestionAssumption DEF Inv, Messages, TypeOK, IngestionAssumption
<1>9. \A d \in Delivery : IsLast(d)' <=> d = n
  <2>1. \A d \in Delivery : event'[d] # Nobody => d <= n
    BY <1>3, <1>5, <1>6
  <2>2. \A d \in Delivery : d = n => IsLast(d)'
    BY <1>3, <1>7, <2>1 DEF IsLast
  <2>3. \A d \in Delivery : d \in Nat
    BY <1>3
  <2>4. \A d \in Delivery : IsLast(d)' => d = n
    BY <1>3, <1>7, <2>1, <2>3 DEF IsLast
  <2> QED BY <2>2, <2>4
<1>10. LastIsCurrent'
  BY <1>2, <1>3, <1>4, <1>6, <1>7, <1>8, <1>9 DEF LastIsCurrent
<1>11. InOrder'
  BY <1>3, <1>4, <1>8, <1>9 DEF StoredInv, InOrder, Started
<1> QED BY <1>10, <1>11 DEF StoredInv

(* A task's own step, which stores at most what the task fetched.          *)
LEMMA StoredTask ==
    ASSUME Inv, StoredInv, NEW d \in Delivery, TaskStep(d) \/ Crash(d)
    PROVE  StoredInv'
<1> USE DEF Active
<1>1. /\ stage[d] \in Active /\ Started(d) /\ event[d] # Nobody
      /\ UNCHANGED <<pull, event, overtaken>>
  BY IngestionAssumption
  DEF TaskStep, Fetch, FetchFails, Store, Gate, Enqueue, SchedulingFails, Crash, Started,
      Inv, Messages, IngestionAssumption
<1>2. PICK s \in {"ended", "killed"} \cup Active :
         /\ Move(d, s)
         /\ s = "fetched" => fetched' = [fetched EXCEPT ![d] = pull]
         /\ s # "fetched" => fetched' = fetched
  BY <1>1 DEF TaskStep, Fetch, FetchFails, Store, Gate, Enqueue, SchedulingFails, Crash
<1>3. \A e \in Delivery : stage'[e] = IF e = d THEN s ELSE stage[e]
  BY <1>2 DEF Move, Inv, TypeOK
<1>4. \A e \in Delivery : Started(e)' <=> Started(e)
  BY <1>1, <1>2, <1>3 DEF Started
<1>5. \A e \in Delivery : stage'[e] \in Active => stage[e] \in Active
  BY <1>1, <1>3
<1>6. \A e \in Delivery : IsLast(e)' <=> IsLast(e)
  BY <1>1 DEF IsLast
<1>7. \A e \in Delivery : fetched'[e] = IF e = d /\ s = "fetched" THEN pull ELSE fetched[e]
  BY <1>2 DEF Inv, TypeOK
<1>8. Store(d) \/ (stored' = stored /\ \A e \in Delivery : ingestions'[e] = "succeeded" => ingestions[e] = "succeeded")
  BY <1>1 DEF TaskStep, Fetch, FetchFails, Gate, Enqueue, SchedulingFails, Crash, Inv, TypeOK
<1>9. LastIsCurrent'
  <2>1. \A e \in Delivery : IsLast(e) => event'[e].payload = pull' /\ (stage'[e] = "fetched" => fetched'[e] = pull')
    BY <1>1, <1>3, <1>7 DEF StoredInv, LastIsCurrent
  <2> QED BY <1>1, <1>6, <2>1 DEF StoredInv, LastIsCurrent
<1>10. InOrder'
  <2> SUFFICES ASSUME ~overtaken
               PROVE  /\ \A e, f \in Delivery : stage'[e] \in Active /\ Started(f)' => f <= e
                      /\ \A e \in Delivery : IsLast(e)' /\ ingestions'[e] = "succeeded" => stored' = pull'
    BY <1>1 DEF InOrder
  <2>1. \A e, f \in Delivery : stage'[e] \in Active /\ Started(f)' => f <= e
    BY <1>4, <1>5 DEF StoredInv, InOrder
  <2>2. CASE ~Store(d)
    BY <1>1, <1>6, <1>8, <2>1, <2>2 DEF StoredInv, InOrder
  <2>3. CASE Store(d)
    <3>1. /\ stored' = fetched[d] /\ stage[d] = "fetched"
          /\ ingestions' = [ingestions EXCEPT ![d] = "succeeded"]
      BY <2>3 DEF Store
    <3>2. ASSUME NEW e \in Delivery, IsLast(e), ingestions'[e] = "succeeded" PROVE stored' = pull
      <4>1. d <= e /\ d \in Nat /\ e \in Nat
        BY <1>1, <3>2 DEF IsLast, Delivery
      <4>2. CASE e = d
        BY <3>1, <3>2, <4>2 DEF StoredInv, LastIsCurrent
      <4>3. CASE e # d
        <5>1. ingestions[e] = "succeeded"
          BY <3>1, <3>2, <4>3 DEF Inv, TypeOK
        <5>2. Started(e)
          BY <5>1 DEF Inv, TypeOK, Started
        <5>3. e <= d
          BY <1>1, <5>2 DEF StoredInv, InOrder
        <5> QED BY <4>1, <4>3, <5>3
      <4> QED BY <4>2, <4>3
    <3> QED BY <1>1, <1>6, <2>1, <3>2
  <2> QED BY <2>2, <2>3
<1> QED BY <1>9, <1>10 DEF StoredInv

(* A task that starts: beside another or after a later one, and then the   *)
(* order is given up, or alone and as the latest.                          *)
LEMMA StoredTaken ==
    ASSUME Inv, StoredInv, NEW m \in queue, Reserve(m) \/ IngestClosed(m)
    PROVE  StoredInv'
<1>1. /\ m \in PullMessage /\ m.n \in Delivery /\ event[m.n] = m /\ event[m.n] # Nobody
      /\ stage[m.n] = "none" /\ ingestions[m.n] = "absent"
  BY IngestionAssumption
  DEF Reserve, IngestClosed, Inv, TypeOK, Messages, SyncMessage, PullMessage, IngestionAssumption
<1>2. UNCHANGED <<pull, event, fetched>> /\ Starts(m.n)
  BY DEF Reserve, IngestClosed
<1>3. PICK s \in {"reserved", "ended"} : Move(m.n, s)
  BY DEF Reserve, IngestClosed
<1>4. \A e \in Delivery : stage'[e] = IF e = m.n THEN s ELSE stage[e]
  BY <1>1, <1>3 DEF Move, Inv, TypeOK
<1>5. \A e \in Delivery : IsLast(e)' <=> IsLast(e)
  BY <1>2 DEF IsLast
<1>6. \A d \in Delivery : d \in Nat
  BY DEF Delivery
<1>7. LastIsCurrent'
  <2>1. (\A d \in Delivery : event'[d] = Nobody) => FALSE
    BY <1>1, <1>2
  <2>2. \A e \in Delivery : stage'[e] = "fetched" => stage[e] = "fetched"
    BY <1>3, <1>4
  <2> QED BY <1>2, <1>5, <2>1, <2>2 DEF StoredInv, LastIsCurrent
<1>8. InOrder'
  <2> SUFFICES ASSUME ~overtaken'
               PROVE  /\ \A e, f \in Delivery : stage'[e] \in Active /\ Started(f)' => f <= e
                      /\ \A e \in Delivery : IsLast(e)' /\ ingestions'[e] = "succeeded" => stored' = pull'
    BY DEF InOrder
  <2>1. /\ ~overtaken /\ \A e \in Delivery : stage[e] \notin Active
        /\ \A e \in Delivery : Started(e) => ~(e > m.n)
    BY <1>2 DEF Starts
  <2>2. \A e \in Delivery : stage'[e] \in Active => e = m.n
    BY <1>4, <2>1
  <2>3. \A e \in Delivery : Started(e)' => e <= m.n
    BY <1>1, <1>4, <1>6, <2>1 DEF Started
  <2>4. CASE Reserve(m)
    BY <1>1, <1>2, <1>5, <2>1, <2>2, <2>3, <2>4 DEF Reserve, StoredInv, InOrder, Inv, TypeOK
  <2>5. CASE IngestClosed(m)
    <3>1. stored' = m.payload /\ ingestions' = [ingestions EXCEPT ![m.n] = "succeeded"]
      BY <2>5 DEF IngestClosed
    <3>2. ASSUME NEW e \in Delivery, IsLast(e), ingestions'[e] = "succeeded" PROVE stored' = pull
      <4>1. m.n <= e
        BY <1>1, <3>2 DEF IsLast
      <4>2. e <= m.n
        <5>1. CASE e = m.n
          BY <1>6, <5>1
        <5>2. CASE e # m.n
          <6>1. ingestions[e] = "succeeded"
            BY <3>1, <3>2, <5>2 DEF Inv, TypeOK
          <6>2. Started(e)
            BY <6>1 DEF Inv, TypeOK, Started
          <6> QED BY <1>1, <1>6, <2>1, <6>2
        <5> QED BY <5>1, <5>2
      <4>3. e = m.n
        BY <1>1, <1>6, <4>1, <4>2
      <4> QED BY <1>1, <3>1, <3>2, <4>3 DEF StoredInv, LastIsCurrent
    <3> QED BY <1>2, <1>5, <2>2, <2>3, <3>2
  <2> QED BY <2>4, <2>5
<1> QED BY <1>7, <1>8 DEF StoredInv

LEMMA StoredInitial == Init => StoredInv
BY DEF Init, StoredInv, LastIsCurrent, InOrder, IsLast, Active, Started

LEMMA StoredNext == Inv /\ StoredInv /\ [Next]_vars => StoredInv'
<1> SUFFICES ASSUME Inv, StoredInv, [Next]_vars PROVE StoredInv'
  OBVIOUS
<1>1. CASE PullRequestChanges
  BY <1>1, StoredAnnounced
<1>2. ASSUME NEW m \in queue, TakeDelivery(m) \/ DeliveryLost(m) PROVE StoredInv'
  <2>1. CASE Duplicate(m) \/ DeliveryLost(m)
    BY <2>1, StoredStays DEF Duplicate, DeliveryLost, ingestVars
  <2> QED BY <1>2, <2>1, StoredTaken DEF TakeDelivery
<1>3. ASSUME NEW d \in Delivery, TaskStep(d) \/ Crash(d) \/ Redeliver(d) \/ ReviewRunCreated(d)
      PROVE  StoredInv'
  <2>1. CASE Redeliver(d) \/ ReviewRunCreated(d)
    BY <2>1, StoredStays DEF Redeliver, ReviewRunCreated, ingestVars
  <2> QED BY <1>3, <2>1, StoredTask
<1>4. CASE UNCHANGED pullVars
  BY <1>4, StoredStays DEF pullVars, ingestVars
<1>5. CASE UNCHANGED vars
  BY <1>5, StoredStays DEF vars, ingestVars
<1> QED BY <1>1, <1>2, <1>3, <1>4, <1>5 DEF Next

(* Deliveries that are all handled, in their order and none lost, leave in *)
(* the row what GitHub has: no fetch, older than its write, brings back an *)
(* earlier head or reopens a pull request, for any number of deliveries.   *)
THEOREM StoredFollowsGitHub == Spec => []StoredIsCurrent
<1>1. StoredInv => StoredIsCurrent
  BY DEF StoredInv, LastIsCurrent, InOrder, IsLast, StoredIsCurrent, Quiet
<1>2. Spec => []StoredInv
  BY StoredInitial, StoredNext, AlwaysInv, PTL DEF Spec
<1> QED BY <1>1, <1>2, PTL

-----------------------------------------------------------------------------
(* The rows of installations.  As long as the messages about installation  *)
(* i have been synced in their order and none is lost, the row is as old   *)
(* as the youngest of them, and syncing the others, in their order, will   *)
(* bring it to what GitHub says.  A created, added or removed message      *)
(* makes a row or wakes a deleted one, but leaves a suspended one alone:   *)
(* GitHub sends one only when something before it has lifted the           *)
(* suspension.                                                             *)
RowState(i) ==
    IF installations[i] = Nobody \/ installations[i].status = "deleted" THEN "no"
    ELSE installations[i].status

After(m) == CASE m.action = "deleted" -> "no"
              [] m.action = "suspend" -> "suspended"
              [] OTHER -> "active"
Lifts(m) == m.action \in {"unsuspend", "deleted"}
Passive(m) == m.action \in {"created", "added", "removed"}

Replay(ms, row, told) ==
    /\ ms = {} => row = told
    /\ ms # {} => \E m \in ms : (\A k \in ms : k.n <= m.n) /\ After(m) = told
    /\ \A p \in ms : Passive(p) =>
         /\ row = "suspended" => \E k \in ms : k.n < p.n /\ Lifts(k)
         /\ \A k \in ms : k.n < p.n /\ k.action = "suspend" =>
              \E l \in ms : k.n < l.n /\ l.n < p.n /\ Lifts(l)

Orderly(i) == i \notin disordered /\ \A m \in Unsynced(i) : m.n > youngest[i]

Numbered ==
    /\ \A m \in queue : m.kind # "pull_request" =>
         /\ m.n <= clock /\ m.n # youngest[m.inst]
         /\ m.kind = "repositories" => m.action \in SelectionAction
    /\ \A m, k \in queue :
         m.kind # "pull_request" /\ k.kind # "pull_request" /\ m.n = k.n => m = k
    /\ \A i \in Installation : youngest[i] <= clock

SyncedInv ==
    /\ Numbered
    /\ \A i \in Installation : Orderly(i) => Replay(Unsynced(i), RowState(i), installed[i])

(* One more message, younger than all that wait. *)
LEMMA ReplayMore ==
    ASSUME NEW ms \in SUBSET SyncMessage, NEW row, NEW told, Replay(ms, row, told),
           \A k, l \in ms : k.n = l.n => k = l,
           NEW m \in SyncMessage, \A k \in ms : k.n < m.n,
           Passive(m) => told # "suspended"
    PROVE  Replay(ms \cup {m}, row, After(m))
<1>0. \A k \in ms \cup {m} : k.n \in Nat /\ k.action \in LifecycleAction \cup SelectionAction
  BY InstallationsAssumption DEF SyncMessage, InstallationsAssumption
<1>1. \A k \in ms \cup {m} : k.n <= m.n
  BY <1>0
<1>2. ASSUME NEW p \in ms, Passive(p)
      PROVE  /\ row = "suspended" => \E k \in ms : k.n < p.n /\ Lifts(k)
             /\ \A k \in ms \cup {m} : k.n < p.n /\ k.action = "suspend" =>
                  \E l \in ms : k.n < l.n /\ l.n < p.n /\ Lifts(l)
  <2>1. ~(m.n < p.n)
    BY <1>0
  <2> QED BY <1>2, <2>1 DEF Replay
<1>3. ASSUME Passive(m)
      PROVE  /\ row = "suspended" => \E k \in ms : k.n < m.n /\ Lifts(k)
             /\ \A k \in ms : k.n < m.n /\ k.action = "suspend" =>
                  \E l \in ms : k.n < l.n /\ l.n < m.n /\ Lifts(l)
  <2>1. CASE ms = {}
    BY <1>3, <2>1 DEF Replay
  <2>2. CASE ms # {}
    <3>1. PICK q \in ms : (\A k \in ms : k.n <= q.n) /\ After(q) = told
      BY <2>2 DEF Replay
    <3>2. Lifts(q) \/ Passive(q)
      BY <1>0, <1>3, <3>1 DEF After, Lifts, Passive, LifecycleAction, SelectionAction
    <3>3. q.action # "suspend"
      BY <3>2 DEF Lifts, Passive
    <3>4. q.n < m.n
      BY <3>1
    <3>5. CASE Passive(q)
      <4>1. row = "suspended" => \E k \in ms : k.n < m.n /\ Lifts(k)
        BY <3>1, <3>5 DEF Replay
      <4>2. ASSUME NEW k \in ms, k.action = "suspend"
            PROVE  \E l \in ms : k.n < l.n /\ l.n < m.n /\ Lifts(l)
        <5>1. CASE k.n < q.n
          BY <3>5, <4>2, <5>1 DEF Replay
        <5>2. CASE k.n = q.n
          BY <3>1, <3>3, <4>2, <5>2
        <5> QED BY <1>0, <3>1, <5>1, <5>2
      <4> QED BY <4>1, <4>2
    <3>6. CASE Lifts(q)
      <4>1. \A k \in ms : k.action = "suspend" => k.n < q.n
        BY <1>0, <3>1, <3>3
      <4> QED BY <3>4, <3>6, <4>1
    <3> QED BY <3>2, <3>5, <3>6
  <2> QED BY <2>1, <2>2
<1>4. ~(m.n < m.n)
  BY <1>0
<1>5. \A p \in ms \cup {m} : Passive(p) =>
         /\ row = "suspended" => \E k \in ms \cup {m} : k.n < p.n /\ Lifts(k)
         /\ \A k \in ms \cup {m} : k.n < p.n /\ k.action = "suspend" =>
              \E l \in ms \cup {m} : k.n < l.n /\ l.n < p.n /\ Lifts(l)
  BY <1>2, <1>3, <1>4
<1>6. \E q \in ms \cup {m} : (\A k \in ms \cup {m} : k.n <= q.n) /\ After(q) = After(m)
  BY <1>1
<1>7. ms \cup {m} # {}
  OBVIOUS
<1> QED BY <1>5, <1>6, <1>7 DEF Replay

(* The oldest message is synced.                                           *)
LEMMA ReplayLess ==
    ASSUME NEW ms \in SUBSET SyncMessage, NEW row, NEW told, Replay(ms, row, told),
           NEW m \in ms, \A k \in ms \ {m} : m.n < k.n
    PROVE  /\ Passive(m) => row # "suspended"
           /\ Replay(ms \ {m}, After(m), told)
<1>0. \A k \in ms : k.n \in Nat /\ k.action \in LifecycleAction \cup SelectionAction
  BY InstallationsAssumption DEF SyncMessage, InstallationsAssumption
<1>1. Passive(m) => row # "suspended"
  <2>1. \A k \in ms : ~(k.n < m.n)
    BY <1>0
  <2> QED BY <2>1 DEF Replay
<1>2. ms \ {m} = {} => After(m) = told
  BY DEF Replay
<1>3. ms \ {m} # {} => \E q \in ms \ {m} : (\A k \in ms \ {m} : k.n <= q.n) /\ After(q) = told
  <2> SUFFICES ASSUME ms \ {m} # {} PROVE \E q \in ms \ {m} : (\A k \in ms \ {m} : k.n <= q.n) /\ After(q) = told
    OBVIOUS
  <2>1. PICK q \in ms : (\A k \in ms : k.n <= q.n) /\ After(q) = told
    BY DEF Replay
  <2>2. q # m
    BY <1>0, <2>1
  <2> QED BY <2>1, <2>2
<1>4. ASSUME NEW p \in ms \ {m}, Passive(p)
      PROVE  /\ After(m) = "suspended" => \E k \in ms \ {m} : k.n < p.n /\ Lifts(k)
             /\ \A k \in ms \ {m} : k.n < p.n /\ k.action = "suspend" =>
                  \E l \in ms \ {m} : k.n < l.n /\ l.n < p.n /\ Lifts(l)
  <2>1. ASSUME NEW k \in ms, k.n < p.n, k.action = "suspend"
        PROVE  \E l \in ms \ {m} : k.n < l.n /\ l.n < p.n /\ Lifts(l)
    <3>1. PICK l \in ms : k.n < l.n /\ l.n < p.n /\ Lifts(l)
      BY <1>4, <2>1 DEF Replay
    <3>2. l # m
      BY <1>0, <3>1
    <3> QED BY <3>1, <3>2
  <2>2. After(m) = "suspended" => m.action = "suspend" /\ m.n < p.n
    BY <1>4 DEF After
  <2> QED BY <2>1, <2>2
<1> QED BY <1>1, <1>2, <1>3, <1>4 DEF Replay

(* What one sync makes of the row.                                         *)
LEMMA SyncedState ==
    ASSUME NEW row \in InstallationRow \cup {Nobody}, NEW beta \in {"pending", "active"},
           NEW m \in SyncMessage, m.kind = "repositories" => m.action \in SelectionAction,
           NEW state, state = (IF row = Nobody \/ row.status = "deleted" THEN "no" ELSE row.status),
           Passive(m) => state # "suspended",
           NEW new, new = (IF m.kind = "installation" THEN Synced(row, beta, m.action)
                           ELSE Upserted(row, beta))
    PROVE  new # Nobody /\ (IF new.status = "deleted" THEN "no" ELSE new.status) = After(m)
<1> DEFINE healed == Upserted(row, beta)
<1>1. healed \in InstallationRow /\ healed.status \in {"active", "suspended"}
  BY UpsertedType DEF Upserted, InstallationRow
<1>2. state # "suspended" => healed.status = "active"
  <2>1. CASE row = Nobody
    BY <2>1 DEF Upserted
  <2>2. CASE row # Nobody /\ row.status = "deleted"
    BY <2>2 DEF Upserted, InstallationRow
  <2>3. CASE row # Nobody /\ row.status # "deleted"
    BY <2>3 DEF Upserted, InstallationRow
  <2> QED BY <2>1, <2>2, <2>3
<1>3. \A s \in {"active", "suspended", "deleted"} :
         [healed EXCEPT !.status = s] \in InstallationRow /\ [healed EXCEPT !.status = s].status = s
  BY <1>1 DEF InstallationRow
<1>4. \A r \in InstallationRow : r # Nobody
  BY IngestionAssumption DEF IngestionAssumption
<1>5. m.kind \in {"installation", "repositories"}
      /\ m.action \in {"created", "deleted", "suspend", "unsuspend", "added", "removed"}
  BY DEF SyncMessage, LifecycleAction, SelectionAction
<1>6. new = (CASE m.action = "deleted"   -> [healed EXCEPT !.status = "deleted"]
               [] m.action = "suspend"   -> [healed EXCEPT !.status = "suspended"]
               [] m.action = "unsuspend" -> [healed EXCEPT !.status = "active"]
               [] OTHER                  -> healed)
  BY <1>5 DEF Synced, SelectionAction
<1> HIDE DEF healed
<1>7. CASE Passive(m)
  BY <1>1, <1>2, <1>4, <1>6, <1>7 DEF Passive, After
<1>8. CASE m.action = "deleted"
  BY <1>3, <1>4, <1>6, <1>8 DEF After
<1>9. CASE m.action = "suspend"
  BY <1>3, <1>4, <1>6, <1>9 DEF After
<1>10. CASE m.action = "unsuspend"
  BY <1>3, <1>4, <1>6, <1>10 DEF After
<1> QED BY <1>5, <1>7, <1>8, <1>9, <1>10 DEF Passive

(* The messages about installations that wait, and the row, stay.          *)
LEMMA SyncedKept ==
    ASSUME SyncedInv, Inv, clock' \in Nat, clock' >= clock,
           UNCHANGED <<installed, youngest, disordered>>,
           {m \in queue' : m.kind # "pull_request"} = {m \in queue : m.kind # "pull_request"},
           \A i \in Installation : RowState(i)' = RowState(i)
    PROVE  SyncedInv'
<1>1. /\ clock \in Nat /\ \A i \in Installation : youngest[i] \in Nat
      /\ \A m \in queue : m.kind # "pull_request" => m.n \in Nat
  BY InstallationsAssumption
  DEF Inv, TypeOK, Messages, InstallationsTypeOK, InstallationsAssumption, SyncMessage, PullMessage
<1>2. \A m \in queue' : m.kind # "pull_request" => m \in queue
  OBVIOUS
<1>3. Numbered'
  <2>1. \A i \in Installation : youngest'[i] <= clock'
    BY <1>1 DEF SyncedInv, Numbered
  <2>2. \A m \in queue' : m.kind # "pull_request" =>
           /\ m.n <= clock' /\ m.n # youngest'[m.inst]
           /\ m.kind = "repositories" => m.action \in SelectionAction
    BY <1>1, <1>2 DEF SyncedInv, Numbered
  <2> QED BY <1>2, <2>1, <2>2 DEF SyncedInv, Numbered
<1>4. \A i \in Installation : Unsynced(i)' = Unsynced(i)
  BY DEF Unsynced
<1> QED BY <1>3, <1>4 DEF SyncedInv, Orderly

LEMMA SyncedAnnounced ==
    ASSUME SyncedInv, Inv, NEW i \in Installation, GitHubChanges(i), UNCHANGED pullVars
    PROVE  SyncedInv'
<1>1. PICK kind \in {"installation", "repositories"}, action \in LifecycleAction \cup SelectionAction :
         /\ Announce(kind, i, action)
         /\ kind = "repositories" => action \in SelectionAction
         /\ installed' = [installed EXCEPT ![i] =
              CASE action = "deleted" -> "no" [] action = "suspend" -> "suspended" [] OTHER -> "active"]
         /\ action \in {"created", "added", "removed"} => installed[i] # "suspended"
  BY DEF GitHubChanges, Install, Uninstall, Suspend, Unsuspend, Include, Exclude,
         LifecycleAction, SelectionAction, Inv, TypeOK, InstallationsTypeOK
<1> DEFINE m == [kind |-> kind, n |-> clock + 1, inst |-> i, action |-> action]
<1>2. /\ clock \in Nat /\ clock' = clock + 1 /\ queue' = queue \cup {m}
      /\ m \in SyncMessage /\ m.n = clock + 1 /\ m.inst = i /\ m.kind # "pull_request"
      /\ m.kind = "repositories" => m.action \in SelectionAction
      /\ installed' = [installed EXCEPT ![i] = After(m)]
      /\ Passive(m) => installed[i] # "suspended"
  <2>1. clock \in Nat /\ MaxMessages \in Nat /\ clock < MaxMessages
    BY <1>1, InstallationsAssumption
    DEF Announce, Inv, TypeOK, InstallationsTypeOK, InstallationsAssumption
  <2>2. clock + 1 \in 1..MaxMessages
    BY <2>1
  <2> QED BY <1>1, <2>1, <2>2 DEF Announce, SyncMessage, After, Passive
<1> HIDE DEF m
<1>3. UNCHANGED <<installations, youngest, disordered>>
  BY DEF GitHubChanges, rowVars, historyVars
<1>4. /\ \A j \in Installation : youngest[j] \in Nat
      /\ \A k \in queue : k.kind # "pull_request" =>
           k \in SyncMessage /\ k.n \in Nat /\ k.n < m.n /\ k.inst \in Installation
  <2>1. \A k \in queue : k.kind # "pull_request" => k \in SyncMessage /\ k.n \in Nat /\ k.inst \in Installation
    BY InstallationsAssumption DEF Inv, Messages, SyncMessage, PullMessage, InstallationsAssumption
  <2> QED BY <1>2, <2>1, InstallationsAssumption
          DEF Inv, TypeOK, InstallationsTypeOK, InstallationsAssumption, SyncedInv, Numbered
<1>5. Numbered'
  <2>1. \A j \in Installation : youngest'[j] <= clock' /\ youngest'[j] # m.n
    BY <1>2, <1>3, <1>4 DEF SyncedInv, Numbered
  <2>2. \A k \in queue' : k.kind # "pull_request" =>
           /\ k.n <= clock' /\ k.n # youngest'[k.inst]
           /\ k.kind = "repositories" => k.action \in SelectionAction
    BY <1>2, <1>3, <1>4, <2>1 DEF SyncedInv, Numbered
  <2>3. \A k, l \in queue' : k.kind # "pull_request" /\ l.kind # "pull_request" /\ k.n = l.n => k = l
    BY <1>2, <1>4 DEF SyncedInv, Numbered
  <2> QED BY <2>1, <2>2, <2>3 DEF Numbered
<1>6. ASSUME NEW j \in Installation, Orderly(j)'
      PROVE  Replay(Unsynced(j)', RowState(j)', installed'[j])
  <2>1. RowState(j)' = RowState(j)
    BY <1>3 DEF RowState
  <2>2. Unsynced(j)' = Unsynced(j) \cup (IF j = i THEN {m} ELSE {})
    BY <1>2 DEF Unsynced
  <2>3. Orderly(j)
    BY <1>3, <1>6, <2>2 DEF Orderly
  <2>4. Replay(Unsynced(j), RowState(j), installed[j])
    BY <2>3 DEF SyncedInv
  <2>5. CASE j = i
    <3>1. /\ Unsynced(i) \in SUBSET SyncMessage
          /\ \A k, l \in Unsynced(i) : k.n = l.n => k = l
          /\ \A k \in Unsynced(i) : k.n < m.n
      BY <1>4 DEF Unsynced, SyncedInv, Numbered
    <3>2. Replay(Unsynced(i) \cup {m}, RowState(i), After(m))
      BY <1>2, <2>4, <2>5, <3>1, ReplayMore
    <3>3. installed'[i] = After(m)
      BY <1>2 DEF Inv, TypeOK, InstallationsTypeOK
    <3> QED BY <2>1, <2>2, <2>5, <3>2, <3>3
  <2>6. CASE j # i
    <3>1. installed'[j] = installed[j]
      BY <1>2, <2>6 DEF Inv, TypeOK, InstallationsTypeOK
    <3> QED BY <2>1, <2>2, <2>4, <2>6, <3>1
  <2> QED BY <2>5, <2>6
<1> QED BY <1>5, <1>6 DEF SyncedInv

LEMMA SyncedSynced ==
    ASSUME SyncedInv, Inv, NEW m \in queue, Sync(m), UNCHANGED pullVars
    PROVE  SyncedInv'
<1> DEFINE i == m.inst
<1>1. /\ m \in SyncMessage /\ i \in Installation /\ m.n \in Nat /\ m.n # youngest[i]
      /\ m.kind # "pull_request" /\ m.n <= clock
      /\ m.kind = "repositories" => m.action \in SelectionAction
  BY InstallationsAssumption
  DEF Sync, SyncInstallation, SyncRepositories, Inv, Messages, SyncMessage, PullMessage,
      SyncedInv, Numbered, InstallationsAssumption
<1>2. /\ clock \in Nat /\ \A j \in Installation : youngest[j] \in Nat
      /\ \A k \in queue : k.kind # "pull_request" =>
           k \in SyncMessage /\ k.n \in Nat /\ k.inst \in Installation
  BY InstallationsAssumption
  DEF Inv, TypeOK, Messages, InstallationsTypeOK, SyncMessage, PullMessage, InstallationsAssumption
<1>3. /\ queue' = queue \ {m} /\ UNCHANGED <<clock, installed>>
      /\ \A j \in Installation \ {i} : /\ youngest'[j] = youngest[j]
                                       /\ j \in disordered' <=> j \in disordered
                                       /\ installations'[j] = installations[j]
      /\ youngest'[i] = IF m.n > youngest[i] THEN m.n ELSE youngest[i]
      /\ i \in disordered' <=> i \in disordered \/ m.n < youngest[i]
  BY <1>1 DEF Sync, Take, githubVars, SyncInstallation, SyncRepositories, Inv, TypeOK, InstallationsTypeOK
<1>4. Numbered'
  <2>1. \A j \in Installation : youngest'[j] <= clock'
    BY <1>1, <1>2, <1>3 DEF SyncedInv, Numbered
  <2>2. \A k \in queue' : k.kind # "pull_request" => k.n # m.n
    BY <1>1, <1>3 DEF SyncedInv, Numbered
  <2>3. \A k \in queue' : k.kind # "pull_request" => k.n # youngest'[k.inst]
    BY <1>2, <1>3, <2>2 DEF SyncedInv, Numbered
  <2> QED BY <1>3, <2>1, <2>3 DEF SyncedInv, Numbered
<1>5. \A j \in Installation \ {i} :
         RowState(j)' = RowState(j) /\ Unsynced(j)' = Unsynced(j) /\ (Orderly(j)' => Orderly(j))
  <2>1. \A j \in Installation \ {i} : Unsynced(j)' = Unsynced(j)
    BY <1>3 DEF Unsynced
  <2> QED BY <1>3, <2>1 DEF RowState, Orderly
<1>6. ASSUME Orderly(i)'
      PROVE  Replay(Unsynced(i)', RowState(i)', installed'[i])
  <2>1. Unsynced(i)' = Unsynced(i) \ {m} /\ m \in Unsynced(i)
    BY <1>1, <1>3 DEF Unsynced
  <2>2. i \notin disordered /\ m.n > youngest[i]
    BY <1>1, <1>2, <1>3, <1>6 DEF Orderly
  <2>3. \A k \in Unsynced(i) \ {m} : m.n < k.n
    BY <1>3, <1>6, <2>1, <2>2 DEF Orderly
  <2>4. Orderly(i)
    BY <1>1, <1>2, <2>1, <2>2, <2>3 DEF Orderly, Unsynced
  <2>5. Replay(Unsynced(i), RowState(i), installed[i])
    BY <1>1, <2>4 DEF SyncedInv
  <2>6. Unsynced(i) \in SUBSET SyncMessage
    BY <1>2 DEF Unsynced
  <2>7. (Passive(m) => RowState(i) # "suspended") /\ Replay(Unsynced(i) \ {m}, After(m), installed[i])
    BY <2>1, <2>3, <2>5, <2>6, ReplayLess
  <2>8. RowState(i)' = After(m)
    <3> DEFINE beta == IF m.kind = "installation" /\ AllowlistMode THEN "pending" ELSE "active"
               new == IF m.kind = "installation" THEN Synced(installations[i], beta, m.action)
                      ELSE Upserted(installations[i], beta)
    <3>1. installations' = [installations EXCEPT ![i] = new]
      BY DEF Sync, SyncInstallation, SyncRepositories
    <3>2. installations'[i] = new
      BY <1>1, <3>1 DEF Inv, TypeOK, InstallationsTypeOK
    <3>3. beta \in {"pending", "active"} /\ installations[i] \in InstallationRow \cup {Nobody}
      BY <1>1 DEF Inv, TypeOK, InstallationsTypeOK
    <3> HIDE DEF beta
    <3>4. new = IF m.kind = "installation" THEN Synced(installations[i], beta, m.action)
                ELSE Upserted(installations[i], beta)
      OBVIOUS
    <3> HIDE DEF new
    <3>5. RowState(i) = IF installations[i] = Nobody \/ installations[i].status = "deleted" THEN "no"
                        ELSE installations[i].status
      BY DEF RowState
    <3>6. new # Nobody /\ (IF new.status = "deleted" THEN "no" ELSE new.status) = After(m)
      BY <1>1, <2>7, <3>3, <3>4, <3>5, SyncedState
    <3> QED BY <3>2, <3>6 DEF RowState
  <2> QED BY <1>3, <2>1, <2>7, <2>8
<1>7. ASSUME NEW j \in Installation, Orderly(j)'
      PROVE  Replay(Unsynced(j)', RowState(j)', installed'[j])
  BY <1>3, <1>5, <1>6, <1>7 DEF SyncedInv
<1> QED BY <1>4, <1>7 DEF SyncedInv

LEMMA SyncedLost ==
    ASSUME SyncedInv, Inv, NEW m \in queue, SyncLost(m)
    PROVE  SyncedInv'
<1>1. /\ queue' = queue \ {m} /\ disordered' = disordered \cup {m.inst}
      /\ UNCHANGED <<clock, installed, installations, youngest>> /\ m.inst \in Installation
      /\ m.kind # "pull_request"
  BY DEF SyncLost, githubVars, rowVars, Inv, Messages, SyncMessage, PullMessage
<1>2. Numbered'
  BY <1>1 DEF SyncedInv, Numbered
<1>3. ASSUME NEW j \in Installation, Orderly(j)'
      PROVE  Replay(Unsynced(j)', RowState(j)', installed'[j])
  <2>1. j # m.inst
    BY <1>1, <1>3 DEF Orderly
  <2>2. Unsynced(j)' = Unsynced(j) /\ RowState(j)' = RowState(j)
    BY <1>1, <2>1 DEF Unsynced, RowState
  <2>3. Orderly(j)
    BY <1>1, <1>3, <2>2 DEF Orderly
  <2> QED BY <1>1, <2>2, <2>3 DEF SyncedInv
<1> QED BY <1>2, <1>3 DEF SyncedInv

LEMMA SyncedBeta ==
    ASSUME SyncedInv, Inv, NEW i \in Installation, NEW b \in {"active", "suspended"},
           SetBetaState(i, b)
    PROVE  SyncedInv'
<1>1. /\ installations[i] \in InstallationRow
      /\ installations' = [installations EXCEPT ![i] = [installations[i] EXCEPT !.beta = b]]
  BY DEF SetBetaState, Inv, TypeOK, InstallationsTypeOK
<1>2. /\ [installations[i] EXCEPT !.beta = b] # Nobody
      /\ [installations[i] EXCEPT !.beta = b].status = installations[i].status
      /\ installations[i] # Nobody
  <2>1. [installations[i] EXCEPT !.beta = b] \in InstallationRow
    BY <1>1 DEF InstallationRow
  <2> QED BY <1>1, <2>1, IngestionAssumption DEF IngestionAssumption, InstallationRow
<1>3. \A j \in Installation : RowState(j)' = RowState(j)
  BY <1>1, <1>2 DEF RowState, Inv, TypeOK, InstallationsTypeOK
<1>4. clock \in Nat
  BY InstallationsAssumption DEF Inv, TypeOK, InstallationsTypeOK, InstallationsAssumption
<1> QED BY <1>3, <1>4, SyncedKept DEF SetBetaState, githubVars

LEMMA SyncedInitial == Init => SyncedInv
<1> SUFFICES ASSUME Init PROVE SyncedInv
  OBVIOUS
<1>1. Numbered
  BY DEF Init, InstallationsInit, Numbered
<1>2. ASSUME NEW i \in Installation PROVE Replay(Unsynced(i), RowState(i), installed[i])
  <2>1. Unsynced(i) = {}
    BY DEF Init, InstallationsInit, Unsynced
  <2>2. RowState(i) = installed[i]
    <3>1. [status |-> "active", beta |-> "active"] # Nobody
      BY IngestionAssumption DEF IngestionAssumption, InstallationRow
    <3> QED BY <3>1 DEF Init, InstallationsInit, RowState
  <2> QED BY <2>1, <2>2 DEF Replay
<1> QED BY <1>1, <1>2 DEF SyncedInv

LEMMA SyncedNext == Inv /\ SyncedInv /\ [Next]_vars => SyncedInv'
<1> SUFFICES ASSUME Inv, SyncedInv, [Next]_vars PROVE SyncedInv'
  OBVIOUS
<1> USE DEF SyncUnchanged, githubVars, rowVars, historyVars
<1>1. clock \in Nat
  BY InstallationsAssumption DEF Inv, TypeOK, InstallationsTypeOK, InstallationsAssumption
<1>2. ASSUME NEW i \in Installation,
             GitHubChanges(i) \/ \E b \in {"active", "suspended"} : SetBetaState(i, b),
             UNCHANGED pullVars
      PROVE  SyncedInv'
  BY <1>2, SyncedAnnounced, SyncedBeta
<1>3. CASE PullRequestChanges
  <2>1. clock' = clock + 1 /\ \E m : queue' = queue \cup {m} /\ m.kind = "pull_request"
    BY <1>3 DEF PullRequestChanges, Deliver
  <2>2. {m \in queue' : m.kind # "pull_request"} = {m \in queue : m.kind # "pull_request"}
    BY <2>1
  <2> QED BY <1>1, <1>3, <2>1, <2>2, SyncedKept DEF PullRequestChanges, RowState
<1>4. ASSUME NEW m \in queue, Sync(m) \/ SyncLost(m), UNCHANGED pullVars PROVE SyncedInv'
  BY <1>4, SyncedSynced, SyncedLost
<1>5. ASSUME NEW m \in queue, TakeDelivery(m) \/ DeliveryLost(m) PROVE SyncedInv'
  <2>1. /\ m.kind = "pull_request" /\ queue' = queue \ {m}
        /\ UNCHANGED <<clock, installed, installations, youngest, disordered>>
    BY <1>5 DEF TakeDelivery, Duplicate, Reserve, IngestClosed, DeliveryLost
  <2>2. {k \in queue' : k.kind # "pull_request"} = {k \in queue : k.kind # "pull_request"}
    BY <2>1
  <2> QED BY <1>1, <2>1, <2>2, SyncedKept DEF RowState
<1>6. ASSUME NEW d \in Delivery, TaskStep(d) \/ Crash(d) \/ Redeliver(d) \/ ReviewRunCreated(d)
      PROVE  SyncedInv'
  <2>1. /\ UNCHANGED <<clock, installed, installations, youngest, disordered>>
        /\ queue' = queue \/ (event[d] # Nobody /\ queue' = queue \cup {event[d]})
    BY <1>6 DEF TaskStep, Fetch, FetchFails, Store, Gate, Enqueue, SchedulingFails, Crash,
                Redeliver, ReviewRunCreated
  <2>2. event[d] # Nobody => event[d].kind = "pull_request"
    BY DEF Inv, Messages, PullMessage
  <2>3. {k \in queue' : k.kind # "pull_request"} = {k \in queue : k.kind # "pull_request"}
    BY <2>1, <2>2
  <2> QED BY <1>1, <2>1, <2>3, SyncedKept DEF RowState
<1>7. CASE UNCHANGED vars
  BY <1>1, <1>7, SyncedKept DEF vars, RowState
<1> QED BY <1>2, <1>3, <1>4, <1>5, <1>6, <1>7 DEF Next

(* An installation whose messages have all been synced in their order has  *)
(* the row that GitHub's state calls for, through any sequence of          *)
(* installs, suspensions, removals and changes of its repositories.        *)
THEOREM InstallationsFollowGitHub == Spec => []InstallationSynced
<1>1. Inv /\ SyncedInv => InstallationSynced
  <2> SUFFICES ASSUME Inv, SyncedInv, NEW i \in Installation \ disordered, Unsynced(i) = {}
               PROVE  IF installed[i] = "no"
                      THEN installations[i] = Nobody \/ installations[i].status = "deleted"
                      ELSE installations[i] # Nobody /\ installations[i].status = installed[i]
    BY DEF InstallationSynced
  <2>1. RowState(i) = installed[i]
    BY DEF SyncedInv, Orderly, Replay
  <2> QED BY <2>1 DEF RowState, Inv, TypeOK, InstallationsTypeOK, InstallationRow
<1>2. Spec => []SyncedInv
  BY SyncedInitial, SyncedNext, AlwaysInv, PTL DEF Spec
<1> QED BY <1>1, <1>2, AlwaysInv, PTL
=============================================================================
