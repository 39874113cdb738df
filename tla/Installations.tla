--------------------------- MODULE Installations ---------------------------
(***************************************************************************)
(* Installations of the GitHub App and the one repository followed here:   *)
(* what GitHub knows, the webhook messages by which PatchFrog hears of it, *)
(* and the rows that the sync tasks make of them.                          *)
(*                                                                         *)
(* The tasks of any two messages may run in either order, and a message    *)
(* may be lost; nothing in the rows tells how old the message is that      *)
(* wrote them.  A sync is one transaction.                                 *)
(***************************************************************************)
EXTENDS Naturals

CONSTANTS
    Installation,
    Nobody,         \* no installation, and no row
    Established,    \* installations set up and activated before the model starts
    AllowlistMode,  \* new installations wait for the operator
    MaxMessages     \* bound on the webhook messages GitHub sends

ASSUME InstallationsAssumption ==
    /\ Nobody \notin Installation
    /\ Established \subseteq Installation
    /\ AllowlistMode \in BOOLEAN
    /\ MaxMessages \in Nat

VARIABLES
    (* GitHub *)
    installed,      \* [Installation -> {"no", "active", "suspended"}]
    access,         \* the installation that has the repository, or Nobody
    queue,          \* messages sent and not yet taken by a task
    clock,          \* number of messages sent
    (* PatchFrog *)
    installations,  \* [Installation -> row or Nobody]
    repository,     \* the repository's row, or Nobody
    (* history *)
    youngest,       \* [Installation -> number of the youngest message synced]
    disordered,     \* installations with a message lost or synced too late
    firstEvent,     \* [Installation -> kind of message that made its row]
    approved        \* installations the operator has activated

githubVars  == <<installed, access>>
rowVars     == <<installations, repository>>
historyVars == <<youngest, disordered, firstEvent, approved>>

(* InstallationEventAction and InstallationRepositoriesEventAction *)
LifecycleAction == {"created", "deleted", "suspend", "unsuspend"}
SelectionAction == {"added", "removed"}

InstallationRow == [status : {"active", "suspended", "deleted"},
                    beta   : {"pending", "active", "suspended"}]
RepositoryRow == [installation : Installation, selected : BOOLEAN]

SyncMessage == [kind   : {"installation", "repositories"},
                n      : 1..MaxMessages,
                inst   : Installation,
                action : LifecycleAction \cup SelectionAction]

InstallationsTypeOK ==
    /\ installed \in [Installation -> {"no", "active", "suspended"}]
    /\ access \in Installation \cup {Nobody}
    /\ clock \in 0..MaxMessages
    /\ installations \in [Installation -> InstallationRow \cup {Nobody}]
    /\ repository \in RepositoryRow \cup {Nobody}
    /\ youngest \in [Installation -> 0..MaxMessages]
    /\ disordered \subseteq Installation
    /\ firstEvent \in [Installation -> {"none", "installation", "repositories"}]
    /\ approved \subseteq Installation

InstallationsInit ==
    /\ installed = [i \in Installation |-> IF i \in Established THEN "active" ELSE "no"]
    /\ access \in Established \cup {Nobody}
    /\ queue = {} /\ clock = 0
    /\ installations = [i \in Installation |->
                         IF i \in Established
                         THEN [status |-> "active", beta |-> "active"] ELSE Nobody]
    /\ repository = Nobody
    /\ youngest = [i \in Installation |-> 0]
    /\ disordered = {} /\ approved = Established
    /\ firstEvent = [i \in Installation |->
                       IF i \in Established THEN "installation" ELSE "none"]

-----------------------------------------------------------------------------
(* GitHub: each change is announced by one message.                        *)
Announce(kind, i, action) ==
    /\ clock < MaxMessages
    /\ clock' = clock + 1
    /\ queue' = queue \cup {[kind |-> kind, n |-> clock + 1, inst |-> i,
                             action |-> action]}

(* The installer chooses whether the repository is included; the message   *)
(* about the choice is installation.created itself.                        *)
Install(i) ==
    /\ installed[i] = "no"
    /\ installed' = [installed EXCEPT ![i] = "active"]
    /\ \/ access = Nobody /\ access' = i
       \/ UNCHANGED access
    /\ Announce("installation", i, "created")

Uninstall(i) ==
    /\ installed[i] # "no"
    /\ installed' = [installed EXCEPT ![i] = "no"]
    /\ access' = IF access = i THEN Nobody ELSE access
    /\ Announce("installation", i, "deleted")

Suspend(i) ==
    /\ installed[i] = "active"
    /\ installed' = [installed EXCEPT ![i] = "suspended"]
    /\ UNCHANGED access
    /\ Announce("installation", i, "suspend")

Unsuspend(i) ==
    /\ installed[i] = "suspended"
    /\ installed' = [installed EXCEPT ![i] = "active"]
    /\ UNCHANGED access
    /\ Announce("installation", i, "unsuspend")

Include(i) ==
    /\ installed[i] = "active" /\ access = Nobody
    /\ access' = i
    /\ UNCHANGED installed
    /\ Announce("repositories", i, "added")

Exclude(i) ==
    /\ installed[i] = "active" /\ access = i
    /\ access' = Nobody
    /\ UNCHANGED installed
    /\ Announce("repositories", i, "removed")

GitHubChanges(i) ==
    /\ \/ Install(i) \/ Uninstall(i) \/ Suspend(i) \/ Unsuspend(i)
       \/ Include(i) \/ Exclude(i)
    /\ UNCHANGED <<rowVars, historyVars>>

-----------------------------------------------------------------------------
(* Variants with a mistake the code does not make; no part of any Spec.    *)

(* A returning installation is treated as a new one. *)
UpsertedAnew(row, defaultBeta) ==
    IF row = Nobody \/ row.status = "deleted"
      THEN [status |-> "active", beta |-> IF row = Nobody THEN defaultBeta ELSE "active"]
    ELSE row

(* The event's own status is written first and the row healed afterwards. *)
SyncedBeforeUpsert(row, defaultBeta, action) ==
    IF row = Nobody THEN [status |-> "active", beta |-> defaultBeta]
    ELSE IF action = "deleted" \/ row.status = "deleted" THEN [row EXCEPT !.status = "active"]
    ELSE IF action = "suspend" THEN [row EXCEPT !.status = "suspended"]
    ELSE IF action = "unsuspend" THEN [row EXCEPT !.status = "active"]
    ELSE row

(* InstallationRepository.upsert: the row is made, or comes back to life.  *)
Upserted(row, defaultBeta) ==
    IF row = Nobody THEN [status |-> "active", beta |-> defaultBeta]
    ELSE IF row.status = "deleted" THEN [row EXCEPT !.status = "active"]
    ELSE row

(* sync_installation_event: upsert, then the status the action stands for. *)
Synced(row, defaultBeta, action) ==
    LET healed == Upserted(row, defaultBeta) IN
    CASE action = "deleted"   -> [healed EXCEPT !.status = "deleted"]
      [] action = "suspend"   -> [healed EXCEPT !.status = "suspended"]
      [] action = "unsuspend" -> [healed EXCEPT !.status = "active"]
      [] OTHER                -> healed

(* Messages of an installation that are older than m and still on the way  *)
(* are overtaken by m; a younger one has overtaken it.                     *)
Take(m) ==
    /\ queue' = queue \ {m}
    /\ youngest' = [youngest EXCEPT ![m.inst] = IF m.n > @ THEN m.n ELSE @]
    /\ disordered' = IF m.n < youngest[m.inst] THEN disordered \cup {m.inst}
                                                ELSE disordered

FirstEvent(m) ==
    firstEvent' = IF installations[m.inst] = Nobody
                  THEN [firstEvent EXCEPT ![m.inst] = m.kind] ELSE firstEvent

SyncInstallation(m) ==
    /\ m.kind = "installation"
    /\ installations' = [installations EXCEPT ![m.inst] =
                           Synced(@, IF AllowlistMode THEN "pending" ELSE "active",
                                  m.action)]
    /\ UNCHANGED repository

(* sync_installation_repositories_event.  upsert has its own default here, *)
(* and set_selected does nothing for a repository without a row.           *)
SyncRepositories(m) ==
    /\ m.kind = "repositories"
    /\ installations' = [installations EXCEPT ![m.inst] = Upserted(@, "active")]
    /\ repository' = IF repository = Nobody THEN Nobody
                     ELSE [repository EXCEPT !.selected = (m.action = "added")]

Sync(m) ==
    /\ SyncInstallation(m) \/ SyncRepositories(m)
    /\ Take(m) /\ FirstEvent(m)
    /\ UNCHANGED <<githubVars, clock, approved>>

(* The API was down, the worker was killed, or two first events of an      *)
(* installation met in the unique index: nothing sends the message again.  *)
SyncLost(m) ==
    /\ m.kind \in {"installation", "repositories"}
    /\ queue' = queue \ {m}
    /\ disordered' = disordered \cup {m.inst}
    /\ UNCHANGED <<githubVars, clock, rowVars, youngest, firstEvent, approved>>

(* ops installations --activate and --suspend.                             *)
SetBetaState(i, b) ==
    /\ installations[i] # Nobody
    /\ b # installations[i].beta
    /\ installations' = [installations EXCEPT ![i].beta = b]
    /\ approved' = IF b = "active" THEN approved \cup {i} ELSE approved \ {i}
    /\ UNCHANGED <<githubVars, queue, clock, repository, youngest, disordered, firstEvent>>

-----------------------------------------------------------------------------
(* InstallationSynced: once every message about an installation has been   *)
(* synced, in the order in which they were sent, its row says what GitHub  *)
(* says; above all, an installation that is gone or suspended is no longer *)
(* ACTIVE, whatever repositories messages came between.                    *)
Unsynced(i) == {m \in queue : m.kind # "pull_request" /\ m.inst = i}

InstallationSynced ==
    \A i \in Installation \ disordered :
        Unsynced(i) = {} =>
            IF installed[i] = "no"
            THEN installations[i] = Nobody \/ installations[i].status = "deleted"
            ELSE installations[i] # Nobody /\ installations[i].status = installed[i]
=============================================================================
