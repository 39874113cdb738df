----------------------------- MODULE MigrationPR -----------------------------
(***************************************************************************)
(* The pull request of one migration in each of several repositories.      *)
(*                                                                         *)
(* A publication compares the base branch with the commit its evidence is  *)
(* about, builds a commit, moves PatchFrog's branch to it, lists the       *)
(* branch's pull requests, opens or updates one, reports a check and only  *)
(* then writes the migration's row.  Nothing is locked meanwhile: several  *)
(* publications of one migration, and the humans of the repository, act    *)
(* between any two of its calls.                                           *)
(***************************************************************************)
EXTENDS Naturals, Sequences

CONSTANTS
    Repo, Run,      \* repositories; who publishes: one run of a campaign each
    Nothing,
    (* bounds *)
    MaxCommits, MaxFaults

ASSUME MigrationAssumption ==
    MaxCommits \in Nat \ {0} /\ MaxFaults \in Nat /\ Nothing \notin Repo \cup Run

VARIABLES
    (* GitHub *)
    base,       \* [Repo -> the last commit of the base branch]
    uses,       \* [Repo -> whether that commit uses what the upstream changed]
    branch,     \* [Repo -> the commit PatchFrog's branch is built on, or 0]
    pulls,      \* [Repo -> the branch's pull requests, in order of creation]
    (* PatchFrog *)
    rows,       \* [Repo -> the migration's row, or Nothing]
    work,       \* [Run -> the publication it is at]
    (* history *)
    raced,      \* repositories whose pull requests changed between a
                \* publication's list and its write
    faults

githubVars == <<base, uses, branch, pulls>>
migrationVars == <<githubVars, rows, work, raced, faults>>

Commit == 1..MaxCommits
PullState == {"open", "closed", "merged"}
Status == {"opened", "updated", "no_op_unchanged", "stale_requires_regeneration", "failed"}
Row == [status : Status, number : Nat, base : Commit]

Work == [stage : {"idle", "base", "branch", "list", "write", "check", "record"},
         repo : Repo \cup {Nothing}, base : Commit,
         listed : Seq(PullState), status : Status, number : Nat]
Idle == [stage |-> "idle", repo |-> Nothing, base |-> 1, listed |-> <<>>,
         status |-> "failed", number |-> 0]

MigrationTypeOK ==
    /\ base \in [Repo -> Commit] /\ uses \in [Repo -> BOOLEAN]
    /\ branch \in [Repo -> 0..MaxCommits] /\ pulls \in [Repo -> Seq(PullState)]
    /\ rows \in [Repo -> Row \cup {Nothing}]
    /\ work \in [Run -> Work]
    /\ \A u \in Run : work[u].stage # "idle" => work[u].repo \in Repo
    /\ raced \subseteq Repo /\ faults \in 0..MaxFaults

MigrationInit ==
    /\ base = [r \in Repo |-> 1] /\ uses \in [Repo -> BOOLEAN]
    /\ branch = [r \in Repo |-> 0] /\ pulls = [r \in Repo |-> <<>>]
    /\ rows = [r \in Repo |-> Nothing] /\ work = [u \in Run |-> Idle]
    /\ raced = {} /\ faults = 0

-----------------------------------------------------------------------------
(* The repository's humans: commits, with or without the migration, and    *)
(* what they do to the pull request.                                       *)
IsOpen(r, k) == pulls[r][k] = "open"
OpenPulls(r) == {k \in DOMAIN pulls[r] : IsOpen(r, k)}

(* Publications of r that have listed its pull requests and not written.   *)
Deciding(r) == {u \in Run : work[u].stage = "write" /\ work[u].repo = r}

Disturbs(r, others) == raced' = IF Deciding(r) \cap others # {} THEN raced \cup {r} ELSE raced

Commits(r) ==
    /\ base[r] < MaxCommits
    /\ base' = [base EXCEPT ![r] = @ + 1]
    /\ \E b \in BOOLEAN : uses' = [uses EXCEPT ![r] = b]
    /\ UNCHANGED <<branch, pulls, rows, work, raced, faults>>

Merges(r) ==
    /\ base[r] < MaxCommits
    /\ \E k \in OpenPulls(r) : pulls' = [pulls EXCEPT ![r][k] = "merged"]
    /\ base' = [base EXCEPT ![r] = @ + 1] /\ uses' = [uses EXCEPT ![r] = FALSE]
    /\ Disturbs(r, Run)
    /\ UNCHANGED <<branch, rows, work, faults>>

Closes(r) ==
    /\ \E k \in OpenPulls(r) : pulls' = [pulls EXCEPT ![r][k] = "closed"]
    /\ Disturbs(r, Run)
    /\ UNCHANGED <<base, uses, branch, rows, work, faults>>

Reopens(r) ==
    /\ OpenPulls(r) = {}
    /\ \E k \in DOMAIN pulls[r] :
         pulls[r][k] = "closed" /\ pulls' = [pulls EXCEPT ![r][k] = "open"]
    /\ Disturbs(r, Run)
    /\ UNCHANGED <<base, uses, branch, rows, work, faults>>

Human(r) == Commits(r) \/ Merges(r) \/ Closes(r) \/ Reopens(r)

-----------------------------------------------------------------------------
(* MigrationPRPublisher.publish of an eligible plan; one that is not, or a *)
(* dry run, only writes its row.                                           *)
At(u, s) == work[u].stage = s

BeginPublish(u, r, b) ==
    /\ At(u, "idle")
    /\ work' = [work EXCEPT ![u] = [Idle EXCEPT !.stage = "base", !.repo = r, !.base = b]]

Goes(u, s) == work' = [work EXCEPT ![u].stage = s]
Ends(u, status) ==
    work' = [work EXCEPT ![u].stage = "record", ![u].status = status, ![u].number = 0]

CompareBase(u) ==
    /\ At(u, "base")
    /\ IF base[work[u].repo] = work[u].base
       THEN Goes(u, "branch") ELSE Ends(u, "stale_requires_regeneration")
    /\ UNCHANGED <<githubVars, rows, raced, faults>>

(* Tree, commit, then create_ref, or update_ref by force if there is one   *)
(* by now: in any case the branch is this commit.                          *)
MoveBranch(u) ==
    /\ At(u, "branch")
    /\ branch' = [branch EXCEPT ![work[u].repo] = work[u].base]
    /\ Goes(u, "list")
    /\ UNCHANGED <<base, uses, pulls, rows, raced, faults>>

(* A mistake the code does not make: only open pull requests are listed.   *)
ListOpenPulls(u) ==
    /\ At(u, "list")
    /\ work' = [work EXCEPT ![u].stage = "write",
                            ![u].listed = SelectSeq(pulls[work[u].repo], LAMBDA s : s = "open")]
    /\ UNCHANGED <<githubVars, rows, raced, faults>>

ListPulls(u) ==
    /\ At(u, "list")
    /\ work' = [work EXCEPT ![u].stage = "write", ![u].listed = pulls[work[u].repo]]
    /\ UNCHANGED <<githubVars, rows, raced, faults>>

Decided(u, status, number) ==
    work' = [work EXCEPT ![u].stage = "check", ![u].status = status, ![u].number = number,
                         ![u].listed = <<>>]

(* GitHub lists the newest first. *)
Newest(S) == CHOOSE k \in S : \A j \in S : j <= k

UpdatePull(u) ==
    /\ At(u, "write")
    /\ LET open == {k \in DOMAIN work[u].listed : work[u].listed[k] = "open"}
       IN  open # {} /\ Decided(u, "updated", Newest(open))
    /\ UNCHANGED <<githubVars, rows, raced, faults>>

LeaveClosedPull(u) ==
    /\ At(u, "write") /\ work[u].listed # <<>>
    /\ \A k \in DOMAIN work[u].listed : work[u].listed[k] # "open"
    /\ Decided(u, "no_op_unchanged", Len(work[u].listed))
    /\ UNCHANGED <<githubVars, rows, raced, faults>>

(* GitHub refuses a second open pull request of a branch. *)
CreatePull(u) ==
    /\ At(u, "write") /\ work[u].listed = <<>>
    /\ LET r == work[u].repo IN
       IF OpenPulls(r) # {}
       THEN Ends(u, "failed") /\ UNCHANGED <<pulls, raced>>
       ELSE /\ pulls' = [pulls EXCEPT ![r] = Append(@, "open")]
            /\ Decided(u, "opened", Len(pulls[r]) + 1)
            /\ Disturbs(r, Run \ {u})
    /\ UNCHANGED <<base, uses, branch, rows, faults>>

ReportCheck(u) ==
    /\ At(u, "check")
    /\ Goes(u, "record")
    /\ UNCHANGED <<githubVars, rows, raced, faults>>

(* A GitHubError at any call; the call before it, or this one, may have    *)
(* been served.  Whatever was decided is forgotten.                        *)
GitHubFails(u) ==
    /\ faults < MaxFaults /\ faults' = faults + 1
    /\ work[u].stage \notin {"idle", "record"}
    /\ Ends(u, "failed")
    /\ \/ UNCHANGED <<branch, pulls, raced>>
       \/ /\ At(u, "branch") /\ UNCHANGED <<pulls, raced>>
          /\ branch' = [branch EXCEPT ![work[u].repo] = work[u].base]
       \/ /\ At(u, "write") /\ work[u].listed = <<>> /\ OpenPulls(work[u].repo) = {}
          /\ pulls' = [pulls EXCEPT ![work[u].repo] = Append(@, "open")]
          /\ Disturbs(work[u].repo, Run \ {u})
          /\ UNCHANGED branch
    /\ UNCHANGED <<base, uses, rows>>

(* _finalize: MigrationPRStore.upsert under the identity lock.             *)
RecordRow(u) ==
    /\ At(u, "record")
    /\ rows' = [rows EXCEPT ![work[u].repo] =
         [status |-> work[u].status, number |-> work[u].number, base |-> work[u].base]]
    /\ work' = [work EXCEPT ![u] = Idle]
    /\ UNCHANGED <<githubVars, raced, faults>>

PublishStep(u) ==
    \/ CompareBase(u) \/ MoveBranch(u) \/ ListPulls(u) \/ UpdatePull(u)
    \/ LeaveClosedPull(u) \/ CreatePull(u) \/ ReportCheck(u) \/ GitHubFails(u)

-----------------------------------------------------------------------------
(* OnePull: a migration has one pull request per repository, ever: however *)
(* often it is published, by however many runs at a time, failing or       *)
(* killed, once a human has closed or merged it no other is opened, unless *)
(* the pull requests changed under a publication between its list and its  *)
(* write.                                                                  *)
OnePull == \A r \in Repo \ raced : Len(pulls[r]) <= 1
=============================================================================
