--------------------------- MODULE ExecutableChecks ---------------------------
(***************************************************************************)
(* Running a repository's own test for a review: the run's budget of       *)
(* executions, the target, the artifact and its digest, the task on the    *)
(* verifier, what travels between them and how it is checked, what pytest  *)
(* showed, what the critic is told of it and what is counted.              *)
(***************************************************************************)
EXTENDS Severities, FiniteSets, FiniteSetsExt
LOCAL INSTANCE TLC

Executed == {"confirmed_failure", "passed", "timeout", "unsupported", "inconclusive", "sandbox_error"}
CheckKind == {"existing_targeted_test", "static_reproduction", "generated_targeted_test"}
CheckVersion == 1

-----------------------------------------------------------------------------
(* VerificationBudget, one event after another: seconds are known only     *)
(* after an execution.  most.count and most.seconds are 5 and 90.          *)
NothingSpent == [count |-> 0, seconds |-> 0]
MayRun(spent, most) == spent.count < most.count /\ spent.seconds < most.seconds

Spend(spent, event, most) ==
    IF event.type = "record" THEN [spent EXCEPT !.seconds = @ + event.seconds]
    ELSE IF MayRun(spent, most) THEN [spent EXCEPT !.count = @ + 1] ELSE spent

SpentAfter(events, most) == FoldLeft(LAMBDA spent, e : Spend(spent, e, most), NothingSpent, events)

(* determine_verification_target: the first test J knows of the file.      *)
NoTarget == 0
TargetOf(known) == IF known = {} THEN NoTarget ELSE Min(known)

-----------------------------------------------------------------------------
(* compute_artifact_digest: what the hash is computed of.  A tree gives    *)
(* each path, a sequence of names, what is there.                          *)
Children(tree, path) == {p \in DOMAIN tree : Len(p) = Len(path) + 1 /\ SubSeq(p, 1, Len(path)) = path}
Digest(tree) ==
    {<<tree[p].type, p, tree[p].content>> : p \in {p \in DOMAIN tree : tree[p].type \in {"file", "symlink"}}}
      \cup {<<"dir", p, "">> : p \in {p \in DOMAIN tree : tree[p].type = "dir" /\ Children(tree, p) = {}}}

(* resolve_artifact_path: the id is a plain name of a directory below the  *)
(* staging root, also after its links are followed.                        *)
Resolves(id) == id.plain /\ id.below /\ id.directory

-----------------------------------------------------------------------------
(* What is on the wire: a value by its JSON type and shape.                *)
WireValue ==
    {"absent", "null", "boolean", "integer", "fraction", "infinite", "too_large", "negative",
     "empty", "text", "long", "kind", "outcome", "list"}
WireText == {"empty", "text", "long", "kind", "outcome"}

WireStr(v) == v \in WireText \ {"empty"}
WireInt(v) == v \in {"integer", "too_large", "negative"}
WireBool(v) == v = "boolean"
WireFloat(v) == v \in {"integer", "fraction"}
WireOptionalInt(v) == v \in {"absent", "null"} \/ WireInt(v)
WireExcerpt(v) == v \in WireText \ {"long"}
WireKind(v) == v = "kind"
WireOutcome(v) == v = "outcome"

(* from_wire of a request and of a result: what each field has to be.      *)
RequestFields ==
    [request_id |-> "str", protocol_version |-> "int", repository_id |-> "str", review_run_id |-> "str",
     commit_sha |-> "str", verification_kind |-> "kind", test_target_path |-> "str", artifact_id |-> "str",
     artifact_digest |-> "str", timeout_seconds |-> "float"]
ResultFields ==
    [request_id |-> "str", protocol_version |-> "int", commit_sha |-> "str", verification_kind |-> "kind",
     test_target_path |-> "str", outcome |-> "outcome", exit_code |-> "optional_int", stdout_excerpt |-> "excerpt",
     stderr_excerpt |-> "excerpt", duration_ms |-> "float", timed_out |-> "bool"]

WellFormedField(type, v) ==
    CASE type = "str" -> WireStr(v) [] type = "int" -> WireInt(v) [] type = "bool" -> WireBool(v)
      [] type = "float" -> WireFloat(v) [] type = "optional_int" -> WireOptionalInt(v)
      [] type = "excerpt" -> WireExcerpt(v) [] type = "kind" -> WireKind(v) [] type = "outcome" -> WireOutcome(v)

FromWire(fields, data) == \A f \in DOMAIN fields : WellFormedField(fields[f], data[f])

(* to_wire of what the verifier returns: excerpts are cut below the bound  *)
(* and the seconds of two bounded runs are well within theirs.             *)
ShapeOf(result) ==
    [request_id |-> "text", protocol_version |-> "integer", commit_sha |-> "text", verification_kind |-> "kind",
     test_target_path |-> "text", outcome |-> "outcome",
     exit_code |-> IF result.exit = NoTarget THEN "null" ELSE "integer",
     stdout_excerpt |-> "text", stderr_excerpt |-> "empty", duration_ms |-> "fraction", timed_out |-> "boolean"]

(* compute_request_id, result_matches_request *)
RequestOf(run, commit, file, name, target, artifact, digest) ==
    [id |-> <<run, commit, file, name, "existing_targeted_test", target>>, version |-> CheckVersion, commit |-> commit,
     kind |-> "existing_targeted_test", target |-> target, artifact |-> artifact, digest |-> digest, seconds |-> 30]

Matches(request, result) ==
    /\ result.id = request.id /\ result.version = request.version /\ result.version = CheckVersion
    /\ result.commit = request.commit /\ result.kind = request.kind /\ result.target = request.target

-----------------------------------------------------------------------------
(* The verifier.                                                           *)
SandboxError(target, commit) ==
    [kind |-> "existing_targeted_test", outcome |-> "sandbox_error", target |-> target, commit |-> commit,
     exit |-> NoTarget, seconds |-> 0]

(* run_pytest_verification: collect and run are an exit code, or that time *)
(* ran out, and the seconds each took; pytest's exit codes are 0 to 5.     *)
PytestOutcome(collect, run) ==
    IF collect.timedOut THEN "timeout"
    ELSE IF collect.exit # 0 THEN "unsupported"
    ELSE IF run.timedOut THEN "timeout"
    ELSE IF run.exit = 0 THEN "passed"
    ELSE IF run.exit = 1 THEN "confirmed_failure" ELSE "inconclusive"

Pytest(collect, run, target, commit) ==
    LET ran == ~collect.timedOut /\ collect.exit = 0
    IN  [kind |-> "existing_targeted_test", outcome |-> PytestOutcome(collect, run), target |-> target,
         commit |-> commit, exit |-> IF ran THEN run.exit ELSE collect.exit,
         seconds |-> collect.seconds + (IF ran THEN run.seconds ELSE 0)]

(* execute_against_snapshot: the copy's digest is compared, the original   *)
(* is left alone.                                                          *)
ExecuteAgainst(copy, digest, collect, run, target, commit) ==
    IF digest # Digest(copy) THEN SandboxError(target, commit) ELSE Pytest(collect, run, target, commit)

(* _run_verification: world is the verifier's: what is staged under the    *)
(* id, whether there is a sandbox, and what pytest does in it.             *)
RunVerification(request, world) ==
    LET answer(evidence) == [id |-> request.id, version |-> CheckVersion] @@ evidence
        failed(outcome) == answer([SandboxError(request.target, request.commit) EXCEPT !.outcome = outcome, !.kind = request.kind])
    IN  IF request.version # CheckVersion THEN failed("sandbox_error")
        ELSE IF request.kind # "existing_targeted_test" THEN failed("unsupported")
        ELSE IF ~Resolves(world.id) \/ ~world.sandbox THEN failed("sandbox_error")
        ELSE answer(ExecuteAgainst(world.staged, request.digest, world.collect, world.run, request.target, request.commit))

(* VerifierDispatcher.dispatch: the answer that comes back, if any.        *)
NoAnswer == [id |-> <<>>]
Dispatched(request, delivered) ==
    IF delivered = NoAnswer \/ ~Matches(request, delivered) THEN NoAnswer ELSE delivered

-----------------------------------------------------------------------------
(* The review's side.                                                      *)
NotAttempted == [attempted |-> FALSE]
Attempted(evidence) == [attempted |-> TRUE, evidence |-> evidence]

(* _verify: through the verifier.                                          *)
VerifyRemotely(request, available, known, spent, most, delivered) ==
    IF ~available \/ TargetOf(known) = NoTarget \/ ~MayRun(spent, most) THEN NotAttempted
    ELSE LET dispatched == Dispatched(request, delivered)
         IN  Attempted(IF dispatched = NoAnswer THEN SandboxError(request.target, request.commit) ELSE dispatched)

(* build_executable_verification_report: in the reviewer's own sandbox.    *)
VerifyLocally(commit, known, spent, most, world) ==
    IF TargetOf(known) = NoTarget THEN NotAttempted
    ELSE IF ~world.sandbox THEN Attempted(SandboxError(TargetOf(known), commit))
    ELSE IF ~MayRun(spent, most) THEN NotAttempted
    ELSE Attempted(IF world.raises THEN SandboxError(TargetOf(known), commit)
                   ELSE Pytest(world.collect, world.run, TargetOf(known), commit))

(* evidence_text_for_report: what the critic is told.                      *)
Rendered == {"passed", "confirmed_failure"}
ToldOfExecution(report) ==
    IF report.attempted /\ report.evidence.outcome \in Rendered
    THEN <<report.evidence.target, report.evidence.outcome>> ELSE <<>>

(* summarize_for_persistence *)
ExecutionCounts(reports) ==
    LET of(outcomes) == Len(SelectSeq(reports, LAMBDA r : r.attempted /\ r.evidence.outcome \in outcomes))
    IN  [attempted |-> of(Executed), confirmed |-> of({"confirmed_failure"}), passed |-> of({"passed"}),
         timeout |-> of({"timeout"}), unsupported |-> of({"unsupported"}),
         inconclusive |-> of({"inconclusive", "sandbox_error"})]

-----------------------------------------------------------------------------
(* What the laws say of them. *)

(* The count is never exceeded, none starts once the seconds are gone, and *)
(* the executions under way when the last one started are all that may     *)
(* exceed them: one, if they run one after another.  Each record is of an  *)
(* execution that was granted.                                             *)
BudgetIsBounded(events, most, longest) ==
    LET after == [n \in 0..Len(events) |-> SpentAfter(SubSeq(events, 1, n), most)]
        recorded == [n \in 0..Len(events) |-> Cardinality({k \in 1..n : events[k].type = "record"})]
        granted == {n \in 1..Len(events) : after[n].count > after[n - 1].count}
        underWay(n) == after[n].count - recorded[n]
    IN  (\A n \in 0..Len(events) : underWay(n) >= 0) =>
          /\ after[Len(events)].count <= most.count
          /\ \A n \in granted : after[n - 1].seconds < most.seconds
          /\ granted # {} => after[Len(events)].seconds < most.seconds + longest * underWay(Max(granted))

(* The critic is told of an execution only if the target is a test known   *)
(* of the file, the budget allowed it, what was staged is what the digest  *)
(* was taken of, and pytest collected the target and ran it to an exit     *)
(* code of passed or failed, which is what the critic is told.             *)
ToldIsWhatRan(request, available, known, spent, most, world, delivered) ==
    LET report == VerifyRemotely(request, available, known, spent, most, delivered)
        told == ToldOfExecution(report)
    IN  told # <<>> =>
          /\ available /\ told[1] \in known /\ MayRun(spent, most)
          /\ world.sandbox /\ world.id.directory /\ request.digest = Digest(world.staged)
          /\ world.collect = [exit |-> 0, timedOut |-> FALSE, seconds |-> world.collect.seconds]
          /\ ~world.run.timedOut /\ world.run.exit \in {0, 1}
          /\ told[2] = IF world.run.exit = 0 THEN "passed" ELSE "confirmed_failure"

(* Where the verifier is used or the review's own sandbox, the same tests  *)
(* show the same; and every attempt is counted once.                       *)
LocalIsAsRemote(request, known, spent, most, world) ==
    LET remote == VerifyRemotely(request, TRUE, known, spent, most, RunVerification(request, world))
        here == VerifyLocally(request.commit, known, spent, most, [raises |-> FALSE] @@ world)
        counts == ExecutionCounts(<<remote, here>>)
    IN  /\ (request.digest = Digest(world.staged) /\ Resolves(world.id) /\ request.version = CheckVersion
            /\ request.target = TargetOf(known) /\ MayRun(spent, most)) => ToldOfExecution(remote) = ToldOfExecution(here)
        /\ counts.attempted = counts.confirmed + counts.passed + counts.timeout + counts.unsupported + counts.inconclusive

(* Two trees that differ in a file, a link or an empty directory have      *)
(* different digests, an answer the verifier sends is understood, and one  *)
(* that has the wrong type or shape in any field is not.                   *)
ForgeriesAreRefused(tree, other, field, value, result) ==
    /\ Digest(tree) = Digest(other) => tree = other
    /\ FromWire(ResultFields, ShapeOf(result))
    /\ FromWire(ResultFields, [ShapeOf(result) EXCEPT ![field] = value]) =>
         /\ value \notin {"list", "infinite"}
         /\ field # "exit_code" => value \notin {"absent", "null"}
         /\ field \notin {"stdout_excerpt", "stderr_excerpt"} => value # "empty"
         /\ value = "boolean" => field = "timed_out"
         /\ value \in {"too_large", "negative"} => field \in {"exit_code", "protocol_version"}
         /\ field = "outcome" => value = "outcome"
=============================================================================
