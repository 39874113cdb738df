--------------------------- MODULE UpstreamImpact ---------------------------
(***************************************************************************)
(* Which code an upstream change reaches: the usage sites of a dependency  *)
(* it affects (patchfrog.upstream.consumers), the code around them         *)
(* (blast_radius), a repository's status (workspace), and what a watcher   *)
(* tells of the changes it observes (patchfrog.watchers).                  *)
(*                                                                         *)
(* A usage site is a record of its evidence, the symbol or module it names *)
(* (token), the ones that one lies within, the path templates its literal  *)
(* matches, and the calls found at it: those located, each with its        *)
(* keywords (Computed when not a literal) and whether more is passed       *)
(* indirectly.                                                             *)
(***************************************************************************)
EXTENDS ContractDiff

Computed == "computed"

ConfidenceIn == {"low", "medium", "high"}
Surest(confidences) ==
    IF "high" \in confidences THEN "high" ELSE IF "medium" \in confidences THEN "medium" ELSE "low"

LOCAL ParameterKinds ==
    {<<"parameter", s>> : s \in {"type", "enum_narrowed", "schema", "field_added_required", "field_added_optional",
                                 "field_removed", "field_became_required", "field_became_optional"}}

(* _NEEDS_ARGUMENT, _NEEDS_ABSENCE, _AUTH_KINDS *)
NeedsArgument ==
    {<<k>> : k \in {"sdk_parameter_renamed", "sdk_parameter_removed", "sdk_parameter_type_changed", "sdk_enum_narrowed",
                    "sdk_enum_value_replaced", "parameter_renamed", "parameter_removed", "parameter_schema_changed",
                    "request_field_renamed"}}
      \cup ParameterKinds \cup {<<"request", "field_removed">>}
NeedsAbsence ==
    {<<k>> : k \in {"sdk_parameter_added_required", "sdk_parameter_became_required", "parameter_added_required",
                    "parameter_became_required"}}
      \cup {<<"request", "field_added_required">>, <<"request", "field_became_required">>}
AuthKinds ==
    {<<k>> : k \in {"auth_requirement_added", "auth_scheme_changed", "auth_scope_added", "security_scheme_changed",
                    "security_scheme_removed"}}

CallEvidence == {"sdk_call", "sdk_constructor"}
HttpEvidence == {"http_endpoint", "openapi_path_reference"}

(* What one call says of an item: whether it is affected, and how sure *)
CallVerdict(item, call) ==
    LET name == item.member[1]  passes == name \in DOMAIN call.keywords
        indirect == [affected |-> TRUE, confidence |-> "medium"]
        surely(affected) == [affected |-> affected, confidence |-> "high"]
    IN  IF ~passes /\ call.indirect THEN indirect
        ELSE IF item.kind \in NeedsAbsence THEN surely(~passes)
        ELSE IF passes /\ item.kind = <<"sdk_enum_value_replaced">>
        THEN IF call.keywords[name] = Computed THEN indirect ELSE surely(call.keywords[name] = item.location[3])
        ELSE surely(passes)

(* _argument_verdict *)
ArgumentVerdict(item, site) ==
    LET verdicts == {CallVerdict(item, c) : c \in site.calls}
        affected == {v \in verdicts : v.affected}
    IN  IF item.member = <<>> \/ item.kind \notin NeedsArgument \cup NeedsAbsence
        THEN [affected |-> TRUE, confidence |-> "high"]
        ELSE IF ~site.located \/ site.calls = {} THEN [affected |-> TRUE, confidence |-> "medium"]
        ELSE IF affected # {} THEN [affected |-> TRUE, confidence |-> Surest({v.confidence : v \in affected})]
        ELSE [affected |-> FALSE, confidence |-> "high"]

LOCAL Matched(type, confidence, impact) ==
    {[type |-> type, confidence |-> confidence, impact |-> impact, ruledOut |-> FALSE]}

(* _sdk, _operation, _credential and match: no match, or one.              *)
LOCAL JudgedMatch(verdict, item, site, symbol, type) ==
    LET unconfirmed == item.kind \in NeedsArgument \cup NeedsAbsence /\ verdict.confidence # "high"
    IN  IF site.evidence \notin CallEvidence THEN {}
        ELSE IF site.token = symbol
        THEN IF verdict.affected
             THEN Matched(type, verdict.confidence, IF unconfirmed THEN "potential" ELSE "direct")
             ELSE {[type |-> type, confidence |-> verdict.confidence, impact |-> "direct", ruledOut |-> TRUE]}
        ELSE IF symbol \in site.within /\ item.member = <<>> THEN Matched("sdk_namespace", "medium", "direct") ELSE {}
SymbolMatch(item, site, symbol, type) == JudgedMatch(ArgumentVerdict(item, site), item, site, symbol, type)

MethodsAt(contract, template) == Cardinality({k \in DOMAIN contract.paths : k[2] = template})

LOCAL FirstMatch(candidates) ==
    LET found == {i \in DOMAIN candidates : candidates[i] # {}}
    IN  IF found = {} THEN {} ELSE candidates[CHOOSE i \in found : \A j \in found : i <= j]

OperationMatch(item, site, key, type, contract, symbols) ==
    IF site.evidence \in HttpEvidence
    THEN IF key[2] \notin site.paths THEN {}
         ELSE Matched(type, IF MethodsAt(contract, key[2]) > 1 THEN "medium" ELSE "high", "direct")
    ELSE IF key \notin DOMAIN symbols THEN {}
    ELSE FirstMatch([i \in DOMAIN symbols[key] |-> SymbolMatch(item, site, symbols[key][i], "sdk_via_operation")])

CredentialMatch(site) ==
    CASE site.evidence = "sdk_constructor" -> Matched("credential_config", "medium", "direct")
      [] site.evidence = "env_var_name" -> Matched("credential_config", "low", "potential")
      [] OTHER -> {}

UsesSchema(contract, schema) ==
    {k \in DOMAIN contract.paths :
       schema \in Closure(RequestRefs(contract.paths[k]) \cup ResponseRefs(contract.paths[k]), contract.components)}

OperationsUsingScheme(contract, scheme) ==
    {k \in DOMAIN contract.paths : \E r \in Security(contract.paths[k], contract) : scheme \in DOMAIN r}

(* Of the operations that use something, the first that matches *)
LOCAL AnyOperation(item, site, keys, type, contract, symbols) ==
    LET matches == {OperationMatch(item, site, k, type, contract, symbols) : k \in keys} \ {{}}
    IN  IF matches = {} THEN {}
        ELSE {[m EXCEPT !.confidence = IF @ = "high" THEN "medium" ELSE @] : m \in CHOOSE ms \in matches : TRUE}

LOCAL OrElse(matches, others) == IF matches # {} THEN matches ELSE others

Match(item, site, contract, symbols, structural) ==
    LET kind == item.subject[1] IN
    CASE kind = "package" ->
           IF structural \/ site.evidence = "env_var_name" THEN {} ELSE Matched("package_level", "low", "potential")
      [] kind = "sdk_symbol" -> SymbolMatch(item, site, item.subject[2], "sdk_symbol")
      [] kind = "module" ->
           IF site.evidence = "import" /\ item.subject[2] \in {site.token} \cup site.within
           THEN Matched("import_module", "high", "direct") ELSE {}
      [] kind = "operation" ->
           IF item.kind \in AuthKinds /\ CredentialMatch(site) # {} THEN CredentialMatch(site)
           ELSE OperationMatch(item, site, <<item.subject[2], item.subject[3]>>, "http_operation", contract, symbols)
      [] kind = "schema" ->
           AnyOperation(item, site, UsesSchema(contract, item.subject[2]), "schema_reference", contract, symbols)
      [] kind = "auth_global" ->
           IF \/ site.evidence = "sdk_call"
              \/ site.evidence \in HttpEvidence /\ (\E k \in DOMAIN contract.paths : k[2] \in site.paths)
           THEN Matched("auth", "medium", "direct") ELSE CredentialMatch(site)
      [] kind = "security_scheme" ->
           IF item.kind \notin AuthKinds THEN {}
           ELSE OrElse({[m EXCEPT !.confidence = "medium"] :
                          m \in AnyOperation(item, site, OperationsUsingScheme(contract, item.subject[2]), "auth",
                                             contract, symbols)},
                       CredentialMatch(site))

(* map_consumers, of one site *)
Affecting(items) == {i \in items : i.class # "non_breaking"}

LOCAL Concluded(found) ==
    LET matches == {m \in found : ~m.ruledOut}
        impact  == IF \E m \in matches : m.impact = "direct" THEN "direct" ELSE "potential"
    IN  IF matches # {}
        THEN [status |-> "affected", impact |-> impact,
              confidence |-> Surest({m.confidence : m \in {m \in matches : m.impact = impact}})]
        ELSE [status |-> IF found # {} THEN "ruled_out" ELSE "unaffected", impact |-> Unset, confidence |-> "low"]
Consumer(items, site, contract, symbols, structural) ==
    Concluded(UNION {Match(i, site, contract, symbols, structural) : i \in Affecting(items)})

(* _status of a repository: what was found of each dependency that matches *)
(* the change, and whether one of them is at the new version already.      *)
RepositoryStatus(matches, already, consumers) ==
    IF matches = 0 \/ already THEN "unaffected"
    ELSE IF \E c \in consumers : c.impact = "direct" THEN "affected"
    ELSE IF \E c \in consumers : c.impact = "potential" THEN "uncertain" ELSE "unaffected"

-----------------------------------------------------------------------------
(* compute_blast_radius: the direct users of a change, and their callers,  *)
(* depth by depth.  Symbols are numbers, the order they are sorted in.     *)
Decay(confidence, depth) == IF depth <= 1 /\ confidence # "low" THEN "medium" ELSE "low"

Callers(calls, symbol) == SetToSortSeq({c[1] : c \in {c \in calls : c[2] = symbol /\ c[1] # symbol}}, <)

Node(impact, confidence, depth) == [impact |-> impact, confidence |-> confidence, depth |-> depth]

LOCAL Visit(radius, caller, confidence, depth, most) ==
    IF caller \in DOMAIN radius.nodes THEN radius
    ELSE IF Cardinality(DOMAIN radius.nodes) >= most THEN [radius EXCEPT !.truncated = TRUE]
    ELSE [radius EXCEPT !.nodes = @ @@ (caller :> Node("transitive", confidence, depth)), !.next = Append(@, caller)]

Layer(radius, calls, depth, most) ==
    LET visited == FoldLeft(LAMBDA r, symbol :
                              FoldLeft(LAMBDA q, caller : Visit(q, caller, Decay(r.nodes[symbol].confidence, depth),
                                                                depth, most),
                                       r, Callers(calls, symbol)),
                            [radius EXCEPT !.next = <<>>], radius.next)
    IN  visited

(* direct and potential map the symbols a change affects to confidences *)
BlastRadius(direct, potential, calls, depth, most) ==
    LET start == [nodes |-> [s \in DOMAIN direct |-> Node("direct", direct[s], 0)],
                  next |-> SetToSortSeq(DOMAIN direct, <), truncated |-> FALSE]
        around == FoldLeft(LAMBDA r, d : Layer(r, calls, d, most), start, [d \in 1..depth |-> d])
    IN  [nodes |-> around.nodes @@ [s \in potential |-> Node("potential", "low", 0)], truncated |-> around.truncated]

LOCAL Reaching(calls, symbols, n) ==
    LET reached[k \in 0..n] ==
            IF k = 0 THEN symbols ELSE reached[k - 1] \cup {c[1] : c \in {c \in calls : c[2] \in reached[k - 1]}}
    IN  reached[n]

(* The radius holds every direct user and, unless it says it was cut, just *)
(* the code that calls one within the depth, each at its distance and no   *)
(* surer than what it calls; it is cut only when it is full.               *)
RadiusIsExact(direct, potential, calls, depth, most) ==
    \A radius \in {BlastRadius(direct, potential, calls, depth, most)} :
    LET at(d) == {s \in DOMAIN radius.nodes : radius.nodes[s].depth <= d /\ radius.nodes[s].impact # "potential"}
        transitive == at(depth) \ DOMAIN direct
    IN  /\ DOMAIN direct \cup potential \subseteq DOMAIN radius.nodes
        /\ \A d \in 0..depth : at(d) \subseteq Reaching(calls, DOMAIN direct, d)
        /\ ~radius.truncated => \A d \in 0..depth : at(d) = Reaching(calls, DOMAIN direct, d)
        /\ radius.truncated => Cardinality(DOMAIN direct \cup transitive) >= most
        /\ transitive # {} => Cardinality(DOMAIN direct \cup transitive) <= most
        /\ \A s \in transitive : radius.nodes[s].confidence = "high" => FALSE

(* A call written for the old surface that the new one does not take is    *)
(* found, however the change is reported, unless the calls at its site are *)
(* ones it still takes.                                                    *)
LOCAL Site(evidence, token, within, paths, located, calls) ==
    [evidence |-> evidence, token |-> token, within |-> within, paths |-> paths, located |-> located, calls |-> calls]

BrokenCallsAreFound(old, new, hints) ==
    LET items == SurfaceDiff(old, new, hints)
        found(consumer, located) == consumer.status = "affected" /\ (located => consumer.impact = "direct")
    IN  \A name \in DOMAIN old.symbols : \A call \in Calls(old.symbols[name]) :
          (name \notin DOMAIN new.symbols \/ ~Callable(call, new.symbols[name])) =>
            \A located \in BOOLEAN :
              found(Consumer(items, Site("sdk_call", name, {}, {}, located,
                                         {[keywords |-> [p \in DOMAIN call |-> call[p].v], indirect |-> FALSE]}),
                             [paths |-> <<>>], <<>>, TRUE), located)

(* An operation that no longer serves every client of the old contract is  *)
(* found wherever its path is named in the code.                           *)
BrokenRequestsAreFound(from, to, hints) ==
    LET items == OpenAPIDiff(from, to, hints) IN
    \A key \in DOMAIN from.paths :
      (key \notin DOMAIN to.paths \/ ~StillServed(from, to, key)) =>
        Consumer(items, Site("http_endpoint", Unset, {}, {key[2]}, FALSE, {}), from, <<>>, TRUE).status = "affected"

-----------------------------------------------------------------------------
(* An observation: nothing new, a version (0: it cannot be parsed), or a   *)
(* contract, which may be too large to keep and come without a version.    *)
(* A change is the pair of what it leads from and to.                      *)
NoVersion == 0
NoContract == 0
FreshCursor == [version |-> NoVersion, contract |-> NoContract, kept |-> FALSE, emitted |-> <<>>]

(* _remember *)
Remembered(emitted, change, most) ==
    LET all == Append(SelectSeq(emitted, LAMBDA c : c # change), change)
    IN  IF Len(all) > most THEN SubSeq(all, Len(all) - most + 1, Len(all)) ELSE all

Quiet(cursor) == [cursor |-> cursor, change |-> <<>>]

(* _emit *)
Emit(cursor, change, most) ==
    IF Contains(cursor.emitted, change) THEN Quiet(cursor)
    ELSE [cursor |-> [cursor EXCEPT !.emitted = Remembered(@, change, most)], change |-> change]

(* _detect_version *)
DetectVersion(cursor, version, most) ==
    IF version = NoVersion THEN Quiet(cursor)
    ELSE IF cursor.version = NoVersion THEN Quiet([cursor EXCEPT !.version = version])
    ELSE IF version <= cursor.version THEN Quiet(cursor)
    ELSE Emit([cursor EXCEPT !.version = version], <<cursor.version, version>>, most)

(* _detect_contract *)
DetectContract(cursor, contract, keep, most) ==
    LET seen == [cursor EXCEPT !.contract = contract, !.kept = keep] IN
    IF contract = NoContract THEN Quiet(cursor)
    ELSE IF cursor.contract = NoContract THEN Quiet(seen)
    ELSE IF cursor.contract = contract THEN Quiet(cursor)
    ELSE IF ~cursor.kept THEN Quiet(seen)
    ELSE Emit(seen, <<cursor.contract, contract>>, most)

(* detect_change of one observation after another: the cursor, and what    *)
(* each observation reported.                                              *)
Detect(cursor, seen, most) ==
    CASE seen.kind = "same" -> Quiet(cursor)
      [] seen.kind = "version" -> DetectVersion(cursor, seen.version, most)
      [] seen.kind = "contract" -> DetectContract(cursor, seen.contract, seen.keep, most)

Reports(observations, most) ==
    FoldLeft(LAMBDA acc, seen :
               LET outcome == Detect(acc.cursor, seen, most)
               IN  [cursor |-> outcome.cursor, changes |-> Append(acc.changes, outcome.change)],
             [cursor |-> FreshCursor, changes |-> <<>>], observations).changes

-----------------------------------------------------------------------------
(* What the law says of it. *)
LOCAL Highest(observations, i) ==
    {observations[j].version : j \in {j \in 1..i : observations[j].kind = "version"}}

(* A reported change is new: it leads from something that was seen, and a  *)
(* contract that was kept; a version is above all seen before; and it was  *)
(* not among the last ones reported.  And a version above all seen before  *)
(* is never passed over.                                                   *)
ChangesAreTold(observations, most) ==
    \A changes \in {Reports(observations, most)} :
    /\ \A i \in DOMAIN changes : changes[i] # <<>> =>
         LET before == SelectSeq(SubSeq(changes, 1, i - 1), LAMBDA c : c # <<>>)
             last == SubSeq(before, IF Len(before) > most THEN Len(before) - most + 1 ELSE 1, Len(before))
             kept == {j \in 1..(i - 1) : observations[j].kind = "contract" /\ observations[j].keep}
             from == IF observations[i].kind = "version" THEN Highest(observations, i - 1)
                     ELSE {observations[j].contract : j \in kept}
         IN  /\ changes[i][1] # changes[i][2] /\ changes[i][1] \in from
             /\ ~Contains(last, changes[i])
             /\ observations[i].kind = "version" => \A v \in from : v < changes[i][2]
    /\ \A i \in DOMAIN observations :
         LET earlier == Highest(observations, i - 1) \ {NoVersion}  v == observations[i].version IN
         observations[i].kind = "version" /\ earlier # {} /\ (\A w \in earlier : w < v) =>
           changes[i] # <<>> /\ changes[i][2] = v
=============================================================================
