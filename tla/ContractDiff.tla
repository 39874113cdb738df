---------------------------- MODULE ContractDiff ----------------------------
(***************************************************************************)
(* What changed between two revisions of an external contract, and how     *)
(* grave it is: OpenAPI documents (patchfrog.upstream.openapi_diff), SDK   *)
(* surfaces (sdk_surface) and package versions (package_version), with the *)
(* classification of the whole change (classify).                          *)
(*                                                                         *)
(* A contract is what patchfrog.dependencies.openapi normalizes it to.     *)
(* Every schema is a mapping here.  A location is a sequence of strings;   *)
(* old and new representations, explanations and evidence are left out.    *)
(***************************************************************************)
EXTENDS Integers, Sequences, SequencesExt, FiniteSets

CONSTANT SchemaDepth        \* _MAX_SCHEMA_DIFF_DEPTH

Unset == "none"

Compatibility == {"non_breaking", "unknown", "potentially_breaking", "breaking"}

CompatRank(c) ==
    CASE c = "non_breaking" -> 0 [] c = "unknown" -> 1
      [] c = "potentially_breaking" -> 2 [] c = "breaking" -> 3

MostSevere(classes) ==
    IF classes = {} THEN "non_breaking"
    ELSE CHOOSE c \in classes : \A d \in classes : CompatRank(d) <= CompatRank(c)

-----------------------------------------------------------------------------
(* Schemas. *)
PlainSchema ==
    [ref |-> Unset, truncated |-> FALSE, type |-> Unset, enum |-> {}, nullable |-> FALSE, constraint |-> Unset,
     composition |-> Unset, properties |-> <<>>, required |-> {}, items |-> <<>>]

Object(properties, required) ==
    [PlainSchema EXCEPT !.type = "object", !.properties = properties, !.required = required]

LOCAL NB == "non_breaking"
LOCAL PB == "potentially_breaking"
LOCAL BR == "breaking"
LOCAL UNK == "unknown"

(* _VERDICT: of a change where clients write, and where they read *)
Verdict(change) ==
    CASE change \in {"field_added_required", "field_became_required", "enum_narrowed", "narrowed_numeric"} -> <<BR, NB>>
      [] change = "field_added_optional" -> <<NB, NB>>
      [] change = "field_removed" -> <<PB, BR>>
      [] change \in {"field_became_optional", "enum_expanded", "nullable_added"} -> <<NB, PB>>
      [] change = "type" -> <<BR, BR>>
      [] change = "widened_numeric" -> <<NB, BR>>
      [] change \in {"nullable_removed", "constraint"} -> <<PB, NB>>
      [] change = "ref" -> <<PB, PB>>
      [] change \in {"composition", "truncated"} -> <<UNK, UNK>>

LOCAL InDirection(verdict, direction) ==
    CASE direction = "request"  -> verdict[1]
      [] direction = "response" -> verdict[2]
      [] direction = "both"     -> MostSevere(ToSet(verdict))

VerdictIn(change, direction) == InDirection(Verdict(change), direction)

(* The suffix of an item's kind *)
Suffix(change) ==
    IF change \in {"widened_numeric", "narrowed_numeric", "type"} THEN "type"
    ELSE IF change \in {"nullable_added", "nullable_removed", "constraint", "composition", "ref", "truncated"}
    THEN "schema" ELSE change

(* An item; the kind of one about a schema also says where schemas are used *)
DiffItem(kind, location, class, member) ==
    [kind |-> kind, location |-> location, class |-> class, member |-> member]
Item(kind, location, class, member) == DiffItem(<<kind>>, location, class, member)

(* Items about an operation, a schema, a symbol ... *)
About(subject, items) == {i @@ [subject |-> subject] : i \in items}

(* Where a schema stands: the kinds its items have, the direction it is    *)
(* used in, its location and member path, how deep it is, and the schemas  *)
(* either revision's references name.                                      *)
Place(context, direction, location, old, new) ==
    [context |-> context, direction |-> direction, location |-> location, member |-> <<>>, depth |-> 0,
     old |-> old.components, new |-> new.components]

SchemaItem(change, at, tail) ==
    DiffItem(<<at.context, Suffix(change)>>, at.location \o tail, VerdictIn(change, at.direction), at.member)

At(place, name) ==
    [place EXCEPT !.location = @ \o <<"properties", name>>, !.member = Append(@, name)]
Deeper(place) == [place EXCEPT !.depth = @ + 1]

LOCAL When(condition, items) == IF condition THEN items ELSE {}

TypeItems(old, new, at) ==
    LET numeric == {old.type, new.type} \subseteq {"integer", "number"}
        change  == IF ~numeric THEN "type" ELSE IF new.type = "number" THEN "widened_numeric" ELSE "narrowed_numeric"
    IN  {SchemaItem(change, at, <<>>)}

EnumItems(old, new, at) ==
    When(new # {} /\ (old = {} \/ ~(old \subseteq new)), {SchemaItem("enum_narrowed", at, <<"enum">>)})
      \cup When(old # {} /\ (new = {} \/ ~(new \subseteq old)), {SchemaItem("enum_expanded", at, <<"enum">>)})

NullableItems(old, new, at) ==
    When(old # new, {SchemaItem(IF new THEN "nullable_added" ELSE "nullable_removed", at, <<"nullable">>)})

RECURSIVE SchemaItems(_, _, _)
PropertyItems(old, new, at) ==
    UNION {LET where == At(at, name)
               isRequired == name \in new.required
           IN  IF name \notin DOMAIN old.properties
               THEN {SchemaItem(IF isRequired THEN "field_added_required" ELSE "field_added_optional", where, <<>>)}
               ELSE IF name \notin DOMAIN new.properties THEN {SchemaItem("field_removed", where, <<>>)}
               ELSE When(name \notin old.required /\ isRequired, {SchemaItem("field_became_required", where, <<>>)})
                      \cup When(name \in old.required /\ ~isRequired, {SchemaItem("field_became_optional", where, <<>>)})
                      \cup SchemaItems(old.properties[name], new.properties[name], Deeper(where)) :
           name \in DOMAIN old.properties \cup DOMAIN new.properties}

(* schema *)
SchemaItems(old, new, at) ==
    LET items(s) == IF s.items = <<>> THEN PlainSchema ELSE s.items[1] IN
    IF old = new THEN {}
    ELSE IF at.depth > SchemaDepth \/ old.truncated \/ new.truncated THEN {SchemaItem("truncated", at, <<>>)}
    ELSE IF old.ref # Unset \/ new.ref # Unset
    THEN IF old.ref = new.ref THEN {}
         ELSE IF old.ref \in DOMAIN at.old /\ new.ref \in DOMAIN at.new
         THEN SchemaItems(at.old[old.ref], at.new[new.ref], Deeper(at))
         ELSE {SchemaItem("ref", at, <<>>)}
    ELSE IF old.type # new.type THEN TypeItems(old, new, at)
    ELSE EnumItems(old.enum, new.enum, at)
           \cup NullableItems(old.nullable, new.nullable, at)
           \cup When(old.constraint # new.constraint, {SchemaItem("constraint", at, <<>>)})
           \cup When(old.composition # new.composition, {SchemaItem("composition", at, <<>>)})
           \cup PropertyItems(old, new, at)
           \cup SchemaItems(items(old), items(new), Deeper([at EXCEPT !.location = Append(@, "items")]))

-----------------------------------------------------------------------------
(* Operations: a contract's paths map a method and a path template to one. *)
(* ident: a path parameter is known by its place in the path *)
Ident(parameter, operation) ==
    IF parameter.in = "path" /\ Contains(operation.placeholders, parameter.name)
    THEN <<"path", ToString(CHOOSE i \in DOMAIN operation.placeholders : operation.placeholders[i] = parameter.name)>>
    ELSE <<parameter.in, parameter.name>>

ByIdent(operation) ==
    [id \in {Ident(p, operation) : p \in operation.parameters} |->
       CHOOSE p \in operation.parameters : Ident(p, operation) = id]

(* Hints map what they rename, or replace, to its new name.                *)
NoHints == [endpoints |-> <<>>, parameters |-> <<>>, body |-> <<>>]

RenamedTo(key, old, new, hints) ==
    [id \in {id \in DOMAIN old \ DOMAIN new :
               id[1] # "ref" /\ <<key, id>> \in DOMAIN hints.parameters
               /\ <<id[1], hints.parameters[<<key, id>>]>> \in DOMAIN new} |->
       <<id[1], hints.parameters[<<key, id>>]>>]

ParameterPair(old, new, at) ==
    When(~old.required /\ new.required, {Item("parameter_became_required", at.location, BR, at.member)})
      \cup When(old.required /\ ~new.required, {Item("parameter_became_optional", at.location, NB, at.member)})
      \cup SchemaItems(old.schema, new.schema, at)

ParameterItems(key, base, old, new, from, to, hints) ==
    LET was == ByIdent(old)  is == ByIdent(new)
        renamed == RenamedTo(key, was, is, hints)
        name(id) == IF id \in DOMAIN was THEN was[id].name ELSE is[id].name
        place(id) == [Place("parameter", "request", base \o <<"parameters">> \o id, from, to) EXCEPT !.member = <<name(id)>>]
        item(kind, id, class) == {Item(kind, place(id).location, class, <<name(id)>>)}
        one(id) ==
            IF id \in DOMAIN renamed \cup (DOMAIN was \cap DOMAIN is)
            THEN When(id \in DOMAIN renamed, item("parameter_renamed", id, BR))
                   \cup ParameterPair(was[id], is[IF id \in DOMAIN renamed THEN renamed[id] ELSE id], place(id))
            ELSE IF id \in Range(renamed) THEN {}
            ELSE IF id \notin DOMAIN was
            THEN CASE id[1] = "ref" -> item("parameter_schema_changed", id, UNK)
                   [] id[1] # "ref" /\ is[id].required -> item("parameter_added_required", id, BR)
                   [] OTHER -> item("parameter_added_optional", id, NB)
            ELSE IF id[1] = "ref" THEN item("parameter_schema_changed", id, UNK)
            ELSE item("parameter_removed", id, PB)
    IN  UNION {one(id) : id \in DOMAIN was \cup DOMAIN is}

(* _content, of a request or of a response *)
ContentItems(old, new, at) ==
    UNION {LET where == [at EXCEPT !.location = @ \o <<"content", media>>] IN
           IF media \notin DOMAIN old THEN {Item("media_type_added", where.location, NB, <<>>)}
           ELSE IF media \notin DOMAIN new THEN {Item("media_type_removed", where.location, BR, <<>>)}
           ELSE SchemaItems(old[media], new[media], where) :
           media \in DOMAIN old \cup DOMAIN new}

(* _body_field_renames: a field removed and one added, by a hint, are one  *)
(* field renamed.                                                          *)
WithFieldRenames(items, key, hints) ==
    LET field(suffixes, member) ==
            {i \in items : i.kind \in {<<"request", s>> : s \in suffixes} /\ i.member = member}
        removed(r) == field({"field_removed"}, r[1])
        added(r)   == field({"field_added_required", "field_added_optional"}, r[2])
        applied == {r \in {<<h[2], hints.body[h]>> : h \in {h \in DOMAIN hints.body : h[1] = key}} :
                      removed(r) # {} /\ added(r) # {}}
    IN  (items \ UNION {removed(r) \cup added(r) : r \in applied})
          \cup {Item("request_field_renamed", (CHOOSE i \in removed(r) : TRUE).location, BR, r[1]) : r \in applied}

BodyItems(key, base, old, new, from, to, hints) ==
    LET at == Place("request", "request", Append(base, "request_body"), from, to)
        item(kind, class) == {Item(kind, at.location, class, <<>>)}
    IN  IF old = new THEN {}
        ELSE IF old = <<>>
        THEN IF new[1].required THEN item("request_body_added_required", BR) ELSE item("request_body_added_optional", NB)
        ELSE IF new = <<>> THEN item("request_body_removed", PB)
        ELSE IF old[1].ref # Unset \/ new[1].ref # Unset THEN item("request_schema_changed", UNK)
        ELSE When(~old[1].required /\ new[1].required, item("request_body_became_required", BR))
               \cup When(old[1].required /\ ~new[1].required, item("request_body_became_optional", NB))
               \cup WithFieldRenames(ContentItems(old[1].content, new[1].content, at), key, hints)

Success(status) == status \in {"200", "201"}

ResponseItems(base, old, new, from, to) ==
    UNION {LET at == Place("response", "response", base \o <<"responses", status>>, from, to)
               item(kind, class) == {Item(kind, at.location, class, <<>>)}
           IN  IF status \notin DOMAIN new THEN item("response_status_removed", IF Success(status) THEN BR ELSE PB)
               ELSE IF status \notin DOMAIN old THEN item("response_status_added", NB)
               ELSE IF old[status].ref # Unset \/ new[status].ref # Unset
               THEN When(old[status] # new[status], item("response_schema_changed", UNK))
               ELSE ContentItems(old[status].content, new[status].content, at) :
           status \in DOMAIN old \cup DOMAIN new}

(* A requirement maps schemes to scopes; who meets one of several may call *)
Meets(have, need) == DOMAIN need \subseteq DOMAIN have /\ \A s \in DOMAIN need : need[s] \subseteq have[s]

LOCAL Scopes(requirements) == UNION {{<<s, x>> : x \in r[s]} : <<r, s>> \in
    {<<r, s>> \in requirements \X UNION {DOMAIN r : r \in requirements} : s \in DOMAIN r}}

SecurityItems(old, new, location) ==
    LET item(kind, class) == {Item(kind, location, class, <<>>)}
        unsatisfied == {have \in old : ~ \E need \in new : Meets(have, need)}
    IN  IF old = new THEN {}
        ELSE IF old = {} THEN item("auth_requirement_added", BR)
        ELSE IF new = {} THEN item("auth_requirement_removed", NB)
        ELSE IF unsatisfied = {}
        THEN When(~(Scopes(old) \subseteq Scopes(new)), item("auth_scope_removed", NB))
        ELSE IF \E have \in unsatisfied, need \in new : DOMAIN have = DOMAIN need THEN item("auth_scope_added", BR)
        ELSE item("auth_scheme_changed", BR)

Security(operation, contract) ==
    IF operation.security = <<>> THEN contract.security ELSE operation.security[1]

(* operation: what an old operation, and the one it is now, differ in *)
OperationItems(key, now, from, to, hints) ==
    LET old == from.paths[key]  new == to.paths[now]  base == <<"paths", now[2], now[1]>> IN
    When(~old.deprecated /\ new.deprecated, {Item("operation_deprecated", base, NB, <<>>)})
      \cup ParameterItems(key, base, old, new, from, to, hints)
      \cup BodyItems(key, base, old.body, new.body, from, to, hints)
      \cup ResponseItems(base, old.responses, new.responses, from, to)
      \cup When(old.security # <<>> \/ new.security # <<>>,
                SecurityItems(Security(old, from), Security(new, to), Append(base, "security")))

(* _replacement: by a hint, or else by the operation id *)
Replacements(key, from, to, hints) ==
    LET sameId == {k \in DOMAIN to.paths : k[1] = key[1] /\ from.paths[key].id # Unset
                                           /\ to.paths[k].id = from.paths[key].id}
    IN  IF key \in DOMAIN hints.endpoints /\ hints.endpoints[key] \in DOMAIN to.paths THEN {hints.endpoints[key]}
        ELSE sameId

Replacement(key, from, to, hints) ==
    LET found == Replacements(key, from, to, hints) IN IF found = {} THEN <<>> ELSE CHOOSE k \in found : TRUE

Gone(from, to) == DOMAIN from.paths \ DOMAIN to.paths

(* operations *)
PathItems(from, to, hints) ==
    LET moved(key) == Replacement(key, from, to, hints)
        templates(contract) == {k[2] : k \in DOMAIN contract.paths}
        one(key) ==
            LET location == <<"paths", key[2], key[1]>>
                now == IF key \in DOMAIN to.paths THEN key ELSE moved(key)
            IN
            IF now # <<>>
            THEN When(now # key, {Item("endpoint_path_changed", location, BR, <<>>)})
                   \cup OperationItems(key, now, from, to, hints)
            ELSE {Item(IF key[2] \in templates(to) THEN "operation_removed" ELSE "endpoint_removed", location, BR, <<>>)}
        added(key) == {Item(IF key[2] \in templates(from) THEN "operation_added" ELSE "endpoint_added",
                            <<"paths", key[2], key[1]>>, NB, <<>>)}
    IN  UNION {About(<<"operation", key[1], key[2]>>, one(key)) : key \in DOMAIN from.paths}
          \cup UNION {About(<<"operation", key[1], key[2]>>, added(key)) :
                        key \in (DOMAIN to.paths \ DOMAIN from.paths) \ {moved(k) : k \in Gone(from, to)}}

-----------------------------------------------------------------------------
(* The rest of a contract, and the whole of it. *)
RECURSIVE Refs(_)
Refs(schema) ==
    ({schema.ref} \ {Unset})
      \cup UNION {Refs(schema.properties[p]) : p \in DOMAIN schema.properties}
      \cup UNION {Refs(schema.items[i]) : i \in DOMAIN schema.items}

RECURSIVE Closure(_, _)
Closure(names, components) ==
    LET more == names \cup UNION {Refs(components[n]) : n \in names \cap DOMAIN components}
    IN  IF more = names THEN names ELSE Closure(more, components)

LOCAL InContent(content) == UNION {Refs(content[m]) : m \in DOMAIN content}

RequestRefs(operation) ==
    UNION {Refs(p.schema) : p \in operation.parameters}
      \cup UNION {InContent(operation.body[i].content) : i \in DOMAIN operation.body}
ResponseRefs(operation) == UNION {InContent(operation.responses[s].content) : s \in DOMAIN operation.responses}

(* component_directions *)
ComponentDirection(name, contract) ==
    LET used(refs(_)) == \E k \in DOMAIN contract.paths :
                            name \in Closure(refs(contract.paths[k]), contract.components)
    IN  IF used(RequestRefs) /\ ~used(ResponseRefs) THEN "request"
        ELSE IF used(ResponseRefs) /\ ~used(RequestRefs) THEN "response" ELSE "both"

ComponentItems(from, to) ==
    LET direction(name) ==
            LET d == ComponentDirection(name, from) IN IF ComponentDirection(name, to) = d THEN d ELSE "both"
        referenced(name) == \E k \in DOMAIN to.paths :
                               name \in RequestRefs(to.paths[k]) \cup ResponseRefs(to.paths[k])
        item(kind, name, class) == {Item(kind, <<"components", name>>, class, <<>>)}
        one(name) ==
            IF name \notin DOMAIN to.components
            THEN item("schema_removed", name, IF referenced(name) THEN UNK ELSE PB)
            ELSE IF name \notin DOMAIN from.components THEN item("schema_added", name, NB)
            ELSE SchemaItems(from.components[name], to.components[name],
                             Place("schema", direction(name), <<"components", name>>, from, to))
    IN  UNION {About(<<"schema", name>>, one(name)) : name \in DOMAIN from.components \cup DOMAIN to.components}

UsesScheme(contract, scheme) ==
    \E k \in DOMAIN contract.paths : \E r \in Security(contract.paths[k], contract) : scheme \in DOMAIN r

SchemeItems(from, to) ==
    LET item(kind, name, class) == {Item(kind, <<"security_schemes", name>>, class, <<>>)}
        one(name) ==
            IF name \notin DOMAIN to.schemes
            THEN item("security_scheme_removed", name, IF UsesScheme(from, name) THEN BR ELSE NB)
            ELSE IF name \notin DOMAIN from.schemes THEN item("security_scheme_added", name, NB)
            ELSE When(from.schemes[name] # to.schemes[name], item("security_scheme_changed", name, BR))
    IN  UNION {About(<<"security_scheme", name>>, one(name)) : name \in DOMAIN from.schemes \cup DOMAIN to.schemes}

(* Of items of one kind at one location the gravest stays. *)
Gravest(items) ==
    {i \in items : \A j \in items :
       j.kind = i.kind /\ j.location = i.location => CompatRank(j.class) <= CompatRank(i.class)}

(* diff_openapi *)
OpenAPIDiff(from, to, hints) ==
    Gravest(PathItems(from, to, hints)
              \cup About(<<"auth_global">>, SecurityItems(from.security, to.security, <<"security">>))
              \cup SchemeItems(from, to) \cup ComponentItems(from, to))

-----------------------------------------------------------------------------
(* SDK surfaces: symbols, with their parameters and what they return, and  *)
(* modules.  Hints map a symbol, <<symbol, parameter>>, <<symbol, field>>, *)
(* <<symbol, parameter, value>> or module to its new name.                 *)
NoRenames == [symbols |-> <<>>, parameters |-> <<>>, returns |-> <<>>, enums |-> <<>>, modules |-> <<>>]

LOCAL Found(hints, key, among) == key \in DOMAIN hints /\ hints[key] \in among

ArgumentPair(symbol, name, old, new, hints) ==
    LET item(kind, class) == {Item(kind, <<symbol, name>>, class, <<name>>)}
        removed  == old.enum \ new.enum
        replaced == {v \in removed : Found(hints.enums, <<symbol, name, v>>, new.enum)}
    IN  When(~old.required /\ new.required, item("sdk_parameter_became_required", BR))
          \cup When(old.required /\ ~new.required, item("sdk_parameter_became_optional", NB))
          \cup When(old.type # new.type /\ Unset \notin {old.type, new.type}, item("sdk_parameter_type_changed", PB))
          \cup When(old.enum # {} /\ new.enum # {},
                    {Item("sdk_enum_value_replaced", <<symbol, name, v>>, BR, <<name>>) : v \in replaced}
                      \cup When(removed # replaced, item("sdk_enum_narrowed", BR)))
          \cup When(old.enum = {} /\ new.enum # {}, item("sdk_enum_narrowed", BR))

(* _symbol_pair: what a symbol was, and what it is under a name of then *)
SymbolItems(symbol, old, new, hints) ==
    LET was == old.params  is == new.params
        renamed == [p \in {p \in DOMAIN was \ DOMAIN is : Found(hints.parameters, <<symbol, p>>, DOMAIN is)} |->
                      hints.parameters[<<symbol, p>>]]
        item(kind, p, class) == {Item(kind, <<symbol, p>>, class, <<p>>)}
        one(p) ==
            IF p \in DOMAIN renamed
            THEN item("sdk_parameter_renamed", p, BR) \cup ArgumentPair(symbol, p, was[p], is[renamed[p]], hints)
            ELSE IF p \in Range(renamed) THEN {}
            ELSE IF p \notin DOMAIN was
            THEN IF is[p].required THEN item("sdk_parameter_added_required", p, BR)
                 ELSE item("sdk_parameter_added_optional", p, NB)
            ELSE IF p \notin DOMAIN is THEN item("sdk_parameter_removed", p, BR)
            ELSE ArgumentPair(symbol, p, was[p], is[p], hints)
        result(f) ==
            IF f \in DOMAIN new.returns
            THEN When(old.returns[f] # new.returns[f], item("sdk_return_shape_changed", f, PB))
            ELSE IF Found(hints.returns, <<symbol, f>>, DOMAIN new.returns) THEN item("sdk_return_field_renamed", f, BR)
            ELSE item("sdk_return_shape_changed", f, BR)
    IN  UNION {one(p) : p \in DOMAIN was \cup DOMAIN is} \cup UNION {result(f) : f \in DOMAIN old.returns}

(* diff_surfaces *)
SurfaceDiff(old, new, hints) ==
    LET target(name) == hints.symbols[name]
        renamed == {n \in DOMAIN old.symbols \ DOMAIN new.symbols : Found(hints.symbols, n, DOMAIN new.symbols)}
        item(kind, name, class) == {Item(kind, <<name>>, class, <<>>)}
        one(name) ==
            IF name \in DOMAIN new.symbols THEN SymbolItems(name, old.symbols[name], new.symbols[name], hints)
            ELSE IF name \in renamed
            THEN item("sdk_symbol_renamed", name, BR)
                   \cup SymbolItems(name, old.symbols[name], new.symbols[target(name)], hints)
            ELSE item("sdk_symbol_removed", name, BR)
        module(m) == item(IF Found(hints.modules, m, new.modules) THEN "sdk_module_moved" ELSE "sdk_module_removed", m, BR)
    IN  UNION {About(<<"sdk_symbol", name>>, one(name)) : name \in DOMAIN old.symbols}
          \cup UNION {About(<<"sdk_symbol", n>>, item("sdk_symbol_added", n, NB)) :
                        n \in (DOMAIN new.symbols \ DOMAIN old.symbols) \ {target(n) : n \in renamed}}
          \cup UNION {About(<<"module", m>>, module(m)) : m \in old.modules \ new.modules}

-----------------------------------------------------------------------------
(* Package versions: <<>>, or a major, a minor, a patch and a prerelease.  *)
Below(u, v, n) == \E i \in 1..n : u[i] < v[i] /\ \A j \in 1..(i - 1) : u[j] = v[j]

(* version_diff_items *)
VersionItems(old, new) ==
    LET item(kind, class) == About(<<"package">>, {Item(kind, <<"version">>, class, <<>>)}) IN
    IF old = <<>> \/ new = <<>> THEN item("package_version_unparseable", UNK)
    ELSE IF Below(new, old, 3) THEN item("package_downgrade", PB)
    ELSE IF old[1] < new[1] THEN item("package_major_bump", PB)
    ELSE IF old[2] < new[2] THEN item("package_minor_bump", IF old[1] = 0 THEN PB ELSE NB)
    ELSE IF new[4] # Unset /\ new[4] # old[4] THEN item("package_prerelease_change", PB)
    ELSE When(Below(old, new, 3), item("package_patch_bump", NB))

(* classify *)
Risk(items) ==
    LET class == MostSevere({i.class : i \in items}) IN
    IF class = BR THEN "breaking"
    ELSE IF class \in {PB, UNK} THEN "review_required"
    ELSE IF {i.kind : i \in items} \subseteq {<<"package_patch_bump">>} THEN "safe" ELSE "low_risk"

-----------------------------------------------------------------------------
(* What contracts mean: the values a schema describes, among these.        *)
Scalar(type, value) == [shape |-> type, v |-> [value |-> value]]
Scalars == {Scalar("null", Unset), Scalar("string", "a"), Scalar("string", "b"),
            Scalar("integer", "one"), Scalar("number", "half")}
LOCAL Fields == {"x", "y"}
Values ==
    Scalars \cup {[shape |-> "object", v |-> f] : f \in UNION {[fs -> Scalars] : fs \in SUBSET Fields}}
            \cup {[shape |-> "array", v |-> a] : a \in {<<>>} \cup [{"first"} -> Scalars]}

RECURSIVE Conforms(_, _, _)
Conforms(value, schema, components) ==
    IF schema.ref # Unset
    THEN schema.ref \notin DOMAIN components \/ Conforms(value, components[schema.ref], components)
    ELSE \/ value.shape = "null" /\ schema.nullable
         \/ /\ schema.type \in {Unset, value.shape} \cup (IF value.shape = "integer" THEN {"number"} ELSE {})
            /\ (schema.enum # {} /\ value.shape \in {"string", "integer", "number"}) => value.v.value \in schema.enum
            /\ schema.composition # Unset => value # Scalar("string", "b")     \* a composition that excludes it
            /\ value.shape = "object" =>
                 /\ schema.required \subseteq DOMAIN value.v
                 /\ \A f \in DOMAIN value.v \cap DOMAIN schema.properties :
                      Conforms(value.v[f], schema.properties[f], components)
            /\ value.shape = "array" =>
                 \A i \in DOMAIN value.v, j \in DOMAIN schema.items :
                   Conforms(value.v[i], schema.items[j], components)

(* The values a party writes: those its own contract describes, with no    *)
(* fields but the ones it names.                                           *)
RECURSIVE Resolved(_, _)
Resolved(schema, components) ==
    IF schema.ref \in DOMAIN components THEN Resolved(components[schema.ref], components) ELSE schema

Written(schema, components) ==
    {v \in Values : /\ Conforms(v, schema, components)
                    /\ v.shape = "object" => DOMAIN v.v \subseteq DOMAIN Resolved(schema, components).properties}

Understood(writer, writers, reader, readers) ==
    \A v \in Written(writer, writers) : Conforms(v, reader, readers)

LOCAL Allowed(credentials, requirements) == requirements = {} \/ \E r \in requirements : Meets(credentials, r)

LOCAL BodyUnderstood(from, to, old, new) ==
    IF old.body = <<>> THEN new.body = <<>> \/ ~new.body[1].required
    ELSE /\ new.body # <<>>
         /\ new.body[1].required => old.body[1].required
         /\ \A media \in DOMAIN old.body[1].content :
              /\ media \in DOMAIN new.body[1].content
              /\ Understood(old.body[1].content[media], from.components, new.body[1].content[media], to.components)

LOCAL ParametersUnderstood(from, to, old, new) ==
    LET was == ByIdent(old)  is == ByIdent(new) IN
    /\ \A id \in DOMAIN was : id \in DOMAIN is /\ Understood(was[id].schema, from.components, is[id].schema, to.components)
    /\ \A id \in DOMAIN is : is[id].required => id \in DOMAIN was /\ was[id].required

LOCAL ResponsesUnderstood(from, to, old, new) ==
    \A status \in DOMAIN old.responses :
      /\ status \in DOMAIN new.responses
      /\ \A media \in DOMAIN old.responses[status].content :
           /\ media \in DOMAIN new.responses[status].content
           /\ Understood(new.responses[status].content[media], to.components,
                         old.responses[status].content[media], from.components)

(* An operation takes every request made for the old one, with every       *)
(* credential that was enough, and answers what the client can read.       *)
StillServed(from, to, key) ==
    LET old == from.paths[key]  new == to.paths[key] IN
    /\ ParametersUnderstood(from, to, old, new)
    /\ BodyUnderstood(from, to, old, new)
    /\ ResponsesUnderstood(from, to, old, new)
    /\ \A have \in UNION {[schemes -> SUBSET {"read", "write"}] : schemes \in SUBSET {"key", "oauth"}} :
         Allowed(have, Security(old, from)) => Allowed(have, Security(new, to))

(* A contract all of whose changes are non-breaking serves the clients of  *)
(* the old one.                                                            *)
NonBreakingServesClients(from, to, hints) ==
    Risk(OpenAPIDiff(from, to, hints)) \in {"safe", "low_risk"} =>
      \A key \in DOMAIN from.paths : key \in DOMAIN to.paths /\ StillServed(from, to, key)

(* The calls of a symbol: arguments by name, each with a type and a value. *)
LOCAL Takes(parameter, argument) ==
    /\ parameter.type = Unset \/ argument.type = Unset \/ parameter.type = argument.type
    /\ parameter.enum = {} \/ argument.v \in parameter.enum
Calls(symbol) ==
    LET argument(p) == {[type |-> symbol.params[p].type, v |-> v] :
                          v \in IF symbol.params[p].enum = {} THEN {"a", "b"} ELSE symbol.params[p].enum}
    IN  UNION {{call \in [ps -> UNION {argument(p) : p \in ps}] : \A p \in ps : call[p] \in argument(p)} :
                 ps \in {ps \in SUBSET DOMAIN symbol.params : \A p \in DOMAIN symbol.params \ ps : ~symbol.params[p].required}}
Callable(call, symbol) ==
    /\ \A p \in DOMAIN call : p \in DOMAIN symbol.params /\ Takes(symbol.params[p], call[p])
    /\ \A p \in DOMAIN symbol.params : symbol.params[p].required => p \in DOMAIN call

(* A surface all of whose changes are non-breaking takes every call of the *)
(* old one, returns every field it did, and has every module.              *)
NonBreakingKeepsCalls(old, new, hints) ==
    Risk(SurfaceDiff(old, new, hints)) \in {"safe", "low_risk"} =>
      /\ old.modules \subseteq new.modules
      /\ \A name \in DOMAIN old.symbols :
           /\ name \in DOMAIN new.symbols
           /\ \A call \in Calls(old.symbols[name]) : Callable(call, new.symbols[name])
           /\ \A f \in DOMAIN old.symbols[name].returns :
                /\ f \in DOMAIN new.symbols[name].returns
                /\ new.symbols[name].returns[f] = old.symbols[name].returns[f]

(* Upgrades that are harmless one after the other are harmless at once.    *)
HarmlessUpgradesCompose(old, new, newer) ==
    LET harmless(u, v) == Risk(VersionItems(u, v)) \in {"safe", "low_risk"}
    IN  harmless(old, new) /\ harmless(new, newer) => harmless(old, newer)
=============================================================================
