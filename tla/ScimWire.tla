------------------------------ MODULE ScimWire ------------------------------
(***************************************************************************)
(* What a SCIM PATCH body means: normalizePatchOps brings the dialects of  *)
(* the identity providers to one form (internal/api/scim_parse.go,         *)
(* scim_types.go) and the PATCH handlers apply the result to a user or a   *)
(* group (scim_handlers.go); and the pages of the list endpoints.          *)
(*                                                                         *)
(* A JSON value is a tuple of its kind and contents.  Texts are strings of *)
(* a few spellings; lists are lists of entries with a value and a primary  *)
(* flag, which is what both e-mails and members look like.  A conversion   *)
(* yields a value or Invalid; normalization yields the set of operation    *)
(* lists it may produce (Go visits an object's attributes in any order),   *)
(* the empty set when the request is rejected.                             *)
(***************************************************************************)
EXTENDS Integers, Sequences, FiniteSets, SequencesExt

Absent == <<"absent">>
Null == <<"null">>
Str(s) == <<"string", s>>
Bool(b) == <<"bool", b>>
List(entries) == <<"list", entries>>
Obj(f) == <<"object", f>>
Invalid == <<"invalid">>
NoValue == <<"none">>
All == <<"all">>
Ids(ids) == <<"ids", ids>>

MemberIds == {"id1", "id2"}     \* texts that parse as ids

\* strings.ToLower on the spellings that occur.
spelling == [Add |-> "add", Replace |-> "replace", Remove |-> "remove", True |-> "true",
             False |-> "false", userName |-> "username", Active |-> "active"]
ToLower(s) == IF s \in DOMAIN spelling THEN spelling[s] ELSE s
Blank(s) == s \in {"", " "}

-----------------------------------------------------------------------------
(* Conversions.  JSON null decodes to the zero value.                      *)

boolOrString(v) ==
    CASE v[1] = "bool" -> v
      [] v[1] = "null" -> Bool(FALSE)
      [] v[1] = "string" /\ ToLower(v[2]) \in {"true", "false"} -> Bool(ToLower(v[2]) = "true")
      [] OTHER -> Invalid

Text(v) == CASE v[1] = "string" -> v [] v[1] = "null" -> Str("") [] OTHER -> Invalid

scimPrimaryEmail(entries) ==
    LET primary == SelectSeq(entries, LAMBDA e : e.primary)
    IN  IF primary # <<>> THEN primary[1].value
        ELSE IF entries # <<>> THEN entries[1].value ELSE ""

\* The value attribute of a single e-mail or member object.
Single(v) ==
    IF v[1] = "object" /\ "value" \in DOMAIN v[2] /\ v[2].value[1] = "string"
    THEN v[2].value[2] ELSE ""

parseEmailsValue(v) ==
    CASE v[1] = "list" -> Str(scimPrimaryEmail(v[2]))
      [] v[1] = "null" -> Str("")
      [] Single(v) # "" -> Str(Single(v))
      [] v[1] = "string" -> v
      [] OTHER -> Invalid

parseMemberValueList(v) ==
    LET entries == CASE v[1] = "list" -> {v[2][i].value : i \in DOMAIN v[2]}
                     [] v[1] = "null" -> {}
                     [] OTHER -> {Single(v)}
    IN  IF entries \subseteq MemberIds /\ (v[1] = "list" => Len(v[2]) <= 10000)
        THEN Ids(entries) ELSE Invalid

-----------------------------------------------------------------------------
(* Normalization.                                                          *)

Normalized(op, attr, value) ==
    IF value = Invalid THEN {} ELSE {<<[op |-> op, attr |-> attr, value |-> value]>>}

\* Attributes that are not stored are ignored.
buildScalarOp(op, attr, v) ==
    CASE v = Absent -> Normalized(op, attr, NoValue)
      [] v # Absent /\ attr = "active" -> Normalized(op, attr, boolOrString(v))
      [] v # Absent /\ attr \in {"username", "displayname", "externalid"} ->
           Normalized(op, attr, Text(v))
      [] v # Absent /\ attr = "emails" ->
           Normalized(op, attr, IF parseEmailsValue(v) = Str("") THEN NoValue
                                ELSE parseEmailsValue(v))
      [] OTHER -> {<<>>}

\* One list of operations out of each set, one after the other.
InTurn(choices) ==
    {FlattenSeq(f) : f \in {g \in [DOMAIN choices -> UNION Range(choices)] :
                               \A i \in DOMAIN choices : g[i] \in choices[i]}}

\* Okta's pathless operation: every attribute of the object, in any order.
expandObject(op, obj) ==
    UNION {InTurn([i \in DOMAIN order |-> buildScalarOp(op, ToLower(order[i]), obj[order[i]])]) :
              order \in SetToSeqs(DOMAIN obj)}

\* One raw operation; the paths with a filter are members[value eq "id"] and
\* emails[type eq "..."].value.
normalizeOp(raw) ==
    LET op == ToLower(raw.op)
        path == ToLower(raw.path)
        v == raw.value
    IN  IF op \notin {"add", "replace", "remove"} THEN {}
        ELSE CASE path = "members[]" ->
                    Normalized(op, "members",
                               IF op = "remove" /\ raw.id \in MemberIds THEN Ids({raw.id}) ELSE Invalid)
               [] path = "" ->
                    IF v[1] = "object" /\ DOMAIN v[2] # {} THEN expandObject(op, v[2]) ELSE {<<>>}
               [] path = "members" /\ v = Absent /\ op = "remove" -> Normalized(op, path, All)
               [] path = "members" /\ v # Absent -> Normalized(op, path, parseMemberValueList(v))
               [] path = "emails[]" ->
                    Normalized(op, "emails", IF v = Absent THEN NoValue ELSE Text(v))
               [] OTHER -> buildScalarOp(op, path, v)

\* The body must name the PatchOp schema; one bad operation rejects them all.
normalizePatchOps(req) ==
    IF req.patchOp /\ Len(req.ops) \in 1..1000
    THEN InTurn([i \in DOMAIN req.ops |-> normalizeOp(req.ops[i])])
    ELSE {}

-----------------------------------------------------------------------------
(* The handlers.  A handler's result is the set of outcomes; it is empty   *)
(* when the request is rejected, and then nothing is written.              *)

Reject(x) == [x EXCEPT !.ok = FALSE]

externalIdAfter(old, n) ==
    IF n.op = "remove" \/ n.value = Str("") THEN ""
    ELSE IF n.value = NoValue THEN old ELSE n.value[2]

patchUserAttribute(user, n) ==
    LET given == n.value # NoValue IN
    CASE n.attr = "active" /\ given -> [user EXCEPT !.active = n.value[2]]
      [] n.attr = "username" /\ (n.op = "remove" \/ (given /\ Blank(n.value[2]))) -> Reject(user)
      [] n.attr = "username" /\ n.op # "remove" /\ given /\ ~Blank(n.value[2]) ->
           [user EXCEPT !.userName = n.value[2]]
      [] n.attr = "externalid" -> [user EXCEPT !.externalId = externalIdAfter(@, n)]
      [] n.attr = "displayname" /\ n.op = "remove" -> [user EXCEPT !.displayName = ""]
      [] n.attr = "displayname" /\ n.op # "remove" /\ given -> [user EXCEPT !.displayName = n.value[2]]
      [] n.attr = "emails" /\ n.value \notin {NoValue, Str("")} -> [user EXCEPT !.email = n.value[2]]
      [] OTHER -> user

applyGlobalUserFieldsOldNameBug(existing, updated) ==  \* mutant: the default is the old userName
    [updated EXCEPT !.displayName = IF Blank(@) THEN existing.userName ELSE @]

\* A cleared display name becomes the (new) userName; the organization is the
\* only one that governs the user.
applyGlobalUserFields(existing, updated) ==
    [updated EXCEPT !.displayName = IF Blank(@) THEN updated.userName ELSE @]

handleScimPatchUser(user, req) ==
    {u \in {applyGlobalUserFields(user, FoldLeft(patchUserAttribute, user, ops)) :
               ops \in normalizePatchOps(req)} : u.ok}

memberSetAfter(members, n) ==
    CASE n.value = All -> {}
      [] n.value = NoValue -> IF n.op = "replace" THEN {} ELSE members
      [] OTHER -> CASE n.op = "add" -> members \cup n.value[2]
                    [] n.op = "remove" -> members \ n.value[2]
                    [] n.op = "replace" -> n.value[2]

patchGroupAttribute(group, n) ==
    LET given == n.value # NoValue IN
    CASE n.attr = "displayname" /\ (n.op = "remove" \/ (given /\ Blank(n.value[2]))) -> Reject(group)
      [] n.attr = "displayname" /\ n.op # "remove" /\ given /\ ~Blank(n.value[2]) ->
           [group EXCEPT !.displayName = n.value[2]]
      [] n.attr = "externalid" -> [group EXCEPT !.externalId = externalIdAfter(@, n)]
      [] n.attr = "members" -> [group EXCEPT !.members = memberSetAfter(@, n)]
      [] OTHER -> group

handleScimPatchGroup(group, req) ==
    {g \in {FoldLeft(patchGroupAttribute, group, ops) : ops \in normalizePatchOps(req)} : g.ok}

-----------------------------------------------------------------------------
(* Pages.  A query parameter is a number or does not parse.                *)

scimPageParams(startIndex, count) ==
    [startIndex |-> IF startIndex[1] = "number" /\ startIndex[2] > 0 THEN startIndex[2] ELSE 1,
     count |-> IF count[1] # "number" THEN 100
               ELSE IF count[2] < 0 THEN 0
               ELSE IF count[2] > 200 THEN 200 ELSE count[2]]

\* ORDER BY created_at LIMIT limit OFFSET offset.
ListScimUsers(rows, limit, offset) ==
    SubSeq(rows, offset + 1, IF offset + limit < Len(rows) THEN offset + limit ELSE Len(rows))

handleScimListUsers(rows, startIndex, count) ==
    LET page == scimPageParams(startIndex, count)
    IN  ListScimUsers(rows, page.count, page.startIndex - 1)
-----------------------------------------------------------------------------
(* Properties, over bounded bodies.  They speak of operators only, so a    *)
(* run evaluates them in its first state.                                  *)

Entry(value, primary) == [value |-> value, primary |-> primary]
Raw(op, path, value) == [op |-> op, path |-> path, id |-> "id1", value |-> value]
Body(ops) == [patchOp |-> TRUE, ops |-> ops]

Texts == {Str("a"), Str("True"), Str(""), Null}
Emails == {List(<<Entry("a", FALSE), Entry("b", TRUE)>>), Obj([value |-> Str("b")])}
Attributes == {Obj([userName |-> Str("b"), displayname |-> Null]),
               Obj([active |-> Str("False"), externalid |-> Str("b"), title |-> Null])}
Members == {List(<<Entry("id1", FALSE)>>), List(<<Entry("id2", FALSE), Entry("id1", FALSE)>>),
            Obj([value |-> Str("id2")]), List(<<Entry("x", FALSE)>>), Null}

UserOps == {Raw(op, path, v) : op \in {"Replace", "remove"}, v \in Texts \cup {Absent},
                               path \in {"active", "userName", "displayname", "externalid", "emails[]"}}
           \cup {Raw("add", "emails", v) : v \in Emails \cup Texts}
           \cup {Raw("add", "", v) : v \in Attributes \cup Texts}
GroupOps == {Raw(op, "members", v) : op \in {"add", "remove", "replace"}, v \in Members \cup {Absent}}
            \cup {Raw(op, "members[]", Absent) : op \in {"add", "Remove"}}
            \cup {Raw("replace", path, v) : path \in {"displayname", "externalid", ""},
                                            v \in Texts \cup Attributes}
OneOrTwo(ops) == {<<o>> : o \in ops} \cup (ops \X ops)

Users == {[ok |-> TRUE, active |-> b, userName |-> "a", externalId |-> e, displayName |-> "d", email |-> "m"] :
             b \in BOOLEAN, e \in {"", "a"}}
Groups == {[ok |-> TRUE, displayName |-> "g", externalId |-> "", members |-> ms] : ms \in SUBSET MemberIds}

\* An identity provider that got no answer sends its PATCH again: applied to
\* what it produced, the request is accepted and changes nothing more,
\* whichever order the attributes of a pathless operation are visited in.
Repeatable ==
    /\ \A ops \in OneOrTwo(UserOps), user \in Users :
          \A u \in handleScimPatchUser(user, Body(ops)) : handleScimPatchUser(u, Body(ops)) = {u}
    /\ \A ops \in OneOrTwo(GroupOps), group \in Groups :
          \A g \in handleScimPatchGroup(group, Body(ops)) : handleScimPatchGroup(g, Body(ops)) = {g}

\* Pairs of requests that mean the same in two dialects ("resolving all IDP
\* quirks"): capitalised operation names, textual booleans, filters in the
\* path, a single object for a list, and pathless objects.
UserDialects ==
    {<< <<Raw("Replace", path, v)>>, <<Raw("replace", path, v)>> >> : path \in {"active", "externalid"}, v \in Texts}
    \cup {<< <<Raw(op, "active", Str("False"))>>, <<Raw(op, "active", Bool(FALSE))>> >> : op \in {"add", "replace"}}
    \cup {<< <<Raw(op, "emails[]", Str(s))>>, <<Raw(op, "emails", List(<<Entry(s, p)>>))>> >> :
              op \in {"add", "replace"}, s \in {"a", ""}, p \in BOOLEAN}
    \cup {<< <<Raw(op, "", Obj([userName |-> v, active |-> w]))>>,
             <<Raw(op, "active", w), Raw(op, "userName", v)>> >> :
              op \in {"add", "replace"}, v \in Texts, w \in Texts}
GroupDialects ==
    {<< <<Raw("Remove", "members[]", Absent)>>, <<Raw("remove", "members", List(<<Entry("id1", FALSE)>>))>> >>}
    \cup {<< <<Raw(op, "members", Obj([value |-> Str("id2")]))>>, <<Raw(op, "members", List(<<Entry("id2", FALSE)>>))>> >> :
              op \in {"add", "remove", "replace"}}

\* Both requests of a pair have the same outcome, and a single one.
Agreement ==
    /\ \A pair \in UserDialects, user \in Users :
          LET result == handleScimPatchUser(user, Body(pair[1]))
          IN  result = handleScimPatchUser(user, Body(pair[2])) /\ Cardinality(result) <= 1
    /\ \A pair \in GroupDialects, group \in Groups :
          handleScimPatchGroup(group, Body(pair[1])) = handleScimPatchGroup(group, Body(pair[2]))

\* A client that asks for the page after the last row it got reads every row
\* once, in order, whatever positive count it asks for and although the
\* service caps it.
Coverage ==
    \A n \in {0, 1, 3, 201, 401}, count \in {<<"number", k>> : k \in {1, 2, 200, 201}} \cup {<<"unparsed">>} :
        LET rows == [i \in 1..n |-> i]
            walk[s \in 1..(n + 1)] ==
                LET page == handleScimListUsers(rows, <<"number", s>>, count)
                IN  IF page = <<>> THEN <<>> ELSE page \o walk[s + Len(page)]
        IN  walk[1] = rows
=============================================================================
