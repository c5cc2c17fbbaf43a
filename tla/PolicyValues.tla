----------------------------- MODULE PolicyValues -----------------------------
(***************************************************************************)
(* What conditions and argument specs of a policy say of a value: the      *)
(* leaves of policy.Engine.Evaluate.  A value is a record with its kind;   *)
(* texts are sequences of characters, a number counts tenths and is held   *)
(* as a Go int (of a YAML file) or float64 (of JSON arguments).  An        *)
(* optional part of a condition or a spec is a sequence of at most one.    *)
(* Regular expressions are external.                                       *)
(***************************************************************************)
EXTENDS Naturals, Integers, SequencesExt

(* regexp.MatchString: "true", "false" or "error".                         *)
CONSTANT Regexp(_, _)

Str(text) == [kind |-> "string", text |-> text]
Number(tenths, held) == [kind |-> "number", tenths |-> tenths, held |-> held]
Boolean(b) == [kind |-> "boolean", value |-> b]
Array(items) == [kind |-> "array", items |-> items]
Object(fields) == [kind |-> "object", fields |-> fields]

Null == [kind |-> "null"]

Is(value, kind) == value.kind = kind
Truth(b) == IF b THEN "true" ELSE "false"

(* Numbers are compared by what they are, not by how they are held, unless *)
(* they are inside of something else (reflect.DeepEqual).                  *)
scalarEqual(left, right) ==
  IF Is(left, "number") /\ Is(right, "number") THEN left.tenths = right.tenths
  ELSE left = right

containsValue(container, needle) ==
  \/ /\ Is(container, "string") /\ Is(needle, "string")
     /\ \E i \in 0..Len(container.text) :
          IsPrefix(needle.text, SubSeq(container.text, i + 1, Len(container.text)))
  \/ /\ Is(container, "array")
     /\ \E i \in DOMAIN container.items : scalarEqual(container.items[i], needle)

-----------------------------------------------------------------------------
(***************************************************************************)
(* Conditions.  A leaf is a field with the path below it, an operation,    *)
(* a value and further values.                                             *)
(***************************************************************************)
Absent == <<>>

(* The value as an optional one.                                           *)
nestedMapValue(args, path) ==
  LET step[n \in 0..Len(path)] ==
        IF n = 0 THEN <<Object(args)>>
        ELSE LET outer == step[n - 1] IN
             IF outer # Absent /\ Is(outer[1], "object") /\ path[n] \in DOMAIN outer[1].fields
             THEN <<outer[1].fields[path[n]]>> ELSE Absent
  IN step[Len(path)]

NonEmpty(name) == IF name = "" THEN Absent ELSE <<Str(<<name>>)>>

(* No field of that name, or no name of an argument, is an error.          *)
Known(leaf) ==
  \/ leaf.field \in {"tool", "action", "role", "session", "risk"}
  \/ leaf.field = "args" /\ leaf.path # <<>>

conditionFieldValue(leaf, r, c) ==
  CASE leaf.field = "tool" -> <<Str(<<r.call.tool>>)>>
    [] leaf.field = "action" -> <<Str(<<r.call.action>>)>>
    [] leaf.field = "role" -> NonEmpty(r.subject.role)
    [] leaf.field = "session" -> NonEmpty(r.subject.session)
    [] leaf.field = "risk" -> NonEmpty(c.risk)
    [] leaf.field = "args" -> nestedMapValue(r.call.args, leaf.path)

conditionValues(leaf) ==
  CASE leaf.values # <<>> -> leaf.values
    [] leaf.values = <<>> /\ Is(leaf.value, "array") -> leaf.value.items
    [] OTHER -> <<leaf.value>>

(* Mutant: as reflect.DeepEqual alone would have it.                       *)
IsListedDeeply(value, leaf) ==
  \E i \in DOMAIN conditionValues(leaf) : value = conditionValues(leaf)[i]

IsListed(value, leaf) ==
  \E i \in DOMAIN conditionValues(leaf) : scalarEqual(value, conditionValues(leaf)[i])

CompareText(value, op, wanted) ==
  IF ~Is(value, "string") \/ ~Is(wanted, "string") THEN "false"
  ELSE CASE op = "starts_with" -> Truth(IsPrefix(wanted.text, value.text))
         [] op = "ends_with" -> Truth(IsSuffix(wanted.text, value.text))
         [] op = "matches" -> Regexp(wanted.text, value.text)

CompareNumber(value, op, wanted) ==
  IF ~Is(value, "number") THEN "false"
  ELSE IF ~Is(wanted, "number") THEN "error"
  ELSE Truth(CASE op = "gt" -> value.tenths > wanted.tenths
               [] op = "gte" -> value.tenths >= wanted.tenths
               [] op = "lt" -> value.tenths < wanted.tenths
               [] op = "lte" -> value.tenths <= wanted.tenths)

compareValue(value, leaf) ==
  CASE leaf.op \in {"", "eq"} -> Truth(scalarEqual(value, leaf.value))
    [] leaf.op = "ne" -> Truth(~scalarEqual(value, leaf.value))
    [] leaf.op = "in" -> Truth(IsListed(value, leaf))
    [] leaf.op = "not_in" -> Truth(~IsListed(value, leaf))
    [] leaf.op = "contains" -> Truth(containsValue(value, leaf.value))
    [] leaf.op \in {"starts_with", "ends_with", "matches"} ->
         CompareText(value, leaf.op, leaf.value)
    [] leaf.op \in {"gt", "gte", "lt", "lte"} -> CompareNumber(value, leaf.op, leaf.value)
    [] OTHER -> "error"

compareConditionValue(found, leaf) ==
  CASE leaf.op = "exists" -> Truth(found # Absent)
    [] leaf.op = "not_exists" -> Truth(found = Absent)
    [] OTHER -> IF found = Absent THEN "false" ELSE compareValue(found[1], leaf)

Leaf(leaf, r, c) ==
  IF Known(leaf) THEN compareConditionValue(conditionFieldValue(leaf, r, c), leaf)
  ELSE "error"

-----------------------------------------------------------------------------
(***************************************************************************)
(* Argument specs.                                                         *)
(***************************************************************************)
(* Mutant: JSON numbers, which are float64, are never integers.            *)
isInt(value) == Is(value, "number") /\ value.held = "int"

isInteger(value) ==
  Is(value, "number") /\ (value.held = "int" \/ value.tenths % 10 = 0)

argumentTypeMatches(value, want) ==
  CASE want = "integer" -> isInteger(value)
    [] want \in {"string", "number", "boolean", "array", "object"} -> Is(value, want)
    [] OTHER -> FALSE

valueLength(value) ==
  CASE Is(value, "string") -> <<Len(value.text)>>
    [] Is(value, "array") -> <<Len(value.items)>>
    [] OTHER -> Absent

Within(n, min, max) ==
  /\ min # Absent => n >= min[1]
  /\ max # Absent => n <= max[1]

(* What a spec asks of the value itself.                                   *)
ValidHere(value, spec) ==
  /\ spec.type # "" => argumentTypeMatches(value, spec.type)
  /\ spec.enum # <<>> => \E i \in DOMAIN spec.enum : scalarEqual(value, spec.enum[i])
  /\ spec.pattern # Absent => Is(value, "string") /\ Regexp(spec.pattern[1], value.text) = "true"
  /\ spec.min \o spec.max # <<>> =>
       Is(value, "number") /\ Within(value.tenths, spec.min, spec.max)
  /\ spec.minLength \o spec.maxLength # <<>> =>
       valueLength(value) # Absent /\ Within(valueLength(value)[1], spec.minLength, spec.maxLength)
  /\ spec.items # Absent => Is(value, "array")
  /\ DOMAIN spec.properties # {} =>
       /\ Is(value, "object")
       /\ \A n \in DOMAIN spec.properties :
            spec.properties[n].required => n \in DOMAIN value.fields
===============================================================================
