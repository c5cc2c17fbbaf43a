---------------------------- MODULE MCPolicyRules -----------------------------
(***************************************************************************)
(* Small values, conditions and argument specs for the rules on them.      *)
(***************************************************************************)
EXTENDS ValueRules

-----------------------------------------------------------------------------
(* Of the expressions the model has, "[" is malformed.                     *)
MCRegexp(pattern, text) ==
  IF pattern = <<"[">> THEN "error" ELSE Truth(pattern = text)

Scalars == {Str(<<"a">>), Str(<<"a", "b">>), Str(<<>>), Number(10, "int"),
            Number(10, "float"), Number(15, "float"), Boolean(TRUE), Null}
SomeValues == Scalars \cup
  {Array(<<Number(10, "int")>>), Array(<<Number(10, "float"), Str(<<"a">>)>>),
   Object([name |-> Str(<<"a">>)]), Object([name |-> Number(10, "float")])}

-----------------------------------------------------------------------------
(* Leaves that are true, false and in error, and the trees over them.      *)
LeafFor(field, op) ==
  <<[field |-> field, path |-> <<>>, op |-> op, value |-> Null, values |-> <<>>]>>
Leaves == {LeafFor("tool", "exists"), LeafFor("tool", "not_exists"), LeafFor("args", "exists")}
Bare(leaf) == [all |-> <<>>, any |-> <<>>, not |-> <<>>, leaf |-> leaf]
Over(parts, optional, leaves) ==
  [all : parts, any : parts, not : optional, leaf : leaves]
Small == {Bare(leaf) : leaf \in Leaves}
Flat == Over(BoundedSeq(Small, 2), BoundedSeq(Small, 1), {Absent} \cup Leaves)
Middle == Over(BoundedSeq(Small, 1), BoundedSeq(Small, 1), {Absent})
Pairs == {<<t, l>> : t \in Middle, l \in Small}
Tall ==
  {[all |-> <<>>, any |-> p, not |-> n, leaf |-> Absent] : p \in Pairs, n \in BoundedSeq(Middle, 1)}
  \cup {[all |-> p, any |-> <<>>, not |-> <<>>, leaf |-> Absent] : p \in Pairs}
SomeTrees == Flat \cup Tall

MCTreeRequests ==
  {[call |-> [tool |-> "t", action |-> "a", args |-> <<>>],
    subject |-> [role |-> "", session |-> ""]]}
MCTreeCapabilities == {[risk |-> ""]}

Ops == {"", "ne", "in", "not_in", "contains", "starts_with", "ends_with", "matches",
        "gt", "gte", "lt", "lte", "exists", "not_exists", "misspelt"}
MCComparisons ==
  [op : Ops, value : SomeValues, values : {<<>>} \cup {<<Str(<<"a">>), v>> : v \in Scalars}]

(* Specs of a type and one more part, and specs of what is inside.         *)
AnySpec ==
  [type |-> "", required |-> FALSE, enum |-> <<>>, pattern |-> Absent,
   min |-> Absent, max |-> Absent, minLength |-> Absent, maxLength |-> Absent,
   items |-> Absent, properties |-> <<>>]
Types == {"", "string", "number", "integer", "boolean", "array", "object", "date"}
Plain == {[AnySpec EXCEPT !.type = t, !.required = b] : t \in Types, b \in BOOLEAN}
Limited == Plain \cup UNION
  {{[s EXCEPT !.enum = <<v>>] : v \in SomeValues}
     \cup {[s EXCEPT !.min = <<n>>, !.max = m] : n \in {10, 15}, m \in {Absent, <<10>>}}
     \cup {[s EXCEPT !.minLength = <<1>>, !.maxLength = m] : m \in {Absent, <<1>>}}
     \cup {[s EXCEPT !.pattern = <<<<p>>>>] : p \in {"a", "["}} : s \in Plain}
SomeSpecs == Limited
  \cup {[AnySpec EXCEPT !.type = t, !.items = <<s>>] : t \in {"", "array"}, s \in Limited}
  \cup {[AnySpec EXCEPT !.properties = [name |-> s, other |-> p]] : s \in Limited, p \in Plain}

-----------------------------------------------------------------------------
(* Each is evaluated once.                                                 *)
MCValues == SomeValues
MCTrees == SomeTrees
MCSpecs == SomeSpecs

RECURSIVE MCDepth(_)
MCDepth(tree) ==
  LET inside == IF "all" \in DOMAIN tree THEN ToSet(PartsOf(tree))
                ELSE ToSet(tree.items) \cup {tree.properties[n] : n \in DOMAIN tree.properties}
  IN Max({0} \cup {1 + MCDepth(part) : part \in inside})
===============================================================================
