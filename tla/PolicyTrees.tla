------------------------------ MODULE PolicyTrees ------------------------------
(***************************************************************************)
(* Conditions and argument specs as trees: what a policy says of a value   *)
(* at every depth, from what PolicyValues says at each leaf.               *)
(***************************************************************************)
EXTENDS PolicyValues

CONSTANTS
  Trees,           \* conditions, with all their parts
  Values, Specs,   \* values and argument specs, with all that is in them
  Depth(_)         \* how deep a condition or a spec is nested

PartsOf(cond) == cond.all \o cond.any \o cond.not

ASSUME TreesAssumption ==
  \A cond \in Trees :
    /\ Depth(cond) \in Nat
    /\ cond.all \in Seq(Trees) /\ cond.any \in Seq(Trees)
    /\ cond.not \in Seq(Trees) /\ Len(cond.not) <= 1
    /\ \A i \in DOMAIN PartsOf(cond) : Depth(PartsOf(cond)[i]) < Depth(cond)

ASSUME ValuesAssumption ==
  \A value \in Values :
    /\ Is(value, "number") /\ value.held = "int" => value.tenths % 10 = 0
    /\ Is(value, "array") => value.items \in Seq(Values)
    /\ Is(value, "object") => \A n \in DOMAIN value.fields : value.fields[n] \in Values

ASSUME SpecsAssumption ==
  \A spec \in Specs :
    /\ Depth(spec) \in Nat
    /\ spec.items # Absent => spec.items[1] \in Specs /\ Depth(spec.items[1]) < Depth(spec)
    /\ \A n \in DOMAIN spec.properties :
         spec.properties[n] \in Specs /\ Depth(spec.properties[n]) < Depth(spec)

-----------------------------------------------------------------------------
(* The first of the results that decides, in order.                        *)
Decides(results, neutral, i) ==
  i \in DOMAIN results /\ results[i] # neutral /\ \A j \in 1..(i - 1) : results[j] = neutral
FirstOther(results, neutral) ==
  IF \A i \in DOMAIN results : results[i] = neutral THEN neutral
  ELSE results[CHOOSE i \in DOMAIN results : Decides(results, neutral, i)]

(* Mutant: an error in any counts as false.                                *)
AnyOfLoosely(results) ==
  IF results = <<>> \/ \E i \in DOMAIN results : results[i] = "true" THEN "true" ELSE "false"

AnyOf(results) == IF results = <<>> THEN "true" ELSE FirstOther(results, "false")

Negated(result) ==
  CASE result = "true" -> "false" [] result = "false" -> "true" [] OTHER -> result

OwnLeaf(cond, r, c) ==
  IF cond.leaf # Absent THEN Leaf(cond.leaf[1], r, c)
  ELSE IF PartsOf(cond) # <<>> THEN "true" ELSE "error"

Of(results, parts) == [i \in DOMAIN parts |-> results[parts[i]]]

(* What the condition comes to, from the results of its parts.             *)
Composed(cond, results, r, c) ==
  LET not == IF cond.not = Absent THEN "true" ELSE Negated(results[cond.not[1]])
  IN FirstOther(<<FirstOther(Of(results, cond.all), "true"), AnyOf(Of(results, cond.any)),
                  not, OwnLeaf(cond, r, c)>>, "true")

evaluateCondition(cond, r, c) ==
  LET results[part \in Trees] == Composed(part, results, r, c) IN results[cond]

-----------------------------------------------------------------------------
Nested == Values \X Specs

(* Mutant: the items of an array are not validated.                        *)
validateShallow(value, spec) ==
  LET valid[part \in Nested] ==
        LET v == part[1] s == part[2] IN
        /\ ValidHere(v, s)
        /\ \A n \in DOMAIN s.properties :
             n \in DOMAIN v.fields => valid[<<v.fields[n], s.properties[n]>>]
  IN valid[<<value, spec>>]

ValidInside(value, spec, valid) ==
  /\ spec.items # Absent =>
       \A i \in DOMAIN value.items : valid[<<value.items[i], spec.items[1]>>]
  /\ \A n \in DOMAIN spec.properties :
       n \in DOMAIN value.fields => valid[<<value.fields[n], spec.properties[n]>>]

validateArgument(value, spec) ==
  LET valid[part \in Nested] ==
        ValidHere(part[1], part[2]) /\ ValidInside(part[1], part[2], valid)
  IN valid[<<value, spec>>]
===============================================================================
