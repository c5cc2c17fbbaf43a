------------------------------ MODULE ValueRules -------------------------------
(***************************************************************************)
(* Questions about the conditions and argument specs of the policy engine, *)
(* each against a definition of what it promises.                          *)
(***************************************************************************)
EXTENDS Rules, PolicyTrees

CONSTANTS
  TreeRequests, TreeCapabilities,   \* what conditions are evaluated for
  Comparisons                       \* leaves, whose operation is asked about any value

ValuesInit ==
  /\ answer = Unanswered
  /\ \/ question \in [of : {"tree"}, tree : Trees, request : TreeRequests, cap : TreeCapabilities]
     \/ question \in [of : {"comparison"}, found : {Absent} \cup {<<v>> : v \in Values},
                      leaf : Comparisons]
     \/ question \in [of : {"spec"}, value : Values, spec : Specs]

AskTree ==
  /\ Ask("tree")
  /\ answer' = [of |-> "tree",
                truth |-> evaluateCondition(question.tree, question.request, question.cap)]

AskComparison ==
  /\ Ask("comparison")
  /\ answer' = [of |-> "comparison", truth |-> compareConditionValue(question.found, question.leaf)]

AskSpec ==
  /\ Ask("spec")
  /\ answer' = [of |-> "spec", valid |-> validateArgument(question.value, question.spec)]

ValuesNext == AskTree \/ AskComparison \/ AskSpec

ValuesSpec == ValuesInit /\ [][ValuesNext]_ruleVars

-----------------------------------------------------------------------------
Decided == {"true", "false"}

(* A condition that is faulty itself: it asks for nothing, or its leaf     *)
(* cannot be decided.                                                      *)
FaultyHere(cond, r, c) ==
  IF cond.leaf = Absent THEN PartsOf(cond) = <<>> ELSE Leaf(cond.leaf[1], r, c) \notin Decided

Everywhere(sets) ==
  {b \in BOOLEAN : IF b THEN \A i \in DOMAIN sets : TRUE \in sets[i]
                   ELSE \E i \in DOMAIN sets : FALSE \in sets[i]}
Opposite(S) == {~b : b \in S}
Opposites(sets) == [i \in DOMAIN sets |-> Opposite(sets[i])]
Somewhere(sets) == IF sets = <<>> THEN {TRUE} ELSE Opposite(Everywhere(Opposites(sets)))

(* What a tree could be if each of its faulty leaves were something.       *)
CouldBe(cond, possible, r, c) ==
  LET leaf == IF FaultyHere(cond, r, c) THEN BOOLEAN
              ELSE {cond.leaf # Absent => Leaf(cond.leaf[1], r, c) = "true"}
  IN Everywhere(<<Everywhere(Of(possible, cond.all)), Somewhere(Of(possible, cond.any)),
                  Everywhere(Opposites(Of(possible, cond.not))), leaf>>)

Possible(cond, r, c) ==
  LET possible[part \in Trees] == CouldBe(part, possible, r, c) IN possible[cond]

Faulty(cond, r, c) ==
  LET faulty[part \in Trees] ==
        \/ FaultyHere(part, r, c)
        \/ \E i \in DOMAIN PartsOf(part) : faulty[PartsOf(part)[i]]
  IN faulty[cond]

(* A condition is only true or false if it would be so whatever its faulty *)
(* parts said, and only in error if it has a faulty part: neither the      *)
(* order nor the early returns of evaluateCondition (engine.go:145-205)    *)
(* make an answer out of an error.                                         *)
ErrorsDecideNothing ==
  answer.of = "tree" =>
    LET tree == question.tree
        r == question.request
        c == question.cap
    IN IF answer.truth \in Decided THEN Possible(tree, r, c) = {answer.truth = "true"}
       ELSE Faulty(tree, r, c)

(* Equal values get equal answers from every condition and every spec: it  *)
(* does not matter that arguments hold numbers as float64 and policies as  *)
(* int (scalarEqual, numberAsFloat and isInteger, 627-671 and 943-963).    *)
EqualValuesAgree ==
  /\ answer.of = "comparison" /\ question.found # Absent =>
       \A v \in Values :
         scalarEqual(v, question.found[1]) =>
           compareConditionValue(<<v>>, question.leaf) = answer.truth
  /\ answer.of = "spec" =>
       \A v \in Values :
         scalarEqual(v, question.value) => validateArgument(v, question.spec) = answer.valid

(* The values a spec speaks of, with what it says of them.                 *)
PartsReached(value, spec) ==
  LET reached[part \in Nested] ==
        LET v == part[1]
            s == part[2]
        IN {part}
           \cup (IF s.items = Absent \/ ~Is(v, "array") THEN {}
                 ELSE UNION {reached[<<v.items[i], s.items[1]>>] : i \in DOMAIN v.items})
           \cup (IF ~Is(v, "object") THEN {}
                 ELSE UNION {reached[<<v.fields[n], s.properties[n]>>] :
                               n \in DOMAIN v.fields \cap DOMAIN s.properties})
  IN reached[<<value, spec>>]

(* A valid argument is of the types its spec asks for at every depth, has  *)
(* every required property and is one of the values listed                 *)
(* (validateArgument, 480-570).                                            *)
ValidAtEveryDepth ==
  answer.of = "spec" /\ answer.valid =>
    \A part \in PartsReached(question.value, question.spec) :
      LET value == part[1]
          spec == part[2]
      IN /\ spec.type # "" => argumentTypeMatches(value, spec.type)
         /\ \A n \in DOMAIN spec.properties :
              spec.properties[n].required => n \in DOMAIN value.fields
         /\ spec.enum # <<>> => \E i \in DOMAIN spec.enum : scalarEqual(value, spec.enum[i])
===============================================================================
