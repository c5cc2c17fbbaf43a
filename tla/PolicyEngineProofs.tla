-------------------------- MODULE PolicyEngineProofs --------------------------
(***************************************************************************)
(* Whatever the policies, calls and matchers are, Evaluate decides as the  *)
(* policy file declares; the matchers of the engine match, for any pattern *)
(* and any text, what a definition without a walk says they match; a path  *)
(* that the engine or the sandbox lets through leads where it should,      *)
(* however it is written; a git command line is let through exactly if its *)
(* arguments may have the roles they have; every line of policycheck gets  *)
(* its one answer; and conditions and argument specs of any depth          *)
(* make no answer out of an error, do not tell equal values apart and let  *)
(* through only what is as they ask at every depth.                        *)
(* Most of these definitions are recursive functions or folds, so their    *)
(* parts begin with an induction over numbers or over sequences, of a set  *)
(* of them and not of a formula.                                           *)
(***************************************************************************)
EXTENDS PolicyPaths, ValueRules, Integers, FiniteSetTheorems, WellFoundedInduction,
        SequenceTheorems, TLAPS

(***************************************************************************)
(* The decision.                                                           *)
(***************************************************************************)

(* What the loop has found out on its way: nothing before the capability   *)
(* looked at applies; once it is selected it does, and what was checked of *)
(* it holds.                                                               *)
Passed == \A i \in 1..(at - 1) : ~Applies(policy.capabilities[i], request)

Selected ==
  stage \in {"arguments", "limits", "decide"} =>
    /\ capabilityMatches(cap, request)
    /\ scopeMatches(cap.scope, request.subject)
    /\ conditionOf(cap, request) = "true"

Checked ==
  /\ stage = "arguments" =>
       /\ DOMAIN limits.arguments # {}
       /\ \A n \in DOMAIN limits.arguments \ todo : argumentOK(limits, call.args, n)
  /\ stage \in {"limits", "decide"} => ArgumentsBroken(limits, call.args) = {}
  /\ stage = "decide" => LimitsHold(limits, call.args)

LoopInv == PolicyTypeOK /\ Passed /\ Selected /\ Checked /\ AsDeclared

(* The five checks in their order are the conjunction of the limits        *)
(* (checkConstraints, engine.go:399-446).                                  *)
LEMMA LimitsInOrder ==
  ASSUME NEW c, NEW args
  PROVE (\A i \in DOMAIN Limits : LimitOK(i, c, args)) <=> LimitsHold(c, args)
<1>1. DOMAIN Limits = 1..5
  BY DEF Limits
<1>2. (\A i \in 1..5 : LimitOK(i, c, args)) <=>
        LimitOK(1, c, args) /\ LimitOK(2, c, args) /\ LimitOK(3, c, args)
          /\ LimitOK(4, c, args) /\ LimitOK(5, c, args)
  <2>1. 1..5 = {1, 2, 3, 4, 5}
    OBVIOUS
  <2> QED BY <2>1
<1>3. /\ LimitOK(1, c, args) <=> pathOK(c, args)
      /\ LimitOK(2, c, args) <=> commandOK(c, args)
      /\ LimitOK(3, c, args) <=> domainOK(c, args)
      /\ LimitOK(4, c, args) <=> sizeOK(c, args)
      /\ LimitOK(5, c, args) <=> timeoutOK(c, args)
  BY DEF LimitOK
<1> QED BY <1>1, <1>2, <1>3 DEF LimitsHold

(* Decisions of a file are read as one of the three (normalizeDecision,    *)
(* engine.go:132-143).                                                     *)
LEMMA ReadAsOneOfThree ==
  ASSUME NEW raw
  PROVE normalizeDecision(raw) \in {"allow", "ask", "deny"}
BY DEF normalizeDecision

LEMMA InitLoopInv == Init => LoopInv
<1> SUFFICES ASSUME NEW p \in Policies, NEW r \in Requests, Start(p, r) PROVE LoopInv
  BY DEF Init
<1>1. Len(policy.capabilities) \in Nat
  BY PoliciesAssumption DEF Start
<1>2. PolicyTypeOK
  BY <1>1 DEF Start, PolicyTypeOK, Stages, Undecided
<1>3. Passed /\ Selected /\ Checked /\ AsDeclared
  BY DEF Start, Passed, Selected, Checked, AsDeclared
<1> QED BY <1>2, <1>3 DEF LoopInv

(* A denial for a broken rule of the capability looked at.                 *)
LEMMA DenialIsDeclared ==
  ASSUME LoopInv, NEW reason, DenyFor(reason),
         at \in DOMAIN policy.capabilities,
         Applies(cap, request), Ruling(cap, request) = "deny"
  PROVE LoopInv'
<1>1. /\ stage' = "done" /\ UNCHANGED <<policy, request, at, todo>>
      /\ decision' = [decision |-> "deny", rule |-> at, reason |-> reason]
  BY DEF DenyFor, Return
<1>2. at \in Nat \ {0}
  BY PoliciesAssumption DEF LoopInv, PolicyTypeOK
<1>3. PolicyTypeOK'
  BY <1>1 DEF LoopInv, PolicyTypeOK, Stages
<1>4. Passed'
  BY <1>1 DEF LoopInv, Passed, Applies, capabilityMatches, scopeMatches, conditionOf
<1>5. Selected' /\ Checked'
  BY <1>1 DEF Selected, Checked
<1>6. AsDeclared'
  BY <1>1, <1>2 DEF LoopInv, Passed, AsDeclared, cap, Applies, Ruling
<1> QED BY <1>3, <1>4, <1>5, <1>6 DEF LoopInv

LEMMA SkipKeeps == LoopInv /\ Skip => LoopInv'
<1> SUFFICES ASSUME LoopInv, Skip PROVE LoopInv'
  OBVIOUS
<1>1. /\ at \in DOMAIN policy.capabilities /\ at \in Nat \ {0}
      /\ stage = "capability" /\ at' = at + 1
      /\ UNCHANGED <<policy, request, stage, todo, decision>>
  BY PoliciesAssumption DEF Skip, Looking, LoopInv, PolicyTypeOK
<1>2. ~Applies(policy.capabilities[at], request)
  BY DEF Skip, Applies, cap
<1>3. PolicyTypeOK'
  BY <1>1, PoliciesAssumption DEF LoopInv, PolicyTypeOK
<1>4. Passed'
  <2>1. \A i \in 1..at : ~Applies(policy.capabilities[i], request)
    BY <1>1, <1>2 DEF LoopInv, Passed
  <2>2. at' - 1 = at
    BY <1>1
  <2> QED BY <1>1, <2>1, <2>2 DEF Passed
<1>5. Selected' /\ Checked' /\ AsDeclared'
  BY <1>1 DEF Selected, Checked, AsDeclared
<1> QED BY <1>3, <1>4, <1>5 DEF LoopInv

LEMMA ConditionFailsKeeps == LoopInv /\ ConditionFails => LoopInv'
<1> SUFFICES ASSUME LoopInv, ConditionFails PROVE LoopInv'
  OBVIOUS
<1>1. at \in DOMAIN policy.capabilities
  BY PoliciesAssumption DEF ConditionFails, Reached, Looking, LoopInv, PolicyTypeOK
<1>2. Applies(cap, request) /\ Ruling(cap, request) = "deny"
  BY DEF ConditionFails, Reached, Applies, Ruling
<1> QED BY <1>1, <1>2, DenialIsDeclared DEF ConditionFails

LEMMA SelectKeeps == LoopInv /\ Select => LoopInv'
<1> SUFFICES ASSUME LoopInv, Select PROVE LoopInv'
  OBVIOUS
<1>1. /\ at \in DOMAIN policy.capabilities
      /\ capabilityMatches(cap, request)
      /\ scopeMatches(cap.scope, request.subject)
      /\ conditionOf(cap, request) = "true"
      /\ UNCHANGED <<policy, request, at, decision>>
      /\ todo' = DOMAIN limits.arguments
      /\ stage' \in {"arguments", "limits"}
      /\ stage' = "arguments" <=> DOMAIN limits.arguments # {}
  BY PoliciesAssumption DEF Select, Reached, Looking, LoopInv, PolicyTypeOK
<1>2. stage = "capability"
  BY DEF Select, Reached, Looking
<1>3. PolicyTypeOK'
  BY <1>1, <1>2 DEF LoopInv, PolicyTypeOK, Stages, limits, cap
<1>4. Passed' /\ Selected' /\ AsDeclared'
  BY <1>1 DEF LoopInv, Passed, Selected, AsDeclared, cap
<1>5. Checked'
  BY <1>1 DEF Checked, ArgumentsBroken, limits, cap, call
<1> QED BY <1>3, <1>4, <1>5 DEF LoopInv

(* Where the capability is selected, it is the first that applies.         *)
LEMMA SelectedApplies ==
  ASSUME LoopInv, stage \in {"arguments", "limits", "decide"}
  PROVE at \in DOMAIN policy.capabilities /\ Applies(cap, request)
BY DEF LoopInv, PolicyTypeOK, Selected, Applies, Stages

LEMMA CheckArgumentKeeps == LoopInv /\ CheckArgument => LoopInv'
<1> SUFFICES ASSUME LoopInv, CheckArgument PROVE LoopInv'
  OBVIOUS
<1>1. PICK n \in todo :
        IF argumentOK(limits, call.args, n)
        THEN todo' = todo \ {n} /\ UNCHANGED <<policy, request, at, stage, decision>>
        ELSE DenyFor(n)
  BY DEF CheckArgument
<1>2. stage = "arguments" /\ n \in DOMAIN limits.arguments
  BY DEF CheckArgument, LoopInv, PolicyTypeOK, Stages
<1>3. CASE argumentOK(limits, call.args, n)
  <2>1. todo' = todo \ {n} /\ UNCHANGED <<policy, request, at, stage, decision>>
    BY <1>1, <1>3
  <2>2. PolicyTypeOK'
    BY <1>2, <2>1 DEF LoopInv, PolicyTypeOK, Stages, limits, cap
  <2>3. Passed' /\ Selected' /\ AsDeclared'
    BY <1>2, <2>1 DEF LoopInv, Passed, Selected, AsDeclared, cap
  <2>4. Checked'
    BY <1>2, <1>3, <2>1 DEF LoopInv, Checked, limits, cap, call
  <2> QED BY <2>2, <2>3, <2>4 DEF LoopInv
<1>4. CASE ~argumentOK(limits, call.args, n)
  <2>1. Ruling(cap, request) = "deny"
    BY <1>2, <1>4 DEF Ruling, ArgumentsBroken, limits, call
  <2> QED BY <1>1, <1>2, <1>4, <2>1, SelectedApplies, DenialIsDeclared
<1> QED BY <1>3, <1>4

LEMMA CheckUnknownKeeps == LoopInv /\ CheckUnknown => LoopInv'
<1> SUFFICES ASSUME LoopInv, CheckUnknown PROVE LoopInv'
  OBVIOUS
<1>1. /\ stage = "arguments" /\ todo = {} /\ DOMAIN limits.arguments # {}
      /\ \A n \in DOMAIN limits.arguments : argumentOK(limits, call.args, n)
  BY DEF CheckUnknown, LoopInv, Checked
<1>2. CASE UnknownArguments(limits, call.args) = {} /\ Continue("limits")
  <2>1. stage' = "limits" /\ UNCHANGED <<policy, request, at, todo, decision>>
    BY <1>2 DEF Continue
  <2>2. PolicyTypeOK'
    BY <1>1, <2>1 DEF LoopInv, PolicyTypeOK, Stages, limits, cap
  <2>3. Passed' /\ Selected' /\ AsDeclared'
    BY <1>1, <2>1 DEF LoopInv, Passed, Selected, AsDeclared, cap
  <2>4. Checked'
    BY <1>1, <1>2, <2>1 DEF Checked, ArgumentsBroken, limits, cap, call
  <2> QED BY <2>2, <2>3, <2>4 DEF LoopInv
<1>3. CASE \E n \in UnknownArguments(limits, call.args) : DenyFor(n)
  <2>1. Ruling(cap, request) = "deny"
    BY <1>1, <1>3 DEF Ruling, ArgumentsBroken, limits, call
  <2> QED BY <1>1, <1>3, <2>1, SelectedApplies, DenialIsDeclared
<1> QED BY <1>2, <1>3 DEF CheckUnknown

LEMMA CheckLimitsKeeps == LoopInv /\ CheckLimits => LoopInv'
<1> SUFFICES ASSUME LoopInv, CheckLimits PROVE LoopInv'
  OBVIOUS
<1>1. stage = "limits" /\ ArgumentsBroken(limits, call.args) = {}
  BY DEF CheckLimits, LoopInv, Checked
<1>2. CASE (\A i \in DOMAIN Limits : LimitOK(i, limits, call.args)) /\ Continue("decide")
  <2>1. stage' = "decide" /\ UNCHANGED <<policy, request, at, todo, decision>>
    BY <1>2 DEF Continue
  <2>2. LimitsHold(limits, call.args)
    BY <1>2, LimitsInOrder
  <2>3. PolicyTypeOK'
    BY <1>1, <2>1 DEF LoopInv, PolicyTypeOK, Stages, limits, cap
  <2>4. Passed' /\ Selected' /\ AsDeclared'
    BY <1>1, <2>1 DEF LoopInv, Passed, Selected, AsDeclared, cap
  <2>5. Checked'
    BY <1>1, <2>1, <2>2 DEF Checked, limits, cap, call
  <2> QED BY <2>3, <2>4, <2>5 DEF LoopInv
<1>3. CASE \E i \in DOMAIN Limits :
             ~LimitOK(i, limits, call.args) /\ DenyFor(Limits[i])
  <2>1. ~LimitsHold(limits, call.args)
    BY <1>3, LimitsInOrder
  <2>2. Ruling(cap, request) = "deny"
    BY <2>1 DEF Ruling, limits, call
  <2> QED BY <1>1, <1>3, <2>2, SelectedApplies, DenialIsDeclared
<1> QED BY <1>2, <1>3 DEF CheckLimits

LEMMA HonourKeeps == LoopInv /\ Honour => LoopInv'
<1> SUFFICES ASSUME LoopInv, Honour PROVE LoopInv'
  OBVIOUS
<1>1. stage = "decide" /\ at \in DOMAIN policy.capabilities /\ at \in Nat \ {0}
  BY PoliciesAssumption DEF Honour, LoopInv, PolicyTypeOK, Stages
<1>2. Applies(cap, request) /\ Ruling(cap, request) = Granting(cap)
  BY <1>1, SelectedApplies DEF LoopInv, Selected, Checked, Ruling, limits, call
<1>3. /\ stage' = "done" /\ UNCHANGED <<policy, request, at, todo>>
      /\ decision'.decision = Granting(cap) /\ decision'.rule = at
  BY DEF Honour, Return, Granting
<1>4. Granting(cap) \in {"allow", "ask", "deny"}
  BY ReadAsOneOfThree DEF Granting
<1>5. PolicyTypeOK'
  BY <1>1, <1>3, <1>4 DEF LoopInv, PolicyTypeOK, Stages
<1>6. Passed' /\ Selected' /\ Checked'
  BY <1>1, <1>3 DEF LoopInv, Passed, Selected, Checked
<1>7. AsDeclared'
  BY <1>1, <1>2, <1>3 DEF LoopInv, Passed, AsDeclared, cap, Applies, Ruling
<1> QED BY <1>5, <1>6, <1>7 DEF LoopInv

LEMMA DefaultKeeps == LoopInv /\ Default => LoopInv'
<1> SUFFICES ASSUME LoopInv, Default PROVE LoopInv'
  OBVIOUS
<1>1. stage = "capability" /\ at = Len(policy.capabilities) + 1
  BY PoliciesAssumption DEF Default, LoopInv, PolicyTypeOK
<1>2. /\ stage' = "done" /\ UNCHANGED <<policy, request, at, todo>>
      /\ decision'.decision = normalizeDecision(policy.default) /\ decision'.rule = 0
  BY DEF Default, Return
<1>3. PolicyTypeOK'
  BY <1>1, <1>2, ReadAsOneOfThree DEF LoopInv, PolicyTypeOK, Stages
<1>4. Passed' /\ Selected' /\ Checked'
  BY <1>2 DEF LoopInv, Passed, Selected, Checked
<1>5. \A i \in DOMAIN policy.capabilities : ~Applies(policy.capabilities[i], request)
  BY <1>1, PoliciesAssumption DEF LoopInv, PolicyTypeOK, Passed
<1>6. AsDeclared'
  BY <1>2, <1>5 DEF AsDeclared
<1> QED BY <1>3, <1>4, <1>6 DEF LoopInv

LEMMA StutterKeeps == LoopInv /\ UNCHANGED vars => LoopInv'
BY DEF LoopInv, PolicyTypeOK, Passed, Selected, Checked, AsDeclared, vars, cap, limits, call

(* The loop invariant holds throughout an evaluation.                      *)
THEOREM EvaluationInvariant == Spec => []LoopInv
<1>1. LoopInv /\ [Next]_vars => LoopInv'
  BY SkipKeeps, ConditionFailsKeeps, SelectKeeps, CheckArgumentKeeps, CheckUnknownKeeps,
     CheckLimitsKeeps, HonourKeeps, DefaultKeeps, StutterKeeps DEF Next, Evaluate, Stopped
<1> QED BY InitLoopInv, <1>1, PTL DEF Spec

(* Each stage holds what it should (the loop of Evaluate, engine.go:57-94).*)
THEOREM EvaluationTypeCorrect == Spec => []PolicyTypeOK
<1>1. LoopInv => PolicyTypeOK
  BY DEF LoopInv
<1> QED BY EvaluationInvariant, <1>1, PTL

(* Evaluate's decision is the one the policy file declares, in whatever    *)
(* order the arguments are visited (engine.go:54-108).                     *)
THEOREM DecidesAsDeclared == Spec => []AsDeclared
<1>1. LoopInv => AsDeclared
  BY DEF LoopInv
<1> QED BY EvaluationInvariant, <1>1, PTL

(***************************************************************************)
(* The matchers.                                                           *)
(***************************************************************************)
(* What holds at n + 1, and at i if at i + 1, holds from 1 on.             *)
LEMMA Downward ==
  ASSUME NEW n \in Nat, NEW T, n + 1 \in T, \A i \in 1..n : i + 1 \in T => i \in T
  PROVE  \A i \in 1..(n + 1) : i \in T
<1> DEFINE Gap == {k \in Nat : k <= n /\ n + 1 - k \notin T}
<1>1. ASSUME Gap # {} PROVE FALSE
  <2>1. PICK m \in Gap : \A k \in Gap : <<k, m>> \notin OpToRel(<, Nat)
    <3>1. Gap \in SUBSET Nat
      OBVIOUS
    <3> HIDE DEF Gap
    <3> QED BY <1>1, <3>1, WFMin, NatLessThanWellFounded, Zenon
  <2>2. m \in Nat /\ m <= n /\ n + 1 - m \notin T
    OBVIOUS
  <2>3. m # 0
    BY <2>2
  <2>4. m - 1 \in Nat /\ m - 1 <= n /\ n + 1 - m \in 1..n /\ (n + 1 - m) + 1 = n + 1 - (m - 1)
    BY <2>2, <2>3
  <2>5. n + 1 - (m - 1) \notin T
    BY <2>2, <2>4
  <2>6. m - 1 \in Gap
    BY <2>4, <2>5
  <2>7. <<m - 1, m>> \in OpToRel(<, Nat)
    BY <2>2, <2>4 DEF OpToRel
  <2> QED BY <2>1, <2>6, <2>7
<1>2. ASSUME NEW i \in 1..(n + 1) PROVE i \in T
  <2>1. n + 1 - i \in Nat /\ n + 1 - i <= n /\ n + 1 - (n + 1 - i) = i
    OBVIOUS
  <2>2. ASSUME i \notin T PROVE n + 1 - i \in Gap
    <3> DEFINE k == n + 1 - i
    <3>1. k \in Nat /\ k <= n /\ n + 1 - k \notin T
      BY <2>1, <2>2
    <3> HIDE DEF k
    <3>2. k \in Gap
      BY <3>1
    <3> QED BY <3>2 DEF k
  <2> HIDE DEF Gap
  <2> QED BY <1>1, <2>2
<1> QED BY <1>2

(* A function that is given at n + 1 and at i by what it is at i + 1.      *)
Rows(f, a, n, base, step) ==
  \A i \in a..(n + 1) : f[i] = IF i = n + 1 THEN base ELSE step[i][f[i + 1]]

(* There is one, whatever the steps.                                       *)
LEMMA RowsExist ==
  ASSUME NEW n \in Nat, NEW P, NEW base \in P, NEW step \in [1..n -> [P -> P]]
  PROVE  \E f \in [1..(n + 1) -> P] : Rows(f, 1, n, base, step)
<1> DEFINE T == {i \in 1..(n + 1) : \E f \in [i..(n + 1) -> P] : Rows(f, i, n, base, step)}
<1>1. n + 1 \in T
  <2> DEFINE f == [i \in (n + 1)..(n + 1) |-> base]
  <2>1. f \in [(n + 1)..(n + 1) -> P] /\ Rows(f, n + 1, n, base, step)
    BY DEF Rows
  <2> HIDE DEF f
  <2>2. n + 1 \in 1..(n + 1)
    OBVIOUS
  <2> QED BY <2>1, <2>2
<1>2. ASSUME NEW i \in 1..n, i + 1 \in T PROVE i \in T
  <2>1. PICK e \in [(i + 1)..(n + 1) -> P] : Rows(e, i + 1, n, base, step)
    BY <1>2
  <2> DEFINE f == [j \in i..(n + 1) |-> IF j = i THEN step[i][e[i + 1]] ELSE e[j]]
  <2>2. e[i + 1] \in P /\ step[i][e[i + 1]] \in P
    <3>1. i + 1 \in (i + 1)..(n + 1)
      OBVIOUS
    <3> QED BY <2>1, <3>1
  <2>3. f \in [i..(n + 1) -> P]
    <3>1. \A j \in i..(n + 1) : j # i => j \in (i + 1)..(n + 1)
      OBVIOUS
    <3> QED BY <2>1, <2>2, <3>1
  <2>4. /\ f[i] = step[i][e[i + 1]]
        /\ \A j \in (i + 1)..(n + 1) : f[j] = e[j]
    OBVIOUS
  <2> HIDE DEF f
  <2>5. Rows(f, i, n, base, step)
    <3> SUFFICES ASSUME NEW j \in i..(n + 1)
                 PROVE  f[j] = IF j = n + 1 THEN base ELSE step[j][f[j + 1]]
      BY DEF Rows
    <3>1. CASE j = i
      <4>1. j # n + 1 /\ i + 1 \in (i + 1)..(n + 1)
        BY <3>1
      <4> QED BY <2>4, <3>1, <4>1
    <3>2. CASE j # i
      <4>1. j \in (i + 1)..(n + 1) /\ (j # n + 1 => j + 1 \in (i + 1)..(n + 1))
        BY <3>2
      <4>2. e[j] = IF j = n + 1 THEN base ELSE step[j][e[j + 1]]
        BY <2>1, <4>1 DEF Rows
      <4> QED BY <2>4, <4>1, <4>2
    <3> QED BY <3>1, <3>2
  <2>6. i \in 1..(n + 1)
    OBVIOUS
  <2> QED BY <2>3, <2>5, <2>6
<1>3. 1 \in T
  <2> HIDE DEF T
  <2>1. \A i \in 1..(n + 1) : i \in T
    BY <1>1, <1>2, Downward
  <2> QED BY <2>1
<1> QED BY <1>3

(* The value from place e[a] on, cut into one piece per character of the   *)
(* pattern from a on.                                                      *)
CutFrom(e, pattern, value, free, a) ==
  /\ e \in [a..(Len(pattern) + 1) -> Positions(value)]
  /\ e[Len(pattern) + 1] = Len(value) + 1
  /\ \A x \in a..Len(pattern) : Fits(pattern, value, free, x, e[x], e[x + 1])

(* The places from which row i + 1 can be reached with a piece that fits.  *)
Reach(pattern, value, free, i, rest) ==
  {j \in Positions(value) : \E k \in rest : Fits(pattern, value, free, i, j, k)}

(* The places from which the rest of the value fits the pattern from i on. *)
Backwards(f, pattern, value, free) ==
  /\ f \in [1..(Len(pattern) + 1) -> SUBSET Positions(value)]
  /\ f[Len(pattern) + 1] = {Len(value) + 1}
  /\ \A i \in 1..Len(pattern) : f[i] = Reach(pattern, value, free, i, f[i + 1])

(* From these places, and only from them, the value can be cut.            *)
LEMMA RowsAreCuts ==
  ASSUME NEW Char, NEW p \in Seq(Char), NEW v \in Seq(Char), NEW free,
         NEW f, Backwards(f, p, v, free)
  PROVE  \A i \in 1..(Len(p) + 1) : \A j \in Positions(v) :
           j \in f[i] <=> \E e : CutFrom(e, p, v, free, i) /\ e[i] = j
<1> DEFINE n == Len(p)
           Meant(i) == \A j \in Positions(v) :
                         j \in f[i] <=> \E e : CutFrom(e, p, v, free, i) /\ e[i] = j
           T == {i \in 1..(n + 1) : Meant(i)}
<1>0. n \in Nat /\ Len(v) \in Nat /\ Len(v) + 1 \in Positions(v)
  BY DEF Positions
<1> HIDE DEF n
<1>1. n + 1 \in T
  <2> SUFFICES ASSUME NEW j \in Positions(v)
               PROVE  j \in f[n + 1] <=> \E e : CutFrom(e, p, v, free, n + 1) /\ e[n + 1] = j
    BY <1>0
  <2>1. j \in f[n + 1] <=> j = Len(v) + 1
    BY DEF Backwards, n
  <2>2. ASSUME j = Len(v) + 1 PROVE \E e : CutFrom(e, p, v, free, n + 1) /\ e[n + 1] = j
    <3> DEFINE e == [i \in (n + 1)..(n + 1) |-> j]
    <3>1. /\ e \in [(n + 1)..(n + 1) -> Positions(v)] /\ e[n + 1] = j
          /\ \A x \in (n + 1)..n : FALSE
      BY <1>0
    <3> HIDE DEF e
    <3>2. CutFrom(e, p, v, free, n + 1)
      BY <2>2, <3>1 DEF CutFrom, n
    <3> QED BY <3>1, <3>2
  <2>3. ASSUME NEW e, CutFrom(e, p, v, free, n + 1), e[n + 1] = j PROVE j = Len(v) + 1
    BY <2>3 DEF CutFrom, n
  <2> QED BY <2>1, <2>2, <2>3
<1>2. ASSUME NEW i \in 1..n, i + 1 \in T PROVE i \in T
  <2>0. i + 1 \in 1..(n + 1) /\ i \in 1..(n + 1) /\ Meant(i + 1)
    BY <1>0, <1>2
  <2> SUFFICES ASSUME NEW j \in Positions(v)
               PROVE  j \in f[i] <=> \E e : CutFrom(e, p, v, free, i) /\ e[i] = j
    BY <2>0
  <2>1. j \in f[i] <=> \E k \in f[i + 1] : Fits(p, v, free, i, j, k)
    BY <2>0 DEF Backwards, Reach, n
  <2>2. f[i + 1] \subseteq Positions(v)
    BY <2>0 DEF Backwards, n
  <2>3. ASSUME NEW k \in f[i + 1], Fits(p, v, free, i, j, k)
        PROVE  \E e : CutFrom(e, p, v, free, i) /\ e[i] = j
    <3>1. PICK d : CutFrom(d, p, v, free, i + 1) /\ d[i + 1] = k
      BY <2>0, <2>2
    <3> DEFINE e == [x \in i..(n + 1) |-> IF x = i THEN j ELSE d[x]]
    <3>2. /\ d \in [(i + 1)..(n + 1) -> Positions(v)]
          /\ d[n + 1] = Len(v) + 1
          /\ \A x \in (i + 1)..n : Fits(p, v, free, x, d[x], d[x + 1])
      BY <3>1 DEF CutFrom, n
    <3>3. \A x \in i..(n + 1) : x # i => x \in (i + 1)..(n + 1)
      BY <1>0
    <3>4. e \in [i..(n + 1) -> Positions(v)]
      BY <3>2, <3>3
    <3>5. /\ e[i] = j /\ \A x \in (i + 1)..(n + 1) : e[x] = d[x]
          /\ e[n + 1] = d[n + 1]
      BY <1>0
    <3> HIDE DEF e
    <3>6. ASSUME NEW x \in i..n PROVE Fits(p, v, free, x, e[x], e[x + 1])
      <4>1. CASE x = i
        <5>1. e[x] = j /\ e[x + 1] = k
          BY <1>0, <3>1, <3>5, <4>1
        <5> QED BY <2>3, <4>1, <5>1
      <4>2. CASE x # i
        <5>1. x \in (i + 1)..n /\ x \in (i + 1)..(n + 1) /\ x + 1 \in (i + 1)..(n + 1)
          BY <1>0, <4>2
        <5>2. e[x] = d[x] /\ e[x + 1] = d[x + 1]
          BY <3>5, <5>1
        <5> QED BY <3>2, <5>1, <5>2
      <4> QED BY <4>1, <4>2
    <3>7. CutFrom(e, p, v, free, i)
      BY <3>2, <3>4, <3>5, <3>6 DEF CutFrom, n
    <3> QED BY <3>5, <3>7
  <2>4. ASSUME NEW e, CutFrom(e, p, v, free, i), e[i] = j
        PROVE  \E k \in f[i + 1] : Fits(p, v, free, i, j, k)
    <3>1. /\ e \in [i..(n + 1) -> Positions(v)]
          /\ e[n + 1] = Len(v) + 1
          /\ \A x \in i..n : Fits(p, v, free, x, e[x], e[x + 1])
      BY <2>4 DEF CutFrom, n
    <3> DEFINE d == [x \in (i + 1)..(n + 1) |-> e[x]]
    <3>2. /\ \A x \in (i + 1)..(n + 1) : x \in i..(n + 1) /\ d[x] = e[x]
          /\ i + 1 \in (i + 1)..(n + 1) /\ n + 1 \in (i + 1)..(n + 1)
      BY <1>0
    <3>3. d \in [(i + 1)..(n + 1) -> Positions(v)]
      BY <3>1, <3>2
    <3> HIDE DEF d
    <3>4. ASSUME NEW x \in (i + 1)..n PROVE Fits(p, v, free, x, d[x], d[x + 1])
      <4>1. x \in i..n /\ x \in (i + 1)..(n + 1) /\ x + 1 \in (i + 1)..(n + 1)
        BY <1>0
      <4> QED BY <3>1, <3>2, <4>1
    <3>5. CutFrom(d, p, v, free, i + 1)
      BY <3>1, <3>2, <3>3, <3>4 DEF CutFrom, n
    <3>6. d[i + 1] \in Positions(v)
      BY <3>2, <3>3
    <3>7. d[i + 1] \in f[i + 1]
      BY <2>0, <3>5, <3>6
    <3>8. i \in i..n /\ d[i + 1] = e[i + 1]
      BY <1>0, <3>2
    <3> QED BY <2>4, <3>1, <3>7, <3>8
  <2> QED BY <2>1, <2>3, <2>4
<1> HIDE DEF T
<1>3. \A i \in 1..(n + 1) : i \in T
  BY <1>0, <1>1, <1>2, Downward
<1> QED BY <1>3 DEF T, n

(* A step of filepathMatch reaches what a piece that fits reaches.         *)
LEMMA PathReach ==
  ASSUME NEW Char, NEW p \in Seq(Char), NEW v \in Seq(Char), NEW i \in 1..Len(p),
         NEW rest \in SUBSET Positions(v)
  PROVE  PathStep(p, v, i, rest) = Reach(p, v, Char \ {"/"}, i, rest)
<1>1. Len(v) \in Nat /\ \A l \in 1..Len(v) : v[l] \in Char
  OBVIOUS
<1>2. \A k \in rest : k \in 1..(Len(v) + 1)
  BY DEF Positions
<1>3. CASE p[i] = "*"
  <2>1. ASSUME NEW j \in Positions(v), NEW k \in rest
        PROVE  (\A l \in j..(k - 1) : v[l] # "/") <=> \A l \in j..(k - 1) : v[l] \in Char \ {"/"}
    <3>1. \A l \in j..(k - 1) : l \in 1..Len(v)
      BY <1>1, <1>2 DEF Positions
    <3> QED BY <1>1, <3>1
  <2>2. PathStep(p, v, i, rest) =
          {j \in Positions(v) : \E k \in rest : j <= k /\ \A l \in j..(k - 1) : v[l] # "/"}
    BY <1>3 DEF PathStep
  <2>3. Reach(p, v, Char \ {"/"}, i, rest) =
          {j \in Positions(v) : \E k \in rest :
             j <= k /\ \A l \in j..(k - 1) : v[l] \in Char \ {"/"}}
    BY <1>3 DEF Reach, Fits
  <2> QED BY <2>1, <2>2, <2>3
<1>4. CASE p[i] # "*"
  <2>1. PathStep(p, v, i, rest) =
          {j \in 1..Len(v) : /\ p[i] = v[j] \/ (p[i] = "?" /\ v[j] # "/")
                             /\ j + 1 \in rest}
    BY <1>4 DEF PathStep
  <2>2. Reach(p, v, Char \ {"/"}, i, rest) =
          {j \in Positions(v) : \E k \in rest :
             /\ k = j + 1 /\ j <= Len(v)
             /\ p[i] = v[j] \/ (p[i] = "?" /\ v[j] \in Char \ {"/"})}
    BY <1>4 DEF Reach, Fits
  <2>3. \A j : j \in 1..Len(v) <=> j \in Positions(v) /\ j <= Len(v)
    BY <1>1 DEF Positions
  <2> QED BY <1>1, <2>1, <2>2, <2>3
<1> QED BY <1>3, <1>4

(* filepathMatch walks back over the places that can be reached.           *)
LEMMA PathRows ==
  ASSUME NEW Char, NEW p \in Seq(Char), NEW v \in Seq(Char)
  PROVE  \E f : Backwards(f, p, v, Char \ {"/"}) /\ (filepathMatch(p, v) <=> 1 \in f[1])
<1> DEFINE n == Len(p)
           P == SUBSET Positions(v)
           from == CHOOSE f : f = [i \in 1..(n + 1) |->
                     IF i = n + 1 THEN {Len(v) + 1} ELSE PathStep(p, v, i, f[i + 1])]
           step == [i \in 1..n |-> [R \in P |-> PathStep(p, v, i, R)]]
<1>1. n \in Nat /\ Len(v) \in Nat /\ {Len(v) + 1} \in P
  BY DEF Positions
<1>2. \A i \in 1..n : \A R \in P : PathStep(p, v, i, R) \in P
  <2>1. \A i \in 1..n : \A R \in P : PathStep(p, v, i, R) = Reach(p, v, Char \ {"/"}, i, R)
    BY PathReach
  <2> QED BY <2>1 DEF Reach
<1>3. step \in [1..n -> [P -> P]]
  BY <1>2
<1>4. \A i \in 1..n : \A R \in P : step[i][R] = PathStep(p, v, i, R)
  OBVIOUS
<1>5. filepathMatch(p, v) <=> 1 \in from[1]
  BY DEF filepathMatch
<1> HIDE DEF n, P, step
<1>6. PICK g \in [1..(n + 1) -> P] : Rows(g, 1, n, {Len(v) + 1}, step)
  BY <1>1, <1>3, RowsExist
<1>7. \A i \in 1..(n + 1) :
        g[i] = IF i = n + 1 THEN {Len(v) + 1} ELSE PathStep(p, v, i, g[i + 1])
  <2> SUFFICES ASSUME NEW i \in 1..(n + 1)
               PROVE  g[i] = IF i = n + 1 THEN {Len(v) + 1} ELSE PathStep(p, v, i, g[i + 1])
    OBVIOUS
  <2>1. g[i] = IF i = n + 1 THEN {Len(v) + 1} ELSE step[i][g[i + 1]]
    BY <1>6 DEF Rows
  <2>2. i # n + 1 => i \in 1..n /\ g[i + 1] \in P
    BY <1>1, <1>6
  <2> QED BY <1>4, <2>1, <2>2
<1>8. g = [i \in 1..(n + 1) |-> IF i = n + 1 THEN {Len(v) + 1} ELSE PathStep(p, v, i, g[i + 1])]
  BY <1>6, <1>7
<1>9. from = [i \in 1..(n + 1) |->
                IF i = n + 1 THEN {Len(v) + 1} ELSE PathStep(p, v, i, from[i + 1])]
  BY <1>8
<1> HIDE DEF from
<1>10. \A i \in 1..(n + 1) : from[i] \in P
  <2>1. \A i \in 1..(n + 1) : \A R : PathStep(p, v, i, R) \in P
    BY DEF PathStep, Positions, P
  <2> QED BY <1>1, <1>9, <2>1
<1>11. from \in [1..(n + 1) -> P]
  BY <1>9, <1>10
<1>12. from[n + 1] = {Len(v) + 1}
  BY <1>1, <1>9
<1>13. ASSUME NEW i \in 1..n PROVE from[i] = Reach(p, v, Char \ {"/"}, i, from[i + 1])
  <2>1. i \in 1..(n + 1) /\ i # n + 1 /\ i + 1 \in 1..(n + 1)
    BY <1>1
  <2>2. from[i] = PathStep(p, v, i, from[i + 1])
    BY <1>9, <2>1
  <2> QED BY <1>11, <2>1, <2>2, PathReach DEF n, P
<1>14. Backwards(from, p, v, Char \ {"/"})
  BY <1>11, <1>12, <1>13 DEF Backwards, n, P
<1> QED BY <1>5, <1>14

(* The pattern matches the value: the value can be cut into one piece for  *)
(* each character of the pattern.                                          *)
Cut(e, pattern, value, free) == CutFrom(e, pattern, value, free, 1) /\ e[1] = 1

(* A path pattern matches exactly the paths that can be cut into pieces    *)
(* its characters stand for, a star and ? for no slash (filepath.Match as  *)
(* matchGlob uses it, engine.go:781-797).                                  *)
THEOREM PathPatternIsCut ==
  ASSUME NEW Char, NEW p \in Seq(Char), NEW v \in Seq(Char)
  PROVE  filepathMatch(p, v) <=> \E e : Cut(e, p, v, Char \ {"/"})
<1>1. PICK f : Backwards(f, p, v, Char \ {"/"}) /\ (filepathMatch(p, v) <=> 1 \in f[1])
  BY PathRows
<1>2. 1 \in 1..(Len(p) + 1) /\ 1 \in Positions(v)
  BY DEF Positions
<1>3. 1 \in f[1] <=> \E e : CutFrom(e, p, v, Char \ {"/"}, 1) /\ e[1] = 1
  BY <1>1, <1>2, RowsAreCuts
<1> QED BY <1>1, <1>3 DEF Cut

(* A step of shellGlobMatch has only places of the value.                  *)
LEMMA ShellPlaces ==
  ASSUME NEW p, NEW v, Len(v) \in Nat, NEW i, NEW rest
  PROVE  ShellStep(p, v, i, rest) \in SUBSET Positions(v)
BY DEF ShellStep, Positions

(* A stretch that a star may take may begin earlier.                       *)
Closed(R, v) == \A k \in R : \A j \in Positions(v) : j <= k => j \in R

(* A step of shellGlobMatch reaches what a piece that fits reaches, if     *)
(* what comes after it is what a star takes or the end.                    *)
LEMMA ShellReach ==
  ASSUME NEW Char, NEW p \in Seq(Char), NEW v \in Seq(Char), NEW i \in 1..Len(p),
         NEW rest \in SUBSET Positions(v),
         i = Len(p) => rest = {Len(v) + 1},
         i # Len(p) /\ p[i + 1] = "*" => Closed(rest, v)
  PROVE  /\ ShellStep(p, v, i, rest) = Reach(p, v, Char, i, rest)
         /\ p[i] = "*" => Closed(ShellStep(p, v, i, rest), v)
<1>1. Len(v) \in Nat /\ \A l \in 1..Len(v) : v[l] \in Char
  OBVIOUS
<1>2. \A k \in rest : k \in 1..(Len(v) + 1)
  BY DEF Positions
<1>3. CASE p[i] = "*"
  <2>1. \A j \in Positions(v), k \in rest : \A l \in j..(k - 1) : v[l] \in Char
    <3>1. \A j \in Positions(v), k \in rest : \A l \in j..(k - 1) : l \in 1..Len(v)
      BY <1>1, <1>2 DEF Positions
    <3> QED BY <1>1, <3>1
  <2>2. Reach(p, v, Char, i, rest) = {j \in Positions(v) : \E k \in rest : j <= k}
    BY <1>3, <2>1 DEF Reach, Fits
  <2>3. ShellStep(p, v, i, rest) = {j \in Positions(v) : \E k \in rest : j <= k}
    <3>1. CASE i = Len(p)
      <4>1. \A j \in Positions(v) : j <= Len(v) + 1
        BY <1>1 DEF Positions
      <4> QED BY <1>3, <3>1, <4>1 DEF ShellStep
    <3>2. CASE i # Len(p) /\ p[i + 1] = "*"
      <4>1. ShellStep(p, v, i, rest) = {j \in Positions(v) : j \in rest}
        BY <1>3, <3>2 DEF ShellStep
      <4>2. \A j \in Positions(v) : j <= j
        BY <1>1 DEF Positions
      <4> QED BY <3>2, <4>1, <4>2 DEF Closed
    <3>3. CASE i # Len(p) /\ p[i + 1] # "*"
      BY <1>3, <3>3 DEF ShellStep
    <3> QED BY <3>1, <3>2, <3>3
  <2>4. \A j, k \in Positions(v) : \A m \in rest : j <= k /\ k <= m => j <= m
    BY <1>1, <1>2 DEF Positions
  <2>5. Closed(ShellStep(p, v, i, rest), v)
    BY <2>3, <2>4 DEF Closed
  <2> QED BY <2>2, <2>3, <2>5
<1>4. CASE p[i] # "*"
  <2>1. ShellStep(p, v, i, rest) = {j \in 1..Len(v) : p[i] \in {"?", v[j]} /\ j + 1 \in rest}
    BY <1>4 DEF ShellStep
  <2>2. Reach(p, v, Char, i, rest) =
          {j \in Positions(v) : \E k \in rest :
             /\ k = j + 1 /\ j <= Len(v)
             /\ p[i] = v[j] \/ (p[i] = "?" /\ v[j] \in Char)}
    BY <1>4 DEF Reach, Fits
  <2>3. \A j : j \in 1..Len(v) <=> j \in Positions(v) /\ j <= Len(v)
    BY <1>1 DEF Positions
  <2> QED BY <1>1, <1>4, <2>1, <2>2, <2>3
<1> QED BY <1>3, <1>4

(* shellGlobMatch walks back over the places that can be reached, although *)
(* it looks at one star of a row only.                                     *)
LEMMA ShellRows ==
  ASSUME NEW Char, NEW p \in Seq(Char), NEW v \in Seq(Char)
  PROVE  \E f : Backwards(f, p, v, Char) /\ (shellGlobMatch(p, v) <=> 1 \in f[1])
<1> DEFINE n == Len(p)
           P == SUBSET Positions(v)
           from == CHOOSE f : f = [i \in 1..(n + 1) |->
                     IF i = n + 1 THEN {Len(v) + 1} ELSE ShellStep(p, v, i, f[i + 1])]
           step == [i \in 1..n |-> [R \in P |-> ShellStep(p, v, i, R)]]
<1>1. n \in Nat /\ Len(v) \in Nat /\ {Len(v) + 1} \in P
  BY DEF Positions
<1>2. \A i, R : ShellStep(p, v, i, R) \in P
  BY <1>1, ShellPlaces
<1>3. step \in [1..n -> [P -> P]]
  BY <1>2
<1>4. \A i \in 1..n : \A R \in P : step[i][R] = ShellStep(p, v, i, R)
  OBVIOUS
<1>5. shellGlobMatch(p, v) <=> 1 \in from[1]
  BY DEF shellGlobMatch
<1> HIDE DEF n, P, step
<1>6. PICK g \in [1..(n + 1) -> P] : Rows(g, 1, n, {Len(v) + 1}, step)
  BY <1>1, <1>3, RowsExist
<1>7. \A i \in 1..(n + 1) :
        g[i] = IF i = n + 1 THEN {Len(v) + 1} ELSE ShellStep(p, v, i, g[i + 1])
  <2> SUFFICES ASSUME NEW i \in 1..(n + 1)
               PROVE  g[i] = IF i = n + 1 THEN {Len(v) + 1} ELSE ShellStep(p, v, i, g[i + 1])
    OBVIOUS
  <2>1. g[i] = IF i = n + 1 THEN {Len(v) + 1} ELSE step[i][g[i + 1]]
    BY <1>6 DEF Rows
  <2>2. i # n + 1 => i \in 1..n /\ g[i + 1] \in P
    BY <1>1, <1>6
  <2> QED BY <1>4, <2>1, <2>2
<1>8. g = [i \in 1..(n + 1) |-> IF i = n + 1 THEN {Len(v) + 1} ELSE ShellStep(p, v, i, g[i + 1])]
  BY <1>6, <1>7
<1>9. from = [i \in 1..(n + 1) |->
                IF i = n + 1 THEN {Len(v) + 1} ELSE ShellStep(p, v, i, from[i + 1])]
  BY <1>8
<1> HIDE DEF from
<1>10. \A i \in 1..(n + 1) : from[i] \in P
  BY <1>1, <1>2, <1>9
<1>11. from \in [1..(n + 1) -> P]
  BY <1>9, <1>10
<1>12. from[n + 1] = {Len(v) + 1}
  BY <1>1, <1>9
<1> DEFINE T == {i \in 1..(n + 1) : i # n + 1 =>
                   /\ from[i] = Reach(p, v, Char, i, from[i + 1])
                   /\ p[i] = "*" => Closed(from[i], v)}
<1>13. n + 1 \in T
  BY <1>1
<1>14. ASSUME NEW i \in 1..n, i + 1 \in T PROVE i \in T
  <2>1. i \in 1..(n + 1) /\ i # n + 1 /\ i + 1 \in 1..(n + 1)
    BY <1>1
  <2>2. from[i] = ShellStep(p, v, i, from[i + 1])
    BY <1>9, <2>1
  <2>3. from[i + 1] \in SUBSET Positions(v)
    BY <1>10, <2>1 DEF P
  <2>4. i = n => from[i + 1] = {Len(v) + 1}
    BY <1>12
  <2>5. i # n /\ p[i + 1] = "*" => Closed(from[i + 1], v)
    <3>1. i # n => i + 1 # n + 1
      BY <1>1
    <3> QED BY <1>14, <3>1
  <2>6. /\ ShellStep(p, v, i, from[i + 1]) = Reach(p, v, Char, i, from[i + 1])
        /\ p[i] = "*" => Closed(ShellStep(p, v, i, from[i + 1]), v)
    BY <2>3, <2>4, <2>5, ShellReach DEF n
  <2> QED BY <2>1, <2>2, <2>6
<1> HIDE DEF T
<1>15. \A i \in 1..(n + 1) : i \in T
  BY <1>1, <1>13, <1>14, Downward
<1>16. \A i \in 1..n : from[i] = Reach(p, v, Char, i, from[i + 1])
  <2>1. \A i \in 1..n : i \in 1..(n + 1) /\ i # n + 1
    BY <1>1
  <2> QED BY <1>15, <2>1 DEF T
<1>17. Backwards(from, p, v, Char)
  BY <1>11, <1>12, <1>16 DEF Backwards, n, P
<1> QED BY <1>5, <1>17

(* A command pattern matches exactly the commands that can be cut into     *)
(* pieces its characters stand for: neither the row of stars that is       *)
(* skipped nor the early return for a trailing one changes that            *)
(* (shellGlobMatch, engine.go:812-849).                                    *)
THEOREM CommandPatternIsCut ==
  ASSUME NEW Char, NEW p \in Seq(Char), NEW v \in Seq(Char)
  PROVE  shellGlobMatch(p, v) <=> \E e : Cut(e, p, v, Char)
<1>1. PICK f : Backwards(f, p, v, Char) /\ (shellGlobMatch(p, v) <=> 1 \in f[1])
  BY ShellRows
<1>2. 1 \in 1..(Len(p) + 1) /\ 1 \in Positions(v)
  BY DEF Positions
<1>3. 1 \in f[1] <=> \E e : CutFrom(e, p, v, Char, 1) /\ e[1] = 1
  BY <1>1, <1>2, RowsAreCuts
<1> QED BY <1>1, <1>3 DEF Cut

(* A path pattern matches no more than the same command pattern (matchGlob *)
(* and matchShellGlob, engine.go:781-810).                                 *)
THEOREM PathsWithinCommands ==
  ASSUME NEW Char, NEW p \in Seq(Char), NEW v \in Seq(Char), matchGlob(p, v)
  PROVE  matchShellGlob(p, v)
<1>1. CASE DoubleStars(p) # {}
  BY <1>1 DEF matchGlob, matchShellGlob
<1>2. CASE DoubleStars(p) = {}
  <2>1. PICK e : Cut(e, p, v, Char \ {"/"})
    BY <1>2, PathPatternIsCut DEF matchGlob
  <2>2. \A x, j, k : Fits(p, v, Char \ {"/"}, x, j, k) => Fits(p, v, Char, x, j, k)
    BY DEF Fits
  <2>3. Cut(e, p, v, Char)
    BY <2>1, <2>2 DEF Cut, CutFrom
  <2> QED BY <1>2, <2>3, CommandPatternIsCut DEF matchShellGlob
<1> QED BY <1>1, <1>2

(* A path pattern without ** reaches into no other directory level: each   *)
(* slash of the path is one of the pattern (engine.go:790-797).            *)
THEOREM SlashesArePatterned ==
  ASSUME NEW Char, NEW p \in Seq(Char), NEW v \in Seq(Char),
         DoubleStars(p) = {}, matchGlob(p, v)
  PROVE  \E e : /\ Cut(e, p, v, Char \ {"/"})
                /\ \A l \in 1..Len(v) : v[l] = "/" =>
                     \E x \in 1..Len(p) : p[x] = "/" /\ e[x] = l
<1>1. PICK e : Cut(e, p, v, Char \ {"/"})
  BY PathPatternIsCut DEF matchGlob
<1> DEFINE n == Len(p)
<1>4. n \in Nat /\ Len(v) \in Nat
  OBVIOUS
<1>2. /\ e \in [1..(n + 1) -> Positions(v)] /\ e[1] = 1 /\ e[n + 1] = Len(v) + 1
      /\ \A x \in 1..n : Fits(p, v, Char \ {"/"}, x, e[x], e[x + 1])
  BY <1>1, Zenon DEF Cut, CutFrom
<1> HIDE DEF n
<1>3. ASSUME NEW l \in 1..Len(v), v[l] = "/",
             \A x \in 1..n : ~(p[x] = "/" /\ e[x] = l)
      PROVE  FALSE
  <2> DEFINE T == {x \in 1..(n + 1) : l < e[x]}
  <2>1. n + 1 \in T
    BY <1>2, <1>4
  <2>2. ASSUME NEW x \in 1..n, x + 1 \in T PROVE x \in T
    <3>0. x \in 1..(n + 1) /\ l < e[x + 1]
      BY <1>4, <2>2
    <3>1. Fits(p, v, Char \ {"/"}, x, e[x], e[x + 1]) /\ l < e[x + 1]
      BY <1>2, <3>0
    <3>2. e[x] \in 1..(Len(v) + 1) /\ e[x + 1] \in 1..(Len(v) + 1)
      BY <1>2, <2>2, <3>0 DEF Positions
    <3>3. CASE p[x] = "*"
      <4>1. l \in e[x]..(e[x + 1] - 1) => v[l] # "/"
        BY <3>1, <3>3 DEF Fits
      <4>2. ~(e[x] <= l)
        BY <1>3, <3>1, <3>2, <4>1
      <4> QED BY <1>4, <3>0, <3>2, <4>2
    <3>4. CASE p[x] # "*"
      <4>1. /\ e[x + 1] = e[x] + 1
            /\ p[x] = v[e[x]] \/ v[e[x]] # "/"
        BY <3>1, <3>4 DEF Fits
      <4>2. e[x] # l
        BY <1>3, <4>1
      <4> QED BY <1>4, <3>0, <3>1, <3>2, <4>1, <4>2
    <3> QED BY <3>3, <3>4
  <2> HIDE DEF T
  <2>3. \A x \in 1..(n + 1) : x \in T
    BY <1>4, <2>1, <2>2, Downward
  <2>4. 1 \in T
    BY <1>4, <2>3
  <2> QED BY <1>2, <2>4 DEF T
<1> QED BY <1>1, <1>3 DEF n

(* What holds at 0, and at k if at k - 1, holds up to n.                   *)
LEMMA Upward ==
  ASSUME NEW n \in Nat, NEW T, 0 \in T, \A k \in 1..n : k - 1 \in T => k \in T
  PROVE  \A k \in 0..n : k \in T
<1> DEFINE U == {i \in 1..(n + 1) : n + 1 - i \in T}
<1>1. n + 1 \in U
  OBVIOUS
<1>2. ASSUME NEW i \in 1..n, i + 1 \in U PROVE i \in U
  <2>1. n + 1 - i \in 1..n /\ n + 1 - (i + 1) = n + 1 - i - 1 /\ n + 1 - (i + 1) \in T
    BY <1>2
  <2> QED BY <2>1
<1> HIDE DEF U
<1>3. \A i \in 1..(n + 1) : i \in U
  BY <1>1, <1>2, Downward
<1>4. ASSUME NEW k \in 0..n PROVE k \in T
  <2>1. n + 1 - k \in 1..(n + 1) /\ n + 1 - (n + 1 - k) = k
    OBVIOUS
  <2> QED BY <1>3, <2>1 DEF U
<1> QED BY <1>4

(* What holds of the empty sequence and stays when one is appended to.     *)
LEMMA ByAppending ==
  ASSUME NEW S, NEW T, <<>> \in T, \A s \in Seq(S), c \in S : s \in T => Append(s, c) \in T
  PROVE  \A s \in Seq(S) : s \in T
<1> SUFFICES ASSUME NEW s \in Seq(S) PROVE s \in T
  OBVIOUS
<1> DEFINE n == Len(s)
           front(k) == SubSeq(s, 1, k)
           U == {k \in 0..n : front(k) \in T}
<1>1. n \in Nat /\ front(n) = s
  BY SubSeqFull
<1>2. front(0) = <<>>
  BY SubSeqEmpty
<1>3. \A k \in 1..n : /\ front(k - 1) \in Seq(S) /\ s[k] \in S
                      /\ front(k) = Append(front(k - 1), s[k])
  OBVIOUS
<1> HIDE DEF n, front
<1>4. 0 \in U
  BY <1>1, <1>2
<1>5. ASSUME NEW k \in 1..n, k - 1 \in U PROVE k \in U
  <2>1. k \in 0..n /\ front(k - 1) \in T
    BY <1>1, <1>5
  <2> QED BY <1>3, <2>1
<1> HIDE DEF U
<1>6. \A k \in 0..n : k \in U
  BY <1>1, <1>4, <1>5, Upward
<1>7. n \in U
  BY <1>1, <1>6
<1> QED BY <1>1, <1>7 DEF U

(***************************************************************************)
(* Folds.                                                                  *)
(***************************************************************************)

(* The largest of some of the numbers up to n.                             *)
LEMMA MaxIn ==
  ASSUME NEW n \in Nat, NEW t \in SUBSET (1..n), t # {}
  PROVE  Max(t) \in t /\ \A x \in t : x <= Max(t)
<1>1. ASSUME \A x \in t : \E y \in t : ~(x >= y) PROVE FALSE
  <2> DEFINE U == {i \in 1..(n + 1) : \A x \in t : x < i}
  <2>1. n + 1 \in U
    OBVIOUS
  <2>2. ASSUME NEW i \in 1..n, i + 1 \in U PROVE i \in U
    <3>1. i \notin t
      BY <1>1, <2>2
    <3> QED BY <2>2, <3>1
  <2> HIDE DEF U
  <2>3. \A i \in 1..(n + 1) : i \in U
    BY <2>1, <2>2, Downward
  <2>4. 1 \in 1..(n + 1)
    OBVIOUS
  <2>5. \A x \in t : x < 1
    BY <2>3, <2>4 DEF U
  <2>6. PICK x \in t : x \in 1..n
    OBVIOUS
  <2>7. x < 1
    BY <2>5, <2>6
  <2> QED BY <2>6, <2>7
<1>2. \E x \in t : \A y \in t : x >= y
  BY <1>1
<1>3. Max(t) \in t /\ \A y \in t : Max(t) >= y
  BY <1>2 DEF Max
<1> QED BY <1>3

(* The values a fold goes through.                                         *)
IsRun(f, V, base, step, s) ==
  /\ f \in [0..Len(s) -> V] /\ f[0] = base
  /\ \A k \in 1..Len(s) : f[k] = step[<<f[k - 1], s[k]>>]

(* What it comes to.                                                       *)
FoldsTo(r, V, base, step, s) == \E f : IsRun(f, V, base, step, s) /\ r = f[Len(s)]

(* A fold is defined by recursion over sets of indices.                    *)
IsIter(h, V, base, step, s) ==
  /\ h \in [SUBSET (1..Len(s)) -> V]
  /\ \A t \in SUBSET (1..Len(s)) :
       h[t] = IF t = {} THEN base ELSE step[<<h[t \ {Max(t)}], s[Max(t)]>>]

(* That function exists.                                                   *)
LEMMA IterExists ==
  ASSUME NEW V, NEW S, NEW base \in V, NEW step \in [V \X S -> V], NEW s \in Seq(S)
  PROVE  \E h : IsIter(h, V, base, step, s)
<1> DEFINE n == Len(s)
           Q(h, m) == \A t \in SUBSET (1..m) :
             h[t] = IF t = {} THEN base ELSE step[<<h[t \ {Max(t)}], s[Max(t)]>>]
           U == {m \in 0..n : \E h \in [SUBSET (1..m) -> V] : Q(h, m)}
<1>1. n \in Nat /\ \A m \in 1..n : s[m] \in S
  OBVIOUS
<1>2. 0 \in U
  <2> DEFINE h == [t \in SUBSET (1..0) |-> base]
  <2>1. h \in [SUBSET (1..0) -> V]
    OBVIOUS
  <2>2. \A t \in SUBSET (1..0) : t = {} /\ h[t] = base
    OBVIOUS
  <2>3. Q(h, 0)
    BY <2>2
  <2> HIDE DEF h, Q
  <2>4. 0 \in 0..n
    BY <1>1
  <2>5. \E e \in [SUBSET (1..0) -> V] : Q(e, 0)
    BY <2>1, <2>3
  <2> HIDE DEF n
  <2> QED BY <2>4, <2>5
<1>3. ASSUME NEW m \in 1..n, m - 1 \in U PROVE m \in U
  <2>1. PICK g \in [SUBSET (1..(m - 1)) -> V] : Q(g, m - 1)
    BY <1>3
  <2> DEFINE h == [t \in SUBSET (1..m) |-> IF m \in t THEN step[<<g[t \ {m}], s[m]>>] ELSE g[t]]
  <2>2. \A t \in SUBSET (1..m) : /\ t \ {m} \in SUBSET (1..(m - 1))
                                 /\ m \notin t => t \in SUBSET (1..(m - 1))
    BY <1>1
  <2>3. h \in [SUBSET (1..m) -> V]
    <3>1. \A t \in SUBSET (1..m) : g[t \ {m}] \in V /\ (m \notin t => g[t] \in V)
      BY <2>1, <2>2
    <3> QED BY <1>1, <3>1
  <2>4. ASSUME NEW t \in SUBSET (1..m)
        PROVE  h[t] = IF t = {} THEN base ELSE step[<<h[t \ {Max(t)}], s[Max(t)]>>]
    <3>1. CASE m \in t
      <4>1. Max(t) = m
        <5>1. m \in Nat /\ t # {}
          BY <1>1, <3>1
        <5>2. Max(t) \in t /\ m <= Max(t)
          BY <3>1, <5>1, MaxIn
        <5>3. Max(t) \in 1..m
          BY <5>2
        <5> HIDE DEF h
        <5> QED BY <5>1, <5>2, <5>3
      <4>2. t \ {m} \in SUBSET (1..m) /\ m \notin t \ {m}
        BY <2>2
      <4>3. h[t] = step[<<g[t \ {m}], s[m]>>] /\ h[t \ {m}] = g[t \ {m}]
        BY <3>1, <4>2
      <4> HIDE DEF h
      <4> QED BY <3>1, <4>1, <4>3
    <3>2. CASE m \notin t
      <4>1. t \in SUBSET (1..(m - 1))
        BY <2>2, <3>2
      <4>2. h[t] = g[t] /\ h[t \ {Max(t)}] = g[t \ {Max(t)}]
        <5>1. t \ {Max(t)} \in SUBSET (1..m) /\ m \notin t \ {Max(t)}
          BY <3>2
        <5> QED BY <3>2, <5>1
      <4>3. g[t] = IF t = {} THEN base ELSE step[<<g[t \ {Max(t)}], s[Max(t)]>>]
        BY <2>1, <4>1
      <4> HIDE DEF h
      <4> QED BY <4>2, <4>3
    <3> QED BY <3>1, <3>2
  <2>5. Q(h, m)
    BY <2>4
  <2> HIDE DEF h, Q
  <2>6. m \in 0..n
    BY <1>1
  <2>7. \E e \in [SUBSET (1..m) -> V] : Q(e, m)
    BY <2>3, <2>5
  <2> HIDE DEF n
  <2> QED BY <2>6, <2>7
<1> HIDE DEF U
<1>4. \A m \in 0..n : m \in U
  <2> HIDE DEF n
  <2> QED BY <1>1, <1>2, <1>3, Upward
<1>5. n \in U
  BY <1>1, <1>4
<1>6. PICK h \in [SUBSET (1..n) -> V] : Q(h, n)
  <2> HIDE DEF Q
  <2> QED BY <1>5 DEF U
<1> QED BY <1>6 DEF IsIter

(* What is known of the function defined so.                               *)
Iterates(h, V, base, step, s) ==
  /\ h[{}] = base
  /\ \A t \in SUBSET (1..Len(s)) : t # {} /\ h[t \ {Max(t)}] \in V =>
       h[t] = step[<<h[t \ {Max(t)}], s[Max(t)]>>]

(* That function, at the numbers up to k for each k, is a run.             *)
LEMMA IterRuns ==
  ASSUME NEW V, NEW S, NEW base \in V, NEW step \in [V \X S -> V], NEW s \in Seq(S), NEW h,
         Iterates(h, V, base, step, s)
  PROVE  FoldsTo(h[1..Len(s)], V, base, step, s)
<1> DEFINE n == Len(s)
           f == [k \in 0..n |-> h[1..k]]
           U == {k \in 0..n : f[k] \in V}
<1>1. n \in Nat /\ \A m \in 1..n : s[m] \in S
  OBVIOUS
<1>2. \A k \in 0..n : f[k] = h[1..k]
  OBVIOUS
<1>3. f[0] = base /\ 0 \in U
  <2>1. 1..0 = {}
    OBVIOUS
  <2> QED BY <1>1, <2>1 DEF Iterates
<1> HIDE DEF f
<1>4. ASSUME NEW k \in 1..n, f[k - 1] \in V PROVE f[k] = step[<<f[k - 1], s[k]>>] /\ f[k] \in V
  <2>0. k \in Nat /\ k <= n /\ 1 \in 1..k
    BY <1>1
  <2>1. 1..k \in SUBSET (1..n) /\ 1..k # {} /\ (1..k) \ {k} = 1..(k - 1)
    <3> HIDE DEF n
    <3>1. 1..k \in SUBSET (1..n)
      BY <1>1, <2>0
    <3>2. \A x : x \in (1..k) \ {k} <=> x \in 1..(k - 1)
      BY <2>0
    <3> QED BY <2>0, <3>1, <3>2
  <2>2. Max(1..k) = k
    <3>1. k \in 1..k /\ 1..k \in SUBSET (1..k)
      BY <1>1
    <3>2. k \in Nat
      BY <1>1
    <3>3. Max(1..k) \in 1..k /\ k <= Max(1..k)
      BY <2>1, <3>1, <3>2, MaxIn
    <3> QED BY <3>2, <3>3
  <2>3. k - 1 \in 0..n /\ k \in 0..n
    BY <1>1
  <2>4. f[k] = step[<<f[k - 1], s[k]>>]
    <3>1. f[k] = h[1..k] /\ f[k - 1] = h[(1..k) \ {Max(1..k)}]
      BY <1>2, <2>1, <2>2, <2>3
    <3>2. h[1..k] = step[<<h[(1..k) \ {Max(1..k)}], s[Max(1..k)]>>]
      BY <1>4, <2>1, <3>1 DEF Iterates
    <3> QED BY <2>2, <3>1, <3>2
  <2> QED BY <1>1, <1>4, <2>4
<1>5. \A k \in 1..n : k - 1 \in U => k \in U
  <2>1. \A k \in 1..n : k \in 0..n
    BY <1>1
  <2> QED BY <1>4, <2>1
<1>6. \A k \in 0..n : k \in U
  <2> HIDE DEF U
  <2> QED BY <1>1, <1>3, <1>5, Upward
<1>7. f \in [0..n -> V]
  <2>1. f = [k \in 0..n |-> f[k]]
    BY DEF f
  <2> QED BY <1>6, <2>1
<1>8. IsRun(f, V, base, step, s)
  <2>1. \A k \in 1..n : k - 1 \in 0..n
    BY <1>1
  <2> QED BY <1>3, <1>4, <1>6, <1>7, <2>1 DEF IsRun
<1>9. h[1..n] = f[n]
  BY <1>1, <1>2
<1> QED BY <1>8, <1>9 DEF FoldsTo

(* A fold comes to one thing, and that of a longer sequence goes on there. *)
LEMMA FoldGoesOn ==
  ASSUME NEW V, NEW S, NEW base, NEW step, NEW s \in Seq(S), NEW c \in S, NEW r, NEW q,
         FoldsTo(r, V, base, step, s), FoldsTo(q, V, base, step, Append(s, c))
  PROVE  q = step[<<r, c>>] /\ r \in V
<1>0. PICK f, g : /\ IsRun(f, V, base, step, s) /\ r = f[Len(s)]
                  /\ IsRun(g, V, base, step, Append(s, c)) /\ q = g[Len(Append(s, c))]
  BY DEF FoldsTo
<1> DEFINE n == Len(s)
           a == Append(s, c)
           U == {k \in 0..n : f[k] = g[k]}
<1>1. n \in Nat /\ Len(a) = n + 1 /\ a[n + 1] = c /\ \A k \in 1..n : a[k] = s[k]
  OBVIOUS
<1> HIDE DEF n, a
<1>2. /\ \A k \in 1..n : f[k] = step[<<f[k - 1], s[k]>>]
      /\ \A k \in 1..(n + 1) : g[k] = step[<<g[k - 1], a[k]>>]
      /\ f[0] = base /\ g[0] = base /\ \A k \in 0..n : f[k] \in V
  BY <1>0, <1>1 DEF IsRun, n, a
<1>3. 0 \in U
  BY <1>1, <1>2
<1>4. ASSUME NEW k \in 1..n, k - 1 \in U PROVE k \in U
  <2>1. k \in 1..(n + 1) /\ k \in 0..n
    BY <1>1
  <2> QED BY <1>1, <1>2, <1>4, <2>1
<1> HIDE DEF U
<1>5. \A k \in 0..n : k \in U
  BY <1>1, <1>3, <1>4, Upward
<1>6. n \in 0..n /\ n + 1 \in 1..(n + 1) /\ n + 1 - 1 = n
  BY <1>1
<1>7. f[n] = g[n]
  BY <1>5, <1>6 DEF U
<1>8. r = f[n] /\ q = g[n + 1]
  BY <1>0, <1>1 DEF n, a
<1> QED BY <1>1, <1>2, <1>6, <1>7, <1>8

(* That of the empty sequence is where it begins.                          *)
LEMMA FoldBegins ==
  ASSUME NEW V, NEW base, NEW step, NEW r, FoldsTo(r, V, base, step, <<>>)
  PROVE  r = base
<1>1. Len(<<>>) = 0
  OBVIOUS
<1> QED BY <1>1 DEF FoldsTo, IsRun

(***************************************************************************)
(* Names.                                                                  *)
(***************************************************************************)

(* What stands between two separators, and what a text is split into: one  *)
(* such piece at least.                                                    *)
Pieces(Char, sep) == Seq(Char \ {sep})
Cuts(Char, sep) == {parts \in Seq(Pieces(Char, sep)) : parts # <<>>}

(* One step of Split, as a function.                                       *)
CharacterStep(Char, sep) ==
  [x \in Cuts(Char, sep) \X Char |-> AddCharacter(x[1], x[2], sep)]

(* A character more leaves a text split.                                   *)
LEMMA CharacterStepType ==
  ASSUME NEW Char, NEW sep
  PROVE  /\ <<<<>>>> \in Cuts(Char, sep)
         /\ CharacterStep(Char, sep) \in [Cuts(Char, sep) \X Char -> Cuts(Char, sep)]
<1>1. ASSUME NEW parts \in Cuts(Char, sep), NEW ch \in Char
      PROVE  AddCharacter(parts, ch, sep) \in Cuts(Char, sep)
  <2>1. parts \in Seq(Pieces(Char, sep)) /\ parts # <<>>
    BY DEF Cuts
  <2>2. CASE ch = sep
    <3>1. <<>> \in Pieces(Char, sep)
      BY DEF Pieces
    <3>2. AddCharacter(parts, ch, sep) = Append(parts, <<>>)
      BY <2>2 DEF AddCharacter
    <3> HIDE DEF Pieces
    <3> QED BY <2>1, <3>1, <3>2 DEF Cuts
  <2>3. CASE ch # sep
    <3>1. Front(parts) \in Seq(Pieces(Char, sep)) /\ Last(parts) \in Pieces(Char, sep)
      BY <2>1 DEF Front, Last
    <3>2. Append(Last(parts), ch) \in Pieces(Char, sep)
      BY <2>3, <3>1 DEF Pieces
    <3>3. AddCharacter(parts, ch, sep) = Append(Front(parts), Append(Last(parts), ch))
      BY <2>3 DEF AddCharacter
    <3> DEFINE fr == Front(parts)
               la == Append(Last(parts), ch)
    <3> HIDE DEF fr, la
    <3>4. Append(fr, la) \in Seq(Pieces(Char, sep)) /\ Append(fr, la) # <<>>
      <4>1. fr \in Seq(Pieces(Char, sep)) /\ la \in Pieces(Char, sep)
        BY <3>1, <3>2 DEF fr, la
      <4> QED BY <4>1, AppendProperties
    <3>5. AddCharacter(parts, ch, sep) = Append(fr, la)
      BY <3>3 DEF fr, la
    <3> QED BY <3>4, <3>5 DEF Cuts
  <2> QED BY <2>2, <2>3
<1>2. <<<<>>>> \in Cuts(Char, sep)
  <2>1. <<>> \in Pieces(Char, sep)
    BY DEF Pieces
  <2> QED BY <2>1 DEF Cuts
<1> QED BY <1>1, <1>2 DEF CharacterStep

(* Split goes through the text, one character after the other.             *)
LEMMA SplitRun ==
  ASSUME NEW Char, NEW sep, NEW s \in Seq(Char)
  PROVE  FoldsTo(Split(s, sep), Cuts(Char, sep), <<<<>>>>, CharacterStep(Char, sep), s)
<1> DEFINE V == Cuts(Char, sep)
           D == DOMAIN s
           step == CharacterStep(Char, sep)
           none == <<<<>>>>
           iter == CHOOSE h : h = [t \in SUBSET D |->
                     IF t = {} THEN none ELSE AddCharacter(h[t \ {Max(t)}], s[Max(t)], sep)]
<1>1. Split(s, sep) = iter[D]
  BY DEF Split, FoldLeft, MapThenFoldSet
<1>2. none \in V /\ step \in [V \X Char -> V]
  BY CharacterStepType
<1>3. D = 1..Len(s) /\ Len(s) \in Nat /\ s \in Seq(Char) /\ \A i \in D : s[i] \in Char
  OBVIOUS
<1>4. ASSUME NEW v \in V, NEW t \in SUBSET D, t # {}
      PROVE  step[<<v, s[Max(t)]>>] = AddCharacter(v, s[Max(t)], sep)
  <2>1. Max(t) \in D
    BY <1>3, <1>4, MaxIn
  <2>2. s[Max(t)] \in Char
    BY <1>3, <2>1
  <2> QED BY <2>2 DEF CharacterStep
<1> HIDE DEF V, D, step, none
<1>5. PICK g \in [SUBSET D -> V] : \A t \in SUBSET D :
        g[t] = IF t = {} THEN none ELSE step[<<g[t \ {Max(t)}], s[Max(t)]>>]
  <2>1. PICK g : IsIter(g, V, none, step, s)
    BY <1>2, <1>3, IterExists, Zenon
  <2> QED BY <1>3, <2>1 DEF IsIter
<1>6. g = [t \in SUBSET D |->
             IF t = {} THEN none ELSE AddCharacter(g[t \ {Max(t)}], s[Max(t)], sep)]
  <2>1. \A t \in SUBSET D : t # {} => g[t \ {Max(t)}] \in V
    BY <1>5
  <2>2. \A t \in SUBSET D :
          g[t] = IF t = {} THEN none ELSE AddCharacter(g[t \ {Max(t)}], s[Max(t)], sep)
    BY <1>4, <1>5, <2>1
  <2> QED BY <1>5, <2>2
<1>7. iter = [t \in SUBSET D |->
                IF t = {} THEN none ELSE AddCharacter(iter[t \ {Max(t)}], s[Max(t)], sep)]
  BY <1>6
<1> HIDE DEF iter
<1>8. iter[{}] = none
  BY <1>7
<1>9. \A t \in SUBSET D : t # {} /\ iter[t \ {Max(t)}] \in V =>
        iter[t] = step[<<iter[t \ {Max(t)}], s[Max(t)]>>]
  <2>1. \A t \in SUBSET D : t # {} =>
          iter[t] = AddCharacter(iter[t \ {Max(t)}], s[Max(t)], sep)
    BY <1>7
  <2> QED BY <1>4, <2>1
<1>10. FoldsTo(iter[D], V, none, step, s)
  <2>1. Iterates(iter, V, none, step, s)
    BY <1>3, <1>8, <1>9 DEF Iterates
  <2>2. FoldsTo(iter[1..Len(s)], V, none, step, s)
    BY <1>2, <1>3, <2>1, IterRuns, Zenon
  <2> QED BY <1>3, <2>2
<1> QED BY <1>1, <1>10 DEF V, step, none

(* What Split does with one character more, and with none.                 *)
LEMMA SplitFold ==
  ASSUME NEW Char, NEW sep
  PROVE  /\ Split(<<>>, sep) = <<<<>>>>
         /\ \A s \in Seq(Char), c \in Char :
              /\ Split(s, sep) \in Cuts(Char, sep)
              /\ Split(Append(s, c), sep) = AddCharacter(Split(s, sep), c, sep)
<1> DEFINE V == Cuts(Char, sep)
           step == CharacterStep(Char, sep)
           none == <<<<>>>>
<1>1. \A s \in Seq(Char) : FoldsTo(Split(s, sep), V, none, step, s)
  BY SplitRun
<1>2. \A v \in V, c \in Char : step[<<v, c>>] = AddCharacter(v, c, sep)
  BY DEF CharacterStep
<1> HIDE DEF V, step, none
<1>3. Split(<<>>, sep) = none
  <2>1. <<>> \in Seq(Char)
    OBVIOUS
  <2>2. FoldsTo(Split(<<>>, sep), V, none, step, <<>>)
    BY <1>1, <2>1, Zenon
  <2> QED BY <2>2, FoldBegins, Zenon
<1>4. ASSUME NEW s \in Seq(Char), NEW c \in Char
      PROVE  /\ Split(s, sep) \in V
             /\ Split(Append(s, c), sep) = AddCharacter(Split(s, sep), c, sep)
  <2>1. Append(s, c) \in Seq(Char)
    OBVIOUS
  <2>2. /\ FoldsTo(Split(s, sep), V, none, step, s)
        /\ FoldsTo(Split(Append(s, c), sep), V, none, step, Append(s, c))
    BY <1>1, <2>1
  <2>3. Split(Append(s, c), sep) = step[<<Split(s, sep), c>>] /\ Split(s, sep) \in V
    BY <2>2, FoldGoesOn, Zenon
  <2> QED BY <1>2, <2>3
<1> QED BY <1>3, <1>4 DEF V, none

(* The names of a path are between its slashes.                            *)
Segments(Char) == Seq(Char \ {"/"})
Splits(Char) == {parts \in Seq(Segments(Char)) : parts # <<>>}

LEMMA NamesFold ==
  ASSUME NEW Char
  PROVE  /\ Names(<<>>) = <<<<>>>>
         /\ \A s \in Seq(Char), c \in Char :
              /\ Names(s) \in Splits(Char)
              /\ Names(Append(s, c)) = AddCharacter(Names(s), c, "/")
BY SplitFold DEF Names, Splits, Segments, Cuts, Pieces

(* What stays of the names of a path when it is cleaned: no empty one, no  *)
(* dot, and below the root no way up.                                      *)
Proper(rooted, Char) ==
  {n \in Segments(Char) : n \notin {<<>>, Dot} /\ (rooted => n # DotDot)}

(* One step of CleanNames, as a function.                                  *)
NameStep(rooted, Char) ==
  [x \in Seq(Proper(rooted, Char)) \X Segments(Char) |-> AddName(rooted, x[1], x[2])]

(* A name more leaves a path clean.                                        *)
LEMMA NameStepType ==
  ASSUME NEW Char, NEW rooted \in BOOLEAN
  PROVE  /\ NameStep(rooted, Char) \in
              [Seq(Proper(rooted, Char)) \X Segments(Char) -> Seq(Proper(rooted, Char))]
         /\ <<>> \in Seq(Proper(rooted, Char))
<1> DEFINE P == Proper(rooted, Char)
<1>1. ASSUME NEW left \in Seq(P), NEW n \in Segments(Char)
      PROVE  AddName(rooted, left, n) \in Seq(P)
  <2>1. left # <<>> => Front(left) \in Seq(P) /\ Last(left) \in P
    <3> HIDE DEF P
    <3> QED BY DEF Front, Last
  <2>2. rooted /\ left # <<>> => Last(left) # DotDot
    BY <2>1 DEF Proper
  <2>3. n \in P => Append(left, n) \in Seq(P)
    <3> HIDE DEF P
    <3> QED OBVIOUS
  <2>4. n \notin {<<>>, Dot} /\ (rooted => n # DotDot) => n \in P
    BY DEF Proper
  <2> HIDE DEF P
  <2> QED BY <2>1, <2>2, <2>3, <2>4 DEF AddName
<1> HIDE DEF P
<1>2. NameStep(rooted, Char) = [x \in Seq(P) \X Segments(Char) |-> AddName(rooted, x[1], x[2])]
  BY DEF NameStep, P
<1>3. NameStep(rooted, Char) \in [Seq(P) \X Segments(Char) -> Seq(P)]
  BY <1>1, <1>2
<1>4. <<>> \in Seq(P)
  OBVIOUS
<1> QED BY <1>3, <1>4 DEF P

(* CleanNames takes one name after the other.                              *)
LEMMA CleanRun ==
  ASSUME NEW Char, NEW rooted \in BOOLEAN, NEW s \in Seq(Segments(Char))
  PROVE  FoldsTo(CleanNames(rooted, s), Seq(Proper(rooted, Char)), <<>>, NameStep(rooted, Char), s)
<1> DEFINE V == Seq(Proper(rooted, Char))
           S == Segments(Char)
           D == DOMAIN s
           step == NameStep(rooted, Char)
           none == <<>>
           iter == CHOOSE h : h = [t \in SUBSET D |->
                     IF t = {} THEN none ELSE AddName(rooted, h[t \ {Max(t)}], s[Max(t)])]
<1>1. CleanNames(rooted, s) = iter[D]
  BY DEF CleanNames, FoldLeft, MapThenFoldSet
<1>2. none \in V /\ step \in [V \X S -> V]
  BY NameStepType
<1>3. D = 1..Len(s) /\ Len(s) \in Nat /\ s \in Seq(S) /\ \A i \in D : s[i] \in S
  OBVIOUS
<1>4. ASSUME NEW v \in V, NEW t \in SUBSET D, t # {}
      PROVE  step[<<v, s[Max(t)]>>] = AddName(rooted, v, s[Max(t)])
  <2>1. Max(t) \in D
    BY <1>3, <1>4, MaxIn
  <2>2. s[Max(t)] \in S
    BY <1>3, <2>1
  <2> QED BY <2>2 DEF NameStep
<1> HIDE DEF V, S, D, step, none
<1>5. PICK g \in [SUBSET D -> V] : \A t \in SUBSET D :
        g[t] = IF t = {} THEN none ELSE step[<<g[t \ {Max(t)}], s[Max(t)]>>]
  <2>1. PICK g : IsIter(g, V, none, step, s)
    BY <1>2, <1>3, IterExists, Zenon
  <2> QED BY <1>3, <2>1 DEF IsIter
<1>6. g = [t \in SUBSET D |->
             IF t = {} THEN none ELSE AddName(rooted, g[t \ {Max(t)}], s[Max(t)])]
  <2>1. \A t \in SUBSET D : t # {} => g[t \ {Max(t)}] \in V
    BY <1>5
  <2>2. \A t \in SUBSET D :
          g[t] = IF t = {} THEN none ELSE AddName(rooted, g[t \ {Max(t)}], s[Max(t)])
    BY <1>4, <1>5, <2>1
  <2> QED BY <1>5, <2>2
<1>7. iter = [t \in SUBSET D |->
                IF t = {} THEN none ELSE AddName(rooted, iter[t \ {Max(t)}], s[Max(t)])]
  BY <1>6
<1> HIDE DEF iter
<1>8. iter[{}] = none
  BY <1>7
<1>9. \A t \in SUBSET D : t # {} /\ iter[t \ {Max(t)}] \in V =>
        iter[t] = step[<<iter[t \ {Max(t)}], s[Max(t)]>>]
  <2>1. \A t \in SUBSET D : t # {} =>
          iter[t] = AddName(rooted, iter[t \ {Max(t)}], s[Max(t)])
    BY <1>7
  <2> QED BY <1>4, <2>1
<1>10. FoldsTo(iter[D], V, none, step, s)
  <2>1. Iterates(iter, V, none, step, s)
    BY <1>3, <1>8, <1>9 DEF Iterates
  <2>2. FoldsTo(iter[1..Len(s)], V, none, step, s)
    BY <1>2, <1>3, <2>1, IterRuns, Zenon
  <2> QED BY <1>3, <2>2
<1> QED BY <1>1, <1>10 DEF V, step, none

(* What CleanNames does with one name more, and with none.                 *)
LEMMA CleanFold ==
  ASSUME NEW Char, NEW rooted \in BOOLEAN
  PROVE  /\ CleanNames(rooted, <<>>) = <<>>
         /\ \A s \in Seq(Segments(Char)), n \in Segments(Char) :
              /\ CleanNames(rooted, s) \in Seq(Proper(rooted, Char))
              /\ CleanNames(rooted, Append(s, n)) = AddName(rooted, CleanNames(rooted, s), n)
<1> DEFINE V == Seq(Proper(rooted, Char))
           S == Segments(Char)
           step == NameStep(rooted, Char)
           none == <<>>
<1>1. \A s \in Seq(S) : FoldsTo(CleanNames(rooted, s), V, none, step, s)
  BY CleanRun
<1>2. \A v \in V, n \in S : step[<<v, n>>] = AddName(rooted, v, n)
  BY DEF NameStep
<1> HIDE DEF V, S, step, none
<1>3. CleanNames(rooted, <<>>) = none
  <2>1. <<>> \in Seq(S)
    OBVIOUS
  <2>2. FoldsTo(CleanNames(rooted, <<>>), V, none, step, <<>>)
    BY <1>1, <2>1, Zenon
  <2> QED BY <2>2, FoldBegins, Zenon
<1>4. ASSUME NEW s \in Seq(S), NEW n \in S
      PROVE  CleanNames(rooted, s) \in V /\ CleanNames(rooted, Append(s, n)) = AddName(rooted, CleanNames(rooted, s), n)
  <2>1. Append(s, n) \in Seq(S)
    OBVIOUS
  <2>2. /\ FoldsTo(CleanNames(rooted, s), V, none, step, s)
        /\ FoldsTo(CleanNames(rooted, Append(s, n)), V, none, step, Append(s, n))
    BY <1>1, <2>1
  <2>3. CleanNames(rooted, Append(s, n)) = step[<<CleanNames(rooted, s), n>>] /\ CleanNames(rooted, s) \in V
    BY <2>2, FoldGoesOn, Zenon
  <2> QED BY <1>2, <2>3
<1> QED BY <1>3, <1>4 DEF V, S, none

(* One step of JoinNames, as a function.                                   *)
TextStep(Char) == [x \in Seq(Char) \X Segments(Char) |-> JoinName(x[1], x[2])]

(* A name more leaves a text.                                              *)
LEMMA TextStepType ==
  ASSUME NEW Char, "/" \in Char
  PROVE  /\ TextStep(Char) \in [Seq(Char) \X Segments(Char) -> Seq(Char)]
         /\ <<>> \in Seq(Char)
<1>1. ASSUME NEW text \in Seq(Char), NEW n \in Segments(Char)
      PROVE  JoinName(text, n) \in Seq(Char)
  <2>1. n \in Seq(Char)
    BY DEF Segments
  <2> QED BY <2>1 DEF JoinName
<1> QED BY <1>1 DEF TextStep

(* JoinNames takes one name after the other.                               *)
LEMMA JoinRun ==
  ASSUME NEW Char, "/" \in Char, NEW s \in Seq(Segments(Char))
  PROVE  FoldsTo(JoinNames(s), Seq(Char), <<>>, TextStep(Char), s)
<1> DEFINE V == Seq(Char)
           S == Segments(Char)
           D == DOMAIN s
           step == TextStep(Char)
           none == <<>>
           iter == CHOOSE h : h = [t \in SUBSET D |->
                     IF t = {} THEN none ELSE JoinName(h[t \ {Max(t)}], s[Max(t)])]
<1>1. JoinNames(s) = iter[D]
  BY DEF JoinNames, FoldLeft, MapThenFoldSet
<1>2. none \in V /\ step \in [V \X S -> V]
  BY TextStepType
<1>3. D = 1..Len(s) /\ Len(s) \in Nat /\ s \in Seq(S) /\ \A i \in D : s[i] \in S
  OBVIOUS
<1>4. ASSUME NEW v \in V, NEW t \in SUBSET D, t # {}
      PROVE  step[<<v, s[Max(t)]>>] = JoinName(v, s[Max(t)])
  <2>1. Max(t) \in D
    BY <1>3, <1>4, MaxIn
  <2>2. s[Max(t)] \in S
    BY <1>3, <2>1
  <2> QED BY <2>2 DEF TextStep
<1> HIDE DEF V, S, D, step, none
<1>5. PICK g \in [SUBSET D -> V] : \A t \in SUBSET D :
        g[t] = IF t = {} THEN none ELSE step[<<g[t \ {Max(t)}], s[Max(t)]>>]
  <2>1. PICK g : IsIter(g, V, none, step, s)
    BY <1>2, <1>3, IterExists, Zenon
  <2> QED BY <1>3, <2>1 DEF IsIter
<1>6. g = [t \in SUBSET D |->
             IF t = {} THEN none ELSE JoinName(g[t \ {Max(t)}], s[Max(t)])]
  <2>1. \A t \in SUBSET D : t # {} => g[t \ {Max(t)}] \in V
    BY <1>5
  <2>2. \A t \in SUBSET D :
          g[t] = IF t = {} THEN none ELSE JoinName(g[t \ {Max(t)}], s[Max(t)])
    BY <1>4, <1>5, <2>1
  <2> QED BY <1>5, <2>2
<1>7. iter = [t \in SUBSET D |->
                IF t = {} THEN none ELSE JoinName(iter[t \ {Max(t)}], s[Max(t)])]
  BY <1>6
<1> HIDE DEF iter
<1>8. iter[{}] = none
  BY <1>7
<1>9. \A t \in SUBSET D : t # {} /\ iter[t \ {Max(t)}] \in V =>
        iter[t] = step[<<iter[t \ {Max(t)}], s[Max(t)]>>]
  <2>1. \A t \in SUBSET D : t # {} =>
          iter[t] = JoinName(iter[t \ {Max(t)}], s[Max(t)])
    BY <1>7
  <2> QED BY <1>4, <2>1
<1>10. FoldsTo(iter[D], V, none, step, s)
  <2>1. Iterates(iter, V, none, step, s)
    BY <1>3, <1>8, <1>9 DEF Iterates
  <2>2. FoldsTo(iter[1..Len(s)], V, none, step, s)
    BY <1>2, <1>3, <2>1, IterRuns, Zenon
  <2> QED BY <1>3, <2>2
<1> QED BY <1>1, <1>10 DEF V, step, none

(* What JoinNames does with one name more, and with none.                  *)
LEMMA JoinFold ==
  ASSUME NEW Char, "/" \in Char
  PROVE  /\ JoinNames(<<>>) = <<>>
         /\ \A s \in Seq(Segments(Char)), n \in Segments(Char) :
              /\ JoinNames(s) \in Seq(Char)
              /\ JoinNames(Append(s, n)) = JoinName(JoinNames(s), n)
<1> DEFINE V == Seq(Char)
           S == Segments(Char)
           step == TextStep(Char)
           none == <<>>
<1>1. \A s \in Seq(S) : FoldsTo(JoinNames(s), V, none, step, s)
  BY JoinRun
<1>2. \A v \in V, n \in S : step[<<v, n>>] = JoinName(v, n)
  BY DEF TextStep
<1> HIDE DEF V, S, step, none
<1>3. JoinNames(<<>>) = none
  <2>1. <<>> \in Seq(S)
    OBVIOUS
  <2>2. FoldsTo(JoinNames(<<>>), V, none, step, <<>>)
    BY <1>1, <2>1, Zenon
  <2> QED BY <2>2, FoldBegins, Zenon
<1>4. ASSUME NEW s \in Seq(S), NEW n \in S
      PROVE  JoinNames(s) \in V /\ JoinNames(Append(s, n)) = JoinName(JoinNames(s), n)
  <2>1. Append(s, n) \in Seq(S)
    OBVIOUS
  <2>2. /\ FoldsTo(JoinNames(s), V, none, step, s)
        /\ FoldsTo(JoinNames(Append(s, n)), V, none, step, Append(s, n))
    BY <1>1, <2>1
  <2>3. JoinNames(Append(s, n)) = step[<<JoinNames(s), n>>] /\ JoinNames(s) \in V
    BY <2>2, FoldGoesOn, Zenon
  <2> QED BY <1>2, <2>3
<1> QED BY <1>3, <1>4 DEF V, S, none

(***************************************************************************)
(* Texts and names.                                                        *)
(***************************************************************************)

(* The names that are not empty.                                           *)
Nonempty(Char) == Segments(Char) \ {<<>>}

(* Appending to what follows another sequence.                             *)
LEMMA AppendAfter ==
  ASSUME NEW S, NEW s \in Seq(S), NEW t \in Seq(S), NEW c \in S
  PROVE  s \o Append(t, c) = Append(s \o t, c)
OBVIOUS

(* A character more after a text already split leaves that as it is.       *)
LEMMA AddAfter ==
  ASSUME NEW S, NEW X \in Seq(Seq(S)), NEW Y \in Seq(Seq(S)), Y # <<>>, NEW c \in S,
         NEW sep
  PROVE  AddCharacter(X \o Y, c, sep) = X \o AddCharacter(Y, c, sep)
<1> DEFINE T == Seq(S)
<1>1. <<>> \in T
  OBVIOUS
<1>2. Last(Y) \in T /\ Front(Y) \in Seq(T)
  <2> HIDE DEF T
  <2> QED BY DEF Last, Front, T
<1>3. Append(Last(Y), c) \in T
  BY <1>2
<1> HIDE DEF T
<1>4. X \in Seq(T) /\ Y \in Seq(T)
  BY DEF T
<1>5. Last(X \o Y) = Last(Y)
  BY <1>4 DEF Last
<1>6. Front(X \o Y) = X \o Front(Y)
  BY <1>4, SMTT(60) DEF Front
<1>7. X \o Append(Y, <<>>) = Append(X \o Y, <<>>)
  BY <1>1, <1>4, AppendAfter
<1>8. X \o Append(Front(Y), Append(Last(Y), c)) = Append(X \o Front(Y), Append(Last(Y), c))
  BY <1>2, <1>3, <1>4, AppendAfter
<1> QED BY <1>5, <1>6, <1>7, <1>8 DEF AddCharacter

(* A separator between two texts parts their pieces.                       *)
LEMMA SplitConcat ==
  ASSUME NEW Char, NEW sep \in Char, NEW a \in Seq(Char), NEW b \in Seq(Char)
  PROVE  Split((a \o <<sep>>) \o b, sep) = Split(a, sep) \o Split(b, sep)
<1> DEFINE A == a \o <<sep>>
           T == {x \in Seq(Char) : Split(A \o x, sep) = Split(a, sep) \o Split(x, sep)}
           L == Pieces(Char, sep)
<1>1. A \in Seq(Char) /\ A = Append(a, sep) /\ A \o <<>> = A
  OBVIOUS
<1>2. \A x \in Seq(Char) : Split(x, sep) \in Seq(L) /\ Split(x, sep) # <<>>
  BY SplitFold DEF Cuts
<1>3. \A x \in Seq(Char), c \in Char : Split(Append(x, c), sep) = AddCharacter(Split(x, sep), c, sep)
  BY SplitFold
<1>4. Split(<<>>, sep) = <<<<>>>>
  BY SplitFold
<1>5. <<>> \in T
  <2>1. Split(A, sep) = Append(Split(a, sep), <<>>)
    BY <1>1, <1>3 DEF AddCharacter
  <2>2. <<>> \in L
    BY DEF Pieces
  <2>3. Append(Split(a, sep), <<>>) = Split(a, sep) \o <<<<>>>>
    <3> HIDE DEF L
    <3> QED BY <1>2, <2>2, AppendIsConcat
  <2>4. <<>> \in Seq(Char)
    OBVIOUS
  <2> HIDE DEF A
  <2> QED BY <1>1, <1>4, <2>1, <2>3, <2>4
<1>6. ASSUME NEW x \in Seq(Char), NEW c \in Char, x \in T PROVE Append(x, c) \in T
  <2>1. Append(x, c) \in Seq(Char)
    OBVIOUS
  <2>2. A \o Append(x, c) = Append(A \o x, c) /\ A \o x \in Seq(Char)
    BY <1>1, AppendAfter
  <2> HIDE DEF A
  <2>3. Split(A \o Append(x, c), sep) = AddCharacter(Split(a, sep) \o Split(x, sep), c, sep)
    BY <1>3, <1>6, <2>2
  <2>4. Split(a, sep) \in Seq(Seq(Char)) /\ Split(x, sep) \in Seq(Seq(Char)) /\ Split(x, sep) # <<>>
    <3>1. L \subseteq Seq(Char)
      BY DEF Pieces
    <3> HIDE DEF L
    <3> QED BY <1>2, <3>1, SeqMonotonic
  <2>5. Split(A \o Append(x, c), sep) = Split(a, sep) \o Split(Append(x, c), sep)
    <3>1. AddCharacter(Split(a, sep) \o Split(x, sep), c, sep) = Split(a, sep) \o AddCharacter(Split(x, sep), c, sep)
      <4> DEFINE p == Split(a, sep)
                 q == Split(x, sep)
      <4> HIDE DEF p, q
      <4>1. p \in Seq(Seq(Char)) /\ q \in Seq(Seq(Char)) /\ q # <<>>
        BY <2>4 DEF p, q
      <4>2. AddCharacter(p \o q, c, sep) = p \o AddCharacter(q, c, sep)
        BY <4>1, AddAfter
      <4> QED BY <4>2 DEF p, q
    <3> QED BY <1>3, <2>3, <3>1
  <2> QED BY <2>1, <2>5
<1> HIDE DEF T
<1>7. \A x \in Seq(Char) : x \in T
  BY <1>5, <1>6, ByAppending
<1> QED BY <1>7 DEF T

(* A text without the separator is one piece.                              *)
LEMMA OnePiece ==
  ASSUME NEW Char, NEW sep, NEW n \in Pieces(Char, sep)
  PROVE  Split(n, sep) = <<n>>
<1> DEFINE S == Char \ {sep}
           T == {x \in Seq(S) : Split(x, sep) = <<x>>}
<1>1. <<>> \in T
  BY SplitFold
<1>2. ASSUME NEW x \in Seq(S), NEW c \in S, x \in T PROVE Append(x, c) \in T
  <2>1. Append(x, c) \in Seq(S) /\ x \in Seq(Char) /\ c \in Char /\ c # sep
    OBVIOUS
  <2>2. Split(Append(x, c), sep) = AddCharacter(<<x>>, c, sep)
    BY <1>2, <2>1, SplitFold
  <2>3. AddCharacter(<<x>>, c, sep) = <<Append(x, c)>>
    <3>1. Front(<<x>>) = <<>> /\ Last(<<x>>) = x
      BY DEF Front, Last
    <3> DEFINE y == Append(x, c)
    <3> HIDE DEF y
    <3>2. Append(<<>>, y) = <<y>>
      OBVIOUS
    <3> QED BY <2>1, <3>1, <3>2 DEF AddCharacter, y
  <2> QED BY <2>1, <2>2, <2>3
<1> HIDE DEF T
<1>3. \A x \in Seq(S) : x \in T
  BY <1>1, <1>2, ByAppending
<1> QED BY <1>3 DEF T, Pieces

(* So it is with the names of a path.                                      *)
LEMMA NamesConcat ==
  ASSUME NEW Char, "/" \in Char, NEW a \in Seq(Char), NEW b \in Seq(Char)
  PROVE  Names((a \o <<"/">>) \o b) = Names(a) \o Names(b)
BY SplitConcat DEF Names

LEMMA OneName ==
  ASSUME NEW Char, NEW n \in Segments(Char)
  PROVE  Names(n) = <<n>>
<1>1. n \in Pieces(Char, "/")
  BY DEF Segments, Pieces
<1> QED BY <1>1, OnePiece DEF Names

(* The names of a joined path are those it was joined of, after the empty  *)
(* one before the first slash.                                             *)
LEMMA NamesOfJoin ==
  ASSUME NEW Char, "/" \in Char, NEW ns \in Seq(Nonempty(Char))
  PROVE  /\ JoinNames(ns) \in Seq(Char) /\ (JoinNames(ns) = <<>> <=> ns = <<>>)
         /\ Names(<<"/">> \o JoinNames(ns)) =
              IF ns = <<>> THEN <<<<>>, <<>>>> ELSE <<<<>>>> \o ns
<1> DEFINE E == Nonempty(Char)
           L == Segments(Char)
           J(x) == JoinNames(x)
           T == {x \in Seq(E) : /\ J(x) \in Seq(Char) /\ (J(x) = <<>> <=> x = <<>>)
                                /\ Names(<<"/">> \o J(x)) =
                                     IF x = <<>> THEN <<<<>>, <<>>>> ELSE <<<<>>>> \o x}
<1>1. /\ E \subseteq L /\ E \subseteq Seq(Char) /\ L \subseteq Seq(Char)
      /\ \A n \in E : n # <<>>
  BY DEF Nonempty, Segments
<1>2. /\ J(<<>>) = <<>>
      /\ \A x \in Seq(E), n \in E : J(Append(x, n)) = JoinName(J(x), n)
  <2>1. \A x \in Seq(E) : x \in Seq(L)
    <3> HIDE DEF E, L
    <3> QED BY <1>1, SeqMonotonic
  <2> QED BY <1>1, <2>1, JoinFold
<1>3. Names(<<>>) = <<<<>>>> /\ Names(<<"/">>) = <<<<>>, <<>>>>
  <2>1. <<"/">> = Append(<<>>, "/") /\ <<>> \in Seq(Char)
    OBVIOUS
  <2>2. Names(<<"/">>) = AddCharacter(<<<<>>>>, "/", "/")
    BY <2>1, NamesFold
  <2>3. Append(<<<<>>>>, <<>>) = <<<<>>, <<>>>>
    <3>1. ASSUME NEW z PROVE Append(<<z>>, z) = <<z, z>>
      <4>1. /\ <<z>> \in Seq({z}) /\ <<z, z>> \in Seq({z}) /\ Append(<<z>>, z) \in Seq({z})
            /\ Len(<<z, z>>) = 2 /\ Len(Append(<<z>>, z)) = 2
        OBVIOUS
      <4>2. \A i \in 1..2 : Append(<<z>>, z)[i] = z /\ <<z, z>>[i] = z
        OBVIOUS
      <4> QED BY <4>1, <4>2, SeqEqual
    <3> QED BY <3>1, Zenon
  <2> QED BY <2>2, <2>3, NamesFold DEF AddCharacter
<1>4. \A n \in E : Names(n) = <<n>>
  BY <1>1, OneName
<1> HIDE DEF E, L, J
<1>5. <<>> \in T
  <2>1. <<>> \in Seq(E) /\ <<>> \in Seq(Char) /\ <<"/">> \in Seq(Char)
    OBVIOUS
  <2>2. <<"/">> \o J(<<>>) = <<"/">>
    BY <1>2, <2>1, ConcatEmptySeq
  <2> QED BY <1>2, <1>3, <2>1, <2>2
<1>6. ASSUME NEW x \in Seq(E), NEW n \in E, x \in T PROVE Append(x, n) \in T
  <2>1. Append(x, n) \in Seq(E) /\ Append(x, n) # <<>>
    OBVIOUS
  <2>2. n \in Seq(Char) /\ n # <<>> /\ J(x) \in Seq(Char)
    BY <1>1, <1>6
  <2>3. CASE x = <<>>
    <3>1. J(Append(x, n)) = n
      BY <1>2, <2>3 DEF JoinName
    <3>2. Names((<<>> \o <<"/">>) \o n) = <<<<>>>> \o <<n>>
      <4>1. <<>> \in Seq(Char)
        OBVIOUS
      <4>2. Names((<<>> \o <<"/">>) \o n) = Names(<<>>) \o Names(n)
        BY <2>2, <4>1, NamesConcat, Zenon
      <4> QED BY <1>3, <1>4, <4>2, Zenon
    <3>3. (<<>> \o <<"/">>) \o n = <<"/">> \o n /\ Append(x, n) = <<n>>
      BY <2>2, <2>3
    <3> QED BY <2>1, <2>2, <3>1, <3>2, <3>3
  <2>4. CASE x # <<>>
    <3>1. J(x) # <<>> /\ Names(<<"/">> \o J(x)) = <<<<>>>> \o x
      BY <1>6, <2>4
    <3>2. J(Append(x, n)) = J(x) \o <<"/">> \o n
      BY <1>2, <3>1 DEF JoinName
    <3> DEFINE j == J(x)
    <3> HIDE DEF j
    <3>3. j \in Seq(Char) /\ j # <<>>
      BY <2>2, <3>1 DEF j
    <3>4. /\ j \o <<"/">> \o n \in Seq(Char) /\ j \o <<"/">> \o n # <<>>
          /\ <<"/">> \o (j \o <<"/">> \o n) = ((<<"/">> \o j) \o <<"/">>) \o n
          /\ <<"/">> \o j \in Seq(Char)
      BY <2>2, <3>3, SMTT(30)
    <3>5. Names(((<<"/">> \o j) \o <<"/">>) \o n) = Names(<<"/">> \o j) \o <<n>>
      BY <1>4, <2>2, <3>4, NamesConcat
    <3>6. (<<<<>>>> \o x) \o <<n>> = <<<<>>>> \o Append(x, n)
      <4>1. L # {} /\ <<>> \in L /\ x \in Seq(L) /\ n \in L
        <5>1. <<>> \in L
          BY DEF L, Segments
        <5> QED BY <1>1, <5>1, SeqMonotonic
      <4> QED BY <4>1
    <3>7. Names(<<"/">> \o J(Append(x, n))) = <<<<>>>> \o Append(x, n)
      BY <3>1, <3>2, <3>4, <3>5, <3>6 DEF j
    <3> QED BY <2>1, <3>2, <3>4, <3>7 DEF j
  <2> QED BY <2>3, <2>4
<1> HIDE DEF T
<1>7. \A x \in Seq(E) : x \in T
  BY <1>5, <1>6, ByAppending
<1> QED BY <1>7 DEF T, E, J

(* Names that are clean stay as they are.                                  *)
LEMMA CleanStays ==
  ASSUME NEW Char, NEW ns \in Seq(Proper(TRUE, Char))
  PROVE  /\ CleanNames(TRUE, <<<<>>>> \o ns) = ns
         /\ CleanNames(TRUE, <<<<>>, <<>>>>) = <<>>
<1> DEFINE E == Proper(TRUE, Char)
           L == Segments(Char)
           C(x) == CleanNames(TRUE, x)
           T == {x \in Seq(E) : C(<<<<>>>> \o x) = x}
<1>1. E \subseteq L /\ <<>> \in L /\ \A n \in E : n \notin {<<>>, Dot, DotDot}
  BY DEF Proper, Segments
<1>2. /\ C(<<>>) = <<>>
      /\ \A x \in Seq(L), n \in L : C(Append(x, n)) = AddName(TRUE, C(x), n)
  BY CleanFold
<1> HIDE DEF E, L, C
<1>3. C(<<<<>>>>) = <<>> /\ C(<<<<>>, <<>>>>) = <<>>
  <2>1. <<>> \in Seq(L) /\ <<<<>>>> \in Seq(L)
    BY <1>1
  <2>2. <<<<>>>> = Append(<<>>, <<>>) /\ <<<<>>, <<>>>> = Append(<<<<>>>>, <<>>)
    OBVIOUS
  <2>3. C(<<<<>>>>) = <<>>
    BY <1>1, <1>2, <2>1, <2>2 DEF AddName
  <2> QED BY <1>1, <1>2, <2>1, <2>2, <2>3 DEF AddName
<1>4. <<>> \in T
  <2>1. <<>> \in Seq(E) /\ <<<<>>>> \o <<>> = <<<<>>>>
    OBVIOUS
  <2> QED BY <1>3, <2>1
<1>5. ASSUME NEW x \in Seq(E), NEW n \in E, x \in T PROVE Append(x, n) \in T
  <2>1. x \in Seq(L) /\ n \in L /\ <<<<>>>> \in Seq(L)
    BY <1>1, SeqMonotonic
  <2>2. /\ <<<<>>>> \o Append(x, n) = Append(<<<<>>>> \o x, n)
        /\ <<<<>>>> \o x \in Seq(L)
    BY <2>1, AppendAfter
  <2>3. C(<<<<>>>> \o Append(x, n)) = AddName(TRUE, x, n)
    BY <1>2, <1>5, <2>1, <2>2
  <2>4. AddName(TRUE, x, n) = Append(x, n)
    BY <1>1 DEF AddName
  <2>5. Append(x, n) \in Seq(E)
    OBVIOUS
  <2> QED BY <2>3, <2>4, <2>5
<1> HIDE DEF T
<1>6. \A x \in Seq(E) : x \in T
  BY <1>4, <1>5, ByAppending
<1> QED BY <1>3, <1>6 DEF T, E, C

(* A cleaned path from the root leads where the path leads.                *)
LEMMA CleanLeadsThere ==
  ASSUME NEW Char, NEW p \in Seq(Char), Rooted(p)
  PROVE  /\ NamesOf(p) \in Seq(Proper(TRUE, Char))
         /\ Clean(p) = <<"/">> \o JoinNames(NamesOf(p))
         /\ Clean(p) \in Seq(Char) /\ Rooted(Clean(p))
         /\ NamesOf(Clean(p)) = NamesOf(p)
<1> DEFINE L == Segments(Char)
           E == Proper(TRUE, Char)
           ns == NamesOf(p)
           j == JoinNames(ns)
<1>1. "/" \in Char
  BY DEF Rooted
<1>2. ns \in Seq(E)
  <2>1. Names(p) \in Seq(L)
    BY <1>1, NamesFold DEF Splits
  <2>2. ns = CleanNames(TRUE, Names(p))
    BY DEF NamesOf
  <2>3. \A x \in Seq(L) : CleanNames(TRUE, x) \in Seq(E)
    <3>1. <<>> \in L
      BY DEF Segments
    <3> QED BY <3>1, CleanFold
  <2> QED BY <2>1, <2>2, <2>3
<1>3. ns \in Seq(Nonempty(Char))
  <2>1. E \subseteq Nonempty(Char)
    BY DEF Proper, Nonempty
  <2> HIDE DEF E, ns
  <2> QED BY <1>2, <2>1, SeqMonotonic
<1>4. Clean(p) = <<"/">> \o j
  BY DEF Clean
<1> HIDE DEF j
<1>5. /\ j \in Seq(Char) /\ (j = <<>> <=> ns = <<>>)
      /\ Names(<<"/">> \o j) = IF ns = <<>> THEN <<<<>>, <<>>>> ELSE <<<<>>>> \o ns
  BY <1>1, <1>3, NamesOfJoin DEF j
<1>6. <<"/">> \o j \in Seq(Char) /\ Rooted(<<"/">> \o j)
  BY <1>1, <1>5 DEF Rooted
<1>7. NamesOf(<<"/">> \o j) = CleanNames(TRUE, Names(<<"/">> \o j))
  BY <1>6 DEF NamesOf
<1> HIDE DEF ns, E
<1>8. CleanNames(TRUE, Names(<<"/">> \o j)) = ns
  BY <1>2, <1>5, CleanStays DEF E
<1> QED BY <1>2, <1>4, <1>6, <1>7, <1>8 DEF ns, E, j

(* A text joined of names begins with the first, and if it goes on, with a *)
(* slash.                                                                  *)
BeginsWith(text, n) ==
  /\ Len(text) >= Len(n) /\ \A i \in 1..Len(n) : text[i] = n[i]
  /\ Len(text) # Len(n) => text[Len(n) + 1] = "/"

(* Each longer text does too.                                              *)
LEMMA JoinBegins ==
  ASSUME NEW Char, "/" \in Char, NEW ns \in Seq(Nonempty(Char)), ns # <<>>
  PROVE  BeginsWith(JoinNames(ns), ns[1])
<1> DEFINE E == Nonempty(Char)
           J(x) == JoinNames(x)
           T == {x \in Seq(E) : x # <<>> => BeginsWith(J(x), x[1])}
<1>1. E \subseteq Segments(Char) /\ E \subseteq Seq(Char) /\ \A n \in E : n # <<>>
  BY DEF Nonempty, Segments
<1>2. J(<<>>) = <<>> /\ \A x \in Seq(E), n \in E : J(Append(x, n)) = JoinName(J(x), n)
  <2>1. \A x \in Seq(E) : x \in Seq(Segments(Char))
    <3> HIDE DEF E
    <3> QED BY <1>1, SeqMonotonic
  <2>2. <<>> \in Seq(Segments(Char))
    OBVIOUS
  <2> QED BY <1>1, <2>1, JoinFold
<1>3. \A x \in Seq(E) : J(x) \in Seq(Char) /\ (J(x) = <<>> <=> x = <<>>)
  BY NamesOfJoin
<1> HIDE DEF E, J
<1>4. <<>> \in T
  OBVIOUS
<1>5. ASSUME NEW x \in Seq(E), NEW n \in E, x \in T PROVE Append(x, n) \in T
  <2>1. Append(x, n) \in Seq(E) /\ n \in Seq(Char) /\ J(x) \in Seq(Char)
    BY <1>1, <1>3
  <2>2. CASE x = <<>>
    <3>1. J(Append(x, n)) = n
      <4>1. J(Append(x, n)) = JoinName(J(x), n) /\ J(x) = <<>>
        BY <1>2, <2>2
      <4> QED BY <4>1 DEF JoinName
    <3>2. BeginsWith(n, n)
      BY <2>1 DEF BeginsWith
    <3>3. Append(x, n)[1] = n
      <4>1. Len(x) = 0
        BY <2>2
      <4> QED BY <4>1
    <3> QED BY <2>1, <3>1, <3>2, <3>3
  <2>3. CASE x # <<>>
    <3>1. J(x) # <<>> /\ J(Append(x, n)) = (J(x) \o <<"/">>) \o n
      BY <1>2, <1>3, <2>3 DEF JoinName
    <3>2. x[1] \in E /\ Append(x, n)[1] = x[1] /\ BeginsWith(J(x), x[1])
      BY <1>5, <2>3
    <3> DEFINE j == J(x)
               w == (j \o <<"/">>) \o n
               m == x[1]
    <3> HIDE DEF j, m
    <3>3. j \in Seq(Char) /\ m \in Seq(Char) /\ BeginsWith(j, m)
      BY <1>1, <2>1, <3>2 DEF j, m
    <3>4. /\ Len(w) = Len(j) + 1 + Len(n) /\ \A i \in 1..Len(j) : w[i] = j[i]
          /\ w[Len(j) + 1] = "/"
      BY <2>1, <3>3
    <3> HIDE DEF w
    <3>5. Len(j) \in Nat /\ Len(m) \in Nat /\ Len(n) \in Nat
      BY <2>1, <3>3
    <3>6. BeginsWith(w, m)
      BY <3>3, <3>4, <3>5, SMTT(20) DEF BeginsWith
    <3> QED BY <2>1, <3>1, <3>2, <3>6 DEF j, m, w
  <2> QED BY <2>2, <2>3
<1> HIDE DEF T
<1>6. \A x \in Seq(E) : x \in T
  BY <1>4, <1>5, ByAppending
<1> QED BY <1>6 DEF T, E, J

(* A text joined of names leads up exactly if its first name does.         *)
LEMMA EscapesByName ==
  ASSUME NEW Char, "/" \in Char, NEW ns \in Seq(Nonempty(Char)), ns # <<>>
  PROVE  Escapes(JoinNames(ns)) <=> ns[1] = DotDot
<1> DEFINE j == JoinNames(ns)
           m == ns[1]
<1>1. BeginsWith(j, m) /\ j \in Seq(Char)
  BY JoinBegins, NamesOfJoin
<1>2. m \in Seq(Char \ {"/"}) /\ m # <<>>
  BY DEF Nonempty, Segments
<1> HIDE DEF j, m
<1>3. /\ Len(j) \in Nat /\ Len(m) \in Nat /\ Len(m) >= 1
      /\ \A i \in 1..Len(m) : m[i] # "/" /\ j[i] = m[i]
      /\ Len(j) >= Len(m) /\ (Len(j) # Len(m) => j[Len(m) + 1] = "/")
  BY <1>1, <1>2 DEF BeginsWith
<1>9. Len(j) \in Nat /\ Len(m) \in Nat /\ Len(m) >= 1 /\ Len(j) >= Len(m)
  BY <1>3
<1>4. DotDot = <<".", ".">> /\ Len(DotDot) = 2 /\ DotDot[1] = "." /\ DotDot[2] = "."
  BY DEF DotDot
<1>5. IsPrefix(DotDot \o <<"/">>, j) <=> Len(j) >= 3 /\ j[1] = "." /\ j[2] = "." /\ j[3] = "/"
  <2> DEFINE d == DotDot \o <<"/">>
  <2>1. Len(d) = 3 /\ d[1] = "." /\ d[2] = "." /\ d[3] = "/" /\ d \in Seq({".", "/"})
    BY DEF DotDot
  <2> HIDE DEF d
  <2>2. SubSeq(d, 1, 3) = d
    BY <2>1
  <2>3. Len(j) >= 3 =>
          /\ SubSeq(j, 1, 3) \in Seq(Char) /\ Len(SubSeq(j, 1, 3)) = 3
          /\ \A i \in 1..3 : SubSeq(j, 1, 3)[i] = j[i]
    BY <1>1, <1>3
  <2>4. Len(j) >= 3 => (d = SubSeq(j, 1, 3) <=> \A i \in 1..3 : d[i] = j[i])
    <3> SUFFICES ASSUME Len(j) >= 3, \A i \in 1..3 : d[i] = j[i] PROVE d = SubSeq(j, 1, 3)
      BY <2>1, <2>3
    <3> DEFINE S == Char \cup {".", "/"}
               k == SubSeq(j, 1, 3)
    <3>1. k \in Seq(S) /\ d \in Seq(S)
      BY <2>1, <2>3, SeqMonotonic
    <3>2. Len(d) = Len(k) /\ \A i \in 1..Len(d) : d[i] = k[i]
      BY <2>1, <2>3
    <3> HIDE DEF S, k
    <3>3. d = k
      BY <3>1, <3>2, SeqEqual
    <3> QED BY <3>3 DEF k
  <2>5. (\A i \in 1..3 : d[i] = j[i]) <=> j[1] = "." /\ j[2] = "." /\ j[3] = "/"
    BY <2>1
  <2> QED BY <2>1, <2>2, <2>4, <2>5 DEF IsPrefix, d
<1>6. j = DotDot => j[1] = "." /\ j[2] = "." /\ Len(j) = 2
  BY <1>4
<1>7. ASSUME Escapes(j) PROVE m = DotDot
  <2>1. j[1] = "." /\ j[2] = "." /\ Len(j) >= 2 /\ (Len(j) # 2 => j[3] = "/")
    BY <1>3, <1>5, <1>6, <1>7 DEF Escapes
  <2>2. Len(m) = 2
    <3>1. Len(m) # 1
      <4> SUFFICES ASSUME Len(m) = 1 PROVE FALSE
        OBVIOUS
      <4>1. Len(m) + 1 = 2 /\ Len(j) # Len(m)
        BY <1>3, <2>1
      <4> QED BY <1>3, <2>1, <4>1
    <3>2. ~(Len(m) >= 3)
      <4> SUFFICES ASSUME Len(m) >= 3 PROVE FALSE
        OBVIOUS
      <4>1. 3 \in 1..Len(m) /\ Len(j) # 2
        BY <1>3
      <4> QED BY <1>3, <2>1, <4>1
    <3> DEFINE l == Len(m)
    <3>3. l \in Nat /\ l >= 1 /\ l # 1 /\ ~(l >= 3)
      BY <1>9, <3>1, <3>2
    <3> HIDE DEF l
    <3>4. l = 2
      BY <3>3
    <3> QED BY <3>4 DEF l
  <2>3. m[1] = "." /\ m[2] = "."
    BY <1>3, <2>1, <2>2
  <2> QED BY <1>2, <1>4, <2>2, <2>3
<1>8. ASSUME m = DotDot PROVE Escapes(j)
  <2>1. Len(m) = 2 /\ j[1] = "." /\ j[2] = "."
    BY <1>3, <1>4, <1>8
  <2>2. CASE Len(j) = 2
    <3>1. j = DotDot
      BY <1>1, <1>4, <2>1, <2>2
    <3> QED BY <3>1 DEF Escapes
  <2>3. CASE Len(j) # 2
    <3>1. Len(m) + 1 = 3 /\ Len(j) # Len(m)
      BY <2>1, <2>3
    <3>2. Len(j) >= 3
      BY <1>9, <3>1
    <3>3. j[Len(m) + 1] = "/"
      BY <1>3, <3>1
    <3> QED BY <1>5, <2>1, <3>1, <3>2, <3>3 DEF Escapes
  <2> QED BY <2>2, <2>3
<1> QED BY <1>7, <1>8 DEF j, m

(* One place is below another exactly if the way there does not begin with *)
(* a step up.                                                              *)
LEMMA RelEscapes ==
  ASSUME NEW Char, {"/", "."} \subseteq Char, NEW base, NEW target,
         NamesOf(base) \in Seq(Proper(TRUE, Char)), NamesOf(target) \in Seq(Proper(TRUE, Char))
  PROVE  Escapes(Rel(base, target)) <=> ~IsPrefix(NamesOf(base), NamesOf(target))
<1> DEFINE E == Proper(TRUE, Char)
           b == NamesOf(base)
           t == NamesOf(target)
           Common(k) == /\ k <= Len(t) /\ SubSeq(b, 1, k) = SubSeq(t, 1, k)
                        /\ k < Len(b) /\ k < Len(t) => b[k + 1] # t[k + 1]
           c == CHOOSE k \in 0..Len(b) : Common(k)
           names == [i \in 1..(Len(b) - c) |-> DotDot] \o SubSeq(t, c + 1, Len(t))
<1>1. Rel(base, target) = IF names = <<>> THEN Dot ELSE JoinNames(names)
  BY DEF Rel
<1>2. b \in Seq(E) /\ t \in Seq(E)
  OBVIOUS
<1>3. /\ E \subseteq Nonempty(Char) /\ DotDot \in Nonempty(Char) /\ \A n \in E : n # DotDot
  BY DEF Proper, Nonempty, Segments, DotDot
<1> HIDE DEF E, b, t
<1>4. Len(b) \in Nat /\ Len(t) \in Nat
  BY <1>2
<1>5. \E k \in 0..Len(b) : Common(k)
  <2> DEFINE U == {k \in 1..Len(b) : k <= Len(t) /\ SubSeq(b, 1, k) = SubSeq(t, 1, k)}
  <2>1. ASSUME NEW k \in 0..Len(b), k <= Len(t), SubSeq(b, 1, k) = SubSeq(t, 1, k),
               \A l \in U : l <= k
        PROVE  Common(k)
    <3> SUFFICES ASSUME k < Len(b), k < Len(t), b[k + 1] = t[k + 1] PROVE FALSE
      BY <2>1
    <3>1. k + 1 \in 1..Len(b) /\ k + 1 <= Len(t)
      BY <1>4
    <3>2. /\ SubSeq(b, 1, k + 1) = Append(SubSeq(b, 1, k), b[k + 1])
          /\ SubSeq(t, 1, k + 1) = Append(SubSeq(t, 1, k), t[k + 1])
      BY <1>2, <3>1
    <3>3. k + 1 \in U
      BY <2>1, <3>1, <3>2
    <3> QED BY <2>1, <3>3
  <2>2. CASE U = {}
    <3>1. SubSeq(b, 1, 0) = <<>> /\ SubSeq(t, 1, 0) = <<>>
      BY SubSeqEmpty
    <3>2. 0 \in 0..Len(b) /\ 0 <= Len(t)
      BY <1>4
    <3> HIDE DEF U, Common
    <3> QED BY <2>1, <2>2, <3>1, <3>2
  <2>3. CASE U # {}
    <3>1. U \in SUBSET (1..Len(b))
      OBVIOUS
    <3>2. Max(U) \in U /\ \A l \in U : l <= Max(U)
      <4> HIDE DEF U
      <4> QED BY <1>4, <2>3, <3>1, MaxIn
    <3>3. /\ Max(U) \in 0..Len(b) /\ Max(U) <= Len(t)
          /\ SubSeq(b, 1, Max(U)) = SubSeq(t, 1, Max(U))
      <4> DEFINE m == Max(U)
      <4>1. m \in U
        BY <3>2
      <4> HIDE DEF m
      <4>2. m \in 0..Len(b) /\ m <= Len(t) /\ SubSeq(b, 1, m) = SubSeq(t, 1, m)
        BY <1>4, <4>1
      <4> QED BY <4>2 DEF m
    <3> HIDE DEF U, Common
    <3> QED BY <2>1, <3>2, <3>3
  <2> QED BY <2>2, <2>3
<1>6. c \in 0..Len(b) /\ Common(c)
  BY <1>5
<1> HIDE DEF c
<1>7. IsPrefix(b, t) <=> c = Len(b)
  <2>1. CASE c = Len(b)
    BY <1>6, <2>1 DEF IsPrefix
  <2>2. CASE c # Len(b)
    <3> SUFFICES ASSUME Len(b) <= Len(t), SubSeq(b, 1, Len(b)) = SubSeq(t, 1, Len(b)) PROVE FALSE
      BY <2>2 DEF IsPrefix
    <3>1. c + 1 \in 1..Len(b) /\ b[c + 1] # t[c + 1]
      BY <1>4, <1>6, <2>2
    <3>2. SubSeq(b, 1, Len(b))[c + 1] = b[c + 1] /\ SubSeq(t, 1, Len(b))[c + 1] = t[c + 1]
      BY <1>2, <1>4, <3>1
    <3> QED BY <3>1, <3>2
  <2> QED BY <2>1, <2>2
<1>8. SubSeq(t, c + 1, Len(t)) \in Seq(E)
  BY <1>2, <1>4, <1>6
<1> DEFINE up == [i \in 1..(Len(b) - c) |-> DotDot]
           rest == SubSeq(t, c + 1, Len(t))
<1>9. up \in Seq(Nonempty(Char)) /\ Len(up) = Len(b) - c /\ \A i \in 1..Len(up) : up[i] = DotDot
  <2>1. Len(b) - c \in Nat
    BY <1>4, <1>6
  <2> QED BY <1>3, <2>1
<1>10. rest \in Seq(Nonempty(Char)) /\ \A i \in 1..Len(rest) : rest[i] # DotDot
  <2> HIDE DEF rest
  <2>1. rest \in Seq(E)
    BY <1>8 DEF rest
  <2> QED BY <1>3, <2>1, SeqMonotonic
<1> HIDE DEF up, rest
<1>11. names = up \o rest /\ names \in Seq(Nonempty(Char))
  BY <1>9, <1>10 DEF up, rest
<1> HIDE DEF names
<1>12. CASE c = Len(b)
  <2>1. names = rest
    BY <1>4, <1>9, <1>10, <1>11, <1>12, ConcatEmptySeq
  <2>2. CASE names = <<>>
    <3>1. ~Escapes(Dot)
      BY DEF Escapes, Dot, DotDot, IsPrefix
    <3> QED BY <1>1, <1>7, <1>12, <2>2, <3>1 DEF b, t
  <2>3. CASE names # <<>>
    <3>1. names[1] # DotDot
      BY <1>10, <2>1, <2>3
    <3> QED BY <1>1, <1>7, <1>11, <1>12, <2>3, <3>1, EscapesByName DEF b, t
  <2> QED BY <2>2, <2>3
<1>13. CASE c # Len(b)
  <2>1. names # <<>> /\ names[1] = DotDot
    BY <1>4, <1>6, <1>9, <1>10, <1>11, <1>13
  <2> QED BY <1>1, <1>7, <1>11, <1>13, <2>1, EscapesByName DEF b, t
<1> QED BY <1>12, <1>13

(***************************************************************************)
(* Where paths lead.                                                       *)
(***************************************************************************)

(* Where names lead, one after the other.                                  *)
Led(names, from) == FoldLeft(StepTo, from, names)

(* One step there, as a function.                                          *)
PlaceStep(S) == [x \in Seq(S) \X S |-> StepTo(x[1], x[2])]

(* A name more leads to a place.                                           *)
LEMMA PlaceStepType ==
  ASSUME NEW S
  PROVE  PlaceStep(S) \in [Seq(S) \X S -> Seq(S)]
<1>1. ASSUME NEW here \in Seq(S), NEW n \in S PROVE StepTo(here, n) \in Seq(S)
  BY DEF StepTo, Front
<1> QED BY <1>1 DEF PlaceStep

(* Led takes one name after the other.                                     *)
LEMMA LedRun ==
  ASSUME NEW S, NEW from \in Seq(S), NEW s \in Seq(S)
  PROVE  FoldsTo(Led(s, from), Seq(S), from, PlaceStep(S), s)
<1> DEFINE V == Seq(S)
           D == DOMAIN s
           step == PlaceStep(S)
           none == from
           iter == CHOOSE h : h = [t \in SUBSET D |->
                     IF t = {} THEN none ELSE StepTo(h[t \ {Max(t)}], s[Max(t)])]
<1>1. Led(s, from) = iter[D]
  BY DEF Led, FoldLeft, MapThenFoldSet
<1>2. none \in V /\ step \in [V \X S -> V]
  BY PlaceStepType
<1>3. D = 1..Len(s) /\ Len(s) \in Nat /\ s \in Seq(S) /\ \A i \in D : s[i] \in S
  OBVIOUS
<1>4. ASSUME NEW v \in V, NEW t \in SUBSET D, t # {}
      PROVE  step[<<v, s[Max(t)]>>] = StepTo(v, s[Max(t)])
  <2>1. Max(t) \in D
    BY <1>3, <1>4, MaxIn
  <2>2. s[Max(t)] \in S
    BY <1>3, <2>1
  <2> QED BY <2>2 DEF PlaceStep
<1> HIDE DEF V, D, step, none
<1>5. PICK g \in [SUBSET D -> V] : \A t \in SUBSET D :
        g[t] = IF t = {} THEN none ELSE step[<<g[t \ {Max(t)}], s[Max(t)]>>]
  <2>1. PICK g : IsIter(g, V, none, step, s)
    BY <1>2, <1>3, IterExists, Zenon
  <2> QED BY <1>3, <2>1 DEF IsIter
<1>6. g = [t \in SUBSET D |->
             IF t = {} THEN none ELSE StepTo(g[t \ {Max(t)}], s[Max(t)])]
  <2>1. \A t \in SUBSET D : t # {} => g[t \ {Max(t)}] \in V
    BY <1>5
  <2>2. \A t \in SUBSET D :
          g[t] = IF t = {} THEN none ELSE StepTo(g[t \ {Max(t)}], s[Max(t)])
    BY <1>4, <1>5, <2>1
  <2> QED BY <1>5, <2>2
<1>7. iter = [t \in SUBSET D |->
                IF t = {} THEN none ELSE StepTo(iter[t \ {Max(t)}], s[Max(t)])]
  BY <1>6
<1> HIDE DEF iter
<1>8. iter[{}] = none
  BY <1>7
<1>9. \A t \in SUBSET D : t # {} /\ iter[t \ {Max(t)}] \in V =>
        iter[t] = step[<<iter[t \ {Max(t)}], s[Max(t)]>>]
  <2>1. \A t \in SUBSET D : t # {} =>
          iter[t] = StepTo(iter[t \ {Max(t)}], s[Max(t)])
    BY <1>7
  <2> QED BY <1>4, <2>1
<1>10. FoldsTo(iter[D], V, none, step, s)
  <2>1. Iterates(iter, V, none, step, s)
    BY <1>3, <1>8, <1>9 DEF Iterates
  <2>2. FoldsTo(iter[1..Len(s)], V, none, step, s)
    BY <1>2, <1>3, <2>1, IterRuns, Zenon
  <2> QED BY <1>3, <2>2
<1> QED BY <1>1, <1>10 DEF V, step, none

(* Where Led leads with one name more, and with none.                      *)
LEMMA LedFold ==
  ASSUME NEW S, NEW from \in Seq(S)
  PROVE  /\ Led(<<>>, from) = from
         /\ \A s \in Seq(S), n \in S :
              /\ Led(s, from) \in Seq(S)
              /\ Led(Append(s, n), from) = StepTo(Led(s, from), n)
<1> DEFINE V == Seq(S)
           step == PlaceStep(S)
           none == from
<1>1. \A s \in Seq(S) : FoldsTo(Led(s, from), V, none, step, s)
  BY LedRun
<1>2. \A v \in V, n \in S : step[<<v, n>>] = StepTo(v, n)
  BY DEF PlaceStep
<1> HIDE DEF V, step, none
<1>3. Led(<<>>, from) = none
  <2>1. <<>> \in Seq(S)
    OBVIOUS
  <2>2. FoldsTo(Led(<<>>, from), V, none, step, <<>>)
    BY <1>1, <2>1, Zenon
  <2> QED BY <2>2, FoldBegins, Zenon
<1>4. ASSUME NEW s \in Seq(S), NEW n \in S
      PROVE  /\ Led(s, from) \in V
             /\ Led(Append(s, n), from) = StepTo(Led(s, from), n)
  <2>1. Append(s, n) \in Seq(S)
    OBVIOUS
  <2>2. /\ FoldsTo(Led(s, from), V, none, step, s)
        /\ FoldsTo(Led(Append(s, n), from), V, none, step, Append(s, n))
    BY <1>1, <2>1
  <2>3. Led(Append(s, n), from) = step[<<Led(s, from), n>>] /\ Led(s, from) \in V
    BY <2>2, FoldGoesOn, Zenon
  <2> QED BY <1>2, <2>3
<1> QED BY <1>3, <1>4 DEF V, none

(* To clean the names of a path after those of a place is to walk from     *)
(* there.                                                                  *)
LEMMA CleanWalks ==
  ASSUME NEW Char, "/" \in Char, NEW names \in Seq(Segments(Char)), NEW p \in Seq(Char)
  PROVE  Led(Names(p), CleanNames(TRUE, names)) = CleanNames(TRUE, names \o Names(p))
<1> DEFINE L == Segments(Char)
           E == Proper(TRUE, Char)
           C(x) == CleanNames(TRUE, x)
           T == {x \in Seq(L) : Led(x, C(names)) = C(names \o x)}
<1>1. \A x \in Seq(L), n \in L : C(x) \in Seq(E) /\ C(Append(x, n)) = AddName(TRUE, C(x), n)
  BY CleanFold
<1>2. ASSUME NEW here \in Seq(E), NEW n PROVE AddName(TRUE, here, n) = StepTo(here, n)
  <2>1. here # <<>> => Last(here) # DotDot
    <3>1. here # <<>> => Last(here) \in E
      <4> HIDE DEF E
      <4> QED BY DEF Last
    <3> QED BY <3>1 DEF Proper
  <2> QED BY <2>1 DEF AddName, StepTo
<1>3. E \subseteq L /\ <<>> \in L
  BY DEF Proper, Segments
<1>4. Names(p) \in Seq(L)
  BY NamesFold DEF Splits
<1> HIDE DEF L, E, C
<1>5. names \in Seq(L) /\ C(names) \in Seq(L) /\ C(names) \in Seq(E)
  <2>1. names \in Seq(L)
    BY DEF L
  <2> QED BY <1>1, <1>3, <2>1, SeqMonotonic
<1>6. /\ Led(<<>>, C(names)) = C(names)
      /\ \A x \in Seq(L), n \in L : Led(Append(x, n), C(names)) = StepTo(Led(x, C(names)), n)
  BY <1>5, LedFold
<1>7. <<>> \in T
  <2>1. names \o <<>> = names /\ <<>> \in Seq(L)
    BY <1>5
  <2> QED BY <1>6, <2>1
<1>8. ASSUME NEW x \in Seq(L), NEW n \in L, x \in T PROVE Append(x, n) \in T
  <2>1. names \o Append(x, n) = Append(names \o x, n) /\ names \o x \in Seq(L)
    BY <1>5, AppendAfter
  <2>2. C(names \o Append(x, n)) = StepTo(C(names \o x), n)
    BY <1>1, <1>2, <2>1, ZenonT(60)
  <2>3. Append(x, n) \in Seq(L)
    OBVIOUS
  <2> QED BY <1>6, <1>8, <2>2, <2>3
<1> HIDE DEF T
<1>9. \A x \in Seq(L) : x \in T
  BY <1>7, <1>8, ByAppending
<1> QED BY <1>4, <1>9 DEF T, C

(* What is looked up: the path, or the path below the root.                *)
Whole(root, path) == IF Rooted(path) THEN path ELSE (root \o <<"/">>) \o path

(* It leads where the path does.                                           *)
LEMMA WholeLeads ==
  ASSUME NEW Char, NEW root \in Seq(Char), Rooted(root), NEW path \in Seq(Char)
  PROVE  /\ Whole(root, path) \in Seq(Char) /\ Rooted(Whole(root, path))
         /\ NamesOf(Whole(root, path)) = Walk(path, NamesOf(root))
<1> DEFINE L == Segments(Char)
<1>1. "/" \in Char
  BY DEF Rooted
<1>2. Names(path) \in Seq(L) /\ Names(root) \in Seq(L)
  BY <1>1, NamesFold DEF Splits
<1> HIDE DEF L
<1>3. CASE Rooted(path)
  <2>1. NamesOf(path) = CleanNames(TRUE, Names(path)) /\ Whole(root, path) = path
    BY <1>3 DEF NamesOf, Whole
  <2>2. CleanNames(TRUE, <<>>) = <<>>
    BY CleanFold
  <2>3. <<>> \o Names(path) = Names(path) /\ <<>> \in Seq(L)
    BY <1>2, ConcatEmptySeq
  <2>4. Led(Names(path), CleanNames(TRUE, <<>>)) = CleanNames(TRUE, <<>> \o Names(path))
    BY <1>1, <2>3, CleanWalks DEF L
  <2>5. Walk(path, NamesOf(root)) = Led(Names(path), <<>>)
    BY <1>3 DEF Walk, Led
  <2> QED BY <1>3, <2>1, <2>2, <2>3, <2>4, <2>5
<1>4. CASE ~Rooted(path)
  <2> DEFINE whole == (root \o <<"/">>) \o path
  <2>1. whole \in Seq(Char) /\ Rooted(whole) /\ Whole(root, path) = whole
    <3>1. whole \in Seq(Char)
      BY <1>1
    <3>2. Rooted(whole)
      BY <1>1 DEF Rooted
    <3> QED BY <1>4, <3>1, <3>2 DEF Whole
  <2>2. Names(whole) = Names(root) \o Names(path)
    BY <1>1, NamesConcat
  <2> HIDE DEF whole
  <2>3. /\ NamesOf(whole) = CleanNames(TRUE, Names(root) \o Names(path))
        /\ NamesOf(root) = CleanNames(TRUE, Names(root))
    BY <2>1, <2>2 DEF NamesOf
  <2>4. Led(Names(path), CleanNames(TRUE, Names(root))) = CleanNames(TRUE, Names(root) \o Names(path))
    BY <1>1, <1>2, CleanWalks DEF L
  <2>5. Walk(path, NamesOf(root)) = Led(Names(path), NamesOf(root))
    BY <1>4 DEF Walk, Led
  <2> QED BY <1>4, <2>1, <2>3, <2>4, <2>5
<1> QED BY <1>3, <1>4

(* What the sandbox makes of a path.                                       *)
LEMMA ResolvedIs ==
  ASSUME NEW Char, {"/", "."} \subseteq Char, NEW root \in Seq(Char), Rooted(root),
         NEW path \in Seq(Char)
  PROVE  resolveWorkspacePath(root, path) =
           IF Occurs("nul", path) \/ ~IsPrefix(NamesOf(root), NamesOf(Whole(root, path)))
           THEN <<>> ELSE <<Clean(Whole(root, path))>>
<1> DEFINE whole == Whole(root, path)
           resolved == Clean(whole)
<1>1. whole \in Seq(Char) /\ Rooted(whole)
  BY WholeLeads
<1>2. resolveWorkspacePath(root, path) =
        IF Occurs("nul", path) \/ Escapes(Rel(root, resolved)) THEN <<>> ELSE <<Clean(resolved)>>
  BY DEF resolveWorkspacePath, Join, Whole
<1> HIDE DEF whole
<1>3. /\ NamesOf(whole) \in Seq(Proper(TRUE, Char)) /\ NamesOf(resolved) = NamesOf(whole)
      /\ resolved = <<"/">> \o JoinNames(NamesOf(whole))
      /\ resolved \in Seq(Char) /\ Rooted(resolved)
  BY <1>1, CleanLeadsThere
<1>4. Clean(resolved) = <<"/">> \o JoinNames(NamesOf(resolved))
  <2> HIDE DEF resolved
  <2> QED BY <1>3, CleanLeadsThere
<1>5. NamesOf(root) \in Seq(Proper(TRUE, Char))
  BY CleanLeadsThere
<1> HIDE DEF resolved
<1>6. Escapes(Rel(root, resolved)) <=> ~IsPrefix(NamesOf(root), NamesOf(resolved))
  BY <1>3, <1>5, RelEscapes
<1>7. Clean(resolved) = resolved
  BY <1>3, <1>4
<1> QED BY <1>2, <1>3, <1>6, <1>7 DEF whole, resolved

(* A path is let through exactly if it leads, from the workspace root, to  *)
(* a place at or below it, and what it is resolved to is that place        *)
(* (resolveWorkspacePath, sandbox.go:717-738).                             *)
THEOREM PathsStayInWorkspace ==
  ASSUME NEW Char, {"/", "."} \subseteq Char, NEW root \in Seq(Char), Rooted(root),
         NEW path \in Seq(Char)
  PROVE  /\ resolveWorkspacePath(root, path) # <<>> <=>
              ~Occurs("nul", path) /\ IsPrefix(NamesOf(root), Walk(path, NamesOf(root)))
         /\ resolveWorkspacePath(root, path) # <<>> =>
              /\ Rooted(resolveWorkspacePath(root, path)[1])
              /\ NamesOf(resolveWorkspacePath(root, path)[1]) = Walk(path, NamesOf(root))
<1> DEFINE whole == Whole(root, path)
           r == resolveWorkspacePath(root, path)
<1>1. whole \in Seq(Char) /\ Rooted(whole) /\ NamesOf(whole) = Walk(path, NamesOf(root))
  BY WholeLeads
<1>2. r = IF Occurs("nul", path) \/ ~IsPrefix(NamesOf(root), NamesOf(whole))
          THEN <<>> ELSE <<Clean(whole)>>
  BY ResolvedIs
<1> HIDE DEF whole, r
<1>3. Rooted(Clean(whole)) /\ NamesOf(Clean(whole)) = NamesOf(whole)
  BY <1>1, CleanLeadsThere
<1>4. /\ r # <<>> <=> ~Occurs("nul", path) /\ IsPrefix(NamesOf(root), NamesOf(whole))
      /\ r # <<>> => r[1] = Clean(whole)
  BY <1>2
<1> QED BY <1>1, <1>3, <1>4 DEF r

(* What a path was resolved to is resolved to itself, so that it may be    *)
(* resolved again (resolveWorkspacePath, sandbox.go:717-738).              *)
THEOREM ResolvedAgainIsSame ==
  ASSUME NEW Char, {"/", "."} \subseteq Char, NEW root \in Seq(Char), Rooted(root),
         ~Occurs("nul", root), NEW path \in Seq(Char),
         resolveWorkspacePath(root, path) # <<>>
  PROVE  resolveWorkspacePath(root, resolveWorkspacePath(root, path)[1]) =
           resolveWorkspacePath(root, path)
<1> DEFINE whole == Whole(root, path)
           c == Clean(whole)
           S == Char \ {"nul"}
<1>1. /\ resolveWorkspacePath(root, path) = <<c>>
      /\ ~Occurs("nul", path) /\ IsPrefix(NamesOf(root), NamesOf(whole))
  BY ResolvedIs
<1>2. {"/", "."} \subseteq S /\ root \in Seq(S) /\ path \in Seq(S)
  <2>1. ASSUME NEW x \in Seq(Char), ~Occurs("nul", x) PROVE x \in Seq(S)
    <3>1. \A i \in 1..Len(x) : x[i] \in S
      BY <2>1 DEF Occurs
    <3> QED BY <3>1
  <2> QED BY <1>1, <2>1
<1> HIDE DEF S
<1>3. whole \in Seq(S) /\ Rooted(whole)
  BY <1>2, WholeLeads
<1> HIDE DEF whole
<1>4. /\ c \in Seq(S) /\ Rooted(c) /\ NamesOf(c) = NamesOf(whole)
      /\ c = <<"/">> \o JoinNames(NamesOf(whole))
  BY <1>3, CleanLeadsThere
<1> HIDE DEF c
<1>5. Clean(c) = <<"/">> \o JoinNames(NamesOf(c))
  BY <1>4, CleanLeadsThere
<1>6. ~Occurs("nul", c)
  BY <1>4 DEF Occurs, S
<1>7. Whole(root, c) = c
  BY <1>4 DEF Whole
<1>8. resolveWorkspacePath(root, c) = <<c>>
  BY <1>1, <1>2, <1>4, <1>5, <1>6, <1>7, ResolvedIs
<1> QED BY <1>1, <1>8

(* A prefix is what a sequence begins with.                                *)
LEMMA PrefixSplits ==
  ASSUME NEW S, NEW s \in Seq(S)
  PROVE  /\ \A t \in Seq(S) : IsPrefix(s, t) =>
              /\ SubSeq(t, Len(s) + 1, Len(t)) \in Seq(S)
              /\ t = s \o SubSeq(t, Len(s) + 1, Len(t))
         /\ \A u \in Seq(S) : IsPrefix(s, s \o u)
<1>1. ASSUME NEW t \in Seq(S), IsPrefix(s, t)
      PROVE  /\ SubSeq(t, Len(s) + 1, Len(t)) \in Seq(S)
             /\ t = s \o SubSeq(t, Len(s) + 1, Len(t))
  <2> DEFINE u == SubSeq(t, Len(s) + 1, Len(t))
  <2>1. Len(s) \in Nat /\ Len(t) \in Nat /\ Len(s) <= Len(t) /\ SubSeq(t, 1, Len(s)) = s
    BY <1>1 DEF IsPrefix
  <2>2. u \in Seq(S) /\ Len(u) = Len(t) - Len(s) /\ \A i \in 1..Len(u) : u[i] = t[Len(s) + i]
    BY <2>1
  <2>3. \A i \in 1..Len(s) : s[i] = t[i]
    BY <2>1
  <2> HIDE DEF u
  <2>4. s \o u \in Seq(S) /\ Len(s \o u) = Len(t)
    BY <2>1, <2>2
  <2>5. ASSUME NEW i \in 1..Len(t) PROVE t[i] = (s \o u)[i]
    <3>1. (s \o u)[i] = IF i <= Len(s) THEN s[i] ELSE u[i - Len(s)]
      BY <2>1, <2>2
    <3>2. CASE i <= Len(s)
      BY <2>1, <2>3, <3>1, <3>2
    <3>3. CASE ~(i <= Len(s))
      <4>1. i - Len(s) \in 1..Len(u) /\ Len(s) + (i - Len(s)) = i
        BY <2>1, <2>2, <3>3
      <4> QED BY <2>2, <3>1, <3>3, <4>1
    <3> QED BY <3>2, <3>3
  <2>6. t = s \o u
    BY <2>4, <2>5, SeqEqual
  <2> QED BY <2>2, <2>6 DEF u
<1>2. ASSUME NEW u \in Seq(S) PROVE IsPrefix(s, s \o u)
  <2>1. SubSeq(s \o u, 1, Len(s)) = s /\ SubSeq(s, 1, Len(s)) = s
    BY SubSeqFull
  <2> QED BY <2>1 DEF IsPrefix
<1> QED BY <1>1, <1>2

(* Concatenation, as a fact that the provers can use for sets they do not  *)
(* know.                                                                   *)
LEMMA Regroup ==
  ASSUME NEW S
  PROVE  \A a, b, c \in Seq(S) : (a \o b) \o c = a \o (b \o c)
OBVIOUS

(* Names joined after other names.                                         *)
LEMMA JoinConcat ==
  ASSUME NEW Char, "/" \in Char, NEW a \in Seq(Nonempty(Char)), a # <<>>,
         NEW b \in Seq(Nonempty(Char)), b # <<>>
  PROVE  JoinNames(a \o b) = (JoinNames(a) \o <<"/">>) \o JoinNames(b)
<1> DEFINE E == Nonempty(Char)
           J(x) == JoinNames(x)
           T == {x \in Seq(E) : x # <<>> => J(a \o x) = (J(a) \o <<"/">>) \o J(x)}
<1>1. E \subseteq Segments(Char) /\ E \subseteq Seq(Char)
  BY DEF Nonempty, Segments
<1>2. \A x \in Seq(E), n \in E : J(Append(x, n)) = JoinName(J(x), n)
  <2>1. \A x \in Seq(E) : x \in Seq(Segments(Char))
    <3> HIDE DEF E
    <3> QED BY <1>1, SeqMonotonic
  <2> QED BY <1>1, <2>1, JoinFold
<1>3. \A x \in Seq(E) : J(x) \in Seq(Char) /\ (J(x) = <<>> <=> x = <<>>)
  BY NamesOfJoin
<1> HIDE DEF E, J
<1>4. a \in Seq(E) /\ a # <<>>
  BY DEF E
<1>5. <<>> \in T
  OBVIOUS
<1>6. ASSUME NEW x \in Seq(E), NEW n \in E, x \in T PROVE Append(x, n) \in T
  <2>1. /\ a \o Append(x, n) = Append(a \o x, n) /\ a \o x \in Seq(E) /\ a \o x # <<>>
        /\ Append(x, n) \in Seq(E) /\ n \in Seq(Char)
    BY <1>1, <1>4, SMTT(20)
  <2>2. J(a \o Append(x, n)) = (J(a \o x) \o <<"/">>) \o n
    <3>1. J(a \o Append(x, n)) = JoinName(J(a \o x), n) /\ J(a \o x) # <<>>
      BY <1>2, <1>3, <2>1
    <3> QED BY <3>1 DEF JoinName
  <2>3. CASE x = <<>>
    <3>1. a \o x = a
      BY <1>4, <2>3, ConcatEmptySeq
    <3>2. J(Append(x, n)) = n
      <4>1. J(Append(x, n)) = JoinName(J(x), n) /\ J(x) = <<>>
        BY <1>2, <1>3, <2>3
      <4> QED BY <4>1 DEF JoinName
    <3> QED BY <2>1, <2>2, <3>1, <3>2
  <2>4. CASE x # <<>>
    <3>1. J(a \o x) = (J(a) \o <<"/">>) \o J(x)
      BY <1>6, <2>4
    <3>2. J(Append(x, n)) = (J(x) \o <<"/">>) \o n
      <4>1. J(Append(x, n)) = JoinName(J(x), n) /\ J(x) # <<>>
        BY <1>2, <1>3, <2>4
      <4> QED BY <4>1 DEF JoinName
    <3> DEFINE ja == J(a)
               jx == J(x)
    <3>3. ja \in Seq(Char) /\ jx \in Seq(Char)
      BY <1>3, <1>4
    <3> HIDE DEF ja, jx
    <3>4. (((ja \o <<"/">>) \o jx) \o <<"/">>) \o n = (ja \o <<"/">>) \o ((jx \o <<"/">>) \o n)
      <4> DEFINE y == ja \o <<"/">>
                 z == <<"/">>
      <4>1. y \in Seq(Char) /\ z \in Seq(Char) /\ n \in Seq(Char)
        BY <2>1, <3>3
      <4> HIDE DEF y, z
      <4>2. jx \o z \in Seq(Char)
        BY <3>3, <4>1
      <4>3. \A p, q, r \in Seq(Char) : (p \o q) \o r = p \o (q \o r)
        BY Regroup, SMTT(30)
      <4>4. (y \o jx) \o z = y \o (jx \o z)
        BY <3>3, <4>1, <4>3, ZenonT(40)
      <4>5. (y \o (jx \o z)) \o n = y \o ((jx \o z) \o n)
        BY <4>1, <4>2, <4>3, ZenonT(40)
      <4>6. ((y \o jx) \o z) \o n = y \o ((jx \o z) \o n)
        BY <4>4, <4>5
      <4> QED BY <4>6 DEF y, z
    <3> QED BY <2>1, <2>2, <3>1, <3>2, <3>4 DEF ja, jx
  <2> QED BY <2>3, <2>4
<1> HIDE DEF T
<1>7. \A x \in Seq(E) : x \in T
  BY <1>5, <1>6, ByAppending
<1> QED BY <1>7 DEF T, E, J

(* A pattern for all below a directory asks for the directory and a slash. *)
LEMMA StemIs ==
  ASSUME NEW Char, NEW dir \in Seq(Char), DoubleStars(dir) = {}, NEW value
  PROVE  matchGlob(dir \o <<"/", "*", "*">>, value) <=> IsPrefix(dir \o <<"/">>, value)
<1> DEFINE n == Len(dir)
           p == dir \o <<"/", "*", "*">>
           S == Char \cup {"/", "*"}
<1>1. /\ n \in Nat /\ p \in Seq(S) /\ Len(p) = n + 3 /\ \A i \in 1..n : p[i] = dir[i]
      /\ p[n + 1] = "/" /\ p[n + 2] = "*" /\ p[n + 3] = "*"
  <2>1. dir \in Seq(S) /\ <<"/", "*", "*">> \in Seq(S)
    <3>1. Char \subseteq S
      OBVIOUS
    <3> HIDE DEF S
    <3>2. dir \in Seq(S)
      BY <3>1, SeqMonotonic
    <3> QED BY <3>2 DEF S
  <2> HIDE DEF S
  <2> QED BY <2>1
<1>2. SubSeq(p, 1, n + 1) = dir \o <<"/">>
  <2>1. SubSeq(p, 1, n + 1) \in Seq(S) /\ Len(SubSeq(p, 1, n + 1)) = n + 1
    BY <1>1
  <2>2. dir \o <<"/">> \in Seq(S) /\ Len(dir \o <<"/">>) = n + 1
    BY <1>1
  <2>3. ASSUME NEW i \in 1..(n + 1) PROVE SubSeq(p, 1, n + 1)[i] = (dir \o <<"/">>)[i]
    <3>1. SubSeq(p, 1, n + 1)[i] = p[i]
      BY <1>1
    <3>2. (dir \o <<"/">>)[i] = IF i <= n THEN dir[i] ELSE "/"
      OBVIOUS
    <3> HIDE DEF p, n
    <3>3. CASE i = n + 1
      <4>1. ~(n + 1 <= n)
        BY <1>1
      <4>2. SubSeq(p, 1, n + 1)[i] = "/" /\ (dir \o <<"/">>)[i] = "/"
        BY <1>1, <3>1, <3>2, <3>3, <4>1, Zenon
      <4> QED BY <4>2
    <3>4. CASE i # n + 1
      <4>1. i \in 1..n /\ i <= n
        BY <1>1, <3>4
      <4> QED BY <1>1, <3>1, <3>2, <4>1
    <3> QED BY <3>3, <3>4
  <2> HIDE DEF p, n, S
  <2> QED BY <2>1, <2>2, <2>3, SeqEqual
<1> HIDE DEF p, n
<1>3. DoubleStars(p) = {n + 2}
  <2>1. ASSUME NEW i \in DoubleStars(p) PROVE i = n + 2
    <3>1. i \in 1..(n + 2) /\ p[i] = "*" /\ p[i + 1] = "*"
      BY <1>1 DEF DoubleStars
    <3>2. i # n + 1
      BY <1>1, <3>1
    <3>3. i # n
      BY <1>1, <3>1
    <3>4. ~(i < n)
      <4> SUFFICES ASSUME i < n PROVE FALSE
        OBVIOUS
      <4>1. i \in 1..n /\ i + 1 \in 1..n /\ i \in 1..(n - 1)
        BY <1>1, <3>1
      <4>2. dir[i] = "*" /\ dir[i + 1] = "*"
        BY <1>1, <3>1, <4>1
      <4> QED BY <4>1, <4>2 DEF DoubleStars, n
    <3> QED BY <1>1, <3>1, <3>2, <3>3, <3>4
  <2>2. n + 2 \in DoubleStars(p)
    BY <1>1 DEF DoubleStars
  <2> QED BY <2>1, <2>2
<1>4. Stem(p) = dir \o <<"/">>
  <2> DEFINE k == CHOOSE i \in DoubleStars(p) : \A j \in DoubleStars(p) : i <= j
  <2>1. k = n + 2
    BY <1>1, <1>3
  <2>2. Stem(p) = SubSeq(p, 1, k - 1)
    BY Zenon DEF Stem
  <2> HIDE DEF k
  <2>3. k - 1 = n + 1
    BY <1>1, <2>1
  <2> QED BY <1>2, <2>2, <2>3
<1> QED BY <1>3, <1>4 DEF matchGlob, p

(* A text cleaned without a root does not begin with a slash.              *)
LEMMA UnrootedStays ==
  ASSUME NEW Char, "/" \in Char, NEW p \in Seq(Char), ~Rooted(p)
  PROVE  Clean(p) # <<>> /\ Clean(p)[1] # "/"
<1> DEFINE ns == NamesOf(p)
           j == JoinNames(ns)
           E == Proper(FALSE, Char)
<1>1. ns \in Seq(E)
  <2>1. Names(p) \in Seq(Segments(Char)) /\ ns = CleanNames(FALSE, Names(p))
    <3>1. Names(p) \in Seq(Segments(Char))
      BY NamesFold DEF Splits
    <3>2. Rooted(p) = FALSE
      BY DEF Rooted
    <3> QED BY <3>1, <3>2 DEF NamesOf
  <2>2. \A x \in Seq(Segments(Char)) : CleanNames(FALSE, x) \in Seq(E)
    <3>1. <<>> \in Segments(Char)
      BY DEF Segments
    <3> QED BY <3>1, CleanFold
  <2> QED BY <2>1, <2>2
<1>2. E \subseteq Nonempty(Char)
  BY DEF Proper, Nonempty
<1>3. Clean(p) = IF j = <<>> THEN Dot ELSE j
  BY DEF Clean
<1> HIDE DEF ns, E
<1>4. ns \in Seq(Nonempty(Char))
  BY <1>1, <1>2, SeqMonotonic
<1>5. CASE ns = <<>>
  <2>1. j = <<>>
    BY <1>4, <1>5, NamesOfJoin
  <2> QED BY <1>3, <2>1 DEF Dot
<1>6. CASE ns # <<>>
  <2>1. j # <<>> /\ BeginsWith(j, ns[1])
    BY <1>4, <1>6, NamesOfJoin, JoinBegins
  <2>2. ns[1] \in Seq(Char \ {"/"}) /\ ns[1] # <<>>
    BY <1>4, <1>6 DEF Nonempty, Segments
  <2>3. 1 \in 1..Len(ns[1]) /\ ns[1][1] # "/"
    BY <2>2
  <2>4. j[1] # "/"
    BY <2>1, <2>3 DEF BeginsWith
  <2> QED BY <1>3, <2>1, <2>4
<1> QED BY <1>5, <1>6

(* A pattern /d/** matches exactly the paths that lead, by whatever        *)
(* detours they are written, to something below /d (Evaluate's use of      *)
(* matchGlob and normalizePath, engine.go:400-407, 774-797 and 936-941).   *)
THEOREM MatchedExactlyBelow ==
  ASSUME NEW Char, {"/", "."} \subseteq Char, NEW dir \in Seq(Char), PatternDirectory(dir),
         NEW path \in Seq(Char)
  PROVE  matchGlob(Under(dir), normalizePath(path)) <=>
           Rooted(path) /\ IsStrictPrefix(NamesOf(dir), Walk(path, <<>>))
<1> DEFINE v == normalizePath(path)
           stem == dir \o <<"/">>
           L == Segments(Char)
           dn == NamesOf(dir)
<1>0. Rooted(dir) /\ Clean(dir) = dir /\ dn # <<>> /\ DoubleStars(dir) = {}
  BY DEF PatternDirectory
<1>1. "/" \in Char /\ stem \in Seq(Char) /\ stem # <<>> /\ stem[1] = "/"
  BY <1>0 DEF Rooted
<1>2. matchGlob(Under(dir), v) <=> IsPrefix(stem, v)
  BY <1>0, StemIs DEF Under
<1>3. dir = <<"/">> \o JoinNames(dn) /\ dn \in Seq(Proper(TRUE, Char))
  BY <1>0, CleanLeadsThere
<1> HIDE DEF L
<1>4. CASE ~Rooted(path)
  <2>1. ~IsPrefix(stem, v)
    <3>1. v = <<>> \/ (v # <<>> /\ v[1] # "/")
      BY <1>1, <1>4, UnrootedStays DEF normalizePath
    <3> HIDE DEF v, stem
    <3>2. ASSUME IsPrefix(stem, v) PROVE v # <<>> /\ v[1] = "/"
      <4>1. Len(stem) \in Nat /\ Len(stem) >= 1 /\ SubSeq(stem, 1, Len(stem)) = stem
        BY <1>1, SubSeqFull
      <4>2. Len(stem) <= Len(v) /\ stem = SubSeq(v, 1, Len(stem))
        BY <3>2, <4>1 DEF IsPrefix
      <4>3. v # <<>>
        BY <4>1, <4>2
      <4>4. stem[1] = v[1]
        BY <4>1, <4>2
      <4> QED BY <1>1, <4>3, <4>4
    <3> QED BY <3>1, <3>2
  <2> HIDE DEF v, stem
  <2> QED BY <1>2, <1>4, <2>1 DEF v
<1>5. CASE Rooted(path)
  <2> DEFINE pn == NamesOf(path)
             Named == Nonempty(Char)
  <2>1. Walk(path, <<>>) = pn
    <3>1. Whole(dir, path) = path /\ Walk(path, NamesOf(dir)) = Walk(path, <<>>)
      BY <1>5 DEF Whole, Walk
    <3> QED BY <1>0, <1>5, <3>1, WholeLeads
  <2>2. /\ v = <<"/">> \o JoinNames(pn) /\ v \in Seq(Char) /\ pn \in Seq(Proper(TRUE, Char))
    <3>1. v = Clean(path)
      BY <1>5 DEF normalizePath, Rooted
    <3> QED BY <1>5, <3>1, CleanLeadsThere
  <2>3. dn \in Seq(Named) /\ pn \in Seq(Named) /\ dn # <<>>
    <3>1. Proper(TRUE, Char) \subseteq Named
      BY DEF Proper, Nonempty
    <3> HIDE DEF Named, dn, pn
    <3>2. dn \in Seq(Named) /\ pn \in Seq(Named)
      BY <1>3, <2>2, <3>1, SeqMonotonic
    <3> QED BY <1>0, <3>2 DEF dn
  <2> HIDE DEF v, stem, dn, pn
  <2>4. ASSUME IsPrefix(stem, v) PROVE IsStrictPrefix(dn, pn)
    <3> DEFINE x == SubSeq(v, Len(stem) + 1, Len(v))
    <3>1. x \in Seq(Char) /\ v = stem \o x
      BY <1>1, <2>2, <2>4, PrefixSplits, ZenonT(60)
    <3> HIDE DEF x
    <3>2. Names(v) = Names(dir) \o Names(x)
      BY <1>1, <3>1, NamesConcat DEF stem
    <3>3. Names(dir) = <<<<>>>> \o dn
      BY <1>1, <1>3, <2>3, NamesOfJoin
    <3>4. pn # <<>>
      <4>1. Len(v) >= 2
        <5>1. Len(v) = Len(stem) + Len(x) /\ Len(stem) = Len(dir) + 1 /\ Len(dir) \in Nat \ {0} /\ Len(x) \in Nat
          BY <1>0, <1>1, <3>1 DEF stem, Rooted
        <5> QED BY <5>1
      <4>2. ASSUME pn = <<>> PROVE FALSE
        <5>1. JoinNames(pn) = <<>>
          BY <1>1, <2>3, <4>2, NamesOfJoin
        <5>2. v = <<"/">>
          BY <2>2, <5>1
        <5> QED BY <4>1, <5>2
      <4> QED BY <4>2
    <3>5. Names(v) = <<<<>>>> \o pn
      BY <1>1, <2>2, <2>3, <3>4, NamesOfJoin
    <3>6. Names(x) \in Seq(L) /\ Names(x) # <<>>
      BY <1>1, <3>1, NamesFold DEF Splits, L
    <3>7. dn \in Seq(L) /\ pn \in Seq(L) /\ <<<<>>>> \in Seq(L)
      <4>1. Named \subseteq L /\ <<>> \in L
        BY DEF Nonempty, L, Segments
      <4> HIDE DEF Named
      <4> QED BY <2>3, <4>1, SeqMonotonic
    <3> DEFINE e == <<<<>>>>
               r == Names(x)
    <3>8. e \in Seq(L) /\ r \in Seq(L) /\ r # <<>> /\ e \o pn = (e \o dn) \o r
      BY <3>2, <3>3, <3>5, <3>6, <3>7
    <3> HIDE DEF e, r
    <3>9. e \o pn = e \o (dn \o r) /\ dn \o r \in Seq(L)
      <4>1. \A p, q, u \in Seq(L) : (p \o q) \o u = p \o (q \o u)
        BY Regroup, SMTT(30)
      <4>2. (e \o dn) \o r = e \o (dn \o r)
        BY <3>7, <3>8, <4>1, ZenonT(40)
      <4> QED BY <3>7, <3>8, <4>2
    <3>10. pn = dn \o r
      BY <3>7, <3>8, <3>9, ConcatSimplifications
    <3>11. IsPrefix(dn, pn)
      BY <3>7, <3>8, <3>10, PrefixSplits
    <3>12. pn # dn
      BY <3>7, <3>8, <3>10, ConcatEqualIffEmpty
    <3> QED BY <3>11, <3>12 DEF IsStrictPrefix
  <2>5. ASSUME IsStrictPrefix(dn, pn) PROVE IsPrefix(stem, v)
    <3> DEFINE r == SubSeq(pn, Len(dn) + 1, Len(pn))
    <3> HIDE DEF Named
    <3>1. r \in Seq(Named) /\ pn = dn \o r
      BY <2>3, <2>5, PrefixSplits DEF IsStrictPrefix
    <3> HIDE DEF r
    <3>2. r # <<>>
      BY <2>3, <2>5, <3>1, ConcatEqualIffEmpty DEF IsStrictPrefix
    <3>3. JoinNames(pn) = (JoinNames(dn) \o <<"/">>) \o JoinNames(r)
      BY <1>1, <2>3, <3>1, <3>2, JoinConcat DEF Named
    <3>4. JoinNames(dn) \in Seq(Char) /\ JoinNames(r) \in Seq(Char)
      BY <1>1, <2>3, <3>1, NamesOfJoin DEF Named
    <3> DEFINE a == JoinNames(dn)
               b == JoinNames(r)
    <3> HIDE DEF a, b
    <3>5. <<"/">> \o ((a \o <<"/">>) \o b) = ((<<"/">> \o a) \o <<"/">>) \o b
      <4>1. a \in Seq(Char) /\ b \in Seq(Char)
        BY <3>4 DEF a, b
      <4> QED BY <1>1, <4>1
    <3>6. v = stem \o b /\ b \in Seq(Char)
      BY <1>3, <2>2, <3>3, <3>4, <3>5 DEF a, b, stem
    <3> QED BY <1>1, <3>6, PrefixSplits
  <2> QED BY <1>2, <1>5, <2>1, <2>4, <2>5 DEF v, dn
<1> QED BY <1>4, <1>5

(* The directories of patterns that are texts are texts.                   *)
LEMMA DirectoriesAreTexts ==
  ASSUME NEW patterns \in SUBSET Seq(STRING), NEW dir \in DirectoriesOf(patterns)
  PROVE  dir \in Seq(STRING) /\ PatternDirectory(dir) /\ Under(dir) \in patterns
<1>1. PICK pattern \in patterns : dir = SubSeq(pattern, 1, Len(pattern) - 3)
  BY DEF DirectoriesOf
<1> QED BY <1>1 DEF DirectoriesOf

(* What is not denied respects the path rule of the capability that        *)
(* decided.                                                                *)
LEMMA PathAdmitted ==
  ASSUME LoopInv, stage = "done", decision.rule # 0, decision.decision # "deny",
         Has(call.args, "path"),
         NEW rule, rule = policy.capabilities[decision.rule].constraints.paths
  PROVE  /\ rule \in PathRules /\ TextOf(call.args, "path") \in PathTexts
         /\ Admitted(rule, NormalPath(TextOf(call.args, "path")), MatchGlob)
<1> DEFINE c == policy.capabilities[decision.rule]
<1>1. /\ decision.rule \in DOMAIN policy.capabilities /\ policy \in Policies
      /\ request \in Requests /\ decision.decision = Ruling(c, request)
  BY DEF LoopInv, AsDeclared, PolicyTypeOK
<1>2. LimitsHold(c.constraints, request.call.args)
  BY <1>1 DEF Ruling
<1>3. Admitted(rule, NormalPath(TextOf(call.args, "path")), MatchGlob)
  BY <1>2 DEF LimitsHold, pathOK, checkAllowDenyGlob, call
<1>4. rule \in PathRules
  BY <1>1 DEF PathRules
<1>5. TextOf(call.args, "path") \in PathTexts
  BY <1>1 DEF PathTexts, call
<1> QED BY <1>3, <1>4, <1>5

(* A call that is not denied reaches nothing below a directory its rule    *)
(* denies and, where its rule allows directories, only what is below one   *)
(* of them (engine.go:399-408, 727-746, 936-941).                          *)
THEOREM DeniedIsNotReached == Spec => []NothingDeniedIsReached
<1>1. ASSUME LoopInv PROVE NothingDeniedIsReached
  <2> DEFINE path == TextOf(call.args, "path")
             rule == policy.capabilities[decision.rule].constraints.paths
             allowed == DirectoriesOf(rule.allow)
  <2> SUFFICES ASSUME stage = "done", decision.rule # 0, decision.decision # "deny",
                      Has(call.args, "path")
               PROVE  /\ \A dir \in DirectoriesOf(rule.deny) : ~Below(path, dir)
                      /\ rule.allow # {} /\ rule.allow = {Under(dir) : dir \in allowed} =>
                           \E dir \in allowed : Below(path, dir)
    BY DEF NothingDeniedIsReached
  <2>1. /\ rule \in PathRules /\ path \in PathTexts
        /\ Admitted(rule, NormalPath(path), MatchGlob)
    BY <1>1, PathAdmitted
  <2> HIDE DEF path, rule
  <2>2. /\ \A pattern \in rule.deny : ~MatchGlob(pattern, NormalPath(path))
        /\ rule.allow = {} \/ \E pattern \in rule.allow : MatchGlob(pattern, NormalPath(path))
    BY <2>1 DEF Admitted
  <2>3. /\ path \in Seq(STRING) /\ rule.deny \subseteq Seq(STRING) /\ rule.allow \subseteq Seq(STRING)
        /\ NormalPath(path) = normalizePath(path)
        /\ \A pattern \in rule.deny \cup rule.allow :
             MatchGlob(pattern, NormalPath(path)) <=> matchGlob(pattern, normalizePath(path))
    <3>1. rule.deny \cup rule.allow \subseteq PathPatterns
      BY <2>1 DEF PathPatterns
    <3> QED BY <2>1, <3>1, MatcherAssumption
  <2>4. ASSUME NEW dir \in Seq(STRING), PatternDirectory(dir)
        PROVE  matchGlob(Under(dir), normalizePath(path)) <=> Below(path, dir)
    <3> DEFINE Char == STRING \cup {"/", "."}
    <3>1. {"/", "."} \subseteq Char /\ STRING \subseteq Char
      OBVIOUS
    <3> HIDE DEF Char
    <3>2. dir \in Seq(Char) /\ path \in Seq(Char)
      BY <2>3, <3>1, SeqMonotonic
    <3> QED BY <2>3, <2>4, <3>1, <3>2, MatchedExactlyBelow DEF Below
  <2>5. ASSUME NEW dir \in DirectoriesOf(rule.deny) PROVE ~Below(path, dir)
    <3>1. dir \in Seq(STRING) /\ PatternDirectory(dir) /\ Under(dir) \in rule.deny
      BY <2>3, DirectoriesAreTexts
    <3> QED BY <2>2, <2>3, <2>4, <3>1
  <2>6. ASSUME rule.allow # {}, rule.allow = {Under(dir) : dir \in allowed}
        PROVE  \E dir \in allowed : Below(path, dir)
    <3>1. PICK dir \in allowed : MatchGlob(Under(dir), NormalPath(path))
      BY <2>2, <2>6
    <3>2. dir \in Seq(STRING) /\ PatternDirectory(dir) /\ Under(dir) \in rule.allow
      BY <2>3, DirectoriesAreTexts
    <3> QED BY <2>3, <2>4, <3>1, <3>2
  <2> QED BY <2>5, <2>6
<1> QED BY EvaluationInvariant, <1>1, PTL

(***************************************************************************)
(* The rules, as properties of the specification that asks them.           *)
(***************************************************************************)

(* Each question is one of those that may be asked, and its answer is what *)
(* the code says.                                                          *)
RulesInv ==
  /\ answer.of = "globs" =>
       /\ question.pattern \in Globs /\ question.value \in GlobTexts
       /\ answer.command = matchShellGlob(question.pattern, question.value)
       /\ answer.path = matchGlob(question.pattern, question.value)
  /\ answer.of = "domain" =>
       /\ question.pattern \in DomainPatterns /\ question.value \in Domains
       /\ answer.domain <=> matchDomain(question.pattern, question.value)
  /\ answer.of = "below" =>
       /\ question.dir \in Directories /\ question.value \in Paths
       /\ answer.path <=> matchGlob(Under(question.dir), normalizePath(question.value))
  /\ answer.of = "path" =>
       /\ question.root \in Roots /\ question.text \in Operands
       /\ answer.resolved = resolveWorkspacePath(question.root, question.text)
  /\ answer.of = "operand" =>
       /\ question.text \in Operands
       /\ answer.allowed <=> validateGitOperand(question.text)
  /\ answer.of = "command" =>
       /\ question.text \in Commands
       /\ answer.allowed <=> validateSimpleShellCommand(question.text)
  /\ answer.of = "git" =>
       /\ question.action \in GitActions /\ question.argv \in GitArgvs
       /\ answer.allowed <=> validateGitArgs(question.action, question.argv)
  /\ answer.of = "object" =>
       /\ question.object \in Objects
       /\ answer.found = parseToolCallLine(question.object)
  /\ answer.of = "lines" =>
       /\ question.lines \in Lines /\ question.room \in Rooms
       /\ answer.output = run(question.lines, question.room).output
       /\ answer.code = ExitCode(run(question.lines, question.room))

(* What may be asked, by what it is about.                                 *)
Asked ==
  /\ question.of = "globs" => question.pattern \in Globs /\ question.value \in GlobTexts
  /\ question.of = "domain" => question.pattern \in DomainPatterns /\ question.value \in Domains
  /\ question.of = "below" => question.dir \in Directories /\ question.value \in Paths
  /\ question.of = "path" => question.root \in Roots /\ question.text \in Operands
  /\ question.of = "operand" => question.text \in Operands
  /\ question.of = "command" => question.text \in Commands
  /\ question.of = "git" => question.action \in GitActions /\ question.argv \in GitArgvs
  /\ question.of = "object" => question.object \in Objects
  /\ question.of = "lines" => question.lines \in Lines /\ question.room \in Rooms

(* Every answer about a text, a command line or a line of input is the one *)
(* the code gives to a question that may be asked.                         *)
LEMMA RulesInvariant == RulesSpec => [](Asked /\ RulesInv)
<1>1. RulesInit => Asked /\ RulesInv
  <2> SUFFICES ASSUME RulesInit PROVE Asked /\ RulesInv
    OBVIOUS
  <2>1. answer.of = "none"
    BY DEF RulesInit, Unanswered
  <2>2. Asked
    BY DEF RulesInit, Asked
  <2> QED BY <2>1, <2>2 DEF RulesInv
<1>2. Asked /\ RulesInv /\ [RulesNext]_ruleVars => (Asked /\ RulesInv)'
  <2> SUFFICES ASSUME Asked, RulesInv, [RulesNext]_ruleVars PROVE Asked' /\ RulesInv'
    OBVIOUS
  <2>1. question' = question
    BY DEF RulesNext, ruleVars, Ask, AskGlobs, AskDomain, AskBelow, AskPath, AskOperand, AskCommand,
       AskGit, AskObject, AskLines
  <2>2. Asked'
    BY <2>1 DEF Asked
  <2>3. CASE AskGlobs
    BY <2>1, <2>3 DEF AskGlobs, Ask, Asked, RulesInv
  <2>4. CASE AskDomain
    BY <2>1, <2>4 DEF AskDomain, Ask, Asked, RulesInv
  <2>5. CASE AskBelow
    BY <2>1, <2>5 DEF AskBelow, Ask, Asked, RulesInv
  <2>6. CASE AskPath
    BY <2>1, <2>6 DEF AskPath, Ask, Asked, RulesInv
  <2>7. CASE AskOperand
    BY <2>1, <2>7 DEF AskOperand, Ask, Asked, RulesInv
  <2>8. CASE AskCommand
    BY <2>1, <2>8 DEF AskCommand, Ask, Asked, RulesInv
  <2>9. CASE AskGit
    BY <2>1, <2>9 DEF AskGit, Ask, Asked, RulesInv
  <2>10. CASE AskObject
    BY <2>1, <2>10 DEF AskObject, Ask, Asked, RulesInv
  <2>11. CASE AskLines
    BY <2>1, <2>11 DEF AskLines, Ask, Asked, RulesInv
  <2>12. CASE UNCHANGED ruleVars
    BY <2>2, <2>12 DEF ruleVars, RulesInv
  <2> QED BY <2>2, <2>3, <2>4, <2>5, <2>6, <2>7, <2>8, <2>9, <2>10, <2>11, <2>12 DEF RulesNext
<1> QED BY <1>1, <1>2, PTL DEF RulesSpec

(* The pattern /d/** matches exactly the paths that lead from the root to  *)
(* something below /d (engine.go:400-407, 774-797 and 936-941).            *)
THEOREM BelowIsMatched == RulesSpec => []MatchedIsBelow
<1>1. ASSUME RulesInv PROVE MatchedIsBelow
  <2> SUFFICES ASSUME answer.of = "below"
               PROVE  answer.path <=>
                        /\ Rooted(question.value)
                        /\ IsStrictPrefix(NamesOf(question.dir), Walk(question.value, <<>>))
    BY DEF MatchedIsBelow
  <2>1. /\ question.dir \in Directories /\ question.value \in Paths
        /\ answer.path <=> matchGlob(Under(question.dir), normalizePath(question.value))
    BY <1>1 DEF RulesInv
  <2>2. /\ {"/", "."} \subseteq Characters /\ PatternDirectory(question.dir)
        /\ question.dir \in Seq(Characters) /\ question.value \in Seq(Characters)
    BY <2>1, TextsAssumption
  <2> QED BY <2>1, <2>2, MatchedExactlyBelow
<1> QED BY RulesInvariant, <1>1, PTL

(***************************************************************************)
(* The command lines of git.                                               *)
(***************************************************************************)

(* The states of the loops.                                                *)
ScanStates == [mode : {"scan", "value", "operands", "refused"}, listMode : BOOLEAN]

(* One step of them, as a function.                                        *)
ScanStep(command, S) == [x \in ScanStates \X S |-> ScanArg(command, x[1], x[2])]

(* An argument more leaves a state.                                        *)
LEMMA ScanStepType ==
  ASSUME NEW command, NEW S
  PROVE  Scanning \in ScanStates /\ ScanStep(command, S) \in [ScanStates \X S -> ScanStates]
<1>1. ASSUME NEW state \in ScanStates, NEW arg PROVE ScanArg(command, state, arg) \in ScanStates
  BY DEF ScanArg, Proceed, ScanStates
<1>2. Scanning \in ScanStates
  BY DEF Scanning, ScanStates
<1> QED BY <1>1, <1>2 DEF ScanStep

(* Scanned takes one argument after the other.                             *)
LEMMA ScanRun ==
  ASSUME NEW command, NEW S, NEW s \in Seq(S)
  PROVE  FoldsTo(Scanned(command, s), ScanStates, Scanning, ScanStep(command, S), s)
<1> DEFINE V == ScanStates
           D == DOMAIN s
           step == ScanStep(command, S)
           none == Scanning
           iter == CHOOSE h : h = [t \in SUBSET D |->
                     IF t = {} THEN none ELSE ScanArg(command, h[t \ {Max(t)}], s[Max(t)])]
<1>1. Scanned(command, s) = iter[D]
  BY DEF Scanned, FoldLeft, MapThenFoldSet
<1>2. none \in V /\ step \in [V \X S -> V]
  BY ScanStepType
<1>3. D = 1..Len(s) /\ Len(s) \in Nat /\ s \in Seq(S) /\ \A i \in D : s[i] \in S
  OBVIOUS
<1>4. ASSUME NEW v \in V, NEW t \in SUBSET D, t # {}
      PROVE  step[<<v, s[Max(t)]>>] = ScanArg(command, v, s[Max(t)])
  <2>1. Max(t) \in D
    BY <1>3, <1>4, MaxIn
  <2>2. s[Max(t)] \in S
    BY <1>3, <2>1
  <2> QED BY <2>2 DEF ScanStep
<1> HIDE DEF V, D, step, none
<1>5. PICK g \in [SUBSET D -> V] : \A t \in SUBSET D :
        g[t] = IF t = {} THEN none ELSE step[<<g[t \ {Max(t)}], s[Max(t)]>>]
  <2>1. PICK g : IsIter(g, V, none, step, s)
    BY <1>2, <1>3, IterExists, Zenon
  <2> QED BY <1>3, <2>1 DEF IsIter
<1>6. g = [t \in SUBSET D |->
             IF t = {} THEN none ELSE ScanArg(command, g[t \ {Max(t)}], s[Max(t)])]
  <2>1. \A t \in SUBSET D : t # {} => g[t \ {Max(t)}] \in V
    BY <1>5
  <2>2. \A t \in SUBSET D :
          g[t] = IF t = {} THEN none ELSE ScanArg(command, g[t \ {Max(t)}], s[Max(t)])
    BY <1>4, <1>5, <2>1
  <2> QED BY <1>5, <2>2
<1>7. iter = [t \in SUBSET D |->
                IF t = {} THEN none ELSE ScanArg(command, iter[t \ {Max(t)}], s[Max(t)])]
  BY <1>6
<1> HIDE DEF iter
<1>8. iter[{}] = none
  BY <1>7
<1>9. \A t \in SUBSET D : t # {} /\ iter[t \ {Max(t)}] \in V =>
        iter[t] = step[<<iter[t \ {Max(t)}], s[Max(t)]>>]
  <2>1. \A t \in SUBSET D : t # {} =>
          iter[t] = ScanArg(command, iter[t \ {Max(t)}], s[Max(t)])
    BY <1>7
  <2> QED BY <1>4, <2>1
<1>10. FoldsTo(iter[D], V, none, step, s)
  <2>1. Iterates(iter, V, none, step, s)
    BY <1>3, <1>8, <1>9 DEF Iterates
  <2>2. FoldsTo(iter[1..Len(s)], V, none, step, s)
    BY <1>2, <1>3, <2>1, IterRuns, Zenon
  <2> QED BY <1>3, <2>2
<1> QED BY <1>1, <1>10 DEF V, step, none

(* The flags right before an argument that take a value make up one row.   *)
LEMMA OneRow ==
  ASSUME NEW action, NEW args, NEW i \in Nat, i >= 1
  PROVE  /\ \E k \in 0..(i - 1) : IsRow(action, args, i, k)
         /\ \A k, l \in 0..(i - 1) :
              IsRow(action, args, i, k) /\ IsRow(action, args, i, l) => k = l
<1> DEFINE T(j) == Takes(action, args, j)
           U == {m \in 0..(i - 1) : \E k \in 0..m : IsRow(action, args, m + 1, k)}
<1> HIDE DEF Takes
<1>1. 0 \in U
  <2>1. IsRow(action, args, 0 + 1, 0) /\ 0 \in 0..0 /\ 0 \in 0..(i - 1)
    BY DEF IsRow
  <2> QED BY <2>1
<1>2. ASSUME NEW m \in 1..(i - 1), m - 1 \in U PROVE m \in U
  <2>1. PICK k \in 0..(m - 1) : IsRow(action, args, m, k)
    BY <1>2
  <2>2. CASE T(m)
    <3>1. k + 1 \in 0..m /\ m + 1 - (k + 1) = m - k
      OBVIOUS
    <3>2. \A j \in (m - k)..(m + 1 - 1) : T(j)
      <4>1. \A j \in (m - k)..(m + 1 - 1) : j = m \/ j \in (m - k)..(m - 1)
        OBVIOUS
      <4> QED BY <2>1, <2>2, <4>1 DEF IsRow
    <3>3. IsRow(action, args, m + 1, k + 1)
      BY <2>1, <3>1, <3>2 DEF IsRow
    <3> QED BY <3>1, <3>3
  <2>3. CASE ~T(m)
    <3>1. IsRow(action, args, m + 1, 0) /\ 0 \in 0..m
      BY <2>3 DEF IsRow
    <3> QED BY <3>1
  <2> QED BY <2>2, <2>3
<1> HIDE DEF U
<1>3. \A m \in 0..(i - 1) : m \in U
  BY <1>1, <1>2, Upward
<1>4. \E k \in 0..(i - 1) : IsRow(action, args, i, k)
  BY <1>3 DEF U
<1>5. ASSUME NEW k \in 0..(i - 1), NEW l \in 0..(i - 1), k < l,
             IsRow(action, args, i, k), IsRow(action, args, i, l)
      PROVE  FALSE
  <2>1. i - k - 1 \in (i - l)..(i - 1) /\ i - k # 1
    BY <1>5
  <2> QED BY <1>5, <2>1 DEF IsRow
<1>6. ASSUME NEW k \in 0..(i - 1), NEW l \in 0..(i - 1),
             IsRow(action, args, i, k), IsRow(action, args, i, l)
      PROVE  k = l
  <2>1. ~(k < l) /\ ~(l < k)
    BY <1>5, <1>6
  <2> QED BY <2>1
<1> QED BY <1>4, <1>6

(* An argument is the value of the flag before it if that takes one and is *)
(* no value itself.                                                        *)
LEMMA ValuesAlternate ==
  ASSUME NEW action, NEW args
  PROVE  /\ ~IsValue(action, args, 1)
         /\ \A i \in Nat \ {0} :
              IsValue(action, args, i + 1) <=>
                Takes(action, args, i) /\ ~IsValue(action, args, i)
<1> HIDE DEF Takes
<1>1. ~IsValue(action, args, 1)
  <2>1. \A k \in 0..(1 - 1) : k % 2 # 1
    OBVIOUS
  <2> QED BY <2>1 DEF IsValue
<1>2. ASSUME NEW i \in Nat \ {0}, IsValue(action, args, i + 1)
      PROVE  Takes(action, args, i) /\ ~IsValue(action, args, i)
  <2>1. PICK k \in 0..i : IsRow(action, args, i + 1, k) /\ k % 2 = 1
    BY <1>2 DEF IsValue
  <2>2. k # 0 /\ k - 1 \in 0..(i - 1) /\ i - (k - 1) = i + 1 - k
    BY <2>1
  <2>3. Takes(action, args, i)
    <3>1. i \in (i + 1 - k)..(i + 1 - 1)
      BY <2>2
    <3> QED BY <2>1, <3>1 DEF IsRow
  <2>4. IsRow(action, args, i, k - 1)
    <3>1. \A j \in (i - (k - 1))..(i - 1) : j \in (i + 1 - k)..(i + 1 - 1)
      BY <2>2
    <3>2. i - (k - 1) - 1 = i + 1 - k - 1
      BY <2>2
    <3> QED BY <2>1, <2>2, <3>1, <3>2 DEF IsRow
  <2>5. ASSUME NEW l \in 0..(i - 1), IsRow(action, args, i, l) PROVE l % 2 # 1
    <3>1. l = k - 1
      BY <2>2, <2>4, <2>5, OneRow
    <3> QED BY <2>1, <3>1
  <2> QED BY <2>3, <2>5 DEF IsValue
<1>3. ASSUME NEW i \in Nat \ {0}, Takes(action, args, i), ~IsValue(action, args, i)
      PROVE  IsValue(action, args, i + 1)
  <2>1. PICK k \in 0..(i - 1) : IsRow(action, args, i, k)
    BY OneRow
  <2>2. k + 1 \in 0..(i + 1 - 1) /\ (k + 1) % 2 = 1
    <3>1. k % 2 # 1
      BY <1>3, <2>1 DEF IsValue
    <3> QED BY <3>1
  <2>3. \A j \in (i + 1 - (k + 1))..(i + 1 - 1) : j = i \/ j \in (i - k)..(i - 1)
    OBVIOUS
  <2>4. i + 1 - (k + 1) = i - k
    OBVIOUS
  <2>5. IsRow(action, args, i + 1, k + 1)
    BY <1>3, <2>1, <2>3, <2>4 DEF IsRow
  <2> QED BY <2>2, <2>5 DEF IsValue
<1> QED BY <1>1, <1>2, <1>3

(* A flag that takes a value is neither the separator nor that of the list *)
(* mode.                                                                   *)
LEMMA ValueFlagsAreFlags ==
  ASSUME NEW action \in isAllowedGitReadAction, NEW arg, consumesGitFlagValue(action, arg)
  PROVE  IsFlag(arg) /\ arg # Separator /\ (action = "branch" => arg # List)
<1>1. arg.kind = "flag" /\ arg.name \in valueFlags[action]
  BY DEF consumesGitFlagValue
<1>2. \A a \in isAllowedGitReadAction : "--" \notin valueFlags[a]
  BY DEF isAllowedGitReadAction, valueFlags
<1>3. "--list" \notin valueFlags["branch"]
  BY DEF valueFlags
<1>4. arg # Separator
  BY <1>1, <1>2 DEF Separator, Flag
<1>5. action = "branch" => arg # List
  BY <1>1, <1>3 DEF List, Flag
<1> QED BY <1>1, <1>4, <1>5 DEF IsFlag

(* What is before an argument, by what is before the one before it.        *)
LEMMA RoleSteps ==
  ASSUME NEW action, NEW args
  PROVE  /\ ~AfterSeparator(action, args, 1) /\ ~Listed(action, args, 1)
         /\ \A i \in Nat \ {0} :
              /\ AfterSeparator(action, args, i + 1) <=>
                   AfterSeparator(action, args, i) \/ IsSeparator(action, args, i)
              /\ Listed(action, args, i + 1) <=>
                   Listed(action, args, i) \/ (args[i] = List /\ Role(action, args, i) = "flag")
<1> HIDE DEF IsSeparator, Role
<1>1. 1..(1 - 1) = {}
  OBVIOUS
<1>2. \A i \in Nat \ {0} : \A s : s \in 1..(i + 1 - 1) <=> s \in 1..(i - 1) \/ s = i
  OBVIOUS
<1> QED BY <1>1, <1>2 DEF AfterSeparator, Listed

(* What the state says of the argument that comes next.                    *)
Tells(action, args, i, state) ==
  /\ state.mode = "operands" <=> AfterSeparator(action, args, i)
  /\ state.mode = "value" <=> ~AfterSeparator(action, args, i) /\ IsValue(action, args, i)
  /\ action = "branch" => (state.listMode <=> Listed(action, args, i))

(* One step: the argument is allowed by its role, or refused.              *)
LEMMA ScanArgByRole ==
  ASSUME NEW action \in isAllowedGitReadAction, NEW args, NEW i \in Nat \ {0},
         NEW state \in ScanStates, state.mode # "refused", Tells(action, args, i, state)
  PROVE  LET next == ScanArg(action, state, args[i]) IN
         /\ next.mode # "refused" <=> ArgumentAllowed(action, args, i)
         /\ next.mode # "refused" => Tells(action, args, i + 1, next)
<1> DEFINE arg == args[i]
           next == ScanArg(action, state, arg)
           after == AfterSeparator(action, args, i)
           value == IsValue(action, args, i)
           listed == Listed(action, args, i)
<1>1. /\ state.mode = "operands" <=> after
      /\ state.mode = "value" <=> ~after /\ value
      /\ action = "branch" => (state.listMode <=> listed)
  BY DEF Tells
<1>2. state.mode \in {"scan", "value", "operands"} /\ state.listMode \in BOOLEAN
  BY DEF ScanStates
<1>3. /\ IsValue(action, args, i + 1) <=> consumesGitFlagValue(action, arg) /\ ~value
      /\ AfterSeparator(action, args, i + 1) <=> after \/ (arg = Separator /\ ~value)
      /\ Listed(action, args, i + 1) <=> listed \/ (arg = List /\ Role(action, args, i) = "flag")
  BY ValuesAlternate, RoleSteps DEF Takes, IsSeparator
<1>4. consumesGitFlagValue(action, arg) =>
        IsFlag(arg) /\ arg # Separator /\ (action = "branch" => arg # List)
  BY ValueFlagsAreFlags
<1>5. IsFlag(Separator) /\ IsFlag(List) /\ List # Separator
  BY DEF IsFlag, Separator, List, Flag
<1>6. Role(action, args, i) =
        IF after THEN "operand" ELSE IF value THEN "value"
        ELSE IF IsFlag(arg) THEN "flag" ELSE "operand"
  BY DEF Role
<1>7. ArgumentAllowed(action, args, i) <=>
        /\ Role(action, args, i) = "operand" =>
             OperandAllowed(arg) /\ (action = "branch" => listed)
        /\ Role(action, args, i) = "value" => OperandAllowed(arg)
        /\ Role(action, args, i) = "flag" =>
             \/ consumesGitFlagValue(action, arg) \/ isAllowedGitFlag(action, arg)
             \/ action = "log" /\ isShortGitCount(arg)
             \/ action = "branch" /\ arg = List
             \/ arg = Separator /\ ~value
  BY DEF ArgumentAllowed, FlagAllowed, Takes, IsSeparator
<1> HIDE DEF arg, after, value, listed
<1>8. CASE state.mode = "value"
  <2>1. next = Proceed(state, OperandAllowed(arg), "scan") /\ ~after /\ value
    BY <1>1, <1>8 DEF ScanArg
  <2>2. /\ next.mode = IF OperandAllowed(arg) THEN "scan" ELSE "refused"
        /\ next.listMode = state.listMode
    BY <1>2, <2>1 DEF Proceed, ScanStates
  <2>3. ArgumentAllowed(action, args, i) <=> OperandAllowed(arg)
    BY <1>6, <1>7, <2>1
  <2>4. next.mode = "scan" => Tells(action, args, i + 1, next)
    BY <1>1, <1>3, <1>6, <2>1, <2>2 DEF Tells
  <2> QED BY <2>2, <2>3, <2>4 DEF arg
<1>9. CASE state.mode = "operands"
  <2> DEFINE allowed == OperandAllowed(arg) /\ (action = "branch" => state.listMode)
  <2>1. next = Proceed(state, allowed, "operands") /\ after
    BY <1>1, <1>9 DEF ScanArg
  <2>2. /\ next.mode = IF allowed THEN "operands" ELSE "refused"
        /\ next.listMode = state.listMode
    BY <1>2, <2>1 DEF Proceed, ScanStates
  <2>3. ArgumentAllowed(action, args, i) <=> allowed
    BY <1>1, <1>6, <1>7, <2>1
  <2>4. ASSUME next.mode = "operands" PROVE Tells(action, args, i + 1, next)
    <3>1. AfterSeparator(action, args, i + 1)
      BY <1>3, <2>1
    <3>2. action = "branch" => (Listed(action, args, i + 1) <=> listed)
      BY <1>3, <1>6, <2>1
    <3>3. action = "branch" => (next.listMode <=> listed)
      BY <1>1, <2>2
    <3> HIDE DEF next
    <3> QED BY <2>4, <3>1, <3>2, <3>3 DEF Tells
  <2> QED BY <2>2, <2>3, <2>4 DEF arg
<1>10. CASE state.mode = "scan"
  <2> DEFINE operandAllowed == OperandAllowed(arg) /\ (action = "branch" => state.listMode)
             flagAllowed == isAllowedGitFlag(action, arg) \/ (action = "log" /\ isShortGitCount(arg))
             allowed == IF IsFlag(arg) THEN flagAllowed ELSE operandAllowed
  <2>1. ~after /\ ~value
    BY <1>1, <1>10
  <2>2. CASE arg = Separator
    <3>1. next = Proceed(state, TRUE, "operands")
      BY <1>10, <2>2 DEF ScanArg
    <3>2. next.mode = "operands" /\ next.listMode = state.listMode
      BY <1>2, <3>1 DEF Proceed, ScanStates
    <3>3. ArgumentAllowed(action, args, i)
      BY <1>5, <1>6, <1>7, <2>1, <2>2
    <3>4. Tells(action, args, i + 1, next)
      BY <1>1, <1>3, <1>5, <2>1, <2>2, <3>2 DEF Tells
    <3> QED BY <3>2, <3>3, <3>4 DEF arg
  <2>3. CASE arg # Separator /\ action = "branch" /\ arg = List
    <3>1. next = [state EXCEPT !.listMode = TRUE]
      BY <1>10, <2>3 DEF ScanArg
    <3>2. next.mode = "scan" /\ next.listMode
      BY <1>2, <1>10, <3>1 DEF ScanStates
    <3>3. ArgumentAllowed(action, args, i)
      BY <1>5, <1>6, <1>7, <2>1, <2>3
    <3>4. Tells(action, args, i + 1, next)
      BY <1>1, <1>3, <1>4, <1>5, <1>6, <2>1, <2>3, <3>2 DEF Tells
    <3> QED BY <3>2, <3>3, <3>4 DEF arg
  <2>4. CASE arg # Separator /\ ~(action = "branch" /\ arg = List) /\ consumesGitFlagValue(action, arg)
    <3>1. next = Proceed(state, TRUE, "value")
      BY <1>10, <2>4 DEF ScanArg
    <3>2. next.mode = "value" /\ next.listMode = state.listMode
      BY <1>2, <3>1 DEF Proceed, ScanStates
    <3>3. ArgumentAllowed(action, args, i)
      BY <1>4, <1>6, <1>7, <2>1, <2>4
    <3>4. Tells(action, args, i + 1, next)
      BY <1>1, <1>3, <1>6, <2>1, <2>4, <3>2 DEF Tells
    <3> QED BY <3>2, <3>3, <3>4 DEF arg
  <2>5. CASE arg # Separator /\ ~(action = "branch" /\ arg = List) /\ ~consumesGitFlagValue(action, arg)
    <3>1. next = Proceed(state, allowed, "scan")
      BY <1>10, <2>5 DEF ScanArg
    <3>2. next.mode = (IF allowed THEN "scan" ELSE "refused") /\ next.listMode = state.listMode
      BY <1>2, <3>1 DEF Proceed, ScanStates
    <3>3. ArgumentAllowed(action, args, i) <=> allowed
      BY <1>1, <1>6, <1>7, <2>1, <2>5
    <3>4. next.mode = "scan" => Tells(action, args, i + 1, next)
      BY <1>1, <1>3, <1>6, <2>1, <2>5, <3>2 DEF Tells
    <3> QED BY <3>2, <3>3, <3>4 DEF arg
  <2> QED BY <2>2, <2>3, <2>4, <2>5
<1> QED BY <1>2, <1>8, <1>9, <1>10

(* The loops allow all arguments by their roles, and no flag without its   *)
(* value at the end.                                                       *)
LEMMA ScannedByRole ==
  ASSUME NEW action \in isAllowedGitReadAction, NEW S, NEW args \in Seq(S)
  PROVE  validateArgsOf(action, args) <=>
           \A i \in DOMAIN args :
             /\ ArgumentAllowed(action, args, i)
             /\ Role(action, args, i) = "flag" /\ Takes(action, args, i) => i < Len(args)
<1> DEFINE n == Len(args)
           Allowed(k) == \A i \in 1..k : ArgumentAllowed(action, args, i)
<1>1. n \in Nat /\ DOMAIN args = 1..n
  OBVIOUS
<1>2. PICK f : IsRun(f, ScanStates, Scanning, ScanStep(action, S), args) /\ Scanned(action, args) = f[n]
  <2>1. FoldsTo(Scanned(action, args), ScanStates, Scanning, ScanStep(action, S), args)
    BY ScanRun
  <2> QED BY <2>1 DEF FoldsTo
<1>3. /\ \A k \in 0..n : f[k] \in ScanStates
      /\ f[0] = Scanning
      /\ \A k \in 1..n : f[k] = ScanArg(action, f[k - 1], args[k])
  <2>1. \A k \in 1..n : k - 1 \in 0..n /\ args[k] \in S
    BY <1>1
  <2> QED BY <1>2, <2>1 DEF IsRun, ScanStep
<1> DEFINE U == {k \in 0..n : /\ f[k].mode # "refused" <=> Allowed(k)
                              /\ Allowed(k) => Tells(action, args, k + 1, f[k])}
<1>4. 0 \in U
  <2>1. Tells(action, args, 0 + 1, Scanning)
    BY RoleSteps, ValuesAlternate DEF Tells, Scanning
  <2> QED BY <1>1, <1>3, <2>1 DEF Scanning
<1>5. ASSUME NEW k \in 1..n, k - 1 \in U PROVE k \in U
  <2>1. /\ k \in Nat \ {0} /\ k - 1 + 1 = k /\ f[k - 1] \in ScanStates
        /\ Allowed(k) <=> Allowed(k - 1) /\ ArgumentAllowed(action, args, k)
    <3>1. \A i : i \in 1..k <=> i \in 1..(k - 1) \/ i = k
      BY <1>1
    <3> QED BY <1>1, <1>3, <3>1
  <2> HIDE DEF Allowed
  <2>2. /\ f[k - 1].mode # "refused" <=> Allowed(k - 1)
        /\ Allowed(k - 1) => Tells(action, args, k, f[k - 1])
    BY <1>5, <2>1
  <2>3. CASE f[k - 1].mode = "refused"
    <3>1. f[k] = f[k - 1]
      BY <1>3, <2>3 DEF ScanArg
    <3> QED BY <1>1, <2>1, <2>2, <2>3, <3>1
  <2>4. CASE f[k - 1].mode # "refused"
    <3>1. /\ f[k].mode # "refused" <=> ArgumentAllowed(action, args, k)
          /\ f[k].mode # "refused" => Tells(action, args, k + 1, f[k])
      BY <1>3, <2>1, <2>2, <2>4, ScanArgByRole
    <3> QED BY <1>1, <2>1, <2>2, <2>4, <3>1
  <2> QED BY <2>3, <2>4
<1> HIDE DEF U
<1>6. \A k \in 0..n : k \in U
  <2> HIDE DEF n
  <2> QED BY <1>1, <1>4, <1>5, Upward
<1> HIDE DEF Allowed
<1>7. /\ f[n].mode # "refused" <=> Allowed(n)
      /\ Allowed(n) => Tells(action, args, n + 1, f[n])
      /\ f[n] \in ScanStates
  BY <1>1, <1>3, <1>6 DEF U
<1>8. validateArgsOf(action, args) <=>
        Allowed(n) /\ ~(~AfterSeparator(action, args, n + 1) /\ IsValue(action, args, n + 1))
  <2> HIDE DEF Allowed
  <2>1. f[n].mode \in {"scan", "value", "operands", "refused"}
    BY <1>7 DEF ScanStates
  <2>2. validateArgsOf(action, args) <=> f[n].mode # "refused" /\ f[n].mode # "value"
    BY <1>2, <2>1 DEF validateArgsOf
  <2>3. Allowed(n) =>
          (f[n].mode = "value" <=> ~AfterSeparator(action, args, n + 1) /\ IsValue(action, args, n + 1))
    BY <1>7, Zenon DEF Tells
  <2> HIDE DEF n
  <2> QED BY <1>7, <2>2, <2>3
<1>9. ~AfterSeparator(action, args, n + 1) /\ IsValue(action, args, n + 1) <=>
        \E i \in 1..n : Role(action, args, i) = "flag" /\ Takes(action, args, i) /\ ~(i < n)
  <2>1. CASE n = 0
    <3>1. n + 1 = 1 /\ 1..n = {}
      BY <2>1
    <3>2. ~IsValue(action, args, 1)
      BY ValuesAlternate
    <3> HIDE DEF n
    <3> QED BY <3>1, <3>2
  <2>2. CASE n # 0
    <3>1. n \in Nat \ {0} /\ \A i \in 1..n : ~(i < n) <=> i = n
      <4> HIDE DEF n
      <4> QED BY <1>1, <2>2
    <3>2. /\ IsValue(action, args, n + 1) <=> Takes(action, args, n) /\ ~IsValue(action, args, n)
          /\ AfterSeparator(action, args, n + 1) <=>
               AfterSeparator(action, args, n) \/ IsSeparator(action, args, n)
      BY <3>1, ValuesAlternate, RoleSteps
    <3>3. Takes(action, args, n) => IsFlag(args[n]) /\ ~IsSeparator(action, args, n)
      BY ValueFlagsAreFlags DEF Takes, IsSeparator
    <3>4. ~AfterSeparator(action, args, n + 1) /\ IsValue(action, args, n + 1) <=>
            Role(action, args, n) = "flag" /\ Takes(action, args, n)
      BY <3>2, <3>3 DEF Role
    <3> HIDE DEF n
    <3> QED BY <3>1, <3>4
  <2> QED BY <2>1, <2>2
<1> HIDE DEF n
<1>10. Allowed(n) <=> \A i \in DOMAIN args : ArgumentAllowed(action, args, i)
  BY <1>1 DEF Allowed
<1>11. (\E i \in 1..n : Role(action, args, i) = "flag" /\ Takes(action, args, i) /\ ~(i < n)) <=>
         ~ \A i \in DOMAIN args :
             Role(action, args, i) = "flag" /\ Takes(action, args, i) => i < n
  BY <1>1
<1>12. validateArgsOf(action, args) <=>
         /\ \A i \in DOMAIN args : ArgumentAllowed(action, args, i)
         /\ \A i \in DOMAIN args :
              Role(action, args, i) = "flag" /\ Takes(action, args, i) => i < n
  BY <1>8, <1>9, <1>10, <1>11
<1> QED BY <1>12, Zenon DEF n

(* The command may lead its arguments, and another subcommand may not.     *)
LEMMA GitByRole ==
  ASSUME NEW action, NEW argv \in Seq(GitArgument)
  PROVE  validateGitArgs(action, argv) <=>
           LET args == Arguments(action, argv) IN
           /\ action \in isAllowedGitReadAction /\ Len(argv) <= MaxCommandArgs
           /\ args = argv /\ argv # <<>> =>
                argv[1] \notin {Word(name) : name \in isKnownGitSubcommand}
           /\ \A i \in DOMAIN args :
                /\ ArgumentAllowed(action, args, i)
                /\ Role(action, args, i) = "flag" /\ Takes(action, args, i) => i < Len(args)
<1> DEFINE args == Arguments(action, argv)
           known == argv # <<>> /\ argv[1] \in {Word(name) : name \in isKnownGitSubcommand}
           led == argv # <<>> /\ argv[1] = Word(action)
<1>1. args = IF led THEN Tail(argv) ELSE argv
  BY DEF Arguments
<1>2. args \in Seq(GitArgument) /\ (led => args # argv)
  <2>1. led => Tail(argv) \in Seq(GitArgument) /\ Len(Tail(argv)) = Len(argv) - 1 /\ Len(argv) \in Nat
    BY DEF led
  <2> HIDE DEF led, args
  <2> QED BY <1>1, <2>1
<1>3. known <=> argv # <<>> /\ argv[1].kind = "word" /\ argv[1].name \in isKnownGitSubcommand
  <2> SUFFICES ASSUME argv # <<>>
               PROVE  argv[1] \in {Word(name) : name \in isKnownGitSubcommand} <=>
                        argv[1].kind = "word" /\ argv[1].name \in isKnownGitSubcommand
    OBVIOUS
  <2>1. argv[1] \in GitArgument
    OBVIOUS
  <2> DEFINE arg == argv[1]
  <2> HIDE DEF arg
  <2>2. arg.kind = "word" => arg = Word(arg.name)
    BY <2>1 DEF GitArgument, arg
  <2>3. ASSUME NEW name, arg = Word(name) PROVE arg.kind = "word" /\ arg.name = name
    BY <2>3 DEF Word
  <2> HIDE DEF isKnownGitSubcommand
  <2> QED BY <2>2, <2>3 DEF arg
<1>4. validateGitArgs(action, argv) <=>
        /\ action \in isAllowedGitReadAction /\ Len(argv) <= MaxCommandArgs
        /\ led \/ ~known
        /\ validateArgsOf(action, args)
  BY <1>1, <1>3 DEF validateGitArgs
<1>5. led \/ ~known <=> (args = argv => ~known)
  BY <1>1, <1>2
<1> HIDE DEF args, led
<1>6. action \in isAllowedGitReadAction =>
        (validateArgsOf(action, args) <=>
           \A i \in DOMAIN args :
             /\ ArgumentAllowed(action, args, i)
             /\ Role(action, args, i) = "flag" /\ Takes(action, args, i) => i < Len(args))
  BY <1>2, ScannedByRole
<1> QED BY <1>4, <1>5, <1>6 DEF args

(* git runs with exactly the arguments whose roles are allowed, however    *)
(* many there are (sandbox.go:363-559).                                    *)
THEOREM GitRunsByRole == RulesSpec => []GitArgsByRole
<1>1. ASSUME RulesInv PROVE GitArgsByRole
  <2> SUFFICES ASSUME answer.of = "git" PROVE GitArgsByRole
    BY DEF GitArgsByRole
  <2>1. /\ question.argv \in Seq(GitArgument)
        /\ answer.allowed <=> validateGitArgs(question.action, question.argv)
    BY <1>1, GitAssumption DEF RulesInv
  <2> QED BY <2>1, GitByRole DEF GitArgsByRole
<1> QED BY RulesInvariant, <1>1, PTL

(***************************************************************************)
(* The lines of policycheck.                                               *)
(***************************************************************************)

(* What a line can be, what is written, and the states of the loop.        *)
LineKinds == {"empty", "call", "error", "long"}
Outputs == [line : Nat, of : {"decision", "error"}]
Results == [lines : Nat, parseErrors : Nat, failed : BOOLEAN, output : Seq(Outputs)]

(* One step of the loop, as a function.                                    *)
AnswerStep(room) == [x \in Results \X LineKinds |-> Answered(x[1], x[2], room)]

(* What is written for the line of this number.                            *)
OutputOf(lines, n) ==
  [line |-> n, of |-> IF lines[n] = "call" THEN "decision" ELSE "error"]

(* One step of the loop, case by case.                                     *)
LEMMA AnsweredIs ==
  ASSUME NEW room, NEW result \in Results, NEW line \in LineKinds
  PROVE  LET next == Answered(result, line, room) IN
         /\ next \in Results
         /\ result.failed => next = result
         /\ ~result.failed =>
              /\ next.failed <=>
                   line = "long" \/ (line # "empty" /\ Len(result.output) = room)
              /\ next.failed => next.output = result.output
              /\ ~next.failed =>
                   /\ next.lines = result.lines + 1
                   /\ next.parseErrors = result.parseErrors + (IF line = "error" THEN 1 ELSE 0)
                   /\ next.output =
                        IF line = "empty" THEN result.output
                        ELSE Append(result.output,
                                    [line |-> result.lines + 1,
                                     of |-> IF line = "call" THEN "decision" ELSE "error"])
<1> DEFINE next == Answered(result, line, room)
           out == [line |-> result.lines + 1,
                   of |-> IF line = "call" THEN "decision" ELSE "error"]
           errors == result.parseErrors + (IF line = "error" THEN 1 ELSE 0)
<1>1. /\ result.lines + 1 \in Nat /\ errors \in Nat /\ result.failed \in BOOLEAN
      /\ result.output \in Seq(Outputs) /\ out \in Outputs
      /\ result = [lines |-> result.lines, parseErrors |-> result.parseErrors,
                   failed |-> result.failed, output |-> result.output]
      /\ result.parseErrors \in Nat /\ result.lines \in Nat
  BY DEF Results, Outputs
<1>2. Append(result.output, out) \in Seq(Outputs)
  <2> HIDE DEF out
  <2> QED BY <1>1
<1> DEFINE P == /\ next \in Results
                /\ result.failed => next = result
                /\ ~result.failed =>
                     /\ next.failed <=>
                          line = "long" \/ (line # "empty" /\ Len(result.output) = room)
                     /\ next.failed => next.output = result.output
                     /\ ~next.failed =>
                          /\ next.lines = result.lines + 1 /\ next.parseErrors = errors
                          /\ line = "empty" => next.output = result.output
                          /\ line # "empty" => next.output = Append(result.output, out)
<1>3. line # "error" => errors = result.parseErrors
  BY <1>1
<1> HIDE DEF out, errors
<1>4. ASSUME result.failed PROVE P
  BY <1>1, <1>4 DEF Answered
<1>5. ASSUME ~result.failed /\ line = "long" PROVE P
  <2>1. next = [lines |-> result.lines, parseErrors |-> result.parseErrors,
                failed |-> TRUE, output |-> result.output]
    BY <1>1, <1>5 DEF Answered
  <2> HIDE DEF next
  <2>2. next \in Results /\ next.failed /\ next.output = result.output
    BY <1>1, <2>1 DEF Results
  <2> QED BY <1>5, <2>2
<1>6. ASSUME ~result.failed /\ line = "empty" PROVE P
  <2>1. next = [lines |-> result.lines + 1, parseErrors |-> errors,
                failed |-> FALSE, output |-> result.output]
    BY <1>1, <1>3, <1>6 DEF Answered, LineNumber
  <2> HIDE DEF next
  <2>2. /\ next \in Results /\ ~next.failed /\ next.output = result.output
        /\ next.lines = result.lines + 1 /\ next.parseErrors = errors
    BY <1>1, <2>1 DEF Results
  <2> QED BY <1>6, <2>2
<1>7. ASSUME ~result.failed /\ line \in {"call", "error"} PROVE P
  <2>1. next = [lines |-> result.lines + 1, parseErrors |-> errors,
                failed |-> Len(result.output) = room,
                output |-> IF Len(result.output) = room THEN result.output
                           ELSE Append(result.output, out)]
    BY <1>7 DEF Answered, LineNumber, out, errors
  <2> HIDE DEF next
  <2>2. /\ next \in Results /\ (next.failed <=> Len(result.output) = room)
        /\ next.failed => next.output = result.output
        /\ ~next.failed => next.output = Append(result.output, out)
        /\ next.lines = result.lines + 1 /\ next.parseErrors = errors
    BY <1>1, <1>2, <2>1 DEF Results
  <2> QED BY <1>7, <2>2
<1>8. P
  BY <1>4, <1>5, <1>6, <1>7 DEF LineKinds
<1> HIDE DEF next
<1>9. /\ errors = result.parseErrors + (IF line = "error" THEN 1 ELSE 0)
      /\ out = [line |-> result.lines + 1,
                of |-> IF line = "call" THEN "decision" ELSE "error"]
  BY DEF errors, out
<1> QED BY <1>8, <1>9 DEF next

(* The loop begins with no result and keeps to its states.                 *)
LEMMA AnswerStepType ==
  ASSUME NEW room
  PROVE  NoResult \in Results /\ AnswerStep(room) \in [Results \X LineKinds -> Results]
<1>1. NoResult \in Results
  BY DEF NoResult, Results
<1>2. \A result \in Results, line \in LineKinds : Answered(result, line, room) \in Results
  BY AnsweredIs
<1> QED BY <1>1, <1>2 DEF AnswerStep

(* run takes one line after the other.                                     *)
LEMMA AnswerRun ==
  ASSUME NEW room, NEW s \in Seq(LineKinds)
  PROVE  FoldsTo(run(s, room), Results, NoResult, AnswerStep(room), s)
<1> DEFINE V == Results
           S == LineKinds
           D == DOMAIN s
           step == AnswerStep(room)
           none == NoResult
           iter == CHOOSE h : h = [t \in SUBSET D |->
                     IF t = {} THEN none ELSE Answered(h[t \ {Max(t)}], s[Max(t)], room)]
<1>1. run(s, room) = iter[D]
  BY DEF run, FoldLeft, MapThenFoldSet
<1>2. none \in V /\ step \in [V \X S -> V]
  BY AnswerStepType
<1>3. D = 1..Len(s) /\ Len(s) \in Nat /\ s \in Seq(S) /\ \A i \in D : s[i] \in S
  OBVIOUS
<1>4. ASSUME NEW v \in V, NEW t \in SUBSET D, t # {}
      PROVE  step[<<v, s[Max(t)]>>] = Answered(v, s[Max(t)], room)
  <2>1. Max(t) \in D
    BY <1>3, <1>4, MaxIn
  <2>2. s[Max(t)] \in S
    BY <1>3, <2>1
  <2> QED BY <2>2 DEF AnswerStep
<1> HIDE DEF V, S, D, step, none
<1>5. PICK g \in [SUBSET D -> V] : \A t \in SUBSET D :
        g[t] = IF t = {} THEN none ELSE step[<<g[t \ {Max(t)}], s[Max(t)]>>]
  <2>1. PICK g : IsIter(g, V, none, step, s)
    BY <1>2, <1>3, IterExists, Zenon
  <2> QED BY <1>3, <2>1 DEF IsIter
<1>6. g = [t \in SUBSET D |->
             IF t = {} THEN none ELSE Answered(g[t \ {Max(t)}], s[Max(t)], room)]
  <2>1. \A t \in SUBSET D : t # {} => g[t \ {Max(t)}] \in V
    BY <1>5
  <2>2. \A t \in SUBSET D :
          g[t] = IF t = {} THEN none ELSE Answered(g[t \ {Max(t)}], s[Max(t)], room)
    BY <1>4, <1>5, <2>1
  <2> QED BY <1>5, <2>2
<1>7. iter = [t \in SUBSET D |->
                IF t = {} THEN none ELSE Answered(iter[t \ {Max(t)}], s[Max(t)], room)]
  BY <1>6
<1> HIDE DEF iter
<1>8. iter[{}] = none
  BY <1>7
<1>9. \A t \in SUBSET D : t # {} /\ iter[t \ {Max(t)}] \in V =>
        iter[t] = step[<<iter[t \ {Max(t)}], s[Max(t)]>>]
  <2>1. \A t \in SUBSET D : t # {} =>
          iter[t] = Answered(iter[t \ {Max(t)}], s[Max(t)], room)
    BY <1>7
  <2> QED BY <1>4, <2>1
<1>10. FoldsTo(iter[D], V, none, step, s)
  <2>1. Iterates(iter, V, none, step, s)
    BY <1>3, <1>8, <1>9 DEF Iterates
  <2>2. FoldsTo(iter[1..Len(s)], V, none, step, s)
    BY <1>2, <1>3, <2>1, IterRuns, Zenon
  <2> QED BY <1>3, <2>2
<1> QED BY <1>1, <1>10 DEF V, step, none

(* The number of filled lines, one line further.                           *)
LEMMA FilledCounts ==
  ASSUME NEW lines
  PROVE  /\ Filled(lines, 0) = 0
         /\ \A n \in Nat \ {0} :
              /\ Filled(lines, n - 1) \in Nat
              /\ Filled(lines, n) = Filled(lines, n - 1) + (IF lines[n] = "empty" THEN 0 ELSE 1)
<1> DEFINE T(n) == {i \in 1..n : lines[i] # "empty"}
<1>1. T(0) = {}
  OBVIOUS
<1>2. ASSUME NEW n \in Nat PROVE IsFiniteSet(T(n)) /\ Cardinality(T(n)) \in Nat
  <2>1. IsFiniteSet(1..n) /\ T(n) \in SUBSET (1..n)
    BY FS_Interval
  <2>2. IsFiniteSet(T(n))
    BY <2>1, FS_Subset
  <2> QED BY <2>2, FS_CardinalityType
<1>3. ASSUME NEW n \in Nat \ {0}
      PROVE  /\ Cardinality(T(n - 1)) \in Nat
             /\ Cardinality(T(n)) = Cardinality(T(n - 1)) + (IF lines[n] = "empty" THEN 0 ELSE 1)
  <2>1. /\ n - 1 \in Nat /\ n \notin T(n - 1)
        /\ \A i : i \in 1..n <=> i \in 1..(n - 1) \/ i = n
    OBVIOUS
  <2>2. T(n) = IF lines[n] = "empty" THEN T(n - 1) ELSE T(n - 1) \cup {n}
    BY <2>1
  <2>3. IsFiniteSet(T(n - 1)) /\ Cardinality(T(n - 1)) \in Nat
    BY <1>2, <2>1
  <2> HIDE DEF T
  <2>4. Cardinality(T(n - 1) \cup {n}) = Cardinality(T(n - 1)) + 1
    BY <2>1, <2>3, FS_AddElement
  <2> QED BY <2>2, <2>3, <2>4
<1> QED BY <1>1, <1>3, FS_EmptySet DEF Filled

(* No obstacle in the first k lines.                                       *)
Clear(lines, room, k) ==
  (\A i \in 1..k : lines[i] # "long") /\ Filled(lines, k) <= room

(* If no obstacle is in so many lines, none is in fewer.                   *)
LEMMA ClearBefore ==
  ASSUME NEW lines, NEW room \in Nat, NEW r \in Nat
  PROVE  /\ Clear(lines, room, 0)
         /\ Clear(lines, room, r + 1) <=>
              /\ Clear(lines, room, r) /\ lines[r + 1] # "long"
              /\ lines[r + 1] # "empty" => Filled(lines, r) # room
<1>1. /\ Filled(lines, 0) = 0 /\ Filled(lines, r) \in Nat
      /\ Filled(lines, r + 1) = Filled(lines, r) + (IF lines[r + 1] = "empty" THEN 0 ELSE 1)
  <2>1. r + 1 \in Nat \ {0} /\ r + 1 - 1 = r
    OBVIOUS
  <2> QED BY <2>1, FilledCounts
<1>2. \A i : i \in 1..(r + 1) <=> i \in 1..r \/ i = r + 1
  OBVIOUS
<1>3. Clear(lines, room, 0)
  BY <1>1 DEF Clear
<1>4. (\A i \in 1..(r + 1) : lines[i] # "long") <=>
        (\A i \in 1..r : lines[i] # "long") /\ lines[r + 1] # "long"
  BY <1>2
<1>5. Filled(lines, r + 1) <= room <=>
        Filled(lines, r) <= room /\ (lines[r + 1] # "empty" => Filled(lines, r) # room)
  BY <1>1
<1> QED BY <1>3, <1>4, <1>5 DEF Clear

(* The result says this of the first k lines: the loop went through the    *)
(* first r, and unless these are all of them, the next one is an obstacle. *)
Reports(lines, room, k, r, result) ==
  /\ r \in 0..k /\ Clear(lines, room, r)
  /\ IF result.failed THEN r < k /\ ~Clear(lines, room, r + 1)
     ELSE /\ r = k /\ result.lines = k
          /\ result.parseErrors > 0 <=> \E i \in 1..k : lines[i] = "error"
  /\ result.output \in Seq(Outputs) /\ Len(result.output) = Filled(lines, r)
  /\ \A m \in 1..r :
       lines[m] # "empty" =>
         Filled(lines, m) \in 1..Filled(lines, r)
           /\ result.output[Filled(lines, m)] = OutputOf(lines, m)

(* One line more.                                                          *)
LEMMA ReportsNext ==
  ASSUME NEW lines \in Seq(LineKinds), NEW room \in Nat, NEW k \in DOMAIN lines,
         NEW result \in Results, NEW r, Reports(lines, room, k - 1, r, result)
  PROVE  \E q : Reports(lines, room, k, q, Answered(result, lines[k], room))
<1> DEFINE next == Answered(result, lines[k], room)
<1>1. k \in Nat \ {0} /\ k - 1 \in Nat /\ k - 1 + 1 = k /\ lines[k] \in LineKinds
  OBVIOUS
<1>2. r \in 0..(k - 1) /\ r \in Nat
  BY <1>1 DEF Reports
<1>3. next \in Results /\ next.output \in Seq(Outputs) /\ next.failed \in BOOLEAN
  <2>1. next \in Results
    BY <1>1, AnsweredIs
  <2> QED BY <2>1 DEF Results
<1>4. CASE result.failed
  <2>1. next = result
    <3> DEFINE line == lines[k]
    <3>1. line \in LineKinds
      BY <1>1
    <3> HIDE DEF line
    <3>2. result.failed => Answered(result, line, room) = result
      BY <3>1, AnsweredIs
    <3> QED BY <1>4, <3>2 DEF line
  <2>2. Reports(lines, room, k, r, result)
    BY <1>1, <1>2, <1>4 DEF Reports
  <2> QED BY <2>1, <2>2
<1>5. CASE ~result.failed
  <2>1. /\ r = k - 1 /\ result.lines = k - 1
        /\ Clear(lines, room, k - 1)
        /\ result.parseErrors > 0 <=> \E i \in 1..(k - 1) : lines[i] = "error"
        /\ result.output \in Seq(Outputs) /\ Len(result.output) = Filled(lines, k - 1)
        /\ \A m \in 1..(k - 1) :
             lines[m] # "empty" =>
               Filled(lines, m) \in 1..Filled(lines, k - 1)
                 /\ result.output[Filled(lines, m)] = OutputOf(lines, m)
    BY <1>5 DEF Reports
  <2>2. /\ Clear(lines, room, k) <=>
              /\ Clear(lines, room, k - 1) /\ lines[k] # "long"
              /\ lines[k] # "empty" => Filled(lines, k - 1) # room
        /\ Filled(lines, k - 1) \in Nat
        /\ Filled(lines, k) = Filled(lines, k - 1) + (IF lines[k] = "empty" THEN 0 ELSE 1)
    <3>1. Clear(lines, room, k - 1 + 1) <=>
              /\ Clear(lines, room, k - 1) /\ lines[k - 1 + 1] # "long"
              /\ lines[k - 1 + 1] # "empty" => Filled(lines, k - 1) # room
      BY <1>1, ClearBefore
    <3> QED BY <1>1, <3>1, FilledCounts
  <2>3. /\ next.failed <=>
             lines[k] = "long" \/ (lines[k] # "empty" /\ Len(result.output) = room)
        /\ next.failed => next.output = result.output
        /\ ~next.failed =>
             /\ next.lines = result.lines + 1
             /\ next.parseErrors = result.parseErrors + (IF lines[k] = "error" THEN 1 ELSE 0)
             /\ next.output =
                  IF lines[k] = "empty" THEN result.output
                  ELSE Append(result.output,
                              [line |-> result.lines + 1,
                               of |-> IF lines[k] = "call" THEN "decision" ELSE "error"])
    BY <1>1, <1>5, AnsweredIs
  <2>4. next.failed <=> ~Clear(lines, room, k)
    BY <2>1, <2>2, <2>3
  <2>5. CASE next.failed
    <3>1. next.output = result.output /\ ~Clear(lines, room, k)
      BY <2>3, <2>4, <2>5
    <3>2. Reports(lines, room, k, k - 1, next)
      BY <1>1, <2>1, <2>5, <3>1 DEF Reports
    <3> QED BY <3>2
  <2>6. CASE ~next.failed
    <3>1. Clear(lines, room, k) /\ next.lines = k
      BY <1>1, <2>1, <2>3, <2>4, <2>6
    <3>2. next.parseErrors > 0 <=> \E i \in 1..k : lines[i] = "error"
      <4>1. \A i : i \in 1..k <=> i \in 1..(k - 1) \/ i = k
        BY <1>1
      <4>2. result.parseErrors \in Nat
        BY DEF Results
      <4>3. next.parseErrors > 0 <=> result.parseErrors > 0 \/ lines[k] = "error"
        BY <2>3, <2>6, <4>2
      <4> QED BY <2>1, <4>1, <4>3
    <3>3. /\ lines[k] = "empty" => next.output = result.output
          /\ lines[k] # "empty" => next.output = Append(result.output, OutputOf(lines, k))
      BY <1>1, <2>1, <2>3, <2>6 DEF OutputOf
    <3> HIDE DEF next
    <3>4. Len(next.output) = Filled(lines, k)
      BY <2>1, <2>2, <3>3
    <3>5. ASSUME NEW m \in 1..k, lines[m] # "empty"
          PROVE  /\ Filled(lines, m) \in 1..Filled(lines, k)
                 /\ next.output[Filled(lines, m)] = OutputOf(lines, m)
      <4>1. CASE m = k
        <5>1. /\ next.output = Append(result.output, OutputOf(lines, k))
              /\ Filled(lines, k) = Len(result.output) + 1 /\ Len(result.output) \in Nat
          BY <2>1, <2>2, <3>3, <3>5, <4>1
        <5>2. next.output[Len(result.output) + 1] = OutputOf(lines, k)
          BY <2>1, <5>1
        <5>3. Filled(lines, k) \in 1..Filled(lines, k)
          BY <5>1
        <5> QED BY <4>1, <5>1, <5>2, <5>3
      <4>2. CASE m # k
        <5>1. m \in 1..(k - 1)
          BY <1>1, <4>2
        <5>2. /\ Filled(lines, m) \in 1..Len(result.output)
              /\ result.output[Filled(lines, m)] = OutputOf(lines, m)
          BY <2>1, <3>5, <5>1
        <5>3. next.output[Filled(lines, m)] = result.output[Filled(lines, m)]
          BY <2>1, <3>3, <5>2
        <5>4. Filled(lines, m) \in 1..Filled(lines, k)
          BY <2>1, <2>2, <5>2
        <5> QED BY <5>2, <5>3, <5>4
      <4> QED BY <4>1, <4>2
    <3>6. Reports(lines, room, k, k, next)
      BY <1>1, <1>3, <2>6, <3>1, <3>2, <3>4, <3>5, SMTT(40) DEF Reports
    <3> QED BY <3>6 DEF next
  <2> QED BY <2>5, <2>6
<1> QED BY <1>4, <1>5

(* The result says how far the loop went, and what it wrote up to there.   *)
LEMMA RunReports ==
  ASSUME NEW lines \in Seq(LineKinds), NEW room \in Nat
  PROVE  /\ run(lines, room) \in Results
         /\ \E r : Reports(lines, room, Len(lines), r, run(lines, room))
<1> DEFINE n == Len(lines)
           U(f) == {k \in 0..n : f[k] \in Results /\ \E r : Reports(lines, room, k, r, f[k])}
<1>1. n \in Nat /\ DOMAIN lines = 1..n
  OBVIOUS
<1>2. PICK f : IsRun(f, Results, NoResult, AnswerStep(room), lines) /\ run(lines, room) = f[n]
  <2>1. FoldsTo(run(lines, room), Results, NoResult, AnswerStep(room), lines)
    BY AnswerRun
  <2> QED BY <2>1 DEF FoldsTo
<1>3. /\ \A k \in 0..n : f[k] \in Results
      /\ f[0] = NoResult
      /\ \A k \in 1..n : f[k] = Answered(f[k - 1], lines[k], room)
  <2>1. \A k \in 1..n : k - 1 \in 0..n /\ lines[k] \in LineKinds
    BY <1>1
  <2> QED BY <1>2, <2>1 DEF IsRun, AnswerStep
<1>4. 0 \in U(f)
  <2>1. /\ f[0].failed = FALSE /\ f[0].lines = 0 /\ f[0].parseErrors = 0 /\ f[0].output = <<>>
    BY <1>3 DEF NoResult
  <2>2. Filled(lines, 0) = 0 /\ Clear(lines, room, 0)
    BY FilledCounts, ClearBefore
  <2>3. Reports(lines, room, 0, 0, f[0])
    BY <2>1, <2>2 DEF Reports
  <2> QED BY <1>1, <1>3, <2>3
<1>5. ASSUME NEW k \in 1..n, k - 1 \in U(f) PROVE k \in U(f)
  <2>1. PICK r : Reports(lines, room, k - 1, r, f[k - 1])
    BY <1>5
  <2>2. k \in DOMAIN lines /\ f[k - 1] \in Results /\ f[k] = Answered(f[k - 1], lines[k], room)
    BY <1>1, <1>3, <1>5
  <2>3. \E q : Reports(lines, room, k, q, f[k])
    BY <2>1, <2>2, ReportsNext
  <2> QED BY <1>1, <1>3, <2>3
<1>6. \A k \in 0..n : k \in U(f)
  <2> HIDE DEF n, U
  <2> QED BY <1>1, <1>4, <1>5, Upward
<1> QED BY <1>1, <1>2, <1>6

(* The lines up to the first obstacle are those the loop went through.     *)
LEMMA ReachedAre ==
  ASSUME NEW lines \in Seq(LineKinds), NEW room \in Nat, NEW r, NEW result,
         Reports(lines, room, Len(lines), r, result)
  PROVE  LinesReached(lines, room) = 1..r /\ r \in 0..Len(lines)
<1> DEFINE n == Len(lines)
<1>1. n \in Nat /\ DOMAIN lines = 1..n /\ r \in 0..n /\ r \in Nat
  BY DEF Reports
<1>2. /\ Clear(lines, room, r)
      /\ r # n => ~Clear(lines, room, r + 1)
  BY DEF Reports
<1>3. \A k \in Nat : Clear(lines, room, k + 1) => Clear(lines, room, k)
  BY ClearBefore
<1> HIDE DEF n
<1>4. ASSUME NEW k \in 1..n, Clear(lines, room, k) PROVE k \in 1..r
  <2>1. SUFFICES ASSUME r < k PROVE FALSE
    BY <1>1
  <2> DEFINE D == {j \in 0..(k - r - 1) : Clear(lines, room, k - j)}
  <2>2. k - r - 1 \in Nat
    BY <1>1, <2>1
  <2>3. 0 \in D
    BY <1>4, <2>2
  <2>4. ASSUME NEW j \in 1..(k - r - 1), j - 1 \in D PROVE j \in D
    <3>1. k - j \in Nat /\ k - (j - 1) = (k - j) + 1 /\ j \in 0..(k - r - 1)
      BY <1>1, <2>2
    <3> QED BY <1>3, <2>4, <3>1
  <2> HIDE DEF D
  <2>5. \A j \in 0..(k - r - 1) : j \in D
    BY <2>2, <2>3, <2>4, Upward
  <2>6. Clear(lines, room, r + 1)
    <3>1. k - r - 1 \in 0..(k - r - 1) /\ k - (k - r - 1) = r + 1
      BY <1>1, <2>2
    <3> QED BY <2>5, <3>1 DEF D
  <2> QED BY <1>1, <1>2, <2>1, <2>6
<1>5. ASSUME NEW k \in 1..r PROVE k \in 1..n /\ Clear(lines, room, k)
  <2> DEFINE D == {j \in 0..(r - k) : Clear(lines, room, r - j)}
  <2>1. r - k \in Nat
    BY <1>1
  <2>2. 0 \in D
    BY <1>1, <1>2, <2>1
  <2>3. ASSUME NEW j \in 1..(r - k), j - 1 \in D PROVE j \in D
    <3>1. r - j \in Nat /\ r - (j - 1) = (r - j) + 1 /\ j \in 0..(r - k)
      BY <1>1, <2>1
    <3> QED BY <1>3, <2>3, <3>1
  <2> HIDE DEF D
  <2>4. \A j \in 0..(r - k) : j \in D
    BY <2>1, <2>2, <2>3, Upward
  <2>5. r - k \in 0..(r - k) /\ r - (r - k) = k
    BY <1>1, <2>1
  <2>6. Clear(lines, room, r - (r - k))
    BY <2>4, <2>5, Zenon DEF D
  <2> QED BY <1>1, <2>5, <2>6
<1>6. LinesReached(lines, room) = {k \in 1..n : Clear(lines, room, k)}
  BY <1>1 DEF LinesReached, Clear
<1> QED BY <1>1, <1>4, <1>5, <1>6 DEF n

(* Of the lines up to the first obstacle each gets its output, and the     *)
(* exit code tells the outcomes apart.                                     *)
LEMMA LinesAnswered ==
  ASSUME NEW lines \in Seq(LineKinds), NEW room \in Nat
  PROVE  LET result == run(lines, room)
             reached == LinesReached(lines, room)
             answered == {n \in reached : lines[n] # "empty"}
         IN /\ Len(result.output) = Cardinality(answered)
            /\ \A n \in answered : result.output[Filled(lines, n)] = OutputOf(lines, n)
            /\ ExitCode(result) = 1 <=> reached # DOMAIN lines
            /\ ExitCode(result) = 2 <=>
                 reached = DOMAIN lines /\ \E n \in DOMAIN lines : lines[n] = "error"
<1> DEFINE result == run(lines, room)
           n == Len(lines)
<1>1. PICK r : Reports(lines, room, n, r, result)
  BY RunReports
<1>2. /\ LinesReached(lines, room) = 1..r /\ r \in 0..n
      /\ DOMAIN lines = 1..n /\ n \in Nat
  BY <1>1, ReachedAre
<1>3. result.failed \in BOOLEAN /\ result.parseErrors \in Nat
  <2>1. result \in Results
    BY RunReports
  <2> QED BY <2>1 DEF Results
<1> HIDE DEF result, n
<1>4. /\ Len(result.output) = Filled(lines, r)
      /\ \A m \in 1..r : lines[m] # "empty" => result.output[Filled(lines, m)] = OutputOf(lines, m)
      /\ IF result.failed THEN r < n
         ELSE /\ r = n
              /\ result.parseErrors > 0 <=> \E i \in 1..n : lines[i] = "error"
  BY <1>1 DEF Reports
<1>5. result.failed <=> 1..r # 1..n
  <2>1. r < n => n \in 1..n /\ n \notin 1..r
    BY <1>2
  <2>2. result.failed => r < n
    BY <1>4
  <2>3. ~result.failed => r = n
    BY <1>4
  <2> QED BY <2>1, <2>2, <2>3
<1>6. /\ ExitCode(result) = 1 <=> 1..r # 1..n
      /\ ExitCode(result) = 2 <=> 1..r = 1..n /\ \E i \in 1..n : lines[i] = "error"
  BY <1>3, <1>4, <1>5 DEF ExitCode
<1> QED BY <1>2, <1>4, <1>6 DEF Filled, result

(* What is found is a complete call of those offered, with an id, and      *)
(* nothing is found only if none of them is complete.                      *)
IsFound(found, calls) ==
  /\ Len(found) = 1 /\ found[1].id # ""
  /\ [from |-> found[1].from, call |-> found[1].call] \in calls
IsOffered(offers, found) ==
  LET calls == {c \in offers : Complete(c.call)} IN
  IF calls = {} THEN found = <<>> ELSE IsFound(found, calls)

(* A complete call that is offered is found as it is.                      *)
LEMMA FoundIsOffered ==
  ASSUME NEW offers, NEW from, NEW a, Complete(a), [from |-> from, call |-> a] \in offers
  PROVE  IsOffered(offers, Found(from, a))
<1> DEFINE c == [from |-> from, call |-> a]
           calls == {x \in offers : Complete(x.call)}
           f == [from |-> from, call |-> a, id |-> IF a = "named" THEN "own" ELSE "line"]
<1>1. c \in calls
  <2>1. c.call = a
    OBVIOUS
  <2> QED BY <2>1
<1>2. f.from = from /\ f.call = a /\ f.id # ""
  OBVIOUS
<1>3. Found(from, a) = <<f>>
  BY DEF Found
<1> HIDE DEF f
<1>4. Len(<<f>>) = 1 /\ <<f>>[1] = f
  OBVIOUS
<1>5. IsFound(<<f>>, calls)
  BY <1>1, <1>2, <1>4 DEF IsFound
<1> QED BY <1>1, <1>3, <1>5 DEF IsOffered

(* With one offer, it is found or nothing is.                              *)
LEMMA OneOffered ==
  ASSUME NEW from, NEW a
  PROVE  IsOffered({[from |-> from, call |-> a]},
                   IF Complete(a) THEN Found(from, a) ELSE <<>>)
<1>1. CASE Complete(a)
  BY <1>1, FoundIsOffered
<1>2. CASE ~Complete(a)
  <2>1. {x \in {[from |-> from, call |-> a]} : Complete(x.call)} = {}
    BY <1>2
  <2> QED BY <1>2, <2>1 DEF IsOffered
<1> QED BY <1>1, <1>2

(* Nothing is offered, nothing is found.                                   *)
LEMMA NoneOffered ==
  ASSUME NEW offers, \A x \in offers : ~Complete(x.call)
  PROVE  IsOffered(offers, <<>>)
<1>1. {x \in offers : Complete(x.call)} = {}
  OBVIOUS
<1> QED BY <1>1 DEF IsOffered

(* A request has the call it states evaluated, at the top and inside.      *)
LEMMA RequestStates ==
  ASSUME NEW o, IsRequest(o)
  PROVE  IsOffered(Stated(o), CallOfRequest(o))
<1>1. CASE o.method = "tool_call"
  <2>1. Stated(o) = {[from |-> "params", call |-> o.params]}
    BY <1>1 DEF Stated
  <2>2. CallOfRequest(o) = IF Complete(o.params) THEN Found("params", o.params) ELSE <<>>
    BY <1>1 DEF CallOfRequest, parseToolCallFromParams
  <2> QED BY <2>1, <2>2, OneOffered
<1>2. CASE o.method # "tool_call"
  <2>1. Stated(o) = {} /\ CallOfRequest(o) = <<>>
    BY <1>2 DEF Stated, CallOfRequest
  <2> QED BY <2>1, NoneOffered
<1> QED BY <1>1, <1>2

(* An object inside a line has the call it states evaluated.               *)
LEMMA InnerStates ==
  ASSUME NEW o
  PROVE  IsOffered(Stated(o), parseInnerRequest(o))
<1>1. CASE IsRequest(o)
  BY <1>1, RequestStates DEF parseInnerRequest
<1>2. CASE ~IsRequest(o)
  <2>1. Stated(o) = {[from |-> "itself", call |-> o.itself]}
    BY <1>2 DEF Stated
  <2>2. parseInnerRequest(o) = IF Complete(o.itself) THEN Found("itself", o.itself) ELSE <<>>
    BY <1>2 DEF parseInnerRequest
  <2> QED BY <2>1, <2>2, OneOffered
<1> QED BY <1>1, <1>2

(* What is among some offers is among more, if those before are incomplete. *)
LEMMA MoreOffered ==
  ASSUME NEW offers, NEW more, offers \subseteq more, NEW found, IsOffered(offers, found),
         \A x \in more \ offers : ~Complete(x.call)
  PROVE  IsOffered(more, found)
<1>1. {x \in offers : Complete(x.call)} = {x \in more : Complete(x.call)}
  OBVIOUS
<1> QED BY <1>1 DEF IsOffered

(* Of what a line offers a complete call is evaluated, if there is one.    *)
LEMMA LineOffers ==
  ASSUME NEW o \in LineObject
  PROVE  IsOffered(Offered(o), parseToolCallLine(o))
<1> DEFINE own == [from |-> "itself", call |-> o.itself]
           called == [from |-> "call", call |-> o.call]
           inside == UNION {Stated(inner) : inner \in Wrapped(o)}
<1>1. CASE IsRequest(o)
  <2>1. Offered(o) = Stated(o) /\ parseToolCallLine(o) = CallOfRequest(o)
    BY <1>1 DEF Offered, parseToolCallLine
  <2> QED BY <1>1, <2>1, RequestStates
<1>2. CASE ~IsRequest(o)
  <2>1. Offered(o) = {own} \cup {called} \cup inside
    <3>1. Stated(o) = {own}
      BY <1>2 DEF Stated
    <3> QED BY <1>2, <3>1 DEF Offered
  <2>2. CASE Complete(o.itself)
    <3>1. parseToolCallLine(o) = Found("itself", o.itself)
      BY <1>2, <2>2 DEF parseToolCallLine
    <3> QED BY <2>1, <2>2, <3>1, FoundIsOffered
  <2>3. CASE ~Complete(o.itself) /\ Complete(o.call)
    <3>1. parseToolCallLine(o) = Found("call", o.call)
      BY <1>2, <2>3 DEF parseToolCallLine
    <3> QED BY <2>1, <2>3, <3>1, FoundIsOffered
  <2>4. CASE ~Complete(o.itself) /\ ~Complete(o.call)
    <3>1. parseToolCallLine(o) =
            IF o.request # <<>> THEN parseInnerRequest(o.request[1])
            ELSE IF o.workflow # <<>> THEN parseInnerRequest(o.workflow[1])
            ELSE <<>>
      BY <1>2, <2>4 DEF parseToolCallLine
    <3>2. own.call = o.itself /\ called.call = o.call
      OBVIOUS
    <3> HIDE DEF own, called
    <3>3. ASSUME NEW inner, Wrapped(o) = {inner}, parseToolCallLine(o) = parseInnerRequest(inner)
          PROVE  IsOffered(Offered(o), parseToolCallLine(o))
      <4>1. inside = Stated(inner)
        BY <3>3
      <4> HIDE DEF inside
      <4>2. IsOffered(inside, parseToolCallLine(o))
        BY <3>3, <4>1, InnerStates
      <4>3. inside \subseteq Offered(o) /\ \A x \in Offered(o) \ inside : ~Complete(x.call)
        BY <2>1, <2>4, <3>2
      <4> QED BY <4>2, <4>3, MoreOffered
    <3>4. CASE o.request # <<>>
      BY <3>1, <3>3, <3>4 DEF Wrapped
    <3>5. CASE o.request = <<>> /\ o.workflow # <<>>
      <4>1. DOMAIN o.workflow \cap {1} = {1}
        BY <3>5 DEF LineObject
      <4>2. Wrapped(o) = {o.workflow[1]}
        BY <3>5, <4>1 DEF Wrapped
      <4> QED BY <3>1, <3>3, <3>5, <4>2
    <3>6. CASE o.request = <<>> /\ o.workflow = <<>>
      <4>1. DOMAIN o.workflow \cap {1} = {}
        BY <3>6
      <4>2. Wrapped(o) = {}
        BY <3>6, <4>1 DEF Wrapped
      <4>3. \A x \in Offered(o) : ~Complete(x.call)
        BY <2>1, <2>4, <3>2, <4>2
      <4>4. parseToolCallLine(o) = <<>>
        BY <3>1, <3>6
      <4> QED BY <4>3, <4>4, NoneOffered
    <3> QED BY <3>4, <3>5, <3>6
  <2> QED BY <2>2, <2>3, <2>4
<1> QED BY <1>1, <1>2

(* Each line up to the first obstacle gets its own answer, and of the      *)
(* calls a line gives a complete one is evaluated, with an id, if there is *)
(* one (policycheck, main.go:71-220).                                      *)
THEOREM LinesGetTheirAnswers == RulesSpec => []EveryLineAnswered
<1>1. ASSUME RulesInv, answer.of = "lines"
      PROVE  LET lines == question.lines
                 reached == LinesReached(lines, question.room)
                 answered == {n \in reached : lines[n] # "empty"}
             IN /\ Len(answer.output) = Cardinality(answered)
                /\ \A n \in answered :
                     answer.output[Filled(lines, n)] =
                       [line |-> n, of |-> IF lines[n] = "call" THEN "decision" ELSE "error"]
                /\ answer.code = 1 <=> reached # DOMAIN lines
                /\ answer.code = 2 <=>
                     reached = DOMAIN lines /\ \E n \in DOMAIN lines : lines[n] = "error"
  <2>1. /\ question.lines \in Seq(LineKinds) /\ question.room \in Nat
        /\ answer.output = run(question.lines, question.room).output
        /\ answer.code = ExitCode(run(question.lines, question.room))
    BY <1>1, LinesAssumption DEF RulesInv, LineKinds
  <2> DEFINE lines == question.lines
             room == question.room
             reached == LinesReached(lines, room)
             answered == {n \in reached : lines[n] # "empty"}
  <2> HIDE DEF lines, room
  <2>2. /\ Len(run(lines, room).output) = Cardinality(answered)
        /\ \A n \in answered : run(lines, room).output[Filled(lines, n)] = OutputOf(lines, n)
        /\ ExitCode(run(lines, room)) = 1 <=> reached # DOMAIN lines
        /\ ExitCode(run(lines, room)) = 2 <=>
             reached = DOMAIN lines /\ \E n \in DOMAIN lines : lines[n] = "error"
    BY <2>1, LinesAnswered DEF lines, room
  <2> HIDE DEF reached, answered
  <2>3. /\ Len(answer.output) = Cardinality(answered)
        /\ \A n \in answered : answer.output[Filled(lines, n)] = OutputOf(lines, n)
        /\ answer.code = 1 <=> reached # DOMAIN lines
        /\ answer.code = 2 <=>
             reached = DOMAIN lines /\ \E n \in DOMAIN lines : lines[n] = "error"
    BY <2>1, <2>2 DEF lines, room
  <2> QED BY <2>3 DEF OutputOf, answered, reached, lines, room
<1>2. ASSUME RulesInv, answer.of = "object"
      PROVE  LET calls == {c \in Offered(question.object) : Complete(c.call)} IN
             IF calls = {} THEN answer.found = <<>>
             ELSE /\ Len(answer.found) = 1 /\ answer.found[1].id # ""
                  /\ [from |-> answer.found[1].from, call |-> answer.found[1].call] \in calls
  <2>1. question.object \in LineObject /\ answer.found = parseToolCallLine(question.object)
    BY <1>2, LinesAssumption DEF RulesInv
  <2>2. IsOffered(Offered(question.object), parseToolCallLine(question.object))
    BY <2>1, LineOffers
  <2> QED BY <2>1, <2>2 DEF IsOffered, IsFound
<1>3. ASSUME RulesInv PROVE EveryLineAnswered
  BY <1>1, <1>2, <1>3 DEF EveryLineAnswered
<1> QED BY RulesInvariant, <1>3, PTL

(***************************************************************************)
(* Operands: paths that are cleaned without a root.                        *)
(***************************************************************************)

(* The names left begin with a step up.                                    *)
LeadsUp(names) == names # <<>> /\ names[1] = DotDot

(* What a sequence begins with when its end changes.                       *)
LEMMA FirstStays ==
  ASSUME NEW S, NEW s \in Seq(S), NEW n
  PROVE  /\ Append(s, n) # <<>> /\ (s = <<>> => Append(s, n)[1] = n)
         /\ s # <<>> => Append(s, n)[1] = s[1]
         /\ s # <<>> /\ Front(s) # <<>> => Front(s)[1] = s[1]
         /\ s # <<>> /\ Front(s) = <<>> => Last(s) = s[1]
         /\ \A i \in DOMAIN Append(s, n) :
              (i \in DOMAIN s /\ Append(s, n)[i] = s[i]) \/ Append(s, n)[i] = n
         /\ s # <<>> => \A i \in DOMAIN Front(s) : i \in DOMAIN s /\ Front(s)[i] = s[i]
<1>1. Append(s, n) # <<>> /\ (s = <<>> => Append(s, n)[1] = n)
  OBVIOUS
<1>2. s # <<>> => Append(s, n)[1] = s[1]
  OBVIOUS
<1>3. \A i \in DOMAIN Append(s, n) :
        (i \in DOMAIN s /\ Append(s, n)[i] = s[i]) \/ Append(s, n)[i] = n
  OBVIOUS
<1>4. s # <<>> =>
        /\ Len(s) \in Nat /\ Len(s) >= 1 /\ Len(Front(s)) = Len(s) - 1
        /\ Front(s) \in Seq(S)
        /\ \A i \in 1..(Len(s) - 1) : Front(s)[i] = s[i]
  <2>1. Front(s) = SubSeq(s, 1, Len(s) - 1)
    BY DEF Front
  <2>2. s # <<>> => Len(s) \in Nat /\ Len(s) >= 1
    OBVIOUS
  <2> DEFINE m == Len(s) - 1
             f == SubSeq(s, 1, m)
  <2>3. s # <<>> => f \in Seq(S) /\ Len(f) = m /\ \A i \in 1..m : f[i] = s[i]
    <3>1. s # <<>> => m \in Nat /\ \A i \in 1..m : s[i] \in S
      BY <2>2
    <3> HIDE DEF m
    <3> QED BY <3>1, SubSeqProperties
  <2> QED BY <2>1, <2>2, <2>3
<1>5. s # <<>> => \A i \in DOMAIN Front(s) : i \in DOMAIN s /\ Front(s)[i] = s[i]
  BY <1>4
<1>6. s # <<>> /\ Front(s) # <<>> => Front(s)[1] = s[1]
  BY <1>4
<1>7. s # <<>> /\ Front(s) = <<>> => Last(s) = s[1]
  <2>1. s # <<>> /\ Front(s) = <<>> => Len(s) = 1
    BY <1>4
  <2> QED BY <2>1 DEF Last
<1> QED BY <1>1, <1>2, <1>3, <1>5, <1>6, <1>7

(* While they do not, none of them is a step up, and to follow them all is *)
(* to follow those that are left.                                          *)
Follows(S, left, names) ==
  ~LeadsUp(left) =>
    /\ \A i \in DOMAIN left : left[i] # DotDot
    /\ \A from \in Seq(S) : Led(names, from) = from \o left

LEMMA LeftAreFollowed ==
  ASSUME NEW Char, NEW S, Segments(Char) \subseteq S, NEW names \in Seq(Segments(Char))
  PROVE  Follows(S, CleanNames(FALSE, names), names)
<1> DEFINE L == Segments(Char)
           E == Proper(FALSE, Char)
           C(x) == CleanNames(FALSE, x)
           T == {x \in Seq(L) : Follows(S, C(x), x)}
<1>1. /\ C(<<>>) = <<>>
      /\ \A x \in Seq(L), n \in L : C(x) \in Seq(E) /\ C(Append(x, n)) = AddName(FALSE, C(x), n)
  BY CleanFold
<1>2. E \subseteq L /\ L \subseteq S /\ DotDot # <<>> /\ DotDot # Dot
  BY DEF Proper, DotDot, Dot
<1>3. ASSUME NEW from \in Seq(S)
      PROVE  /\ Led(<<>>, from) = from
             /\ \A x \in Seq(L), n \in L : Led(Append(x, n), from) = StepTo(Led(x, from), n)
  <2>1. \A x \in Seq(L) : x \in Seq(S)
    BY <1>2, SeqMonotonic
  <2> HIDE DEF L
  <2> QED BY <1>2, <2>1, LedFold
<1> HIDE DEF L, E, C
<1>4. <<>> \in T
  <2>1. \A from \in Seq(S) : from \o <<>> = from
    OBVIOUS
  <2>2. Follows(S, <<>>, <<>>)
    BY <1>3, <2>1 DEF Follows
  <2>3. <<>> \in Seq(L)
    OBVIOUS
  <2> QED BY <1>1, <2>2, <2>3
<1>5. ASSUME NEW x \in Seq(L), NEW n \in L, x \in T PROVE Append(x, n) \in T
  <2> DEFINE left == C(x)
             next == AddName(FALSE, left, n)
  <2>1. left \in Seq(E) /\ C(Append(x, n)) = next /\ Follows(S, left, x)
    BY <1>1, <1>5
  <2>2. Append(x, n) \in Seq(L)
    OBVIOUS
  <2>3. left \in Seq(S) /\ n \in S
    <3>1. E \subseteq S
      BY <1>2
    <3> QED BY <1>2, <2>1, <3>1, SeqMonotonic
  <2> HIDE DEF left, next
  <2>4. CASE n \in {<<>>, Dot}
    <3>1. next = left
      BY <2>4 DEF AddName, next
    <3>2. \A here : StepTo(here, n) = here
      BY <2>4 DEF StepTo
    <3> QED BY <1>3, <2>1, <2>2, <3>1, <3>2 DEF Follows
  <2>5. CASE n = DotDot /\ left = <<>>
    <3>1. next = Append(<<>>, DotDot)
      BY <1>2, <2>5 DEF AddName, next
    <3>2. LeadsUp(next)
      BY <2>3, <3>1, FirstStays DEF LeadsUp
    <3> QED BY <2>1, <2>2, <3>2 DEF Follows
  <2>6. CASE n = DotDot /\ left # <<>> /\ Last(left) = DotDot
    <3>1. next = Append(left, DotDot)
      BY <1>2, <2>6 DEF AddName, next
    <3>2. LeadsUp(left) => LeadsUp(next)
      BY <2>3, <2>6, <3>1, FirstStays DEF LeadsUp
    <3>3. LeadsUp(left)
      <4>1. Len(left) \in DOMAIN left /\ left[Len(left)] = DotDot
        BY <2>3, <2>6 DEF Last
      <4> QED BY <2>1, <4>1 DEF Follows
    <3> QED BY <2>1, <2>2, <3>2, <3>3 DEF Follows
  <2>7. CASE n = DotDot /\ left # <<>> /\ Last(left) # DotDot
    <3>1. next = Front(left)
      BY <1>2, <2>7 DEF AddName, next
    <3>2. LeadsUp(left) => LeadsUp(next)
      BY <2>3, <2>7, <3>1, FirstStays DEF LeadsUp
    <3>3. ASSUME ~LeadsUp(left)
          PROVE  /\ \A i \in DOMAIN next : next[i] # DotDot
                 /\ \A from \in Seq(S) : Led(Append(x, n), from) = from \o next
      <4>1. /\ \A i \in DOMAIN left : left[i] # DotDot
            /\ \A from \in Seq(S) : Led(x, from) = from \o left
        BY <2>1, <3>3 DEF Follows
      <4>2. \A i \in DOMAIN next : i \in DOMAIN left /\ next[i] = left[i]
        BY <2>3, <2>7, <3>1, FirstStays
      <4>3. ASSUME NEW from \in Seq(S) PROVE Led(Append(x, n), from) = from \o next
        <5>1. Led(Append(x, n), from) = StepTo(from \o left, n)
          <6>1. Led(Append(x, n), from) = StepTo(Led(x, from), n)
            BY <1>3
          <6>2. Led(x, from) = from \o left
            BY <4>1
          <6> QED BY <6>1, <6>2
        <5>2. from \o left # <<>>
          BY <2>3, <2>7
        <5>3. StepTo(from \o left, n) = Front(from \o left)
          BY <1>2, <2>7, <5>2 DEF StepTo
        <5>4. Front(from \o left) = from \o Front(left)
          BY <2>3, <2>7, SMTT(60) DEF Front
        <5> QED BY <3>1, <5>1, <5>3, <5>4
      <4> QED BY <4>1, <4>2, <4>3
    <3> QED BY <2>1, <2>2, <3>2, <3>3 DEF Follows
  <2>8. CASE n \notin {<<>>, Dot, DotDot}
    <3>1. next = Append(left, n)
      BY <2>8 DEF AddName, next
    <3>2. LeadsUp(left) => LeadsUp(next)
      BY <2>3, <3>1, FirstStays DEF LeadsUp
    <3>3. ASSUME ~LeadsUp(left)
          PROVE  /\ \A i \in DOMAIN next : next[i] # DotDot
                 /\ \A from \in Seq(S) : Led(Append(x, n), from) = from \o next
      <4>1. /\ \A i \in DOMAIN left : left[i] # DotDot
            /\ \A from \in Seq(S) : Led(x, from) = from \o left
        BY <2>1, <3>3 DEF Follows
      <4>2. \A i \in DOMAIN next : (i \in DOMAIN left /\ next[i] = left[i]) \/ next[i] = n
        BY <2>3, <3>1, FirstStays
      <4>3. ASSUME NEW from \in Seq(S) PROVE Led(Append(x, n), from) = from \o next
        <5>1. Led(Append(x, n), from) = StepTo(from \o left, n)
          <6>1. Led(Append(x, n), from) = StepTo(Led(x, from), n)
            BY <1>3
          <6>2. Led(x, from) = from \o left
            BY <4>1
          <6> QED BY <6>1, <6>2
        <5>2. StepTo(from \o left, n) = Append(from \o left, n)
          BY <2>8 DEF StepTo
        <5>3. from \o Append(left, n) = Append(from \o left, n)
          BY <2>3, AppendAfter
        <5> QED BY <3>1, <5>1, <5>2, <5>3
      <4> QED BY <2>8, <4>1, <4>2, <4>3
    <3> QED BY <2>1, <2>2, <3>2, <3>3 DEF Follows
  <2> QED BY <2>4, <2>5, <2>6, <2>7, <2>8
<1> HIDE DEF T
<1>6. \A x \in Seq(L) : x \in T
  BY <1>4, <1>5, ByAppending
<1> QED BY <1>6 DEF T, C, L

(* Once they do, a name that is none of them and that they climbed from is *)
(* never come to again.                                                    *)
LEMMA NeverBack ==
  ASSUME NEW Char, NEW strange, strange # DotDot,
         NEW names \in Seq(Segments(Char) \ {strange}), LeadsUp(CleanNames(FALSE, names))
  PROVE  \A i \in DOMAIN Led(names, <<strange>>) : Led(names, <<strange>>)[i] # strange
<1> DEFINE S == Segments(Char) \cup {strange}
           L == Segments(Char) \ {strange}
           C(x) == CleanNames(FALSE, x)
           from == <<strange>>
           W(x) == Led(x, from)
           Gone(x) == \A i \in DOMAIN W(x) : W(x)[i] # strange
           T == {x \in Seq(L) : LeadsUp(C(x)) => Gone(x)}
<1>1. /\ from \in Seq(S) /\ W(<<>>) = from
      /\ \A x \in Seq(L), n \in L :
           W(x) \in Seq(S) /\ W(Append(x, n)) = StepTo(W(x), n)
  <2>1. from \in Seq(S)
    OBVIOUS
  <2>2. L \subseteq S
    OBVIOUS
  <2> HIDE DEF L, S, from
  <2>3. \A x \in Seq(L) : x \in Seq(S)
    BY <2>2, SeqMonotonic
  <2> QED BY <2>1, <2>2, <2>3, LedFold
<1>2. /\ C(<<>>) = <<>>
      /\ \A x \in Seq(L), n \in L :
           /\ C(x) \in Seq(Proper(FALSE, Char))
           /\ C(Append(x, n)) = AddName(FALSE, C(x), n)
           /\ Follows(S, C(x), x)
  <2>1. L \subseteq Segments(Char) /\ Segments(Char) \subseteq S
    OBVIOUS
  <2> HIDE DEF L, S
  <2>2. \A x \in Seq(L) : x \in Seq(Segments(Char))
    BY <2>1, SeqMonotonic
  <2> QED BY <2>1, <2>2, CleanFold, LeftAreFollowed
<1>3. \A n \in L : n # strange
  OBVIOUS
<1> HIDE DEF S, L, C, W
<1>4. <<>> \in T
  <2>1. <<>> \in Seq(L)
    OBVIOUS
  <2> QED BY <1>2, <2>1 DEF LeadsUp
<1>5. ASSUME NEW x \in Seq(L), NEW n \in L, x \in T PROVE Append(x, n) \in T
  <2> DEFINE left == C(x)
             here == W(x)
  <2>1. /\ left \in Seq(Proper(FALSE, Char)) /\ C(Append(x, n)) = AddName(FALSE, left, n)
        /\ here \in Seq(S) /\ W(Append(x, n)) = StepTo(here, n)
        /\ Append(x, n) \in Seq(L) /\ n # strange
    <3>1. Append(x, n) \in Seq(L)
      OBVIOUS
    <3> QED BY <1>1, <1>2, <1>3, <3>1, Zenon
  <2>2. Follows(S, left, x) /\ from \in Seq(S)
    BY <1>1, <1>2
  <2>3. LeadsUp(left) => \A i \in DOMAIN here : here[i] # strange
    BY <1>5
  <2> HIDE DEF left, here
  <2>4. ASSUME LeadsUp(AddName(FALSE, left, n)), ~LeadsUp(left)
        PROVE  StepTo(here, n) = <<>>
    <3>1. n = DotDot /\ left = <<>>
      <4>1. left # <<>> =>
              /\ Append(left, n) # <<>> => Append(left, n)[1] = left[1]
              /\ Front(left) # <<>> => Front(left)[1] = left[1]
        BY <2>1 DEF Front
      <4>2. Append(<<>>, n)[1] = n
        OBVIOUS
      <4> QED BY <2>4, <4>1, <4>2 DEF LeadsUp, AddName
    <3>2. here = from \o left
      BY <2>2, <2>4 DEF Follows, here, W
    <3>3. here = <<strange>>
      BY <3>1, <3>2
    <3> QED BY <3>1, <3>3 DEF StepTo, Front, DotDot, Dot
  <2>5. ASSUME LeadsUp(left), NEW i \in DOMAIN StepTo(here, n)
        PROVE  StepTo(here, n)[i] # strange
    <3>1. StepTo(here, n) \in {here, Append(here, n)} \/ (here # <<>> /\ StepTo(here, n) = Front(here))
      BY DEF StepTo
    <3>2. CASE StepTo(here, n) = here
      BY <2>3, <2>5, <3>2
    <3>3. CASE StepTo(here, n) = Append(here, n)
      BY <2>1, <2>3, <2>5, <3>3
    <3>4. CASE here # <<>> /\ StepTo(here, n) = Front(here)
      BY <2>1, <2>3, <2>5, <3>4 DEF Front
    <3> QED BY <3>1, <3>2, <3>3, <3>4
  <2>6. LeadsUp(C(Append(x, n))) => Gone(Append(x, n))
    <3>1. DOMAIN <<>> = {}
      OBVIOUS
    <3> QED BY <2>1, <2>4, <2>5, <3>1
  <2> QED BY <2>1, <2>6
<1> HIDE DEF T
<1>6. \A x \in Seq(L) : x \in T
  BY <1>4, <1>5, ByAppending
<1> QED BY <1>6 DEF T, C, W, L

(* No name of a path is longer than the path.                              *)
LEMMA NamesAreShort ==
  ASSUME NEW Char, NEW p \in Seq(Char)
  PROVE  \A i \in DOMAIN Names(p) : Len(Names(p)[i]) <= Len(p)
<1> DEFINE L == Segments(Char)
           N(x) == Names(x)
           Short(x) == \A i \in DOMAIN N(x) : Len(N(x)[i]) <= Len(x)
           T == {x \in Seq(Char) : Short(x)}
<1>1. /\ N(<<>>) = <<<<>>>>
      /\ \A x \in Seq(Char), c \in Char :
           N(x) \in Seq(L) /\ N(x) # <<>> /\ N(Append(x, c)) = AddCharacter(N(x), c, "/")
  BY NamesFold DEF Splits
<1>2. <<>> \in L /\ \A n \in L : Len(n) \in Nat /\ \A c : Len(Append(n, c)) = Len(n) + 1
  BY DEF Segments
<1> HIDE DEF L, N
<1>3. <<>> \in T
  <2>1. DOMAIN <<<<>>>> = {1} /\ Len(<<<<>>>>[1]) = 0 /\ Len(<<>>) = 0 /\ <<>> \in Seq(Char)
    OBVIOUS
  <2> QED BY <1>1, <2>1
<1>4. ASSUME NEW x \in Seq(Char), NEW c \in Char, x \in T PROVE Append(x, c) \in T
  <2> DEFINE parts == N(x)
  <2>1. /\ parts \in Seq(L) /\ parts # <<>> /\ N(Append(x, c)) = AddCharacter(parts, c, "/")
        /\ \A i \in DOMAIN parts : Len(parts[i]) <= Len(x)
    BY <1>1, <1>4
  <2>2. Append(x, c) \in Seq(Char) /\ Len(Append(x, c)) = Len(x) + 1 /\ Len(x) \in Nat
    OBVIOUS
  <2> HIDE DEF parts
  <2>3. \A i \in DOMAIN parts : parts[i] \in L /\ Len(parts[i]) \in Nat
    BY <1>2, <2>1
  <2>4. CASE c = "/"
    <3>1. N(Append(x, c)) = Append(parts, <<>>)
      BY <2>1, <2>4 DEF AddCharacter
    <3>2. \A i \in DOMAIN Append(parts, <<>>) :
            (i \in DOMAIN parts /\ Append(parts, <<>>)[i] = parts[i]) \/ Append(parts, <<>>)[i] = <<>>
      BY <2>1, FirstStays
    <3>3. \A i \in DOMAIN parts : Len(parts[i]) <= Len(x) + 1
      BY <2>1, <2>2, <2>3
    <3>4. Len(<<>>) <= Len(x) + 1
      BY <2>2
    <3> QED BY <2>2, <3>1, <3>2, <3>3, <3>4
  <2>5. CASE c # "/"
    <3> DEFINE last == Append(Last(parts), c)
    <3>1. N(Append(x, c)) = Append(Front(parts), last)
      BY <2>1, <2>5 DEF AddCharacter
    <3>2. /\ Front(parts) \in Seq(L)
          /\ \A i \in DOMAIN Front(parts) : i \in DOMAIN parts /\ Front(parts)[i] = parts[i]
      <4>1. Front(parts) \in Seq(L)
        BY <2>1 DEF Front
      <4> QED BY <2>1, <4>1, FirstStays, ZenonT(60)
    <3>3. \A i \in DOMAIN Append(Front(parts), last) :
            \/ i \in DOMAIN Front(parts) /\ Append(Front(parts), last)[i] = Front(parts)[i]
            \/ Append(Front(parts), last)[i] = last
      BY <3>2, FirstStays
    <3>4. Len(last) <= Len(x) + 1
      <4>1. Len(parts) \in DOMAIN parts /\ Last(parts) = parts[Len(parts)]
        BY <2>1 DEF Last
      <4>2. Last(parts) \in L /\ Len(Last(parts)) \in Nat /\ Len(Last(parts)) <= Len(x)
        BY <2>1, <2>3, <4>1
      <4>3. Len(last) = Len(Last(parts)) + 1
        BY <1>2, <4>2
      <4> QED BY <2>2, <4>2, <4>3
    <3> HIDE DEF last
    <3>5. \A i \in DOMAIN parts : Len(parts[i]) <= Len(x) + 1
      BY <2>1, <2>2, <2>3
    <3> QED BY <2>2, <3>1, <3>2, <3>3, <3>4, <3>5
  <2> QED BY <2>4, <2>5
<1> HIDE DEF T
<1>5. \A x \in Seq(Char) : x \in T
  BY <1>3, <1>4, ByAppending
<1> QED BY <1>5 DEF T, N

(* The names of a path, and those left of them when it has no root.        *)
LEMMA UnrootedNames ==
  ASSUME NEW Char, "/" \in Char, NEW p \in Seq(Char), ~Rooted(p)
  PROVE  /\ Names(p) \in Seq(Segments(Char)) /\ Names(p) # <<>>
         /\ NamesOf(p) = CleanNames(FALSE, Names(p))
         /\ NamesOf(p) \in Seq(Nonempty(Char))
<1>1. Names(p) \in Seq(Segments(Char)) /\ Names(p) # <<>>
  BY NamesFold DEF Splits
<1>2. NamesOf(p) = CleanNames(FALSE, Names(p))
  <2>1. Rooted(p) = FALSE
    BY DEF Rooted
  <2> QED BY <2>1 DEF NamesOf
<1>3. NamesOf(p) \in Seq(Proper(FALSE, Char))
  <2>1. <<>> \in Segments(Char)
    BY DEF Segments
  <2> QED BY <1>1, <1>2, <2>1, CleanFold
<1>4. Proper(FALSE, Char) \subseteq Nonempty(Char)
  BY DEF Proper, Nonempty
<1>5. NamesOf(p) \in Seq(Nonempty(Char))
  BY <1>3, <1>4, SeqMonotonic
<1> QED BY <1>1, <1>2, <1>5

(* What the sandbox refuses as a way up is a path whose names begin with   *)
(* one when it is cleaned.                                                 *)
LEMMA EscapesIsUp ==
  ASSUME NEW Char, {"/", "."} \subseteq Char, NEW p \in Seq(Char), ~Rooted(p)
  PROVE  Escapes(Clean(p)) <=> LeadsUp(NamesOf(p))
<1> DEFINE ns == NamesOf(p)
           j == JoinNames(ns)
<1>1. ns \in Seq(Nonempty(Char))
  BY UnrootedNames
<1>2. Clean(p) = IF j = <<>> THEN Dot ELSE j
  BY DEF Clean
<1> HIDE DEF ns
<1>3. j = <<>> <=> ns = <<>>
  BY <1>1, NamesOfJoin
<1>4. CASE ns = <<>>
  <2>1. ~Escapes(Dot)
    <3>1. Dot # DotDot
      BY DEF Dot, DotDot
    <3>2. Len(DotDot \o <<"/">>) = 3 /\ Len(Dot) = 1
      <4> DEFINE A == {"/", "."}
      <4>1. DotDot \in Seq(A) /\ Len(DotDot) = 2 /\ Len(Dot) = 1
        BY DEF DotDot, Dot
      <4>2. <<"/">> \in Seq(A) /\ Len(<<"/">>) = 1
        OBVIOUS
      <4> HIDE DEF A
      <4>3. Len(DotDot \o <<"/">>) = Len(DotDot) + Len(<<"/">>)
        BY <4>1, <4>2, ConcatProperties
      <4> QED BY <4>1, <4>2, <4>3
    <3>3. ~IsPrefix(DotDot \o <<"/">>, Dot)
      BY <3>2 DEF IsPrefix
    <3> QED BY <3>1, <3>3 DEF Escapes
  <2> QED BY <1>2, <1>3, <1>4, <2>1 DEF LeadsUp, ns
<1>5. CASE ns # <<>>
  <2>1. Escapes(j) <=> ns[1] = DotDot
    BY <1>1, <1>5, EscapesByName
  <2> QED BY <1>2, <1>3, <1>5, <2>1 DEF LeadsUp, ns
<1> QED BY <1>4, <1>5

(* A path whose names do not begin with a way up leads nowhere out of any  *)
(* place.                                                                  *)
LEMMA NotUpStays ==
  ASSUME NEW Char, "/" \in Char, NEW S, Segments(Char) \subseteq S, NEW p \in Seq(Char),
         ~Rooted(p), ~LeadsUp(NamesOf(p)), NEW place \in Seq(S)
  PROVE  IsPrefix(place, Walk(p, place))
<1> DEFINE ns == NamesOf(p)
<1>1. Names(p) \in Seq(Segments(Char)) /\ ns = CleanNames(FALSE, Names(p)) /\ ns \in Seq(Nonempty(Char))
  BY UnrootedNames
<1>2. Follows(S, ns, Names(p))
  BY <1>1, LeftAreFollowed
<1>3. Walk(p, place) = Led(Names(p), place)
  BY DEF Walk, Led
<1> HIDE DEF ns
<1>4. Led(Names(p), place) = place \o ns
  BY <1>2 DEF Follows, ns
<1>5. ns \in Seq(S)
  <2>1. Nonempty(Char) \subseteq S
    BY DEF Nonempty
  <2> QED BY <1>1, <2>1, SeqMonotonic
<1> QED BY <1>3, <1>4, <1>5, PrefixSplits

(* It stays exactly then.                                                  *)
LEMMA StaysIsNotUp ==
  ASSUME NEW Char, "/" \in Char, NEW p \in Seq(Char), ~Rooted(p)
  PROVE  Stays(p) <=> ~LeadsUp(NamesOf(p))
<1> DEFINE name == [i \in 1..(Len(p) + 1) |-> "d"]
           strange == <<name>>
           S == Segments(Char) \cup {name}
<1>1. Stays(p) <=> IsPrefix(strange, Walk(p, strange))
  BY DEF Stays
<1>2. Len(p) \in Nat /\ name \in Seq({"d"}) /\ Len(name) = Len(p) + 1
  OBVIOUS
<1>3. name # DotDot
  <2>1. name[1] = "d"
    BY <1>2
  <2> QED BY <2>1 DEF DotDot
<1> HIDE DEF name
<1>4. strange \in Seq(S) /\ Len(strange) = 1 /\ strange[1] = name
  OBVIOUS
<1>5. ASSUME ~LeadsUp(NamesOf(p)) PROVE IsPrefix(strange, Walk(p, strange))
  <2> HIDE DEF strange
  <2> QED BY <1>4, <1>5, NotUpStays
<1>6. ASSUME LeadsUp(NamesOf(p)) PROVE ~IsPrefix(strange, Walk(p, strange))
  <2>1. /\ Names(p) \in Seq(Segments(Char))
        /\ NamesOf(p) = CleanNames(FALSE, Names(p))
    BY UnrootedNames
  <2>2. Names(p) \in Seq(Segments(Char) \ {name})
    <3>1. \A i \in DOMAIN Names(p) : Names(p)[i] # name
      BY <1>2, NamesAreShort
    <3> DEFINE ns == Names(p)
    <3> HIDE DEF ns
    <3>2. \A i \in 1..Len(ns) : ns[i] \in Segments(Char) \ {name}
      BY <2>1, <3>1 DEF ns
    <3>3. ns = [i \in 1..Len(ns) |-> ns[i]] /\ Len(ns) \in Nat
      BY <2>1 DEF ns
    <3> QED BY <3>2, <3>3 DEF ns
  <2>3. \A i \in DOMAIN Led(Names(p), strange) : Led(Names(p), strange)[i] # name
    BY <1>3, <1>6, <2>1, <2>2, NeverBack
  <2>4. Walk(p, strange) = Led(Names(p), strange)
    BY DEF Walk, Led
  <2>5. Led(Names(p), strange) \in Seq(S)
    <3>1. Names(p) \in Seq(S)
      <4>1. Segments(Char) \subseteq S
        OBVIOUS
      <4> HIDE DEF S
      <4> QED BY <2>1, <4>1, SeqMonotonic
    <3> HIDE DEF S, strange
    <3> QED BY <1>4, <3>1, LedFold
  <2> DEFINE there == Led(Names(p), strange)
  <2>6. ASSUME IsPrefix(strange, there) PROVE FALSE
    <3> HIDE DEF strange, there
    <3>1. 1 \in DOMAIN there /\ there[1] = strange[1]
      <4>1. Len(there) \in Nat /\ DOMAIN there = 1..Len(there)
        BY <2>5 DEF there
      <4>2. SubSeq(strange, 1, 1) = SubSeq(there, 1, 1) /\ 1 <= Len(there)
        BY <1>4, <2>6 DEF IsPrefix
      <4>3. SubSeq(strange, 1, 1)[1] = strange[1] /\ SubSeq(there, 1, 1)[1] = there[1]
        BY <1>4, <2>5, <4>2 DEF there
      <4> QED BY <4>1, <4>2, <4>3
    <3> QED BY <1>4, <2>3, <3>1 DEF there
  <2> QED BY <2>4, <2>6
<1> QED BY <1>1, <1>5, <1>6

(* The fields among the pieces of a command.                               *)
FieldsIn(pieces) == FoldLeft(AddField, <<>>, pieces)

(* One step of that, as a function.                                        *)
FieldStep(S) == [x \in Seq(S \ {<<>>}) \X S |-> AddField(x[1], x[2])]

LEMMA FieldStepType ==
  ASSUME NEW S
  PROVE  /\ <<>> \in Seq(S \ {<<>>})
         /\ FieldStep(S) \in [Seq(S \ {<<>>}) \X S -> Seq(S \ {<<>>})]
<1>1. \A fields \in Seq(S \ {<<>>}), field \in S : AddField(fields, field) \in Seq(S \ {<<>>})
  BY DEF AddField
<1>2. <<>> \in Seq(S \ {<<>>})
  OBVIOUS
<1> DEFINE V == Seq(S \ {<<>>})
<1> HIDE DEF V
<1>3. FieldStep(S) \in [V \X S -> V]
  <2>1. FieldStep(S) = [x \in V \X S |-> AddField(x[1], x[2])]
    BY DEF FieldStep, V
  <2>2. \A x \in V \X S : AddField(x[1], x[2]) \in V
    BY <1>1 DEF V
  <2> QED BY <2>1, <2>2
<1> QED BY <1>2, <1>3 DEF V

(* The fields are picked one piece after the other.                        *)
LEMMA FieldsRun ==
  ASSUME NEW S, NEW s \in Seq(S)
  PROVE  FoldsTo(FieldsIn(s), Seq(S \ {<<>>}), <<>>, FieldStep(S), s)
<1> DEFINE V == Seq(S \ {<<>>})
           D == DOMAIN s
           step == FieldStep(S)
           none == <<>>
           iter == CHOOSE h : h = [t \in SUBSET D |->
                     IF t = {} THEN none ELSE AddField(h[t \ {Max(t)}], s[Max(t)])]
<1>1. FieldsIn(s) = iter[D]
  BY DEF FieldsIn, FoldLeft, MapThenFoldSet
<1>2. none \in V /\ step \in [V \X S -> V]
  BY FieldStepType
<1>3. D = 1..Len(s) /\ Len(s) \in Nat /\ s \in Seq(S) /\ \A i \in D : s[i] \in S
  OBVIOUS
<1>4. ASSUME NEW v \in V, NEW t \in SUBSET D, t # {}
      PROVE  step[<<v, s[Max(t)]>>] = AddField(v, s[Max(t)])
  <2>1. Max(t) \in D
    BY <1>3, <1>4, MaxIn
  <2>2. s[Max(t)] \in S
    BY <1>3, <2>1
  <2> QED BY <2>2 DEF FieldStep
<1> HIDE DEF V, D, step, none
<1>5. PICK g \in [SUBSET D -> V] : \A t \in SUBSET D :
        g[t] = IF t = {} THEN none ELSE step[<<g[t \ {Max(t)}], s[Max(t)]>>]
  <2>1. PICK g : IsIter(g, V, none, step, s)
    BY <1>2, <1>3, IterExists, Zenon
  <2> QED BY <1>3, <2>1 DEF IsIter
<1>6. g = [t \in SUBSET D |->
             IF t = {} THEN none ELSE AddField(g[t \ {Max(t)}], s[Max(t)])]
  <2>1. \A t \in SUBSET D : t # {} => g[t \ {Max(t)}] \in V
    BY <1>5
  <2>2. \A t \in SUBSET D :
          g[t] = IF t = {} THEN none ELSE AddField(g[t \ {Max(t)}], s[Max(t)])
    BY <1>4, <1>5, <2>1
  <2> QED BY <1>5, <2>2
<1>7. iter = [t \in SUBSET D |->
                IF t = {} THEN none ELSE AddField(iter[t \ {Max(t)}], s[Max(t)])]
  BY <1>6
<1> HIDE DEF iter
<1>8. iter[{}] = none
  BY <1>7
<1>9. \A t \in SUBSET D : t # {} /\ iter[t \ {Max(t)}] \in V =>
        iter[t] = step[<<iter[t \ {Max(t)}], s[Max(t)]>>]
  <2>1. \A t \in SUBSET D : t # {} =>
          iter[t] = AddField(iter[t \ {Max(t)}], s[Max(t)])
    BY <1>7
  <2> QED BY <1>4, <2>1
<1>10. FoldsTo(iter[D], V, none, step, s)
  <2>1. Iterates(iter, V, none, step, s)
    BY <1>3, <1>8, <1>9 DEF Iterates
  <2>2. FoldsTo(iter[1..Len(s)], V, none, step, s)
    BY <1>2, <1>3, <2>1, IterRuns, Zenon
  <2> QED BY <1>3, <2>2
<1> QED BY <1>1, <1>10 DEF V, step, none

(* The words of a command are not empty.                                   *)
LEMMA WordsOfCommand ==
  ASSUME NEW Char, "/" \in Char, NEW text \in Seq(Char)
  PROVE  Fields(text) \in Seq(Seq(Char) \ {<<>>})
<1> DEFINE S == Pieces(Char, " ")
<1>1. Split(text, " ") \in Seq(S)
  BY SplitFold DEF Cuts
<1>2. FoldsTo(FieldsIn(Split(text, " ")), Seq(S \ {<<>>}), <<>>, FieldStep(S), Split(text, " "))
  <2> HIDE DEF S
  <2> QED BY <1>1, FieldsRun
<1>3. Fields(text) = FieldsIn(Split(text, " "))
  BY DEF Fields, FieldsIn
<1>4. Fields(text) \in Seq(S \ {<<>>})
  <2> DEFINE s == Split(text, " ")
             V == Seq(S \ {<<>>})
             step == FieldStep(S)
  <2> HIDE DEF S, s, V, step
  <2>1. PICK f : IsRun(f, V, <<>>, step, s) /\ FieldsIn(s) = f[Len(s)]
    BY <1>2 DEF FoldsTo, s, V, step
  <2>2. Len(s) \in 0..Len(s)
    <3>1. s \in Seq(S)
      BY <1>1 DEF s
    <3>2. Len(s) \in Nat
      BY <3>1
    <3> QED BY <3>2
  <2>3. f[Len(s)] \in V
    BY <2>1, <2>2 DEF IsRun
  <2> QED BY <1>3, <2>1, <2>3 DEF s, V
<1>5. S \ {<<>>} \subseteq Seq(Char) \ {<<>>}
  <2>1. Char \ {" "} \subseteq Char
    OBVIOUS
  <2>2. S \subseteq Seq(Char)
    BY <2>1, SeqMonotonic DEF Pieces
  <2> HIDE DEF S
  <2> QED BY <2>2
<1> HIDE DEF S
<1> QED BY <1>4, <1>5, SeqMonotonic

(* What is let through as an operand leads nowhere out of any place, and   *)
(* what git gets is all that does not (validateWorkspaceOperand,           *)
(* sandbox.go:232-247, and validateGitOperand, 570-585).                   *)
THEOREM OperandsStay ==
  ASSUME NEW Char, {"/", "."} \subseteq Char, NEW text \in Seq(Char)
  PROVE  /\ validateGitOperand(text) <=>
              ~Blank(text) /\ ~Occurs("nul", text) /\ ~Rooted(text) /\ Stays(text)
         /\ validateGitOperand(text) \/ validateWorkspaceOperand(text) =>
              ~Rooted(text) /\ \A place \in Seq(Seq(Char)) : IsPrefix(place, Walk(text, place))
<1>1. ~Rooted(text) => (Escapes(Clean(text)) <=> LeadsUp(NamesOf(text)))
  BY EscapesIsUp
<1>2. ~Rooted(text) => (Stays(text) <=> ~LeadsUp(NamesOf(text)))
  BY StaysIsNotUp
<1>3. ASSUME ~Rooted(text), ~LeadsUp(NamesOf(text)), NEW place \in Seq(Seq(Char))
      PROVE  IsPrefix(place, Walk(text, place))
  <2>1. Segments(Char) \subseteq Seq(Char) /\ "/" \in Char
    BY DEF Segments
  <2> QED BY <1>3, <2>1, NotUpStays
<1> QED BY <1>1, <1>2, <1>3 DEF validateGitOperand, validateWorkspaceOperand

(* Nor does a word of a command that does not look like a path, for it is  *)
(* a name (validateSimpleShellCommand, sandbox.go:188-217).                *)
LEMMA NamesStay ==
  ASSUME NEW Char, {"/", "."} \subseteq Char, NEW word \in Seq(Char) \ {<<>>},
         ~looksLikePath(word), NEW place \in Seq(Seq(Char))
  PROVE  ~Rooted(word) /\ IsPrefix(place, Walk(word, place))
<1>1. word \notin {Dot, DotDot} /\ ~Occurs("/", word)
  BY DEF looksLikePath
<1>2. word \in Segments(Char)
  <2>1. \A i \in 1..Len(word) : word[i] \in Char \ {"/"}
    BY <1>1 DEF Occurs
  <2> QED BY <2>1 DEF Segments
<1>3. ~Rooted(word)
  BY <1>1 DEF Occurs, Rooted
<1>4. Names(word) = <<word>>
  BY <1>2, OneName
<1>5. Walk(word, place) = Append(place, word)
  <2> DEFINE S == Seq(Char)
  <2>1. word \in S /\ <<>> \in Seq(S) /\ <<word>> = Append(<<>>, word)
    OBVIOUS
  <2> HIDE DEF S
  <2>2. Led(<<word>>, place) = StepTo(place, word)
    <3>1. place \in Seq(S)
      BY DEF S
    <3>2. Led(Append(<<>>, word), place) = StepTo(Led(<<>>, place), word) /\ Led(<<>>, place) = place
      <4>1. /\ Led(<<>>, place) = place
            /\ \A s \in Seq(S), n \in S : Led(Append(s, n), place) = StepTo(Led(s, place), n)
        BY <3>1, LedFold
      <4> QED BY <2>1, <4>1, Zenon
    <3> QED BY <2>1, <3>2
  <2>3. Walk(word, place) = Led(<<word>>, place)
    BY <1>3, <1>4 DEF Walk, Led
  <2> QED BY <1>1, <2>2, <2>3 DEF StepTo
<1>6. IsPrefix(place, Append(place, word))
  <2> DEFINE S == Seq(Char)
  <2>1. word \in S
    OBVIOUS
  <2> HIDE DEF S
  <2> DEFINE u == <<word>>
  <2>2. Append(place, word) = place \o u /\ u \in Seq(S) /\ place \in Seq(S)
    BY <2>1 DEF S
  <2> HIDE DEF u
  <2> QED BY <2>2, PrefixSplits
<1> QED BY <1>3, <1>5, <1>6

(* No word of a command that is let through leads anywhere else, either.   *)
LEMMA CommandsStay ==
  ASSUME NEW Char, {"/", "."} \subseteq Char, NEW text \in Seq(Char),
         validateSimpleShellCommand(text), NEW i \in 2..Len(Fields(text)),
         Fields(text)[i][1] # "-"
  PROVE  LET word == Fields(text)[i] IN
         /\ ~Rooted(word) /\ word[1] # "~"
         /\ \A place \in Seq(Seq(Char)) : IsPrefix(place, Walk(word, place))
<1> DEFINE word == Fields(text)[i]
<1>1. word \in Seq(Char) \ {<<>>}
  <2>1. Fields(text) \in Seq(Seq(Char) \ {<<>>})
    BY WordsOfCommand
  <2> DEFINE f == Fields(text)
             E == Seq(Char) \ {<<>>}
  <2> HIDE DEF f, E
  <2>2. f \in Seq(E) /\ i \in 2..Len(f)
    BY <2>1 DEF f, E
  <2>3. f[i] \in E
    BY <2>2
  <2> QED BY <2>3 DEF f, E
<1>2. ~IsPrefix(<<"-">>, word) /\ looksLikePath(word) => validateWorkspaceOperand(word)
  BY DEF validateSimpleShellCommand
<1> HIDE DEF word
<1>3. ASSUME NEW c PROVE IsPrefix(<<c>>, word) <=> word[1] = c
  <2> DEFINE b == <<c>>
             a == SubSeq(word, 1, 1)
             S == Char \cup {c}
  <2>1. b \in Seq(S) /\ Len(b) = 1 /\ b[1] = c
    OBVIOUS
  <2>2. Len(word) \in Nat /\ Len(word) >= 1 /\ word \in Seq(S)
    <3>1. word \in Seq(Char) /\ word # <<>>
      BY <1>1
    <3>2. word \in Seq(S)
      <4>1. Char \subseteq S
        OBVIOUS
      <4> HIDE DEF S
      <4> QED BY <3>1, <4>1, SeqMonotonic
    <3> QED BY <3>1, <3>2
  <2> HIDE DEF S, b
  <2>3. a \in Seq(S) /\ Len(a) = 1 /\ a[1] = word[1]
    BY <2>2
  <2>4. SubSeq(b, 1, 1) = b
    BY <2>1, SubSeqFull
  <2>5. IsPrefix(b, word) <=> b = a
    BY <2>1, <2>2, <2>4 DEF IsPrefix
  <2> HIDE DEF a
  <2>6. b = a <=> b[1] = a[1]
    <3>1. ASSUME b[1] = a[1] PROVE \A j \in 1..Len(b) : b[j] = a[j]
      BY <2>1, <3>1
    <3> QED BY <2>1, <2>3, <3>1, SeqEqual
  <2> QED BY <2>1, <2>3, <2>5, <2>6 DEF b
<1>4. word[1] # "-"
  BY DEF word
<1>5. CASE looksLikePath(word)
  <2>1. validateWorkspaceOperand(word)
    BY <1>2, <1>3, <1>4, <1>5
  <2>2. word[1] # "~"
    BY <1>3, <2>1 DEF validateWorkspaceOperand
  <2> QED BY <1>1, <2>1, <2>2, OperandsStay DEF word
<1>6. CASE ~looksLikePath(word)
  <2>1. word[1] # "~"
    BY <1>3, <1>6 DEF looksLikePath
  <2>2. ASSUME NEW place \in Seq(Seq(Char))
        PROVE  ~Rooted(word) /\ IsPrefix(place, Walk(word, place))
    BY <1>1, <1>6, NamesStay
  <2>3. <<>> \in Seq(Seq(Char))
    OBVIOUS
  <2>4. ~Rooted(word)
    BY <2>2, <2>3, Zenon
  <2> QED BY <2>1, <2>2, <2>4 DEF word
<1> QED BY <1>5, <1>6

(* Nothing the sandbox lets through leads out of the workspace             *)
(* (sandbox.go:188-247, 570-585 and 717-738).                              *)
THEOREM NothingLeavesWorkspace == RulesSpec => []StaysInWorkspace
<1>1. /\ {"/", "."} \subseteq Characters
      /\ \A root \in Roots : root \in Seq(Characters) /\ Rooted(root) /\ ~Occurs("nul", root)
      /\ \A text \in Operands \cup Commands : text \in Seq(Characters)
      /\ \A place \in Places : place \in Seq(Seq(Characters))
  BY TextsAssumption
<1>2. ASSUME RulesInv, answer.of = "path"
      PROVE  LET root == question.root
                 place == Walk(question.text, NamesOf(root))
             IN /\ answer.resolved # <<>> <=>
                     IsPrefix(NamesOf(root), place) /\ ~Occurs("nul", question.text)
                /\ answer.resolved # <<>> =>
                     /\ Rooted(answer.resolved[1]) /\ NamesOf(answer.resolved[1]) = place
                     /\ resolveWorkspacePath(root, answer.resolved[1]) = answer.resolved
  <2>1. /\ question.root \in Roots /\ question.text \in Operands
        /\ answer.resolved = resolveWorkspacePath(question.root, question.text)
    BY <1>2 DEF RulesInv
  <2> QED BY <1>1, <2>1, PathsStayInWorkspace, ResolvedAgainIsSame
<1>3. ASSUME RulesInv, answer.of = "operand"
      PROVE  /\ answer.allowed <=>
                  /\ ~Blank(question.text) /\ ~Occurs("nul", question.text)
                  /\ ~Rooted(question.text) /\ Stays(question.text)
             /\ answer.allowed => Keeps(question.text)
  <2>1. question.text \in Operands /\ (answer.allowed <=> validateGitOperand(question.text))
    BY <1>3 DEF RulesInv
  <2> QED BY <1>1, <2>1, OperandsStay DEF Keeps
<1>4. ASSUME RulesInv, answer.of = "command", answer.allowed,
             NEW i \in 2..Len(Fields(question.text)), Fields(question.text)[i][1] # "-"
      PROVE  LET word == Fields(question.text)[i] IN
             ~Rooted(word) /\ word[1] # "~" /\ Keeps(word)
  <2>1. question.text \in Commands /\ validateSimpleShellCommand(question.text)
    BY <1>4 DEF RulesInv
  <2> QED BY <1>1, <1>4, <2>1, CommandsStay DEF Keeps
<1>5. ASSUME RulesInv PROVE StaysInWorkspace
  BY <1>2, <1>3, <1>4, <1>5 DEF StaysInWorkspace
<1> QED BY RulesInvariant, <1>5, PTL

(***************************************************************************)
(* Patterns of domains.                                                    *)
(***************************************************************************)

(* A sequence is its front and its last element.                           *)
LEMMA FrontAndLast ==
  ASSUME NEW S, NEW s \in Seq(S), s # <<>>
  PROVE  /\ Front(s) \in Seq(S) /\ Last(s) \in S /\ s = Append(Front(s), Last(s))
         /\ Len(Front(s)) + 1 = Len(s)
<1>1. Len(s) \in Nat /\ Len(s) >= 1
  OBVIOUS
<1> DEFINE m == Len(s) - 1
           f == SubSeq(s, 1, m)
<1>2. Front(s) = f /\ Last(s) = s[Len(s)]
  BY DEF Front, Last
<1>3. f \in Seq(S) /\ Len(f) = m /\ \A i \in 1..m : f[i] = s[i]
  <2>1. m \in Nat /\ \A i \in 1..m : s[i] \in S
    BY <1>1
  <2> HIDE DEF m
  <2> QED BY <2>1, SubSeqProperties
<1>4. s[Len(s)] \in S
  BY <1>1
<1> DEFINE t == Append(f, s[Len(s)])
<1>5. t = s
  <2> HIDE DEF f
  <2>1. t \in Seq(S) /\ Len(t) = Len(s)
    BY <1>1, <1>3, <1>4
  <2>2. \A i \in 1..Len(s) : t[i] = s[i]
    BY <1>1, <1>3, <1>4
  <2> HIDE DEF t
  <2> QED BY <2>1, <2>2, SeqEqual
<1> QED BY <1>1, <1>2, <1>3, <1>4, <1>5

(* What was appended can be told from what it was appended to.             *)
LEMMA AppendedIs ==
  ASSUME NEW S, NEW s \in Seq(S), NEW t \in Seq(S), NEW a, NEW b, Append(s, a) = Append(t, b)
  PROVE  s = t /\ a = b
<1>1. Len(Append(s, a)) = Len(s) + 1 /\ Len(Append(t, b)) = Len(t) + 1
  OBVIOUS
<1>2. Len(s) = Len(t) /\ Len(s) \in Nat
  BY <1>1
<1>3. Append(s, a)[Len(s) + 1] = a /\ Append(t, b)[Len(t) + 1] = b
  OBVIOUS
<1>4. \A i \in 1..Len(s) : Append(s, a)[i] = s[i] /\ Append(t, b)[i] = t[i]
  BY <1>2
<1> QED BY <1>2, <1>3, <1>4, SeqEqual

(* Two texts with the same pieces are the same.                            *)
LEMMA SplitTellsApart ==
  ASSUME NEW Char, NEW sep \in Char, NEW s \in Seq(Char), NEW t \in Seq(Char),
         Split(s, sep) = Split(t, sep)
  PROVE  s = t
<1> DEFINE L == Pieces(Char, sep)
           C(x) == Split(x, sep)
           Add(u, a) == Append(u, a)
           none == <<>>
           T == {x \in Seq(Char) : \A y \in Seq(Char) : C(x) = C(y) => x = y}
<1>1. /\ C(none) = Add(none, none)
      /\ \A x \in Seq(Char), c \in Char :
           C(x) \in Seq(L) /\ C(x) # <<>> /\ C(Add(x, c)) = AddCharacter(C(x), c, sep)
  <2>1. \A x \in Seq(Char) : C(x) \in Seq(L) /\ C(x) # <<>>
    BY SplitFold DEF Cuts
  <2>2. \A x \in Seq(Char), c \in Char : C(Append(x, c)) = AddCharacter(C(x), c, sep)
    BY SplitFold
  <2>3. C(<<>>) = <<<<>>>>
    BY SplitFold
  <2> HIDE DEF L, C
  <2> QED BY <2>1, <2>2, <2>3
<1>2. \A S, u, v, a, b : u \in Seq(S) /\ v \in Seq(S) /\ Add(u, a) = Add(v, b) => u = v /\ a = b
  <2> HIDE DEF L, C, Add
  <2> SUFFICES ASSUME NEW S, NEW u \in Seq(S), NEW v \in Seq(S), NEW a, NEW b, Add(u, a) = Add(v, b)
               PROVE  u = v /\ a = b
    OBVIOUS
  <2> QED BY AppendedIs, SMTT(40) DEF Add
<1>3. none \in L /\ none \in Seq(L) /\ none \in Seq(Char) /\ \A n \in L : n \in Seq(Char)
  <2>1. Char \ {sep} \subseteq Char
    OBVIOUS
  <2>2. L \subseteq Seq(Char) /\ <<>> \in L
    BY <2>1, SeqMonotonic DEF Pieces
  <2> HIDE DEF L
  <2> QED BY <2>2
<1>4. \A n \in Seq(Char) : \A c : Add(n, c) # none
  OBVIOUS
<1> HIDE DEF L, C
<1>5. \A x \in Seq(Char), c \in Char :
        /\ C(x) \in Seq(L)
        /\ c = sep => C(Add(x, c)) = Add(C(x), none)
        /\ c # sep => C(Add(x, c)) = Add(Front(C(x)), Add(Last(C(x)), c))
        /\ Front(C(x)) \in Seq(L) /\ C(x) = Add(Front(C(x)), Last(C(x)))
        /\ Last(C(x)) \in Seq(Char)
  <2> SUFFICES ASSUME NEW x \in Seq(Char), NEW c \in Char
               PROVE  /\ C(x) \in Seq(L)
                      /\ c = sep => C(Add(x, c)) = Add(C(x), none)
                      /\ c # sep => C(Add(x, c)) = Add(Front(C(x)), Add(Last(C(x)), c))
                      /\ Front(C(x)) \in Seq(L) /\ C(x) = Add(Front(C(x)), Last(C(x)))
                      /\ Last(C(x)) \in Seq(Char)
    OBVIOUS
  <2>1. C(x) \in Seq(L) /\ C(x) # <<>> /\ C(Add(x, c)) = AddCharacter(C(x), c, sep)
    BY <1>1
  <2>2. Front(C(x)) \in Seq(L) /\ Last(C(x)) \in L /\ C(x) = Append(Front(C(x)), Last(C(x)))
    BY <2>1, FrontAndLast
  <2> QED BY <1>3, <2>1, <2>2 DEF AddCharacter
<1>6. \A y \in Seq(Char) : y = none \/ \E z \in Seq(Char), d \in Char : y = Add(z, d)
  BY FrontAndLast
<1>7. \A x \in Seq(Char), c \in Char : Add(x, c) \in Seq(Char)
  OBVIOUS
<1> HIDE DEF Add, none
<1>8. ASSUME NEW x \in Seq(Char), NEW c \in Char PROVE C(Add(x, c)) # C(none)
  <2>1. CASE c = sep
    <3>1. C(Add(x, c)) = Add(C(x), none) /\ C(x) \in Seq(L)
      BY <1>5, <2>1
    <3>2. C(x) # none
      BY <1>1 DEF none
    <3> QED BY <1>1, <1>2, <1>3, <3>1, <3>2
  <2>2. CASE c # sep
    <3>1. C(Add(x, c)) = Add(Front(C(x)), Add(Last(C(x)), c)) /\ Front(C(x)) \in Seq(L)
      BY <1>5, <2>2
    <3>2. Add(Last(C(x)), c) # none
      BY <1>4, <1>5
    <3> QED BY <1>1, <1>2, <1>3, <3>1, <3>2
  <2> QED BY <2>1, <2>2
<1>9. none \in T
  <2>1. ASSUME NEW y \in Seq(Char), C(none) = C(y) PROVE none = y
    BY <1>6, <1>8, <2>1
  <2> QED BY <1>3, <2>1
<1>10. ASSUME NEW x \in Seq(Char), NEW c \in Char, x \in T PROVE Add(x, c) \in T
  <2>1. ASSUME NEW y \in Seq(Char), C(Add(x, c)) = C(y) PROVE Add(x, c) = y
    <3>1. PICK z \in Seq(Char), d \in Char : y = Add(z, d)
      BY <1>6, <1>8, <2>1
    <3> DEFINE u == Front(C(x))
               v == Front(C(z))
               a == Last(C(x))
               b == Last(C(z))
    <3>2. C(Add(x, c)) = C(Add(z, d))
      BY <2>1, <3>1
    <3>3. /\ C(x) \in Seq(L) /\ u \in Seq(L) /\ C(x) = Add(u, a) /\ a \in Seq(Char)
          /\ c = sep => C(Add(x, c)) = Add(C(x), none)
          /\ c # sep => C(Add(x, c)) = Add(u, Add(a, c))
      BY <1>5
    <3>4. /\ C(z) \in Seq(L) /\ v \in Seq(L) /\ C(z) = Add(v, b) /\ b \in Seq(Char)
          /\ d = sep => C(Add(z, d)) = Add(C(z), none)
          /\ d # sep => C(Add(z, d)) = Add(v, Add(b, d))
      BY <1>5
    <3> HIDE DEF u, v, a, b
    <3>5. CASE c = sep /\ d = sep
      <4>1. Add(C(x), none) = Add(C(z), none)
        BY <3>2, <3>3, <3>4, <3>5
      <4>2. C(x) = C(z)
        BY <1>2, <3>3, <3>4, <4>1
      <4> QED BY <1>10, <3>1, <3>5, <4>2
    <3>6. CASE c # sep /\ d # sep
      <4>1. u = v /\ Add(a, c) = Add(b, d)
        <5>1. Add(u, Add(a, c)) = Add(v, Add(b, d))
          BY <3>2, <3>3, <3>4, <3>6
        <5> QED BY <1>2, <3>3, <3>4, <5>1
      <4>2. a = b /\ c = d
        BY <1>2, <3>3, <3>4, <4>1
      <4>3. C(x) = C(z)
        BY <3>3, <3>4, <4>1, <4>2
      <4> QED BY <1>10, <3>1, <4>2, <4>3
    <3>7. CASE c = sep /\ d # sep
      <4>1. Add(b, d) # none
        BY <1>4, <3>4
      <4>2. Add(C(x), none) = Add(v, Add(b, d))
        BY <3>2, <3>3, <3>4, <3>7
      <4> QED BY <1>2, <3>3, <3>4, <4>1, <4>2
    <3>8. CASE c # sep /\ d = sep
      <4>1. Add(a, c) # none
        BY <1>4, <3>3
      <4>2. Add(u, Add(a, c)) = Add(C(z), none)
        BY <3>2, <3>3, <3>4, <3>8
      <4> QED BY <1>2, <3>3, <3>4, <4>1, <4>2
    <3> QED BY <3>5, <3>6, <3>7, <3>8
  <2> QED BY <1>7, <2>1
<1> HIDE DEF T
<1>11. \A x \in Seq(Char) : x \in T
  BY <1>9, <1>10, ByAppending DEF Add, none
<1> QED BY <1>11 DEF T, C

(* A text with a separator is cut at the first one.                        *)
CutAtFirst(Char, sep, s) ==
  \/ ~Occurs(sep, s) /\ s \in Pieces(Char, sep) /\ Split(s, sep) = <<s>>
  \/ \E a \in Pieces(Char, sep), b \in Seq(Char) :
       /\ s = (a \o <<sep>>) \o b
       /\ Split(s, sep) = <<a>> \o Split(b, sep)

LEMMA FirstCut ==
  ASSUME NEW Char, NEW sep \in Char, NEW s \in Seq(Char)
  PROVE  CutAtFirst(Char, sep, s)
<1> DEFINE L == Pieces(Char, sep)
           HasCut(x) == \E a \in L, b \in Seq(Char) : x = (a \o <<sep>>) \o b
           T == {x \in Seq(Char) : x \in L \/ HasCut(x)}
<1>1. <<>> \in L /\ \A n \in L, c \in Char : n \in Seq(Char) /\ (c # sep => Append(n, c) \in L)
  <2>1. Char \ {sep} \subseteq Char
    OBVIOUS
  <2>2. L \subseteq Seq(Char)
    BY <2>1, SeqMonotonic DEF Pieces
  <2>3. <<>> \in L /\ \A n \in L, c \in Char \ {sep} : Append(n, c) \in L
    BY DEF Pieces
  <2> HIDE DEF L
  <2> QED BY <2>2, <2>3
<1> HIDE DEF L
<1>2. <<>> \in T
  BY <1>1
<1>3. ASSUME NEW x \in Seq(Char), NEW c \in Char, x \in T PROVE Append(x, c) \in T
  <2>1. Append(x, c) \in Seq(Char)
    OBVIOUS
  <2>2. CASE x \in L /\ c # sep
    BY <1>1, <2>1, <2>2
  <2>3. CASE x \in L /\ c = sep
    <3>1. Append(x, c) = (x \o <<sep>>) \o <<>> /\ <<>> \in Seq(Char)
      BY <2>3
    <3> QED BY <2>1, <2>3, <3>1
  <2>4. CASE HasCut(x)
    <3>1. PICK a \in L, b \in Seq(Char) : x = (a \o <<sep>>) \o b
      BY <2>4
    <3> DEFINE u == a \o <<sep>>
    <3>2. u \in Seq(Char) /\ x = u \o b
      BY <1>1, <3>1
    <3> HIDE DEF u
    <3>3. Append(x, c) = u \o Append(b, c) /\ Append(b, c) \in Seq(Char)
      BY <3>2, AppendAfter
    <3> QED BY <2>1, <3>3 DEF u
  <2> QED BY <1>3, <2>2, <2>3, <2>4
<1> HIDE DEF T
<1>4. s \in T
  BY <1>2, <1>3, ByAppending
<1>5. CASE s \in L
  <2>1. ~Occurs(sep, s)
    BY <1>5 DEF L, Pieces, Occurs
  <2> QED BY <1>5, <2>1, OnePiece DEF L, CutAtFirst
<1>6. CASE HasCut(s)
  <2>1. PICK a \in L, b \in Seq(Char) : s = (a \o <<sep>>) \o b
    BY <1>6
  <2>2. a \in Seq(Char) /\ Split(a, sep) = <<a>>
    BY <1>1, OnePiece DEF L
  <2>3. Split((a \o <<sep>>) \o b, sep) = Split(a, sep) \o Split(b, sep)
    BY <2>2, SplitConcat
  <2>4. Split(s, sep) = <<a>> \o Split(b, sep)
    BY <2>1, <2>2, <2>3
  <2> QED BY <2>1, <2>4 DEF L, CutAtFirst
<1> QED BY <1>4, <1>5, <1>6 DEF T

(* A suffix is what a sequence ends with.                                  *)
LEMMA SuffixSplits ==
  ASSUME NEW S, NEW s \in Seq(S), NEW t \in Seq(S)
  PROVE  /\ IsSuffix(s, t) => \E h \in Seq(S) : t = h \o s
         /\ \A h \in Seq(S) : t = h \o s =>
              IsSuffix(s, t) /\ SubSeq(t, 1, Len(t) - Len(s)) = h
<1> DEFINE m == Len(s)
           n == Len(t)
           rs == Reverse(s)
           rt == Reverse(t)
<1>1. /\ m \in Nat /\ n \in Nat /\ \A i \in 1..m : s[i] \in S
      /\ \A i \in 1..n : t[i] \in S
  OBVIOUS
<1>2. /\ rs \in Seq(S) /\ Len(rs) = m /\ \A i \in 1..m : rs[i] = s[(m - i) + 1]
      /\ rt \in Seq(S) /\ Len(rt) = n /\ \A i \in 1..n : rt[i] = t[(n - i) + 1]
  <2>1. rs \in Seq(S) /\ Len(rs) = m /\ \A i \in 1..m : rs[i] = s[(m - i) + 1]
    BY <1>1 DEF Reverse
  <2>2. rt \in Seq(S) /\ Len(rt) = n /\ \A i \in 1..n : rt[i] = t[(n - i) + 1]
    BY <1>1 DEF Reverse
  <2> QED BY <2>1, <2>2
<1> HIDE DEF rs, rt
<1>3. IsSuffix(s, t) <=> m <= n /\ \A i \in 1..m : rs[i] = rt[i]
  <2>1. IsSuffix(s, t) <=> m <= n /\ SubSeq(rs, 1, m) = SubSeq(rt, 1, m)
    BY <1>2 DEF IsSuffix, IsPrefix, rs, rt
  <2>2. ASSUME m <= n
        PROVE  SubSeq(rs, 1, m) = SubSeq(rt, 1, m) <=> \A i \in 1..m : rs[i] = rt[i]
    <3> DEFINE x == SubSeq(rs, 1, m)
               y == SubSeq(rt, 1, m)
    <3>1. /\ x \in Seq(S) /\ Len(x) = m /\ \A i \in 1..m : x[i] = rs[i]
          /\ y \in Seq(S) /\ Len(y) = m /\ \A i \in 1..m : y[i] = rt[i]
      BY <1>1, <1>2, <2>2
    <3> HIDE DEF x, y
    <3>2. x = y <=> \A i \in 1..m : x[i] = y[i]
      BY <3>1, SeqEqual
    <3> QED BY <3>1, <3>2 DEF x, y
  <2> QED BY <2>1, <2>2
<1>4. ASSUME IsSuffix(s, t) PROVE \E h \in Seq(S) : t = h \o s
  <2> DEFINE h == SubSeq(t, 1, n - m)
  <2>1. m <= n /\ \A i \in 1..m : rs[i] = rt[i]
    BY <1>3, <1>4
  <2>2. h \in Seq(S) /\ Len(h) = n - m /\ \A i \in 1..(n - m) : h[i] = t[i]
    BY <1>1, <2>1
  <2>3. \A j \in 1..m : s[j] = t[(n - m) + j]
    <3> SUFFICES ASSUME NEW j \in 1..m PROVE s[j] = t[(n - m) + j]
      OBVIOUS
    <3> DEFINE i == (m - j) + 1
    <3>1. i \in 1..m /\ i \in 1..n
      BY <1>1, <2>1
    <3>2. (m - i) + 1 = j /\ (n - i) + 1 = (n - m) + j
      BY <1>1
    <3> HIDE DEF i
    <3>3. s[(m - i) + 1] = t[(n - i) + 1]
      BY <1>2, <2>1, <3>1
    <3> QED BY <3>2, <3>3
  <2> HIDE DEF h
  <2> DEFINE u == h \o s
  <2>4. u \in Seq(S) /\ Len(u) = n /\ \A i \in 1..n : u[i] = IF i <= n - m THEN h[i] ELSE s[i - (n - m)]
    BY <1>1, <2>1, <2>2, ConcatProperties
  <2>5. \A i \in 1..n : u[i] = t[i]
    <3> SUFFICES ASSUME NEW i \in 1..n PROVE u[i] = t[i]
      OBVIOUS
    <3>1. CASE i <= n - m
      <4>1. i \in 1..(n - m)
        BY <1>1, <2>1, <3>1
      <4> QED BY <2>2, <2>4, <3>1, <4>1
    <3>2. CASE ~(i <= n - m)
      <4>1. i - (n - m) \in 1..m /\ (n - m) + (i - (n - m)) = i
        BY <1>1, <2>1, <3>2
      <4>2. s[i - (n - m)] = t[(n - m) + (i - (n - m))]
        BY <2>3, <4>1
      <4> QED BY <2>4, <3>2, <4>1, <4>2
    <3> QED BY <3>1, <3>2
  <2>6. u = t
    <3> HIDE DEF u
    <3> QED BY <2>4, <2>5, SeqEqual
  <2> QED BY <2>2, <2>6
<1>5. ASSUME NEW h \in Seq(S), t = h \o s
      PROVE  IsSuffix(s, t) /\ SubSeq(t, 1, n - m) = h
  <2> DEFINE k == Len(h)
             x == SubSeq(t, 1, k)
  <2>1. k \in Nat /\ n = k + m /\ \A i \in 1..n : t[i] = IF i <= k THEN h[i] ELSE s[i - k]
    BY <1>1, <1>5, ConcatProperties
  <2>2. \A i \in 1..m : rs[i] = rt[i]
    <3> SUFFICES ASSUME NEW i \in 1..m PROVE rs[i] = rt[i]
      OBVIOUS
    <3>1. i \in 1..n /\ (n - i) + 1 \in 1..n /\ ~((n - i) + 1 <= k) /\ ((n - i) + 1) - k = (m - i) + 1
      BY <1>1, <2>1
    <3>2. t[(n - i) + 1] = s[((n - i) + 1) - k]
      BY <2>1, <3>1
    <3> QED BY <1>2, <3>1, <3>2
  <2>3. IsSuffix(s, t)
    BY <1>1, <1>3, <2>1, <2>2
  <2>4. n - m = k
    BY <1>1, <2>1
  <2>5. x \in Seq(S) /\ Len(x) = k /\ \A i \in 1..k : x[i] = h[i]
    <3>1. k <= n /\ \A i \in 1..k : i \in 1..n /\ t[i] = h[i]
      BY <1>1, <2>1
    <3>2. x \in Seq(S) /\ Len(x) = k /\ \A i \in 1..k : x[i] = t[i]
      BY <1>1, <2>1, <3>1
    <3> QED BY <3>1, <3>2
  <2>6. x = h
    <3> HIDE DEF x
    <3> QED BY <2>1, <2>5, SeqEqual
  <2> QED BY <2>3, <2>4, <2>6
<1> QED BY <1>4, <1>5

(* What follows the first element.                                         *)
LEMMA TailAfterOne ==
  ASSUME NEW S, NEW a \in S, NEW rest \in Seq(S)
  PROVE  /\ (<<a>> \o rest)[1] = a /\ Tail(<<a>> \o rest) = rest
         /\ rest # <<>> => Len(<<a>> \o rest) > 1
<1> DEFINE d == <<a>> \o rest
           x == Tail(d)
<1>1. Len(rest) \in Nat /\ (rest # <<>> => Len(rest) >= 1)
  OBVIOUS
<1>2. d \in Seq(S) /\ Len(d) = Len(rest) + 1 /\ d[1] = a /\ \A i \in 1..Len(rest) : d[i + 1] = rest[i]
  BY <1>1
<1>3. x \in Seq(S) /\ Len(x) = Len(rest) /\ \A i \in 1..Len(rest) : x[i] = d[i + 1]
  <2> HIDE DEF d
  <2> QED BY <1>1, <1>2
<1>4. x = rest
  <2> HIDE DEF x, d
  <2> QED BY <1>2, <1>3, SeqEqual
<1> QED BY <1>1, <1>2, <1>4

(* A domain pattern is told by its labels: *.d matches the domains with    *)
(* one label in front of d, another pattern the same domain (matchDomain,  *)
(* engine.go:911-934).                                                     *)
LEMMA DomainByLabels ==
  ASSUME NEW Char, {"*", "."} \subseteq Char, NEW pattern, NEW domain,
         ToLower(pattern) \in Seq(Char), ToLower(domain) \in Seq(Char)
  PROVE  LET p == Labels(ToLower(pattern))
             d == Labels(ToLower(domain))
         IN matchDomain(pattern, domain) <=>
              IF Len(p) > 1 /\ p[1] = <<"*">>
              THEN Len(d) > 1 /\ d[1] # <<>> /\ Tail(d) = Tail(p)
              ELSE d = p
<1> DEFINE dot == <<".">>
<1>c. \A a, b \in Seq(Char) : Split((a \o dot) \o b, ".") = Split(a, ".") \o Split(b, ".")
  <2>1. "." \in Char
    OBVIOUS
  <2> QED BY <2>1, SplitConcat
<1>f. \A x \in Seq(Char) :
        \/ x \in Pieces(Char, ".") /\ Split(x, ".") = <<x>>
        \/ \E a \in Pieces(Char, "."), b \in Seq(Char) :
             x = (a \o dot) \o b /\ Split(x, ".") = <<a>> \o Split(b, ".")
  <2>1. "." \in Char
    OBVIOUS
  <2>2. \A x \in Seq(Char) : CutAtFirst(Char, ".", x)
    BY <2>1, FirstCut
  <2> QED BY <2>2 DEF CutAtFirst
<1>g. \A a, b, c \in Seq(Char) : (a \o b) \o c = a \o (b \o c)
  BY Regroup, SMTT(30)
<1> DEFINE P == ToLower(pattern)
           D == ToLower(domain)
           p == Split(P, ".")
           d == Split(D, ".")
           L == Pieces(Char, ".")
           star == <<"*">>
           wild == <<"*", ".">>
           Starred == Len(p) > 1 /\ p[1] = star
<1>1. /\ P \in Seq(Char) /\ D \in Seq(Char) /\ "." \in Char
      /\ star \in Seq(Char) /\ dot \in Seq(Char) /\ star \in L
      /\ wild = star \o dot
  BY DEF Pieces
<1>2. L \subseteq Seq(Char) /\ \A a \in L : ~Occurs(".", a) /\ Split(a, ".") = <<a>>
  <2>1. Char \ {"."} \subseteq Char
    OBVIOUS
  <2>2. L \subseteq Seq(Char)
    BY <2>1, SeqMonotonic DEF Pieces
  <2>3. \A a \in L : ~Occurs(".", a)
    BY DEF Pieces, Occurs
  <2>4. \A a \in L : Split(a, ".") = <<a>>
    BY OnePiece
  <2> QED BY <2>2, <2>3, <2>4
<1>3. \A a \in Seq(Char) : ~Occurs(".", a) => a \in L
  <2> SUFFICES ASSUME NEW a \in Seq(Char), ~Occurs(".", a) PROVE a \in Seq(Char \ {"."})
    BY DEF Pieces
  <2> QED BY DEF Occurs
<1>4. \A x \in Seq(Char) : Split(x, ".") \in Seq(L) /\ Split(x, ".") # <<>>
  BY SplitFold DEF Cuts
<1>5. matchDomain(pattern, domain) <=>
        IF IsPrefix(wild, P)
        THEN LET label == SubSeq(D, 1, Len(D) - Len(Tail(P))) IN
             IsSuffix(Tail(P), D) /\ label # <<>> /\ ~Occurs(".", label)
        ELSE P = D
  BY DEF matchDomain
<1>6. \A x, y \in Seq(Char) : Split(x, ".") = Split(y, ".") => x = y
  BY <1>1, SplitTellsApart
<1>7. \A x \in Seq(Char) :
        \/ x \in L /\ Split(x, ".") = <<x>>
        \/ \E a \in L, b \in Seq(Char) :
             x = (a \o dot) \o b /\ Split(x, ".") = <<a>> \o Split(b, ".")
  BY <1>f
<1>8. \A a \in L, b \in Seq(Char) :
        LET x == (a \o dot) \o b
            parts == Split(x, ".")
        IN Len(parts) > 1 /\ parts[1] = a /\ Tail(parts) = Split(b, ".")
  <2> SUFFICES ASSUME NEW a \in L, NEW b \in Seq(Char)
               PROVE  LET x == (a \o dot) \o b
                          parts == Split(x, ".")
                      IN Len(parts) > 1 /\ parts[1] = a /\ Tail(parts) = Split(b, ".")
    OBVIOUS
  <2>1. a \in Seq(Char) /\ Split(a, ".") = <<a>>
    BY <1>2
  <2>2. Split((a \o dot) \o b, ".") = <<a>> \o Split(b, ".")
    BY <1>c, <2>1
  <2>3. Split(b, ".") \in Seq(L) /\ Split(b, ".") # <<>>
    BY <1>4
  <2> QED BY <2>2, <2>3, TailAfterOne, SMTT(40)
<1> HIDE DEF P, D, p, d, L, star, dot, wild
<1>9. CASE IsPrefix(wild, P)
  <2>1. PICK r \in Seq(Char) : P = wild \o r
    <3>1. wild \in Seq(Char)
      BY DEF wild
    <3> DEFINE u == SubSeq(P, Len(wild) + 1, Len(P))
    <3>2. u \in Seq(Char) /\ P = wild \o u
      BY <1>1, <1>9, <3>1, PrefixSplits, ZenonT(60)
    <3> HIDE DEF u
    <3> QED BY <3>2
  <2> DEFINE q == dot \o r
  <2>2. P = star \o q /\ P = (star \o dot) \o r /\ q \in Seq(Char)
    BY <1>1, <2>1 DEF star, dot
  <2>3. Tail(P) = q
    <3> HIDE DEF q
    <3>1. Tail(star \o q) = q
      BY <2>2, TailAfterOne DEF star
    <3> QED BY <2>2, <3>1
  <2>4. Starred /\ Tail(p) = Split(r, ".")
    BY <1>1, <1>8, <2>2 DEF p
  <2> DEFINE label == SubSeq(D, 1, Len(D) - Len(q))
  <2>5. matchDomain(pattern, domain) <=> IsSuffix(q, D) /\ label # <<>> /\ ~Occurs(".", label)
    BY <1>5, <1>9, <2>3
  <2>6. \A h \in Seq(Char) : h \o q = (h \o dot) \o r
    <3> SUFFICES ASSUME NEW h \in Seq(Char) PROVE h \o q = (h \o dot) \o r
      OBVIOUS
    <3>1. (h \o dot) \o r = h \o (dot \o r)
      <4>1. h \in Seq(Char) /\ dot \in Seq(Char) /\ r \in Seq(Char)
        BY <1>1, <2>1
      <4> HIDE DEF q, label
      <4> QED BY <1>g, <4>1, ZenonT(40)
    <3> QED BY <3>1
  <2>7. ASSUME NEW h \in Seq(Char), D = h \o q PROVE IsSuffix(q, D) /\ label = h
    <3> HIDE DEF q
    <3> QED BY <1>1, <2>2, <2>7, SuffixSplits, ZenonT(60)
  <2>8. IsSuffix(q, D) => \E h \in Seq(Char) : D = h \o q
    <3> HIDE DEF q, label
    <3> QED BY <1>1, <2>2, SuffixSplits, ZenonT(60)
  <2> HIDE DEF q, label
  <2>9. ASSUME matchDomain(pattern, domain)
        PROVE  Len(d) > 1 /\ d[1] # <<>> /\ Tail(d) = Tail(p)
    <3>1. PICK h \in Seq(Char) : D = h \o q
      BY <2>5, <2>8, <2>9
    <3>2. h # <<>> /\ h \in L /\ D = (h \o dot) \o r
      BY <1>3, <2>5, <2>6, <2>7, <2>9, <3>1
    <3> QED BY <1>8, <2>1, <2>4, <3>2 DEF d
  <2>10. ASSUME Len(d) > 1 /\ d[1] # <<>> /\ Tail(d) = Tail(p)
         PROVE  matchDomain(pattern, domain)
    <3>1. D \notin L
      <4>1. ASSUME D \in L PROVE FALSE
        <5>1. d = <<D>>
          BY <1>2, <4>1 DEF d
        <5> QED BY <2>10, <5>1
      <4> QED BY <4>1
    <3>2. PICK a \in L, b \in Seq(Char) : D = (a \o dot) \o b
      BY <1>1, <1>7, <3>1, ZenonT(30)
    <3>3. a = d[1] /\ Split(b, ".") = Tail(d)
      BY <1>8, <3>2 DEF d
    <3>4. b = r
      BY <1>6, <2>1, <2>4, <2>10, <3>3
    <3>5. D = a \o q /\ a \in Seq(Char)
      BY <1>2, <2>6, <3>2, <3>4
    <3> QED BY <1>2, <2>5, <2>7, <2>10, <3>3, <3>5
  <2> QED BY <2>4, <2>9, <2>10 DEF Labels, P, D, p, d, star
<1>10. CASE ~IsPrefix(wild, P)
  <2>1. matchDomain(pattern, domain) <=> P = D
    BY <1>5, <1>10
  <2>2. ASSUME Starred PROVE FALSE
    <3>1. P \notin L
      <4>1. ASSUME P \in L PROVE FALSE
        <5>1. p = <<P>>
          BY <1>2, <4>1 DEF p
        <5> QED BY <2>2, <5>1
      <4> QED BY <4>1
    <3>2. PICK a \in L, b \in Seq(Char) : P = (a \o dot) \o b
      BY <1>1, <1>7, <3>1, ZenonT(30)
    <3>3. a = star
      BY <1>8, <2>2, <3>2 DEF p
    <3>4. P = wild \o b
      BY <1>1, <3>2, <3>3
    <3>5. wild \in Seq(Char)
      BY <1>1
    <3>6. IsPrefix(wild, wild \o b)
      BY <3>5, PrefixSplits
    <3> QED BY <1>10, <3>4, <3>6
  <2>3. P = D <=> d = p
    BY <1>1, <1>6 DEF d, p
  <2> QED BY <2>1, <2>2, <2>3 DEF Labels, P, D, p, d, star
<1> QED BY <1>9, <1>10

(***************************************************************************)
(* The pattern matchers.                                                   *)
(***************************************************************************)

(* A value is cut as Rules says it.                                        *)
LEMMA CutIs ==
  ASSUME NEW p, NEW v, NEW free
  PROVE  IsCut(p, v, free) <=> \E e : Cut(e, p, v, free)
BY DEF IsCut, Cut, CutFrom

(* A pattern without ** matches what can be cut, one with it what begins   *)
(* as it does.                                                             *)
LEMMA GlobsAgree ==
  ASSUME NEW Char, NEW p \in Seq(Char), NEW v \in Seq(Char)
  PROVE  IF DoubleStars(p) = {}
         THEN /\ matchShellGlob(p, v) <=> IsCut(p, v, Char)
              /\ matchGlob(p, v) <=> IsCut(p, v, Char \ {"/"})
              /\ matchGlob(p, v) => matchShellGlob(p, v)
         ELSE {matchShellGlob(p, v), matchGlob(p, v)} = {IsPrefix(Stem(p), v)}
<1>1. CASE DoubleStars(p) = {}
  <2>1. matchShellGlob(p, v) <=> IsCut(p, v, Char)
    BY <1>1, CommandPatternIsCut, CutIs DEF matchShellGlob
  <2>2. matchGlob(p, v) <=> IsCut(p, v, Char \ {"/"})
    BY <1>1, PathPatternIsCut, CutIs DEF matchGlob
  <2>3. matchGlob(p, v) => matchShellGlob(p, v)
    BY PathsWithinCommands
  <2> QED BY <1>1, <2>1, <2>2, <2>3
<1>2. CASE DoubleStars(p) # {}
  BY <1>2 DEF matchShellGlob, matchGlob
<1> QED BY <1>1, <1>2

(* A text in lower case has no characters but its own and a.               *)
LEMMA LowerIsText ==
  ASSUME NEW Char, NEW text \in Seq(Char)
  PROVE  ToLower(text) \in Seq(Char \cup {"a"})
BY DEF ToLower

(* Patterns match what can be cut into pieces their characters stand for,  *)
(* a path pattern no more than the same command pattern, and domain        *)
(* patterns by labels (shellGlobMatch, matchGlob and matchDomain,          *)
(* engine.go:774-849, 911-934).                                            *)
THEOREM MatchersMatch == RulesSpec => []MatchersAgree
<1>1. /\ \A text \in Globs \cup GlobTexts \cup DomainPatterns \cup Domains : text \in Seq(Characters)
      /\ "." \in Characters
  BY TextsAssumption
<1>2. ASSUME RulesInv, answer.of = "globs"
      PROVE  LET pattern == question.pattern
                 value == question.value
             IN IF DoubleStars(pattern) = {}
                THEN /\ answer.command <=> IsCut(pattern, value, Characters)
                     /\ answer.path <=> IsCut(pattern, value, Characters \ {"/"})
                     /\ answer.path => answer.command
                ELSE {answer.command, answer.path} = {IsPrefix(Stem(pattern), value)}
  <2>1. /\ question.pattern \in Globs /\ question.value \in GlobTexts
        /\ answer.command = matchShellGlob(question.pattern, question.value)
        /\ answer.path = matchGlob(question.pattern, question.value)
    BY <1>2 DEF RulesInv
  <2>2. question.pattern \in Seq(Characters) /\ question.value \in Seq(Characters)
    BY <1>1, <2>1
  <2> DEFINE p == question.pattern
             v == question.value
             c == matchShellGlob(p, v)
             m == matchGlob(p, v)
  <2>3. IF DoubleStars(p) = {}
        THEN (c <=> IsCut(p, v, Characters)) /\ (m <=> IsCut(p, v, Characters \ {"/"})) /\ (m => c)
        ELSE {c, m} = {IsPrefix(Stem(p), v)}
    <3> HIDE DEF p, v
    <3> QED BY <2>2, GlobsAgree DEF p, v
  <2>4. answer.command = c /\ answer.path = m
    BY <2>1
  <2> HIDE DEF p, v, c, m
  <2> QED BY <2>3, <2>4 DEF p, v
<1>3. ASSUME RulesInv, answer.of = "domain"
      PROVE  LET p == Labels(ToLower(question.pattern))
                 d == Labels(ToLower(question.value))
             IN answer.domain <=>
                  IF Len(p) > 1 /\ p[1] = <<"*">>
                  THEN Len(d) > 1 /\ d[1] # <<>> /\ Tail(d) = Tail(p)
                  ELSE d = p
  <2> DEFINE Char == Characters \cup {"*"}
             Lower == Char \cup {"a"}
  <2>1. /\ question.pattern \in DomainPatterns /\ question.value \in Domains
        /\ answer.domain <=> matchDomain(question.pattern, question.value)
    BY <1>3 DEF RulesInv
  <2>2. question.pattern \in Seq(Char) /\ question.value \in Seq(Char)
    <3>1. Characters \subseteq Char
      OBVIOUS
    <3> QED BY <1>1, <2>1, <3>1, SeqMonotonic
  <2>3. ToLower(question.pattern) \in Seq(Lower) /\ ToLower(question.value) \in Seq(Lower)
    BY <2>2, LowerIsText
  <2>4. {"*", "."} \subseteq Lower
    BY <1>1
  <2> QED BY <2>1, <2>3, <2>4, DomainByLabels
<1>4. ASSUME RulesInv PROVE MatchersAgree
  BY <1>2, <1>3, <1>4 DEF MatchersAgree
<1> QED BY RulesInvariant, <1>4, PTL

(***************************************************************************)
(* Equal values.                                                           *)
(***************************************************************************)

(* Numbers held as an int are whole.                                       *)
IntIsWhole(value) ==
  Is(value, "number") /\ value.held = "int" => value.tenths % 10 = 0

(* Equal values that are not the same are numbers.                         *)
LEMMA EqualNumbers ==
  ASSUME NEW v, NEW w, scalarEqual(v, w), v # w
  PROVE  /\ v.kind = "number" /\ w.kind = "number" /\ v.tenths = w.tenths
         /\ \A x : scalarEqual(v, x) <=> scalarEqual(w, x)
         /\ \A x : ~containsValue(v, x) /\ ~containsValue(w, x)
<1>1. v.kind = "number" /\ w.kind = "number" /\ v.tenths = w.tenths
  BY DEF scalarEqual, Is
<1>2. \A x : scalarEqual(v, x) <=> scalarEqual(w, x)
  BY <1>1 DEF scalarEqual, Is
<1>3. \A x : ~containsValue(v, x) /\ ~containsValue(w, x)
  BY <1>1 DEF containsValue, Is
<1> QED BY <1>1, <1>2, <1>3

(* A condition cannot tell equal values apart, however their numbers are   *)
(* held, as int by a policy or as float64 by arguments                     *)
(* (compareConditionValue and scalarEqual, engine.go:231-310, 943-963).    *)
THEOREM EqualValuesCompareAlike ==
  ASSUME NEW v, NEW w, scalarEqual(v, w), NEW leaf
  PROVE  compareConditionValue(<<v>>, leaf) = compareConditionValue(<<w>>, leaf)
<1>1. CASE v = w
  BY <1>1
<1>2. CASE v # w
  <2>1. /\ v.kind = "number" /\ w.kind = "number" /\ v.tenths = w.tenths
        /\ \A x : scalarEqual(v, x) <=> scalarEqual(w, x)
        /\ \A x : ~containsValue(v, x) /\ ~containsValue(w, x)
    BY <1>2, EqualNumbers
  <2>2. Truth(scalarEqual(v, leaf.value)) = Truth(scalarEqual(w, leaf.value))
    BY <2>1 DEF Truth
  <2>3. Truth(~scalarEqual(v, leaf.value)) = Truth(~scalarEqual(w, leaf.value))
    BY <2>1 DEF Truth
  <2>4. IsListed(v, leaf) <=> IsListed(w, leaf)
    BY <2>1 DEF IsListed
  <2>5. Truth(IsListed(v, leaf)) = Truth(IsListed(w, leaf))
    BY <2>4 DEF Truth
  <2>6. Truth(~IsListed(v, leaf)) = Truth(~IsListed(w, leaf))
    BY <2>4 DEF Truth
  <2>7. Truth(containsValue(v, leaf.value)) = Truth(containsValue(w, leaf.value))
    BY <2>1 DEF Truth
  <2>8. CompareText(v, leaf.op, leaf.value) = CompareText(w, leaf.op, leaf.value)
    BY <2>1 DEF CompareText, Is
  <2>9. CompareNumber(v, leaf.op, leaf.value) = CompareNumber(w, leaf.op, leaf.value)
    BY <2>1 DEF CompareNumber, Is
  <2>10. compareValue(v, leaf) = compareValue(w, leaf)
    BY <2>2, <2>3, <2>5, <2>6, <2>7, <2>8, <2>9 DEF compareValue
  <2>11. <<v>> # <<>> /\ <<w>> # <<>> /\ <<v>>[1] = v /\ <<w>>[1] = w
    OBVIOUS
  <2> QED BY <2>10, <2>11 DEF compareConditionValue, Absent
<1> QED BY <1>1, <1>2

(* Nor can what a spec asks of the value itself, if what is held as an int *)
(* is whole (validateArgument and isInteger, engine.go:480-640).           *)
THEOREM EqualValuesValidAlike ==
  ASSUME NEW v, NEW w, scalarEqual(v, w), IntIsWhole(v), IntIsWhole(w), NEW spec
  PROVE  ValidHere(v, spec) <=> ValidHere(w, spec)
<1>1. CASE v = w
  BY <1>1
<1>2. CASE v # w
  <2>1. /\ v.kind = "number" /\ w.kind = "number" /\ v.tenths = w.tenths
        /\ \A x : scalarEqual(v, x) <=> scalarEqual(w, x)
    BY <1>2, EqualNumbers
  <2>2. isInteger(v) <=> isInteger(w)
    BY <2>1 DEF isInteger, IntIsWhole, Is
  <2>3. \A kind : Is(v, kind) <=> Is(w, kind)
    BY <2>1 DEF Is
  <2>4. argumentTypeMatches(v, spec.type) <=> argumentTypeMatches(w, spec.type)
    BY <2>2, <2>3 DEF argumentTypeMatches
  <2>5. valueLength(v) = Absent /\ valueLength(w) = Absent
    BY <2>1 DEF valueLength, Is
  <2>6. /\ ~Is(v, "string") /\ ~Is(w, "string") /\ ~Is(v, "array") /\ ~Is(w, "array")
        /\ ~Is(v, "object") /\ ~Is(w, "object")
    BY <2>1 DEF Is
  <2>7. \A min, max : Within(v.tenths, min, max) <=> Within(w.tenths, min, max)
    BY <2>1
  <2> QED BY <2>1, <2>3, <2>4, <2>5, <2>6, <2>7 DEF ValidHere
<1> QED BY <1>1, <1>2

(***************************************************************************)
(* Conditions and argument specs.                                          *)
(***************************************************************************)

(* Trees of any kind: what is below each of them, which is less deep.      *)
AreTrees(T, depth, below) ==
  /\ depth \in [T -> Nat] /\ below \in [T -> SUBSET T]
  /\ \A t \in T : \A u \in below[t] : depth[u] < depth[t]

(* What holds of a tree if it holds of all below it, holds of all.         *)
LEMMA TreeInduction ==
  ASSUME NEW T, NEW depth, NEW below, AreTrees(T, depth, below),
         NEW S, \A t \in T : below[t] \subseteq S => t \in S
  PROVE  T \subseteq S
<1> DEFINE Gap == {n \in Nat : \E t \in T : t \notin S /\ depth[t] = n}
<1>1. ASSUME Gap # {} PROVE FALSE
  <2>1. PICK m \in Gap : \A k \in Gap : <<k, m>> \notin OpToRel(<, Nat)
    <3>1. Gap \in SUBSET Nat
      OBVIOUS
    <3> HIDE DEF Gap
    <3> QED BY <1>1, <3>1, WFMin, NatLessThanWellFounded, Zenon
  <2>2. PICK t \in T : t \notin S /\ depth[t] = m
    BY <2>1
  <2>3. PICK u \in below[t] : u \notin S
    BY <2>2
  <2>4. u \in T /\ depth[u] \in Nat /\ depth[u] < m /\ m \in Nat
    BY <2>1, <2>2, <2>3 DEF AreTrees
  <2>5. depth[u] \in Gap
    BY <2>3, <2>4
  <2>6. <<depth[u], m>> \in OpToRel(<, Nat)
    BY <2>4 DEF OpToRel
  <2> QED BY <2>1, <2>5, <2>6
<1>2. ASSUME NEW t \in T, t \notin S PROVE FALSE
  <2>1. depth[t] \in Nat
    BY DEF AreTrees
  <2>2. depth[t] \in Gap
    BY <1>2, <2>1
  <2> HIDE DEF Gap
  <2> QED BY <1>1, <2>2
<1> QED BY <1>2

(* A step looks no further than below the tree it is at.                   *)
IsLocal(T, V, below, step) ==
  /\ step \in [T \X [T -> V] -> V]
  /\ \A t \in T : \A f, g \in [T -> V] :
       (\A u \in below[t] : f[u] = g[u]) => step[<<t, f>>] = step[<<t, g>>]

(* Up to a depth, f is what the steps make of it.                          *)
UpTo(n, T, depth, step, f) == \A t \in T : depth[t] < n => f[t] = step[<<t, f>>]

(* Two of them agree up to the smaller of their depths.                    *)
LEMMA UpToAgree ==
  ASSUME NEW T, NEW depth, NEW below, AreTrees(T, depth, below),
         NEW V, NEW step, IsLocal(T, V, below, step),
         NEW f \in [T -> V], NEW g \in [T -> V], NEW m \in Nat, NEW n \in Nat,
         UpTo(m, T, depth, step, f), UpTo(n, T, depth, step, g)
  PROVE  \A t \in T : depth[t] < m /\ depth[t] < n => f[t] = g[t]
<1> DEFINE S == {t \in T : depth[t] < m /\ depth[t] < n => f[t] = g[t]}
<1>1. ASSUME NEW t \in T, below[t] \subseteq S PROVE t \in S
  <2> SUFFICES ASSUME depth[t] < m, depth[t] < n PROVE f[t] = g[t]
    OBVIOUS
  <2>1. ASSUME NEW u \in below[t] PROVE f[u] = g[u]
    <3>1. u \in T /\ depth[u] \in Nat /\ depth[t] \in Nat /\ depth[u] < depth[t]
      BY DEF AreTrees
    <3>2. depth[u] < m /\ depth[u] < n
      BY <3>1
    <3> QED BY <1>1, <3>2
  <2>2. step[<<t, f>>] = step[<<t, g>>]
    BY <2>1 DEF IsLocal
  <2> QED BY <2>2 DEF UpTo
<1> HIDE DEF S
<1>2. T \subseteq S
  BY <1>1, TreeInduction
<1> QED BY <1>2 DEF S

(* Up to every depth there is one.                                         *)
LEMMA UpToExists ==
  ASSUME NEW T, NEW depth, NEW below, AreTrees(T, depth, below),
         NEW V, V # {}, NEW step, IsLocal(T, V, below, step)
  PROVE  \A n \in Nat : \E f \in [T -> V] : UpTo(n, T, depth, step, f)
<1> DEFINE P == {n \in Nat : \E f \in [T -> V] : UpTo(n, T, depth, step, f)}
<1>1. 0 \in P
  <2>1. PICK v \in V : TRUE
    OBVIOUS
  <2>2. [t \in T |-> v] \in [T -> V]
    OBVIOUS
  <2>3. UpTo(0, T, depth, step, [t \in T |-> v])
    BY DEF UpTo, AreTrees
  <2> QED BY <2>2, <2>3
<1>2. ASSUME NEW n \in Nat, n \in P PROVE n + 1 \in P
  <2>1. PICK f \in [T -> V] : UpTo(n, T, depth, step, f)
    BY <1>2
  <2> DEFINE g == [t \in T |-> step[<<t, f>>]]
  <2>2. g \in [T -> V]
    BY DEF IsLocal
  <2>3. \A t \in T : g[t] = step[<<t, f>>]
    OBVIOUS
  <2> HIDE DEF g
  <2>4. ASSUME NEW t \in T, depth[t] < n + 1 PROVE g[t] = step[<<t, g>>]
    <3>1. ASSUME NEW u \in below[t] PROVE f[u] = g[u]
      <4>1. u \in T /\ depth[u] \in Nat /\ depth[t] \in Nat /\ depth[u] < depth[t]
        BY DEF AreTrees
      <4>2. depth[u] < n
        BY <2>4, <4>1
      <4> QED BY <2>1, <2>3, <4>1, <4>2 DEF UpTo
    <3>2. step[<<t, f>>] = step[<<t, g>>]
      BY <2>2, <3>1 DEF IsLocal
    <3> QED BY <2>3, <3>2
  <2>5. UpTo(n + 1, T, depth, step, g)
    BY <2>4 DEF UpTo
  <2> QED BY <2>2, <2>5
<1> HIDE DEF P
<1> DEFINE Gap == Nat \ P
<1>3. ASSUME Gap # {} PROVE FALSE
  <2>1. PICK m \in Gap : \A k \in Gap : <<k, m>> \notin OpToRel(<, Nat)
    <3>1. Gap \in SUBSET Nat
      OBVIOUS
    <3> HIDE DEF Gap
    <3> QED BY <1>3, <3>1, WFMin, NatLessThanWellFounded, Zenon
  <2>2. m \in Nat /\ m \notin P /\ m # 0
    BY <1>1
  <2>3. m - 1 \in Nat /\ (m - 1) + 1 = m /\ m - 1 < m
    BY <2>2
  <2>4. m - 1 \notin P
    BY <1>2, <2>2, <2>3
  <2>5. <<m - 1, m>> \in OpToRel(<, Nat)
    BY <2>2, <2>3 DEF OpToRel
  <2> QED BY <2>1, <2>3, <2>4, <2>5
<1> QED BY <1>3 DEF P

Solves(T, step, f) == \A t \in T : f[t] = step[<<t, f>>]

(* So there is a function that is what the steps make of it.               *)
LEMMA TreesHaveValues ==
  ASSUME NEW T, NEW depth, NEW below, AreTrees(T, depth, below),
         NEW V, V # {}, NEW step, IsLocal(T, V, below, step)
  PROVE  \E f \in [T -> V] : Solves(T, step, f)
<1> DEFINE F(n) == CHOOSE f \in [T -> V] : UpTo(n, T, depth, step, f)
<1>1. \A n \in Nat : F(n) \in [T -> V] /\ UpTo(n, T, depth, step, F(n))
  BY UpToExists
<1> HIDE DEF F
<1>2. \A m, n \in Nat, t \in T : depth[t] < m /\ depth[t] < n => F(m)[t] = F(n)[t]
  BY <1>1, UpToAgree
<1> DEFINE g == [t \in T |-> F(depth[t] + 1)[t]]
<1>3. \A t \in T : depth[t] \in Nat /\ depth[t] + 1 \in Nat /\ depth[t] < depth[t] + 1
  BY DEF AreTrees
<1>4. g \in [T -> V] /\ \A t \in T : g[t] = F(depth[t] + 1)[t]
  BY <1>1, <1>3
<1> HIDE DEF g
<1>5. ASSUME NEW t \in T PROVE g[t] = step[<<t, g>>]
  <2> DEFINE n == depth[t] + 1
  <2>1. n \in Nat /\ depth[t] < n
    BY <1>3
  <2>2. g[t] = F(n)[t]
    BY <1>4
  <2>3. \A u \in below[t] : u \in T /\ depth[u] < n /\ depth[u] < depth[u] + 1 /\ depth[u] + 1 \in Nat
    BY <1>3 DEF AreTrees
  <2> HIDE DEF n
  <2>4. \A u \in below[t] : F(n)[u] = g[u]
    BY <1>2, <1>4, <2>1, <2>3
  <2>5. F(n) \in [T -> V] /\ F(n)[t] = step[<<t, F(n)>>]
    BY <1>1, <2>1 DEF UpTo
  <2>6. step[<<t, F(n)>>] = step[<<t, g>>]
    BY <1>4, <2>4, <2>5 DEF IsLocal
  <2> QED BY <2>2, <2>5, <2>6
<1> QED BY <1>4, <1>5 DEF Solves

ConditionDepth == [cond \in Trees |-> Depth(cond)]
ConditionBelow == [cond \in Trees |-> {PartsOf(cond)[i] : i \in DOMAIN PartsOf(cond)}]

(* What a concatenation consists of.                                       *)
LEMMA ConcatIs ==
  ASSUME NEW S, NEW s \in Seq(S), NEW t \in Seq(S)
  PROVE  /\ s \o t \in Seq(S) /\ Len(s \o t) = Len(s) + Len(t)
         /\ \A i \in 1..Len(s) : (s \o t)[i] = s[i]
         /\ \A i \in 1..Len(t) : (s \o t)[Len(s) + i] = t[i]
OBVIOUS

(* The parts of a condition are below it.                                  *)
LEMMA PartsAreBelow ==
  ASSUME NEW cond \in Trees
  PROVE  /\ cond.all \in Seq(Trees) /\ cond.any \in Seq(Trees) /\ cond.not \in Seq(Trees)
         /\ Len(cond.not) <= 1 /\ PartsOf(cond) \in Seq(Trees)
         /\ ConditionBelow[cond] \in SUBSET Trees
         /\ \A i \in DOMAIN PartsOf(cond) : PartsOf(cond)[i] \in ConditionBelow[cond]
         /\ \A i \in DOMAIN cond.all : \E k \in DOMAIN PartsOf(cond) : PartsOf(cond)[k] = cond.all[i]
         /\ \A i \in DOMAIN cond.any : \E k \in DOMAIN PartsOf(cond) : PartsOf(cond)[k] = cond.any[i]
         /\ \A i \in DOMAIN cond.not : \E k \in DOMAIN PartsOf(cond) : PartsOf(cond)[k] = cond.not[i]
<1> DEFINE a == cond.all
           b == cond.any
           n == cond.not
           p == PartsOf(cond)
<1>1. a \in Seq(Trees) /\ b \in Seq(Trees) /\ n \in Seq(Trees) /\ Len(n) <= 1
  BY TreesAssumption
<1>2. p = (a \o b) \o n
  BY DEF PartsOf
<1>3. ConditionBelow[cond] = {p[i] : i \in DOMAIN p}
  BY DEF ConditionBelow
<1> HIDE DEF a, b, n, p
<1> DEFINE ab == a \o b
<1>4. /\ ab \in Seq(Trees) /\ Len(ab) = Len(a) + Len(b)
      /\ \A i \in 1..Len(a) : ab[i] = a[i]
      /\ \A i \in 1..Len(b) : ab[Len(a) + i] = b[i]
  BY <1>1, ConcatIs
<1>5. p = ab \o n
  BY <1>2
<1> HIDE DEF ab
<1>6. /\ p \in Seq(Trees) /\ Len(p) = Len(ab) + Len(n)
      /\ \A i \in 1..Len(ab) : p[i] = ab[i]
      /\ \A i \in 1..Len(n) : p[Len(ab) + i] = n[i]
  BY <1>1, <1>4, <1>5, ConcatIs
<1>7. /\ Len(a) \in Nat /\ Len(b) \in Nat /\ Len(ab) \in Nat /\ Len(n) \in Nat
      /\ DOMAIN a = 1..Len(a) /\ DOMAIN b = 1..Len(b) /\ DOMAIN n = 1..Len(n)
      /\ DOMAIN p = 1..Len(p)
  BY <1>1, <1>4, <1>6
<1>8. ASSUME NEW i \in DOMAIN a PROVE \E k \in DOMAIN p : p[k] = a[i]
  <2>1. i \in DOMAIN p /\ p[i] = a[i]
    BY <1>4, <1>6, <1>7
  <2> QED BY <2>1
<1>9. ASSUME NEW i \in DOMAIN b PROVE \E k \in DOMAIN p : p[k] = b[i]
  <2> DEFINE k == Len(a) + i
  <2>1. k \in 1..Len(ab) /\ k \in DOMAIN p
    BY <1>4, <1>6, <1>7
  <2>2. ab[k] = b[i]
    BY <1>4, <1>7
  <2> HIDE DEF k
  <2> QED BY <1>6, <2>1, <2>2
<1>10. ASSUME NEW i \in DOMAIN n PROVE \E k \in DOMAIN p : p[k] = n[i]
  <2>1. Len(ab) + i \in DOMAIN p
    BY <1>6, <1>7
  <2>2. p[Len(ab) + i] = n[i]
    BY <1>6, <1>7
  <2> QED BY <2>1, <2>2
<1>11. {p[i] : i \in DOMAIN p} \in SUBSET Trees
  BY <1>6
<1> QED BY <1>1, <1>3, <1>6, <1>8, <1>9, <1>10, <1>11 DEF a, b, n, p

(* So conditions are trees.                                                *)
LEMMA ConditionsAreTrees == AreTrees(Trees, ConditionDepth, ConditionBelow)
<1>1. ConditionDepth \in [Trees -> Nat] /\ \A t \in Trees : ConditionDepth[t] = Depth(t)
  BY TreesAssumption DEF ConditionDepth
<1>2. ConditionBelow \in [Trees -> SUBSET Trees]
  BY PartsAreBelow DEF ConditionBelow
<1>3. ASSUME NEW t \in Trees, NEW u \in ConditionBelow[t] PROVE ConditionDepth[u] < ConditionDepth[t]
  <2>1. PICK i \in DOMAIN PartsOf(t) : u = PartsOf(t)[i]
    BY DEF ConditionBelow
  <2>2. u \in Trees /\ Depth(u) < Depth(t)
    BY <1>2, <2>1, TreesAssumption
  <2> QED BY <1>1, <2>2
<1> QED BY <1>1, <1>2, <1>3 DEF AreTrees

(* Two functions that agree below a condition agree on its parts.          *)
LEMMA PartsAgree ==
  ASSUME NEW cond \in Trees, NEW f, NEW g, \A u \in ConditionBelow[cond] : f[u] = g[u]
  PROVE  /\ Of(f, cond.all) = Of(g, cond.all) /\ Of(f, cond.any) = Of(g, cond.any)
         /\ Of(f, cond.not) = Of(g, cond.not)
         /\ \A i \in DOMAIN cond.not : f[cond.not[i]] = g[cond.not[i]]
         /\ \A i \in DOMAIN PartsOf(cond) : f[PartsOf(cond)[i]] = g[PartsOf(cond)[i]]
<1>1. ASSUME NEW k \in DOMAIN PartsOf(cond) PROVE f[PartsOf(cond)[k]] = g[PartsOf(cond)[k]]
  <2>1. PartsOf(cond)[k] \in ConditionBelow[cond]
    BY PartsAreBelow
  <2> QED BY <2>1
<1>2. ASSUME NEW parts, \A i \in DOMAIN parts : \E k \in DOMAIN PartsOf(cond) : PartsOf(cond)[k] = parts[i]
      PROVE  Of(f, parts) = Of(g, parts) /\ \A i \in DOMAIN parts : f[parts[i]] = g[parts[i]]
  <2>1. \A i \in DOMAIN parts : f[parts[i]] = g[parts[i]]
    BY <1>1, <1>2
  <2> QED BY <2>1 DEF Of
<1>3. Of(f, cond.all) = Of(g, cond.all)
  BY <1>2, PartsAreBelow
<1>4. Of(f, cond.any) = Of(g, cond.any)
  BY <1>2, PartsAreBelow
<1>5. Of(f, cond.not) = Of(g, cond.not) /\ \A i \in DOMAIN cond.not : f[cond.not[i]] = g[cond.not[i]]
  BY <1>2, PartsAreBelow
<1> QED BY <1>1, <1>3, <1>4, <1>5

(* The first result that is not neutral, if there is one.                  *)
LEMMA FirstOtherIs ==
  ASSUME NEW n \in Nat, NEW results, DOMAIN results = 1..n, NEW neutral
  PROVE  \/ FirstOther(results, neutral) = neutral /\ \A i \in 1..n : results[i] = neutral
         \/ \E i \in 1..n : FirstOther(results, neutral) = results[i] /\ results[i] # neutral
<1>1. CASE \A i \in 1..n : results[i] = neutral
  BY <1>1 DEF FirstOther
<1>2. CASE ~ \A i \in 1..n : results[i] = neutral
  <2> DEFINE Others == {i \in 1..n : results[i] # neutral}
             first == CHOOSE i \in 1..n : Decides(results, neutral, i)
  <2>1. PICK m \in Others : \A k \in Others : <<k, m>> \notin OpToRel(<, Nat)
    <3>1. Others \in SUBSET Nat /\ Others # {}
      BY <1>2
    <3> HIDE DEF Others
    <3> QED BY <3>1, WFMin, NatLessThanWellFounded, Zenon
  <2>2. m \in 1..n /\ results[m] # neutral
    OBVIOUS
  <2>3. ASSUME NEW j \in 1..(m - 1) PROVE results[j] = neutral
    <3>1. j \in 1..n /\ <<j, m>> \in OpToRel(<, Nat)
      BY <2>2 DEF OpToRel
    <3> QED BY <2>1, <3>1
  <2>4. Decides(results, neutral, m)
    BY <2>2, <2>3 DEF Decides
  <2>5. first \in 1..n /\ Decides(results, neutral, first)
    BY <2>2, <2>4
  <2>6. FirstOther(results, neutral) = results[first]
    BY <1>2 DEF FirstOther
  <2> HIDE DEF first
  <2> QED BY <2>5, <2>6 DEF Decides
<1> QED BY <1>1, <1>2

(* What evaluateCondition says of every condition, by what it says of the  *)
(* parts.                                                                  *)
LEMMA ConditionResults ==
  ASSUME NEW r, NEW c
  PROVE  \E f : \A t \in Trees : f[t] = Composed(t, f, r, c) /\ evaluateCondition(t, r, c) = f[t]
<1> DEFINE V == {"true", "false", "error"} \cup {OwnLeaf(t, r, c) : t \in Trees}
           W == [Trees -> V]
           step == [p \in Trees \X W |-> Composed(p[1], p[2], r, c)]
<1>1. ASSUME NEW results, NEW n \in Nat, DOMAIN results = 1..n, \A i \in 1..n : results[i] \in V,
             NEW neutral \in V
      PROVE  FirstOther(results, neutral) \in V
  <2> HIDE DEF V
  <2> QED BY <1>1, FirstOtherIs
<1>2. ASSUME NEW t \in Trees, NEW f \in W PROVE Composed(t, f, r, c) \in V
  <2> DEFINE a == FirstOther(Of(f, t.all), "true")
             b == AnyOf(Of(f, t.any))
             n == IF t.not = Absent THEN "true" ELSE Negated(f[t.not[1]])
             own == OwnLeaf(t, r, c)
             four == <<a, b, n, own>>
  <2>1. own \in V /\ "true" \in V /\ "false" \in V
    OBVIOUS
  <2>2. /\ t.all \in Seq(Trees) /\ t.any \in Seq(Trees) /\ t.not \in Seq(Trees)
    BY PartsAreBelow
  <2> HIDE DEF V, own
  <2>3. a \in V
    <3>1. DOMAIN Of(f, t.all) = 1..Len(t.all) /\ Len(t.all) \in Nat
      BY <2>2 DEF Of
    <3>2. \A i \in 1..Len(t.all) : Of(f, t.all)[i] \in V
      BY <2>2 DEF Of
    <3> QED BY <1>1, <2>1, <3>1, <3>2
  <2>4. b \in V
    <3>1. DOMAIN Of(f, t.any) = 1..Len(t.any) /\ Len(t.any) \in Nat
      BY <2>2 DEF Of
    <3>2. \A i \in 1..Len(t.any) : Of(f, t.any)[i] \in V
      BY <2>2 DEF Of
    <3>3. FirstOther(Of(f, t.any), "false") \in V
      BY <1>1, <2>1, <3>1, <3>2
    <3> QED BY <2>1, <3>3 DEF AnyOf
  <2>5. n \in V
    <3>1. CASE t.not = Absent
      BY <2>1, <3>1
    <3>2. CASE t.not # Absent
      <4>1. t.not[1] \in Trees
        BY <2>2, <3>2 DEF Absent
      <4>2. f[t.not[1]] \in V
        BY <4>1
      <4> QED BY <2>1, <3>2, <4>2 DEF Negated
    <3> QED BY <3>1, <3>2
  <2>6. Composed(t, f, r, c) = FirstOther(four, "true")
    BY DEF Composed, own
  <2> HIDE DEF a, b, n
  <2>7. DOMAIN four = 1..4 /\ \A i \in 1..4 : four[i] \in V
    BY <2>1, <2>3, <2>4, <2>5
  <2> HIDE DEF four
  <2> QED BY <1>1, <2>1, <2>6, <2>7
<1>3. IsLocal(Trees, V, ConditionBelow, step)
  <2>1. step \in [Trees \X W -> V]
    BY <1>2
  <2>2. ASSUME NEW t \in Trees, NEW f \in W, NEW g \in W, \A u \in ConditionBelow[t] : f[u] = g[u]
        PROVE  step[<<t, f>>] = step[<<t, g>>]
    <3>1. /\ Of(f, t.all) = Of(g, t.all) /\ Of(f, t.any) = Of(g, t.any)
          /\ \A i \in DOMAIN t.not : f[t.not[i]] = g[t.not[i]]
      BY <2>2, PartsAgree
    <3>2. t.not # Absent => 1 \in DOMAIN t.not
      BY PartsAreBelow DEF Absent
    <3>3. Composed(t, f, r, c) = Composed(t, g, r, c)
      BY <3>1, <3>2 DEF Composed
    <3> QED BY <3>3
  <2> HIDE DEF step
  <2> QED BY <2>1, <2>2 DEF IsLocal
<1>4. V # {} /\ \A t \in Trees, f \in W : step[<<t, f>>] = Composed(t, f, r, c)
  OBVIOUS
<1> HIDE DEF V, step
<1>5. PICK h \in W : Solves(Trees, step, h)
  BY <1>3, <1>4, ConditionsAreTrees, TreesHaveValues, Zenon
<1> DEFINE IsResult(f) == f = [t \in Trees |-> Composed(t, f, r, c)]
           e == CHOOSE f : IsResult(f)
<1>6. h = [t \in Trees |-> Composed(t, h, r, c)]
  BY <1>4, <1>5 DEF Solves
<1>7. IsResult(e)
  BY <1>6
<1>8. \A t \in Trees : evaluateCondition(t, r, c) = e[t]
  BY DEF evaluateCondition
<1> QED
  <2> HIDE DEF e
  <2>1. \A t \in Trees : e[t] = Composed(t, e, r, c)
    BY <1>7
  <2> QED BY <1>8, <2>1

(* The members of what holds everywhere.                                   *)
LEMMA EverywhereIs ==
  ASSUME NEW sets
  PROVE  /\ Everywhere(sets) \in SUBSET BOOLEAN
         /\ TRUE \in Everywhere(sets) <=> \A i \in DOMAIN sets : TRUE \in sets[i]
         /\ FALSE \in Everywhere(sets) <=> \E i \in DOMAIN sets : FALSE \in sets[i]
BY DEF Everywhere

(* What a condition could be, by what its parts could be.                  *)
LEMMA ConditionPossibilities ==
  ASSUME NEW r, NEW c
  PROVE  \E f : \A t \in Trees : f[t] = CouldBe(t, f, r, c) /\ Possible(t, r, c) = f[t]
<1> DEFINE V == SUBSET BOOLEAN
           W == [Trees -> V]
           step == [p \in Trees \X W |-> CouldBe(p[1], p[2], r, c)]
<1>1. \A t \in Trees, f \in W : CouldBe(t, f, r, c) \in V
  BY EverywhereIs DEF CouldBe
<1>2. IsLocal(Trees, V, ConditionBelow, step)
  <2>1. step \in [Trees \X W -> V]
    <3> HIDE DEF V, W
    <3>1. \A p \in Trees \X W : p[1] \in Trees /\ p[2] \in W
      OBVIOUS
    <3>2. \A p \in Trees \X W : CouldBe(p[1], p[2], r, c) \in V
      BY <1>1, <3>1
    <3> QED BY <3>2
  <2>2. ASSUME NEW t \in Trees, NEW f \in W, NEW g \in W, \A u \in ConditionBelow[t] : f[u] = g[u]
        PROVE  step[<<t, f>>] = step[<<t, g>>]
    <3>1. /\ Of(f, t.all) = Of(g, t.all) /\ Of(f, t.any) = Of(g, t.any)
          /\ Of(f, t.not) = Of(g, t.not)
      BY <2>2, PartsAgree
    <3>2. CouldBe(t, f, r, c) = CouldBe(t, g, r, c)
      BY <3>1 DEF CouldBe
    <3> QED BY <3>2
  <2> HIDE DEF step
  <2> QED BY <2>1, <2>2 DEF IsLocal
<1>3. V # {} /\ \A t \in Trees, f \in W : step[<<t, f>>] = CouldBe(t, f, r, c)
  OBVIOUS
<1> HIDE DEF V, step
<1>4. PICK h \in W : Solves(Trees, step, h)
  BY <1>2, <1>3, ConditionsAreTrees, TreesHaveValues, Zenon
<1> DEFINE IsResult(f) == f = [t \in Trees |-> CouldBe(t, f, r, c)]
           e == CHOOSE f : IsResult(f)
<1>5. IsResult(h)
  BY <1>3, <1>4 DEF Solves
<1>6. IsResult(e)
  BY <1>5
<1>7. \A t \in Trees : Possible(t, r, c) = e[t]
  BY DEF Possible
<1> QED
  <2> HIDE DEF e
  <2>1. \A t \in Trees : e[t] = CouldBe(t, e, r, c)
    BY <1>6
  <2> QED BY <1>7, <2>1

(* Which conditions have a faulty part, by which of their parts have one.  *)
FaultyInside(cond, faulty) == \E i \in DOMAIN PartsOf(cond) : faulty[PartsOf(cond)[i]]

(* The set of faulty ones has a solution too, as a function.               *)
LEMMA ConditionFaults ==
  ASSUME NEW r, NEW c
  PROVE  \E f \in [Trees -> BOOLEAN] :
           \A t \in Trees : /\ f[t] <=> FaultyHere(t, r, c) \/ FaultyInside(t, f)
                            /\ Faulty(t, r, c) = f[t]
<1> DEFINE V == BOOLEAN
           W == [Trees -> V]
           Body(t, f) == FaultyHere(t, r, c) \/ FaultyInside(t, f)
           step == [p \in Trees \X W |-> Body(p[1], p[2])]
<1>1. IsLocal(Trees, V, ConditionBelow, step)
  <2>1. step \in [Trees \X W -> V]
    OBVIOUS
  <2>2. ASSUME NEW t \in Trees, NEW f \in W, NEW g \in W, \A u \in ConditionBelow[t] : f[u] = g[u]
        PROVE  step[<<t, f>>] = step[<<t, g>>]
    <3>1. \A i \in DOMAIN PartsOf(t) : f[PartsOf(t)[i]] = g[PartsOf(t)[i]]
      BY <2>2, PartsAgree
    <3>2. Body(t, f) = Body(t, g)
      BY <3>1 DEF FaultyInside
    <3> HIDE DEF Body
    <3> QED BY <3>2
  <2> HIDE DEF step
  <2> QED BY <2>1, <2>2 DEF IsLocal
<1>2. V # {} /\ \A t \in Trees, f \in W : step[<<t, f>>] = Body(t, f)
  <2> HIDE DEF Body
  <2> QED OBVIOUS
<1> HIDE DEF step
<1>3. PICK h \in W : Solves(Trees, step, h)
  <2> HIDE DEF V
  <2> QED BY <1>1, <1>2, ConditionsAreTrees, TreesHaveValues, Zenon
<1> DEFINE IsResult(f) == f = [t \in Trees |-> Body(t, f)]
           e == CHOOSE f : IsResult(f)
<1>4. IsResult(h)
  <2> HIDE DEF Body
  <2> QED BY <1>2, <1>3 DEF Solves
<1>5. IsResult(e)
  BY <1>4
<1>6. \A t \in Trees : Faulty(t, r, c) = e[t]
  BY DEF Faulty, FaultyInside
<1> QED
  <2> HIDE DEF e
  <2>1. e \in [Trees -> BOOLEAN] /\ \A t \in Trees : e[t] = Body(t, e)
    BY <1>5
  <2>2. \A t \in Trees : e[t] <=> FaultyHere(t, r, c) \/ FaultyInside(t, e)
    BY <2>1
  <2> QED BY <1>6, <2>1, <2>2

(* A result that is what it must be if no faulty part says anything.       *)
Fair(result, set, faulty) ==
  /\ set \in SUBSET BOOLEAN /\ set # {}
  /\ result = "true" => set = {TRUE}
  /\ result = "false" => set = {FALSE}
  /\ result \notin Decided => faulty

(* The members of the opposite of a set of truth values.                   *)
LEMMA OppositeIs ==
  ASSUME NEW S \in SUBSET BOOLEAN
  PROVE  /\ Opposite(S) \in SUBSET BOOLEAN
         /\ TRUE \in Opposite(S) <=> FALSE \in S
         /\ FALSE \in Opposite(S) <=> TRUE \in S
<1>1. \A b : b \in Opposite(S) <=> \E x \in S : b = ~x
  BY DEF Opposite
<1>2. \A x \in S : x = TRUE \/ x = FALSE
  OBVIOUS
<1> QED BY <1>1, <1>2

(* Sets of truth values are told apart by their members.                   *)
LEMMA TruthsAre ==
  ASSUME NEW S \in SUBSET BOOLEAN
  PROVE  /\ S # {} <=> TRUE \in S \/ FALSE \in S
         /\ S = {TRUE} <=> TRUE \in S /\ FALSE \notin S
         /\ S = {FALSE} <=> FALSE \in S /\ TRUE \notin S
<1>1. \A x \in S : x = TRUE \/ x = FALSE
  OBVIOUS
<1> QED BY <1>1

(* What is true if all are is what it must be if each of them is.          *)
LEMMA AllFair ==
  ASSUME NEW n \in Nat, NEW results, DOMAIN results = 1..n, NEW sets, DOMAIN sets = 1..n,
         NEW faulty, \A i \in 1..n : Fair(results[i], sets[i], i \in faulty)
  PROVE  Fair(FirstOther(results, "true"), Everywhere(sets), \E i \in 1..n : i \in faulty)
<1> DEFINE S == Everywhere(sets)
           first == FirstOther(results, "true")
<1>1. /\ S \in SUBSET BOOLEAN
      /\ TRUE \in S <=> \A i \in 1..n : TRUE \in sets[i]
      /\ FALSE \in S <=> \E i \in 1..n : FALSE \in sets[i]
  BY EverywhereIs
<1>2. \A i \in 1..n : sets[i] \in SUBSET BOOLEAN /\ (TRUE \in sets[i] \/ FALSE \in sets[i])
  BY TruthsAre DEF Fair
<1>3. /\ S # {} <=> TRUE \in S \/ FALSE \in S
      /\ S = {TRUE} <=> TRUE \in S /\ FALSE \notin S
      /\ S = {FALSE} <=> FALSE \in S /\ TRUE \notin S
  BY <1>1, TruthsAre
<1>4. \/ first = "true" /\ \A i \in 1..n : results[i] = "true"
      \/ \E i \in 1..n : first = results[i] /\ results[i] # "true"
  BY FirstOtherIs
<1> HIDE DEF S, first
<1>5. S # {}
  BY <1>1, <1>2, <1>3
<1>6. CASE first = "true" /\ \A i \in 1..n : results[i] = "true"
  <2>1. \A i \in 1..n : sets[i] = {TRUE}
    BY <1>6 DEF Fair
  <2>2. TRUE \in S /\ FALSE \notin S
    BY <1>1, <2>1
  <2> QED BY <1>1, <1>3, <1>5, <1>6, <2>2 DEF Fair, Decided, S, first
<1>7. CASE \E i \in 1..n : first = results[i] /\ results[i] # "true"
  <2>1. PICK i \in 1..n : first = results[i] /\ results[i] # "true"
    BY <1>7
  <2>2. Fair(first, sets[i], i \in faulty)
    BY <2>1
  <2>3. first = "false" => FALSE \in S /\ TRUE \notin S
    BY <1>1, <2>2 DEF Fair
  <2>4. first \notin Decided => i \in faulty
    BY <2>2 DEF Fair
  <2> QED BY <1>1, <1>3, <1>5, <2>1, <2>3, <2>4 DEF Fair, S, first
<1> QED BY <1>4, <1>6, <1>7

(* What is true if one of them is, or there is none, is too.               *)
LEMMA AnyFair ==
  ASSUME NEW n \in Nat, NEW results, DOMAIN results = 1..n, NEW sets, DOMAIN sets = 1..n,
         results = <<>> <=> n = 0, sets = <<>> <=> n = 0,
         NEW faulty, \A i \in 1..n : Fair(results[i], sets[i], i \in faulty)
  PROVE  Fair(AnyOf(results), Somewhere(sets), \E i \in 1..n : i \in faulty)
<1>1. CASE n = 0
  <2>1. AnyOf(results) = "true" /\ Somewhere(sets) = {TRUE}
    BY <1>1 DEF AnyOf, Somewhere
  <2>2. {TRUE} \in SUBSET BOOLEAN /\ {TRUE} # {} /\ "true" \in Decided /\ "true" # "false"
    BY DEF Decided
  <2> QED BY <2>1, <2>2 DEF Fair
<1>2. CASE n # 0
  <2> DEFINE opp == Opposites(sets)
             E == Everywhere(opp)
             S == Opposite(E)
             first == FirstOther(results, "false")
  <2>1. AnyOf(results) = first /\ Somewhere(sets) = S
    BY <1>2 DEF AnyOf, Somewhere
  <2>2. \A i \in 1..n : sets[i] \in SUBSET BOOLEAN /\ (TRUE \in sets[i] \/ FALSE \in sets[i])
    BY TruthsAre DEF Fair
  <2>3. DOMAIN opp = 1..n /\ \A i \in 1..n : opp[i] = Opposite(sets[i])
    BY DEF Opposites
  <2>4. \A i \in 1..n : /\ TRUE \in opp[i] <=> FALSE \in sets[i]
                        /\ FALSE \in opp[i] <=> TRUE \in sets[i]
    <3> SUFFICES ASSUME NEW i \in 1..n
                 PROVE  /\ TRUE \in opp[i] <=> FALSE \in sets[i]
                        /\ FALSE \in opp[i] <=> TRUE \in sets[i]
      OBVIOUS
    <3>1. sets[i] \in SUBSET BOOLEAN /\ opp[i] = Opposite(sets[i])
      BY <2>2, <2>3
    <3>2. /\ TRUE \in Opposite(sets[i]) <=> FALSE \in sets[i]
          /\ FALSE \in Opposite(sets[i]) <=> TRUE \in sets[i]
      BY <3>1, OppositeIs
    <3> HIDE DEF opp
    <3> QED BY <3>1, <3>2
  <2>5. /\ E \in SUBSET BOOLEAN
        /\ TRUE \in E <=> \A i \in 1..n : TRUE \in opp[i]
        /\ FALSE \in E <=> \E i \in 1..n : FALSE \in opp[i]
    BY <2>3, EverywhereIs
  <2>6. S \in SUBSET BOOLEAN /\ (TRUE \in S <=> FALSE \in E) /\ (FALSE \in S <=> TRUE \in E)
    BY <2>5, OppositeIs
  <2>7. /\ S # {} <=> TRUE \in S \/ FALSE \in S
        /\ S = {TRUE} <=> TRUE \in S /\ FALSE \notin S
        /\ S = {FALSE} <=> FALSE \in S /\ TRUE \notin S
    BY <2>6, TruthsAre
  <2>8. \/ first = "false" /\ \A i \in 1..n : results[i] = "false"
        \/ \E i \in 1..n : first = results[i] /\ results[i] # "false"
    BY FirstOtherIs
  <2> HIDE DEF S, E, opp, first
  <2>9. /\ TRUE \in S <=> \E i \in 1..n : TRUE \in sets[i]
        /\ FALSE \in S <=> \A i \in 1..n : FALSE \in sets[i]
    BY <2>4, <2>5, <2>6
  <2>10. S # {}
    BY <2>2, <2>7, <2>9
  <2>11. CASE first = "false" /\ \A i \in 1..n : results[i] = "false"
    <3>1. \A i \in 1..n : sets[i] = {FALSE}
      BY <2>11 DEF Fair
    <3>2. FALSE \in S /\ TRUE \notin S
      BY <2>9, <3>1
    <3>3. Fair(first, S, \E i \in 1..n : i \in faulty)
      BY <2>6, <2>7, <2>10, <2>11, <3>2 DEF Fair, Decided
    <3> QED BY <2>1, <3>3
  <2>12. CASE \E i \in 1..n : first = results[i] /\ results[i] # "false"
    <3>1. PICK i \in 1..n : first = results[i] /\ results[i] # "false"
      BY <2>12
    <3>2. Fair(first, sets[i], i \in faulty)
      BY <3>1
    <3>3. first = "true" => TRUE \in S /\ FALSE \notin S
      BY <2>9, <3>2 DEF Fair
    <3>4. first \notin Decided => i \in faulty
      BY <3>2 DEF Fair
    <3>5. Fair(first, S, \E k \in 1..n : k \in faulty)
      BY <2>6, <2>7, <2>10, <3>1, <3>3, <3>4 DEF Fair
    <3> QED BY <2>1, <3>5
  <2> QED BY <2>8, <2>11, <2>12
<1> QED BY <1>1, <1>2

(* What the leaf of a condition says, and what it could say.               *)
LEMMA LeafFair ==
  ASSUME NEW cond, NEW r, NEW c
  PROVE  Fair(OwnLeaf(cond, r, c),
              IF FaultyHere(cond, r, c) THEN BOOLEAN
              ELSE {cond.leaf # Absent => Leaf(cond.leaf[1], r, c) = "true"},
              FaultyHere(cond, r, c))
<1> DEFINE own == Leaf(cond.leaf[1], r, c)
<1>1. CASE cond.leaf = Absent /\ PartsOf(cond) = <<>>
  <2>1. FaultyHere(cond, r, c) /\ OwnLeaf(cond, r, c) = "error"
    BY <1>1 DEF FaultyHere, OwnLeaf
  <2> QED BY <2>1 DEF Fair, Decided
<1>2. CASE cond.leaf = Absent /\ PartsOf(cond) # <<>>
  <2>1. ~FaultyHere(cond, r, c) /\ OwnLeaf(cond, r, c) = "true"
    BY <1>2 DEF FaultyHere, OwnLeaf
  <2>2. {cond.leaf # Absent => own = "true"} = {TRUE}
    BY <1>2
  <2> QED BY <2>1, <2>2 DEF Fair, Decided
<1>3. CASE cond.leaf # Absent /\ own \notin Decided
  <2>1. FaultyHere(cond, r, c) /\ OwnLeaf(cond, r, c) = own
    BY <1>3 DEF FaultyHere, OwnLeaf
  <2> QED BY <1>3, <2>1 DEF Fair, Decided
<1>4. CASE cond.leaf # Absent /\ own \in Decided
  <2>1. ~FaultyHere(cond, r, c) /\ OwnLeaf(cond, r, c) = own
    BY <1>4 DEF FaultyHere, OwnLeaf
  <2> HIDE DEF own
  <2>2. CASE own = "true"
    <3>1. {cond.leaf # Absent => own = "true"} = {TRUE}
      BY <2>2
    <3> QED BY <2>1, <2>2, <3>1 DEF Fair, Decided, own
  <2>3. CASE own = "false"
    <3>1. {cond.leaf # Absent => own = "true"} = {FALSE}
      BY <1>4, <2>3
    <3> QED BY <2>1, <2>3, <3>1 DEF Fair, Decided, own
  <2> QED BY <1>4, <2>2, <2>3 DEF Decided
<1> QED BY <1>1, <1>2, <1>3, <1>4

(* Each of the first n parts has a fair result.                            *)
PartsFair(parts, n, e, p, faulty) ==
  \A i \in 1..n : Fair(e[parts[i]], p[parts[i]], i \in faulty)

(* The negation of a part, or nothing if there is none.                    *)
LEMMA NotFair ==
  ASSUME NEW parts, NEW n \in 0..1, DOMAIN parts = 1..n, parts = Absent <=> n = 0,
         NEW e, NEW p, NEW faulty, PartsFair(parts, n, e, p, faulty)
  PROVE  Fair(IF parts = Absent THEN "true" ELSE Negated(e[parts[1]]),
              Everywhere(Opposites(Of(p, parts))), \E i \in 1..n : i \in faulty)
<1> DEFINE opp == Opposites(Of(p, parts))
           E == Everywhere(opp)
<1>1. DOMAIN opp = 1..n /\ \A i \in 1..n : opp[i] = Opposite(p[parts[i]])
  BY DEF Opposites, Of
<1>2. /\ E \in SUBSET BOOLEAN
      /\ TRUE \in E <=> \A i \in 1..n : TRUE \in opp[i]
      /\ FALSE \in E <=> \E i \in 1..n : FALSE \in opp[i]
  BY <1>1, EverywhereIs
<1>3. /\ E # {} <=> TRUE \in E \/ FALSE \in E
      /\ E = {TRUE} <=> TRUE \in E /\ FALSE \notin E
      /\ E = {FALSE} <=> FALSE \in E /\ TRUE \notin E
  BY <1>2, TruthsAre
<1> HIDE DEF E
<1>4. CASE n = 0
  <2>1. TRUE \in E /\ FALSE \notin E
    <3>1. \A i : i \notin 1..n
      BY <1>4
    <3> QED BY <1>2, <3>1, Zenon
  <2>2. E = {TRUE} /\ E # {}
    BY <1>3, <2>1, Zenon
  <2>3. "true" # "false" /\ "true" \in Decided
    BY DEF Decided
  <2>4. Fair("true", E, \E i \in 1..n : i \in faulty)
    BY <1>2, <2>2, <2>3 DEF Fair
  <2>5. parts = Absent
    BY <1>4
  <2> QED BY <2>4, <2>5 DEF E
<1>5. CASE n = 1
  <2> DEFINE result == e[parts[1]]
             set == p[parts[1]]
  <2>1. Fair(result, set, 1 \in faulty)
    BY <1>5 DEF PartsFair
  <2>2. opp[1] = Opposite(set)
    BY <1>1, <1>5
  <2>3. set \in SUBSET BOOLEAN /\ (TRUE \in set \/ FALSE \in set)
    BY <2>1, TruthsAre DEF Fair
  <2>4. (TRUE \in Opposite(set) <=> FALSE \in set) /\ (FALSE \in Opposite(set) <=> TRUE \in set)
    BY <2>3, OppositeIs
  <2>5. (TRUE \in E <=> FALSE \in set) /\ (FALSE \in E <=> TRUE \in set)
    <3> HIDE DEF opp, set
    <3>1. \A i : i \in 1..n <=> i = 1
      BY <1>5
    <3>2. (TRUE \in E <=> TRUE \in opp[1]) /\ (FALSE \in E <=> FALSE \in opp[1])
      BY <1>2, <3>1
    <3> QED BY <2>2, <2>4, <3>2
  <2>6. parts # Absent
    BY <1>5
  <2> HIDE DEF result, set, opp
  <2>7. Fair(Negated(result), E, \E i \in 1..n : i \in faulty)
    <3>1. CASE result = "true"
      <4>1. set = {TRUE} /\ Negated(result) = "false"
        BY <2>1, <3>1 DEF Fair, Negated
      <4> QED BY <1>2, <1>3, <2>5, <4>1 DEF Fair, Decided
    <3>2. CASE result = "false"
      <4>1. set = {FALSE} /\ Negated(result) = "true"
        BY <2>1, <3>2 DEF Fair, Negated
      <4> QED BY <1>2, <1>3, <2>5, <4>1 DEF Fair, Decided
    <3>3. CASE result \notin Decided
      <4>1. 1 \in faulty /\ Negated(result) = result /\ result # "true" /\ result # "false"
        BY <2>1, <3>3 DEF Fair, Negated, Decided
      <4>2. \E i \in 1..n : i \in faulty
        BY <1>5, <4>1
      <4> QED BY <1>2, <1>3, <2>3, <2>5, <4>1, <4>2 DEF Fair
    <3> QED BY <3>1, <3>2, <3>3 DEF Decided
  <2> QED BY <2>6, <2>7 DEF E, opp, result
<1>6. n = 0 \/ n = 1
  OBVIOUS
<1> QED BY <1>4, <1>5, <1>6

(* No parts have no results.                                               *)
LEMMA ResultsOfNone ==
  ASSUME NEW S, NEW parts \in Seq(S)
  PROVE  /\ DOMAIN parts = 1..Len(parts) /\ (parts = <<>> <=> Len(parts) = 0)
         /\ \A results : Of(results, parts) = <<>> <=> Len(parts) = 0
<1> DEFINE n == Len(parts)
<1>1. n \in Nat /\ DOMAIN parts = 1..n /\ (parts = <<>> <=> n = 0)
  OBVIOUS
<1>2. ASSUME NEW results PROVE Of(results, parts) = <<>> <=> n = 0
  <2> DEFINE V == {results[parts[i]] : i \in 1..n}
             rs == Of(results, parts)
  <2>1. rs = [i \in 1..n |-> results[parts[i]]]
    BY <1>1 DEF Of
  <2>2. \A i \in 1..n : results[parts[i]] \in V
    OBVIOUS
  <2> HIDE DEF n, V, rs
  <2>3. rs \in [1..n -> V]
    BY <2>1, <2>2
  <2>4. rs \in Seq(V) /\ Len(rs) = n
    BY <1>1, <2>3
  <2>5. rs = <<>> <=> n = 0
    BY <2>4
  <2> QED BY <2>5 DEF rs
<1> QED BY <1>1, <1>2

(* No condition makes an answer out of an error.                           *)
LEMMA ConditionIsFair ==
  ASSUME NEW r, NEW c, NEW cond \in Trees
  PROVE  Fair(evaluateCondition(cond, r, c), Possible(cond, r, c), Faulty(cond, r, c))
<1>1. PICK e : \A t \in Trees : e[t] = Composed(t, e, r, c) /\ evaluateCondition(t, r, c) = e[t]
  BY ConditionResults
<1>2. PICK p : \A t \in Trees : p[t] = CouldBe(t, p, r, c) /\ Possible(t, r, c) = p[t]
  BY ConditionPossibilities
<1>3. PICK f \in [Trees -> BOOLEAN] :
        \A t \in Trees : /\ f[t] <=> FaultyHere(t, r, c) \/ FaultyInside(t, f)
                         /\ Faulty(t, r, c) = f[t]
  BY ConditionFaults
<1> DEFINE S == {t \in Trees : Fair(e[t], p[t], f[t])}
<1>4. ASSUME NEW t \in Trees, ConditionBelow[t] \subseteq S PROVE t \in S
  <2> DEFINE In(parts) == {i \in DOMAIN parts : f[parts[i]]}
             Some(parts) == \E i \in 1..Len(parts) : i \in In(parts)
             a == FirstOther(Of(e, t.all), "true")
             b == AnyOf(Of(e, t.any))
             n == IF t.not = Absent THEN "true" ELSE Negated(e[t.not[1]])
             own == OwnLeaf(t, r, c)
             A == Everywhere(Of(p, t.all))
             B == Somewhere(Of(p, t.any))
             N == Everywhere(Opposites(Of(p, t.not)))
             L == IF FaultyHere(t, r, c) THEN BOOLEAN
                  ELSE {t.leaf # Absent => Leaf(t.leaf[1], r, c) = "true"}
  <2>1. /\ t.all \in Seq(Trees) /\ t.any \in Seq(Trees) /\ t.not \in Seq(Trees)
        /\ Len(t.not) \in 0..1
    <3>1. t.not \in Seq(Trees) /\ Len(t.not) <= 1
      BY PartsAreBelow
    <3> DEFINE m == Len(t.not)
    <3>2. m \in Nat /\ m <= 1
      BY <3>1
    <3> HIDE DEF m
    <3>4. m \in 0..1
      BY <3>2
    <3>3. Len(t.not) \in 0..1
      BY <3>4 DEF m
    <3> QED BY <3>1, <3>3, PartsAreBelow
  <2>2. ASSUME NEW parts \in Seq(Trees),
               \A i \in DOMAIN parts : \E k \in DOMAIN PartsOf(t) : PartsOf(t)[k] = parts[i]
        PROVE  /\ \A i \in 1..Len(parts) : Fair(e[parts[i]], p[parts[i]], i \in In(parts))
               /\ Some(parts) => FaultyInside(t, f)
    <3>1. ASSUME NEW i \in 1..Len(parts) PROVE Fair(e[parts[i]], p[parts[i]], f[parts[i]])
      <4>1. PICK k \in DOMAIN PartsOf(t) : PartsOf(t)[k] = parts[i]
        BY <2>2
      <4>2. parts[i] \in S
        BY <1>4, <4>1, PartsAreBelow
      <4> QED BY <4>2
    <3>2. \A i \in 1..Len(parts) : i \in In(parts) <=> f[parts[i]]
      OBVIOUS
    <3>3. Some(parts) => FaultyInside(t, f)
      BY <2>2, <3>2 DEF FaultyInside
    <3> HIDE DEF In
    <3>4. \A i \in 1..Len(parts) : Fair(e[parts[i]], p[parts[i]], i \in In(parts))
      BY <3>1, <3>2 DEF Fair
    <3> QED BY <3>3, <3>4
  <2> HIDE DEF In
  <2>3. Fair(a, A, Some(t.all)) /\ (Some(t.all) => FaultyInside(t, f))
    <3>1. /\ \A i \in 1..Len(t.all) : Fair(e[t.all[i]], p[t.all[i]], i \in In(t.all))
          /\ Some(t.all) => FaultyInside(t, f)
      BY <2>1, <2>2, PartsAreBelow
    <3> DEFINE rs == Of(e, t.all)
               ss == Of(p, t.all)
               m == Len(t.all)
               F == In(t.all)
    <3>2. /\ m \in Nat /\ DOMAIN rs = 1..m /\ DOMAIN ss = 1..m
          /\ \A i \in 1..m : rs[i] = e[t.all[i]] /\ ss[i] = p[t.all[i]]
      BY <2>1 DEF Of
    <3>3. \A i \in 1..m : Fair(rs[i], ss[i], i \in F)
      BY <3>1, <3>2
    <3> HIDE DEF rs, ss, m, F
    <3>4. Fair(FirstOther(rs, "true"), Everywhere(ss), \E i \in 1..m : i \in F)
      BY <3>2, <3>3, AllFair
    <3> QED BY <3>1, <3>4 DEF rs, ss, m, F
  <2>4. Fair(b, B, Some(t.any)) /\ (Some(t.any) => FaultyInside(t, f))
    <3>1. /\ \A i \in 1..Len(t.any) : Fair(e[t.any[i]], p[t.any[i]], i \in In(t.any))
          /\ Some(t.any) => FaultyInside(t, f)
      BY <2>1, <2>2, PartsAreBelow
    <3> DEFINE rs == Of(e, t.any)
               ss == Of(p, t.any)
               m == Len(t.any)
               F == In(t.any)
    <3>2. /\ m \in Nat /\ DOMAIN rs = 1..m /\ DOMAIN ss = 1..m
          /\ \A i \in 1..m : rs[i] = e[t.any[i]] /\ ss[i] = p[t.any[i]]
      BY <2>1 DEF Of
    <3>5. (rs = <<>> <=> m = 0) /\ (ss = <<>> <=> m = 0)
      BY <2>1, ResultsOfNone
    <3>3. \A i \in 1..m : Fair(rs[i], ss[i], i \in F)
      BY <3>1, <3>2
    <3> HIDE DEF rs, ss, m, F
    <3>4. Fair(AnyOf(rs), Somewhere(ss), \E i \in 1..m : i \in F)
      BY <3>2, <3>3, <3>5, AnyFair
    <3> QED BY <3>1, <3>4 DEF rs, ss, m, F
  <2>5. Fair(n, N, Some(t.not)) /\ (Some(t.not) => FaultyInside(t, f))
    <3>1. /\ \A i \in 1..Len(t.not) : Fair(e[t.not[i]], p[t.not[i]], i \in In(t.not))
          /\ Some(t.not) => FaultyInside(t, f)
      BY <2>1, <2>2, PartsAreBelow
    <3> DEFINE parts == t.not
               m == Len(parts)
               F == In(parts)
    <3>2. m \in 0..1 /\ DOMAIN parts = 1..m /\ (parts = Absent <=> m = 0)
      BY <2>1, ResultsOfNone DEF Absent
    <3>3. PartsFair(parts, m, e, p, F)
      BY <3>1 DEF PartsFair
    <3> HIDE DEF parts, m, F
    <3>4. Fair(IF parts = Absent THEN "true" ELSE Negated(e[parts[1]]),
               Everywhere(Opposites(Of(p, parts))), \E i \in 1..m : i \in F)
      BY <3>2, <3>3, NotFair
    <3> QED BY <3>1, <3>4 DEF parts, m, F
  <2>6. Fair(own, L, FaultyHere(t, r, c))
    BY LeafFair
  <2>7. Composed(t, e, r, c) = FirstOther(<<a, b, n, own>>, "true")
    BY DEF Composed
  <2>8. CouldBe(t, p, r, c) = Everywhere(<<A, B, N, L>>)
    BY DEF CouldBe
  <2> HIDE DEF a, b, n, own, A, B, N, L, Some
  <2> DEFINE results == <<a, b, n, own>>
             sets == <<A, B, N, L>>
             bad == {i \in 1..4 : \/ i = 1 /\ Some(t.all)
                                  \/ i = 2 /\ Some(t.any)
                                  \/ i = 3 /\ Some(t.not)
                                  \/ i = 4 /\ FaultyHere(t, r, c)}
  <2>9. /\ 1 \in bad <=> Some(t.all)
        /\ 2 \in bad <=> Some(t.any)
        /\ 3 \in bad <=> Some(t.not)
        /\ 4 \in bad <=> FaultyHere(t, r, c)
    OBVIOUS
  <2>10. \A i \in 1..4 : Fair(results[i], sets[i], i \in bad)
    <3> HIDE DEF bad
    <3>1. /\ Fair(a, A, 1 \in bad) /\ Fair(b, B, 2 \in bad) /\ Fair(n, N, 3 \in bad)
          /\ Fair(own, L, 4 \in bad)
      BY <2>3, <2>4, <2>5, <2>6, <2>9 DEF Fair
    <3>2. \A i \in 1..4 : i = 1 \/ i = 2 \/ i = 3 \/ i = 4
      OBVIOUS
    <3> QED BY <3>1, <3>2
  <2>11. DOMAIN results = 1..4 /\ DOMAIN sets = 1..4
    OBVIOUS
  <2>12. (\E i \in 1..4 : i \in bad) => FaultyHere(t, r, c) \/ FaultyInside(t, f)
    BY <2>3, <2>4, <2>5
  <2> HIDE DEF results, sets, bad
  <2>13. Fair(FirstOther(results, "true"), Everywhere(sets), \E i \in 1..4 : i \in bad)
    <3> DEFINE m == 4
    <3>1. /\ m \in Nat /\ DOMAIN results = 1..m /\ DOMAIN sets = 1..m
          /\ \A i \in 1..m : Fair(results[i], sets[i], i \in bad)
      BY <2>10, <2>11
    <3> HIDE DEF m
    <3>2. Fair(FirstOther(results, "true"), Everywhere(sets), \E i \in 1..m : i \in bad)
      BY <3>1, AllFair
    <3> QED BY <3>2 DEF m
  <2>14. e[t] = FirstOther(results, "true") /\ p[t] = Everywhere(sets)
    BY <1>1, <1>2, <2>7, <2>8 DEF results, sets
  <2>15. (\E i \in 1..4 : i \in bad) => f[t]
    BY <1>3, <2>12
  <2>16. Fair(e[t], p[t], f[t])
    BY <2>13, <2>14, <2>15 DEF Fair
  <2> QED BY <2>16
<1> HIDE DEF S
<1>5. Trees \subseteq S
  BY <1>4, ConditionsAreTrees, TreeInduction
<1>6. Fair(e[cond], p[cond], f[cond])
  BY <1>5 DEF S
<1> QED BY <1>1, <1>2, <1>3, <1>6

(* What may be asked about values, and that the answer is the one asked for. *)
ValuesAsked ==
  /\ question.of = "tree" =>
       question.tree \in Trees /\ question.request \in TreeRequests /\ question.cap \in TreeCapabilities
  /\ question.of = "comparison" => question.found = Absent \/ \E v \in Values : question.found = <<v>>
  /\ question.of = "spec" => question.value \in Values /\ question.spec \in Specs

ValuesInv ==
  /\ answer.of = "tree" =>
       /\ question.tree \in Trees
       /\ answer.truth = evaluateCondition(question.tree, question.request, question.cap)
  /\ answer.of = "comparison" =>
       /\ question.found = Absent \/ \E v \in Values : question.found = <<v>>
       /\ answer.truth = compareConditionValue(question.found, question.leaf)
  /\ answer.of = "spec" =>
       /\ question.value \in Values /\ question.spec \in Specs
       /\ answer.valid = validateArgument(question.value, question.spec)

(* Every answer about a condition or a spec is the one the code gives to a *)
(* question that may be asked (evaluateCondition, compareConditionValue,   *)
(* validateArgument, engine.go:145-310, 480-570).                          *)
LEMMA ValuesInvariant == ValuesSpec => [](ValuesAsked /\ ValuesInv)
<1>1. ValuesInit => ValuesAsked /\ ValuesInv
  <2> SUFFICES ASSUME ValuesInit PROVE ValuesAsked /\ ValuesInv
    OBVIOUS
  <2>1. answer.of = "none"
    BY DEF ValuesInit, Unanswered
  <2>2. ValuesAsked
    <3>1. CASE question \in [of : {"tree"}, tree : Trees, request : TreeRequests,
                             cap : TreeCapabilities]
      BY <3>1 DEF ValuesAsked
    <3>2. CASE question \in [of : {"comparison"}, found : {Absent} \cup {<<v>> : v \in Values},
                             leaf : Comparisons]
      <4>1. question.of = "comparison" /\ question.found \in {Absent} \cup {<<v>> : v \in Values}
        BY <3>2
      <4>2. question.found = Absent \/ \E v \in Values : question.found = <<v>>
        BY <4>1
      <4> QED BY <4>1, <4>2 DEF ValuesAsked
    <3>3. CASE question \in [of : {"spec"}, value : Values, spec : Specs]
      BY <3>3 DEF ValuesAsked
    <3> QED BY <3>1, <3>2, <3>3 DEF ValuesInit
  <2> QED BY <2>1, <2>2 DEF ValuesInv
<1>2. ValuesAsked /\ ValuesInv /\ [ValuesNext]_ruleVars => (ValuesAsked /\ ValuesInv)'
  <2> SUFFICES ASSUME ValuesAsked, ValuesInv, [ValuesNext]_ruleVars PROVE ValuesAsked' /\ ValuesInv'
    OBVIOUS
  <2>1. question' = question
    BY DEF ValuesNext, ruleVars, Ask, AskTree, AskComparison, AskSpec
  <2>2. ValuesAsked'
    BY <2>1 DEF ValuesAsked
  <2>3. CASE AskTree
    BY <2>1, <2>3 DEF AskTree, Ask, ValuesAsked, ValuesInv
  <2>4. CASE AskComparison
    BY <2>1, <2>4 DEF AskComparison, Ask, ValuesAsked, ValuesInv
  <2>5. CASE AskSpec
    BY <2>1, <2>5 DEF AskSpec, Ask, ValuesAsked, ValuesInv
  <2>6. CASE UNCHANGED ruleVars
    BY <2>2, <2>6 DEF ruleVars, ValuesInv
  <2> QED BY <2>2, <2>3, <2>4, <2>5, <2>6 DEF ValuesNext
<1> QED BY <1>1, <1>2, PTL DEF ValuesSpec

(* A condition of any depth is only true or false if it would be so        *)
(* whatever its faulty parts said, and in error only if it has one         *)
(* (evaluateCondition, engine.go:145-205).                                 *)
THEOREM ErrorsNeverDecide == ValuesSpec => []ErrorsDecideNothing
<1>1. ASSUME ValuesInv PROVE ErrorsDecideNothing
  <2> SUFFICES ASSUME answer.of = "tree" PROVE ErrorsDecideNothing
    BY DEF ErrorsDecideNothing
  <2> DEFINE tree == question.tree
             r == question.request
             c == question.cap
             truth == answer.truth
  <2>1. tree \in Trees /\ truth = evaluateCondition(tree, r, c)
    BY <1>1 DEF ValuesInv
  <2>2. Fair(truth, Possible(tree, r, c), Faulty(tree, r, c))
    BY <2>1, ConditionIsFair
  <2> HIDE DEF tree, r, c, truth
  <2>3. CASE truth = "true"
    <3>1. Possible(tree, r, c) = {truth = "true"} /\ truth \in Decided
      BY <2>2, <2>3 DEF Fair, Decided
    <3> QED BY <3>1 DEF ErrorsDecideNothing, tree, r, c, truth
  <2>4. CASE truth = "false"
    <3>1. Possible(tree, r, c) = {truth = "true"} /\ truth \in Decided
      <4>1. truth \in Decided /\ Possible(tree, r, c) = {FALSE}
        BY <2>2, <2>4 DEF Fair, Decided
      <4>2. (truth = "true") = FALSE
        BY <2>4
      <4> QED BY <4>1, <4>2
    <3> QED BY <3>1 DEF ErrorsDecideNothing, tree, r, c, truth
  <2>5. CASE truth \notin Decided
    <3>1. Faulty(tree, r, c)
      BY <2>2, <2>5 DEF Fair
    <3> QED BY <2>5, <3>1 DEF ErrorsDecideNothing, tree, r, c, truth
  <2> QED BY <2>3, <2>4, <2>5 DEF Decided
<1> QED BY ValuesInvariant, <1>1, PTL

(* A value with its spec is a tree too.                                    *)
Directly(inner, part) ==
  LET v == part[1] s == part[2] IN
  \/ /\ s.items # Absent /\ Is(v, "array")
     /\ \E i \in DOMAIN v.items : inner = <<v.items[i], s.items[1]>>
  \/ /\ Is(v, "object")
     /\ \E n \in DOMAIN v.fields \cap DOMAIN s.properties : inner = <<v.fields[n], s.properties[n]>>

NestedDepth == [part \in Nested |-> Depth(part[2])]
NestedBelow == [part \in Nested |-> {inner \in Nested : Directly(inner, part)}]

(* What is directly inside of a value and its spec is below them.          *)
LEMMA InsideIsNested ==
  ASSUME NEW v \in Values, NEW s \in Specs
  PROVE  /\ <<v, s>> \in Nested /\ Depth(s) \in Nat /\ NestedBelow[<<v, s>>] \subseteq Nested
         /\ s.items # Absent /\ Is(v, "array") =>
              \A i \in DOMAIN v.items : <<v.items[i], s.items[1]>> \in NestedBelow[<<v, s>>]
         /\ Is(v, "object") =>
              \A n \in DOMAIN v.fields \cap DOMAIN s.properties :
                <<v.fields[n], s.properties[n]>> \in NestedBelow[<<v, s>>]
<1>1. <<v, s>> \in Nested /\ Depth(s) \in Nat
  BY SpecsAssumption DEF Nested
<1>2. NestedBelow[<<v, s>>] = {inner \in Nested : Directly(inner, <<v, s>>)}
  BY <1>1 DEF NestedBelow
<1>3. ASSUME s.items # Absent, Is(v, "array"), NEW i \in DOMAIN v.items
      PROVE  <<v.items[i], s.items[1]>> \in NestedBelow[<<v, s>>]
  <2> DEFINE inner == <<v.items[i], s.items[1]>>
  <2>1. v.items[i] \in Values /\ s.items[1] \in Specs
    BY <1>3, ValuesAssumption, SpecsAssumption
  <2>2. inner \in Nested
    BY <2>1 DEF Nested
  <2>3. Directly(inner, <<v, s>>)
    BY <1>3 DEF Directly
  <2> QED BY <1>2, <2>2, <2>3
<1>4. ASSUME Is(v, "object"), NEW n \in DOMAIN v.fields \cap DOMAIN s.properties
      PROVE  <<v.fields[n], s.properties[n]>> \in NestedBelow[<<v, s>>]
  <2> DEFINE inner == <<v.fields[n], s.properties[n]>>
  <2>1. v.fields[n] \in Values /\ s.properties[n] \in Specs
    BY <1>4, ValuesAssumption, SpecsAssumption
  <2>2. inner \in Nested
    BY <2>1 DEF Nested
  <2>3. Directly(inner, <<v, s>>)
    BY <1>4 DEF Directly
  <2> QED BY <1>2, <2>2, <2>3
<1> QED BY <1>1, <1>2, <1>3, <1>4

(* So values with their specs are trees.                                   *)
LEMMA NestedAreTrees == AreTrees(Nested, NestedDepth, NestedBelow)
<1>1. NestedDepth \in [Nested -> Nat]
  BY SpecsAssumption DEF NestedDepth, Nested
<1>2. NestedBelow \in [Nested -> SUBSET Nested]
  BY DEF NestedBelow
<1>3. ASSUME NEW part \in Nested, NEW inner \in NestedBelow[part]
      PROVE  NestedDepth[inner] < NestedDepth[part]
  <2>1. PICK v \in Values, s \in Specs : part = <<v, s>>
    BY DEF Nested
  <2>2. inner \in Nested /\ Directly(inner, <<v, s>>)
    BY <2>1 DEF NestedBelow
  <2>3. NestedDepth[inner] = Depth(inner[2]) /\ NestedDepth[part] = Depth(s)
    BY <2>1, <2>2 DEF NestedDepth
  <2>4. \/ s.items # Absent /\ inner[2] = s.items[1]
        \/ \E n \in DOMAIN s.properties : inner[2] = s.properties[n]
    BY <2>2 DEF Directly
  <2> QED BY <2>3, <2>4, SpecsAssumption
<1> QED BY <1>1, <1>2, <1>3 DEF AreTrees

(* What a spec asks for, each value by what is directly inside of it.      *)
Validly(part, valid) == ValidHere(part[1], part[2]) /\ ValidInside(part[1], part[2], valid)

(* What has items or properties asked for is an array or an object.        *)
LEMMA ValidHereShape ==
  ASSUME NEW v, NEW s, ValidHere(v, s)
  PROVE  /\ s.items # Absent => Is(v, "array")
         /\ \A n \in DOMAIN s.properties :
              Is(v, "object") /\ (s.properties[n].required => n \in DOMAIN v.fields)
BY DEF ValidHere

(* What validateArgument says of every value, by what it says inside.      *)
LEMMA ArgumentResults ==
  \E f \in [Nested -> BOOLEAN] :
    \A part \in Nested : f[part] = Validly(part, f) /\ validateArgument(part[1], part[2]) = f[part]
<1> DEFINE V == BOOLEAN
           W == [Nested -> V]
           step == [x \in Nested \X W |-> Validly(x[1], x[2])]
<1>1. IsLocal(Nested, V, NestedBelow, step)
  <2>1. step \in [Nested \X W -> V]
    BY DEF Validly
  <2>2. ASSUME NEW part \in Nested, NEW f \in W, NEW g \in W,
               \A inner \in NestedBelow[part] : f[inner] = g[inner]
        PROVE  step[<<part, f>>] = step[<<part, g>>]
    <3>1. PICK v \in Values, s \in Specs : part = <<v, s>>
      BY DEF Nested
    <3>2. ASSUME ValidHere(v, s) PROVE ValidInside(v, s, f) <=> ValidInside(v, s, g)
      <4>1. s.items # Absent =>
              \A i \in DOMAIN v.items : f[<<v.items[i], s.items[1]>>] = g[<<v.items[i], s.items[1]>>]
        BY <2>2, <3>1, <3>2, ValidHereShape, InsideIsNested
      <4>2. \A n \in DOMAIN s.properties : n \in DOMAIN v.fields =>
              f[<<v.fields[n], s.properties[n]>>] = g[<<v.fields[n], s.properties[n]>>]
        BY <2>2, <3>1, <3>2, ValidHereShape, InsideIsNested
      <4> QED BY <4>1, <4>2 DEF ValidInside
    <3>3. Validly(part, f) = Validly(part, g)
      BY <3>1, <3>2 DEF Validly
    <3> QED BY <3>3
  <2> HIDE DEF step
  <2> QED BY <2>1, <2>2 DEF IsLocal
<1>2. V # {} /\ \A part \in Nested, f \in W : step[<<part, f>>] = Validly(part, f)
  OBVIOUS
<1> HIDE DEF step
<1>3. PICK h \in W : Solves(Nested, step, h)
  <2> HIDE DEF V
  <2> QED BY <1>1, <1>2, NestedAreTrees, TreesHaveValues, Zenon
<1> DEFINE IsResult(f) == f = [part \in Nested |-> Validly(part, f)]
           e == CHOOSE f : IsResult(f)
<1>4. IsResult(h)
  BY <1>2, <1>3 DEF Solves
<1>5. IsResult(e)
  BY <1>4
<1>6. \A part \in Nested : validateArgument(part[1], part[2]) = e[part]
  <2> SUFFICES ASSUME NEW part \in Nested PROVE validateArgument(part[1], part[2]) = e[part]
    OBVIOUS
  <2>1. PICK v \in Values, s \in Specs : part = <<v, s>>
    BY DEF Nested
  <2>2. validateArgument(v, s) = e[<<v, s>>]
    BY DEF validateArgument, Validly
  <2> QED BY <2>1, <2>2
<1> QED
  <2> HIDE DEF e
  <2>1. e \in [Nested -> BOOLEAN] /\ \A part \in Nested : e[part] = Validly(part, e)
    BY <1>5 DEF Validly
  <2> QED BY <1>6, <2>1

(* Nor can the whole spec, however deep it is.                             *)
LEMMA EqualArgumentsValidAlike ==
  ASSUME NEW v \in Values, NEW w \in Values, scalarEqual(v, w), NEW s \in Specs
  PROVE  validateArgument(v, s) = validateArgument(w, s)
<1>1. CASE v = w
  BY <1>1
<1>2. CASE v # w
  <2>1. IntIsWhole(v) /\ IntIsWhole(w)
    BY ValuesAssumption DEF IntIsWhole
  <2>2. ValidHere(v, s) <=> ValidHere(w, s)
    BY <2>1, EqualValuesValidAlike
  <2>3. /\ ~Is(v, "array") /\ ~Is(w, "array") /\ ~Is(v, "object") /\ ~Is(w, "object")
    BY <1>2, EqualNumbers DEF Is
  <2>4. PICK f \in [Nested -> BOOLEAN] :
          \A part \in Nested :
            f[part] = Validly(part, f) /\ validateArgument(part[1], part[2]) = f[part]
    BY ArgumentResults
  <2>5. <<v, s>> \in Nested /\ <<w, s>> \in Nested
    BY DEF Nested
  <2>6. ASSUME NEW x \in Values, ~Is(x, "array"), ~Is(x, "object"), <<x, s>> \in Nested
        PROVE  validateArgument(x, s) \in BOOLEAN /\ (validateArgument(x, s) <=> ValidHere(x, s))
    <3>1. validateArgument(x, s) = f[<<x, s>>] /\ f[<<x, s>>] = Validly(<<x, s>>, f)
      BY <2>4, <2>6
    <3>2. f[<<x, s>>] \in BOOLEAN
      BY <2>6
    <3>3. ValidHere(x, s) => ValidInside(x, s, f)
      BY <2>6, ValidHereShape DEF ValidInside
    <3>4. Validly(<<x, s>>, f) <=> ValidHere(x, s)
      BY <3>3 DEF Validly
    <3> QED BY <3>1, <3>2, <3>4
  <2>7. /\ validateArgument(v, s) \in BOOLEAN /\ (validateArgument(v, s) <=> ValidHere(v, s))
        /\ validateArgument(w, s) \in BOOLEAN /\ (validateArgument(w, s) <=> ValidHere(w, s))
    BY <2>3, <2>5, <2>6
  <2> QED BY <2>2, <2>7
<1> QED BY <1>1, <1>2

(* Equal values get equal answers from every condition and from every      *)
(* spec, at any depth (engine.go:480-671 and 943-963).                     *)
THEOREM EqualValuesAreAlike == ValuesSpec => []EqualValuesAgree
<1>1. ASSUME ValuesInv PROVE EqualValuesAgree
  <2>1. ASSUME answer.of = "comparison", question.found # Absent, NEW v \in Values,
               scalarEqual(v, question.found[1])
        PROVE  compareConditionValue(<<v>>, question.leaf) = answer.truth
    <3>1. PICK w \in Values : question.found = <<w>>
      BY <1>1, <2>1 DEF ValuesInv
    <3>2. answer.truth = compareConditionValue(<<w>>, question.leaf) /\ scalarEqual(v, w)
      BY <1>1, <2>1, <3>1 DEF ValuesInv
    <3> QED BY <3>2, EqualValuesCompareAlike
  <2>2. ASSUME answer.of = "spec", NEW v \in Values, scalarEqual(v, question.value)
        PROVE  validateArgument(v, question.spec) = answer.valid
    <3>1. /\ question.value \in Values /\ question.spec \in Specs
          /\ answer.valid = validateArgument(question.value, question.spec)
      BY <1>1, <2>2 DEF ValuesInv
    <3> QED BY <2>2, <3>1, EqualArgumentsValidAlike
  <2> QED BY <2>1, <2>2 DEF EqualValuesAgree
<1> QED BY ValuesInvariant, <1>1, PTL

(***************************************************************************)
(* What a spec reaches of a value.                                         *)
(***************************************************************************)
ReachedFrom(part, reached) ==
  LET v == part[1]
      s == part[2]
  IN {part}
     \cup (IF s.items = Absent \/ ~Is(v, "array") THEN {}
           ELSE UNION {reached[<<v.items[i], s.items[1]>>] : i \in DOMAIN v.items})
     \cup (IF ~Is(v, "object") THEN {}
           ELSE UNION {reached[<<v.fields[n], s.properties[n]>>] :
                         n \in DOMAIN v.fields \cap DOMAIN s.properties})

(* The members of what is reached.                                         *)
LEMMA ReachedIs ==
  ASSUME NEW v, NEW s, NEW reached, NEW x
  PROVE  x \in ReachedFrom(<<v, s>>, reached) <=>
           \/ x = <<v, s>>
           \/ /\ s.items # Absent /\ Is(v, "array")
              /\ \E i \in DOMAIN v.items : x \in reached[<<v.items[i], s.items[1]>>]
           \/ /\ Is(v, "object")
              /\ \E n \in DOMAIN v.fields \cap DOMAIN s.properties :
                   x \in reached[<<v.fields[n], s.properties[n]>>]
BY Zenon DEF ReachedFrom

(* What is reached from every value, by what is reached inside.            *)
LEMMA PartsReachedBy ==
  \E f : \A part \in Nested :
    f[part] = ReachedFrom(part, f) /\ PartsReached(part[1], part[2]) = f[part]
<1> DEFINE V == SUBSET Nested
           W == [Nested -> V]
           step == [x \in Nested \X W |-> ReachedFrom(x[1], x[2])]
<1>1. ASSUME NEW part \in Nested, NEW f \in W PROVE ReachedFrom(part, f) \in V
  <2>1. PICK v \in Values, s \in Specs : part = <<v, s>>
    BY DEF Nested
  <2>2. s.items # Absent /\ Is(v, "array") =>
          \A i \in DOMAIN v.items : <<v.items[i], s.items[1]>> \in Nested
    BY InsideIsNested
  <2>3. Is(v, "object") =>
          \A n \in DOMAIN v.fields \cap DOMAIN s.properties :
            <<v.fields[n], s.properties[n]>> \in Nested
    BY InsideIsNested
  <2>4. ASSUME NEW x \in ReachedFrom(<<v, s>>, f) PROVE x \in Nested
    <3>1. CASE x = <<v, s>>
      BY <2>1, <3>1
    <3>2. CASE /\ s.items # Absent /\ Is(v, "array")
               /\ \E i \in DOMAIN v.items : x \in f[<<v.items[i], s.items[1]>>]
      BY <2>2, <3>2
    <3>3. CASE /\ Is(v, "object")
               /\ \E n \in DOMAIN v.fields \cap DOMAIN s.properties :
                    x \in f[<<v.fields[n], s.properties[n]>>]
      BY <2>3, <3>3
    <3> QED BY <2>4, <3>1, <3>2, <3>3, ReachedIs
  <2> QED BY <2>1, <2>4
<1>2. IsLocal(Nested, V, NestedBelow, step)
  <2>1. step \in [Nested \X W -> V]
    <3> HIDE DEF V, W
    <3>1. \A x \in Nested \X W : x[1] \in Nested /\ x[2] \in W
      OBVIOUS
    <3>2. \A x \in Nested \X W : ReachedFrom(x[1], x[2]) \in V
      BY <1>1, <3>1
    <3> QED BY <3>2
  <2>2. ASSUME NEW part \in Nested, NEW f \in W, NEW g \in W,
               \A inner \in NestedBelow[part] : f[inner] = g[inner]
        PROVE  step[<<part, f>>] = step[<<part, g>>]
    <3>1. PICK v \in Values, s \in Specs : part = <<v, s>>
      BY DEF Nested
    <3>2. s.items # Absent /\ Is(v, "array") =>
            \A i \in DOMAIN v.items : f[<<v.items[i], s.items[1]>>] = g[<<v.items[i], s.items[1]>>]
      BY <2>2, <3>1, InsideIsNested
    <3>3. Is(v, "object") =>
            \A n \in DOMAIN v.fields \cap DOMAIN s.properties :
              f[<<v.fields[n], s.properties[n]>>] = g[<<v.fields[n], s.properties[n]>>]
      BY <2>2, <3>1, InsideIsNested
    <3>4. ASSUME NEW x PROVE x \in ReachedFrom(<<v, s>>, f) <=> x \in ReachedFrom(<<v, s>>, g)
      <4>1. x \in ReachedFrom(<<v, s>>, f) <=>
              \/ x = <<v, s>>
              \/ /\ s.items # Absent /\ Is(v, "array")
                 /\ \E i \in DOMAIN v.items : x \in f[<<v.items[i], s.items[1]>>]
              \/ /\ Is(v, "object")
                 /\ \E n \in DOMAIN v.fields \cap DOMAIN s.properties :
                      x \in f[<<v.fields[n], s.properties[n]>>]
        BY ReachedIs, Zenon
      <4>2. x \in ReachedFrom(<<v, s>>, g) <=>
              \/ x = <<v, s>>
              \/ /\ s.items # Absent /\ Is(v, "array")
                 /\ \E i \in DOMAIN v.items : x \in g[<<v.items[i], s.items[1]>>]
              \/ /\ Is(v, "object")
                 /\ \E n \in DOMAIN v.fields \cap DOMAIN s.properties :
                      x \in g[<<v.fields[n], s.properties[n]>>]
        BY ReachedIs, Zenon
      <4> QED BY <3>2, <3>3, <4>1, <4>2
    <3>5. ReachedFrom(part, f) = ReachedFrom(part, g)
      BY <3>1, <3>4, <1>1
    <3> QED BY <3>5
  <2> HIDE DEF step
  <2> QED BY <2>1, <2>2 DEF IsLocal
<1>3. V # {} /\ \A part \in Nested, f \in W : step[<<part, f>>] = ReachedFrom(part, f)
  OBVIOUS
<1> HIDE DEF step
<1>4. PICK h \in W : Solves(Nested, step, h)
  <2> HIDE DEF V
  <2> QED BY <1>2, <1>3, NestedAreTrees, TreesHaveValues, Zenon
<1> DEFINE IsResult(f) == f = [part \in Nested |-> ReachedFrom(part, f)]
           e == CHOOSE f : IsResult(f)
<1>5. IsResult(h)
  BY <1>3, <1>4 DEF Solves
<1>6. IsResult(e)
  BY <1>5
<1>7. \A part \in Nested : PartsReached(part[1], part[2]) = e[part]
  <2> SUFFICES ASSUME NEW part \in Nested PROVE PartsReached(part[1], part[2]) = e[part]
    OBVIOUS
  <2>1. PICK v \in Values, s \in Specs : part = <<v, s>>
    BY DEF Nested
  <2>2. PartsReached(v, s) = e[<<v, s>>]
    BY DEF PartsReached, ReachedFrom
  <2> QED BY <2>1, <2>2
<1> QED
  <2> HIDE DEF e
  <2>1. \A part \in Nested : e[part] = ReachedFrom(part, e)
    BY <1>6
  <2> QED BY <1>7, <2>1

(* What a spec promises of a value that is valid.                          *)
AsSpecified(part) ==
  LET value == part[1]
      spec == part[2]
  IN /\ spec.type # "" => argumentTypeMatches(value, spec.type)
     /\ \A n \in DOMAIN spec.properties :
          spec.properties[n].required => n \in DOMAIN value.fields
     /\ spec.enum # <<>> => \E i \in DOMAIN spec.enum : scalarEqual(value, spec.enum[i])

(* A valid value is as its spec asks, one level deep.                      *)
LEMMA ValidIsAsSpecified ==
  ASSUME NEW v, NEW s, ValidHere(v, s)
  PROVE  AsSpecified(<<v, s>>)
BY DEF ValidHere, AsSpecified

(* Of a valid value, all that its spec reaches is as it promises.          *)
LEMMA ValidReachesValid ==
  ASSUME NEW v0 \in Values, NEW s0 \in Specs, validateArgument(v0, s0)
  PROVE  \A x \in PartsReached(v0, s0) : AsSpecified(x)
<1>1. PICK valid \in [Nested -> BOOLEAN] :
        \A part \in Nested :
          valid[part] = Validly(part, valid) /\ validateArgument(part[1], part[2]) = valid[part]
  BY ArgumentResults
<1>2. PICK reached :
        \A part \in Nested :
          reached[part] = ReachedFrom(part, reached) /\ PartsReached(part[1], part[2]) = reached[part]
  BY PartsReachedBy
<1> DEFINE S == {part \in Nested : valid[part] => \A x \in reached[part] : AsSpecified(x)}
<1>3. ASSUME NEW part \in Nested, NestedBelow[part] \subseteq S PROVE part \in S
  <2> SUFFICES ASSUME valid[part], NEW x \in reached[part] PROVE AsSpecified(x)
    OBVIOUS
  <2>1. PICK v \in Values, s \in Specs : part = <<v, s>>
    BY DEF Nested
  <2>2. ValidHere(v, s) /\ ValidInside(v, s, valid)
    BY <1>1, <2>1 DEF Validly
  <2>3. x \in ReachedFrom(<<v, s>>, reached)
    BY <1>2, <2>1
  <2>4. \A inner \in NestedBelow[<<v, s>>] :
          valid[inner] => \A y \in reached[inner] : AsSpecified(y)
    BY <1>3, <2>1
  <2> HIDE DEF S
  <2>5. CASE x = <<v, s>>
    BY <2>2, <2>5, ValidIsAsSpecified
  <2>6. CASE /\ s.items # Absent /\ Is(v, "array")
             /\ \E i \in DOMAIN v.items : x \in reached[<<v.items[i], s.items[1]>>]
    <3>1. PICK i \in DOMAIN v.items : x \in reached[<<v.items[i], s.items[1]>>]
      BY <2>6
    <3>2. valid[<<v.items[i], s.items[1]>>]
      BY <2>2, <2>6 DEF ValidInside
    <3>3. <<v.items[i], s.items[1]>> \in NestedBelow[<<v, s>>]
      BY <2>6, InsideIsNested
    <3> QED BY <2>4, <3>1, <3>2, <3>3
  <2>7. CASE /\ Is(v, "object")
             /\ \E n \in DOMAIN v.fields \cap DOMAIN s.properties :
                  x \in reached[<<v.fields[n], s.properties[n]>>]
    <3>1. PICK n \in DOMAIN v.fields \cap DOMAIN s.properties :
            x \in reached[<<v.fields[n], s.properties[n]>>]
      BY <2>7
    <3>2. valid[<<v.fields[n], s.properties[n]>>]
      BY <2>2 DEF ValidInside
    <3>3. <<v.fields[n], s.properties[n]>> \in NestedBelow[<<v, s>>]
      BY <2>7, InsideIsNested
    <3> QED BY <2>4, <3>1, <3>2, <3>3
  <2>8. \/ x = <<v, s>>
        \/ /\ s.items # Absent /\ Is(v, "array")
           /\ \E i \in DOMAIN v.items : x \in reached[<<v.items[i], s.items[1]>>]
        \/ /\ Is(v, "object")
           /\ \E n \in DOMAIN v.fields \cap DOMAIN s.properties :
                x \in reached[<<v.fields[n], s.properties[n]>>]
    BY <2>3, ReachedIs, Zenon
  <2> QED BY <2>5, <2>6, <2>7, <2>8
<1> HIDE DEF S
<1>4. Nested \subseteq S
  BY <1>3, NestedAreTrees, TreeInduction
<1>5. <<v0, s0>> \in Nested
  BY DEF Nested
<1>6. valid[<<v0, s0>>] /\ PartsReached(v0, s0) = reached[<<v0, s0>>]
  BY <1>1, <1>2, <1>5
<1> QED BY <1>4, <1>5, <1>6 DEF S

(* A valid argument is as its spec asks at every depth                     *)
(* (validateArgument, engine.go:480-570).                                  *)
THEOREM ValidThroughout == ValuesSpec => []ValidAtEveryDepth
<1>1. ASSUME ValuesInv PROVE ValidAtEveryDepth
  <2> SUFFICES ASSUME answer.of = "spec", answer.valid PROVE ValidAtEveryDepth
    BY DEF ValidAtEveryDepth
  <2>1. /\ question.value \in Values /\ question.spec \in Specs
        /\ validateArgument(question.value, question.spec)
    BY <1>1 DEF ValuesInv
  <2>2. \A part \in PartsReached(question.value, question.spec) : AsSpecified(part)
    BY <2>1, ValidReachesValid
  <2> QED BY <2>2 DEF ValidAtEveryDepth, AsSpecified
<1> QED BY ValuesInvariant, <1>1, PTL
===============================================================================
