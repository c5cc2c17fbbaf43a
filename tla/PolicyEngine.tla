----------------------------- MODULE PolicyEngine -----------------------------
(***************************************************************************)
(* policy.Engine.Evaluate, in small steps: the loop over the capabilities, *)
(* the condition, the argument schema (a Go map, so in any order), the     *)
(* other constraints and the decision.  What the leaves of a policy mean   *)
(* (conditions, argument specs, patterns) comes from the constants; the    *)
(* modules PolicyValues and PolicyMatch define them.  A text is a sequence *)
(* of characters, a number counts tenths.                                  *)
(***************************************************************************)
EXTENDS Naturals, Integers, Sequences

CONSTANTS
  Policies,              \* policy files
  Requests,              \* calls, with the subject that makes them
  Holds(_, _, _),        \* evaluateCondition: "true", "false" or "error"
  ValidArgument(_, _),   \* validateArgument: the value satisfies the spec
  MatchGlob(_, _),       \* of path patterns
  MatchShellGlob(_, _),  \* of command patterns
  MatchDomain(_, _),     \* of domain patterns
  NormalPath(_),         \* filepath.Clean of a path that is not blank
  BlockedHost(_),        \* netguard.BlockedHostReason
  IntOf(_),              \* int(v) of a number; beyond int's range the build decides
  HostFromURL(_)         \* url.Parse and Hostname, the empty text on an error

ASSUME PoliciesAssumption ==
  \A p \in Policies :
    /\ Len(p.capabilities) \in Nat
    /\ DOMAIN p.capabilities = 1..Len(p.capabilities)

VARIABLES
  policy, request,
  at,         \* the capability looked at
  stage,      \* what is checked of it
  todo,       \* arguments of its schema not yet checked
  decision    \* the result: decision, rule and reason

vars == <<policy, request, at, stage, todo, decision>>

Undecided == [decision |-> "none", rule |-> 0, reason |-> "none"]

call == request.call
cap == policy.capabilities[at]
limits == cap.constraints

(* Case and white space around the text do not count.                      *)
normalizeDecision(raw) ==
  CASE raw \in {"allow", " ALLOW "} -> "allow"
    [] raw \in {"ask", " Ask "} -> "ask"
    [] OTHER -> "deny"

(***************************************************************************)
(* Does the capability apply.                                              *)
(***************************************************************************)
capabilityMatches(c, r) == c.tool = r.call.tool /\ r.call.action \in c.actions

scopeMatches(scope, subject) ==
  /\ scope.roles # {} => subject.role \in scope.roles
  /\ scope.sessions # {} => subject.session \in scope.sessions
  /\ scope.labels # {} => scope.labels \cap subject.labels # {}

conditionOf(c, r) ==
  IF c.conditions = <<>> THEN "true" ELSE Holds(c.conditions[1], r, c)

(***************************************************************************)
(* The constraints.                                                        *)
(***************************************************************************)
Has(args, n) == n \in DOMAIN args
TextOf(args, n) ==
  IF Has(args, n) /\ args[n].kind = "string" THEN args[n].text ELSE <<>>

(* A deny pattern decides, then the allow patterns, if there are any.      *)
Admitted(rule, value, Match(_, _)) ==
  /\ \A pattern \in rule.deny : ~Match(pattern, value)
  /\ rule.allow = {} \/ \E pattern \in rule.allow : Match(pattern, value)

checkAllowDenyGlob(rule, path) == Admitted(rule, path, MatchGlob)
checkAllowDenyShell(rule, command) == Admitted(rule, command, MatchShellGlob)
checkDomain(rule, domain) == ~BlockedHost(domain) /\ Admitted(rule, domain, MatchDomain)

(* Mutant: an allow pattern decides before a deny pattern.                 *)
pathAllowed(c, args) ==
  Has(args, "path") =>
    \/ \E pattern \in c.paths.allow : MatchGlob(pattern, NormalPath(TextOf(args, "path")))
    \/ c.paths.allow = {}

pathOK(c, args) ==
  Has(args, "path") => checkAllowDenyGlob(c.paths, NormalPath(TextOf(args, "path")))

commandOK(c, args) ==
  Has(args, "command") => checkAllowDenyShell(c.commands, TextOf(args, "command"))

FirstText(names, args) == SelectSeq(names, LAMBDA n : TextOf(args, n) # <<>>)

extractDomain(args) ==
  LET named == FirstText(<<"domain", "host", "url">>, args) IN
  CASE named = <<>> -> <<>>
    [] named = <<"url">> -> HostFromURL(TextOf(args, "url"))
    [] OTHER -> TextOf(args, named[1])

(* Without a list of domains not even a blocked host is refused here.      *)
domainOK(c, args) ==
  c.domains # <<>> /\ extractDomain(args) # <<>> =>
    checkDomain(c.domains[1], extractDomain(args))

(* The first of these that is a string, an empty one too.                  *)
payloadSize(args) ==
  LET texts == SelectSeq(<<"content", "body", "payload">>,
                         LAMBDA n : Has(args, n) /\ args[n].kind = "string")
  IN IF texts = <<>> THEN 0 ELSE Len(args[texts[1]].text)

sizeOK(c, args) == c.maxSize > 0 => payloadSize(args) <= c.maxSize

(* Whole seconds, if int(v) gives any: it drops the tenths.                *)
timeoutSeconds(args) ==
  IF Has(args, "timeout") /\ args["timeout"].kind = "number" /\ args["timeout"].tenths > 0
  THEN IntOf(args["timeout"].tenths) ELSE 0

timeoutOK(c, args) == c.timeout > 0 => timeoutSeconds(args) <= c.timeout

(* In the order in which they are checked.                                 *)
Limits == <<"path", "command", "domain", "size", "timeout">>
LimitOK(i, c, args) ==
  CASE i = 1 -> pathOK(c, args)
    [] i = 2 -> commandOK(c, args)
    [] i = 3 -> domainOK(c, args)
    [] i = 4 -> sizeOK(c, args)
    [] i = 5 -> timeoutOK(c, args)

argumentOK(c, args, n) ==
  IF Has(args, n) THEN ValidArgument(args[n], c.arguments[n]) ELSE ~c.arguments[n].required

UnknownArguments(c, args) ==
  IF c.allowUnknown THEN {} ELSE DOMAIN args \ DOMAIN c.arguments

-----------------------------------------------------------------------------
Start(p, r) ==
  /\ policy = p /\ request = r
  /\ at = 1 /\ stage = "capability" /\ todo = {}
  /\ decision = Undecided

Init == \E p \in Policies, r \in Requests : Start(p, r)

Return(verdict, rule, reason) ==
  /\ stage' = "done"
  /\ decision' = [decision |-> verdict, rule |-> rule, reason |-> reason]
  /\ UNCHANGED <<policy, request, at, todo>>

(* Mutant: a violation only skips the capability.                          *)
SkipInstead(reason) ==
  /\ at' = at + 1 /\ stage' = "capability" /\ todo' = {}
  /\ UNCHANGED <<policy, request, decision>>

DenyFor(reason) == Return("deny", at, reason)

Continue(next) ==
  /\ stage' = next
  /\ UNCHANGED <<policy, request, at, todo, decision>>

Looking == stage = "capability" /\ at <= Len(policy.capabilities)

(* The capability does not match, is out of scope or its condition is      *)
(* false.                                                                  *)
Skip ==
  /\ Looking
  /\ \/ ~capabilityMatches(cap, request)
     \/ ~scopeMatches(cap.scope, request.subject)
     \/ conditionOf(cap, request) = "false"
  /\ at' = at + 1
  /\ UNCHANGED <<policy, request, stage, todo, decision>>

Reached(result) ==
  /\ Looking
  /\ capabilityMatches(cap, request)
  /\ scopeMatches(cap.scope, request.subject)
  /\ conditionOf(cap, request) = result

ConditionFails == Reached("error") /\ DenyFor("condition")

Select ==
  /\ Reached("true")
  /\ stage' = IF DOMAIN limits.arguments = {} THEN "limits" ELSE "arguments"
  /\ todo' = DOMAIN limits.arguments
  /\ UNCHANGED <<policy, request, at, decision>>

(* checkArgumentSchema ranges over the map in an order of its own.         *)
CheckArgument ==
  /\ stage = "arguments"
  /\ \E n \in todo :
       IF argumentOK(limits, call.args, n)
       THEN todo' = todo \ {n} /\ UNCHANGED <<policy, request, at, stage, decision>>
       ELSE DenyFor(n)

CheckUnknown ==
  /\ stage = "arguments" /\ todo = {}
  /\ \/ UnknownArguments(limits, call.args) = {} /\ Continue("limits")
     \/ \E n \in UnknownArguments(limits, call.args) : DenyFor(n)

CheckLimits ==
  /\ stage = "limits"
  /\ LET respected == {i \in DOMAIN Limits : LimitOK(i, limits, call.args)} IN
     \/ respected = DOMAIN Limits /\ Continue("decide")
     \/ \E i \in DOMAIN Limits \ respected :
          1..(i - 1) \subseteq respected /\ DenyFor(Limits[i])

Honour ==
  /\ stage = "decide"
  /\ LET d == normalizeDecision(cap.decision) IN
     Return(IF cap.approval /\ d = "allow" THEN "ask" ELSE d, at, "matched")

Default ==
  /\ stage = "capability" /\ at > Len(policy.capabilities)
  /\ Return(normalizeDecision(policy.default), 0, "default")

Evaluate ==
  \/ Skip \/ ConditionFails \/ Select \/ CheckArgument \/ CheckUnknown
  \/ CheckLimits \/ Honour \/ Default

Stopped == stage = "done" /\ UNCHANGED vars

Next == Evaluate \/ Stopped
Spec == Init /\ [][Next]_vars

-----------------------------------------------------------------------------
(* The types: what the loop holds at each stage.                           *)
Stages == {"capability", "arguments", "limits", "decide", "done"}
PolicyTypeOK ==
  /\ policy \in Policies /\ request \in Requests
  /\ at \in 1..(Len(policy.capabilities) + 1)
  /\ stage \in Stages
  /\ stage \in Stages \ {"capability", "done"} =>
       at \in DOMAIN policy.capabilities /\ todo \subseteq DOMAIN limits.arguments
  /\ decision.decision \in IF stage = "done" THEN {"allow", "ask", "deny"} ELSE {"none"}

(***************************************************************************)
(* What the policy file says, without the loop.                            *)
(***************************************************************************)
Applies(c, r) ==
  /\ capabilityMatches(c, r)
  /\ scopeMatches(c.scope, r.subject)
  /\ conditionOf(c, r) # "false"

ArgumentsBroken(c, args) ==
  IF DOMAIN c.arguments = {} THEN {}
  ELSE {n \in DOMAIN c.arguments : ~argumentOK(c, args, n)} \cup UnknownArguments(c, args)

LimitsHold(c, args) ==
  /\ pathOK(c, args) /\ commandOK(c, args) /\ domainOK(c, args)
  /\ sizeOK(c, args) /\ timeoutOK(c, args)

Granting(c) ==
  IF c.approval /\ normalizeDecision(c.decision) = "allow" THEN "ask"
  ELSE normalizeDecision(c.decision)

Ruling(c, r) ==
  IF /\ conditionOf(c, r) = "true"
     /\ ArgumentsBroken(c.constraints, r.call.args) = {}
     /\ LimitsHold(c.constraints, r.call.args)
  THEN Granting(c) ELSE "deny"

(* The decision is that of the first capability that applies, and deny if  *)
(* any of its constraints is broken; it does not depend on the order in    *)
(* which a Go map of arguments is visited (Evaluate and checkConstraints,  *)
(* engine.go:54-108, 392-478).                                             *)
AsDeclared ==
  stage = "done" =>
    LET capabilities == policy.capabilities
        rule == decision.rule
    IN IF rule = 0
       THEN /\ \A i \in DOMAIN capabilities : ~Applies(capabilities[i], request)
            /\ decision.decision = normalizeDecision(policy.default)
       ELSE /\ rule \in DOMAIN capabilities
            /\ Applies(capabilities[rule], request)
            /\ \A i \in 1..(rule - 1) : ~Applies(capabilities[i], request)
            /\ decision.decision = Ruling(capabilities[rule], request)

(* engine.go:440-441 says: "if a timeout arg is supplied by the caller it  *)
(* must not exceed the capability-level timeout limit".                    *)
TimeoutWithinLimit ==
  stage = "done" /\ decision.rule # 0 /\ decision.decision # "deny"
      /\ limits.timeout > 0 /\ Has(call.args, "timeout")
      /\ call.args["timeout"].kind = "number" =>
    call.args["timeout"].tenths <= 10 * limits.timeout
=============================================================================
