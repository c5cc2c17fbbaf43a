------------------------------ MODULE PolicyPaths ------------------------------
(***************************************************************************)
(* Where the calls lead that the policy engine does not deny, with the     *)
(* path patterns that it really has.                                       *)
(***************************************************************************)
EXTENDS PolicyEngine, PolicyMatch

PathRules ==
  UNION {{p.capabilities[i].constraints.paths : i \in DOMAIN p.capabilities} : p \in Policies}
PathPatterns == UNION {rule.allow \cup rule.deny : rule \in PathRules}
PathTexts == {TextOf(r.call.args, "path") : r \in Requests}

(* The engine's matcher of paths is that of PolicyMatch.                   *)
ASSUME MatcherAssumption ==
  /\ PathPatterns \cup PathTexts \subseteq Seq(STRING)
  /\ \A path \in PathTexts :
       /\ NormalPath(path) = normalizePath(path)
       /\ \A pattern \in PathPatterns :
            MatchGlob(pattern, NormalPath(path)) <=> matchGlob(pattern, NormalPath(path))

-----------------------------------------------------------------------------
(* The directories below which patterns /d/** match.                       *)
DirectoriesOf(patterns) ==
  {dir \in {SubSeq(pattern, 1, Len(pattern) - 3) : pattern \in patterns} :
     PatternDirectory(dir) /\ Under(dir) \in patterns}

Below(path, dir) == Rooted(path) /\ IsStrictPrefix(NamesOf(dir), Walk(path, <<>>))

(* A call that is not denied reaches nothing below a directory its rule    *)
(* denies and, where its rule allows directories, only what is below one   *)
(* of them, however its path is written (normalizePath and                 *)
(* checkAllowDenyGlob, engine.go:399-408, 727-746, 936-941).               *)
NothingDeniedIsReached ==
  stage = "done" /\ decision.rule # 0 /\ decision.decision # "deny" /\ Has(call.args, "path") =>
    LET path == TextOf(call.args, "path")
        rule == policy.capabilities[decision.rule].constraints.paths
        allowed == DirectoriesOf(rule.allow)
    IN /\ \A dir \in DirectoriesOf(rule.deny) : ~Below(path, dir)
       /\ rule.allow # {} /\ rule.allow = {Under(dir) : dir \in allowed} =>
            \E dir \in allowed : Below(path, dir)
===============================================================================
