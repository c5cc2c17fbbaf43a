SPECIFICATION Spec
CONSTANTS
  Policies <- MCPolicies
  Requests <- MCRequests
  Regexp <- MCRegexp
  Trees <- MCTrees
  Values <- MCValues
  Specs <- MCSpecs
  Depth <- MCDepth
  Holds <- evaluateCondition
  ValidArgument <- validateArgument
  MatchGlob <- matchGlob
  MatchShellGlob <- matchShellGlob
  MatchDomain <- matchDomain
  NormalPath <- MCNormalPath
  BlockedHost <- MCBlockedHost
  IntOf <- MCIntOf
  HostFromURL <- MCHostFromURL
INVARIANT TimeoutWithinLimit
