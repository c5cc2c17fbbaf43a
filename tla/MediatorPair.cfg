SPECIFICATION Spec
CONSTANTS
  link = link
  key = key
  order = order
  word = word
  Tokens <- MCTokens
  Secrets <- MCSecrets
  Injections <- MCInjections
  Trackable <- MCTrackable
  Callers = {p1, p2}
  Trackers = {t1}
  Shared = shared
  NoTracker = none
  Proposals <- PairProposals
  Outputs <- PairOutputs
  Configs <- PairConfigs
  Decide <- MCDecide
INVARIANTS SeenIsTracked NoTaintedRun
SYMMETRY Symmetry
