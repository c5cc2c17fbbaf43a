SPECIFICATION FairSpec
CONSTANTS
  link = link
  key = key
  order = order
  word = word
  Tokens <- MCTokens
  Secrets <- MCSecrets
  Injections <- MCInjections
  Trackable <- MCTrackable
  Callers = {p1}
  Trackers = {}
  Shared = shared
  NoTracker = none
  Proposals <- MCProposals
  Outputs <- MCOutputs
  Configs <- MCConfigs
  Decide <- MCDecide
INVARIANTS EffectsAuthorised DeliveredIsSafe AuthorisedOnRecord TrailTellsOutcome
PROPERTIES EveryCallReturns RefinesMonitor
