SPECIFICATION AgentSpec
CONSTANTS
  link = link
  word = word
  Tokens <- MCTokens
  Secrets = {}
  Injections = {}
  Trackable <- MCTrackable
  Agent = agent
  Callers = {agent}
  MaxSessions = 2
  Trackers = {0, 1, 2}
  Shared = shared
  NoTracker = none
  Responses <- MCResponses
  Proposals <- MCProposals
  Outputs <- MCOutputs
  Configs <- MCConfigs
  Decide <- MCDecide
INVARIANTS AgentConsistent HistoryTracked NoReplay LastPathFromRun
