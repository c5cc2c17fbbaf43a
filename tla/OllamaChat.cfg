SPECIFICATION ChatFairSpec
CONSTANTS
  link = link
  word = word
  Tokens <- MCTokens
  Secrets = {}
  Injections = {}
  Trackable <- MCTrackable
  Chat = chat
  Callers = {chat}
  MaxChats = 2
  Trackers = {0, 1, 2}
  Shared = shared
  NoTracker = none
  Responses <- MCResponses
  Proposals <- MCProposals
  Outputs <- MCOutputs
  Configs <- MCConfigs
  Decide <- MCDecide
INVARIANTS ChatConsistent MessagesTracked LastPathFromRun
PROPERTY TurnProceeds
