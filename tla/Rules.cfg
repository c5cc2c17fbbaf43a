SPECIFICATION MCSpec
CONSTANTS
  PatternLength = 4
  ValueLength = 4
  PathLength = 7
  ShortPath = 5
  ShortCommand = 4
  GitLength = 4
  LineCount = 4
  MaxCommandArgs = 3
  MaxShellArgs = 3
  Regexp <- MCRegexp
  Trees <- MCTrees
  Values <- MCValues
  Specs <- MCSpecs
  Depth <- MCDepth
  TreeRequests <- MCTreeRequests
  TreeCapabilities <- MCTreeCapabilities
  Comparisons <- MCComparisons
  Characters <- MCCharacters
  Globs <- MCGlobs
  GlobTexts <- MCGlobTexts
  DomainPatterns <- MCDomainPatterns
  Domains <- MCDomains
  Directories <- MCDirectories
  Paths <- MCPaths
  Roots <- MCRoots
  Operands <- MCOperands
  Commands <- MCCommands
  Places <- MCPlaces
  GitActions <- MCGitActions
  GitArgvs <- MCGitArgvs
  Objects <- MCObjects
  Lines <- MCLines
  Rooms <- MCRooms
INVARIANTS
  MatchersAgree
  MatchedIsBelow
  ErrorsDecideNothing
  EqualValuesAgree
  ValidAtEveryDepth
  StaysInWorkspace
  GitArgsByRole
  PackageWordsChecked
  SpellingsAgree
  EveryLineAnswered
CHECK_DEADLOCK FALSE
