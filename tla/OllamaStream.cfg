SPECIFICATION FairSpec
CONSTANTS
  hello = hello
  world = world
  fetch = fetch
  store = store
  Words <- MCWords
  Calls <- MCCalls
  Lines <- MCLines
  MaxLines = 4
INVARIANTS
  MessageIsAnswer
PROPERTIES
  AnswerIsReturned
