SPECIFICATION FairSpec
CONSTANTS
  MaxPieces = 3
  Setups <- MCSetups
INVARIANTS EveryPieceHasOneReader RawWhileReading NoServerLeftRunning
PROPERTY InterruptEndsProgram
