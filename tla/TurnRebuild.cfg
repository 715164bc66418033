SPECIFICATION RebuildSpec
CONSTANTS
  MaxTurns = 3
  MaxSteps = 4
  MaxCalls = 2
INVARIANTS NothingIsLost CallsStayTogether TurnsAreRebuilt
