SPECIFICATION BlockSpec
CONSTANTS
  MaxTurns = 4
  MaxBlocks = 3
  MaxCalls = 2
INVARIANTS SaidInOrder AnswersComeBack ResultsFollowTheirCalls
