SPECIFICATION FairSpec
CONSTANTS
  Words = {a}
  CallIds = {1}
  MaxChunks = 3
  MaxCalls = 2
  MaxPieces = 2
INVARIANTS AnsweredOnce RelayedWhole SavedAsAnswered GeminiStreamAsUnstreamed
PROPERTY ClientIsAnswered
