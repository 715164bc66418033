SPECIFICATION FairSpec
CONSTANTS
  MaxChunks = 3
  CallIndices = {0, 1}
INVARIANTS
  BlocksAreFollowed StoppedMessageIsWhole StreamEndsAsUnstreamed
PROPERTY ClientIsAnswered
