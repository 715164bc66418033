SPECIFICATION APISpec
CONSTANTS
  ItemIDs = {i1, i2}
  ResponseIDs = {r1, r2}
  ConversationIDs = {v1}
  Requests = {q1, q2}
  NoConversation = none
  NoResponse = none
  Metadata = {empty}
  EmptyMetadata = empty
  Nil = nil
  Batches <- NoBatches
  SavedStatuses = {"completed"}
  MaxResponses = 1
  MaxConversations = 1
  MaxConversationLength = 2
  MaxItemRefs = 2
  MaxInputItems = 1
  MaxOutputItems = 1
  MaxContextLength = 2
  ResentItems = TRUE
  LateAppends = TRUE
SYMMETRY Symmetric
INVARIANTS TypeOK RefsCoverHolds NoDanglingItems ContextsAreHistory
PROPERTY HistoriesOnlyGrow
