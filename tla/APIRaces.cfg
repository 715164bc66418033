SPECIFICATION APISpec
CONSTANTS
  ItemIDs = {i1, i2}
  ResponseIDs = {r1, r2}
  ConversationIDs = {v1, v2}
  Requests = {q1, q2}
  NoConversation = none
  NoResponse = none
  Metadata = {empty}
  EmptyMetadata = empty
  Nil = nil
  Batches <- NoBatches
  SavedStatuses = {"completed"}
  MaxResponses = 1
  MaxConversations = 1
  MaxConversationLength = 2
  MaxItemRefs = 9
  MaxInputItems = 1
  MaxOutputItems = 1
  MaxContextLength = 2
  ResentItems = FALSE
  LateAppends = TRUE
SYMMETRY Symmetric
INVARIANTS LeaksAreOrphans RefsAreExact
