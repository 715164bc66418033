SPECIFICATION Spec
CONSTANTS
  ItemIDs = {i1}
  ResponseIDs = {r1, r2, r3}
  ConversationIDs = {v1, v2, v3}
  NoConversation = none
  Metadata = {empty, tagged}
  EmptyMetadata = empty
  Nil = nil
  Batches <- EmptyBatch
  SavedStatuses = {"completed", "incomplete"}
  MaxResponses = 2
  MaxConversations = 2
  MaxConversationLength = 0
  MaxItemRefs = 1
  ResentItems = FALSE
  LateAppends = TRUE
INVARIANTS OrdersInStep WithinLimits
PROPERTIES ImplementsRecentResponses ImplementsRecentConversations
