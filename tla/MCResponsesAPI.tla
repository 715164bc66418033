--------------------------- MODULE MCResponsesAPI ---------------------------
(* Values for model-checking ResponsesAPI. *)
EXTENDS ResponsesAPI, TLC

NoBatches == {}

Symmetric ==
  Permutations(ItemIDs) \cup Permutations(ResponseIDs)
    \cup Permutations(ConversationIDs) \cup Permutations(Requests)

==============================================================================
