---------------------------- MODULE ChatListing ----------------------------
(***************************************************************************)
(* A client that lists the stored chat completions page by page, while     *)
(* others save, update and delete them: GET /v1/chat/completions of        *)
(* endpoints_openai.go, over the store of ChatStore.  Each page is read at *)
(* once; between pages the client holds only the id of the last one it got.*)
(***************************************************************************)
EXTENDS ChatStore

CONSTANTS Created,              \* the creation time of an answer
          WantedMetadata,       \* what the client's filter lets through
          LargestPage,          \* 100 in the code
          Limits,               \* page sizes a client asks for
          MaxSeen               \* bound: a client with as many entries asks no more

\* Ids are strings that the code compares; here they are numbers.
ASSUME ChatListingAssumption ==
  /\ ChatIDs \subseteq Nat
  /\ Created \in [Answers -> Nat]
  /\ LargestPage \in Nat \ {0}
  /\ Limits \subseteq Nat
  /\ MaxSeen \in Nat

VARIABLES limit, order,         \* of the client, the same for all pages
          after,                \* the ids of the cursor: none or one
          seen,                 \* the ids of the pages so far
          hasMore,              \* what the last page said
          unmoved,              \* history: the ids listed since the first page that
                                \*   have kept their creation time
          lost                  \* history: a cursor had moved or gone when it was used

clientVars == <<limit, order, after, seen, hasMore>>
listingVars == <<vars, clientVars, unmoved, lost>>

------------------------------------------------------------------------------

CreatedOf(completions, id) == Created[completions[id].answer]

\* SortByCreatedThenID, which sorts by time and, of one time, by id.
CreatedThenID(completions, i, j) ==
  \/ CreatedOf(completions, i) < CreatedOf(completions, j)
  \/ CreatedOf(completions, i) = CreatedOf(completions, j) /\ i < j

SortByCreatedThenID(completions, ids) ==
  CHOOSE list \in [1 .. Cardinality(ids) -> ids] :
    \A j, k \in 1 .. Cardinality(ids) : j < k => CreatedThenID(completions, list[j], list[k])

\* matchesMetadata.
Matching(completions) ==
  {id \in DOMAIN completions : completions[id].metadata \in WantedMetadata}

\* Store.ListChatCompletions.
ListChatCompletions(completions) == SortByCreatedThenID(completions, Matching(completions))

\* Paginate.
Clamped(n) == IF n < 1 THEN 1 ELSE IF n > LargestPage THEN LargestPage ELSE n

Ordered(list) == IF order = "asc" THEN list ELSE Reverse(list)

\* What comes after the cursor: nothing, if it is not in the list.
CursorAt(list) == CHOOSE k \in 1 .. Len(list) : list[k] \in after

RestWithCursor(list) ==
  IF after = {} THEN list
  ELSE IF after \subseteq ToSet(list) THEN SubSeq(list, CursorAt(list), Len(list))
  ELSE <<>>

Rest(list) ==
  IF after = {} THEN list
  ELSE IF after \subseteq ToSet(list) THEN SubSeq(list, CursorAt(list) + 1, Len(list))
  ELSE <<>>

HasMore(rest) == Len(rest) > Clamped(limit)

GetPage ==
  LET list == ListChatCompletions(ChatCompletions)
      rest == Rest(Ordered(list))
      page == SubSeq(rest, 1, IF HasMore(rest) THEN Clamped(limit) ELSE Len(rest))
  IN /\ hasMore /\ Len(seen) < MaxSeen
     /\ seen' = seen \o page
     /\ after' = IF page = <<>> THEN after ELSE {page[Len(page)]}
     /\ hasMore' = HasMore(rest)
     /\ unmoved' = IF after = {} THEN ToSet(list) ELSE unmoved
     /\ lost' = (lost \/ ~(after \subseteq unmoved))
     /\ UNCHANGED <<vars, limit, order>>

\* Somebody else's call.
Elsewhere ==
  /\ Next
  /\ unmoved' = {id \in unmoved :
                   /\ id \in ToSet(ListChatCompletions(ChatCompletions'))
                   /\ CreatedOf(ChatCompletions', id) = CreatedOf(ChatCompletions, id)}
  /\ UNCHANGED <<clientVars, lost>>

ListingInit ==
  /\ Init
  /\ limit \in Limits /\ order \in {"asc", "desc"}
  /\ after = {} /\ seen = <<>> /\ hasMore = TRUE
  /\ unmoved = {} /\ lost = FALSE

ListingNext == GetPage \/ Elsewhere

ListingSpec == ListingInit /\ [][ListingNext]_listingVars

------------------------------------------------------------------------------

\* As long as no cursor was moved or deleted before it was used, the pages give the
\* entries that stay in the list once each and in its order, whatever comes, goes
\* or moves around them; they skip none, and have all of them by the time a page says
\* it is the last.  (Paginate over ListChatCompletions)
PagesAreTheList ==
  LET list == Ordered(ListChatCompletions(ChatCompletions))
  IN ~lost =>
       /\ \A j, k \in 1 .. Len(seen) : j < k /\ {seen[j], seen[k]} \subseteq unmoved =>
            \E m, n \in 1 .. Len(list) : m < n /\ list[m] = seen[j] /\ list[n] = seen[k]
       /\ \A m, n \in 1 .. Len(list) :
            m < n /\ {list[m], list[n]} \subseteq unmoved /\ list[n] \in ToSet(seen)
              => list[m] \in ToSet(seen)
       /\ ~hasMore => unmoved \subseteq ToSet(seen)

=============================================================================
