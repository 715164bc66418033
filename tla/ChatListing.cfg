SPECIFICATION ListingSpec
CONSTANTS
  ChatIDs = {1, 2, 3}
  Answers <- TwoAnswers
  Created <- TwoTimes
  Metadata = {empty, tagged}
  EmptyMetadata = empty
  WantedMetadata = {tagged}
  Nil = nil
  MessageLists = {l1, l2}
  MaxChatCompletions = 2
  LargestPage = 2
  Limits = {0, 3}
  MaxSeen = 4
INVARIANTS ChatOrderInStep PagesAreTheList
PROPERTY ImplementsRecentMap
