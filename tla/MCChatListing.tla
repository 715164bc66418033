---------------------------- MODULE MCChatListing ----------------------------
(* ChatListing with answers of two creation times. *)
EXTENDS ChatListing

TwoAnswers == {"early", "late"}
TwoTimes == [answer \in TwoAnswers |-> IF answer = "early" THEN 1 ELSE 2]

==============================================================================
