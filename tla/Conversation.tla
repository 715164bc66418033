---------------------------- MODULE Conversation ----------------------------
(***************************************************************************)
(* What the two models of a conversation with turns have in common: their  *)
(* bounds, and what is gathered from a list of messages, blocks or items.  *)
(***************************************************************************)
EXTENDS Naturals, Sequences, SequencesExt

CONSTANTS MaxTurns,               \* bound: turns of a conversation
          MaxCalls                \* bound: calls of an answer

ASSUME ConversationAssumption == MaxTurns \in Nat /\ MaxCalls \in Nat

Gathered(list, Field(_)) == FlattenSeq([k \in 1 .. Len(list) |-> Field(list[k])])

=============================================================================
