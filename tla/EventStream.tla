---------------------------- MODULE EventStream ----------------------------
(***************************************************************************)
(* The client's side of a streamed answer (internal/sse/sse.go): what has  *)
(* been written without an error.  A client that has gone makes a write    *)
(* fail and every later one too.                                           *)
(*                                                                         *)
(* An event names what it is about (an item, at an output index); its      *)
(* text is left out.  The modules of the handlers EXTEND this one.         *)
(***************************************************************************)
EXTENDS Naturals, Sequences

VARIABLES sent,                   \* the events written without an error
          gone                    \* a write has failed

clientVars == <<sent, gone>>

Event(type, item, index) == [type |-> type, item |-> item, index |-> index]

\* An item is known by its kind, a tool call also by the upstream's index.
Item(kind) == [kind |-> kind, call |-> 0]
Call(i) == [kind |-> "function_call", call |-> i]

Nobody == sent = <<>> /\ gone = FALSE

\* Event of sse.go for each of the events, up to the first error.
Write(events, n) ==
  /\ n \in 0 .. Len(events)
  /\ gone => n = 0
  /\ sent' = sent \o SubSeq(events, 1, n)
  /\ gone' = (gone \/ n < Len(events))

\* Writes whose errors are ignored.
WriteAll(events) == \E n \in 0 .. Len(events) : Write(events, n)

\* The events of a delta of an item that has been opened or not.
DeltaEvents(present, started, opening, item, index) ==
  IF ~present THEN <<>>
  ELSE IF started THEN <<Event("delta", item, index)>>
  ELSE <<Event(opening, item, index), Event("delta", item, index)>>

------------------------------------------------------------------------------

Sent == {sent[k] : k \in 1 .. Len(sent)}
ItemsIn(type) == {event.item : event \in {e \in Sent : e.type = type}}
Positions(type) == {k \in 1 .. Len(sent) : sent[k].type = type}
Told(types) == \E event \in Sent : event.type \in types

\* An event about an item comes after the item's opening event and before the one
\* that closes it, and carries its index; an item is opened once, at an index of its
\* own.
Follows(event, before, opening, closing) ==
  /\ event.type \in {"delta", closing} =>
       /\ Event(opening, event.item, event.index) \in before
       /\ Event(closing, event.item, event.index) \notin before
  /\ event.type = opening =>
       \A earlier \in before :
         earlier.type = opening => /\ earlier.item # event.item
                                   /\ earlier.index # event.index

Before(events, k) == {events[j] : j \in 1 .. (k - 1)}

InOrder(events, before, opening, closing) ==
  \A k \in 1 .. Len(events) :
    Follows(events[k], before \cup Before(events, k), opening, closing)

EventsFollow(opening, closing) == InOrder(sent, {}, opening, closing)

\* Nothing is sent after an event of one of the types.
LastOf(types) ==
  \A k \in 1 .. Len(sent) : sent[k].type \in types => k = Len(sent)

=============================================================================
