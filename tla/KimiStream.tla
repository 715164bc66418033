----------------------------- MODULE KimiStream -----------------------------
(***************************************************************************)
(* StreamChat of internal/upstream/kimi/client.go: one streamed request to *)
(* the upstream, read line by line, each chunk given to a callback of the  *)
(* handler.  A module that describes a handler EXTENDS this one and        *)
(* conjoins Deliver with what its callback does.                           *)
(*                                                                         *)
(* The upstream is external: it may refuse, send any chunks, stop cleanly  *)
(* with or without [DONE], or break off.  Lines that are blank, not data   *)
(* or not JSON are skipped by the code and are no step here.               *)
(***************************************************************************)
EXTENDS Naturals

CONSTANT MaxChunks            \* bound: the chunks an upstream sends

ASSUME KimiStreamAssumption == MaxChunks \in Nat

VARIABLES connection,         \* "requesting", "reading", or how StreamChat returned
          delivered           \* how many chunks the callback has been given

streamVars == <<connection, delivered>>

StreamTypeOK ==
  /\ connection \in {"requesting", "reading", "ended", "failed"}
  /\ delivered \in 0 .. MaxChunks

StreamInit == connection = "requesting" /\ delivered = 0

\* The upstream accepts the request.
Accept ==
  /\ connection = "requesting"
  /\ connection' = "reading"
  /\ UNCHANGED delivered

\* No connection, a timeout before the headers, or a status of 400 and above.
Refuse ==
  /\ connection = "requesting"
  /\ connection' = "failed"
  /\ UNCHANGED delivered

\* A chunk is read and the callback called; an error it returns ends StreamChat.
Deliver(accepted) ==
  /\ connection = "reading"
  /\ delivered < MaxChunks
  /\ connection' = IF accepted THEN "reading" ELSE "failed"
  /\ delivered' = delivered + 1

\* [DONE], or the body ends without one.
EndOfStream ==
  /\ connection = "reading"
  /\ connection' = "ended"
  /\ UNCHANGED delivered

\* A reset connection, a line over the scanner's limit, the timeout of the HTTP
\* client, which also covers the body, or the request's context cancelled because
\* the client has gone.
Break ==
  /\ connection = "reading"
  /\ connection' = "failed"
  /\ UNCHANGED delivered

StreamStep == Accept \/ Refuse \/ EndOfStream \/ Break

=============================================================================
