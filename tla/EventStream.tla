---------------------------- MODULE EventStream ----------------------------
(***************************************************************************)
(* The stream of public events of one conversation (assistantEventStream)  *)
(* and the handlers that send it to browsers (streamAssistantEvents).      *)
(*                                                                         *)
(* publish never waits: a subscriber whose channel is full is closed, and  *)
(* its browser connects again with the id of the last event it got, from   *)
(* which the events still kept are replayed.                               *)
(***************************************************************************)
EXTENDS Integers, Sequences

CONSTANTS
  Browsers,
  MaxReplay,   \* the events kept for replay: 256 in the code
  Buffer       \* of the channel of a subscriber: 64 in the code

ASSUME StreamAssumption == MaxReplay \in Nat \ {0} /\ Buffer \in Nat \ {0}

VARIABLES
  lastID,    \* nextID of the stream: the id of the last event
  replay,    \* the ids of the events kept
  handler    \* the request of each browser

streamVars == <<lastID, replay, handler>>

\* `seen' is the Last-Event-ID of the browser, 0 as long as it has none; `due'
\* (history) is the event a browser that asked after `seen' is due first.
NoHandler(seen) ==
  [pc |-> "off", open |-> FALSE, queue |-> <<>>, backlog |-> <<>>,
   emitted |-> 0, due |-> 0, seen |-> seen]

Subscribed(b) == handler[b].pc # "off" /\ handler[b].open

Trimmed(kept) == IF Len(kept) <= MaxReplay THEN kept
                 ELSE SubSeq(kept, Len(kept) - MaxReplay + 1, Len(kept))

\* Mutant: a full channel skips the event and stays open.
OfferedOrSkipped(h, id) ==
  IF Len(h.queue) < Buffer THEN [h EXCEPT !.queue = Append(@, id)] ELSE h

Offered(h, id) ==
  IF Len(h.queue) < Buffer THEN [h EXCEPT !.queue = Append(@, id)]
  ELSE [h EXCEPT !.open = FALSE]

publish ==
  /\ lastID' = lastID + 1
  /\ replay' = Trimmed(Append(replay, lastID + 1))
  /\ handler' = [b \in Browsers |->
       IF Subscribed(b) THEN Offered(handler[b], lastID + 1) ELSE handler[b]]

Missed(last) ==
  LET missed[i \in 0 .. Len(replay)] ==
        IF i = 0 THEN <<>>
        ELSE IF replay[i] > last THEN Append(missed[i - 1], replay[i]) ELSE missed[i - 1]
  IN missed[Len(replay)]

\* Without a Last-Event-ID a browser starts at the end of the stream.
subscribe(b) ==
  /\ handler[b].pc = "off"
  /\ LET seen == handler[b].seen
         from == IF seen = 0 THEN lastID ELSE seen IN
     handler' = [handler EXCEPT ![b] =
       [NoHandler(seen) EXCEPT
         !.pc = "replay", !.open = TRUE, !.backlog = Missed(from),
         !.due = 1 + IF from < lastID - MaxReplay THEN lastID - MaxReplay ELSE from]]
  /\ UNCHANGED <<lastID, replay>>

EmitReplay(b) ==
  /\ handler[b].pc = "replay"
  /\ LET left == handler[b].backlog IN
     handler' = [handler EXCEPT ![b] =
       IF left = <<>> THEN [@ EXCEPT !.pc = "live"]
       ELSE [@ EXCEPT !.emitted = Head(left), !.backlog = Tail(left)]]
  /\ UNCHANGED <<lastID, replay>>

EmitLive(b) ==
  /\ handler[b].pc = "live" /\ handler[b].queue # <<>>
  /\ handler' = [handler EXCEPT ![b].emitted = Head(handler[b].queue), ![b].queue = Tail(@)]
  /\ UNCHANGED <<lastID, replay>>

\* The channel was closed, the browser has gone, or writing to it failed, with
\* or without the last events having reached it.
Leave(b) ==
  /\ handler[b].pc # "off"
  /\ \E seen \in {handler[b].seen, handler[b].emitted} :
       handler' = [handler EXCEPT ![b] =
         NoHandler(IF seen = 0 THEN handler[b].seen ELSE seen)]
  /\ UNCHANGED <<lastID, replay>>

StreamInit ==
  /\ lastID = 0
  /\ replay = <<>>
  /\ handler = [b \in Browsers |-> NoHandler(0)]

StreamNext ==
  \E b \in Browsers : subscribe(b) \/ EmitReplay(b) \/ EmitLive(b) \/ Leave(b)

\* A stream to which events are published at any time.
StreamSpec == StreamInit /\ [][publish \/ StreamNext]_streamVars

-----------------------------------------------------------------------------
\* What one request sends a browser are consecutive events; after a reconnect
\* the first is the one after the last that reached it, or the oldest that is
\* kept: a slow browser is cut off and catches up, it does not miss events.
EmittedInOrder ==
  [][\A b \in Browsers :
       LET old == handler[b].emitted  new == handler'[b].emitted IN
       new \notin {old, 0} => new = IF old = 0 THEN handler[b].due ELSE old + 1]_handler
=============================================================================
