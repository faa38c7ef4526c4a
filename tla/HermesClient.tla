---------------------------- MODULE HermesClient ----------------------------
(***************************************************************************)
(* The JSON-RPC client of one Hermes profile (hermes/client.go): calls of  *)
(* several goroutines over one connection that breaks and is made again,   *)
(* with one reader that hands answers to the calls and events to the one   *)
(* consumer, which may itself call Hermes while it handles an event.       *)
(*                                                                         *)
(* The reader is the goroutine of run.  What it does under the mutex of    *)
(* the client is one step, and so is every other use of the mutex.         *)
(***************************************************************************)
EXTENDS Integers, Sequences

CONSTANTS
  MaxCalls,         \* bound: the calls that are made
  Own,              \* those the consumer of the events makes (Interrupt)
  MaxConnections,   \* bound: how often the client connects
  MaxEvents,        \* bound: the events Hermes sends on a connection
  Capacity          \* of the channel of events: 256 in the code

Calls == 1 .. MaxCalls
Nobody == 0         \* no call; also: the answer that the connection is lost

ASSUME ClientAssumption ==
  /\ MaxCalls \in Nat
  /\ Own \subseteq Calls
  /\ Capacity \in Nat \ {0}

VARIABLES
  connection,  \* client.connection: the number of it, 0 for nil (not connected)
  made,        \* the connections made so far
  alive,       \* the last connection has not been lost or closed
  reader,      \* where the goroutine of run is
  nextID,
  pending,     \* client.pending: request id -> call
  call,        \* the calls of the goroutines
  channel,     \* the response channel of each call, with room for one
  events,      \* client.events
  closed,      \* client.ctx is done
  requests,    \* external: the calls Hermes has still to run
  executed,    \* external: the calls Hermes has run
  inbox,       \* external: what Hermes has sent and the reader not read
  sent,        \* external: the events Hermes has sent on the last connection
  consumer,    \* where the consumer is with the event it took
  heard        \* the last event the consumer took

callVars == <<nextID, pending, call, channel>>
linkVars == <<connection, made, alive, reader, closed>>
hermesVars == <<requests, executed, inbox, sent>>
consumerVars == <<events, consumer, heard>>
vars == <<linkVars, callVars, hermesVars, consumerVars>>

NoCall == [pc |-> "idle", id |-> 0, connection |-> 0, result |-> Nobody]
Reading == [pc |-> "read", call |-> Nobody, answer |-> Nobody]
Reader(pc) == [Reading EXCEPT !.pc = pc]

Request(k) == [id |-> call[k].id, connection |-> made, call |-> k]
Response(id, k) == [type |-> "response", id |-> id, call |-> k]
Event(n, type) == [type |-> type, id |-> n, call |-> Nobody]
NoEvent == [connection |-> 0, number |-> 0]

Goto(k, pc) == call' = [call EXCEPT ![k].pc = pc]
Return(k, result) ==
  call' = [call EXCEPT ![k] = [NoCall EXCEPT !.pc = "returned", !.result = result]]

\* Mutant: an id stays in pending when its call is over.
Kept(id) == pending

Without(id) == {p \in pending : p.id # id}
removePending(id) == pending' = Without(id)

\* Mutant: the calls that wait for an answer are forgotten, not failed.
forgetPendingLocked == pending' = {} /\ UNCHANGED channel

failPendingLocked ==
  /\ pending' = {}
  /\ channel' = [k \in Calls |-> IF \E p \in pending : p.call = k
                                 THEN Append(channel[k], Nobody) ELSE channel[k]]

(***************************************************************************)
(* Call, and Manager.profile before it                                     *)
(***************************************************************************)
Begin(k) ==
  /\ call[k].pc = "idle"
  /\ IF connection = 0 THEN Return(k, Nobody) ELSE Goto(k, "wait")
  /\ UNCHANGED <<linkVars, nextID, pending, channel, hermesVars>>

WaitConnected(k) ==
  /\ call[k].pc = "wait"
  /\ \/ connection # 0 /\ Goto(k, "register")
     \/ connection = 0 /\ closed /\ Return(k, Nobody)
  /\ UNCHANGED <<linkVars, nextID, pending, channel, hermesVars, consumerVars>>

\* Mutant: an id is given twice.
SameID == 1

NewID == nextID + 1

Register(k) ==
  /\ call[k].pc = "register"
  /\ nextID' = NewID
  /\ IF connection # 0
     THEN /\ pending' = Without(NewID) \union {[id |-> NewID, call |-> k]}
          /\ call' = [call EXCEPT ![k].pc = "write", ![k].id = NewID,
                                  ![k].connection = connection]
     ELSE UNCHANGED pending /\ Return(k, Nobody)
  /\ UNCHANGED <<linkVars, channel, hermesVars, consumerVars>>

\* A connection that was lost and not yet closed may swallow the request.
Write(k) ==
  /\ call[k].pc = "write"
  /\ \/ /\ call[k].connection = made
        /\ Goto(k, "await")
        /\ requests' = IF alive THEN requests \union {Request(k)} ELSE requests
        /\ UNCHANGED pending
     \/ removePending(call[k].id) /\ Return(k, Nobody) /\ UNCHANGED requests
  /\ UNCHANGED <<linkVars, nextID, channel, executed, inbox, sent, consumerVars>>

Await(k) ==
  /\ call[k].pc = "await"
  /\ \/ /\ channel[k] # <<>>
        /\ channel' = [channel EXCEPT ![k] = Tail(@)]
        /\ Return(k, Head(channel[k]))
        /\ UNCHANGED pending
     \/ closed /\ removePending(call[k].id) /\ Return(k, Nobody) /\ UNCHANGED channel
  /\ UNCHANGED <<linkVars, nextID, hermesVars, consumerVars>>

\* The deadline of the call, or its caller has gone.
Timeout(k) ==
  /\ call[k].pc \in {"wait", "await"}
  /\ removePending(call[k].id)
  /\ Return(k, Nobody)
  /\ UNCHANGED <<linkVars, nextID, channel, hermesVars, consumerVars>>

(***************************************************************************)
(* run and readLoop                                                        *)
(***************************************************************************)
Dial ==
  /\ reader.pc = "dial" /\ ~closed
  /\ made < MaxConnections
  /\ made' = made + 1
  /\ alive' = TRUE
  /\ reader' = Reader("set")
  /\ inbox' = <<>> /\ sent' = 0
  /\ UNCHANGED <<connection, closed, callVars, requests, executed, consumerVars>>

\* Whether the client was closed meanwhile is not looked at.
SetConnected ==
  /\ reader.pc = "set"
  /\ connection' = made
  /\ reader' = Reading
  /\ UNCHANGED <<made, alive, closed, callVars, hermesVars, consumerVars>>

\* Mutant: an event is dropped when nobody has room for it.
SendOrDrop(e) == events' = IF Len(events) < Capacity THEN Append(events, e) ELSE events

SendEvent(e) == Len(events) < Capacity /\ events' = Append(events, e)

ReadEvent ==
  /\ reader.pc = "read"
  /\ inbox # <<>> /\ Head(inbox).type # "response"
  /\ SendEvent([connection |-> made, number |-> Head(inbox).id, type |-> Head(inbox).type])
  /\ inbox' = Tail(inbox)
  /\ UNCHANGED <<linkVars, callVars, requests, executed, sent, consumer, heard>>

\* The id is looked up and deleted under the mutex, the answer sent after it.
ReadResponse ==
  /\ reader.pc = "read"
  /\ inbox # <<>> /\ Head(inbox).type = "response"
  /\ LET r == Head(inbox)
         waiting == {p.call : p \in {q \in pending : q.id = r.id}} IN
     /\ reader' = IF waiting = {} THEN Reading
                  ELSE [pc |-> "deliver", call |-> CHOOSE k \in waiting : TRUE,
                        answer |-> r.call]
     /\ removePending(r.id)
  /\ inbox' = Tail(inbox)
  /\ UNCHANGED <<connection, made, alive, closed, nextID, call, channel,
                 requests, executed, sent, consumerVars>>

Deliver ==
  /\ reader.pc = "deliver"
  /\ channel[reader.call] = <<>>
  /\ channel' = [channel EXCEPT ![reader.call] = <<reader.answer>>]
  /\ reader' = Reading
  /\ UNCHANGED <<connection, made, alive, closed, nextID, pending, call,
                 hermesVars, consumerVars>>

\* The read fails when everything that had come is read.  An event nobody has
\* room for is given up when the client is closed.
ReadFails ==
  /\ reader.pc = "read"
  /\ \/ ~alive /\ inbox = <<>>
     \/ closed /\ inbox # <<>> /\ Head(inbox).type # "response"
  /\ alive' = FALSE /\ inbox' = <<>>
  /\ reader' = Reader(IF closed THEN "ended" ELSE "dial")
  /\ IF connection = made
     THEN connection' = 0 /\ failPendingLocked
     ELSE UNCHANGED <<connection, pending, channel>>
  /\ UNCHANGED <<made, closed, nextID, call, requests, executed, sent, consumerVars>>

End ==
  /\ reader.pc = "dial" /\ closed
  /\ reader' = Reader("ended")
  /\ UNCHANGED <<connection, made, alive, closed, callVars, hermesVars, consumerVars>>

Close ==
  /\ ~closed
  /\ closed' = TRUE
  /\ IF connection # 0
     THEN connection' = 0 /\ alive' = FALSE /\ inbox' = <<>>
     ELSE UNCHANGED <<connection, alive, inbox>>
  /\ failPendingLocked
  /\ UNCHANGED <<made, reader, nextID, call, requests, executed, sent, consumerVars>>

(***************************************************************************)
(* External: Hermes, and the network, which loses the last messages.       *)
(***************************************************************************)
Execute(r) ==
  /\ requests' = requests \ {r}
  /\ executed' = executed \union {r.call}
  /\ inbox' = IF alive /\ r.connection = made
              THEN Append(inbox, Response(r.id, r.call)) ELSE inbox
  /\ UNCHANGED <<linkVars, callVars, sent, consumerVars>>

Emit(type) ==
  /\ alive /\ sent < MaxEvents
  /\ sent' = sent + 1
  /\ inbox' = Append(inbox, Event(sent + 1, type))
  /\ UNCHANGED <<linkVars, callVars, requests, executed, consumerVars>>

Disconnect ==
  /\ alive
  /\ alive' = FALSE
  /\ \E n \in 0 .. Len(inbox) : inbox' = SubSeq(inbox, 1, n)
  /\ UNCHANGED <<connection, made, reader, closed, callVars,
                 requests, executed, sent, consumerVars>>

(***************************************************************************)
(* consume: every event is published; a request the profile must not make  *)
(* has its turn interrupted first (failClosed).                            *)
(***************************************************************************)
Receive ==
  /\ consumer = "idle"
  /\ events # <<>>
  /\ events' = Tail(events)
  /\ heard' = [connection |-> Head(events).connection, number |-> Head(events).number]
  /\ consumer' = IF Head(events).type = "forbidden" /\ \E k \in Own : call[k].pc = "idle"
                 THEN "interrupt" ELSE "publish"
  /\ UNCHANGED <<linkVars, callVars, hermesVars>>

Interrupt(k) ==
  /\ consumer = "interrupt"
  /\ Begin(k)
  /\ consumer' = "calling"
  /\ UNCHANGED <<events, heard>>

Interrupted ==
  /\ consumer = "calling"
  /\ \A k \in Own : call[k].pc \in {"idle", "returned"}
  /\ consumer' = "publish"
  /\ UNCHANGED <<linkVars, callVars, hermesVars, events, heard>>

Published ==
  /\ consumer = "publish"
  /\ consumer' = "idle"
  /\ UNCHANGED <<linkVars, callVars, hermesVars, events, heard>>

Init ==
  /\ connection = 0 /\ made = 0 /\ alive = FALSE /\ closed = FALSE
  /\ reader = Reader("dial")
  /\ nextID = 0 /\ pending = {}
  /\ call = [k \in Calls |-> NoCall]
  /\ channel = [k \in Calls |-> <<>>]
  /\ events = <<>>
  /\ requests = {} /\ executed = {} /\ inbox = <<>> /\ sent = 0
  /\ consumer = "idle" /\ heard = NoEvent

\* What goroutines do once they can; publishing needs nobody.
CallStep(k) == WaitConnected(k) \/ Register(k) \/ Write(k) \/ Await(k)
ReaderStep == SetConnected \/ ReadEvent \/ ReadResponse \/ Deliver \/ ReadFails \/ End
ConsumerStep == Receive \/ Interrupted \/ Published \/ \E k \in Own : Interrupt(k)

Next ==
  \/ \E k \in Calls \ Own : Begin(k) /\ UNCHANGED consumerVars
  \/ \E k \in Calls : CallStep(k) \/ Timeout(k)
  \/ \E r \in requests : Execute(r)
  \/ Dial \/ ReaderStep \/ Close
  \/ Emit("plain") \/ Emit("forbidden") \/ Disconnect
  \/ ConsumerStep

Spec == Init /\ [][Next]_vars

\* Goroutines that can go on do, and failClosed gives its call up after 5
\* seconds.  Nothing is assumed of Hermes, of the network or of other deadlines.
FairSpec ==
  /\ Spec
  /\ WF_vars(ReaderStep) /\ WF_vars(ConsumerStep)
  /\ \A k \in Calls : WF_vars(CallStep(k))
  /\ \A k \in Own : WF_vars(Timeout(k))

-----------------------------------------------------------------------------
CallPcs == {"idle", "wait", "register", "write", "await", "returned"}
MessageTypes == {"response", "plain", "forbidden"}

CallStates == [pc : CallPcs, id : Nat, connection : Nat, result : Calls \union {Nobody}]
ReaderStates == [pc : {"dial", "set", "read", "deliver", "ended"},
                 call : Calls \union {Nobody}, answer : Calls \union {Nobody}]
Events == [connection : Nat, number : Nat, type : MessageTypes]
Messages == [type : MessageTypes, id : Nat, call : Calls \union {Nobody}]

TypeOK ==
  /\ connection \in Nat /\ made \in Nat /\ nextID \in Nat /\ sent \in Nat
  /\ alive \in BOOLEAN /\ closed \in BOOLEAN
  /\ reader \in ReaderStates
  /\ pending \in SUBSET [id : Nat, call : Calls]
  /\ call \in [Calls -> CallStates]
  /\ channel \in [Calls -> Seq(Calls \union {Nobody})]
  /\ events \in Seq(Events)
  /\ requests \in SUBSET [id : Nat, connection : Nat, call : Calls]
  /\ executed \subseteq Calls
  /\ inbox \in Seq(Messages)
  /\ consumer \in {"idle", "interrupt", "calling", "publish"}
  /\ heard \in [connection : Nat, number : Nat]

\* client.go:295 and :320 send on a response channel, the latter with the mutex
\* held: nobody may ever have to wait for room in one, or the client stands
\* still.  There is room for whoever may still send, and one may.
NeverBlocks ==
  /\ \A k \in Calls : Len(channel[k]) <= 1
  /\ \A p \in pending : channel[p.call] = <<>>
  /\ reader.pc = "deliver" =>
       channel[reader.call] = <<>> /\ \A p \in pending : p.call # reader.call

\* The consumer gets every event a connection has delivered, in order, however
\* slow it is: the turns of the assistant are ended by events that come once.
NoEventSkipped ==
  [][heard' # heard =>
       \/ heard'.connection = heard.connection /\ heard'.number = heard.number + 1
       \/ heard'.connection > heard.connection /\ heard'.number = 1]_heard

Lost(k) == call[k].pc = "await" /\ (~alive \/ call[k].connection # made)

Answered(k) ==
  /\ call[k].pc = "await"
  /\ \E i \in DOMAIN inbox : inbox[i] = Response(call[k].id, k)

\* A call whose answer has come, or whose connection is lost, returns without
\* the help of its deadline of 30 seconds.  The calls of the consumer itself are
\* excepted: while one waits for its answer the channel of events may fill, and
\* then the reader does not get to that answer before the 5 seconds of
\* failClosed are over.
HeardCallsReturn ==
  \A k \in Calls \ Own : Lost(k) \/ Answered(k) ~> call[k].pc = "returned"

CallState(k) ==
  CASE call[k].pc = "idle" -> "idle"
    [] call[k].pc = "returned" /\ call[k].result = k -> "answered"
    [] call[k].pc = "returned" /\ call[k].result = Nobody -> "failed"
    [] call[k].pc = "returned" /\ call[k].result \notin {k, Nobody} -> "crossed"
    [] OTHER -> "open"

Remote == INSTANCE RemoteCalls WITH state <- [k \in Calls |-> CallState(k)]

\* Calls implement what RemoteCalls promises: an answer goes to the call that
\* asked, on whichever connection and however late it comes.
ImplementsCalls == Remote!Spec
=============================================================================
