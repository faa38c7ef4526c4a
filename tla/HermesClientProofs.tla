------------------------- MODULE HermesClientProofs -------------------------
(***************************************************************************)
(* For any calls, connections, events and capacity of the channel: the     *)
(* client never has to wait to hand over an answer, the consumer gets its  *)
(* events in order, and the calls implement RemoteCalls.                   *)
(***************************************************************************)
EXTENDS HermesClient, TLAPS

Early == {"idle", "wait", "register"}

Asked(k) == call[k].pc \in {"write", "await"}

(***************************************************************************)
(* Who may send on the channel of a call: whoever finds it in pending, or  *)
(* the reader that has taken it from there.  Ids in use differ.            *)
(***************************************************************************)
PendingIsOpen ==
  /\ \A p \in pending : Asked(p.call) /\ call[p.call].id = p.id
  /\ \A k \in Calls : Asked(k) => call[k].id \in 1 .. nextID
  /\ \A j, k \in Calls : Asked(j) /\ Asked(k) /\ call[j].id = call[k].id => j = k

EarlyIsEmpty ==
  /\ \A k \in Calls : call[k].pc \in Early => channel[k] = <<>>
  /\ reader.pc = "deliver" => reader.call \in Calls /\ call[reader.call].pc \notin Early

(***************************************************************************)
(* An id stands for one call, from the request to the answer, and a call   *)
(* is asked of Hermes once.                                                *)
(***************************************************************************)
RequestsAreNew ==
  /\ \A r \in requests : /\ r.call \notin executed
                         /\ r.id \in 1 .. nextID
                         /\ call[r.call].pc \in {"await", "returned"}
                         /\ \A p \in pending : p.id = r.id => p.call = r.call
                         /\ \A s \in requests : s.call = r.call => s = r
  /\ \A k \in Calls : call[k].pc \in Early \union {"write"} => k \notin executed

AnswerFor(id, k) == k \in executed /\ id \in 1 .. nextID /\ \A p \in pending : p.id = id => p.call = k

AnswersAreOwn ==
  /\ \A i \in DOMAIN inbox : inbox[i].type = "response" => AnswerFor(inbox[i].id, inbox[i].call)
  /\ reader.pc = "deliver" => reader.answer = reader.call /\ reader.call \in executed
  /\ \A k \in Calls : channel[k] # <<>> => Head(channel[k]) \in {Nobody} \union ({k} \intersect executed)
  /\ \A k \in Calls : call[k].pc = "returned" => call[k].result \in {Nobody} \union ({k} \intersect executed)

Inv == TypeOK /\ NeverBlocks /\ PendingIsOpen /\ EarlyIsEmpty /\ RequestsAreNew /\ AnswersAreOwn

LEMMA States ==
  /\ NoCall \in CallStates
  /\ \A c \in CallStates, pc \in CallPcs : [c EXCEPT !.pc = pc] \in CallStates
  /\ \A result \in Calls \union {Nobody} :
       [NoCall EXCEPT !.pc = "returned", !.result = result] \in CallStates
  /\ \A pc \in {"dial", "set", "read", "deliver", "ended"} : Reader(pc) \in ReaderStates
  /\ Reading \in ReaderStates
BY DEF NoCall, CallStates, CallPcs, Reader, Reading, ReaderStates, Nobody

LEMMA InitInv == Init => Inv
<1> SUFFICES ASSUME Init PROVE Inv
  OBVIOUS
<1>1. TypeOK
  <2>1. /\ connection \in Nat /\ made \in Nat /\ nextID \in Nat /\ sent \in Nat
        /\ alive \in BOOLEAN /\ closed \in BOOLEAN
        /\ pending \in SUBSET [id : Nat, call : Calls]
        /\ requests \in SUBSET [id : Nat, connection : Nat, call : Calls]
        /\ executed \subseteq Calls
        /\ consumer \in {"idle", "interrupt", "calling", "publish"}
        /\ heard \in [connection : Nat, number : Nat]
    BY DEF Init, NoEvent
  <2>2. reader \in ReaderStates /\ call \in [Calls -> CallStates]
    BY States DEF Init
  <2>3. /\ channel \in [Calls -> Seq(Calls \union {Nobody})]
        /\ events \in Seq(Events)
        /\ inbox \in Seq(Messages)
    BY DEF Init
  <2>4. QED
    BY <2>1, <2>2, <2>3 DEF TypeOK
<1>2. NeverBlocks /\ PendingIsOpen /\ EarlyIsEmpty /\ RequestsAreNew /\ AnswersAreOwn
  BY DEF Init, NeverBlocks, PendingIsOpen, Asked, EarlyIsEmpty, RequestsAreNew, AnswersAreOwn,
         Reader, Reading, NoCall, Early
<1>3. QED
  BY <1>1, <1>2 DEF Inv

Calm == NeverBlocks /\ PendingIsOpen /\ EarlyIsEmpty /\ RequestsAreNew /\ AnswersAreOwn

\* What has nothing to do with calls: fewer messages in the inbox, events.
LEMMA QuietStep ==
  ASSUME Inv,
         UNCHANGED <<nextID, pending, call, channel, requests, executed>>,
         reader' = reader \/ reader'.pc # "deliver",
         \A i \in DOMAIN inbox' : inbox'[i].type = "response" =>
           \E j \in DOMAIN inbox : inbox[j] = inbox'[i]
  PROVE  Calm'
<1>1. NeverBlocks' /\ PendingIsOpen' /\ EarlyIsEmpty' /\ RequestsAreNew'
  BY DEF Inv, NeverBlocks, PendingIsOpen, Asked, EarlyIsEmpty, RequestsAreNew
<1>2. ASSUME NEW i \in DOMAIN inbox', inbox'[i].type = "response"
      PROVE  AnswerFor(inbox[i].id, inbox[i].call)'
  <2>1. PICK j \in DOMAIN inbox : inbox[j] = inbox'[i]
    BY <1>2
  <2>2. AnswerFor(inbox[j].id, inbox[j].call)
    BY <1>2, <2>1 DEF Inv, AnswersAreOwn
  <2>3. QED
    BY <2>1, <2>2 DEF AnswerFor
<1>3. AnswersAreOwn'
  BY <1>2 DEF Inv, AnswersAreOwn
<1>4. QED
  BY <1>1, <1>3 DEF Calm

\* A call that returns is not in pending afterwards; nobody else is taken out.
LEMMA ReturnStep ==
  ASSUME Inv, NEW k \in Calls, NEW result \in {Nobody} \union ({k} \intersect executed),
         Return(k, result),
         \/ pending' = Without(call[k].id)
         \/ pending' = pending /\ \A p \in pending : p.call # k,
         \/ channel' = channel
         \/ channel[k] # <<>> /\ channel' = [channel EXCEPT ![k] = Tail(channel[k])],
         nextID' \in {nextID, nextID + 1},
         UNCHANGED <<reader, requests, executed, inbox>>
  PROVE  Calm'
<1>1. \A p \in pending' : p \in pending /\ p.call # k
  BY DEF Without, Inv, PendingIsOpen, Asked
<1>2. /\ call' = [call EXCEPT ![k] = [NoCall EXCEPT !.pc = "returned", !.result = result]]
      /\ call'[k].pc = "returned" /\ call'[k].result = result
      /\ \A j \in Calls : j # k => call'[j] = call[j] /\ channel'[j] = channel[j]
  BY DEF Return, Inv, TypeOK, NoCall
<1>3. Len(channel[k]) <= 1 /\ channel[k] \in Seq(Calls \union {Nobody})
  BY DEF Inv, NeverBlocks, TypeOK
<1>4. channel'[k] = channel[k] \/ channel'[k] = <<>>
  BY <1>3 DEF Inv, TypeOK
<1>5. /\ pending \in SUBSET [id : Nat, call : Calls]
      /\ requests \in SUBSET [id : Nat, connection : Nat, call : Calls]
      /\ nextID \in Nat
  BY DEF Inv, TypeOK
<1>6. NeverBlocks'
  BY <1>1, <1>2, <1>3, <1>4, <1>5 DEF Inv, NeverBlocks, EarlyIsEmpty
<1>7. PendingIsOpen'
  BY <1>1, <1>2, <1>5 DEF Inv, PendingIsOpen, Asked
<1>8. EarlyIsEmpty'
  BY <1>2, <1>4 DEF Inv, EarlyIsEmpty, Early
<1>9. RequestsAreNew'
  BY <1>1, <1>2, <1>5 DEF Inv, RequestsAreNew, Early
<1>10. AnswersAreOwn'
  BY <1>1, <1>2, <1>4, <1>5 DEF Inv, AnswersAreOwn, AnswerFor
<1>11. QED
  BY <1>6, <1>7, <1>8, <1>9, <1>10 DEF Calm

\* A call that gets ready to ask.
LEMMA ReadyStep ==
  ASSUME Inv, NEW k \in Calls, NEW pc \in Early, call[k].pc \in Early, Goto(k, pc),
         UNCHANGED <<nextID, pending, channel, reader, requests, executed, inbox>>
  PROVE  Calm'
<1>1. /\ call'[k].pc = pc /\ call'[k].id = call[k].id
      /\ \A j \in Calls : j # k => call'[j] = call[j]
  BY DEF Goto, Inv, TypeOK, CallStates
<1>2. /\ pending \in SUBSET [id : Nat, call : Calls]
      /\ requests \in SUBSET [id : Nat, connection : Nat, call : Calls]
  BY DEF Inv, TypeOK
<1>3. NeverBlocks'
  BY DEF Inv, NeverBlocks
<1>4. \A p \in pending : p.call # k
  BY DEF Inv, PendingIsOpen, Asked, Early
<1>5. PendingIsOpen'
  BY <1>1, <1>2, <1>4 DEF Inv, PendingIsOpen, Asked, Early
<1>6. EarlyIsEmpty'
  BY <1>1 DEF Inv, EarlyIsEmpty
<1>7. \A r \in requests : r.call # k
  BY DEF Inv, RequestsAreNew, Early
<1>8. RequestsAreNew'
  BY <1>1, <1>2, <1>7 DEF Inv, RequestsAreNew
<1>9. AnswersAreOwn'
  BY <1>1 DEF Inv, AnswersAreOwn, AnswerFor, Early
<1>10. QED
  BY <1>3, <1>5, <1>6, <1>8, <1>9 DEF Calm

\* Everybody who waits hears that the connection is lost.
LEMMA FailStep ==
  ASSUME Inv, failPendingLocked,
         UNCHANGED <<nextID, call, requests, executed>>,
         reader' = reader \/ reader'.pc # "deliver",
         inbox' = inbox \/ inbox' = <<>>
  PROVE  Calm'
<1>1. pending' = {} /\ \A k \in Calls : \/ channel'[k] = channel[k]
                                        \/ /\ channel[k] = <<>>
                                           /\ Len(channel'[k]) = 1 /\ Head(channel'[k]) = Nobody
                                           /\ \E p \in pending : p.call = k
  <2>1. \A k \in Calls : channel[k] = <<>> => /\ Len(Append(channel[k], Nobody)) = 1
                                                 /\ Head(Append(channel[k], Nobody)) = Nobody
    OBVIOUS
  <2>2. QED
    BY <2>1 DEF failPendingLocked, Inv, NeverBlocks
<1>2. NeverBlocks'
  <2>1. ASSUME NEW k \in Calls PROVE Len(channel'[k]) <= 1
    <3>1. CASE channel'[k] = channel[k]
      BY <3>1 DEF Inv, NeverBlocks
    <3>2. CASE Len(channel'[k]) = 1
      BY <3>2
    <3>3. QED
      BY <3>1, <3>2, <1>1
  <2>2. reader'.pc = "deliver" => channel'[reader'.call] = <<>>
    BY <1>1 DEF Inv, NeverBlocks, EarlyIsEmpty
  <2>3. QED
    BY <2>1, <2>2, <1>1 DEF NeverBlocks
<1>3. PendingIsOpen' /\ RequestsAreNew'
  BY <1>1 DEF Inv, PendingIsOpen, Asked, RequestsAreNew
<1>4. EarlyIsEmpty'
  BY <1>1 DEF Inv, EarlyIsEmpty, PendingIsOpen, Asked, Early
<1>5. \A k \in Calls : channel'[k] # <<>> => Head(channel'[k]) \in {Nobody} \union ({k} \intersect executed)
  BY <1>1 DEF Inv, AnswersAreOwn
<1>6. AnswersAreOwn'
  BY <1>1, <1>5 DEF Inv, AnswersAreOwn, AnswerFor
<1>7. QED
  BY <1>2, <1>3, <1>4, <1>6 DEF Calm

LEMMA RegisterStep == ASSUME Inv, NEW k \in Calls, Register(k) PROVE Calm'
<1>1. /\ nextID \in Nat /\ pending \in SUBSET [id : Nat, call : Calls]
      /\ requests \in SUBSET [id : Nat, connection : Nat, call : Calls]
      /\ call \in [Calls -> CallStates]
  BY DEF Inv, TypeOK
<1>2. call[k].pc = "register" /\ channel[k] = <<>>
  BY DEF Register, Inv, EarlyIsEmpty, Early
<1>3. \A p \in pending : p.call # k
  BY <1>2 DEF Inv, PendingIsOpen, Asked
<1>4. CASE connection = 0
  <2>1. Return(k, Nobody) /\ pending' = pending
    BY <1>4 DEF Register
  <2>2. QED
    BY <2>1, <1>3, ReturnStep DEF Register, linkVars, hermesVars, NewID
<1>5. CASE connection # 0
  <2>1. Without(nextID + 1) = pending
    BY <1>1 DEF Without, Inv, PendingIsOpen, Asked
  <2> DEFINE new == [id |-> nextID + 1, call |-> k]
  <2>2. pending' = pending \union {new} /\ nextID' = nextID + 1
    BY <1>5, <2>1 DEF Register, NewID
  <2>3. /\ call'[k].pc = "write" /\ call'[k].id = nextID + 1
        /\ \A j \in Calls : j # k => call'[j] = call[j]
    BY <1>1, <1>5 DEF Register, NewID, CallStates
  <2>4. UNCHANGED <<channel, reader, requests, executed, inbox>>
    BY DEF Register, linkVars, hermesVars
  <2>5. new.id = nextID + 1 /\ new.call = k
    OBVIOUS
  <2> HIDE DEF new
  <2>6. NeverBlocks'
    BY <1>2, <2>2, <2>4, <2>5 DEF Inv, NeverBlocks, EarlyIsEmpty, Early
  <2>7. PendingIsOpen'
    BY <1>1, <1>3, <2>2, <2>3, <2>5 DEF Inv, PendingIsOpen, Asked
  <2>8. EarlyIsEmpty'
    BY <1>2, <2>3, <2>4 DEF Inv, EarlyIsEmpty, Early
  <2>9. \A r \in requests : r.call # k
    BY <1>2 DEF Inv, RequestsAreNew
  <2>10. RequestsAreNew'
    <3>1. \A r \in requests : /\ r.call \notin executed
                              /\ r.id \in 1 .. nextID /\ r.id \in Nat
                              /\ r.call \in Calls
                              /\ call[r.call].pc \in {"await", "returned"}
      BY <1>1 DEF Inv, RequestsAreNew
    <3>2. \A r \in requests : /\ r.id \in 1 .. nextID + 1 /\ r.id # nextID + 1
                              /\ call'[r.call].pc \in {"await", "returned"}
      BY <1>1, <2>3, <2>9, <3>1
    <3>3. \A r \in requests : \A p \in pending' : p.id = r.id => p.call = r.call
      BY <2>2, <2>5, <3>2 DEF Inv, RequestsAreNew
    <3>4. \A j \in Calls : call'[j].pc \in Early \union {"write"} => j \notin executed
      BY <1>2, <2>3 DEF Inv, RequestsAreNew, Early
    <3>5. QED
      BY <2>2, <2>4, <3>1, <3>2, <3>3, <3>4 DEF Inv, RequestsAreNew
  <2>11. \A i \in DOMAIN inbox : inbox[i].type = "response" => AnswerFor(inbox[i].id, inbox[i].call)'
    <3>1. SUFFICES ASSUME NEW i \in DOMAIN inbox, inbox[i].type = "response"
                   PROVE  AnswerFor(inbox[i].id, inbox[i].call)'
      OBVIOUS
    <3>2. AnswerFor(inbox[i].id, inbox[i].call)
      BY <3>1 DEF Inv, AnswersAreOwn
    <3>3. QED
      BY <1>1, <2>2, <2>4, <2>5, <3>2 DEF AnswerFor
  <2>12. AnswersAreOwn'
    BY <2>3, <2>4, <2>11 DEF Inv, AnswersAreOwn
  <2>13. QED
    BY <2>6, <2>7, <2>8, <2>10, <2>12 DEF Calm
<1>6. QED
  BY <1>4, <1>5

LEMMA WriteStep == ASSUME Inv, NEW k \in Calls, Write(k) PROVE Calm'
<1>1. /\ nextID \in Nat /\ pending \in SUBSET [id : Nat, call : Calls]
      /\ requests \in SUBSET [id : Nat, connection : Nat, call : Calls]
      /\ call \in [Calls -> CallStates]
  BY DEF Inv, TypeOK
<1>2. call[k].pc = "write"
  BY DEF Write
<1>3. CASE removePending(call[k].id) /\ Return(k, Nobody) /\ UNCHANGED requests
  BY <1>3, ReturnStep DEF Write, removePending, linkVars, Nobody
<1>4. CASE /\ Goto(k, "await") /\ UNCHANGED pending
           /\ requests' = IF alive THEN requests \union {Request(k)} ELSE requests
  <2>1. /\ call'[k].pc = "await" /\ call'[k].id = call[k].id
        /\ \A j \in Calls : j # k => call'[j] = call[j]
    BY <1>1, <1>4 DEF Goto, CallStates
  <2>2. UNCHANGED <<channel, reader, executed, inbox, nextID, pending>>
    BY <1>4 DEF Write, linkVars
  <2>3. NeverBlocks'
    BY <2>2 DEF Inv, NeverBlocks
  <2>4. PendingIsOpen'
    BY <1>1, <1>2, <2>1, <2>2 DEF Inv, PendingIsOpen, Asked
  <2>5. EarlyIsEmpty'
    BY <1>2, <2>1, <2>2 DEF Inv, EarlyIsEmpty, Early
  <2>6. RequestsAreNew'
    <3> DEFINE r == Request(k)
    <3>1. r.call = k /\ r.id = call[k].id /\ r \in [id : {call[k].id}, connection : {made}, call : {k}]
      BY DEF Request
    <3> HIDE DEF r
    <3>2. k \notin executed /\ \A s \in requests : s.call # k
      BY <1>2 DEF Inv, RequestsAreNew
    <3>3. r.id \in 1 .. nextID /\ \A p \in pending : p.id = r.id => p.call = k
      BY <1>1, <1>2, <3>1 DEF Inv, PendingIsOpen, Asked
    <3>4. \A s \in requests : call'[s.call] = call[s.call]
      BY <1>1, <2>1, <3>2
    <3>5. \A j \in Calls : call'[j].pc \in Early \union {"write"} => j \notin executed
      BY <1>2, <2>1 DEF Inv, RequestsAreNew, Early
    <3>6. requests' = requests \/ requests' = requests \union {r}
      BY <1>4 DEF r
    <3>7. \A s \in requests' : /\ s.call \notin executed /\ s.id \in 1 .. nextID
                               /\ call'[s.call].pc \in {"await", "returned"}
                               /\ \A p \in pending : p.id = s.id => p.call = s.call
      BY <2>1, <3>1, <3>2, <3>3, <3>4, <3>6 DEF Inv, RequestsAreNew
    <3>8. \A s, t \in requests' : s.call = t.call => s = t
      BY <3>1, <3>2, <3>6 DEF Inv, RequestsAreNew
    <3>9. QED
      BY <2>2, <3>5, <3>7, <3>8 DEF RequestsAreNew
  <2>7. AnswersAreOwn'
    BY <1>2, <2>1, <2>2 DEF Inv, AnswersAreOwn, AnswerFor
  <2>8. QED
    BY <2>3, <2>4, <2>5, <2>6, <2>7 DEF Calm
<1>5. QED
  BY <1>3, <1>4 DEF Write

\* The reader takes the one call an answer is for out of pending.
LEMMA ReadResponseStep == ASSUME Inv, ReadResponse PROVE Calm'
<1> DEFINE r == Head(inbox)
<1> DEFINE waiting == {p.call : p \in {q \in pending : q.id = r.id}}
<1>1. /\ pending \in SUBSET [id : Nat, call : Calls]
      /\ inbox \in Seq(Messages) /\ inbox # <<>>
  BY DEF Inv, TypeOK, ReadResponse
<1>2. /\ pending' = Without(r.id)
      /\ UNCHANGED <<nextID, call, channel, requests, executed>>
  BY DEF ReadResponse, removePending
<1>3. \A p \in pending' : p \in pending /\ p.id # r.id
  BY <1>2 DEF Without
<1>4. AnswerFor(r.id, r.call)
  <2>1. 1 \in DOMAIN inbox /\ r = inbox[1]
    BY <1>1
  <2>2. inbox[1].type = "response"
    BY <2>1 DEF ReadResponse
  <2>3. QED
    BY <2>1, <2>2 DEF Inv, AnswersAreOwn
<1>5. \/ reader'.pc = "read"
      \/ /\ reader'.pc = "deliver" /\ reader'.answer = r.call
         /\ reader'.call = r.call /\ r.call \in executed /\ channel[r.call] = <<>>
         /\ r.call \in Calls /\ call[r.call].pc \in {"write", "await"}
         /\ \A p \in pending' : p.call # r.call
  <2>1. CASE waiting = {}
    BY <2>1 DEF ReadResponse, Reading
  <2>2. CASE waiting # {}
    <3>1. PICK p \in pending : p.id = r.id /\ waiting = {p.call}
      BY <1>4, <2>2 DEF AnswerFor
    <3>2. p.call = r.call /\ p.call \in Calls /\ r.call \in executed
      BY <1>1, <1>4, <3>1 DEF AnswerFor
    <3>3. (CHOOSE k \in waiting : TRUE) = p.call
      BY <3>1
    <3>4. reader' = [pc |-> "deliver", call |-> p.call, answer |-> r.call]
      BY <2>2, <3>3 DEF ReadResponse
    <3>5. channel[p.call] = <<>> /\ call[p.call].pc \in {"write", "await"}
      BY DEF Inv, NeverBlocks, PendingIsOpen, Asked
    <3>6. \A q \in pending' : q.call # p.call
      BY <1>3, <3>1 DEF Inv, PendingIsOpen
    <3>7. QED
      BY <3>2, <3>4, <3>5, <3>6
  <2>3. QED
    BY <2>1, <2>2
<1> HIDE DEF r, waiting
<1>6. NeverBlocks'
  BY <1>2, <1>3, <1>5 DEF Inv, NeverBlocks
<1>7. PendingIsOpen' /\ RequestsAreNew'
  BY <1>2, <1>3 DEF Inv, PendingIsOpen, Asked, RequestsAreNew
<1>8. EarlyIsEmpty'
  BY <1>2, <1>5 DEF Inv, EarlyIsEmpty, Early
<1>9. \A i \in DOMAIN inbox' : i + 1 \in DOMAIN inbox /\ inbox'[i] = inbox[i + 1]
  BY <1>1 DEF ReadResponse
<1>10. \A i \in DOMAIN inbox' : inbox'[i].type = "response" => AnswerFor(inbox[i].id, inbox[i].call)'
  BY <1>2, <1>3, <1>9 DEF Inv, AnswersAreOwn, AnswerFor
<1>11. AnswersAreOwn'
  BY <1>2, <1>5, <1>10 DEF Inv, AnswersAreOwn
<1>12. QED
  BY <1>6, <1>7, <1>8, <1>11 DEF Calm

LEMMA DeliverStep == ASSUME Inv, Deliver PROVE Calm'
<1>1. /\ reader.pc = "deliver" /\ reader.call \in Calls /\ reader'.pc = "read"
      /\ reader.answer = reader.call /\ reader.call \in executed
      /\ call[reader.call].pc \notin Early
  BY DEF Deliver, Inv, EarlyIsEmpty, AnswersAreOwn, Reading
<1>2. /\ channel \in [Calls -> Seq(Calls \union {Nobody})]
      /\ pending \in SUBSET [id : Nat, call : Calls]
  BY DEF Inv, TypeOK
<1>3. /\ Len(channel'[reader.call]) = 1 /\ Head(channel'[reader.call]) = reader.call
      /\ \A k \in Calls : k # reader.call => channel'[k] = channel[k]
  BY <1>1, <1>2 DEF Deliver
<1>4. UNCHANGED <<nextID, pending, call, requests, executed, inbox>>
  BY DEF Deliver, hermesVars
<1>5. NeverBlocks'
  <2>1. ASSUME NEW k \in Calls PROVE Len(channel'[k]) <= 1
    <3>1. CASE k = reader.call
      <4>1. Len(channel'[k]) = 1
        BY <1>3, <3>1
      <4>2. QED
        BY <4>1
    <3>2. CASE k # reader.call
      BY <1>3, <3>2 DEF Inv, NeverBlocks
    <3>3. QED
      BY <3>1, <3>2
  <2>2. \A p \in pending' : channel'[p.call] = <<>>
    BY <1>1, <1>2, <1>3, <1>4 DEF Inv, NeverBlocks
  <2>3. QED
    BY <1>1, <2>1, <2>2 DEF NeverBlocks
<1>6. PendingIsOpen' /\ RequestsAreNew'
  BY <1>4 DEF Inv, PendingIsOpen, Asked, RequestsAreNew
<1>7. EarlyIsEmpty'
  BY <1>1, <1>3, <1>4 DEF Inv, EarlyIsEmpty
<1>8. AnswersAreOwn'
  BY <1>1, <1>3, <1>4 DEF Inv, AnswersAreOwn, AnswerFor
<1>9. QED
  BY <1>5, <1>6, <1>7, <1>8 DEF Calm

LEMMA ExecuteStep == ASSUME Inv, NEW r \in requests, Execute(r) PROVE Calm'
<1>1. /\ requests \in SUBSET [id : Nat, connection : Nat, call : Calls]
      /\ inbox \in Seq(Messages)
  BY DEF Inv, TypeOK
<1>2. /\ UNCHANGED <<nextID, pending, call, channel, reader>>
      /\ requests' = requests \ {r} /\ executed' = executed \union {r.call}
  BY DEF Execute, linkVars, callVars
<1>3. NeverBlocks' /\ PendingIsOpen' /\ EarlyIsEmpty'
  BY <1>2 DEF Inv, NeverBlocks, PendingIsOpen, Asked, EarlyIsEmpty
<1>4. RequestsAreNew'
  BY <1>1, <1>2 DEF Inv, RequestsAreNew, Early
<1>5. \A id, k : AnswerFor(id, k) => AnswerFor(id, k)'
  BY <1>2 DEF AnswerFor
<1>6. AnswerFor(r.id, r.call)'
  BY <1>2 DEF Inv, RequestsAreNew, AnswerFor
<1>7. \A i \in DOMAIN inbox' :
        \/ i \in DOMAIN inbox /\ inbox'[i] = inbox[i]
        \/ inbox'[i] = Response(r.id, r.call)
  BY <1>1 DEF Execute
<1>8. \A i \in DOMAIN inbox' : inbox'[i].type = "response" => AnswerFor(inbox[i].id, inbox[i].call)'
  BY <1>5, <1>6, <1>7 DEF Inv, AnswersAreOwn, Response
<1>9. AnswersAreOwn'
  BY <1>2, <1>8 DEF Inv, AnswersAreOwn
<1>10. QED
  BY <1>3, <1>4, <1>9 DEF Calm

LEMMA StepCalm == ASSUME Inv, [Next]_vars PROVE Calm'
<1>1. \A k \in Calls : call[k].pc \in Early => \A p \in pending : p.call # k
  BY DEF Inv, PendingIsOpen, Asked, Early
<1>2. inbox \in Seq(Messages) /\ channel \in [Calls -> Seq(Calls \union {Nobody})]
  BY DEF Inv, TypeOK
<1>3. ASSUME NEW k \in Calls, Begin(k) PROVE Calm'
  <2>1. /\ call[k].pc \in Early
        /\ UNCHANGED <<nextID, pending, channel, reader, requests, executed, inbox>>
    BY <1>3 DEF Begin, linkVars, hermesVars, Early
  <2>2. Return(k, Nobody) \/ Goto(k, "wait")
    BY <1>3 DEF Begin
  <2>3. QED
    BY <1>1, <2>1, <2>2, ReturnStep, ReadyStep DEF Early
<1>4. ASSUME NEW k \in Calls, WaitConnected(k) PROVE Calm'
  <2>1. /\ call[k].pc \in Early
        /\ UNCHANGED <<nextID, pending, channel, reader, requests, executed, inbox>>
    BY <1>4 DEF WaitConnected, linkVars, hermesVars, Early
  <2>2. Return(k, Nobody) \/ Goto(k, "register")
    BY <1>4 DEF WaitConnected
  <2>3. QED
    BY <1>1, <2>1, <2>2, ReturnStep, ReadyStep DEF Early
<1>5. ASSUME NEW k \in Calls, Await(k) PROVE Calm'
  <2>1. UNCHANGED <<nextID, reader, requests, executed, inbox>>
    BY <1>5 DEF Await, linkVars, hermesVars
  <2>2. CASE closed /\ removePending(call[k].id) /\ Return(k, Nobody) /\ UNCHANGED channel
    BY <2>1, <2>2, ReturnStep DEF removePending
  <2>3. CASE /\ channel[k] # <<>> /\ channel' = [channel EXCEPT ![k] = Tail(@)]
             /\ Return(k, Head(channel[k])) /\ UNCHANGED pending
    <3>1. Head(channel[k]) \in {Nobody} \union ({k} \intersect executed)
      BY <2>3 DEF Inv, AnswersAreOwn
    <3>2. \A p \in pending : p.call # k
      BY <2>3 DEF Inv, NeverBlocks
    <3>3. QED
      BY <2>1, <2>3, <3>1, <3>2, ReturnStep
  <2>4. QED
    BY <1>5, <2>2, <2>3 DEF Await
<1>6. ASSUME NEW k \in Calls, Timeout(k) PROVE Calm'
  BY <1>6, ReturnStep DEF Timeout, removePending, linkVars, hermesVars
<1>7. CASE Dial \/ SetConnected \/ ReadEvent \/ End \/ Disconnect
  <2>1. /\ UNCHANGED <<nextID, pending, call, channel, requests, executed>>
        /\ reader' = reader \/ reader'.pc # "deliver"
    BY <1>7 DEF Dial, SetConnected, ReadEvent, End, Disconnect, linkVars, callVars, hermesVars,
                Reader, Reading
  <2>2. \A i \in DOMAIN inbox' : \E j \in DOMAIN inbox : inbox[j] = inbox'[i]
    <3>1. CASE inbox' = <<>> \/ inbox' = inbox
      BY <3>1
    <3>2. CASE inbox # <<>> /\ inbox' = Tail(inbox)
      <4>1. \A i \in DOMAIN inbox' : i + 1 \in DOMAIN inbox /\ inbox[i + 1] = inbox'[i]
        BY <1>2, <3>2
      <4>2. QED
        BY <4>1
    <3>3. CASE \E n \in 0 .. Len(inbox) : inbox' = SubSeq(inbox, 1, n)
      BY <1>2, <3>3
    <3>4. QED
      BY <1>7, <3>1, <3>2, <3>3 DEF Dial, SetConnected, ReadEvent, End, Disconnect, hermesVars
  <2>3. QED
    BY <2>1, <2>2, QuietStep
<1>8. CASE ConsumerStep
  <2>1. CASE Receive \/ Interrupted \/ Published
    <3>1. UNCHANGED <<nextID, pending, call, channel, requests, executed, reader, inbox>>
      BY <2>1 DEF Receive, Interrupted, Published, linkVars, callVars, hermesVars
    <3>2. QED
      BY <3>1, QuietStep
  <2>2. ASSUME NEW k \in Own, Interrupt(k) PROVE Calm'
    BY <1>3, <2>2, ClientAssumption DEF Interrupt
  <2>3. QED
    BY <1>8, <2>1, <2>2 DEF ConsumerStep
<1>9. ASSUME NEW type \in {"plain", "forbidden"}, Emit(type) PROVE Calm'
  <2>1. UNCHANGED <<nextID, pending, call, channel, requests, executed, reader>>
    BY <1>9 DEF Emit, linkVars, callVars
  <2>2. \A i \in DOMAIN inbox' : inbox'[i].type = "response" => i \in DOMAIN inbox /\ inbox[i] = inbox'[i]
    BY <1>2, <1>9 DEF Emit, Event
  <2>3. QED
    BY <2>1, <2>2, QuietStep
<1>10. CASE ReadFails
  <2>1. /\ UNCHANGED <<nextID, call, requests, executed>>
        /\ reader'.pc # "deliver" /\ inbox' = <<>>
        /\ failPendingLocked \/ UNCHANGED <<pending, channel>>
    BY <1>10 DEF ReadFails, Reader, Reading
  <2>2. QED
    BY <2>1, FailStep, QuietStep
<1>11. CASE Close
  <2>1. /\ failPendingLocked /\ UNCHANGED <<nextID, call, requests, executed, reader>>
        /\ inbox' = inbox \/ inbox' = <<>>
    BY <1>11 DEF Close
  <2>2. QED
    BY <2>1, FailStep
<1>12. CASE UNCHANGED vars
  BY <1>12, QuietStep DEF vars, linkVars, callVars, hermesVars
<1>13. QED
  BY <1>3, <1>4, <1>5, <1>6, <1>7, <1>8, <1>9, <1>10, <1>11, <1>12,
     RegisterStep, WriteStep, ReadResponseStep, DeliverStep, ExecuteStep
     DEF Next, CallStep, ReaderStep

(***************************************************************************)
(* Types                                                                   *)
(***************************************************************************)
CallTypes ==
  /\ nextID \in Nat
  /\ pending \in SUBSET [id : Nat, call : Calls]
  /\ call \in [Calls -> CallStates]
  /\ channel \in [Calls -> Seq(Calls \union {Nobody})]

LinkTypes ==
  /\ connection \in Nat /\ made \in Nat
  /\ alive \in BOOLEAN /\ closed \in BOOLEAN
  /\ reader \in ReaderStates

HermesTypes ==
  /\ requests \in SUBSET [id : Nat, connection : Nat, call : Calls]
  /\ executed \subseteq Calls
  /\ inbox \in Seq(Messages)
  /\ sent \in Nat

ConsumerTypes ==
  /\ events \in Seq(Events)
  /\ consumer \in {"idle", "interrupt", "calling", "publish"}
  /\ heard \in [connection : Nat, number : Nat]

LEMMA TypesSplit == TypeOK <=> CallTypes /\ LinkTypes /\ HermesTypes /\ ConsumerTypes
BY DEF TypeOK, CallTypes, LinkTypes, HermesTypes, ConsumerTypes

LEMMA TypesPrimed == TypeOK' <=> CallTypes' /\ LinkTypes' /\ HermesTypes' /\ ConsumerTypes'
BY DEF TypeOK, CallTypes, LinkTypes, HermesTypes, ConsumerTypes

LEMMA SameTypes ==
  /\ CallTypes /\ UNCHANGED callVars => CallTypes'
  /\ LinkTypes /\ UNCHANGED linkVars => LinkTypes'
  /\ HermesTypes /\ UNCHANGED hermesVars => HermesTypes'
  /\ ConsumerTypes /\ UNCHANGED consumerVars => ConsumerTypes'
BY DEF CallTypes, callVars, LinkTypes, linkVars, HermesTypes, hermesVars, ConsumerTypes, consumerVars

LEMMA CallChanges ==
  ASSUME CallTypes, NEW k \in Calls
  PROVE  /\ \A pc \in CallPcs : Goto(k, pc) => call' \in [Calls -> CallStates]
         /\ \A result \in Calls \union {Nobody} :
              Return(k, result) => call' \in [Calls -> CallStates]
<1>1. call[k] \in CallStates
  BY DEF CallTypes
<1>2. \A pc \in CallPcs : [call[k] EXCEPT !.pc = pc] \in CallStates
  BY <1>1, States
<1>3. QED
  BY <1>2, States DEF CallTypes, Goto, Return

LEMMA StepTypes == ASSUME TypeOK, [Next]_vars PROVE TypeOK'
<1> USE TypesSplit, TypesPrimed
<1>1. CallTypes /\ LinkTypes /\ HermesTypes /\ ConsumerTypes
  OBVIOUS
<1>2. ASSUME NEW k \in Calls, Begin(k) PROVE CallTypes' /\ LinkTypes' /\ HermesTypes'
  <2>1. call' \in [Calls -> CallStates]
    BY <1>1, <1>2, CallChanges DEF Begin, CallPcs
  <2>2. QED
    BY <1>1, <1>2, <2>1, SameTypes DEF Begin, CallTypes
<1>3. ASSUME NEW k \in Calls, WaitConnected(k) PROVE TypeOK'
  <2>1. call' \in [Calls -> CallStates]
    BY <1>1, <1>3, CallChanges DEF WaitConnected, CallPcs
  <2>2. QED
    BY <1>1, <1>3, <2>1, SameTypes DEF WaitConnected, CallTypes
<1>4. ASSUME NEW k \in Calls, Register(k) PROVE TypeOK'
  <2>1. nextID' = nextID + 1 /\ nextID' \in Nat
    BY <1>1, <1>4 DEF Register, NewID, CallTypes
  <2>2. call' \in [Calls -> CallStates]
    <3>1. CASE Return(k, Nobody)
      BY <1>1, <3>1, CallChanges
    <3>2. CASE call' = [call EXCEPT ![k].pc = "write", ![k].id = NewID,
                                    ![k].connection = connection]
      <4>1. call[k] \in CallStates /\ NewID \in Nat /\ connection \in Nat
        BY <1>1 DEF CallTypes, NewID, LinkTypes
      <4>2. [call[k] EXCEPT !.pc = "write", !.id = NewID, !.connection = connection] \in CallStates
        BY <4>1 DEF CallStates, CallPcs
      <4>3. QED
        BY <1>1, <3>2, <4>2 DEF CallTypes
    <3>3. QED
      BY <1>4, <3>1, <3>2 DEF Register
  <2>3. pending' \in SUBSET [id : Nat, call : Calls]
    BY <1>1, <1>4, <2>1 DEF Register, NewID, Without, CallTypes
  <2>4. channel' = channel /\ UNCHANGED <<linkVars, hermesVars, consumerVars>>
    BY <1>4 DEF Register
  <2>5. QED
    BY <1>1, <2>1, <2>2, <2>3, <2>4, SameTypes DEF CallTypes
<1>5. ASSUME NEW k \in Calls, Write(k) PROVE TypeOK'
  <2>1. call' \in [Calls -> CallStates]
    BY <1>1, <1>5, CallChanges DEF Write, CallPcs
  <2>2. CallTypes'
    BY <1>1, <1>5, <2>1 DEF Write, removePending, Without, CallTypes
  <2>3. Request(k) \in [id : Nat, connection : Nat, call : Calls]
    BY <1>1 DEF Request, CallTypes, CallStates, LinkTypes
  <2>4. HermesTypes'
    BY <1>1, <1>5, <2>3 DEF Write, HermesTypes
  <2>5. QED
    BY <1>1, <1>5, <2>2, <2>4, SameTypes DEF Write
<1>6. ASSUME NEW k \in Calls, Await(k) PROVE TypeOK'
  <2>1. channel[k] # <<>> => Head(channel[k]) \in Calls \union {Nobody}
    BY <1>1 DEF CallTypes
  <2>2. call' \in [Calls -> CallStates]
    BY <1>1, <1>6, <2>1, CallChanges DEF Await
  <2>3. CallTypes'
    <3>1. channel[k] # <<>> => Tail(channel[k]) \in Seq(Calls \union {Nobody})
      BY <1>1 DEF CallTypes
    <3>2. channel' \in [Calls -> Seq(Calls \union {Nobody})]
      BY <1>1, <1>6, <3>1 DEF Await, CallTypes
    <3>3. QED
      BY <1>1, <1>6, <2>2, <3>2 DEF Await, removePending, Without, CallTypes
  <2>4. QED
    BY <1>1, <1>6, <2>3, SameTypes DEF Await
<1>7. ASSUME NEW k \in Calls, Timeout(k) PROVE TypeOK'
  <2>1. call' \in [Calls -> CallStates]
    BY <1>1, <1>7, CallChanges DEF Timeout
  <2>2. CallTypes'
    BY <1>1, <1>7, <2>1 DEF Timeout, removePending, Without, CallTypes
  <2>3. QED
    BY <1>1, <1>7, <2>2, SameTypes DEF Timeout
<1>8. ASSUME NEW r \in requests, Execute(r) PROVE TypeOK'
  <2>1. r.call \in Calls /\ r.id \in Nat
    BY <1>1 DEF HermesTypes
  <2>2. Response(r.id, r.call) \in Messages
    BY <2>1 DEF Response, Messages, MessageTypes
  <2>3. HermesTypes'
    BY <1>1, <1>8, <2>1, <2>2 DEF Execute, HermesTypes
  <2>4. QED
    BY <1>1, <1>8, <2>3, SameTypes DEF Execute
<1>9. CASE Dial
  <2>1. LinkTypes'
    <3>1. made' \in Nat
      BY <1>1, <1>9 DEF Dial, LinkTypes
    <3>2. reader' \in ReaderStates
      BY <1>9, States DEF Dial
    <3>3. alive' \in BOOLEAN /\ UNCHANGED <<connection, closed>>
      BY <1>9 DEF Dial
    <3>4. QED
      BY <1>1, <3>1, <3>2, <3>3 DEF LinkTypes
  <2>2. HermesTypes'
    BY <1>1, <1>9 DEF Dial, HermesTypes
  <2>3. QED
    BY <1>1, <1>9, <2>1, <2>2, SameTypes DEF Dial
<1>10. CASE SetConnected
  <2>1. LinkTypes'
    BY <1>1, <1>10, States DEF SetConnected, LinkTypes
  <2>2. QED
    BY <1>1, <1>10, <2>1, SameTypes DEF SetConnected
<1>11. CASE ReadEvent
  <2>1. Head(inbox) \in Messages
    BY <1>1, <1>11 DEF ReadEvent, HermesTypes
  <2>2. [connection |-> made, number |-> Head(inbox).id, type |-> Head(inbox).type]
          \in Events
    BY <1>1, <2>1 DEF LinkTypes, Messages, Events
  <2>3. ConsumerTypes'
    BY <1>1, <1>11, <2>2 DEF ReadEvent, SendEvent, ConsumerTypes
  <2>4. HermesTypes'
    BY <1>1, <1>11 DEF ReadEvent, HermesTypes
  <2>5. QED
    BY <1>1, <1>11, <2>3, <2>4, SameTypes DEF ReadEvent
<1>12. CASE ReadResponse
  <2>1. Head(inbox) \in Messages
    BY <1>1, <1>12 DEF ReadResponse, HermesTypes
  <2>2. reader' \in ReaderStates
    <3> DEFINE waiting == {p.call : p \in {q \in pending : q.id = Head(inbox).id}}
    <3>1. waiting \subseteq Calls
      BY <1>1 DEF CallTypes
    <3>2. waiting # {} => (CHOOSE k \in waiting : TRUE) \in Calls
      BY <3>1
    <3>3. Head(inbox).call \in Calls \union {Nobody}
      BY <2>1 DEF Messages
    <3>4. reader' = IF waiting = {} THEN Reading
                    ELSE [pc |-> "deliver", call |-> CHOOSE k \in waiting : TRUE,
                          answer |-> Head(inbox).call]
      BY <1>12 DEF ReadResponse
    <3> HIDE DEF waiting
    <3>5. QED
      BY <3>2, <3>3, <3>4, States DEF ReaderStates
  <2>3. LinkTypes'
    BY <1>1, <1>12, <2>2 DEF ReadResponse, LinkTypes
  <2>4. HermesTypes'
    BY <1>1, <1>12 DEF ReadResponse, HermesTypes
  <2>5. CallTypes'
    BY <1>1, <1>12 DEF ReadResponse, removePending, Without, CallTypes
  <2>6. QED
    BY <1>1, <1>12, <2>3, <2>4, <2>5, SameTypes DEF ReadResponse
<1>13. CASE Deliver
  <2>1. LinkTypes'
    BY <1>1, <1>13, States DEF Deliver, LinkTypes
  <2>2. reader.answer \in Calls \union {Nobody}
    BY <1>1 DEF LinkTypes, ReaderStates
  <2>3. CallTypes'
    <3>1. <<reader.answer>> \in Seq(Calls \union {Nobody})
      BY <2>2
    <3>2. QED
      BY <1>1, <1>13, <3>1 DEF Deliver, CallTypes
  <2>4. QED
    BY <1>1, <1>13, <2>1, <2>3, SameTypes DEF Deliver
<1>14. failPendingLocked => /\ pending' \in SUBSET [id : Nat, call : Calls]
                            /\ channel' \in [Calls -> Seq(Calls \union {Nobody})]
  <2>1. \A k \in Calls : Append(channel[k], Nobody) \in Seq(Calls \union {Nobody})
    BY <1>1 DEF CallTypes
  <2>2. QED
    BY <1>1, <2>1 DEF failPendingLocked, CallTypes
<1>15. CASE ReadFails
  <2>1. LinkTypes'
    <3>1. connection' \in Nat
      BY <1>1, <1>15 DEF ReadFails, LinkTypes
    <3>2. reader' \in ReaderStates
      BY <1>15, States DEF ReadFails
    <3>3. alive' \in BOOLEAN /\ UNCHANGED <<made, closed>>
      BY <1>15 DEF ReadFails
    <3>4. QED
      BY <1>1, <3>1, <3>2, <3>3 DEF LinkTypes
  <2>2. HermesTypes'
    BY <1>1, <1>15 DEF ReadFails, HermesTypes
  <2>3. CallTypes'
    BY <1>1, <1>14, <1>15 DEF ReadFails, CallTypes
  <2>4. QED
    BY <1>15, <2>1, <2>2, <2>3, <1>1, SameTypes DEF ReadFails
<1>16. CASE End
  <2>1. LinkTypes'
    BY <1>1, <1>16, States DEF End, LinkTypes
  <2>2. QED
    BY <1>1, <1>16, <2>1, SameTypes DEF End
<1>17. CASE Close
  <2>1. LinkTypes'
    <3>1. connection' \in Nat
      BY <1>1, <1>17 DEF Close, LinkTypes
    <3>2. alive' = alive \/ alive' = FALSE
      BY <1>17 DEF Close
    <3>3. closed' \in BOOLEAN /\ UNCHANGED <<made, reader>>
      BY <1>17 DEF Close
    <3>4. QED
      BY <1>1, <3>1, <3>2, <3>3 DEF LinkTypes
  <2>2. HermesTypes'
    <3>1. inbox' = inbox \/ inbox' = <<>>
      BY <1>17 DEF Close
    <3>2. inbox' \in Seq(Messages)
      <4>1. CASE inbox' = inbox
        BY <1>1, <4>1 DEF HermesTypes
      <4>2. CASE inbox' = <<>>
        BY <4>2
      <4>3. QED
        BY <3>1, <4>1, <4>2
    <3>3. QED
      BY <1>1, <1>17, <3>2 DEF Close, HermesTypes
  <2>3. CallTypes'
    BY <1>1, <1>14, <1>17 DEF Close, CallTypes
  <2>4. QED
    BY <1>17, <2>1, <2>2, <2>3, <1>1, SameTypes DEF Close
<1>18. ASSUME NEW type \in {"plain", "forbidden"}, Emit(type) PROVE TypeOK'
  <2>1. sent + 1 \in Nat /\ Event(sent + 1, type) \in Messages
    BY <1>1 DEF HermesTypes, Event, Messages, MessageTypes
  <2>2. HermesTypes'
    BY <1>1, <1>18, <2>1 DEF Emit, HermesTypes
  <2>3. QED
    BY <1>1, <1>18, <2>2, SameTypes DEF Emit
<1>19. CASE Disconnect
  <2>1. inbox' \in Seq(Messages)
    BY <1>1, <1>19 DEF Disconnect, HermesTypes
  <2>2. HermesTypes' /\ LinkTypes'
    BY <1>1, <1>19, <2>1 DEF Disconnect, HermesTypes, LinkTypes
  <2>3. QED
    BY <1>1, <1>19, <2>2, SameTypes DEF Disconnect
<1>20. CASE ConsumerStep
  <2>1. CASE Receive
    <3>1. Head(events) \in Events
      BY <1>1, <2>1 DEF Receive, ConsumerTypes
    <3>2. ConsumerTypes'
      BY <1>1, <2>1, <3>1 DEF Receive, ConsumerTypes, Events
    <3>3. QED
      BY <1>1, <2>1, <3>2, SameTypes DEF Receive
  <2>2. ASSUME NEW k \in Own, Interrupt(k) PROVE TypeOK'
    <3>1. ConsumerTypes'
      BY <1>1, <2>2 DEF Interrupt, ConsumerTypes
    <3>2. QED
      BY <1>2, <2>2, <3>1, ClientAssumption DEF Interrupt
  <2>3. CASE Interrupted \/ Published
    <3>1. ConsumerTypes'
      BY <1>1, <2>3 DEF Interrupted, Published, ConsumerTypes
    <3>2. QED
      BY <1>1, <2>3, <3>1, SameTypes DEF Interrupted, Published
  <2>4. QED
    BY <1>20, <2>1, <2>2, <2>3 DEF ConsumerStep
<1>21. ASSUME NEW k \in Calls, Begin(k), UNCHANGED consumerVars PROVE TypeOK'
  BY <1>1, <1>2, <1>21, SameTypes
<1>22. CASE UNCHANGED vars
  BY <1>1, <1>22, SameTypes DEF vars
<1>23. QED
  BY <1>3, <1>4, <1>5, <1>6, <1>7, <1>8, <1>9, <1>10, <1>11, <1>12, <1>13, <1>15, <1>16, <1>17,
     <1>18, <1>19, <1>20, <1>21, <1>22 DEF Next, CallStep, ReaderStep

(***************************************************************************)
(* The theorems                                                            *)
(***************************************************************************)
\* Whoever may still send on the channel of a call is the one that may, and every
\* answer on its way is the answer to the call it will reach.
\* (client.go:276, :295 and :302)
THEOREM Invariance == Spec => []Inv
<1>1. Inv /\ [Next]_vars => Inv'
  BY StepCalm, StepTypes DEF Inv, Calm
<1>2. QED
  BY InitInv, <1>1, PTL DEF Spec

\* For any calls and connections, whoever sends on a response channel finds room
\* in it: the reader, and the mutex it may hold, are never held up
\* (client.go:295 and :320).
THEOREM ResponsesHaveRoom == Spec => []NeverBlocks
BY Invariance, PTL DEF Inv

(***************************************************************************)
(* Refinement                                                              *)
(***************************************************************************)
\* How the state of a call of RemoteCalls follows the pc of the call; that an
\* answer crosses over to another call does not happen.
LEMMA StateOfCall ==
  ASSUME Inv, NEW k \in Calls
  PROVE  /\ call[k].pc = "idle" => CallState(k) = "idle"
         /\ call[k].pc \in {"wait", "register", "write", "await"} => CallState(k) = "open"
         /\ call[k].pc = "returned" =>
              \/ call[k].result = Nobody /\ CallState(k) = "failed"
              \/ call[k].result = k /\ CallState(k) = "answered" /\ k \in executed
         /\ call[k].pc \in CallPcs
<1>1. k # Nobody
  BY DEF Calls, Nobody
<1>2. call[k].pc = "returned" => call[k].result \in {Nobody} \union ({k} \intersect executed)
  BY DEF Inv, AnswersAreOwn
<1>3. call[k].pc \in CallPcs
  BY DEF Inv, TypeOK, CallStates
<1>4. QED
  BY <1>1, <1>2, <1>3 DEF CallState, CallPcs

LEMMA StateOfCallPrimed ==
  ASSUME Inv', NEW k \in Calls
  PROVE  /\ call'[k].pc = "idle" => CallState(k)' = "idle"
         /\ call'[k].pc \in {"wait", "register", "write", "await"} => CallState(k)' = "open"
         /\ call'[k].pc = "returned" =>
              \/ call'[k].result = Nobody /\ CallState(k)' = "failed"
              \/ call'[k].result = k /\ CallState(k)' = "answered" /\ k \in executed'
         /\ call'[k].pc \in CallPcs
<1>1. k # Nobody
  BY DEF Calls, Nobody
<1>2. call'[k].pc = "returned" => call'[k].result \in {Nobody} \union ({k} \intersect executed')
  BY DEF Inv, AnswersAreOwn
<1>3. call'[k].pc \in CallPcs
  BY DEF Inv, TypeOK, CallStates
<1>4. QED
  BY <1>1, <1>2, <1>3 DEF CallState, CallPcs

LEMMA SameCalls ==
  ASSUME UNCHANGED <<call, executed>>
  PROVE  UNCHANGED Remote!vars
BY DEF Remote!vars, CallState

\* A call moves on by itself: it starts, or it is over.
LEMMA CallMoves ==
  ASSUME Inv, Inv', NEW k \in Calls, executed' = executed,
         \A j \in Calls : j # k => call'[j] = call[j],
         \/ call[k].pc = "idle" /\ call'[k].pc = "wait"
         \/ /\ call[k].pc = "idle" /\ call'[k].pc = "returned" /\ call'[k].result = Nobody
         \/ /\ call[k].pc \in {"wait", "register", "write", "await"}
            /\ call'[k].pc \in {"register", "write", "await", "returned"}
  PROVE  [Remote!Next]_Remote!vars
<1> DEFINE state == [j \in Calls |-> CallState(j)]
<1>1. \A j \in Calls : j # k => CallState(j)' = CallState(j)
  BY DEF CallState
<1>2. state' = [state EXCEPT ![k] = CallState(k)']
  BY <1>1
<1>3. CASE call[k].pc = "idle" /\ call'[k].pc = "wait"
  <2>1. state[k] = "idle" /\ CallState(k)' = "open"
    BY <1>3, StateOfCall, StateOfCallPrimed
  <2>2. Remote!Start(k)
    BY <1>2, <2>1 DEF Remote!Start
  <2>3. QED
    BY <2>2 DEF Remote!Next
<1>4. CASE call[k].pc = "idle" /\ call'[k].pc = "returned" /\ call'[k].result = Nobody
  <2>1. state[k] = "idle" /\ CallState(k)' = "failed"
    BY <1>4, StateOfCall, StateOfCallPrimed DEF Nobody, Calls
  <2>2. Remote!Fail(k)
    BY <1>2, <2>1 DEF Remote!Fail
  <2>3. QED
    BY <2>2 DEF Remote!Next
<1>5. CASE /\ call[k].pc \in {"wait", "register", "write", "await"}
           /\ call'[k].pc \in {"register", "write", "await", "returned"}
  <2>1. state[k] = "open"
    BY <1>5, StateOfCall
  <2>2. CASE CallState(k)' = "open"
    <3>1. state' = state
      BY <1>2, <2>1, <2>2
    <3>2. QED
      BY <3>1 DEF Remote!vars
  <2>3. CASE CallState(k)' = "failed"
    <3>1. Remote!Fail(k)
      BY <1>2, <2>1, <2>3 DEF Remote!Fail
    <3>2. QED
      BY <3>1 DEF Remote!Next
  <2>4. CASE CallState(k)' = "answered" /\ k \in executed
    <3>1. Remote!Answer(k)
      BY <1>2, <2>1, <2>4 DEF Remote!Answer
    <3>2. QED
      BY <3>1 DEF Remote!Next
  <2>5. QED
    BY <1>5, <2>2, <2>3, <2>4, StateOfCallPrimed
<1>6. QED
  BY <1>3, <1>4, <1>5

LEMMA CallsChange ==
  ASSUME Inv, NEW k \in Calls
  PROVE  /\ \A pc \in CallPcs : Goto(k, pc) =>
              call'[k].pc = pc /\ \A j \in Calls : j # k => call'[j] = call[j]
         /\ \A result : Return(k, result) =>
              /\ call'[k].pc = "returned" /\ call'[k].result = result
              /\ \A j \in Calls : j # k => call'[j] = call[j]
<1>1. call \in [Calls -> CallStates]
  BY DEF Inv, TypeOK
<1>2. ASSUME NEW pc \in CallPcs, Goto(k, pc)
      PROVE  call'[k].pc = pc /\ \A j \in Calls : j # k => call'[j] = call[j]
  <2>1. call' = [call EXCEPT ![k] = [call[k] EXCEPT !.pc = pc]]
    BY <1>2 DEF Goto
  <2> QED  BY <1>1, <2>1 DEF CallStates
<1>3. ASSUME NEW result, Return(k, result)
      PROVE  /\ call'[k].pc = "returned" /\ call'[k].result = result
             /\ \A j \in Calls : j # k => call'[j] = call[j]
  <2> DEFINE r == [NoCall EXCEPT !.pc = "returned", !.result = result]
  <2>1. r.pc = "returned" /\ r.result = result
    BY DEF NoCall
  <2>2. call' = [call EXCEPT ![k] = r]
    BY <1>3 DEF Return
  <2> HIDE DEF r
  <2> QED  BY <1>1, <2>1, <2>2
<1> QED  BY <1>2, <1>3

LEMMA StepRefines == ASSUME Inv, Inv', [Next]_vars PROVE [Remote!Next]_Remote!vars
<1>1. ASSUME NEW k \in Calls, Begin(k) PROVE [Remote!Next]_Remote!vars
  <2>1. executed' = executed /\ call[k].pc = "idle"
    BY <1>1 DEF Begin, hermesVars
  <2>2. Return(k, Nobody) \/ Goto(k, "wait")
    BY <1>1 DEF Begin
  <2>3. QED
    BY <2>1, <2>2, CallsChange, CallMoves DEF CallPcs
<1>2. ASSUME NEW k \in Calls, CallStep(k) \/ Timeout(k) PROVE [Remote!Next]_Remote!vars
  <2>1. executed' = executed
    BY <1>2 DEF CallStep, WaitConnected, Register, Write, Await, Timeout, hermesVars
  <2>2. call[k].pc \in {"wait", "register", "write", "await"}
    BY <1>2 DEF CallStep, WaitConnected, Register, Write, Await, Timeout
  <2>3. /\ call'[k].pc \in {"register", "write", "await", "returned"}
        /\ \A j \in Calls : j # k => call'[j] = call[j]
    <3>1. CASE Register(k)
      <4>1. CASE Return(k, Nobody)
        BY <4>1, CallsChange
      <4>2. CASE call' = [call EXCEPT ![k].pc = "write", ![k].id = NewID,
                                      ![k].connection = connection]
        BY <4>2 DEF Inv, TypeOK, CallStates
      <4>3. QED
        BY <3>1, <4>1, <4>2 DEF Register
    <3>2. CASE WaitConnected(k)
      BY <3>2, CallsChange DEF WaitConnected, CallPcs
    <3>3. CASE Write(k)
      BY <3>3, CallsChange DEF Write, CallPcs
    <3>4. CASE Await(k)
      BY <3>4, CallsChange DEF Await
    <3>5. CASE Timeout(k)
      BY <3>5, CallsChange DEF Timeout
    <3>6. QED
      BY <1>2, <3>1, <3>2, <3>3, <3>4, <3>5 DEF CallStep
  <2>4. QED
    BY <2>1, <2>2, <2>3, CallMoves
<1>3. ASSUME NEW r \in requests, Execute(r) PROVE [Remote!Next]_Remote!vars
  <2> DEFINE state == [j \in Calls |-> CallState(j)]
  <2>1. r.call \in Calls /\ r.call \notin executed /\ call[r.call].pc \in {"await", "returned"}
    BY DEF Inv, TypeOK, RequestsAreNew
  <2>2. state[r.call] \in {"open", "failed"}
    BY <2>1, StateOfCall
  <2>3. state' = state /\ executed' = executed \union {r.call}
    BY <1>3 DEF Execute, callVars, CallState
  <2>4. Remote!Execute(r.call)
    BY <2>1, <2>2, <2>3 DEF Remote!Execute
  <2>5. QED
    BY <2>1, <2>4 DEF Remote!Next
<1>4. CASE Dial \/ ReaderStep \/ Close \/ Disconnect \/ Emit("plain") \/ Emit("forbidden")
  <2>1. UNCHANGED <<call, executed>>
    BY <1>4 DEF Dial, ReaderStep, SetConnected, ReadEvent, ReadResponse, Deliver, ReadFails, End,
                Close, Disconnect, Emit, callVars, hermesVars
  <2>2. QED
    BY <2>1, SameCalls
<1>5. CASE ConsumerStep
  <2>1. CASE Receive \/ Interrupted \/ Published
    <3>1. UNCHANGED <<call, executed>>
      BY <2>1 DEF Receive, Interrupted, Published, callVars, hermesVars
    <3>2. QED
      BY <3>1, SameCalls
  <2>2. ASSUME NEW k \in Own, Interrupt(k) PROVE [Remote!Next]_Remote!vars
    BY <1>1, <2>2, ClientAssumption DEF Interrupt
  <2>3. QED
    BY <1>5, <2>1, <2>2 DEF ConsumerStep
<1>6. CASE UNCHANGED vars
  BY <1>6, SameCalls DEF vars, callVars, hermesVars
<1>7. QED
  BY <1>1, <1>2, <1>3, <1>4, <1>5, <1>6 DEF Next

\* For any calls, connections, events and capacity: every answer is the answer to
\* the call that gets it, after Hermes ran that call, and Hermes runs a call once
\* at most (client.go:161, :276 and :302).
THEOREM Refinement == Spec => ImplementsCalls
<1>1. Init => Remote!Init
  BY DEF Init, Remote!Init, CallState, NoCall
<1>2. Inv /\ Inv' /\ [Next]_vars => [Remote!Next]_Remote!vars
  BY StepRefines
<1>3. QED
  BY <1>1, <1>2, Invariance, PTL DEF Spec, ImplementsCalls, Remote!Spec

(***************************************************************************)
(* Events: those in the channel follow each other and the last that was    *)
(* taken, and those the reader has not read follow them.                   *)
(***************************************************************************)
Follows(e, f) ==
  \/ f.connection = e.connection /\ f.number = e.number + 1
  \/ f.connection > e.connection /\ f.number = 1

EventsFollow ==
  /\ events # <<>> => Follows(heard, events[1])
  /\ \A i \in 1 .. Len(events) - 1 : Follows(events[i], events[i + 1])

\* The last event the reader has handed over, and how many of this connection.
Newest == IF events = <<>> THEN heard ELSE events[Len(events)]
Delivered == IF Newest.connection = made THEN Newest.number ELSE 0

IsEvent(m) == m.type # "response"
Unread(n, places) == \E j \in places : IsEvent(inbox[j]) /\ inbox[j].id = n

InboxFollows ==
  \A i \in DOMAIN inbox : IsEvent(inbox[i]) =>
    /\ inbox[i].id \in Delivered + 1 .. sent
    /\ \A n \in Delivered + 1 .. inbox[i].id - 1 : Unread(n, 1 .. i - 1)
    /\ \A j \in 1 .. i - 1 : IsEvent(inbox[j]) => inbox[j].id < inbox[i].id

NothingIsLost ==
  /\ Newest.connection <= made /\ Delivered <= sent
  /\ alive => \A n \in Delivered + 1 .. sent : Unread(n, DOMAIN inbox)

InOrder == EventsFollow /\ InboxFollows /\ NothingIsLost

LEMMA EventTypes ==
  ASSUME TypeOK
  PROVE  /\ made \in Nat /\ sent \in Nat /\ inbox \in Seq(Messages) /\ events \in Seq(Events)
         /\ Len(inbox) \in Nat /\ DOMAIN inbox = 1 .. Len(inbox)
         /\ Len(events) \in Nat /\ DOMAIN events = 1 .. Len(events)
         /\ \A i \in DOMAIN inbox : inbox[i].id \in Nat
         /\ \A i \in DOMAIN events : events[i].connection \in Nat /\ events[i].number \in Nat
         /\ heard.connection \in Nat /\ heard.number \in Nat
         /\ Newest.connection \in Nat /\ Newest.number \in Nat /\ Delivered \in Nat
<1>1. /\ made \in Nat /\ sent \in Nat /\ inbox \in Seq(Messages) /\ events \in Seq(Events)
      /\ heard \in [connection : Nat, number : Nat]
  BY DEF TypeOK
<1>2. \A i \in DOMAIN inbox : inbox[i].id \in Nat
  <2>1. \A m \in Messages : m.id \in Nat
    BY DEF Messages
  <2>2. QED
    BY <1>1, <2>1
<1>3. \A i \in DOMAIN events : events[i].connection \in Nat /\ events[i].number \in Nat
  <2>1. \A e \in Events : e.connection \in Nat /\ e.number \in Nat
    BY DEF Events
  <2>2. QED
    BY <1>1, <2>1
<1>4. events # <<>> => Len(events) \in DOMAIN events
  BY <1>1
<1>5. Newest.connection \in Nat /\ Newest.number \in Nat
  BY <1>1, <1>3, <1>4 DEF Newest
<1>6. Len(inbox) \in Nat /\ DOMAIN inbox = 1 .. Len(inbox)
  BY <1>1
<1>7. Len(events) \in Nat /\ DOMAIN events = 1 .. Len(events)
  BY <1>1
<1>8. Delivered \in Nat
  BY <1>5 DEF Delivered
<1>9. QED
  BY <1>1, <1>2, <1>3, <1>5, <1>6, <1>7, <1>8

LEMMA OrderStays ==
  ASSUME InOrder, UNCHANGED <<made, events, heard, sent, inbox>>, alive' => alive
  PROVE  InOrder'
BY DEF InOrder, EventsFollow, InboxFollows, NothingIsLost, Newest, Delivered, Unread

\* The connection is lost, with the end of what was on its way.
LEMMA OrderOfPrefix ==
  ASSUME TypeOK, InOrder, NEW n \in 0 .. Len(inbox),
         DOMAIN inbox' = 1 .. n, \A i \in 1 .. n : inbox'[i] = inbox[i],
         ~alive', UNCHANGED <<made, events, heard, sent>>
  PROVE  InOrder'
<1>1. /\ Newest' = Newest /\ Delivered' = Delivered /\ EventsFollow'
      /\ Newest.connection <= made /\ Delivered <= sent
  BY DEF InOrder, Newest, Delivered, EventsFollow, NothingIsLost
<1>2. NothingIsLost'
  BY <1>1 DEF NothingIsLost
<1>3. InboxFollows'
  <2> SUFFICES ASSUME NEW i \in 1 .. n, IsEvent(inbox[i])
               PROVE  /\ inbox[i].id \in Delivered + 1 .. sent
                      /\ \A k \in Delivered + 1 .. inbox[i].id - 1 : Unread(k, 1 .. i - 1)'
                      /\ \A j \in 1 .. i - 1 : IsEvent(inbox'[j]) => inbox'[j].id < inbox[i].id
    BY <1>1 DEF InboxFollows
  <2>1. i \in DOMAIN inbox /\ \A j \in 1 .. i - 1 : inbox'[j] = inbox[j]
    BY EventTypes
  <2>2. QED
    BY <2>1 DEF InOrder, InboxFollows, Unread
<1>4. QED
  BY <1>1, <1>2, <1>3 DEF InOrder

LEMMA OrderOfMore ==
  ASSUME TypeOK, InOrder, NEW m \in Messages, inbox' = Append(inbox, m),
         \/ ~IsEvent(m) /\ sent' = sent
         \/ IsEvent(m) /\ m.id = sent + 1 /\ sent' = sent + 1 /\ alive,
         alive' = alive, UNCHANGED <<made, events, heard>>
  PROVE  InOrder'
<1>1. /\ Newest' = Newest /\ Delivered' = Delivered /\ EventsFollow'
      /\ Newest.connection <= made /\ Delivered <= sent
  BY DEF InOrder, Newest, Delivered, EventsFollow, NothingIsLost
<1>2. PICK l \in Nat : /\ DOMAIN inbox = 1 .. l /\ DOMAIN inbox' = 1 .. l + 1
                      /\ inbox'[l + 1] = m /\ \A i \in 1 .. l : inbox'[i] = inbox[i]
  <2> WITNESS Len(inbox) \in Nat
  <2>1. QED
    BY EventTypes
<1>3. Delivered \in Nat /\ sent \in Nat
  BY EventTypes
<1>4. \A k, i \in Nat : i <= l /\ Unread(k, 1 .. i) => \A j \in Nat : j >= i => Unread(k, 1 .. j)'
  BY <1>2 DEF Unread
<1>5. NothingIsLost'
  <2> SUFFICES ASSUME alive, NEW k \in Delivered + 1 .. sent' PROVE Unread(k, 1 .. l + 1)'
    BY <1>1, <1>2, <1>3 DEF NothingIsLost
  <2>1. CASE k \in Delivered + 1 .. sent
    <3>1. Unread(k, 1 .. l)
      BY <1>2, <2>1 DEF InOrder, NothingIsLost
    <3>2. PICK j \in 1 .. l : IsEvent(inbox[j]) /\ inbox[j].id = k
      BY <3>1 DEF Unread
    <3>3. j \in 1 .. l + 1 /\ inbox'[j] = inbox[j]
      BY <1>2
    <3>4. QED
      BY <3>2, <3>3 DEF Unread
  <2>2. CASE k \notin Delivered + 1 .. sent
    <3>1. IsEvent(m) /\ m.id = k
      BY <1>3, <2>2
    <3>2. QED
      BY <1>2, <3>1 DEF Unread
  <2>3. QED
    BY <2>1, <2>2
<1>6. InboxFollows'
  <2> SUFFICES ASSUME NEW i \in 1 .. l + 1, IsEvent(inbox'[i])
               PROVE  /\ inbox'[i].id \in Delivered + 1 .. sent'
                      /\ \A k \in Delivered + 1 .. inbox'[i].id - 1 : Unread(k, 1 .. i - 1)'
                      /\ \A j \in 1 .. i - 1 : IsEvent(inbox'[j]) => inbox'[j].id < inbox'[i].id
    BY <1>1, <1>2 DEF InboxFollows
  <2>1. CASE i \in 1 .. l
    <3>1. /\ inbox'[i] = inbox[i] /\ inbox[i].id \in Delivered + 1 .. sent
          /\ \A k \in Delivered + 1 .. inbox[i].id - 1 : Unread(k, 1 .. i - 1)
          /\ \A j \in 1 .. i - 1 : IsEvent(inbox[j]) => inbox[j].id < inbox[i].id
      BY <1>2, <2>1 DEF InOrder, InboxFollows
    <3>2. \A j \in 1 .. i - 1 : inbox'[j] = inbox[j]
      BY <1>2, <2>1
    <3>3. inbox[i].id \in Delivered + 1 .. sent'
      <4>1. sent' \in {sent, sent + 1}
        OBVIOUS
      <4>2. QED
        BY <1>3, <3>1, <4>1
    <3>4. \A k \in Delivered + 1 .. inbox[i].id - 1 : Unread(k, 1 .. i - 1)'
      BY <3>1, <3>2 DEF Unread
    <3>5. \A j \in 1 .. i - 1 : IsEvent(inbox'[j]) => inbox'[j].id < inbox[i].id
      BY <3>1, <3>2
    <3>6. QED
      BY <3>1, <3>3, <3>4, <3>5
  <2>2. CASE i = l + 1
    <3>1. inbox'[i] = m /\ IsEvent(m) /\ m.id = sent + 1 /\ sent' = sent + 1 /\ alive
      BY <1>2, <2>2
    <3>2. \A k \in Delivered + 1 .. sent : Unread(k, 1 .. l)
      BY <1>2, <3>1 DEF InOrder, NothingIsLost
    <3>3. \A k \in Delivered + 1 .. sent : Unread(k, 1 .. i - 1)'
      BY <1>2, <1>3, <1>4, <2>2, <3>2
    <3>4. \A j \in 1 .. l : IsEvent(inbox[j]) => inbox[j].id \in Delivered + 1 .. sent
      BY <1>2 DEF InOrder, InboxFollows
    <3>5. \A j \in 1 .. l : IsEvent(inbox'[j]) => inbox'[j].id < sent + 1
      BY <1>2, <1>3, <3>4
    <3>6. QED
      BY <1>1, <1>2, <1>3, <2>2, <3>1, <3>3, <3>5
  <2>3. QED
    BY <1>2, <2>1, <2>2
<1>7. QED
  BY <1>1, <1>5, <1>6 DEF InOrder

LEMMA Later ==
  ASSUME NEW d \in Nat, NEW e \in Nat, e >= d, NEW m \in Int
  PROVE  \A k \in e + 1 .. m : k \in d + 1 .. m /\ k > e /\ k \in Nat
OBVIOUS

\* The reader takes the first message: an answer, or the next event.
LEMMA OrderOfRest ==
  ASSUME TypeOK, InOrder, inbox # <<>>, inbox' = Tail(inbox), EventsFollow',
         \/ ~IsEvent(inbox[1]) /\ Newest' = Newest
         \/ /\ IsEvent(inbox[1])
            /\ Newest'.connection = made /\ Newest'.number = inbox[1].id,
         UNCHANGED <<made, alive, sent>>
  PROVE  InOrder'
<1>1. PICK l \in Nat \ {0} :
             /\ DOMAIN inbox = 1 .. l /\ DOMAIN inbox' = 1 .. l - 1
             /\ \A i \in 1 .. l - 1 : inbox'[i] = inbox[i + 1]
  <2>1. Len(inbox) \in Nat \ {0}
    BY EventTypes
  <2> WITNESS Len(inbox) \in Nat \ {0}
  <2>2. QED
    BY EventTypes
<1>2. /\ Delivered \in Nat /\ sent \in Nat /\ made \in Nat
      /\ \A i \in 1 .. l : inbox[i].id \in Nat
  BY <1>1, EventTypes
<1>3. /\ Delivered' \in Nat /\ Delivered' >= Delivered /\ Delivered' <= sent
      /\ Newest'.connection <= made
      /\ IsEvent(inbox[1]) => Delivered' = inbox[1].id
  <2>1. CASE ~IsEvent(inbox[1])
    BY <1>2, <2>1 DEF InOrder, NothingIsLost, Delivered
  <2>2. CASE IsEvent(inbox[1])
    <3>1. inbox[1].id \in Delivered + 1 .. sent /\ Delivered' = inbox[1].id
      BY <1>1, <2>2 DEF InOrder, InboxFollows, Delivered
    <3>2. QED
      BY <1>2, <2>2, <3>1
  <2>3. QED
    BY <2>1, <2>2
<1>a. \A k \in Delivered' + 1 .. sent : k \in Delivered + 1 .. sent /\ k > Delivered' /\ k \in Nat
  <2>1. /\ Delivered \in Nat /\ sent \in Int
        /\ Delivered' \in Nat /\ Delivered' >= Delivered
    BY <1>2, <1>3
  <2>2. QED
    BY <2>1, Later
<1>4. \A k \in Nat, i \in 1 .. l : k > Delivered' /\ Unread(k, 1 .. i) => Unread(k, 1 .. i - 1)'
  <2> SUFFICES ASSUME NEW k \in Nat, NEW i \in 1 .. l, k > Delivered', NEW j \in 1 .. i,
                      IsEvent(inbox[j]), inbox[j].id = k
               PROVE  Unread(k, 1 .. i - 1)'
    BY DEF Unread
  <2>1. j # 1
    BY <1>2, <1>3
  <2>2. j - 1 \in 1 .. i - 1 /\ inbox'[j - 1] = inbox[j]
    BY <1>1, <2>1
  <2>3. QED
    BY <2>2 DEF Unread
<1>5. NothingIsLost'
  <2> SUFFICES ASSUME alive, NEW k \in Delivered' + 1 .. sent PROVE Unread(k, 1 .. l - 1)'
    BY <1>1, <1>3 DEF NothingIsLost
  <2>1. k \in Delivered + 1 .. sent /\ k > Delivered' /\ k \in Nat
    BY <1>a
  <2>2. Unread(k, 1 .. l)
    BY <1>1, <2>1 DEF InOrder, NothingIsLost
  <2>3. QED
    BY <1>1, <1>4, <2>1, <2>2
<1>6. InboxFollows'
  <2> SUFFICES ASSUME NEW i \in 1 .. l - 1, IsEvent(inbox'[i])
               PROVE  /\ inbox'[i].id \in Delivered' + 1 .. sent
                      /\ \A k \in Delivered' + 1 .. inbox'[i].id - 1 : Unread(k, 1 .. i - 1)'
                      /\ \A j \in 1 .. i - 1 : IsEvent(inbox'[j]) => inbox'[j].id < inbox'[i].id
    BY <1>1 DEF InboxFollows
  <2>1. i + 1 \in 1 .. l /\ inbox'[i] = inbox[i + 1] /\ (i + 1) - 1 = i
    BY <1>1
  <2>2. /\ inbox[i + 1].id \in Delivered + 1 .. sent
        /\ \A k \in Delivered + 1 .. inbox[i + 1].id - 1 : Unread(k, 1 .. i)
        /\ \A j \in 1 .. i : IsEvent(inbox[j]) => inbox[j].id < inbox[i + 1].id
    BY <1>1, <2>1 DEF InOrder, InboxFollows
  <2>3. inbox[i + 1].id \in Delivered' + 1 .. sent
    <3>1. CASE ~IsEvent(inbox[1])
      <4>1. Delivered' = Delivered
        BY <3>1 DEF Delivered
      <4>2. QED
        BY <2>2, <4>1
    <3>2. CASE IsEvent(inbox[1])
      <4>1. inbox[1].id < inbox[i + 1].id
        BY <2>2, <3>2
      <4>2. QED
        BY <1>2, <1>3, <2>1, <2>2, <3>2, <4>1
    <3>3. QED
      BY <3>1, <3>2
  <2>4. \A k \in Delivered' + 1 .. inbox[i + 1].id - 1 : Unread(k, 1 .. i - 1)'
    <3> DEFINE m == inbox[i + 1].id - 1
    <3>1. m \in Int /\ Delivered \in Nat /\ Delivered' \in Nat /\ Delivered' >= Delivered
      BY <1>2, <1>3, <2>1
    <3>2. \A k \in Delivered + 1 .. m : Unread(k, 1 .. i)
      BY <2>2
    <3> HIDE DEF m
    <3>3. \A k \in Delivered' + 1 .. m : k \in Delivered + 1 .. m /\ k > Delivered' /\ k \in Nat
      BY <3>1, Later
    <3>4. \A k \in Delivered' + 1 .. m : Unread(k, 1 .. i - 1)'
      BY <1>1, <1>4, <3>2, <3>3
    <3>5. QED
      BY <3>4 DEF m
  <2>5. \A j \in 1 .. i - 1 : inbox'[j] = inbox[j + 1] /\ j + 1 \in 1 .. i
    BY <1>1
  <2>6. QED
    BY <2>1, <2>2, <2>3, <2>4, <2>5
<1>7. QED
  BY <1>5, <1>6 DEF InOrder

LEMMA FirstIsNext ==
  ASSUME TypeOK, InOrder, inbox # <<>>, IsEvent(inbox[1]),
         NEW e, e.connection = made, e.number = inbox[1].id
  PROVE  Follows(Newest, e)
<1>1. 1 \in DOMAIN inbox
  BY EventTypes
<1>2. /\ inbox[1].id \in Delivered + 1 .. sent
      /\ \A n \in Delivered + 1 .. inbox[1].id - 1 : Unread(n, 1 .. 1 - 1)
  BY <1>1 DEF InOrder, InboxFollows
<1>3. \A n : ~Unread(n, 1 .. 1 - 1)
  BY DEF Unread
<1>4. /\ Delivered \in Nat /\ sent \in Nat /\ made \in Nat
      /\ Newest.connection \in Nat /\ Newest.connection <= made
  BY EventTypes DEF InOrder, NothingIsLost
<1>5. inbox[1].id = Delivered + 1
  <2> DEFINE first == inbox[1].id
  <2>1. /\ first \in Delivered + 1 .. sent
        /\ \A n \in Delivered + 1 .. first - 1 : FALSE
    BY <1>2, <1>3
  <2> HIDE DEF first
  <2>2. first = Delivered + 1
    BY <1>4, <2>1
  <2>3. QED
    BY <2>2 DEF first
<1>6. QED
  BY <1>4, <1>5 DEF Follows, Delivered

LEMMA OrderOfReadEvent == ASSUME TypeOK, InOrder, ReadEvent PROVE InOrder'
<1> DEFINE e == [connection |-> made, number |-> Head(inbox).id, type |-> Head(inbox).type]
<1>1. /\ inbox # <<>> /\ Head(inbox).type # "response"
      /\ events' = Append(events, e) /\ inbox' = Tail(inbox)
      /\ UNCHANGED <<made, alive, sent, heard>>
  BY DEF ReadEvent, SendEvent, linkVars
<1>2. Head(inbox) = inbox[1]
  BY <1>1, EventTypes
<1>3. e.connection = made /\ e.number = inbox[1].id /\ IsEvent(inbox[1])
  BY <1>1, <1>2 DEF IsEvent
<1> HIDE DEF e
<1>4. Follows(Newest, e)
  BY <1>1, <1>3, FirstIsNext
<1>5. PICK l \in Nat : /\ l = Len(events) /\ Len(events') = l + 1 /\ events' # <<>>
                       /\ events'[l + 1] = e /\ \A i \in 1 .. l : events'[i] = events[i]
                       /\ events = <<>> <=> l = 0
  <2> DEFINE l == Len(events)
  <2>1. events \in Seq(Events) /\ events' = Append(events, e)
    BY <1>1, EventTypes
  <2>2. l \in Nat /\ (events = <<>> <=> l = 0)
    BY <2>1
  <2>3. /\ Len(events') = l + 1 /\ events'[l + 1] = e
        /\ \A i \in 1 .. l : events'[i] = events[i]
    BY <2>1
  <2>4. events' # <<>>
    BY <2>1
  <2> QED  BY <2>2, <2>3, <2>4
<1>6. Newest' = e
  BY <1>5 DEF Newest
<1>7. EventsFollow'
  <2>1. Follows(heard, events'[1])
    <3>1. CASE l = 0
      BY <1>4, <1>5, <3>1 DEF Newest
    <3>2. CASE l # 0
      BY <1>5, <3>2 DEF InOrder, EventsFollow
    <3>3. QED
      BY <3>1, <3>2
  <2>2. ASSUME NEW i \in 1 .. l PROVE Follows(events'[i], events'[i + 1])
    <3>1. CASE i = l
      <4>1. events'[i] = Newest
        BY <1>5, <3>1 DEF Newest
      <4>2. QED
        BY <1>4, <1>5, <3>1, <4>1
    <3>2. CASE i # l
      <4>1. i \in 1 .. l - 1 /\ i + 1 \in 1 .. l
        BY <3>2
      <4>2. QED
        BY <1>5, <4>1 DEF InOrder, EventsFollow
    <3>3. QED
      BY <3>1, <3>2
  <2>3. Len(events') - 1 = l
    BY <1>5
  <2>4. QED
    BY <1>1, <2>1, <2>2, <2>3 DEF EventsFollow
<1>8. QED
  BY <1>1, <1>3, <1>6, <1>7, OrderOfRest

LEMMA OrderOfReceive ==
  ASSUME TypeOK, InOrder, Receive
  PROVE  InOrder' /\ Follows(heard, heard')
<1>1. /\ events # <<>> /\ events' = Tail(events)
      /\ heard' = [connection |-> Head(events).connection, number |-> Head(events).number]
      /\ UNCHANGED <<made, alive, inbox, sent>>
  BY DEF Receive, linkVars, hermesVars
<1>2. Head(events) = events[1]
  BY <1>1, EventTypes
<1>3. heard'.connection = events[1].connection /\ heard'.number = events[1].number
  BY <1>1, <1>2
<1>4. Follows(heard, events[1])
  BY <1>1 DEF InOrder, EventsFollow
<1>5. Follows(heard, heard')
  BY <1>3, <1>4 DEF Follows
<1>6. PICK l \in Nat : /\ l + 1 = Len(events) /\ l = Len(events')
                       /\ \A i \in 1 .. l : events'[i] = events[i + 1]
                       /\ events' = <<>> <=> l = 0
  <2>1. events \in Seq(Events) /\ Len(events) \in Nat /\ events # <<>>
    BY <1>1, EventTypes
  <2>2. /\ Tail(events) \in Seq(Events)
        /\ Len(Tail(events)) = Len(events) - 1
        /\ \A i \in 1 .. Len(events) - 1 : Tail(events)[i] = events[i + 1]
    BY <2>1
  <2>3. Len(events) - 1 \in Nat
    BY <2>1
  <2>4. Tail(events) = <<>> <=> Len(Tail(events)) = 0
    BY <2>2
  <2> HIDE DEF Events
  <2> WITNESS Len(events) - 1 \in Nat
  <2>5. QED
    BY <1>1, <2>1, <2>2, <2>3, <2>4
<1>7. /\ Newest'.connection = Newest.connection
      /\ Newest'.number = Newest.number
  <2>1. CASE l = 0
    BY <1>1, <1>3, <1>6, <2>1 DEF Newest
  <2>2. CASE l # 0
    <3>1. events # <<>> /\ events' # <<>>
      BY <1>1, <1>6, <2>2
    <3>2. l \in 1 .. l
      BY <1>6, <2>2
    <3>3. events'[l] = events[l + 1]
      BY <1>6, <3>2
    <3>4. Newest' = events'[Len(events')] /\ Newest = events[Len(events)]
      BY <3>1 DEF Newest
    <3> QED  BY <1>6, <3>3, <3>4
  <2>3. QED
    BY <2>1, <2>2
<1>8. Delivered' = Delivered
  BY <1>1, <1>7 DEF Delivered
<1>9. EventsFollow'
  <2>1. ASSUME events' # <<>> PROVE Follows(heard', events'[1])
    <3>1. events'[1] = events[2] /\ 1 \in 1 .. Len(events) - 1
      BY <1>6, <2>1
    <3>2. Follows(events[1], events[2])
      BY <3>1 DEF InOrder, EventsFollow
    <3>3. QED
      BY <1>3, <3>1, <3>2 DEF Follows
  <2>2. ASSUME NEW i \in 1 .. l - 1 PROVE Follows(events'[i], events'[i + 1])
    <3>1. i + 1 \in 1 .. Len(events) - 1 /\ events'[i] = events[i + 1] /\ events'[i + 1] = events[(i + 1) + 1]
      BY <1>6
    <3>2. QED
      BY <3>1 DEF InOrder, EventsFollow
  <2>3. QED
    BY <1>6, <2>1, <2>2 DEF EventsFollow
<1>10. InboxFollows' /\ NothingIsLost'
  BY <1>1, <1>7, <1>8 DEF InOrder, InboxFollows, NothingIsLost, Unread
<1>11. QED
  BY <1>5, <1>9, <1>10 DEF InOrder

LEMMA OrderOfDial == ASSUME TypeOK, InOrder, Dial PROVE InOrder'
<1>1. /\ made' = made + 1 /\ inbox' = <<>> /\ sent' = 0
      /\ UNCHANGED <<events, heard>>
  BY DEF Dial, consumerVars
<1>2. Newest' = Newest /\ EventsFollow'
  BY <1>1 DEF InOrder, Newest, EventsFollow
<1>3. Newest.connection <= made /\ made \in Nat /\ Newest.connection \in Nat
  BY EventTypes DEF InOrder, NothingIsLost
<1>4. Delivered' = 0 /\ Newest.connection <= made'
  BY <1>1, <1>2, <1>3 DEF Delivered
<1>5. DOMAIN inbox' = {}
  BY <1>1
<1>6. InboxFollows' /\ NothingIsLost'
  BY <1>1, <1>2, <1>4, <1>5 DEF InboxFollows, NothingIsLost
<1>7. QED
  BY <1>2, <1>6 DEF InOrder

LEMMA StepInOrder ==
  ASSUME TypeOK, InOrder, [Next]_vars
  PROVE  InOrder' /\ (heard' # heard => Follows(heard, heard'))
<1>1. CASE UNCHANGED <<made, events, heard, sent, inbox>> /\ (alive' => alive)
  BY <1>1, OrderStays
<1>2. CASE Dial
  BY <1>2, OrderOfDial DEF Dial, consumerVars
<1>3. CASE ReadEvent
  BY <1>3, OrderOfReadEvent DEF ReadEvent
<1>4. CASE ReadResponse
  <2>1. /\ inbox # <<>> /\ Head(inbox).type = "response" /\ inbox' = Tail(inbox)
        /\ UNCHANGED <<made, alive, sent, events, heard>>
    BY <1>4 DEF ReadResponse, consumerVars
  <2>2. ~IsEvent(inbox[1])
    BY <2>1, EventTypes DEF IsEvent
  <2>3. Newest' = Newest /\ EventsFollow'
    BY <2>1 DEF Newest, InOrder, EventsFollow
  <2>4. QED
    BY <2>1, <2>2, <2>3, OrderOfRest
<1>5. CASE ReadFails \/ Close
  <2>1. /\ UNCHANGED <<made, sent, events, heard>>
        /\ \/ ~alive' /\ inbox' = <<>>
           \/ UNCHANGED <<alive, inbox>>
    BY <1>5 DEF ReadFails, Close, consumerVars
  <2>2. CASE ~alive' /\ inbox' = <<>>
    <3>1. 0 \in 0 .. Len(inbox) /\ DOMAIN inbox' = 1 .. 0 /\ \A i \in 1 .. 0 : inbox'[i] = inbox[i]
      BY <2>2, EventTypes
    <3>2. QED
      BY <2>1, <2>2, <3>1, OrderOfPrefix
  <2>3. QED
    BY <2>1, <2>2, OrderStays
<1>6. CASE Disconnect
  <2>1. ~alive' /\ UNCHANGED <<made, sent, events, heard>>
    BY <1>6 DEF Disconnect, consumerVars
  <2>2. PICK n \in 0 .. Len(inbox) : inbox' = SubSeq(inbox, 1, n)
    BY <1>6 DEF Disconnect
  <2>3. DOMAIN inbox' = 1 .. n /\ \A i \in 1 .. n : inbox'[i] = inbox[i]
    BY <2>2, EventTypes
  <2>4. QED
    BY <2>1, <2>3, OrderOfPrefix
<1>7. CASE \E r \in requests : Execute(r)
  <2>1. PICK r \in requests : Execute(r)
    BY <1>7
  <2>2. UNCHANGED <<made, alive, sent, events, heard>>
    BY <2>1 DEF Execute, linkVars, consumerVars
  <2> DEFINE m == Response(r.id, r.call)
  <2>3. m \in Messages /\ ~IsEvent(m)
    <3>1. r.id \in Nat /\ r.call \in Calls
      BY DEF TypeOK
    <3>2. QED
      BY <3>1 DEF Response, Messages, MessageTypes, IsEvent
  <2>4. inbox' = inbox \/ inbox' = Append(inbox, m)
    BY <2>1 DEF Execute
  <2> HIDE DEF m
  <2>5. QED
    BY <2>2, <2>3, <2>4, OrderStays, OrderOfMore
<1>8. ASSUME NEW type \in {"plain", "forbidden"}, Emit(type)
      PROVE  InOrder' /\ UNCHANGED heard
  <2> DEFINE m == Event(sent + 1, type)
  <2>1. /\ alive /\ sent' = sent + 1 /\ inbox' = Append(inbox, m)
        /\ UNCHANGED <<made, alive, events, heard>>
    BY <1>8 DEF Emit, linkVars, consumerVars
  <2>2. m \in Messages /\ IsEvent(m) /\ m.id = sent + 1
    <3>1. sent + 1 \in Nat
      BY EventTypes
    <3>2. QED
      BY <3>1 DEF Event, Messages, MessageTypes, IsEvent, Nobody
  <2> HIDE DEF m
  <2>3. QED
    BY <2>1, <2>2, OrderOfMore
<1>9. CASE Receive
  BY <1>9, OrderOfReceive
<1>10. CASE \E k \in Calls : CallStep(k) \/ Timeout(k)
  <2>1. UNCHANGED <<made, events, heard, sent, inbox, alive>>
    BY <1>10 DEF CallStep, WaitConnected, Register, Write, Await, Timeout,
                 linkVars, hermesVars, consumerVars
  <2>2. QED
    BY <1>1, <2>1
<1>11. CASE \/ \E k \in Calls : Begin(k) /\ (UNCHANGED consumerVars \/ UNCHANGED <<events, heard>>)
            \/ SetConnected \/ Deliver \/ End \/ Interrupted \/ Published \/ UNCHANGED vars
  <2>1. UNCHANGED <<made, events, heard, sent, inbox, alive>>
    BY <1>11 DEF Begin, SetConnected, Deliver, End, Interrupted, Published,
                 linkVars, hermesVars, consumerVars, callVars, vars
  <2>2. QED
    BY <1>1, <2>1
<1>12. CASE ConsumerStep
  <2>1. Own \subseteq Calls
    BY ClientAssumption
  <2>2. CASE \E k \in Own : Interrupt(k)
    BY <1>11, <2>1, <2>2 DEF Interrupt
  <2>3. QED
    BY <1>9, <1>11, <1>12, <2>2 DEF ConsumerStep
<1>13. CASE ReaderStep
  BY <1>3, <1>4, <1>5, <1>11, <1>13 DEF ReaderStep
<1>14. QED
  BY <1>2, <1>5, <1>6, <1>7, <1>8, <1>10, <1>11, <1>12, <1>13 DEF Next

\* However slow the consumer is, and with whatever capacity of the channel, it
\* gets the events of a connection in order and from the first (client.go:278).
THEOREM EventsInOrder == Spec => NoEventSkipped
<1> DEFINE Next1 == heard' # heard => Follows(heard, heard')
<1>1. Init => InOrder
  <2> SUFFICES ASSUME Init PROVE InOrder
    OBVIOUS
  <2>1. events = <<>> /\ inbox = <<>> /\ ~alive /\ sent = 0 /\ made = 0 /\ heard = NoEvent
    BY DEF Init
  <2>2. Newest = NoEvent /\ Delivered = 0
    BY <2>1 DEF Newest, Delivered, NoEvent
  <2>3. DOMAIN inbox = {} /\ Len(events) = 0
    BY <2>1
  <2>4. QED
    BY <2>1, <2>2, <2>3 DEF InOrder, EventsFollow, InboxFollows, NothingIsLost, NoEvent
<1>2. TypeOK /\ InOrder /\ [Next]_vars => InOrder' /\ [Next1]_heard
  BY StepInOrder
<1>3. Spec => []TypeOK
  BY Invariance, PTL DEF Inv
<1>4. [Next1]_heard
        => [\/ heard'.connection = heard.connection /\ heard'.number = heard.number + 1
            \/ heard'.connection > heard.connection /\ heard'.number = 1]_heard
  BY DEF Follows
<1>5. QED
  BY <1>1, <1>2, <1>3, <1>4, PTL DEF Spec, NoEventSkipped

=============================================================================
