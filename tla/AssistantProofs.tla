--------------------------- MODULE AssistantProofs ---------------------------
(***************************************************************************)
(* Proofs about Assistant, for any number of turns, sessions, connections, *)
(* rotations and requests.                                                 *)
(***************************************************************************)
EXTENDS Assistant, TLAPS

(***************************************************************************)
(* The inductive invariant.  What can finish a turn, or route an event to  *)
(* one, holds turns only that have been reserved (Holders): a reservation  *)
(* is never undone, so that such a turn is either the one that is open, or *)
(* finished already and finishTurn leaves it alone.                        *)
(***************************************************************************)
Begun(t) == t \in Turns /\ pc[t] \notin {"new", "loaded", "rejected"}

RoutesHold ==
  /\ \A id \in AnyRuntimeId : activeByRuntime[id] # NoTurn => Begun(activeByRuntime[id])
  /\ \A id \in AnyRuntimeId : recentByRuntime[id] # NoTurn => Begun(recentByRuntime[id])
  /\ \A t \in Turns : Finalized[t] => Begun(t)

RoutinesHold ==
  /\ consumer.pc # "idle" => Begun(consumer.turn)
  /\ stopper.pc # "idle" => Begun(stopper.turn)
  /\ \A c \in Connections :
       reconciler[c].pc \notin {"idle", "snapshot"} => Begun(reconciler[c].turn)

\* What the calls of Hermes rely on.
CallsAreGood ==
  /\ \A t \in Turns : pc[t] = "resume" => session[t].stored \in StoredIds
  /\ ~connected => connection < MaxConnections

Holders == RoutesHold /\ RoutinesHold
Shown == OneOpenTurn /\ OpenTurnIsBusy
IInv == TypeOK /\ Shown /\ Holders /\ CallsAreGood

-----------------------------------------------------------------------------
LEMMA Constants ==
  /\ NoTurn \notin Turns /\ NoTurn = 0
  /\ RuntimeIds \subseteq AnyRuntimeId /\ StoredIds \subseteq AnyStoredId
  /\ NoId \in AnyRuntimeId /\ NoId \in AnyStoredId
  /\ NoSession \in AnySession
  /\ NoRequest \in AnyRequest
  /\ 1 \in Connections /\ Connections \subseteq Nat
BY AssistantAssumption DEF NoTurn, Turns, RuntimeIds, AnyRuntimeId, StoredIds, AnyStoredId, NoId,
  NoSession, AnySession, NoRequest, AnyRequest, Connections

LEMMA HermesIds ==
  ASSUME HermesTypes, NEW s \in 1 .. MaxSessions
  PROVE  RuntimeIdOf(s) \in RuntimeIds /\ StoredIdOf(s) \in StoredIds
BY DEF HermesTypes, RuntimeIdOf, StoredIdOf, RuntimeIds, StoredIds

LEMMA ResumedType ==
  ASSUME HermesTypes, NEW stored \in StoredIds
  PROVE  Resumed(stored) \in AnySession /\ Resumed(stored).stored \in StoredIds
<1>1. SessionOf(stored) \in 1 .. MaxSessions
  BY DEF SessionOf, StoredIds
<1> QED  BY <1>1, HermesIds, Constants DEF Resumed, AnySession

LEMMA EventType ==
  ASSUME HermesTypes, NEW s \in 1 .. MaxSessions,
         NEW type \in {"end", "clarify", "forbidden", "info"}
  PROVE  Event(type, s) \in AnyEvent
BY HermesIds, Constants DEF Event, AnyEvent

\* What a step leaves alone keeps its types.
LEMMA Frames ==
  ASSUME IInv
  PROVE  /\ UNCHANGED <<pc, session, turnVars>> => TurnTypes'
         /\ UNCHANGED <<maps, runtimeSession, assistantSession>> => MapTypes'
         /\ UNCHANGED <<consumer, stopper, responder, reconciler>> => RoutineTypes'
         /\ UNCHANGED hermes => HermesTypes'
         /\ UNCHANGED <<pc, session, connected, connection>> => CallsAreGood'
         /\ UNCHANGED <<pc, Finalized, maps>> => Shown' /\ RoutesHold'
         /\ UNCHANGED <<pc, consumer, stopper, reconciler>> => RoutinesHold'
<1>1. UNCHANGED <<pc, session, turnVars>> => TurnTypes'
  BY DEF IInv, TypeOK, TurnTypes, turnVars
<1>2. UNCHANGED <<maps, runtimeSession, assistantSession>> => MapTypes'
  BY DEF IInv, TypeOK, MapTypes, maps
<1>3. UNCHANGED <<consumer, stopper, responder, reconciler>> => RoutineTypes'
  BY DEF IInv, TypeOK, RoutineTypes
<1>4. UNCHANGED hermes => HermesTypes'
  BY DEF IInv, TypeOK, HermesTypes, hermes
<1>5. UNCHANGED <<pc, session, connected, connection>> => CallsAreGood'
  BY DEF IInv, CallsAreGood
<1>6. UNCHANGED <<pc, Finalized, maps>> => Shown' /\ RoutesHold'
  BY DEF IInv, Shown, Holders, OneOpenTurn, OpenTurnIsBusy, Open, Begun, RoutesHold, maps
<1>7. UNCHANGED <<pc, consumer, stopper, reconciler>> => RoutinesHold'
  BY DEF IInv, Holders, Begun, RoutinesHold
<1> QED  BY <1>1, <1>2, <1>3, <1>4, <1>5, <1>6, <1>7

Reserved == Labels \ {"new", "loaded", "rejected"}

\* A step of a reserved submit that neither finishes nor registers its turn.
LEMMA SubmitFrame ==
  ASSUME IInv, NEW t \in Turns, pc[t] \in Reserved, NEW label \in Reserved, Goto(t, label)
  PROVE  /\ pc' \in [Turns -> Labels]
         /\ \A u \in Turns \ {t} : pc'[u] = pc[u]
         /\ pc'[t] = label
         /\ \A u : Begun(u) <=> Begun(u)'
         /\ UNCHANGED <<consumer, stopper, reconciler>> => RoutinesHold'
         /\ UNCHANGED <<Finalized, maps>> => Shown' /\ RoutesHold'
<1>1. pc \in [Turns -> Labels]
  BY DEF IInv, TypeOK, TurnTypes
<1>2. /\ pc' \in [Turns -> Labels]
      /\ \A u \in Turns \ {t} : pc'[u] = pc[u]
      /\ pc'[t] = label
  BY <1>1 DEF Goto, Reserved
<1>3. \A u : Begun(u) <=> Begun(u)'
  BY <1>1, <1>2 DEF Begun, Reserved
<1>4. UNCHANGED <<consumer, stopper, reconciler>> => RoutinesHold'
  BY <1>3 DEF IInv, Holders, RoutinesHold
<1>5. ASSUME UNCHANGED <<Finalized, maps>>  PROVE Shown' /\ RoutesHold'
  <2>1. \A u \in Turns : Open(u) <=> Open(u)'
    BY <1>5, <1>3 DEF Open, Begun
  <2>2. activeByConversation \in AnyTurn
    BY DEF IInv, TypeOK, MapTypes
  <2>3. Shown'
    BY <1>5, <2>1, <2>2 DEF IInv, Shown, OneOpenTurn, OpenTurnIsBusy, maps, AnyTurn
  <2>4. RoutesHold'
    BY <1>5, <1>3 DEF IInv, Holders, RoutesHold, maps
  <2> QED  BY <2>3, <2>4
<1> QED  BY <1>2, <1>3, <1>4, <1>5

\* What finishTurn does to a turn that was reserved.
LEMMA Finish ==
  ASSUME IInv, NEW t, Begun(t), NEW state \in {"idle", "stopped", "error"}, finishTurn(t, state)
  PROVE  /\ Finalized' \in [Turns -> BOOLEAN]
         /\ \A u \in Turns : Finalized'[u] <=> (Finalized[u] \/ u = t)
         /\ activeByConversation' = IF activeByConversation = t THEN NoTurn ELSE activeByConversation
         /\ activeByRuntime' \in [AnyRuntimeId -> AnyTurn]
         /\ \A id \in AnyRuntimeId : activeByRuntime'[id] \in {activeByRuntime[id], NoTurn}
         /\ activeByStored' \in [AnyStoredId -> AnyTurn]
         /\ \A id \in AnyStoredId : activeByStored'[id] \in {activeByStored[id], NoTurn}
         /\ recentByRuntime' \in [AnyRuntimeId -> AnyTurn]
         /\ \A id \in AnyRuntimeId : recentByRuntime'[id] \in {recentByRuntime[id], t}
         /\ recentByRuntime'[NoId] = NoTurn
         /\ clarification' \in AnyRequest
         /\ conversationState' \in Busy \cup {"idle", "stopped", "error"}
         /\ activeByConversation' # NoTurn => conversationState' = conversationState
<1>1. t \in Turns /\ t # NoTurn /\ t \in AnyTurn /\ NoTurn \in AnyTurn
  BY Constants DEF Begun, AnyTurn
<1>2. RuntimeID[t] \in AnyRuntimeId /\ StoredID[t] \in AnyStoredId
  BY <1>1 DEF IInv, TypeOK, TurnTypes
<1>3. CASE AlreadyFinished(t)
  <2>1. UNCHANGED <<Finalized, maps>>
    BY <1>3 DEF finishTurn
  <2>2. activeByConversation # t
    BY <1>1, <1>3 DEF IInv, Shown, OneOpenTurn, Open, AlreadyFinished
  <2> QED  BY <1>3, <2>1, <2>2, <1>1 DEF AlreadyFinished, IInv, TypeOK, TurnTypes, MapTypes, maps
<1>4. CASE ~AlreadyFinished(t)
  <2>1. activeByConversation = t
    BY <1>4 DEF AlreadyFinished, Begun, IInv, Shown, OneOpenTurn, Open
  <2>2. /\ Finalized' = [Finalized EXCEPT ![t] = TRUE]
        /\ activeByConversation' = NoTurn
        /\ activeByRuntime' = [activeByRuntime EXCEPT ![RuntimeID[t]] = NoTurn]
        /\ activeByStored' = [activeByStored EXCEPT ![StoredID[t]] = NoTurn]
        /\ recentByRuntime' = IF Remembered(t)
                              THEN [recentByRuntime EXCEPT ![RuntimeID[t]] = t] ELSE recentByRuntime
        /\ clarification' = NoRequest
        /\ conversationState' = state
    BY <1>4, <2>1 DEF finishTurn
  <2>3. recentByRuntime' \in [AnyRuntimeId -> AnyTurn] /\ recentByRuntime'[NoId] = NoTurn
    BY <2>2, <1>1, <1>2, Constants DEF Remembered, IInv, TypeOK, MapTypes
  <2>4. \A id \in AnyRuntimeId : recentByRuntime'[id] \in {recentByRuntime[id], t}
    BY <2>2 DEF IInv, TypeOK, MapTypes
  <2>5. /\ activeByRuntime' \in [AnyRuntimeId -> AnyTurn]
        /\ \A id \in AnyRuntimeId : activeByRuntime'[id] \in {activeByRuntime[id], NoTurn}
    BY <2>2, <1>1, <1>2 DEF IInv, TypeOK, MapTypes
  <2>6. /\ activeByStored' \in [AnyStoredId -> AnyTurn]
        /\ \A id \in AnyStoredId : activeByStored'[id] \in {activeByStored[id], NoTurn}
    BY <2>2, <1>1, <1>2 DEF IInv, TypeOK, MapTypes
  <2>7. /\ Finalized' \in [Turns -> BOOLEAN]
        /\ \A u \in Turns : Finalized'[u] <=> (Finalized[u] \/ u = t)
    BY <2>2, <1>1 DEF IInv, TypeOK, TurnTypes
  <2> QED  BY <2>1, <2>2, <2>3, <2>4, <2>5, <2>6, <2>7, <1>1, Constants
<1> QED  BY <1>3, <1>4

\* A step that finishes a reserved turn keeps the invariant, whatever routine it
\* is a step of.
LEMMA FinishShown ==
  ASSUME IInv, NEW t, Begun(t), NEW state \in {"idle", "stopped", "error"}, finishTurn(t, state),
         \A u \in Turns : Begun(u) <=> Begun(u)'
  PROVE  Shown' /\ RoutesHold'
<1>1. /\ \A u \in Turns : Finalized'[u] <=> (Finalized[u] \/ u = t)
      /\ activeByConversation' = IF activeByConversation = t THEN NoTurn ELSE activeByConversation
      /\ \A id \in AnyRuntimeId : activeByRuntime'[id] \in {activeByRuntime[id], NoTurn}
      /\ \A id \in AnyRuntimeId : recentByRuntime'[id] \in {recentByRuntime[id], t}
      /\ activeByConversation' # NoTurn => conversationState' = conversationState
  BY Finish
<1>2. OneOpenTurn'
  <2>1. \A u \in Turns : Open(u)' => Open(u) /\ u # t
    BY <1>1 DEF Open, Begun
  <2>2. \A u \in Turns : Open(u) /\ u # t => Open(u)'
    BY <1>1 DEF Open, Begun
  <2>3. activeByConversation \in AnyTurn
    BY DEF IInv, TypeOK, MapTypes
  <2> QED  BY <1>1, <2>1, <2>2, <2>3 DEF IInv, Shown, OneOpenTurn, AnyTurn
<1>3. OpenTurnIsBusy'
  BY <1>1 DEF IInv, Shown, OpenTurnIsBusy
<1>4. RoutesHold'
  <2>1. \A u : Begun(u) => Begun(u)'
    BY DEF Begun
  <2> QED  BY <1>1, <2>1 DEF IInv, Holders, RoutesHold, Begun
<1> QED  BY <1>2, <1>3, <1>4 DEF Shown

-----------------------------------------------------------------------------
LEMMA InitInv == Init => IInv
<1> SUFFICES ASSUME Init  PROVE IInv
  OBVIOUS
<1>1. TurnTypes
  BY Constants DEF Init, TurnTypes, Labels
<1>2. MapTypes
  BY Constants DEF Init, MapTypes, AnyTurn, RuntimeIds, StoredIds, AnyRuntimeId, AnyStoredId
<1>3. RoutineTypes
  BY Constants DEF Init, RoutineTypes, IdleConsumer, IdleStopper, IdleResponder, IdleReconciler, AnyTurn
<1>4. HermesTypes
  BY Constants, AssistantAssumption DEF Init, HermesTypes, AnyTurn, NoRequest
<1>5. Shown /\ Holders /\ CallsAreGood
  BY Constants DEF Init, Shown, OneOpenTurn, OpenTurnIsBusy, Open, Holders, RoutesHold, RoutinesHold,
    CallsAreGood, IdleConsumer, IdleStopper, IdleReconciler, AnyRuntimeId
<1> QED  BY <1>1, <1>2, <1>3, <1>4, <1>5 DEF IInv, TypeOK

\* Hermes and its connection change nothing that the invariant is about but
\* what they put in the channel.
LEMMA HermesKeepsInv ==
  ASSUME IInv,
         \/ \E s \in 1 .. MaxSessions : HermesCompletes(s) \/ HermesRequests(s) \/ HermesRotates(s)
         \/ Disconnect \/ Connect
  PROVE  IInv'
<1>1. HermesTypes /\ events \in Seq(AnyEvent)
  BY DEF IInv, TypeOK, HermesTypes
<1>2. ASSUME NEW s \in 1 .. MaxSessions, HermesCompletes(s)  PROVE HermesTypes' /\ CallsAreGood'
  <2>1. Event("end", s) \in AnyEvent
    BY <1>1, EventType
  <2>2. events' \in Seq(AnyEvent)
    BY <1>1, <1>2, <2>1 DEF HermesCompletes
  <2> QED  BY <1>1, <1>2, <2>2, Frames DEF HermesCompletes, HermesTypes, AnyTurn
<1>3. ASSUME NEW s \in 1 .. MaxSessions, HermesRequests(s)  PROVE HermesTypes' /\ CallsAreGood'
  <2>1. requests' \in AnyRequest
    BY <1>1, <1>3, AssistantAssumption DEF HermesRequests, HermesTypes, AnyRequest
  <2>2. PICK type \in {"clarify", "forbidden"} :
          events' = Append(events, [Event(type, s) EXCEPT !.request = requests'])
    BY <1>3 DEF HermesRequests
  <2>3. [Event(type, s) EXCEPT !.request = requests'] \in AnyEvent
    BY <1>1, <2>1, HermesIds, Constants DEF Event, AnyEvent
  <2>4. events' \in Seq(AnyEvent)
    BY <1>1, <2>2, <2>3
  <2> QED  BY <1>1, <1>3, <2>1, <2>4, Frames DEF HermesRequests, HermesTypes
<1>4. ASSUME NEW s \in 1 .. MaxSessions, HermesRotates(s)  PROVE HermesTypes' /\ CallsAreGood'
  <2>1. rotations[s] + 1 \in 0 .. MaxRotations /\ <<s, rotations[s] + 1>> \in StoredIds
    BY <1>1, <1>4, AssistantAssumption DEF HermesRotates, HermesTypes, StoredIds
  <2>2. [Event("info", s) EXCEPT !.stored = <<s, rotations[s] + 1>>] \in AnyEvent
    BY <1>1, <2>1, HermesIds, Constants DEF Event, AnyEvent
  <2>3. events' \in Seq(AnyEvent)
    BY <1>1, <1>4, <2>2 DEF HermesRotates
  <2> QED  BY <1>1, <1>4, <2>1, <2>3, Frames DEF HermesRotates, HermesTypes
<1>5. ASSUME Disconnect  PROVE HermesTypes' /\ CallsAreGood'
  <2>1. /\ connected' = FALSE /\ connection < MaxConnections
        /\ UNCHANGED <<pc, session, connection, sessions, rotations, attached, prompt, requests, events>>
    BY <1>5 DEF Disconnect
  <2>2. HermesTypes'
    BY <1>1, <2>1 DEF HermesTypes
  <2>3. CallsAreGood'
    BY <2>1 DEF IInv, CallsAreGood
  <2> QED  BY <2>2, <2>3
<1>6. ASSUME Connect  PROVE HermesTypes' /\ CallsAreGood'
  <2>1. connection' \in Connections
    BY <1>1, <1>6, AssistantAssumption DEF Connect, HermesTypes, IInv, CallsAreGood, Connections
  <2>2. [type |-> "ready", runtime |-> <<0, connection'>>, stored |-> NoId, request |-> NoRequest] \in AnyEvent
    BY <2>1 DEF AnyEvent
  <2>3. events' \in Seq(AnyEvent)
    BY <1>1, <1>6, <2>2 DEF Connect
  <2>4. /\ connected' = TRUE
        /\ UNCHANGED <<pc, session, sessions, rotations, attached, prompt, requests>>
    BY <1>6 DEF Connect
  <2>5. HermesTypes'
    BY <1>1, <2>1, <2>3, <2>4 DEF HermesTypes
  <2>6. CallsAreGood'
    BY <2>4 DEF IInv, CallsAreGood
  <2> QED  BY <2>5, <2>6
<1>7. HermesTypes' /\ CallsAreGood'
  BY <1>2, <1>3, <1>4, <1>5, <1>6
<1>8. UNCHANGED <<pc, session, turnVars, maps, runtimeSession, assistantSession, consumer, stopper,
                  responder, reconciler>>
  BY DEF HermesCompletes, HermesRequests, HermesRotates, Disconnect, Connect
<1>9. TurnTypes' /\ MapTypes' /\ RoutineTypes' /\ RoutinesHold'
  BY <1>8, Frames
<1>10. Shown' /\ RoutesHold'
  BY <1>8, Frames DEF turnVars
<1> QED  BY <1>7, <1>9, <1>10 DEF IInv, TypeOK, Holders

\* Before its reservation a turn is not in any of the maps.
LEMMA ReserveKeepsInv ==
  ASSUME IInv, NEW t \in Turns, LoadConversation(t) \/ Reserve(t)
  PROVE  IInv'
<1>1. /\ TurnTypes /\ MapTypes /\ Shown /\ RoutesHold /\ RoutinesHold /\ CallsAreGood
      /\ ~Begun(t) /\ ~Finalized[t]
  BY DEF IInv, TypeOK, Holders, RoutesHold, Begun, LoadConversation, Reserve
<1>2. ASSUME LoadConversation(t)  PROVE IInv'
  <2>1. /\ pc' = [pc EXCEPT ![t] = "loaded"]
        /\ session' = [session EXCEPT ![t] = [runtime |-> NoId, stored |-> assistantSession]]
        /\ UNCHANGED <<turnVars, maps, runtimeSession, assistantSession, consumer, stopper, responder,
                       reconciler, hermes>>
    BY <1>2 DEF LoadConversation, Goto
  <2>2. TurnTypes'
    BY <1>1, <2>1, Constants DEF TurnTypes, MapTypes, AnySession, Labels, turnVars
  <2>3. \A u : Begun(u) <=> Begun(u)'
    BY <1>1, <1>2, <2>1 DEF TurnTypes, Begun
  <2>4. Shown'
    <3>1. \A u \in Turns : Open(u) <=> Open(u)'
      BY <2>1, <2>3 DEF Open, Begun, turnVars
    <3> QED  BY <1>1, <2>1, <3>1 DEF Shown, OneOpenTurn, OpenTurnIsBusy, MapTypes, AnyTurn, maps
  <2>5. RoutesHold' /\ RoutinesHold'
    BY <1>1, <2>1, <2>3 DEF RoutesHold, RoutinesHold, maps, turnVars
  <2>6. CallsAreGood'
    BY <1>1, <2>1 DEF CallsAreGood, TurnTypes, hermes
  <2>7. MapTypes' /\ RoutineTypes' /\ HermesTypes'
    BY <2>1, Frames
  <2> QED  BY <2>2, <2>4, <2>5, <2>6, <2>7 DEF IInv, TypeOK, Holders
<1>3. ASSUME Reserve(t), ~Free  PROVE IInv'
  <2>1. /\ pc' = [pc EXCEPT ![t] = "rejected"]
        /\ UNCHANGED <<session, turnVars, maps, runtimeSession, assistantSession, consumer, stopper,
                       responder, reconciler, hermes>>
    BY <1>3 DEF Reserve, Goto, maps
  <2>2. TurnTypes'
    BY <1>1, <2>1 DEF TurnTypes, Labels, turnVars
  <2>3. \A u : Begun(u) <=> Begun(u)'
    BY <1>1, <1>3, <2>1 DEF TurnTypes, Begun, Reserve
  <2>4. Shown'
    <3>1. \A u \in Turns : Open(u) <=> Open(u)'
      BY <2>1, <2>3 DEF Open, Begun, turnVars
    <3> QED  BY <1>1, <2>1, <3>1 DEF Shown, OneOpenTurn, OpenTurnIsBusy, MapTypes, AnyTurn, maps
  <2>5. RoutesHold' /\ RoutinesHold'
    BY <1>1, <2>1, <2>3 DEF RoutesHold, RoutinesHold, maps, turnVars
  <2>6. CallsAreGood'
    BY <1>1, <2>1 DEF CallsAreGood, TurnTypes, hermes
  <2>7. MapTypes' /\ RoutineTypes' /\ HermesTypes'
    BY <2>1, Frames
  <2> QED  BY <2>2, <2>4, <2>5, <2>6, <2>7 DEF IInv, TypeOK, Holders
<1>4. ASSUME Reserve(t), Free  PROVE IInv'
  <2>1. /\ pc' = [pc EXCEPT ![t] = "ensure"]
        /\ activeByConversation = NoTurn /\ activeByConversation' = t
        /\ conversationState' = "running" /\ clarification' = NoRequest
        /\ UNCHANGED <<session, turnVars, activeByRuntime, activeByStored, recentByRuntime,
                       runtimeSession, assistantSession, consumer, stopper, responder, reconciler, hermes>>
    BY <1>4 DEF Reserve, Free, Goto
  <2>2. TurnTypes'
    BY <1>1, <2>1 DEF TurnTypes, Labels, turnVars
  <2>3. \A u : Begun(u)' <=> Begun(u) \/ u = t
    BY <1>1, <2>1 DEF TurnTypes, Begun
  <2>4. OneOpenTurn'
    <3>1. \A u \in Turns : ~Open(u)
      BY <1>1, <2>1, Constants DEF Shown, OneOpenTurn
    <3>2. \A u \in Turns : Open(u)' <=> u = t
      BY <1>1, <2>1, <3>1 DEF TurnTypes, Open, turnVars
    <3> QED  BY <2>1, <3>2 DEF OneOpenTurn
  <2>5. OpenTurnIsBusy'
    BY <2>1 DEF OpenTurnIsBusy, Busy
  <2>6. RoutesHold' /\ RoutinesHold'
    BY <1>1, <2>1, <2>3 DEF RoutesHold, RoutinesHold, turnVars
  <2>7. CallsAreGood'
    BY <1>1, <2>1 DEF CallsAreGood, TurnTypes, hermes
  <2>8. MapTypes'
    BY <1>1, <2>1, Constants DEF MapTypes, AnyTurn, Busy
  <2>9. RoutineTypes' /\ HermesTypes'
    BY <2>1, Frames
  <2> QED  BY <2>2, <2>4, <2>5, <2>6, <2>7, <2>8, <2>9 DEF IInv, TypeOK, Holders, Shown
<1> QED  BY <1>2, <1>3, <1>4

\* The calls of a submit change its own turn and the session it works on.
LEMMA SubmitKeepsInv ==
  ASSUME IInv, NEW t \in Turns,
         \/ ensureSession(t) \/ CreateSession(t) \/ ResumeSession(t)
         \/ SetAssistantSession(t) \/ CacheSession(t) \/ Bind(t) \/ BindStored(t)
         \/ SubmitPrompt(t) \/ Accept(t)
  PROVE  IInv'
<1>1. /\ TurnTypes /\ MapTypes /\ HermesTypes /\ CallsAreGood
      /\ session[t] \in AnySession
      /\ session[t].runtime \in AnyRuntimeId /\ session[t].stored \in AnyStoredId
  BY DEF IInv, TypeOK, TurnTypes, AnySession
<1>2. PICK label \in Reserved :
        pc[t] \in Reserved /\ Goto(t, label)
        /\ (label = "resume" => session'[t].stored \in StoredIds)
  <2>1. CASE ensureSession(t)
    BY <1>1, <2>1 DEF ensureSession, Reserved, Labels, AnyStoredId, TurnTypes
  <2>2. CASE CreateSession(t) \/ ResumeSession(t) \/ SetAssistantSession(t) \/ CacheSession(t)
    BY <2>2 DEF CreateSession, ResumeSession, SetAssistantSession, CacheSession, Reserved, Labels
  <2>3. CASE Bind(t) \/ BindStored(t) \/ SubmitPrompt(t) \/ Accept(t)
    BY <2>3 DEF Bind, BindStored, SubmitPrompt, Accept, Return, Reserved, Labels
  <2> QED  BY <2>1, <2>2, <2>3
<1>3. UNCHANGED <<Finalized, maps, consumer, stopper, responder, reconciler, connected, connection>>
  BY DEF ensureSession, CreateSession, ResumeSession, SetAssistantSession, CacheSession, Bind,
    BindStored, SubmitPrompt, Accept, turnVars, hermes
<1>4. /\ pc' \in [Turns -> Labels]
      /\ \A u \in Turns \ {t} : pc'[u] = pc[u]
      /\ pc'[t] = label
      /\ Shown' /\ Holders'
  BY <1>2, <1>3, SubmitFrame DEF Holders
<1>5. /\ session' \in [Turns -> AnySession]
      /\ \A u \in Turns \ {t} : session'[u] = session[u]
      /\ runtimeSession' \in AnySession /\ assistantSession' \in AnyStoredId
      /\ RuntimeID' \in [Turns -> AnyRuntimeId] /\ StoredID' \in [Turns -> AnyStoredId]
      /\ HermesTypes'
  <2>1. CASE ensureSession(t)
    BY <1>1, <2>1, Frames DEF ensureSession, TurnTypes, MapTypes, turnVars
  <2>2. CASE CreateSession(t)
    <3>1. sessions' \in 1 .. MaxSessions
      BY <1>1, <2>2, AssistantAssumption DEF CreateSession, HermesTypes
    <3>2. [runtime |-> RuntimeIdOf(sessions'), stored |-> StoredIdOf(sessions')] \in AnySession
      BY <1>1, <3>1, HermesIds, Constants DEF AnySession
    <3>3. connection \in 0 .. MaxConnections
      BY <1>1, AssistantAssumption DEF HermesTypes, Connections
    <3>4. HermesTypes'
      BY <1>1, <2>2, <3>1, <3>3 DEF CreateSession, Attach, HermesTypes
    <3> QED  BY <1>1, <2>2, <3>2, <3>4 DEF CreateSession, TurnTypes, MapTypes, turnVars
  <2>3. CASE ResumeSession(t)
    <3>1. session[t].stored \in StoredIds
      BY <1>1, <2>3 DEF ResumeSession, CallsAreGood
    <3>2. Resumed(session[t].stored) \in AnySession /\ SessionOf(session[t].stored) \in 1 .. MaxSessions
      BY <1>1, <3>1, ResumedType DEF SessionOf, StoredIds
    <3>3. connection \in 0 .. MaxConnections
      BY <1>1, AssistantAssumption DEF HermesTypes, Connections
    <3>4. HermesTypes'
      BY <1>1, <2>3, <3>2, <3>3 DEF ResumeSession, Attach, HermesTypes
    <3> QED  BY <1>1, <2>3, <3>2, <3>4 DEF ResumeSession, TurnTypes, MapTypes, turnVars
  <2>4. CASE SetAssistantSession(t) \/ CacheSession(t) \/ Bind(t) \/ BindStored(t)
    BY <1>1, <2>4, Frames DEF SetAssistantSession, CacheSession, Bind, BindStored, TurnTypes, MapTypes, turnVars
  <2>5. CASE SubmitPrompt(t)
    <3>1. HermesTypes'
      BY <1>1, <2>5 DEF SubmitPrompt, HermesTypes, AnyTurn
    <3> QED  BY <1>1, <2>5, <3>1 DEF SubmitPrompt, TurnTypes, MapTypes, turnVars
  <2>6. CASE Accept(t)
    BY <1>1, <2>6, Frames, Constants DEF Accept, Return, TurnTypes, MapTypes, turnVars
  <2> QED  BY <2>1, <2>2, <2>3, <2>4, <2>5, <2>6
<1>6. TurnTypes' /\ MapTypes' /\ RoutineTypes'
  BY <1>1, <1>3, <1>4, <1>5, Frames DEF TurnTypes, MapTypes, maps
<1>7. CallsAreGood'
  BY <1>1, <1>2, <1>3, <1>4, <1>5 DEF CallsAreGood
<1> QED  BY <1>4, <1>5, <1>6, <1>7 DEF IInv, TypeOK

LEMMA RegisterKeepsInv ==
  ASSUME IInv, NEW t \in Turns, Register(t)
  PROVE  IInv'
<1>1. /\ TurnTypes /\ MapTypes /\ Shown /\ RoutesHold /\ CallsAreGood
      /\ session[t].runtime \in AnyRuntimeId /\ session[t].stored \in AnyStoredId
  BY DEF IInv, TypeOK, Holders, TurnTypes, AnySession
<1>2. /\ pc[t] \in Reserved /\ "prompt" \in Reserved /\ Goto(t, "prompt") /\ Begun(t)
      /\ activeByRuntime' = [activeByRuntime EXCEPT ![session[t].runtime] = t]
      /\ activeByStored' = [activeByStored EXCEPT ![session[t].stored] = t]
      /\ UNCHANGED <<session, turnVars, activeByConversation, recentByRuntime, conversationState,
                     clarification, runtimeSession, assistantSession, consumer, stopper, responder,
                     reconciler, hermes>>
  BY DEF Register, Reserved, Labels, Begun
<1>3. /\ pc' \in [Turns -> Labels]
      /\ \A u \in Turns \ {t} : pc'[u] = pc[u]
      /\ pc'[t] = "prompt"
      /\ \A u : Begun(u) <=> Begun(u)'
      /\ RoutinesHold'
  BY <1>2, SubmitFrame
<1>4. TurnTypes'
  BY <1>1, <1>2, <1>3 DEF TurnTypes, turnVars
<1>5. MapTypes'
  BY <1>1, <1>2 DEF MapTypes, AnyTurn
<1>6. Shown'
  <2>1. \A u \in Turns : Open(u) <=> Open(u)'
    BY <1>2, <1>3 DEF Open, Begun, turnVars
  <2> QED  BY <1>1, <1>2, <2>1 DEF Shown, OneOpenTurn, OpenTurnIsBusy, MapTypes, AnyTurn
<1>7. RoutesHold'
  BY <1>1, <1>2, <1>3 DEF RoutesHold, MapTypes, turnVars
<1>8. CallsAreGood'
  BY <1>1, <1>2, <1>3 DEF CallsAreGood, hermes
<1>9. RoutineTypes' /\ HermesTypes'
  BY <1>2, Frames
<1> QED  BY <1>3, <1>4, <1>5, <1>6, <1>7, <1>8, <1>9 DEF IInv, TypeOK, Holders

\* The steps that finish a turn: a submit that fails, a stop, an event and a
\* reconcile that succeeds or fails.
LEMMA FinishKeepsInv ==
  ASSUME IInv,
         \/ \E t \in Turns : SubmitFails(t)
         \/ FinishStopped \/ HandleEnd
         \/ \E c \in Connections : FinishReconciled(c) \/ ReconcileFails(c)
  PROVE  IInv'
<1>1. TurnTypes /\ MapTypes /\ RoutineTypes /\ RoutinesHold /\ CallsAreGood
  BY DEF IInv, TypeOK, Holders
<1>2. ASSUME NEW t, Begun(t), NEW state \in {"idle", "stopped", "error"}, finishTurn(t, state),
             \A u \in Turns : Begun(u) <=> Begun(u)', UNCHANGED <<RuntimeID, StoredID>>,
             UNCHANGED <<runtimeSession, assistantSession, hermes>>,
             pc' \in [Turns -> Labels], session' \in [Turns -> AnySession],
             \A u \in Turns : pc'[u] = "resume" => pc[u] = "resume" /\ session'[u] = session[u],
             RoutineTypes', RoutinesHold'
      PROVE  IInv'
  <2>1. Finalized' \in [Turns -> BOOLEAN] /\ MapTypes'
    <3>1. activeByConversation \in AnyTurn
      BY <1>1 DEF MapTypes
    <3> QED  BY <1>1, <1>2, <3>1, Finish DEF MapTypes, AnyTurn
  <2>2. TurnTypes'
    BY <1>1, <1>2, <2>1 DEF TurnTypes
  <2>3. Shown' /\ RoutesHold'
    BY <1>2, FinishShown
  <2>4. HermesTypes'
    BY <1>2, Frames
  <2>5. CallsAreGood'
    BY <1>1, <1>2 DEF CallsAreGood, hermes
  <2> QED  BY <1>2, <2>1, <2>2, <2>3, <2>4, <2>5 DEF IInv, TypeOK, Holders
<1>3. ASSUME NEW t \in Turns, SubmitFails(t)  PROVE IInv'
  <2>1. /\ pc[t] \in Reserved /\ "failed" \in Reserved /\ Goto(t, "failed") /\ Begun(t)
        /\ session' = [session EXCEPT ![t] = NoSession]
        /\ finishTurn(t, "error")
        /\ UNCHANGED <<RuntimeID, StoredID, runtimeSession, assistantSession, consumer, stopper,
                       responder, reconciler, hermes>>
    BY <1>3 DEF SubmitFails, Return, Reserved, Labels, Begun
  <2>2. /\ pc' \in [Turns -> Labels]
        /\ \A u \in Turns \ {t} : pc'[u] = pc[u]
        /\ pc'[t] = "failed"
        /\ \A u : Begun(u) <=> Begun(u)'
        /\ RoutinesHold'
    BY <2>1, SubmitFrame
  <2>3. session' \in [Turns -> AnySession] /\ \A u \in Turns \ {t} : session'[u] = session[u]
    BY <1>1, <2>1, Constants DEF TurnTypes
  <2>4. RoutineTypes'
    BY <2>1, Frames
  <2> QED  BY <1>2, <2>1, <2>2, <2>3, <2>4
<1>4. ASSUME FinishStopped  PROVE IInv'
  <2>1. /\ Begun(stopper.turn) /\ finishTurn(stopper.turn, "stopped")
        /\ stopper' = IdleStopper
        /\ UNCHANGED <<pc, session, RuntimeID, StoredID, runtimeSession, assistantSession, consumer,
                       responder, reconciler, hermes>>
    BY <1>1, <1>4 DEF FinishStopped, RoutinesHold
  <2>2. \A u : Begun(u) <=> Begun(u)'
    BY <2>1 DEF Begun
  <2>3. RoutineTypes' /\ RoutinesHold'
    BY <1>1, <2>1, <2>2 DEF RoutineTypes, RoutinesHold, IdleStopper, AnyTurn
  <2> QED  BY <1>1, <1>2, <2>1, <2>2, <2>3 DEF TurnTypes
<1>5. ASSUME HandleEnd  PROVE IInv'
  <2>1. PICK state \in {"idle", "stopped", "error"} : finishTurn(consumer.turn, state)
    BY <1>5 DEF HandleEnd
  <2>2. /\ Begun(consumer.turn) /\ consumer' = IdleConsumer
        /\ UNCHANGED <<pc, session, RuntimeID, StoredID, runtimeSession, assistantSession, stopper,
                       responder, reconciler, hermes>>
    BY <1>1, <1>5 DEF HandleEnd, RoutinesHold
  <2>3. \A u : Begun(u) <=> Begun(u)'
    BY <2>2 DEF Begun
  <2>4. RoutineTypes' /\ RoutinesHold'
    BY <1>1, <2>2, <2>3, Constants DEF RoutineTypes, RoutinesHold, IdleConsumer, AnyTurn
  <2> QED  BY <1>1, <1>2, <2>1, <2>2, <2>3, <2>4 DEF TurnTypes
<1>6. ASSUME NEW c \in Connections, FinishReconciled(c) \/ ReconcileFails(c)  PROVE IInv'
  <2>1. PICK state \in {"idle", "stopped", "error"} : finishTurn(reconciler[c].turn, state)
    BY <1>6 DEF FinishReconciled, ReconcileFails
  <2>2. /\ Begun(reconciler[c].turn)
        /\ reconciler' = [reconciler EXCEPT ![c] = IdleReconciler]
        /\ UNCHANGED <<pc, session, RuntimeID, StoredID, runtimeSession, assistantSession, consumer,
                       stopper, responder, hermes>>
    BY <1>1, <1>6 DEF FinishReconciled, ReconcileFails, Reconciled, RoutinesHold
  <2>3. \A u : Begun(u) <=> Begun(u)'
    BY <2>2 DEF Begun
  <2>4. RoutineTypes' /\ RoutinesHold'
    BY <1>1, <2>2, <2>3, Constants DEF RoutineTypes, RoutinesHold, IdleReconciler, AnyTurn
  <2> QED  BY <1>1, <1>2, <2>1, <2>2, <2>3, <2>4 DEF TurnTypes
<1> QED  BY <1>3, <1>4, <1>5, <1>6

\* Users who stop and answer, and the timers of the recent sessions.
LEMMA UsersKeepInv ==
  ASSUME IInv,
         \/ Stop \/ Interrupt \/ respondClarification \/ RespondToHermes \/ ResumeRunning
         \/ ForgetRecent
  PROVE  IInv'
<1>1. MapTypes /\ RoutineTypes /\ Shown /\ RoutesHold /\ RoutinesHold
  BY DEF IInv, TypeOK, Holders
<1>2. /\ UNCHANGED <<pc, session, turnVars, activeByConversation, activeByRuntime, activeByStored>>
      /\ UNCHANGED <<runtimeSession, assistantSession, consumer, reconciler, hermes>>
  BY DEF Stop, Interrupt, respondClarification, RespondToHermes, ResumeRunning, ForgetRecent, maps
<1>3. \A u : Begun(u) <=> Begun(u)'
  BY <1>2 DEF Begun
<1>4. RoutineTypes' /\ RoutinesHold'
  <2>1. CASE Stop
    <3>1. /\ stopper' = [pc |-> "interrupt", turn |-> activeByConversation]
          /\ activeByConversation \in AnyTurn /\ Begun(activeByConversation)
      BY <1>1, <2>1 DEF Stop, MapTypes, Shown, OneOpenTurn, Open, Begun, AnyTurn
    <3> QED  BY <1>1, <1>2, <1>3, <2>1, <3>1 DEF Stop, RoutineTypes, RoutinesHold
  <2>2. CASE Interrupt
    BY <1>1, <1>2, <1>3, <2>2, Constants DEF Interrupt, IdleStopper, RoutineTypes, RoutinesHold, AnyTurn
  <2>3. CASE respondClarification
    BY <1>1, <1>2, <1>3, <2>3 DEF respondClarification, RoutineTypes, RoutinesHold, MapTypes
  <2>4. CASE RespondToHermes \/ ResumeRunning
    BY <1>1, <1>2, <1>3, <2>4, Constants
       DEF RespondToHermes, ResumeRunning, IdleResponder, RoutineTypes, RoutinesHold, AnyTurn
  <2>5. CASE ForgetRecent
    BY <1>1, <1>2, <1>3, <2>5 DEF ForgetRecent, RoutineTypes, RoutinesHold
  <2> QED  BY <2>1, <2>2, <2>3, <2>4, <2>5
<1>5. MapTypes' /\ Shown' /\ RoutesHold'
  <2>1. CASE Stop \/ Interrupt \/ respondClarification \/ RespondToHermes
    BY <1>2, <2>1, Frames DEF Stop, Interrupt, respondClarification, RespondToHermes, turnVars
  <2>2. CASE ResumeRunning
    <3>1. clarification' = NoRequest /\ conversationState' = "running" /\ UNCHANGED recentByRuntime
      BY <2>2 DEF ResumeRunning
    <3>2. Shown'
      BY <1>1, <1>2, <3>1 DEF Shown, OneOpenTurn, OpenTurnIsBusy, Open, Busy, turnVars
    <3>3. RoutesHold'
      BY <1>1, <1>2, <1>3, <3>1 DEF RoutesHold, turnVars
    <3> QED  BY <1>1, <1>2, <3>1, <3>2, <3>3, Constants DEF MapTypes, Busy
  <2>3. CASE ForgetRecent
    <3>1. PICK runtime \in RuntimeIds : recentByRuntime' = [recentByRuntime EXCEPT ![runtime] = NoTurn]
      BY <2>3 DEF ForgetRecent
    <3>2. UNCHANGED <<conversationState, clarification>>
      BY <2>3 DEF ForgetRecent
    <3>3. Shown'
      BY <1>1, <1>2, <3>2 DEF Shown, OneOpenTurn, OpenTurnIsBusy, Open, turnVars
    <3>4. RoutesHold'
      BY <1>1, <1>2, <1>3, <3>1 DEF RoutesHold, MapTypes, turnVars
    <3>5. recentByRuntime' \in [AnyRuntimeId -> AnyTurn] /\ recentByRuntime'[NoId] = NoTurn
      BY <1>1, <3>1, Constants DEF MapTypes, AnyTurn
    <3>6. MapTypes'
      BY <1>1, <1>2, <3>2, <3>5 DEF MapTypes
    <3> QED  BY <3>3, <3>4, <3>6
  <2> QED  BY <2>1, <2>2, <2>3
<1>6. TurnTypes' /\ HermesTypes' /\ CallsAreGood'
  BY <1>2, Frames DEF hermes
<1> QED  BY <1>4, <1>5, <1>6 DEF IInv, TypeOK, Holders

\* A turn that an event is routed to has been reserved.
LEMMA ReceiveKeepsInv ==
  ASSUME IInv, Receive
  PROVE  IInv'
<1> DEFINE event == Head(events)
<1>1. RoutineTypes /\ RoutesHold /\ RoutinesHold /\ HermesTypes /\ MapTypes
  BY DEF IInv, TypeOK, Holders
<1>2. /\ UNCHANGED <<pc, session, turnVars, maps, runtimeSession, assistantSession, stopper, responder>>
      /\ UNCHANGED <<connected, connection, sessions, rotations, attached, prompt, requests>>
  BY DEF Receive
<1>3. event \in AnyEvent /\ events' \in Seq(AnyEvent)
  BY <1>1 DEF Receive, HermesTypes
<1>4. \A u : Begun(u) <=> Begun(u)'
  BY <1>2 DEF Begun
<1>5. RoutineTypes' /\ RoutinesHold'
  <2>1. CASE event.type = "ready"
    <3>1. event.runtime[2] \in Connections
      BY <1>3, <2>1 DEF AnyEvent
    <3>2. reconciler' = [reconciler EXCEPT ![event.runtime[2]].pc = "snapshot"] /\ UNCHANGED consumer
      BY <2>1 DEF Receive
    <3>3. RoutineTypes'
      BY <1>1, <1>2, <3>1, <3>2 DEF RoutineTypes
    <3>4. RoutinesHold'
      BY <1>1, <1>2, <1>4, <3>1, <3>2 DEF RoutinesHold, RoutineTypes
    <3> QED  BY <3>3, <3>4
  <2>2. CASE event.type # "ready"
    <3>1. /\ event.runtime \in AnyRuntimeId /\ event.stored \in AnyStoredId /\ event.request \in AnyRequest
          /\ event.type \in {"end", "clarify", "forbidden", "info"}
      BY <1>3, <2>2, Constants DEF AnyEvent
    <3>2. /\ consumer' = IF Routed(event) = NoTurn THEN IdleConsumer
                         ELSE [pc |-> event.type, turn |-> Routed(event),
                               stored |-> event.stored, request |-> event.request]
          /\ UNCHANGED reconciler
      BY <2>2 DEF Receive
    <3>3. Routed(event) \in AnyTurn /\ (Routed(event) # NoTurn => Begun(Routed(event)))
      BY <1>1, <3>1, Constants DEF Routed, RoutesHold, MapTypes, AnyTurn
    <3>4. RoutineTypes'
      <4>1. consumer' \in [pc : {"idle", "end", "forbidden", "clarify", "info", "rotate"}, turn : AnyTurn,
                           stored : AnyStoredId, request : AnyRequest]
        BY <3>1, <3>2, <3>3, Constants DEF IdleConsumer, AnyTurn
      <4> QED  BY <1>1, <1>2, <3>2, <4>1 DEF RoutineTypes
    <3>5. RoutinesHold'
      BY <1>1, <1>2, <1>4, <3>2, <3>3 DEF RoutinesHold, IdleConsumer
    <3> QED  BY <3>4, <3>5
  <2> QED  BY <2>1, <2>2
<1>6. HermesTypes'
  BY <1>1, <1>2, <1>3 DEF HermesTypes
<1>7. TurnTypes' /\ MapTypes' /\ Shown' /\ RoutesHold' /\ CallsAreGood'
  BY <1>2, Frames DEF turnVars
<1> QED  BY <1>5, <1>6, <1>7 DEF IInv, TypeOK, Holders

\* What rotateStoredSession does to the maps.
LEMMA Rotate ==
  ASSUME IInv, NEW t, Begun(t), NEW stored \in AnyStoredId, rotateStoredSession(t, stored)
  PROVE  /\ StoredID' \in [Turns -> AnyStoredId]
         /\ runtimeSession' \in AnySession
         /\ activeByStored' \in [AnyStoredId -> AnyTurn]
         /\ \A id \in AnyStoredId :
              activeByStored'[id] \in {activeByStored[id], NoTurn} \/ activeByStored'[id] = activeByConversation
<1>1. /\ t \in Turns /\ t \in AnyTurn /\ NoTurn \in AnyTurn
      /\ RuntimeID[t] \in AnyRuntimeId /\ StoredID[t] \in AnyStoredId
      /\ StoredID \in [Turns -> AnyStoredId] /\ activeByStored \in [AnyStoredId -> AnyTurn]
  BY DEF IInv, TypeOK, TurnTypes, MapTypes, Begun, AnyTurn
<1>2. StoredID' \in [Turns -> AnyStoredId] /\ runtimeSession' \in AnySession
  BY <1>1 DEF rotateStoredSession, AnySession
<1>3. /\ Unrotated(t) \in [AnyStoredId -> AnyTurn]
      /\ \A id \in AnyStoredId : Unrotated(t)[id] \in {activeByStored[id], NoTurn}
  BY <1>1 DEF Unrotated
<1>4. CASE GrantRotated(t)
  <2>1. activeByStored' = [Unrotated(t) EXCEPT ![stored] = t] /\ t = activeByConversation
    BY <1>4 DEF rotateStoredSession, GrantRotated
  <2> QED  BY <1>1, <1>2, <1>3, <2>1
<1>5. CASE ~GrantRotated(t)
  <2>1. activeByStored' = Unrotated(t)
    BY <1>5 DEF rotateStoredSession
  <2> QED  BY <1>2, <1>3, <2>1
<1> QED  BY <1>4, <1>5

\* Events but the last of a prompt.
LEMMA HandleKeepsInv ==
  ASSUME IInv, HandleClarify \/ HandleInfo \/ RotateStoredSession
  PROVE  IInv'
<1>1. TurnTypes /\ MapTypes /\ RoutineTypes /\ Shown /\ RoutesHold /\ RoutinesHold
  BY DEF IInv, TypeOK, Holders
<1>2. /\ UNCHANGED <<pc, session, RuntimeID, Finalized, activeByConversation, activeByRuntime>>
      /\ UNCHANGED <<recentByRuntime, stopper, responder, reconciler, hermes>>
  BY DEF HandleClarify, HandleInfo, RotateStoredSession, turnVars, maps
<1>3. \A u : Begun(u) <=> Begun(u)'
  BY <1>2 DEF Begun
<1>4. RoutineTypes' /\ RoutinesHold'
  BY <1>1, <1>2, <1>3, Constants DEF HandleClarify, HandleInfo, RotateStoredSession, IdleConsumer,
    RoutineTypes, RoutinesHold, AnyTurn
<1>5. StoredID' \in [Turns -> AnyStoredId] /\ MapTypes' /\ OpenTurnIsBusy'
  <2>1. CASE HandleClarify
    BY <1>1, <2>1 DEF HandleClarify, TurnTypes, MapTypes, RoutineTypes, OpenTurnIsBusy, Busy, turnVars
  <2>2. CASE HandleInfo
    BY <1>1, <2>2 DEF HandleInfo, TurnTypes, MapTypes, RoutineTypes, Shown, OpenTurnIsBusy, turnVars, maps
  <2>3. CASE RotateStoredSession
    <3>1. /\ consumer.stored \in AnyStoredId /\ Begun(consumer.turn)
          /\ rotateStoredSession(consumer.turn, consumer.stored)
          /\ UNCHANGED <<conversationState, clarification, assistantSession>>
      BY <1>1, <2>3 DEF RotateStoredSession, RoutineTypes, RoutinesHold
    <3>2. /\ StoredID' \in [Turns -> AnyStoredId] /\ runtimeSession' \in AnySession
          /\ activeByStored' \in [AnyStoredId -> AnyTurn]
      BY <3>1, Rotate
    <3> QED  BY <1>1, <1>2, <3>1, <3>2 DEF MapTypes, Shown, OpenTurnIsBusy
  <2> QED  BY <2>1, <2>2, <2>3
<1>6. OneOpenTurn' /\ RoutesHold'
  BY <1>1, <1>2, <1>3 DEF Shown, OneOpenTurn, Open, RoutesHold
<1>7. TurnTypes'
  BY <1>1, <1>2, <1>5 DEF TurnTypes
<1>8. HermesTypes' /\ CallsAreGood'
  BY <1>2, Frames DEF hermes
<1> QED  BY <1>4, <1>5, <1>6, <1>7, <1>8 DEF IInv, TypeOK, Holders, Shown

\* A reconcile works on the turn that was open when it looked, or on none.
LEMMA ReconcileKeepsInv ==
  ASSUME IInv, NEW c \in Connections,
         \/ ForgetSessions(c) \/ ReconcileResume(c) \/ ReconcileAttach(c) \/ ReconcileSave(c)
         \/ ReconcileRotate(c) \/ ReconcileStatus(c)
  PROVE  IInv'
<1>1. /\ TurnTypes /\ MapTypes /\ RoutineTypes /\ HermesTypes
      /\ Shown /\ RoutesHold /\ RoutinesHold
      /\ reconciler[c].turn \in AnyTurn /\ reconciler[c].session \in AnySession
  BY DEF IInv, TypeOK, Holders, RoutineTypes
<1>2. /\ UNCHANGED <<pc, session, Finalized, activeByConversation, recentByRuntime, conversationState>>
      /\ UNCHANGED <<clarification, consumer, stopper, responder, connected, connection>>
  BY DEF ForgetSessions, ReconcileResume, ReconcileAttach, ReconcileSave, ReconcileRotate,
    ReconcileStatus, turnVars, maps, hermes
<1>3. \A u : Begun(u) <=> Begun(u)'
  BY <1>2 DEF Begun
<1>4. Shown'
  BY <1>1, <1>2 DEF Shown, OneOpenTurn, OpenTurnIsBusy, Open
<1>5. HermesTypes' /\ (ReconcileResume(c) => Resumed(StoredID[reconciler[c].turn]) \in AnySession)
  <2>1. CASE ReconcileResume(c)
    <3>1. reconciler[c].turn \in Turns
      BY <1>1, <2>1 DEF ReconcileResume, RoutinesHold, Begun
    <3>2. StoredID[reconciler[c].turn] \in StoredIds
      BY <1>1, <2>1, <3>1 DEF ReconcileResume, TurnTypes, AnyStoredId
    <3>3. Resumed(StoredID[reconciler[c].turn]) \in AnySession
      BY <1>1, <3>2, ResumedType
    <3>4. connection \in 0 .. MaxConnections /\ SessionOf(StoredID[reconciler[c].turn]) \in 1 .. MaxSessions
      BY <1>1, <3>2, AssistantAssumption DEF HermesTypes, Connections, SessionOf, StoredIds
    <3>5. HermesTypes'
      BY <1>1, <2>1, <3>4 DEF ReconcileResume, Attach, HermesTypes
    <3> QED  BY <3>3, <3>5
  <2>2. CASE ~ReconcileResume(c)
    <3>1. UNCHANGED hermes
      BY <2>2 DEF ForgetSessions, ReconcileAttach, ReconcileSave, ReconcileRotate, ReconcileStatus
    <3> QED  BY <2>2, <3>1, Frames
  <2> QED  BY <2>1, <2>2
<1>6. RoutineTypes' /\ RoutinesHold'
  <2>1. CASE ForgetSessions(c)
    <3>1. activeByConversation \in AnyTurn
          /\ (activeByConversation # NoTurn => Begun(activeByConversation))
      BY <1>1 DEF MapTypes, Shown, OneOpenTurn, Open, Begun, AnyTurn
    <3>2. reconciler' = IF activeByConversation = NoTurn THEN [reconciler EXCEPT ![c] = IdleReconciler]
                        ELSE [reconciler EXCEPT ![c].pc = "resume", ![c].turn = activeByConversation]
      BY <2>1 DEF ForgetSessions
    <3>3. CASE activeByConversation = NoTurn
      <4>1. reconciler' = [reconciler EXCEPT ![c] = IdleReconciler]
        BY <3>2, <3>3
      <4> QED  BY <1>1, <1>2, <1>3, <4>1, Constants
               DEF RoutineTypes, RoutinesHold, IdleReconciler, AnyTurn
    <3>4. CASE activeByConversation # NoTurn
      <4>1. /\ reconciler' = [reconciler EXCEPT ![c] = [reconciler[c] EXCEPT !.pc = "resume", !.turn = activeByConversation]]
            /\ Begun(activeByConversation)
        BY <1>1, <3>1, <3>2, <3>4 DEF RoutineTypes
      <4>2. RoutineTypes'
        BY <1>1, <1>2, <3>1, <4>1 DEF RoutineTypes
      <4>3. RoutinesHold'
        BY <1>1, <1>2, <1>3, <4>1 DEF RoutineTypes, RoutinesHold
      <4> QED  BY <4>2, <4>3
    <3> QED  BY <3>3, <3>4
  <2>2. CASE ReconcileResume(c)
    <3> DEFINE found == Resumed(StoredID[reconciler[c].turn])
    <3>1. /\ reconciler[c].pc = "resume" /\ found \in AnySession
          /\ reconciler' = [reconciler EXCEPT ![c] =
                              [reconciler[c] EXCEPT !.pc = "attach", !.session = found]]
      BY <1>1, <1>5, <2>2 DEF ReconcileResume, RoutineTypes
    <3> HIDE DEF found
    <3>2. RoutineTypes'
      BY <1>1, <1>2, <3>1 DEF RoutineTypes
    <3>3. RoutinesHold'
      BY <1>1, <1>2, <1>3, <3>1 DEF RoutineTypes, RoutinesHold
    <3> QED  BY <3>2, <3>3
  <2>3. CASE ReconcileAttach(c) \/ ReconcileSave(c) \/ ReconcileRotate(c)
    BY <1>1, <1>2, <1>3, <2>3
       DEF ReconcileAttach, ReconcileSave, ReconcileRotate, ReconcileStep, RoutineTypes, RoutinesHold
  <2>4. CASE ReconcileStatus(c)
    BY <1>1, <1>2, <1>3, <2>4, Constants
       DEF ReconcileStatus, ReconcileStep, Reconciled, RoutineTypes, RoutinesHold, IdleReconciler, AnyTurn
  <2> QED  BY <2>1, <2>2, <2>3, <2>4
<1>7. /\ RuntimeID' \in [Turns -> AnyRuntimeId] /\ StoredID' \in [Turns -> AnyStoredId]
      /\ MapTypes' /\ RoutesHold'
  <2>1. CASE ForgetSessions(c) \/ ReconcileResume(c) \/ ReconcileSave(c) \/ ReconcileStatus(c)
    <3>1. UNCHANGED turnVars /\ UNCHANGED maps
      BY <2>1 DEF ForgetSessions, ReconcileResume, ReconcileSave, ReconcileStatus
    <3>2. runtimeSession' \in AnySession /\ assistantSession' \in AnyStoredId
      BY <1>1, <2>1, Constants
         DEF ForgetSessions, ReconcileResume, ReconcileSave, ReconcileStatus, MapTypes, AnySession
    <3> QED  BY <1>1, <1>2, <3>1, <3>2, Frames DEF TurnTypes, MapTypes, turnVars, maps
  <2>2. CASE ReconcileAttach(c)
    <3> DEFINE t == reconciler[c].turn
               new == reconciler[c].session
    <3>1. /\ Begun(t) /\ t \in Turns /\ new.runtime \in AnyRuntimeId
          /\ RuntimeID[t] \in AnyRuntimeId
      BY <1>1, <2>2 DEF ReconcileAttach, RoutinesHold, Begun, AnySession, TurnTypes
    <3>2. /\ RuntimeID' = [RuntimeID EXCEPT ![t] = new.runtime]
          /\ activeByRuntime' = [activeByRuntime EXCEPT ![RuntimeID[t]] = NoTurn, ![new.runtime] = t]
          /\ runtimeSession' = new
          /\ UNCHANGED <<StoredID, activeByStored, assistantSession>>
      BY <2>2 DEF ReconcileAttach
    <3>3. RoutesHold'
      BY <1>1, <1>2, <1>3, <3>1, <3>2 DEF RoutesHold, MapTypes
    <3> QED  BY <1>1, <1>2, <3>1, <3>2, <3>3 DEF MapTypes, TurnTypes, AnyTurn
  <2>3. CASE ReconcileRotate(c)
    <3>1. /\ Begun(reconciler[c].turn) /\ reconciler[c].session.stored \in AnyStoredId
          /\ rotateStoredSession(reconciler[c].turn, reconciler[c].session.stored)
          /\ UNCHANGED <<RuntimeID, activeByRuntime, assistantSession>>
      BY <1>1, <2>3 DEF ReconcileRotate, RoutinesHold, AnySession
    <3>2. /\ StoredID' \in [Turns -> AnyStoredId] /\ runtimeSession' \in AnySession
          /\ activeByStored' \in [AnyStoredId -> AnyTurn]
      BY <3>1, Rotate
    <3>3. RoutesHold'
      BY <1>1, <1>2, <1>3, <3>1 DEF RoutesHold
    <3> QED  BY <1>1, <1>2, <3>1, <3>2, <3>3 DEF MapTypes, TurnTypes
  <2> QED  BY <2>1, <2>2, <2>3
<1>8. TurnTypes' /\ CallsAreGood'
  BY <1>1, <1>2, <1>7, Frames DEF TurnTypes
<1> QED  BY <1>4, <1>5, <1>6, <1>7, <1>8 DEF IInv, TypeOK, Holders

-----------------------------------------------------------------------------
LEMMA NextInv == IInv /\ [Next]_vars => IInv'
<1> SUFFICES ASSUME IInv, [Next]_vars  PROVE IInv'
  OBVIOUS
<1>1. ASSUME NEW t \in Turns, LoadConversation(t) \/ Submit(t)  PROVE IInv'
  BY <1>1, ReserveKeepsInv, SubmitKeepsInv, RegisterKeepsInv, FinishKeepsInv DEF Submit
<1>2. CASE Stop \/ StopStep \/ respondClarification \/ RespondStep \/ ForgetRecent
  BY <1>2, UsersKeepInv, FinishKeepsInv DEF StopStep, RespondStep
<1>3. CASE Consume
  BY <1>3, ReceiveKeepsInv, FinishKeepsInv, HandleKeepsInv DEF Consume
<1>4. ASSUME NEW c \in Connections, Reconcile(c)  PROVE IInv'
  BY <1>4, ReconcileKeepsInv, FinishKeepsInv DEF Reconcile
<1>5. CASE \/ \E s \in 1 .. MaxSessions : HermesCompletes(s) \/ HermesRequests(s) \/ HermesRotates(s)
           \/ Disconnect \/ Connect
  BY <1>5, HermesKeepsInv
<1>6. CASE UNCHANGED vars
  <2>1. /\ UNCHANGED <<pc, session, turnVars, maps, runtimeSession, assistantSession>>
        /\ UNCHANGED <<consumer, stopper, responder, reconciler, hermes>>
    BY <1>6 DEF vars
  <2>2. UNCHANGED <<connected, connection>> /\ UNCHANGED Finalized
    BY <2>1 DEF hermes, turnVars
  <2>3. TurnTypes' /\ MapTypes' /\ RoutineTypes' /\ HermesTypes'
    BY <2>1, Frames
  <2>4. Shown' /\ RoutesHold' /\ RoutinesHold' /\ CallsAreGood'
    BY <2>1, <2>2, Frames
  <2> QED  BY <2>3, <2>4 DEF IInv, TypeOK, Holders
<1> QED  BY <1>1, <1>2, <1>3, <1>4, <1>5, <1>6 DEF Next

\* The inductive invariant: whatever finishes a turn or takes its events knows
\* only turns that were reserved, one of which at most is open.
THEOREM AssistantInvariance == Spec => []IInv
BY InitInv, NextInv, PTL DEF Spec

\* The maps of the runtime and the positions of its goroutines have their types.
THEOREM AssistantTypes == Spec => []TypeOK
<1>1. IInv => TypeOK
  BY DEF IInv
<1> QED  BY <1>1, AssistantInvariance, PTL

\* A conversation has one open turn at most, the one that activeByConversation
\* holds, for any number of messages, stops, events and reconnects.
THEOREM OneTurn == Spec => []OneOpenTurn
<1>1. IInv => OneOpenTurn
  BY DEF IInv, Shown
<1> QED  BY <1>1, AssistantInvariance, PTL

\* A conversation with an open turn is shown as busy.
THEOREM BusyShown == Spec => []OpenTurnIsBusy
<1>1. IInv => OpenTurnIsBusy
  BY DEF IInv, Shown
<1> QED  BY <1>1, AssistantInvariance, PTL

\* Who registers a grant: the submit of the turn itself, or a rotation while the
\* turn is open.
LEMMA GrantStep ==
  ASSUME IInv, [Next]_vars, NEW t \in Turns, Finalized[t], pc[t] # "register"
  PROVE  \A id \in AnyStoredId : activeByStored'[id] = t => activeByStored[id] = t
<1>1. /\ activeByStored \in [AnyStoredId -> AnyTurn] /\ t # NoTurn /\ t # activeByConversation
      /\ MapTypes /\ RoutinesHold
  BY Constants DEF IInv, TypeOK, MapTypes, Holders, Shown, OneOpenTurn, Open, AnyTurn
<1>2. ASSUME NEW u, Begun(u), NEW state \in {"idle", "stopped", "error"}, finishTurn(u, state)
      PROVE  \A id \in AnyStoredId : activeByStored'[id] = t => activeByStored[id] = t
  BY <1>1, <1>2, Finish
<1>3. ASSUME NEW u, Begun(u), NEW stored \in AnyStoredId, rotateStoredSession(u, stored)
      PROVE  \A id \in AnyStoredId : activeByStored'[id] = t => activeByStored[id] = t
  BY <1>1, <1>3, Rotate
<1>4. CASE UNCHANGED activeByStored
  BY <1>4
<1>5. ASSUME NEW u \in Turns, LoadConversation(u) \/ Submit(u)
      PROVE  \A id \in AnyStoredId : activeByStored'[id] = t => activeByStored[id] = t
  <2>1. CASE SubmitFails(u)
    <3>1. Begun(u) /\ finishTurn(u, "error")
      BY <2>1 DEF SubmitFails, Begun
    <3> QED  BY <1>2, <3>1
  <2>2. CASE Register(u)
    <3>1. /\ u # t /\ session[u].stored \in AnyStoredId
          /\ activeByStored' = [activeByStored EXCEPT ![session[u].stored] = u]
      BY <2>2 DEF Register, IInv, TypeOK, TurnTypes, AnySession
    <3> QED  BY <1>1, <3>1
  <2>3. CASE ~SubmitFails(u) /\ ~Register(u)
    <3>1. UNCHANGED activeByStored
      BY <1>5, <2>3 DEF LoadConversation, Submit, Reserve, ensureSession, CreateSession, ResumeSession,
        SetAssistantSession, CacheSession, Bind, BindStored, SubmitPrompt, Accept, maps
    <3> QED  BY <3>1
  <2> QED  BY <2>1, <2>2, <2>3
<1>6. ASSUME Stop \/ StopStep \/ respondClarification \/ RespondStep \/ ForgetRecent
      PROVE  \A id \in AnyStoredId : activeByStored'[id] = t => activeByStored[id] = t
  <2>1. CASE FinishStopped
    <3>1. Begun(stopper.turn) /\ finishTurn(stopper.turn, "stopped")
      BY <1>1, <2>1 DEF FinishStopped, RoutinesHold
    <3> QED  BY <1>2, <3>1
  <2>2. CASE ~FinishStopped
    <3>1. UNCHANGED activeByStored
      BY <1>6, <2>2 DEF Stop, StopStep, Interrupt, respondClarification, RespondStep, RespondToHermes,
        ResumeRunning, ForgetRecent, maps
    <3> QED  BY <3>1
  <2> QED  BY <2>1, <2>2
<1>7. ASSUME Consume
      PROVE  \A id \in AnyStoredId : activeByStored'[id] = t => activeByStored[id] = t
  <2>1. CASE HandleEnd
    <3>1. PICK state \in {"idle", "stopped", "error"} : finishTurn(consumer.turn, state)
      BY <2>1 DEF HandleEnd
    <3>2. Begun(consumer.turn)
      BY <1>1, <2>1 DEF HandleEnd, RoutinesHold
    <3> QED  BY <1>2, <3>1, <3>2
  <2>2. CASE RotateStoredSession
    <3>1. /\ Begun(consumer.turn) /\ consumer.stored \in AnyStoredId
          /\ rotateStoredSession(consumer.turn, consumer.stored)
      BY <1>1, <2>2 DEF RotateStoredSession, RoutinesHold, IInv, TypeOK, RoutineTypes
    <3> QED  BY <1>3, <3>1
  <2>3. CASE Receive \/ HandleClarify \/ HandleInfo
    <3>1. UNCHANGED activeByStored
      BY <2>3 DEF Receive, HandleClarify, HandleInfo, maps
    <3> QED  BY <3>1
  <2> QED  BY <1>7, <2>1, <2>2, <2>3 DEF Consume
<1>8. ASSUME NEW c \in Connections, Reconcile(c)
      PROVE  \A id \in AnyStoredId : activeByStored'[id] = t => activeByStored[id] = t
  <2>1. CASE FinishReconciled(c) \/ ReconcileFails(c)
    <3>1. PICK state \in {"idle", "stopped", "error"} : finishTurn(reconciler[c].turn, state)
      BY <2>1 DEF FinishReconciled, ReconcileFails
    <3>2. Begun(reconciler[c].turn)
      BY <1>1, <2>1 DEF FinishReconciled, ReconcileFails, RoutinesHold
    <3> QED  BY <1>2, <3>1, <3>2
  <2>2. CASE ReconcileRotate(c)
    <3>1. /\ Begun(reconciler[c].turn) /\ reconciler[c].session.stored \in AnyStoredId
          /\ rotateStoredSession(reconciler[c].turn, reconciler[c].session.stored)
      BY <1>1, <2>2 DEF ReconcileRotate, RoutinesHold, IInv, TypeOK, RoutineTypes, AnySession
    <3> QED  BY <1>3, <3>1
  <2>3. CASE ForgetSessions(c) \/ ReconcileResume(c) \/ ReconcileAttach(c) \/ ReconcileSave(c)
             \/ ReconcileStatus(c)
    <3>1. UNCHANGED activeByStored
      BY <2>3 DEF ForgetSessions, ReconcileResume, ReconcileAttach, ReconcileSave, ReconcileStatus, maps
    <3> QED  BY <3>1
  <2> QED  BY <1>8, <2>1, <2>2, <2>3 DEF Reconcile
<1>9. ASSUME \/ \E s \in 1 .. MaxSessions : HermesCompletes(s) \/ HermesRequests(s) \/ HermesRotates(s)
             \/ Disconnect \/ Connect
             \/ UNCHANGED vars
      PROVE  UNCHANGED activeByStored
  BY <1>9 DEF HermesCompletes, HermesRequests, HermesRotates, Disconnect, Connect, vars, maps
<1> QED  BY <1>4, <1>5, <1>6, <1>7, <1>8, <1>9 DEF Next

\* A turn that is finished and has no grant is never granted the tools again by
\* a rotation, an event or a reconnect (lines 514-580).
THEOREM GrantsRevoked == Spec => RevokedForGood
<1> DEFINE Revoked == \A t \in Turns : Finalized[t] /\ ~Granted(t) /\ pc[t] # "register" => ~Granted(t)'
<1>1. IInv /\ [Next]_vars => [Revoked]_vars
  <2>1. ASSUME IInv, [Next]_vars, NEW t \in Turns, Finalized[t], ~Granted(t), pc[t] # "register"
        PROVE  ~Granted(t)'
    BY <2>1, GrantStep, Constants DEF Granted
  <2> QED  BY <2>1
<1>2. Spec => [][Revoked]_vars
  BY <1>1, AssistantInvariance, PTL DEF Spec
<1> QED  BY <1>2 DEF RevokedForGood

-----------------------------------------------------------------------------
(***************************************************************************)
(* Until the gateway has reconnected no reconcile has run, and every id of *)
(* an open turn was written by its own submit or by a rotation of a turn   *)
(* that was registered: the grants of an open turn are then kept under its *)
(* stored id, and nowhere else.                                            *)
(***************************************************************************)
Registered(t) == pc[t] \in {"prompt", "submitted", "accepted"}

NoReconcile ==
  /\ \A c \in Connections : reconciler[c].pc = "idle"
  /\ \A i \in 1 .. Len(events) : events[i].type # "ready"

RoutedRegistered ==
  /\ \A id \in AnyRuntimeId, t \in Turns : activeByRuntime[id] = t /\ ~Finalized[t] => Registered(t)
  /\ \A id \in AnyRuntimeId, t \in Turns : recentByRuntime[id] = t => Finalized[t]
  /\ consumer.pc # "idle" /\ ~Finalized[consumer.turn] => Registered(consumer.turn)

GrantedAsStored ==
  /\ \A t \in Turns : pc[t] = "register" /\ ~Finalized[t] => StoredID[t] = session[t].stored
  /\ \A id \in AnyStoredId, t \in Turns :
       activeByStored[id] = t /\ ~Finalized[t] => Registered(t) /\ id = StoredID[t]

FirstConnection == connection = 1 => NoReconcile /\ RoutedRegistered /\ GrantedAsStored

LEMMA InitFirst == Init => FirstConnection
BY Constants DEF Init, FirstConnection, NoReconcile, RoutedRegistered, GrantedAsStored, IdleReconciler,
  IdleConsumer, RuntimeIds, StoredIds, AnyRuntimeId, AnyStoredId

\* A turn that is finished leaves the other turns as they are.
LEMMA FinishFirst ==
  ASSUME IInv, RoutedRegistered, GrantedAsStored,
         NEW t, Begun(t), NEW state \in {"idle", "stopped", "error"}, finishTurn(t, state),
         UNCHANGED StoredID, UNCHANGED consumer \/ consumer' = IdleConsumer,
         \A u \in Turns \ {t} : pc'[u] = pc[u] /\ session'[u] = session[u]
  PROVE  RoutedRegistered' /\ GrantedAsStored'
<1>1. /\ t \in Turns /\ NoTurn \notin Turns
      /\ \A u \in Turns : Finalized'[u] <=> (Finalized[u] \/ u = t)
      /\ \A id \in AnyRuntimeId : activeByRuntime'[id] \in {activeByRuntime[id], NoTurn}
      /\ \A id \in AnyStoredId : activeByStored'[id] \in {activeByStored[id], NoTurn}
      /\ \A id \in AnyRuntimeId : recentByRuntime'[id] \in {recentByRuntime[id], t}
  BY Finish, Constants DEF Begun
<1>2. \A u \in Turns : ~Finalized'[u] => ~Finalized[u] /\ pc'[u] = pc[u] /\ session'[u] = session[u]
  BY <1>1
<1>3. consumer.pc # "idle" => consumer.turn \in Turns
  BY DEF IInv, Holders, RoutinesHold, Begun
<1>4. RoutedRegistered'
  BY <1>1, <1>2, <1>3 DEF RoutedRegistered, Registered, IdleConsumer
<1>5. GrantedAsStored'
  BY <1>1, <1>2 DEF GrantedAsStored, Registered
<1> QED  BY <1>4, <1>5

\* Hermes asks for no reconcile while the connection is the first one.
LEMMA HermesFirst ==
  ASSUME IInv, NoReconcile,
         \E s \in 1 .. MaxSessions : HermesCompletes(s) \/ HermesRequests(s) \/ HermesRotates(s)
  PROVE  NoReconcile'
<1>1. events \in Seq(AnyEvent) /\ UNCHANGED reconciler
  BY DEF IInv, TypeOK, HermesTypes, HermesCompletes, HermesRequests, HermesRotates
<1>2. PICK event : event.type # "ready" /\ events' \in {events, Append(events, event)}
  <2>1. PICK s \in 1 .. MaxSessions : HermesCompletes(s) \/ HermesRequests(s) \/ HermesRotates(s)
    OBVIOUS
  <2>2. CASE HermesCompletes(s)
    <3>1. Event("end", s).type # "ready"
      BY DEF Event
    <3> QED  BY <2>2, <3>1 DEF HermesCompletes
  <2>3. CASE HermesRequests(s)
    <3>1. PICK type \in {"clarify", "forbidden"} :
            events' = Append(events, [Event(type, s) EXCEPT !.request = requests'])
      BY <2>3 DEF HermesRequests
    <3>2. [Event(type, s) EXCEPT !.request = requests'].type # "ready"
      BY DEF Event
    <3> QED  BY <3>1, <3>2
  <2>4. CASE HermesRotates(s)
    <3>1. [Event("info", s) EXCEPT !.stored = <<s, rotations[s] + 1>>].type # "ready"
      BY DEF Event
    <3> QED  BY <2>4, <3>1 DEF HermesRotates
  <2> QED  BY <2>1, <2>2, <2>3, <2>4
<1>3. CASE events' = events
  BY <1>1, <1>3 DEF NoReconcile
<1>4. CASE events' = Append(events, event)
  <2>1. /\ Len(events') = Len(events) + 1 /\ Len(events) \in Nat
        /\ \A i \in 1 .. Len(events') : events'[i] = IF i = Len(events) + 1 THEN event ELSE events[i]
    BY <1>1, <1>4
  <2>2. \A i \in 1 .. Len(events') : events'[i].type # "ready"
    BY <1>2, <2>1 DEF NoReconcile
  <2> QED  BY <1>1, <2>2 DEF NoReconcile
<1> QED  BY <1>2, <1>3, <1>4

\* An event is routed to a turn that was registered, or to a finished one.
LEMMA ReceiveFirst ==
  ASSUME IInv, NoReconcile, RoutedRegistered, GrantedAsStored, Receive
  PROVE  NoReconcile' /\ RoutedRegistered' /\ GrantedAsStored'
<1>1. /\ events \in Seq(AnyEvent) /\ events # <<>> /\ events' = Tail(events)
      /\ UNCHANGED <<pc, session, turnVars, activeByRuntime, activeByStored, recentByRuntime>>
  BY DEF Receive, IInv, TypeOK, HermesTypes, maps
<1>2. /\ Len(events') = Len(events) - 1 /\ Len(events) \in Nat \ {0}
      /\ \A i \in 1 .. Len(events') : events'[i] = events[i + 1]
  BY <1>1
<1>3. Head(events).type # "ready" /\ Head(events) \in AnyEvent
  BY <1>1, <1>2 DEF NoReconcile
<1>4. NoReconcile'
  <2>1. \A i \in 1 .. Len(events') : events'[i].type # "ready"
    BY <1>2 DEF NoReconcile
  <2>2. UNCHANGED reconciler
    BY <1>3 DEF Receive
  <2> QED  BY <2>1, <2>2 DEF NoReconcile
<1>5. GrantedAsStored'
  BY <1>1 DEF GrantedAsStored, Registered, turnVars
<1>6. RoutedRegistered'
  <2>1. Head(events).runtime \in AnyRuntimeId
    BY <1>3, Constants DEF AnyEvent
  <2>2. consumer' = IF Routed(Head(events)) = NoTurn THEN IdleConsumer
                    ELSE [pc |-> Head(events).type, turn |-> Routed(Head(events)),
                          stored |-> Head(events).stored, request |-> Head(events).request]
    BY <1>3 DEF Receive
  <2>3. CASE Routed(Head(events)) = NoTurn
    BY <1>1, <2>2, <2>3 DEF RoutedRegistered, Registered, turnVars, IdleConsumer
  <2>4. CASE Routed(Head(events)) # NoTurn
    <3>1. /\ Routed(Head(events)) \in Turns
          /\ \/ activeByRuntime[Head(events).runtime] = Routed(Head(events))
             \/ recentByRuntime[Head(events).runtime] = Routed(Head(events))
      BY <2>1, <2>4 DEF Routed, IInv, Holders, RoutesHold, Begun
    <3>2. ~Finalized[Routed(Head(events))] => Registered(Routed(Head(events)))
      BY <2>1, <3>1 DEF RoutedRegistered
    <3>3. consumer'.turn = Routed(Head(events))
      BY <2>2, <2>4
    <3> QED  BY <1>1, <3>2, <3>3 DEF RoutedRegistered, Registered, turnVars
  <2> QED  BY <2>3, <2>4
<1> QED  BY <1>4, <1>5, <1>6

\* A rotation moves the grant of an open turn to its new stored id.
LEMMA RotateFirst ==
  ASSUME IInv, RoutedRegistered, GrantedAsStored, RotateStoredSession
  PROVE  RoutedRegistered' /\ GrantedAsStored'
<1> DEFINE t == consumer.turn
           stored == consumer.stored
<1>1. /\ t \in Turns /\ stored \in AnyStoredId /\ consumer.pc # "idle" /\ NoTurn \notin Turns
      /\ StoredID \in [Turns -> AnyStoredId] /\ activeByStored \in [AnyStoredId -> AnyTurn]
  BY Constants DEF RotateStoredSession, IInv, TypeOK, RoutineTypes, TurnTypes, MapTypes, Holders,
    RoutinesHold, Begun
<1>2. /\ StoredID' = [StoredID EXCEPT ![t] = stored]
      /\ activeByStored' = IF GrantRotated(t) THEN [Unrotated(t) EXCEPT ![stored] = t] ELSE Unrotated(t)
      /\ consumer' = IdleConsumer
      /\ UNCHANGED <<pc, session, Finalized, activeByRuntime, recentByRuntime>>
  BY DEF RotateStoredSession, rotateStoredSession
<1>3. RoutedRegistered'
  BY <1>2 DEF RoutedRegistered, Registered, IdleConsumer
<1>4. ~Finalized[t] => Registered(t)
  BY <1>1 DEF RoutedRegistered
<1>5. Unrotated(t) = [activeByStored EXCEPT ![StoredID[t]] = NoTurn] /\ StoredID[t] \in AnyStoredId
  BY <1>1 DEF Unrotated
<1>6. \A u \in Turns : pc'[u] = "register" /\ ~Finalized'[u] => StoredID'[u] = session'[u].stored
  BY <1>1, <1>2, <1>4 DEF GrantedAsStored, Registered
<1>7. ASSUME NEW id \in AnyStoredId, NEW u \in Turns, activeByStored'[id] = u, ~Finalized'[u]
      PROVE  Registered(u)' /\ id = StoredID'[u]
  <2>1. CASE u = t
    <3>1. ASSUME activeByStored'[id] = activeByStored[id]  PROVE id = stored
      <4>1. id = StoredID[t]
        BY <1>2, <1>7, <2>1, <3>1 DEF GrantedAsStored
      <4> QED  BY <1>1, <1>2, <1>5, <1>7, <2>1, <4>1
    <3>2. id = stored
      BY <1>1, <1>2, <1>5, <1>7, <2>1, <3>1
    <3> QED  BY <1>1, <1>2, <1>4, <1>7, <2>1, <3>2 DEF Registered
  <2>2. CASE u # t
    <3>1. activeByStored[id] = u
      BY <1>1, <1>2, <1>5, <1>7, <2>2
    <3> QED  BY <1>1, <1>2, <1>7, <2>2, <3>1 DEF GrantedAsStored, Registered
  <2> QED  BY <2>1, <2>2
<1> QED  BY <1>3, <1>6, <1>7 DEF GrantedAsStored

\* The steps of a submit up to its registration, and after it.
LEMMA SubmitFirst ==
  ASSUME IInv, RoutedRegistered, GrantedAsStored, NEW t \in Turns,
         \/ LoadConversation(t) \/ Reserve(t) \/ ensureSession(t) \/ CreateSession(t) \/ ResumeSession(t)
         \/ SetAssistantSession(t) \/ CacheSession(t) \/ Bind(t) \/ BindStored(t) \/ Register(t)
         \/ SubmitPrompt(t) \/ Accept(t)
  PROVE  RoutedRegistered' /\ GrantedAsStored'
<1>1. /\ pc \in [Turns -> Labels] /\ session \in [Turns -> AnySession] /\ session[t] \in AnySession
      /\ StoredID \in [Turns -> AnyStoredId]
      /\ activeByRuntime \in [AnyRuntimeId -> AnyTurn] /\ activeByStored \in [AnyStoredId -> AnyTurn]
  BY DEF IInv, TypeOK, TurnTypes, MapTypes
<1>2. UNCHANGED <<Finalized, recentByRuntime, consumer>>
  BY DEF LoadConversation, Reserve, ensureSession, CreateSession, ResumeSession, SetAssistantSession,
    CacheSession, Bind, BindStored, Register, SubmitPrompt, Accept, turnVars, maps
<1>3. /\ \A u \in Turns \ {t} : pc'[u] = pc[u] /\ session'[u] = session[u]
      /\ Registered(t) => Registered(t)'
      /\ pc'[t] = "register" => BindStored(t)
  BY <1>1 DEF LoadConversation, Reserve, ensureSession, CreateSession, ResumeSession, SetAssistantSession,
    CacheSession, Bind, BindStored, Register, SubmitPrompt, Accept, Return, Goto, Registered
<1>4. \A u \in Turns : Registered(u) => Registered(u)'
  BY <1>3 DEF Registered
<1>5. CASE Register(t)
  <2>1. /\ pc[t] = "register" /\ pc'[t] = "prompt"
        /\ activeByRuntime' = [activeByRuntime EXCEPT ![session[t].runtime] = t]
        /\ activeByStored' = [activeByStored EXCEPT ![session[t].stored] = t]
        /\ UNCHANGED <<session, StoredID>>
    BY <1>1, <1>5 DEF Register, Goto, turnVars
  <2>2. RoutedRegistered'
    <3>1. \A id \in AnyRuntimeId : activeByRuntime'[id] \in {activeByRuntime[id], t}
      BY <1>1, <2>1
    <3>2. Registered(t)'
      BY <2>1 DEF Registered
    <3> QED  BY <1>2, <1>4, <3>1, <3>2 DEF RoutedRegistered, IInv, Holders, RoutinesHold, Begun
  <2>3. GrantedAsStored'
    <3>1. \A u \in Turns : pc'[u] = "register" => u # t
      BY <2>1
    <3>2. ~Finalized[t] => StoredID[t] = session[t].stored
      BY <2>1 DEF GrantedAsStored
    <3>3. \A id \in AnyStoredId :
             activeByStored'[id] = IF id = session[t].stored THEN t ELSE activeByStored[id]
      BY <1>1, <2>1
    <3>4. Registered(t)'
      BY <2>1 DEF Registered
    <3> QED  BY <1>2, <1>3, <1>4, <2>1, <3>1, <3>2, <3>3, <3>4 DEF GrantedAsStored
  <2> QED  BY <2>2, <2>3
<1>6. CASE ~Register(t)
  <2>1. UNCHANGED <<activeByRuntime, activeByStored>>
    BY <1>6 DEF LoadConversation, Reserve, ensureSession, CreateSession, ResumeSession,
      SetAssistantSession, CacheSession, Bind, BindStored, SubmitPrompt, Accept, maps
  <2>2. RoutedRegistered'
    BY <1>2, <1>4, <2>1 DEF RoutedRegistered, IInv, Holders, RoutinesHold, Begun
  <2>3. CASE BindStored(t)
    <3>1. /\ pc[t] = "bindStored" /\ StoredID' = [StoredID EXCEPT ![t] = session[t].stored]
          /\ UNCHANGED session
      BY <2>3 DEF BindStored
    <3>2. \A u \in Turns \ {t} : StoredID'[u] = StoredID[u]
      BY <1>1, <3>1
    <3>3. StoredID'[t] = session'[t].stored
      BY <1>1, <3>1
    <3>4. ~Registered(t)
      BY <3>1 DEF Registered
    <3> QED  BY <1>2, <1>3, <1>4, <2>1, <2>2, <3>2, <3>3, <3>4 DEF GrantedAsStored
  <2>4. CASE ~BindStored(t)
    <3>1. UNCHANGED StoredID
      BY <1>6, <2>4 DEF LoadConversation, Reserve, ensureSession, CreateSession, ResumeSession,
        SetAssistantSession, CacheSession, Bind, SubmitPrompt, Accept, turnVars
    <3>2. \A u \in Turns : pc'[u] = "register" => pc[u] = "register" /\ session'[u] = session[u]
      BY <1>3, <2>4
    <3> QED  BY <1>2, <1>4, <2>1, <2>2, <3>1, <3>2 DEF GrantedAsStored
  <2> QED  BY <2>3, <2>4
<1> QED  BY <1>5, <1>6

LEMMA NextFirst == IInv /\ FirstConnection /\ [Next]_vars => FirstConnection'
<1> SUFFICES ASSUME IInv, FirstConnection, [Next]_vars, connection' = 1
             PROVE  NoReconcile' /\ RoutedRegistered' /\ GrantedAsStored'
  BY DEF FirstConnection
<1>1. connection = 1 /\ ~Connect
  <2>1. connection \in Connections /\ connection \in Nat /\ connection # 0
    BY DEF IInv, TypeOK, HermesTypes, Connections
  <2>2. ~Connect
    BY <2>1 DEF Connect
  <2>3. UNCHANGED connection
    BY <2>2 DEF Next, LoadConversation, Submit, Reserve, ensureSession, CreateSession, ResumeSession,
      SetAssistantSession, CacheSession, Bind, BindStored, Register, SubmitPrompt, Accept, SubmitFails,
      Stop, StopStep, Interrupt, FinishStopped, respondClarification, RespondStep, RespondToHermes,
      ResumeRunning, Consume, Receive, HandleEnd, HandleClarify, HandleInfo, RotateStoredSession,
      Reconcile, ForgetSessions, ReconcileResume, ReconcileAttach, ReconcileSave, ReconcileRotate,
      ReconcileStatus, FinishReconciled, ReconcileFails, ForgetRecent, HermesCompletes, HermesRequests,
      HermesRotates, Disconnect, vars, hermes
  <2> QED  BY <2>2, <2>3
<1>2. /\ NoReconcile /\ RoutedRegistered /\ GrantedAsStored /\ TurnTypes /\ RoutinesHold
      /\ \A c \in Connections : reconciler[c].pc = "idle"
  BY <1>1 DEF FirstConnection, NoReconcile, IInv, TypeOK, Holders
<1>3. \A c \in Connections : ~Reconcile(c)
  BY <1>2 DEF Reconcile, ForgetSessions, ReconcileResume, ReconcileAttach, ReconcileSave, ReconcileRotate,
    ReconcileStatus, FinishReconciled, ReconcileFails
<1>4. ASSUME UNCHANGED <<reconciler, events>>  PROVE NoReconcile'
  BY <1>2, <1>4 DEF NoReconcile
<1>5. ASSUME NEW t \in Turns, LoadConversation(t) \/ Submit(t)
      PROVE  NoReconcile' /\ RoutedRegistered' /\ GrantedAsStored'
  <2>1. UNCHANGED <<reconciler, events>>
    BY <1>5 DEF LoadConversation, Submit, Reserve, ensureSession, CreateSession, ResumeSession,
      SetAssistantSession, CacheSession, Bind, BindStored, Register, SubmitPrompt, Accept, SubmitFails, hermes
  <2>2. CASE SubmitFails(t)
    <3>1. /\ Begun(t) /\ finishTurn(t, "error") /\ UNCHANGED <<StoredID, consumer>>
          /\ \A u \in Turns \ {t} : pc'[u] = pc[u] /\ session'[u] = session[u]
      BY <1>2, <2>2 DEF SubmitFails, Return, Goto, Begun, TurnTypes
    <3> QED  BY <1>2, <1>4, <2>1, <3>1, FinishFirst
  <2>3. CASE ~SubmitFails(t)
    BY <1>2, <1>4, <1>5, <2>1, <2>3, SubmitFirst DEF Submit
  <2> QED  BY <2>2, <2>3
<1>6. ASSUME FinishStopped \/ HandleEnd  PROVE NoReconcile' /\ RoutedRegistered' /\ GrantedAsStored'
  <2>1. /\ UNCHANGED <<pc, session, StoredID, reconciler, events>>
        /\ UNCHANGED consumer \/ consumer' = IdleConsumer
    BY <1>6 DEF FinishStopped, HandleEnd, hermes
  <2>2. CASE FinishStopped
    <3>1. Begun(stopper.turn) /\ finishTurn(stopper.turn, "stopped")
      BY <1>2, <2>2 DEF FinishStopped, RoutinesHold
    <3> QED  BY <1>2, <1>4, <2>1, <3>1, FinishFirst
  <2>3. CASE HandleEnd
    <3>1. PICK state \in {"idle", "stopped", "error"} : finishTurn(consumer.turn, state)
      BY <2>3 DEF HandleEnd
    <3>2. Begun(consumer.turn)
      BY <1>2, <2>3 DEF HandleEnd, RoutinesHold
    <3> QED  BY <1>2, <1>4, <2>1, <3>1, <3>2, FinishFirst
  <2> QED  BY <1>6, <2>2, <2>3
<1>7. ASSUME \/ Stop \/ Interrupt \/ respondClarification \/ RespondStep \/ ForgetRecent
             \/ HandleClarify \/ HandleInfo \/ Disconnect \/ UNCHANGED vars
             \/ \E s \in 1 .. MaxSessions : HermesCompletes(s) \/ HermesRequests(s) \/ HermesRotates(s)
      PROVE  RoutedRegistered' /\ GrantedAsStored'
  <2>1. UNCHANGED <<pc, session, turnVars, activeByRuntime, activeByStored>>
    BY <1>7 DEF Stop, Interrupt, respondClarification, RespondStep, RespondToHermes, ResumeRunning,
      ForgetRecent, HandleClarify, HandleInfo, Disconnect, HermesCompletes, HermesRequests, HermesRotates,
      vars, maps
  <2>2. \A id \in AnyRuntimeId : recentByRuntime'[id] \in {recentByRuntime[id], NoTurn}
    BY <1>7 DEF Stop, Interrupt, respondClarification, RespondStep, RespondToHermes, ResumeRunning,
      ForgetRecent, HandleClarify, HandleInfo, Disconnect, HermesCompletes, HermesRequests, HermesRotates,
      vars, maps, IInv, TypeOK, MapTypes
  <2>3. consumer'.pc # "idle" => consumer'.turn = consumer.turn /\ consumer.pc # "idle"
    <3>1. CASE HandleClarify \/ HandleInfo
      BY <3>1 DEF HandleClarify, HandleInfo, IdleConsumer, IInv, TypeOK, RoutineTypes
    <3>2. CASE ~HandleClarify /\ ~HandleInfo
      <4>1. UNCHANGED consumer
        BY <1>7, <3>2 DEF Stop, Interrupt, respondClarification, RespondStep, RespondToHermes,
          ResumeRunning, ForgetRecent, Disconnect, HermesCompletes, HermesRequests, HermesRotates, vars
      <4> QED  BY <4>1
    <3> QED  BY <3>1, <3>2
  <2>4. RoutedRegistered'
    BY <1>2, <2>1, <2>2, <2>3, Constants DEF RoutedRegistered, Registered, turnVars
  <2> QED  BY <1>2, <2>1, <2>4 DEF GrantedAsStored, Registered, turnVars
<1>8. ASSUME \/ Stop \/ Interrupt \/ respondClarification \/ RespondStep \/ ForgetRecent
             \/ HandleClarify \/ HandleInfo \/ RotateStoredSession \/ Disconnect \/ UNCHANGED vars
      PROVE  NoReconcile'
  BY <1>4, <1>8 DEF Stop, Interrupt, respondClarification, RespondStep, RespondToHermes, ResumeRunning,
    ForgetRecent, HandleClarify, HandleInfo, RotateStoredSession, Disconnect, vars, hermes
<1> QED  BY <1>1, <1>2, <1>3, <1>5, <1>6, <1>7, <1>8, HermesFirst, ReceiveFirst, RotateFirst
         DEF Next, StopStep, Consume

\* A turn ends by a finishTurn of its own, whichever goroutine it runs in.
LEMMA Finishes ==
  ASSUME IInv, [Next]_vars, NEW t \in Turns, Open(t), Finalized'[t]
  PROVE  activeByStored' = [activeByStored EXCEPT ![StoredID[t]] = NoTurn]
<1>1. ~Finalized[t] /\ RoutinesHold
  BY DEF Open, IInv, Holders
<1>2. ASSUME NEW u, Begun(u), NEW state \in {"idle", "stopped", "error"}, finishTurn(u, state)
      PROVE  activeByStored' = [activeByStored EXCEPT ![StoredID[t]] = NoTurn]
  <2>1. u = t
    BY <1>1, <1>2, Finish
  <2> QED  BY <1>1, <1>2, <2>1 DEF finishTurn, AlreadyFinished
<1>3. ASSUME NEW u \in Turns, LoadConversation(u) \/ Submit(u)
      PROVE  activeByStored' = [activeByStored EXCEPT ![StoredID[t]] = NoTurn]
  <2>1. SubmitFails(u)
    BY <1>1, <1>3 DEF LoadConversation, Submit, Reserve, ensureSession, CreateSession, ResumeSession,
      SetAssistantSession, CacheSession, Bind, BindStored, Register, SubmitPrompt, Accept, turnVars
  <2>2. Begun(u) /\ finishTurn(u, "error")
    BY <2>1 DEF SubmitFails, Begun
  <2> QED  BY <1>2, <2>2
<1>4. CASE FinishStopped
  <2>1. Begun(stopper.turn) /\ finishTurn(stopper.turn, "stopped")
    BY <1>1, <1>4 DEF FinishStopped, RoutinesHold
  <2> QED  BY <1>2, <2>1
<1>5. CASE HandleEnd
  <2>1. PICK state \in {"idle", "stopped", "error"} : finishTurn(consumer.turn, state)
    BY <1>5 DEF HandleEnd
  <2>2. Begun(consumer.turn)
    BY <1>1, <1>5 DEF HandleEnd, RoutinesHold
  <2> QED  BY <1>2, <2>1, <2>2
<1>6. ASSUME NEW c \in Connections, Reconcile(c)
      PROVE  activeByStored' = [activeByStored EXCEPT ![StoredID[t]] = NoTurn]
  <2>1. FinishReconciled(c) \/ ReconcileFails(c)
    BY <1>1, <1>6 DEF Reconcile, ForgetSessions, ReconcileResume, ReconcileAttach, ReconcileSave,
      ReconcileRotate, ReconcileStatus, turnVars
  <2>2. PICK state \in {"idle", "stopped", "error"} : finishTurn(reconciler[c].turn, state)
    BY <2>1 DEF FinishReconciled, ReconcileFails
  <2>3. Begun(reconciler[c].turn)
    BY <1>1, <2>1 DEF FinishReconciled, ReconcileFails, RoutinesHold
  <2> QED  BY <1>2, <2>2, <2>3
<1>7. ASSUME \/ Stop \/ Interrupt \/ respondClarification \/ RespondStep \/ ForgetRecent
             \/ Receive \/ HandleClarify \/ HandleInfo \/ RotateStoredSession
             \/ Disconnect \/ Connect \/ UNCHANGED vars
             \/ \E s \in 1 .. MaxSessions : HermesCompletes(s) \/ HermesRequests(s) \/ HermesRotates(s)
      PROVE  FALSE
  BY <1>1, <1>7 DEF Stop, Interrupt, respondClarification, RespondStep, RespondToHermes, ResumeRunning,
    ForgetRecent, Receive, HandleClarify, HandleInfo, RotateStoredSession, Disconnect, Connect,
    HermesCompletes, HermesRequests, HermesRotates, vars, turnVars
<1> QED  BY <1>3, <1>4, <1>5, <1>6, <1>7 DEF Next, StopStep, Consume

\* Until the gateway has reconnected, a turn that ends by its last event, by a
\* stop or by a failure of its submit loses every grant it has, however often
\* its session was compressed meanwhile (lines 487-529).
THEOREM AllGrantsRevoked == Spec => FinishRevokes
<1> DEFINE Revoked == \A t \in Turns : Open(t) /\ Finalized'[t] /\ connection = 1 => ~Granted(t)'
<1>1. Spec => []FirstConnection
  BY InitFirst, NextFirst, AssistantInvariance, PTL DEF Spec
<1>2. ASSUME IInv, FirstConnection, [Next]_vars, NEW t \in Turns, Open(t), Finalized'[t], connection = 1
      PROVE  ~Granted(t)'
  <2>1. /\ activeByStored' = [activeByStored EXCEPT ![StoredID[t]] = NoTurn]
        /\ activeByStored \in [AnyStoredId -> AnyTurn] /\ ~Finalized[t] /\ t # NoTurn
    BY <1>2, Finishes, Constants DEF IInv, TypeOK, MapTypes, Open
  <2>2. \A id \in AnyStoredId : activeByStored[id] = t => id = StoredID[t]
    BY <1>2, <2>1 DEF FirstConnection, GrantedAsStored
  <2>3. \A id \in AnyStoredId : activeByStored'[id] # t
    BY <2>1, <2>2
  <2> QED  BY <2>3, Constants DEF Granted
<1>3. IInv /\ FirstConnection /\ [Next]_vars => [Revoked]_vars
  BY <1>2
<1>4. Spec => [][Revoked]_vars
  BY <1>1, <1>3, AssistantInvariance, PTL DEF Spec
<1> QED  BY <1>4 DEF FinishRevokes
=============================================================================
