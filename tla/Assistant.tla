------------------------------ MODULE Assistant ------------------------------
(***************************************************************************)
(* The assistant runtime of the server (app/assistant_runtime.go): the     *)
(* turns of one conversation in one mode, and the Hermes gateway they run  *)
(* in.  Requests that submit, stop and answer, the consumer of the gateway *)
(* events and a reconcile goroutine after each reconnect all work on the   *)
(* same maps.  A step is what a goroutine does between two points at which *)
(* others can run: a section under the mutex, an unlocked write, a call of *)
(* the gateway or of the database.                                         *)
(*                                                                         *)
(* A turn is open from its reservation until finishTurn.  Two of the maps  *)
(* of the runtime decide what a turn may do: activeByRuntime routes the    *)
(* events of Hermes to it, activeByStored grants it the Viki tools.        *)
(***************************************************************************)
EXTENDS Naturals, Sequences

CONSTANTS
  MaxTurns,        \* bound: messages submitted to the conversation
  MaxSessions,     \* bound: sessions Hermes creates for it
  MaxConnections,  \* bound: connections to the gateway
  MaxRotations,    \* bound: compressions of a session
  MaxRequests,     \* bound: clarifications and forbidden requests of Hermes
  MaxEvents,       \* bound: the capacity of the event channel
  UserStops        \* whether users stop turns

ASSUME AssistantAssumption ==
  /\ MaxTurns \in Nat /\ MaxSessions \in Nat /\ MaxConnections \in Nat \ {0}
  /\ MaxRotations \in Nat /\ MaxRequests \in Nat /\ MaxEvents \in Nat
  /\ UserStops \in BOOLEAN

Turns == 1 .. MaxTurns
Connections == 1 .. MaxConnections
NoTurn == 0
NoRequest == 0

\* A session is attached to a connection under a runtime id, and kept under a
\* stored id that changes when Hermes compresses it.
NoId == <<0, 0>>
RuntimeIds == (1 .. MaxSessions) \X Connections
StoredIds == (1 .. MaxSessions) \X (0 .. MaxRotations)
SessionOf(id) == id[1]
NoSession == [runtime |-> NoId, stored |-> NoId]

VARIABLES
  \* the request that submits a turn, its session variable, and the turn
  pc, session, RuntimeID, StoredID, Finalized,
  \* the maps of assistantRuntime
  activeByConversation, activeByRuntime, activeByStored, recentByRuntime,
  runtimeSession, conversationState, clarification,
  \* assistant_conversations.qa_session_id or edit_session_id
  assistantSession,
  \* the other goroutines
  consumer, stopper, responder, reconciler,
  \* Hermes: the connection, its sessions, the turn whose prompt a session
  \* runs, and the events that are in the channel
  connected, connection, sessions, rotations, attached, prompt, requests, events

turnVars == <<RuntimeID, StoredID, Finalized>>
maps == <<activeByConversation, activeByRuntime, activeByStored, recentByRuntime,
          conversationState, clarification>>
hermes == <<connected, connection, sessions, rotations, attached, prompt, requests, events>>
vars == <<pc, session, turnVars, maps, runtimeSession, assistantSession,
          consumer, stopper, responder, reconciler, hermes>>

IdleConsumer == [pc |-> "idle", turn |-> NoTurn, stored |-> NoId, request |-> NoRequest]
IdleStopper == [pc |-> "idle", turn |-> NoTurn]
IdleResponder == [pc |-> "idle", turn |-> NoTurn, request |-> NoRequest]
IdleReconciler == [pc |-> "idle", turn |-> NoTurn, session |-> NoSession]

(***************************************************************************)
(* Hermes, as hermes/gateway.go uses it.                                   *)
(***************************************************************************)
RuntimeIdOf(s) == <<s, connection>>
StoredIdOf(s) == <<s, rotations[s]>>

\* A runtime id is good for the connection it was given in.
Live(runtime) ==
  connected /\ runtime # NoId /\ runtime[2] = connection /\ attached[SessionOf(runtime)] = connection

\* What session.resume answers: the runtime id and the current stored id.
Resumed(stored) ==
  [runtime |-> RuntimeIdOf(SessionOf(stored)), stored |-> StoredIdOf(SessionOf(stored))]

Attach(s) == attached' = [attached EXCEPT ![s] = connection]

Event(type, s) ==
  [type |-> type, runtime |-> RuntimeIdOf(s), stored |-> NoId, request |-> NoRequest]

\* The prompt ends: message.complete with whatever status, or error.
HermesCompletes(s) ==
  /\ prompt[s] # NoTurn
  /\ prompt' = [prompt EXCEPT ![s] = NoTurn]
  /\ events' = IF Live(RuntimeIdOf(s)) THEN Append(events, Event("end", s)) ELSE events
  /\ UNCHANGED <<pc, session, turnVars, maps, runtimeSession, assistantSession, consumer, stopper,
                 responder, reconciler, connected, connection, sessions, rotations, attached, requests>>

\* Hermes asks for a clarification, or asks for what it is not allowed, or
\* uses a tool that the mode does not have.
HermesRequests(s) ==
  /\ prompt[s] # NoTurn /\ Live(RuntimeIdOf(s))
  /\ requests < MaxRequests /\ Len(events) < MaxEvents
  /\ requests' = requests + 1
  /\ \E type \in {"clarify", "forbidden"} :
       events' = Append(events, [Event(type, s) EXCEPT !.request = requests'])
  /\ UNCHANGED <<pc, session, turnVars, maps, runtimeSession, assistantSession, consumer, stopper,
                 responder, reconciler, connected, connection, sessions, rotations, attached, prompt>>

\* The session is compressed, also after the prompt has ended.
HermesRotates(s) ==
  /\ s <= sessions /\ rotations[s] < MaxRotations /\ Len(events) < MaxEvents
  /\ rotations' = [rotations EXCEPT ![s] = @ + 1]
  /\ events' = IF Live(RuntimeIdOf(s))
               THEN Append(events, [Event("info", s) EXCEPT !.stored = <<s, rotations[s] + 1>>])
               ELSE events
  /\ UNCHANGED <<pc, session, turnVars, maps, runtimeSession, assistantSession, consumer, stopper,
                 responder, reconciler, connected, connection, sessions, attached, prompt, requests>>

\* The connection is lost; sessions and their prompts go on without it.
Disconnect ==
  /\ connected /\ connection < MaxConnections
  /\ connected' = FALSE
  /\ UNCHANGED <<pc, session, turnVars, maps, runtimeSession, assistantSession, consumer, stopper,
                 responder, reconciler, connection, sessions, rotations, attached, prompt, requests, events>>

Connect ==
  /\ ~connected
  /\ connected' = TRUE
  /\ connection' = connection + 1
  /\ events' = Append(events, [type |-> "ready", runtime |-> <<0, connection'>>,
                               stored |-> NoId, request |-> NoRequest])
  /\ UNCHANGED <<pc, session, turnVars, maps, runtimeSession, assistantSession, consumer, stopper,
                 responder, reconciler, sessions, rotations, attached, prompt, requests>>

(***************************************************************************)
(* finishTurn, rotateStoredSession and the maps they keep.                 *)
(***************************************************************************)
\* Mutant: a turn can be finished again.
FinishedAgain(t) == FALSE

AlreadyFinished(t) == Finalized[t]

Remembered(t) == RuntimeID[t] # NoId

finishTurn(t, state) ==
  IF AlreadyFinished(t)
  THEN UNCHANGED <<Finalized, maps>>
  ELSE /\ Finalized' = [Finalized EXCEPT ![t] = TRUE]
       /\ activeByConversation' = IF activeByConversation = t THEN NoTurn ELSE activeByConversation
       /\ activeByRuntime' = [activeByRuntime EXCEPT ![RuntimeID[t]] = NoTurn]
       /\ activeByStored' = [activeByStored EXCEPT ![StoredID[t]] = NoTurn]
       /\ recentByRuntime' = IF Remembered(t)
                             THEN [recentByRuntime EXCEPT ![RuntimeID[t]] = t] ELSE recentByRuntime
       /\ clarification' = NoRequest
       /\ conversationState' = state

\* The timer that finishTurn starts.
ForgetRecent ==
  /\ \E runtime \in RuntimeIds :
       /\ recentByRuntime[runtime] # NoTurn
       /\ recentByRuntime' = [recentByRuntime EXCEPT ![runtime] = NoTurn]
  /\ UNCHANGED <<pc, session, turnVars, activeByConversation, activeByRuntime, activeByStored,
                 conversationState, clarification, runtimeSession, assistantSession, consumer,
                 stopper, responder, reconciler, hermes>>

\* Mutant: the rotated session of a finished turn is granted the tools.
GrantRotatedAlways(t) == TRUE

GrantRotated(t) == activeByConversation = t

\* Mutant: the stored id before the rotation keeps its grant.
KeepRotated(t) == activeByStored

Unrotated(t) == [activeByStored EXCEPT ![StoredID[t]] = NoTurn]

rotateStoredSession(t, stored) ==
  /\ activeByStored' = IF GrantRotated(t) THEN [Unrotated(t) EXCEPT ![stored] = t] ELSE Unrotated(t)
  /\ StoredID' = [StoredID EXCEPT ![t] = stored]
  /\ runtimeSession' = [runtime |-> RuntimeID[t], stored |-> stored]

(***************************************************************************)
(* submit: one request per turn.                                           *)
(***************************************************************************)
Goto(t, label) == pc' = [pc EXCEPT ![t] = label]
Return(t, label) == Goto(t, label) /\ session' = [session EXCEPT ![t] = NoSession]

\* The handler reads the conversation; session.stored is its session id.
LoadConversation(t) ==
  /\ pc[t] = "new"
  /\ \A u \in Turns : u < t => pc[u] # "new"
  /\ session' = [session EXCEPT ![t] = [runtime |-> NoId, stored |-> assistantSession]]
  /\ Goto(t, "loaded")
  /\ UNCHANGED <<turnVars, maps, runtimeSession, assistantSession, consumer, stopper, responder,
                 reconciler, hermes>>

\* Mutant: a conversation can have two turns at once.
FreeAlways == TRUE

Free == activeByConversation = NoTurn

Reserve(t) ==
  /\ pc[t] = "loaded"
  /\ IF Free
     THEN /\ activeByConversation' = t
          /\ conversationState' = "running"
          /\ clarification' = NoRequest
          /\ Goto(t, "ensure")
     ELSE /\ Goto(t, "rejected")
          /\ UNCHANGED <<activeByConversation, conversationState, clarification>>
  /\ UNCHANGED <<session, turnVars, activeByRuntime, activeByStored, recentByRuntime, runtimeSession,
                 assistantSession, consumer, stopper, responder, reconciler, hermes>>

\* ensureSession: the cached session, if it is the one of the conversation.
ensureSession(t) ==
  LET stored == session[t].stored IN
  /\ pc[t] = "ensure"
  /\ IF stored # NoId /\ runtimeSession.stored = stored
     THEN session' = [session EXCEPT ![t] = runtimeSession] /\ Goto(t, "bind")
     ELSE Goto(t, IF stored = NoId THEN "create" ELSE "resume") /\ UNCHANGED session
  /\ UNCHANGED <<turnVars, maps, runtimeSession, assistantSession, consumer, stopper, responder,
                 reconciler, hermes>>

CreateSession(t) ==
  /\ pc[t] = "create"
  /\ connected /\ sessions < MaxSessions
  /\ sessions' = sessions + 1
  /\ Attach(sessions')
  /\ session' = [session EXCEPT ![t] = [runtime |-> RuntimeIdOf(sessions'), stored |-> StoredIdOf(sessions')]]
  /\ Goto(t, "save")
  /\ UNCHANGED <<turnVars, maps, runtimeSession, assistantSession, consumer, stopper, responder,
                 reconciler, connected, connection, rotations, prompt, requests, events>>

\* Hermes has the session, under this or another stored id, or has lost it.
ResumeSession(t) ==
  LET stored == session[t].stored IN
  /\ pc[t] = "resume" /\ connected
  /\ \/ /\ Attach(SessionOf(stored))
        /\ session' = [session EXCEPT ![t] = Resumed(stored)]
        /\ Goto(t, IF Resumed(stored).stored = stored THEN "cache" ELSE "save")
     \/ Goto(t, "create") /\ UNCHANGED <<attached, session>>
  /\ UNCHANGED <<turnVars, maps, runtimeSession, assistantSession, consumer, stopper, responder,
                 reconciler, connected, connection, sessions, rotations, prompt, requests, events>>

SetAssistantSession(t) ==
  /\ pc[t] = "save"
  /\ assistantSession' = session[t].stored
  /\ Goto(t, "cache")
  /\ UNCHANGED <<session, turnVars, maps, runtimeSession, consumer, stopper, responder, reconciler, hermes>>

CacheSession(t) ==
  /\ pc[t] = "cache"
  /\ runtimeSession' = session[t]
  /\ Goto(t, "bind")
  /\ UNCHANGED <<session, turnVars, maps, assistantSession, consumer, stopper, responder, reconciler, hermes>>

\* The ids of the turn are written one after the other without the mutex...
Bind(t) ==
  /\ pc[t] = "bind"
  /\ RuntimeID' = [RuntimeID EXCEPT ![t] = session[t].runtime]
  /\ Goto(t, "bindStored")
  /\ UNCHANGED <<session, StoredID, Finalized, maps, runtimeSession, assistantSession, consumer,
                 stopper, responder, reconciler, hermes>>

BindStored(t) ==
  /\ pc[t] = "bindStored"
  /\ StoredID' = [StoredID EXCEPT ![t] = session[t].stored]
  /\ Goto(t, "register")
  /\ UNCHANGED <<session, RuntimeID, Finalized, maps, runtimeSession, assistantSession, consumer,
                 stopper, responder, reconciler, hermes>>

\* ... and then registered under it.
Register(t) ==
  /\ pc[t] = "register"
  /\ activeByRuntime' = [activeByRuntime EXCEPT ![session[t].runtime] = t]
  /\ activeByStored' = [activeByStored EXCEPT ![session[t].stored] = t]
  /\ Goto(t, "prompt")
  /\ UNCHANGED <<session, turnVars, activeByConversation, recentByRuntime, conversationState,
                 clarification, runtimeSession, assistantSession, consumer, stopper, responder,
                 reconciler, hermes>>

\* prompt.submit: a session runs one prompt at a time.
SubmitPrompt(t) ==
  LET s == SessionOf(session[t].runtime) IN
  /\ pc[t] = "prompt"
  /\ Live(session[t].runtime) /\ prompt[s] = NoTurn
  /\ prompt' = [prompt EXCEPT ![s] = t]
  /\ Goto(t, "submitted")
  /\ UNCHANGED <<session, turnVars, maps, runtimeSession, assistantSession, consumer, stopper,
                 responder, reconciler, connected, connection, sessions, rotations, attached, requests, events>>

\* Its answer arrives and the mode of the conversation is updated.
Accept(t) ==
  /\ pc[t] = "submitted"
  /\ Return(t, "accepted")
  /\ UNCHANGED <<turnVars, maps, runtimeSession, assistantSession, consumer, stopper,
                 responder, reconciler, hermes>>

\* The gateway or the database fails, or does not answer in time.  (The
\* interrupt of lines 211-213 has no effect but to let the prompt end.)
SubmitFails(t) ==
  /\ pc[t] \in {"create", "resume", "save", "prompt", "submitted"}
  /\ finishTurn(t, "error")
  /\ Return(t, "failed")
  /\ UNCHANGED <<RuntimeID, StoredID, runtimeSession, assistantSession, consumer, stopper,
                 responder, reconciler, hermes>>

(***************************************************************************)
(* stop and respondClarification.                                          *)
(***************************************************************************)
Stop ==
  /\ UserStops /\ stopper = IdleStopper
  /\ activeByConversation # NoTurn
  /\ stopper' = [pc |-> "interrupt", turn |-> activeByConversation]
  /\ UNCHANGED <<pc, session, turnVars, maps, runtimeSession, assistantSession, consumer, responder,
                 reconciler, hermes>>

\* The interrupt is sent to whatever runtime id the turn has now.
Interrupt ==
  /\ stopper.pc = "interrupt"
  /\ stopper' = IF Live(RuntimeID[stopper.turn]) THEN [stopper EXCEPT !.pc = "finish"] ELSE IdleStopper
  /\ UNCHANGED <<pc, session, turnVars, maps, runtimeSession, assistantSession, consumer, responder,
                 reconciler, hermes>>

FinishStopped ==
  /\ stopper.pc = "finish"
  /\ finishTurn(stopper.turn, "stopped")
  /\ stopper' = IdleStopper
  /\ UNCHANGED <<pc, session, RuntimeID, StoredID, runtimeSession, assistantSession, consumer,
                 responder, reconciler, hermes>>

respondClarification ==
  /\ responder = IdleResponder
  /\ activeByConversation # NoTurn /\ clarification # NoRequest
  /\ responder' = [pc |-> "respond", turn |-> activeByConversation, request |-> clarification]
  /\ UNCHANGED <<pc, session, turnVars, maps, runtimeSession, assistantSession, consumer, stopper,
                 reconciler, hermes>>

RespondToHermes ==
  /\ responder.pc = "respond"
  /\ responder' = IF Live(RuntimeID[responder.turn]) THEN [responder EXCEPT !.pc = "resume"] ELSE IdleResponder
  /\ UNCHANGED <<pc, session, turnVars, maps, runtimeSession, assistantSession, consumer, stopper,
                 reconciler, hermes>>

ResumeRunning ==
  /\ responder.pc = "resume"
  /\ clarification' = NoRequest
  /\ conversationState' = "running"
  /\ responder' = IdleResponder
  /\ UNCHANGED <<pc, session, turnVars, activeByConversation, activeByRuntime, activeByStored,
                 recentByRuntime, runtimeSession, assistantSession, consumer, stopper, reconciler, hermes>>

(***************************************************************************)
(* consume and handleGatewayEvent.  The turn of an event is looked up      *)
(* under the mutex and the event handled without it.                       *)
(***************************************************************************)
Routed(event) ==
  IF activeByRuntime[event.runtime] # NoTurn THEN activeByRuntime[event.runtime]
  ELSE IF event.type = "info" THEN recentByRuntime[event.runtime] ELSE NoTurn

Receive ==
  LET event == Head(events) IN
  /\ consumer = IdleConsumer /\ events # <<>>
  /\ events' = Tail(events)
  /\ IF event.type = "ready"
     THEN /\ reconciler' = [reconciler EXCEPT ![event.runtime[2]].pc = "snapshot"]
          /\ UNCHANGED consumer
     ELSE /\ consumer' = IF Routed(event) = NoTurn THEN IdleConsumer
                         ELSE [pc |-> event.type, turn |-> Routed(event),
                               stored |-> event.stored, request |-> event.request]
          /\ UNCHANGED reconciler
  /\ UNCHANGED <<pc, session, turnVars, maps, runtimeSession, assistantSession, stopper, responder,
                 connected, connection, sessions, rotations, attached, prompt, requests>>

\* message.complete and error, and failClosed of what is forbidden.
HandleEnd ==
  /\ consumer.pc \in {"end", "forbidden"}
  /\ \E state \in (IF consumer.pc = "end" THEN {"idle", "stopped", "error"} ELSE {"error"}) :
       finishTurn(consumer.turn, state)
  /\ consumer' = IdleConsumer
  /\ UNCHANGED <<pc, session, RuntimeID, StoredID, runtimeSession, assistantSession, stopper,
                 responder, reconciler, hermes>>

HandleClarify ==
  /\ consumer.pc = "clarify"
  /\ clarification' = consumer.request
  /\ conversationState' = "awaiting_clarification"
  /\ consumer' = IdleConsumer
  /\ UNCHANGED <<pc, session, turnVars, activeByConversation, activeByRuntime, activeByStored,
                 recentByRuntime, runtimeSession, assistantSession, stopper, responder, reconciler, hermes>>

\* session.info: nothing to do, or the stored id is saved first.
HandleInfo ==
  /\ consumer.pc = "info"
  /\ \/ /\ consumer.stored # StoredID[consumer.turn]
        /\ assistantSession' = consumer.stored
        /\ consumer' = [consumer EXCEPT !.pc = "rotate"]
     \/ consumer' = IdleConsumer /\ UNCHANGED assistantSession
  /\ UNCHANGED <<pc, session, turnVars, maps, runtimeSession, stopper, responder, reconciler, hermes>>

RotateStoredSession ==
  /\ consumer.pc = "rotate"
  /\ rotateStoredSession(consumer.turn, consumer.stored)
  /\ consumer' = IdleConsumer
  /\ UNCHANGED <<pc, session, RuntimeID, Finalized, activeByConversation, activeByRuntime,
                 recentByRuntime, conversationState, clarification, assistantSession, stopper,
                 responder, reconciler, hermes>>

(***************************************************************************)
(* reconcileProfile: a goroutine for each connection.                      *)
(***************************************************************************)
ReconcileStep(c, label) == reconciler' = [reconciler EXCEPT ![c].pc = label]
Reconciled(c) == reconciler' = [reconciler EXCEPT ![c] = IdleReconciler]

ForgetSessions(c) ==
  /\ reconciler[c].pc = "snapshot"
  /\ runtimeSession' = NoSession
  /\ reconciler' = IF activeByConversation = NoTurn THEN [reconciler EXCEPT ![c] = IdleReconciler]
                   ELSE [reconciler EXCEPT ![c].pc = "resume", ![c].turn = activeByConversation]
  /\ UNCHANGED <<pc, session, turnVars, maps, assistantSession, consumer, stopper, responder, hermes>>

\* A turn without a stored id cannot be resumed.
ReconcileResume(c) ==
  LET stored == StoredID[reconciler[c].turn] IN
  /\ reconciler[c].pc = "resume" /\ connected /\ stored # NoId
  /\ Attach(SessionOf(stored))
  /\ reconciler' = [reconciler EXCEPT ![c].pc = "attach", ![c].session = Resumed(stored)]
  /\ UNCHANGED <<pc, session, turnVars, maps, runtimeSession, assistantSession, consumer, stopper,
                 responder, connected, connection, sessions, rotations, prompt, requests, events>>

ReconcileAttach(c) ==
  LET t == reconciler[c].turn
      new == reconciler[c].session IN
  /\ reconciler[c].pc = "attach"
  /\ RuntimeID' = [RuntimeID EXCEPT ![t] = new.runtime]
  /\ activeByRuntime' = [activeByRuntime EXCEPT ![RuntimeID[t]] = NoTurn, ![new.runtime] = t]
  /\ runtimeSession' = new
  /\ ReconcileStep(c, IF new.stored = StoredID[t] THEN "status" ELSE "save")
  /\ UNCHANGED <<pc, session, StoredID, Finalized, activeByConversation, activeByStored,
                 recentByRuntime, conversationState, clarification, assistantSession, consumer,
                 stopper, responder, hermes>>

ReconcileSave(c) ==
  /\ reconciler[c].pc = "save"
  /\ \/ assistantSession' = reconciler[c].session.stored /\ ReconcileStep(c, "rotate")
     \/ UNCHANGED assistantSession /\ ReconcileStep(c, "status")
  /\ UNCHANGED <<pc, session, turnVars, maps, runtimeSession, consumer, stopper, responder, hermes>>

ReconcileRotate(c) ==
  /\ reconciler[c].pc = "rotate"
  /\ rotateStoredSession(reconciler[c].turn, reconciler[c].session.stored)
  /\ ReconcileStep(c, "status")
  /\ UNCHANGED <<pc, session, RuntimeID, Finalized, activeByConversation, activeByRuntime,
                 recentByRuntime, conversationState, clarification, assistantSession, consumer,
                 stopper, responder, hermes>>

\* Mutant: a turn whose prompt has ended meanwhile is left to its events.
NeverEnded(c) == FALSE

Ended(c) == prompt[SessionOf(reconciler[c].session.runtime)] = NoTurn

ReconcileStatus(c) ==
  /\ reconciler[c].pc = "status" /\ Live(reconciler[c].session.runtime)
  /\ IF Ended(c) THEN ReconcileStep(c, "finish") ELSE Reconciled(c)
  /\ UNCHANGED <<pc, session, turnVars, maps, runtimeSession, assistantSession, consumer, stopper,
                 responder, hermes>>

FinishReconciled(c) ==
  /\ reconciler[c].pc = "finish"
  /\ finishTurn(reconciler[c].turn, "idle")
  /\ Reconciled(c)
  /\ UNCHANGED <<pc, session, RuntimeID, StoredID, runtimeSession, assistantSession, consumer,
                 stopper, responder, hermes>>

ReconcileFails(c) ==
  /\ reconciler[c].pc \in {"resume", "status"}
  /\ finishTurn(reconciler[c].turn, "error")
  /\ Reconciled(c)
  /\ UNCHANGED <<pc, session, RuntimeID, StoredID, runtimeSession, assistantSession, consumer,
                 stopper, responder, hermes>>

(***************************************************************************)
(* The runtime starts connected and reconciled, with nothing submitted.    *)
(***************************************************************************)
Init ==
  /\ pc = [t \in Turns |-> "new"]
  /\ session = [t \in Turns |-> NoSession]
  /\ RuntimeID = [t \in Turns |-> NoId]
  /\ StoredID = [t \in Turns |-> NoId]
  /\ Finalized = [t \in Turns |-> FALSE]
  /\ activeByConversation = NoTurn
  /\ activeByRuntime = [id \in RuntimeIds \cup {NoId} |-> NoTurn]
  /\ activeByStored = [id \in StoredIds \cup {NoId} |-> NoTurn]
  /\ recentByRuntime = [id \in RuntimeIds \cup {NoId} |-> NoTurn]
  /\ runtimeSession = NoSession
  /\ conversationState = "idle"
  /\ clarification = NoRequest
  /\ assistantSession = NoId
  /\ consumer = IdleConsumer
  /\ stopper = IdleStopper
  /\ responder = IdleResponder
  /\ reconciler = [c \in Connections |-> IdleReconciler]
  /\ connected = TRUE
  /\ connection = 1
  /\ sessions = 0
  /\ rotations = [s \in 1 .. MaxSessions |-> 0]
  /\ attached = [s \in 1 .. MaxSessions |-> 0]
  /\ prompt = [s \in 1 .. MaxSessions |-> NoTurn]
  /\ requests = 0
  /\ events = <<>>

Submit(t) ==
  \/ Reserve(t) \/ ensureSession(t) \/ CreateSession(t) \/ ResumeSession(t)
  \/ SetAssistantSession(t) \/ CacheSession(t) \/ Bind(t) \/ BindStored(t) \/ Register(t)
  \/ SubmitPrompt(t) \/ Accept(t) \/ SubmitFails(t)

StopStep == Interrupt \/ FinishStopped

RespondStep == RespondToHermes \/ ResumeRunning

Consume == Receive \/ HandleEnd \/ HandleClarify \/ HandleInfo \/ RotateStoredSession

Reconcile(c) ==
  \/ ForgetSessions(c) \/ ReconcileResume(c) \/ ReconcileAttach(c) \/ ReconcileSave(c)
  \/ ReconcileRotate(c) \/ ReconcileStatus(c) \/ FinishReconciled(c) \/ ReconcileFails(c)

Next ==
  \/ \E t \in Turns : LoadConversation(t) \/ Submit(t)
  \/ Stop \/ StopStep
  \/ respondClarification \/ RespondStep
  \/ Consume
  \/ \E c \in Connections : Reconcile(c)
  \/ ForgetRecent
  \/ \E s \in 1 .. MaxSessions : HermesCompletes(s) \/ HermesRequests(s) \/ HermesRotates(s)
  \/ Disconnect \/ Connect

Spec == Init /\ [][Next]_vars

\* Goroutines that can run do, calls return, prompts end and the gateway is
\* connected again.  Users need not do anything.
FairSpec ==
  /\ Spec
  /\ \A t \in Turns : WF_vars(Submit(t))
  /\ WF_vars(StopStep) /\ WF_vars(RespondStep) /\ WF_vars(Consume)
  /\ \A c \in Connections : WF_vars(Reconcile(c))
  /\ \A s \in 1 .. MaxSessions : WF_vars(HermesCompletes(s))
  /\ WF_vars(Connect)

-----------------------------------------------------------------------------
Busy == {"running", "awaiting_clarification"}
Labels == {"new", "loaded", "rejected", "ensure", "create", "resume", "save", "cache", "bind",
           "bindStored", "register", "prompt", "submitted", "accepted", "failed"}
AnyTurn == Turns \cup {NoTurn}
AnyRuntimeId == RuntimeIds \cup {NoId}
AnyStoredId == StoredIds \cup {NoId}
AnySession == [runtime : AnyRuntimeId, stored : AnyStoredId]
AnyRequest == 0 .. MaxRequests
AnyEvent ==
  [type : {"end", "clarify", "forbidden", "info"}, runtime : RuntimeIds, stored : AnyStoredId,
   request : AnyRequest]
  \cup [type : {"ready"}, runtime : {0} \X Connections, stored : {NoId}, request : {NoRequest}]

TurnTypes ==
  /\ pc \in [Turns -> Labels]
  /\ session \in [Turns -> AnySession]
  /\ RuntimeID \in [Turns -> AnyRuntimeId]
  /\ StoredID \in [Turns -> AnyStoredId]
  /\ Finalized \in [Turns -> BOOLEAN]

MapTypes ==
  /\ activeByConversation \in AnyTurn
  /\ activeByRuntime \in [AnyRuntimeId -> AnyTurn]
  /\ activeByStored \in [AnyStoredId -> AnyTurn]
  /\ recentByRuntime \in [AnyRuntimeId -> AnyTurn]
  /\ recentByRuntime[NoId] = NoTurn
  /\ runtimeSession \in AnySession
  /\ conversationState \in Busy \cup {"idle", "stopped", "error"}
  /\ clarification \in AnyRequest
  /\ assistantSession \in AnyStoredId

RoutineTypes ==
  /\ consumer \in [pc : {"idle", "end", "forbidden", "clarify", "info", "rotate"}, turn : AnyTurn,
                   stored : AnyStoredId, request : AnyRequest]
  /\ stopper \in [pc : {"idle", "interrupt", "finish"}, turn : AnyTurn]
  /\ responder \in [pc : {"idle", "respond", "resume"}, turn : AnyTurn, request : AnyRequest]
  /\ reconciler \in [Connections ->
                      [pc : {"idle", "snapshot", "resume", "attach", "save", "rotate", "status", "finish"},
                       turn : AnyTurn, session : AnySession]]

HermesTypes ==
  /\ connected \in BOOLEAN /\ connection \in Connections
  /\ sessions \in 0 .. MaxSessions
  /\ rotations \in [1 .. MaxSessions -> 0 .. MaxRotations]
  /\ attached \in [1 .. MaxSessions -> 0 .. MaxConnections]
  /\ prompt \in [1 .. MaxSessions -> AnyTurn]
  /\ requests \in AnyRequest
  /\ events \in Seq(AnyEvent)

\* Types; only turns that had a session are kept in recentByRuntime.
TypeOK == TurnTypes /\ MapTypes /\ RoutineTypes /\ HermesTypes

Open(t) == pc[t] \notin {"new", "loaded", "rejected"} /\ ~Finalized[t]

\* A conversation has one open turn at most, the one in activeByConversation,
\* however requests, events, stops and reconnects overlap (lines 168-176 and
\* 487-512): nothing finished is left there to block the conversation.
OneOpenTurn ==
  /\ \A t \in Turns : Open(t) => activeByConversation = t
  /\ activeByConversation # NoTurn => Open(activeByConversation)

\* While a turn is open the conversation is shown as busy: what ends an earlier
\* turn late does not touch the state of the next one.
OpenTurnIsBusy == activeByConversation # NoTurn => conversationState \in Busy

Granted(t) == \E stored \in StoredIds : activeByStored[stored] = t

\* A finished turn is never given the tools again by a rotation or a reconnect
\* (lines 514-580); only its own submit may still register it.
RevokedForGood ==
  [][\A t \in Turns : Finalized[t] /\ ~Granted(t) /\ pc[t] # "register" => ~Granted(t)']_vars

\* Until the gateway has reconnected, finishing a turn takes all its grants away,
\* under whatever stored id its session has by then.
FinishRevokes ==
  [][\A t \in Turns : Open(t) /\ Finalized'[t] /\ connection = 1 => ~Granted(t)']_vars

\* handleHermesTool: the grant, and the binding of the conversation.
Authorized(stored) ==
  LET t == activeByStored[stored] IN
  t # NoTurn /\ assistantSession = stored /\ StoredID[t] = stored

\* A turn that has ended, by a reconnect that failed or otherwise, has no tools:
\* assistant_runtime_test.go:421, "failed reconnect left the turn grant active".
FinishedHasNoTools ==
  \A stored \in StoredIds : Authorized(stored) => ~Finalized[activeByStored[stored]]

\* Every turn ends, though users do nothing, submits fail half way and prompts
\* end while the connection is lost.
EveryTurnEnds == \A t \in Turns : Open(t) ~> ~Open(t)

\* The events of an open turn are routed to one that is finished.
EventsTaken ==
  \E t, u \in Turns : /\ Open(t) /\ pc[t] \in {"prompt", "submitted", "accepted"}
                      /\ Finalized[u] /\ activeByRuntime[RuntimeID[t]] = u

\* Only that can keep a turn from its end: whatever else is lost or fails, the
\* events, the submit or the reconcile of lines 531-580 finishes it.
TurnEndsUnlessTaken == <>EventsTaken \/ EveryTurnEnds
=============================================================================
