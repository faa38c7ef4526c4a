---------------------------- MODULE Conversation ----------------------------
(***************************************************************************)
(* One conversation with its two modes: a Hermes session for questions and *)
(* one for edits.  A turn in the mode that was not the last takes over     *)
(* what was said in the other since the last time (buildHandoff); the      *)
(* cursors that say where that was are in the row of the conversation.     *)
(* Drafts are made by tool calls under the turn that is active, and are    *)
(* shown from the histories of Hermes and from the audit trail.            *)
(*                                                                         *)
(* Connections, rotations and grants of one mode are in Assistant.tla.     *)
(***************************************************************************)
EXTENDS ConversationHistory, FiniteSets

CONSTANTS
  MaxTurns,      \* bound: the messages a user submits
  MaxSessions,   \* bound: the sessions Hermes creates
  MaxDrafts      \* bound: the drafts its tool calls make

Turns == 1 .. MaxTurns
Sessions == 1 .. MaxSessions
Modes == {"qa", "edit"}
Nothing == 0            \* no turn, or no session

ASSUME ConversationAssumption ==
  MaxTurns \in Nat /\ MaxSessions \in Nat /\ MaxDrafts \in Nat

VARIABLES
  row,       \* assistant_conversations: session ids, cursors, last_mode
  active,    \* activeByConversation
  turn,      \* submit of each turn, and what it has read
  viewer,    \* a request that loads the histories
  audit,     \* the drafts recorded: the turn, and (history) the prompt behind it
  made,      \* external: the sessions Hermes has created
  gone,      \* external: those Hermes does not know any more
  history,   \* external: the messages of each session
  running,   \* external: the turns whose prompt Hermes works on
  handed,    \* history: the messages <<session, place>> handed over so far
  counted    \* history: the session each cursor counts the messages of; Nothing
             \* when it was carried over from a session that was replaced

hermesVars == <<made, gone, history, running>>
ghostVars == <<handed, counted>>
vars == <<row, active, turn, viewer, audit, hermesVars, ghostVars>>

EmptyRow == [session |-> [m \in Modes |-> Nothing], cursor |-> [m \in Modes |-> 0],
             lastMode |-> "qa"]

NoTurn == [pc |-> "new", mode |-> "qa", read |-> EmptyRow, session |-> Nothing,
           source |-> Nothing, parts |-> {}, length |-> 0, counts |-> Nothing]

NoViewer == [pc |-> "idle", mode |-> "qa", session |-> Nothing]

Goto(t, pc) == turn' = [turn EXCEPT ![t].pc = pc]

\* finishTurn, and the end of submit: what the turn has read is of no more use.
Finished(t) == IF active = t THEN Nothing ELSE active
Over(t) == [NoTurn EXCEPT !.pc = "over", !.mode = turn[t].mode, !.session = turn[t].session]

Fail(t) ==
  /\ active' = Finished(t)
  /\ turn' = [turn EXCEPT ![t] = Over(t)]

(***************************************************************************)
(* submit                                                                  *)
(***************************************************************************)
AssistantConversation(t, m) ==
  /\ turn[t].pc = "new"
  /\ \A u \in 1 .. t - 1 : turn[u].pc # "new"
  /\ turn' = [turn EXCEPT ![t] = [@ EXCEPT !.pc = "reserve", !.mode = m, !.read = row,
                                           !.counts = counted[row.lastMode]]]
  /\ UNCHANGED <<row, active, viewer, audit, hermesVars, ghostVars>>

Reserve(t) ==
  /\ turn[t].pc = "reserve"
  /\ IF active = Nothing
     THEN active' = t /\ Goto(t, "ensure")
     ELSE UNCHANGED active /\ turn' = [turn EXCEPT ![t] = Over(t)]
  /\ UNCHANGED <<row, viewer, audit, hermesVars, ghostVars>>

Target(t) == IF turn[t].pc \in {"ensure", "set"} THEN turn[t].mode ELSE turn[t].read.lastMode

\* After the session of its mode a turn needs the one it takes over from.
Sourced(t, read) == read.lastMode # turn[t].mode /\ read.session[read.lastMode] # Nothing

WithSession(t, read, s) ==
  IF turn[t].pc \in {"ensure", "set"}
  THEN [turn[t] EXCEPT !.read = read, !.session = s,
                       !.pc = IF Sourced(t, read) THEN "ensureSource" ELSE "submit"]
  ELSE [turn[t] EXCEPT !.source = s, !.pc = "history"]

\* ensureSession: the session that is known or resumed (one that is gone, if it
\* is cached), or a new one if there is none or Hermes answers code 4007.
KeepSession(t) ==
  LET stored == turn[t].read.session[Target(t)] IN
  /\ turn[t].pc \in {"ensure", "ensureSource"}
  /\ stored # Nothing
  /\ turn' = [turn EXCEPT ![t] = WithSession(t, turn[t].read, stored)]
  /\ UNCHANGED <<row, active, viewer, audit, hermesVars, ghostVars>>

CreateSession(t) ==
  LET stored == turn[t].read.session[Target(t)] IN
  /\ turn[t].pc \in {"ensure", "ensureSource"}
  /\ stored = Nothing \/ stored \in gone
  /\ made < MaxSessions
  /\ made' = made + 1
  /\ turn' = [turn EXCEPT ![t].pc = IF @ = "ensure" THEN "set" ELSE "setSource",
                          ![t].source = made + 1]
  /\ UNCHANGED <<row, active, viewer, audit, gone, history, running, ghostVars>>

SetAssistantSession(t) ==
  LET s == turn[t].source
      read == [turn[t].read EXCEPT !.session[Target(t)] = s] IN
  /\ turn[t].pc \in {"set", "setSource"}
  /\ row' = [row EXCEPT !.session[Target(t)] = s]
  /\ turn' = [turn EXCEPT ![t] = [WithSession(t, read, s) EXCEPT
                !.source = IF turn[t].pc = "set" THEN Nothing ELSE s]]
  /\ UNCHANGED <<active, viewer, audit, hermesVars, ghostVars>>

Between(s, first, last) == {<<s, i>> : i \in first .. last}

Clamped(cursor, length) == IF cursor > length THEN 0 ELSE cursor

\* At most 20 messages and 4 KB of them are handed over: left out.
buildHandoff(t) ==
  LET s == turn[t].source
      length == Len(history[s])
      seen == Clamped(turn[t].read.cursor[turn[t].read.lastMode], length) IN
  /\ turn[t].pc = "history"
  /\ s \notin gone
  /\ turn' = [turn EXCEPT ![t] = [@ EXCEPT
       !.pc = "submit", !.length = length,
       !.parts = Between(s, seen + 1, length),
       !.counts = IF seen = 0 \/ turn[t].counts = s THEN s ELSE Nothing]]
  /\ UNCHANGED <<row, active, viewer, audit, hermesVars, ghostVars>>

\* Hermes takes the prompt, and its answer comes or is lost.
Submit(t) ==
  LET s == turn[t].session IN
  /\ turn[t].pc = "submit"
  /\ s \notin gone
  /\ \A u \in running : turn[u].session # s
  /\ running' = running \union {t}
  /\ history' = [history EXCEPT ![s] = Append(@, User(t))]
  /\ handed' = handed \union turn[t].parts
  /\ \/ UNCHANGED active
        /\ Goto(t, IF turn[t].source # Nothing THEN "cursor" ELSE "mode")
     \/ Fail(t)
  /\ UNCHANGED <<row, viewer, audit, made, gone, counted>>

\* Mutant: the messages there are when the cursor is written.
CoveredNow(t) == Len(history[turn[t].source])

Covered(t) == turn[t].length

UpdateAssistantHandoffCursor(t) ==
  LET m == turn[t].read.lastMode IN
  /\ turn[t].pc = "cursor"
  /\ \/ /\ row' = [row EXCEPT !.cursor[m] = Covered(t)]
        /\ counted' = [counted EXCEPT ![m] = turn[t].counts]
     \/ UNCHANGED <<row, counted>>       \* it failed, which is only logged
  /\ Goto(t, "mode")
  /\ UNCHANGED <<active, viewer, audit, hermesVars, handed>>

UpdateAssistantMode(t) ==
  /\ turn[t].pc = "mode"
  /\ row' = [row EXCEPT !.lastMode = turn[t].mode]
  /\ turn' = [turn EXCEPT ![t] = Over(t)]
  /\ UNCHANGED <<active, viewer, audit, hermesVars, ghostVars>>

\* A call of Hermes or the database fails.
SubmitFails(t) ==
  /\ turn[t].pc \in {"ensure", "set", "ensureSource", "setSource", "history", "submit", "mode"}
  /\ Fail(t)
  /\ UNCHANGED <<row, viewer, audit, hermesVars, ghostVars>>

Stop(t) ==
  /\ active = t
  /\ turn[t].session # Nothing
  /\ active' = Nothing
  /\ UNCHANGED <<row, turn, viewer, audit, hermesVars, ghostVars>>

(***************************************************************************)
(* loadAssistantHistory: whoever opens the conversation has the session of *)
(* a mode replaced too, when Hermes does not know it any more.             *)
(***************************************************************************)
ViewCreate(m) ==
  /\ viewer.pc = "idle"
  /\ row.session[m] \in gone
  /\ made < MaxSessions
  /\ made' = made + 1
  /\ viewer' = [pc |-> "set", mode |-> m, session |-> made + 1]
  /\ UNCHANGED <<row, active, turn, audit, gone, history, running, ghostVars>>

ViewSet ==
  /\ viewer.pc = "set"
  /\ row' = [row EXCEPT !.session[viewer.mode] = viewer.session]
  /\ viewer' = NoViewer
  /\ UNCHANGED <<active, turn, audit, hermesVars, ghostVars>>

ViewFails ==
  /\ viewer.pc = "set"
  /\ viewer' = NoViewer
  /\ UNCHANGED <<row, active, turn, audit, hermesVars, ghostVars>>

(***************************************************************************)
(* The tool bridge: a call of the prompt of turn t presents its session,   *)
(* and counts for the turn that holds the grant of it.                     *)
(***************************************************************************)
Registered(u) == turn[u].session # Nothing

\* activeGrant and assistantBindingMatches
Grant(u, t) ==
  /\ active = u /\ Registered(u)
  /\ turn[u].mode = "edit" /\ turn[u].session = turn[t].session
  /\ row.session["edit"] = turn[u].session

Draft == Cardinality(audit) + 1

\* The change set and its audit event commit; the answer may not reach Hermes,
\* whose call is a message of the assistant with or without a text.
ApplyDraftChanges(t, u) ==
  /\ t \in running /\ Grant(u, t)
  /\ Draft <= MaxDrafts
  /\ audit' = audit \union {[draft |-> Draft, turn |-> u, by |-> t]}
  /\ \E said \in {<<Assistant(TRUE)>>, <<Assistant(FALSE)>>}, result \in {<<>>, <<Tool({Draft})>>} :
       history' = [history EXCEPT ![turn[t].session] = @ \o said \o result]
  /\ UNCHANGED <<row, active, turn, viewer, made, gone, running, ghostVars>>

(***************************************************************************)
(* External: Hermes ends a prompt, stopped or not, and may lose a session. *)
(***************************************************************************)
Complete(t) ==
  /\ t \in running
  /\ running' = running \ {t}
  /\ \E said \in {<<>>, <<Assistant(FALSE)>>, <<Assistant(TRUE), Assistant(FALSE)>>} :
       history' = [history EXCEPT ![turn[t].session] = @ \o said]
  /\ active' = Finished(t)
  /\ UNCHANGED <<row, turn, viewer, audit, made, gone, ghostVars>>

Lose(s) ==
  /\ gone = {} /\ s <= made
  /\ gone' = {s}
  /\ running' = {t \in running : turn[t].session # s}
  /\ UNCHANGED <<row, active, turn, viewer, audit, made, history, ghostVars>>

Init ==
  /\ row \in {[EmptyRow EXCEPT !.lastMode = m] : m \in Modes}
  /\ active = Nothing
  /\ turn = [t \in Turns |-> NoTurn]
  /\ viewer = NoViewer
  /\ audit = {}
  /\ made = 0 /\ gone = {}
  /\ history = [s \in Sessions |-> <<>>]
  /\ running = {}
  /\ handed = {} /\ counted = [m \in Modes |-> Nothing]

\* The steps that publish an event to the browsers (EventStream.tla).
Published(t) ==
  UpdateAssistantMode(t) \/ Stop(t) \/ (active = t /\ Complete(t))

Unpublished ==
  \/ \E t \in Turns :
       \/ \E m \in Modes : AssistantConversation(t, m)
       \/ Reserve(t) \/ KeepSession(t) \/ CreateSession(t) \/ SetAssistantSession(t)
       \/ buildHandoff(t) \/ Submit(t) \/ UpdateAssistantHandoffCursor(t) \/ SubmitFails(t)
       \/ \E u \in Turns : ApplyDraftChanges(t, u)
       \/ active # t /\ Complete(t)
  \/ \E m \in Modes : ViewCreate(m)
  \/ ViewSet \/ ViewFails
  \/ \E s \in Sessions : Lose(s)

Next == Unpublished \/ \E t \in Turns : Published(t)

Spec == Init /\ [][Next]_vars

-----------------------------------------------------------------------------
Pcs == {"new", "reserve", "ensure", "set", "ensureSource", "setSource", "history", "submit",
        "cursor", "mode", "over"}
Rows == [session : [Modes -> 0 .. MaxSessions], cursor : [Modes -> Nat], lastMode : Modes]
Places == Sessions \X (Nat \ {0})
TurnRecords ==
  [pc : Pcs, mode : Modes, read : Rows, session : 0 .. MaxSessions, source : 0 .. MaxSessions,
   parts : SUBSET Places, length : Nat, counts : 0 .. MaxSessions]
Viewers == [pc : {"idle", "set"}, mode : Modes, session : 0 .. MaxSessions]
Messages ==
  [role : {"user", "assistant", "tool"}, turn : 0 .. MaxTurns, blank : BOOLEAN,
   drafts : SUBSET (1 .. MaxDrafts)]

TypeOK ==
  /\ row \in Rows
  /\ active \in 0 .. MaxTurns
  /\ turn \in [Turns -> TurnRecords]
  /\ viewer \in Viewers
  /\ audit \subseteq [draft : 1 .. MaxDrafts, turn : Turns, by : Turns]
  /\ made \in 0 .. MaxSessions /\ gone \subseteq Sessions /\ running \subseteq Turns
  /\ history \in [Sessions -> Seq(Messages)]
  /\ handed \subseteq Places /\ counted \in [Modes -> 0 .. MaxSessions]

\* A cursor never passes a message Hermes was not given as context of the other
\* mode, whichever call fails and whatever is written late: what is behind the
\* cursor was in a prompt that Hermes took.  Nothing is said of a cursor that a
\* session took over from the one it replaced, until it starts again at 0.
CursorCovers ==
  \A m \in Modes : counted[m] # Nothing =>
    \A i \in 1 .. row.cursor[m] : <<counted[m], i>> \in handed

Receipts == [u \in Turns |-> {a.draft : a \in {b \in audit : b.turn = u}}]

\* loadAssistantHistory; the order in which the messages are shown is left out.
Detail ==
  LET Loaded(m) == IF row.session[m] \in gone \union {Nothing} THEN <<>>
                     ELSE visibleHistory(history[row.session[m]]) IN
  attachDraftReceipts(Loaded("qa") \o Loaded("edit"), Receipts)

\* Every draft of a turn whose message the user sees is shown with that turn,
\* and in one message only, whether or not Hermes got the answer of the tool,
\* said something after it, or was stopped.  A draft made by a call that
\* outlived its turn is recorded under the next turn and is shown with both.
DraftsShown ==
  LET detail == Detail
      Carrying(d) == {i \in DOMAIN detail : d \in detail[i].drafts} IN
  \A a \in audit :
    (\E i \in DOMAIN detail : detail[i].role = "user" /\ detail[i].turn = a.turn) =>
      /\ \E i \in Carrying(a.draft) : detail[i].turn = a.turn
      /\ a.by = a.turn => Cardinality(Carrying(a.draft)) = 1
=============================================================================
