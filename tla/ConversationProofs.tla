------------------------- MODULE ConversationProofs -------------------------
(***************************************************************************)
(* Proofs about Conversation and its stream, for any number of turns,      *)
(* sessions and drafts: what is behind the cursor of a mode was handed     *)
(* over, and every draft is shown with its turn, once.  Last, about the    *)
(* hand-over itself (Handoff), for messages and limits of any size.        *)
(***************************************************************************)
EXTENDS StreamedConversation, StreamProofs, FiniteSetTheorems

(***************************************************************************)
(* What a turn has read of a cursor stays true, for messages that were     *)
(* handed over stay so; what it will write of one is what it has read,     *)
(* and the messages Hermes has taken with its prompt.                      *)
(***************************************************************************)
Reading == {"reserve", "ensure", "set", "ensureSource", "setSource", "history"}

Given(s, n) == s # Nothing => \A i \in 1 .. n : <<s, i>> \in handed

Prepared(t) ==
  LET r == turn[t] IN
  /\ r.pc \in {"new"} \union Reading => r.parts = {} /\ r.length = 0
  /\ r.pc \in Reading => Given(r.counts, r.read.cursor[r.read.lastMode])
  /\ r.pc = "submit" /\ r.counts # Nothing =>
       \A i \in 1 .. r.length : <<r.counts, i>> \in handed \union r.parts
  /\ r.pc = "cursor" => Given(r.counts, r.length)
  /\ r.pc \in {"set", "setSource", "history"} => r.source # Nothing

Inv ==
  /\ TypeOK /\ IsFiniteSet(audit)
  /\ \A t \in Turns : Prepared(t)
  /\ \A m \in Modes : Given(counted[m], row.cursor[m])

-----------------------------------------------------------------------------
(***************************************************************************)
(* Types.                                                                  *)
(***************************************************************************)
LEMMA Numbers ==
  /\ Nothing = 0 /\ Nothing \in 0 .. MaxSessions /\ 0 \in Nat
  /\ Sessions \subseteq 0 .. MaxSessions
  /\ \A s \in 0 .. MaxSessions : s # Nothing => s \in Sessions
  /\ \A t \in Turns : t \in 0 .. MaxTurns
BY ConversationAssumption DEF Nothing, Sessions, Turns

LEMMA RowTypes == EmptyRow \in Rows
BY Numbers DEF EmptyRow, Rows, Modes

LEMMA NoTurnType == NoTurn \in TurnRecords
BY Numbers, RowTypes DEF NoTurn, TurnRecords, Pcs, Modes

LEMMA MessageTypes ==
  /\ \A t \in Turns : User(t) \in Messages
  /\ \A blank \in BOOLEAN : Assistant(blank) \in Messages
  /\ \A d \in SUBSET (1 .. MaxDrafts) : Tool(d) \in Messages
<1>1. 0 \in 0 .. MaxTurns /\ {} \subseteq 1 .. MaxDrafts
  BY ConversationAssumption
<1>2. QED
  BY <1>1, Numbers DEF User, Assistant, Tool, Messages

LEMMA ShortSeqs ==
  ASSUME NEW S, NEW a \in S, NEW b \in S
  PROVE  <<a>> \in Seq(S) /\ <<a, b>> \in Seq(S)
OBVIOUS

LEMMA HistoryGrows ==
  ASSUME history \in [Sessions -> Seq(Messages)], NEW s, NEW said \in Seq(Messages)
  PROVE  /\ [history EXCEPT ![s] = @ \o said] \in [Sessions -> Seq(Messages)]
<1>1. CASE s \in Sessions
  <2>1. history[s] \o said \in Seq(Messages)
    BY <1>1, ConcatProperties
  <2>2. QED
    BY <1>1, <2>1
<1>2. CASE s \notin Sessions
  <2>1. [history EXCEPT ![s] = @ \o said] = history
    BY <1>2
  <2>2. QED
    BY <2>1
<1>3. QED
  BY <1>1, <1>2

LEMMA HistoryAppend ==
  ASSUME history \in [Sessions -> Seq(Messages)], NEW s, NEW m \in Messages
  PROVE  [history EXCEPT ![s] = Append(@, m)] \in [Sessions -> Seq(Messages)]
<1>1. CASE s \in Sessions
  <2>1. Append(history[s], m) \in Seq(Messages)
    BY <1>1, AppendProperties
  <2>2. QED
    BY <1>1, <2>1
<1>2. CASE s \notin Sessions
  <2>1. [history EXCEPT ![s] = Append(@, m)] = history
    BY <1>2
  <2>2. QED
    BY <2>1
<1>3. QED
  BY <1>1, <1>2

\* A step of turn t leaves the other turns alone.
LEMMA OneTurn ==
  ASSUME TypeOK, NEW t \in Turns, NEW r \in TurnRecords, turn' = [turn EXCEPT ![t] = r]
  PROVE  /\ turn' \in [Turns -> TurnRecords] /\ turn'[t] = r
         /\ \A u \in Turns \ {t} : turn'[u] = turn[u]
BY DEF TypeOK

LEMMA OverType ==
  ASSUME TypeOK, NEW t \in Turns
  PROVE  Over(t) \in TurnRecords /\ Over(t).pc = "over"
<1>1. turn[t] \in TurnRecords /\ NoTurn \in TurnRecords
  BY NoTurnType DEF TypeOK
<1>2. QED
  BY <1>1 DEF Over, TurnRecords, Pcs

LEMMA SessionType ==
  ASSUME TypeOK, NEW t \in Turns, NEW read \in Rows, NEW s \in Sessions,
         turn[t].pc \in {"ensure", "set", "ensureSource", "setSource"}
  PROVE  LET r == WithSession(t, read, s) IN
         /\ r \in TurnRecords /\ r.pc \in {"ensureSource", "submit", "history"}
         /\ r.counts = turn[t].counts /\ r.parts = turn[t].parts /\ r.length = turn[t].length
         /\ r.read = IF turn[t].pc \in {"ensure", "set"} THEN read ELSE turn[t].read
         /\ r.pc = "history" => r.source = s
<1>1. turn[t] \in TurnRecords /\ s \in 0 .. MaxSessions
  BY Numbers DEF TypeOK
<1>2. QED
  BY <1>1 DEF WithSession, TurnRecords, Pcs

(***************************************************************************)
(* The invariant when nothing of the cursors changes.                      *)
(***************************************************************************)
\* Only turn t has moved, and no cursor was written.
LEMMA TurnMoves ==
  ASSUME Inv, NEW t \in Turns, TypeOK', IsFiniteSet(audit)', Prepared(t)',
         \A u \in Turns \ {t} : turn'[u] = turn[u],
         handed \subseteq handed', counted' = counted, row'.cursor = row.cursor
  PROVE  Inv'
<1>1. \A u \in Turns \ {t} : Prepared(u)'
  BY DEF Inv, Prepared, Given
<1>2. \A m \in Modes : Given(counted[m], row.cursor[m])'
  BY DEF Inv, Given
<1>3. QED
  BY <1>1, <1>2 DEF Inv

LEMMA NoTurnMoves ==
  ASSUME Inv, TypeOK', IsFiniteSet(audit)', UNCHANGED <<turn, handed, counted>>,
         row'.cursor = row.cursor
  PROVE  Inv'
BY DEF Inv, Prepared, Given

(***************************************************************************)
(* submit                                                                  *)
(***************************************************************************)
LEMMA FailStep ==
  ASSUME Inv, NEW t \in Turns, Fail(t), handed \subseteq handed', handed' \subseteq Places,
         running' \subseteq Turns, history' \in [Sessions -> Seq(Messages)],
         UNCHANGED <<row, viewer, audit, made, gone, counted>>
  PROVE  Inv'
<1>1. TypeOK
  BY DEF Inv
<1>2. Over(t) \in TurnRecords /\ Over(t).pc = "over"
  BY <1>1, OverType
<1>3. /\ turn' \in [Turns -> TurnRecords] /\ turn'[t] = Over(t)
      /\ \A u \in Turns \ {t} : turn'[u] = turn[u]
  BY <1>1, <1>2, OneTurn DEF Fail
<1>4. active' \in 0 .. MaxTurns
  BY <1>1, ConversationAssumption DEF Fail, Finished, TypeOK, Nothing
<1>5. TypeOK'
  BY <1>1, <1>3, <1>4 DEF TypeOK
<1>6. Prepared(t)'
  BY <1>2, <1>3 DEF Prepared, Reading
<1>7. QED
  BY <1>3, <1>5, <1>6, TurnMoves DEF Inv

LEMMA BeginStep ==
  ASSUME Inv, NEW t \in Turns,
         Reserve(t) \/ \E m \in Modes : AssistantConversation(t, m)
  PROVE  Inv'
<1>1. TypeOK /\ turn[t] \in TurnRecords /\ Prepared(t)
  BY DEF Inv, TypeOK
<1>2. UNCHANGED <<row, viewer, audit, hermesVars, ghostVars>>
  BY DEF Reserve, AssistantConversation
<1>3. CASE \E m \in Modes : AssistantConversation(t, m)
  <2>1. PICK m \in Modes : AssistantConversation(t, m)
    BY <1>3
  <2> DEFINE r == [turn[t] EXCEPT !.pc = "reserve", !.mode = m, !.read = row,
                                  !.counts = counted[row.lastMode]]
  <2>2. turn' = [turn EXCEPT ![t] = r] /\ active' = active /\ turn[t].pc = "new"
    BY <2>1 DEF AssistantConversation
  <2>3. row.lastMode \in Modes /\ row \in Rows /\ counted[row.lastMode] \in 0 .. MaxSessions
    BY <1>1 DEF TypeOK, Rows
  <2>4. /\ r \in TurnRecords /\ r.pc = "reserve" /\ r.read = row
        /\ r.counts = counted[row.lastMode]
        /\ r.parts = turn[t].parts /\ r.length = turn[t].length
    BY <1>1, <2>3 DEF TurnRecords, Pcs
  <2> HIDE DEF r
  <2>5. /\ turn' \in [Turns -> TurnRecords] /\ turn'[t] = r
        /\ \A u \in Turns \ {t} : turn'[u] = turn[u]
    BY <1>1, <2>2, <2>4, OneTurn
  <2>6. TypeOK'
    BY <1>1, <1>2, <2>2, <2>5 DEF TypeOK, hermesVars, ghostVars
  <2>7. Given(counted[row.lastMode], row.cursor[row.lastMode])
    BY <2>3 DEF Inv
  <2>8. Prepared(t)'
    BY <1>1, <1>2, <2>2, <2>4, <2>5, <2>7 DEF Prepared, Given, Reading, ghostVars
  <2>9. QED
    BY <1>2, <2>5, <2>6, <2>8, TurnMoves DEF Inv, ghostVars
<1>4. CASE Reserve(t)
  <2> DEFINE r == [turn[t] EXCEPT !.pc = "ensure"]
  <2>1. CASE active = Nothing
    <3>1. turn' = [turn EXCEPT ![t] = r] /\ active' = t /\ turn[t].pc = "reserve"
      BY <1>4, <2>1 DEF Reserve, Goto
    <3>2. /\ r \in TurnRecords /\ r.pc = "ensure" /\ r.read = turn[t].read
          /\ r.counts = turn[t].counts /\ r.parts = turn[t].parts /\ r.length = turn[t].length
      BY <1>1 DEF TurnRecords, Pcs
    <3> HIDE DEF r
    <3>3. /\ turn' \in [Turns -> TurnRecords] /\ turn'[t] = r
          /\ \A u \in Turns \ {t} : turn'[u] = turn[u]
      BY <1>1, <3>1, <3>2, OneTurn
    <3>4. TypeOK'
      BY <1>1, <1>2, <3>1, <3>3, Numbers DEF TypeOK, hermesVars, ghostVars
    <3>5. Prepared(t)'
      BY <1>1, <1>2, <3>1, <3>2, <3>3 DEF Prepared, Given, Reading, ghostVars
    <3>6. QED
      BY <1>2, <3>3, <3>4, <3>5, TurnMoves DEF Inv, ghostVars
  <2>2. CASE active # Nothing
    <3>1. turn' = [turn EXCEPT ![t] = Over(t)] /\ active' = active
      BY <1>4, <2>2 DEF Reserve
    <3>2. Over(t) \in TurnRecords /\ Over(t).pc = "over"
      BY <1>1, OverType
    <3>3. /\ turn' \in [Turns -> TurnRecords] /\ turn'[t] = Over(t)
          /\ \A u \in Turns \ {t} : turn'[u] = turn[u]
      BY <1>1, <3>1, <3>2, OneTurn
    <3>4. TypeOK'
      BY <1>1, <1>2, <3>1, <3>3 DEF TypeOK, hermesVars, ghostVars
    <3>5. Prepared(t)'
      BY <3>2, <3>3 DEF Prepared, Reading
    <3>6. QED
      BY <1>2, <3>3, <3>4, <3>5, TurnMoves DEF Inv, ghostVars
  <2>3. QED
    BY <2>1, <2>2
<1>5. QED
  BY <1>3, <1>4

\* A turn goes on with a session, or makes one: its cursor stays as it was read.
LEMMA SessionStep ==
  ASSUME Inv, NEW t \in Turns, KeepSession(t) \/ CreateSession(t) \/ SetAssistantSession(t)
  PROVE  Inv'
<1>1. TypeOK /\ turn[t] \in TurnRecords /\ Prepared(t)
  BY DEF Inv, TypeOK
<1>2. UNCHANGED <<active, viewer, audit, gone, history, running, ghostVars>>
  BY DEF KeepSession, CreateSession, SetAssistantSession, hermesVars
<1>3. turn[t].read \in Rows /\ turn[t].mode \in Modes /\ turn[t].source \in 0 .. MaxSessions
      /\ Target(t) \in Modes
  BY <1>1 DEF TurnRecords, Target, Rows
<1>4. SUFFICES ASSUME NEW r \in TurnRecords, turn' = [turn EXCEPT ![t] = r],
                      row' \in Rows, row'.cursor = row.cursor, made' \in 0 .. MaxSessions,
                      r.pc \in Reading \union {"submit"}, turn[t].pc \in Reading,
                      r.pc \in {"set", "setSource", "history"} => r.source # Nothing,
                      r.counts = turn[t].counts, r.parts = turn[t].parts,
                      r.length = turn[t].length, r.read.cursor = turn[t].read.cursor,
                      r.read.lastMode = turn[t].read.lastMode
               PROVE  Inv'
  <2>1. CASE KeepSession(t)
    <3> DEFINE s == turn[t].read.session[Target(t)]
               r == WithSession(t, turn[t].read, s)
    <3>1. /\ turn[t].pc \in {"ensure", "ensureSource"} /\ s # Nothing
          /\ turn' = [turn EXCEPT ![t] = r] /\ UNCHANGED <<row, made>>
      BY <2>1 DEF KeepSession, hermesVars
    <3>2. s \in Sessions
      BY <1>3, <3>1, Numbers DEF Rows
    <3> HIDE DEF s
    <3>3. /\ r \in TurnRecords /\ r.pc \in {"ensureSource", "submit", "history"}
          /\ r.counts = turn[t].counts /\ r.parts = turn[t].parts /\ r.length = turn[t].length
          /\ r.read = turn[t].read
          /\ r.pc = "history" => r.source = s
      BY <1>1, <1>3, <3>1, <3>2, SessionType
    <3> HIDE DEF r
    <3>4. row \in Rows /\ made \in 0 .. MaxSessions
      BY <1>1 DEF TypeOK
    <3>5. QED
      BY <1>4, <3>1, <3>2, <3>3, <3>4, Numbers DEF Reading, s
  <2>2. CASE CreateSession(t)
    <3> DEFINE r == [turn[t] EXCEPT !.pc = IF @ = "ensure" THEN "set" ELSE "setSource",
                                    !.source = made + 1]
    <3>1. /\ turn[t].pc \in {"ensure", "ensureSource"} /\ made < MaxSessions /\ made' = made + 1
          /\ turn' = [turn EXCEPT ![t] = r] /\ UNCHANGED row
      BY <2>2 DEF CreateSession
    <3>2. made + 1 \in 0 .. MaxSessions /\ made + 1 # Nothing /\ row \in Rows
      BY <1>1, <3>1, ConversationAssumption DEF TypeOK, Nothing
    <3>3. /\ r \in TurnRecords /\ r.pc \in {"set", "setSource"} /\ r.source = made + 1
          /\ r.counts = turn[t].counts /\ r.parts = turn[t].parts /\ r.length = turn[t].length
          /\ r.read = turn[t].read
      BY <1>1, <3>2 DEF TurnRecords, Pcs
    <3> HIDE DEF r
    <3>4. QED
      BY <1>4, <3>1, <3>2, <3>3 DEF Reading
  <2>3. CASE SetAssistantSession(t)
    <3> DEFINE s == turn[t].source
               read == [turn[t].read EXCEPT !.session[Target(t)] = s]
               w == WithSession(t, read, s)
               r == [w EXCEPT !.source = IF turn[t].pc = "set" THEN Nothing ELSE s]
    <3>1. /\ turn[t].pc \in {"set", "setSource"}
          /\ turn' = [turn EXCEPT ![t] = r] /\ row' = [row EXCEPT !.session[Target(t)] = s]
          /\ made' = made
      BY <2>3 DEF SetAssistantSession, hermesVars
    <3>2. s \in Sessions /\ s # Nothing
      BY <1>1, <1>3, <3>1, Numbers DEF Prepared
    <3>3. /\ read \in Rows /\ read.cursor = turn[t].read.cursor
          /\ read.lastMode = turn[t].read.lastMode
      BY <1>3 DEF Rows
    <3>4. row' \in Rows /\ row'.cursor = row.cursor
      <4>1. row \in Rows
        BY <1>1 DEF TypeOK
      <4>2. QED
        BY <1>3, <3>1, <4>1 DEF Rows
    <3> HIDE DEF s, read
    <3>5. /\ w \in TurnRecords /\ w.pc \in {"ensureSource", "submit", "history"}
          /\ w.counts = turn[t].counts /\ w.parts = turn[t].parts /\ w.length = turn[t].length
          /\ w.read = IF turn[t].pc \in {"ensure", "set"} THEN read ELSE turn[t].read
      BY <1>1, <3>1, <3>2, <3>3, SessionType
    <3>6. w.pc = "history" => turn[t].pc = "setSource"
      <4>1. turn[t].pc = "set" => w.pc \in {"ensureSource", "submit"}
        BY <1>1, <3>1, <3>5 DEF WithSession, TurnRecords
      <4>2. QED
        BY <3>1, <4>1
    <3> HIDE DEF w
    <3>7. /\ r \in TurnRecords /\ r.pc = w.pc /\ r.counts = w.counts /\ r.parts = w.parts
          /\ r.length = w.length /\ r.read = w.read
          /\ r.source = IF turn[t].pc = "set" THEN Nothing ELSE s
      BY <1>3, <3>5, Numbers DEF TurnRecords, s
    <3> HIDE DEF r
    <3>8. made \in 0 .. MaxSessions
      BY <1>1 DEF TypeOK
    <3>9. r.pc = "history" => r.source # Nothing
      BY <3>1, <3>2, <3>6, <3>7
    <3>10. r.read.cursor = turn[t].read.cursor /\ r.read.lastMode = turn[t].read.lastMode
      BY <3>3, <3>5, <3>7
    <3>11. QED
      BY <1>4, <3>1, <3>4, <3>5, <3>7, <3>8, <3>9, <3>10 DEF Reading
  <2>4. QED
    BY <2>1, <2>2, <2>3
<1>5. /\ turn' \in [Turns -> TurnRecords] /\ turn'[t] = r
      /\ \A u \in Turns \ {t} : turn'[u] = turn[u]
  BY <1>1, <1>4, OneTurn
<1>6. TypeOK'
  BY <1>1, <1>2, <1>4, <1>5 DEF TypeOK, ghostVars
<1>7. Prepared(t)'
  <2>1. handed' = handed
    BY <1>2 DEF ghostVars
  <2>2. r.parts = {} /\ r.length = 0 /\ Given(r.counts, r.read.cursor[r.read.lastMode])
    BY <1>1, <1>4 DEF Prepared
  <2>3. \A i \in 1 .. r.length : FALSE
    BY <2>2
  <2>4. r.pc # "cursor" /\ r.pc # "new"
    BY <1>4 DEF Reading
  <2>5. QED
    BY <1>4, <1>5, <2>1, <2>2, <2>3, <2>4 DEF Prepared, Given
<1>8. QED
  BY <1>2, <1>4, <1>5, <1>6, <1>7, TurnMoves DEF Inv, ghostVars

LEMMA HandoffStep ==
  ASSUME Inv, NEW t \in Turns, buildHandoff(t)
  PROVE  Inv'
<1> DEFINE s == turn[t].source
           length == Len(history[s])
           cursor == turn[t].read.cursor[turn[t].read.lastMode]
           seen == Clamped(cursor, length)
           parts == Between(s, seen + 1, length)
           counts == IF seen = 0 \/ turn[t].counts = s THEN s ELSE Nothing
           r == [turn[t] EXCEPT !.pc = "submit", !.length = length, !.parts = parts,
                                !.counts = counts]
<1>1. TypeOK /\ turn[t] \in TurnRecords /\ Prepared(t)
  BY DEF Inv, TypeOK
<1>2. /\ turn[t].pc = "history" /\ turn' = [turn EXCEPT ![t] = r]
      /\ UNCHANGED <<row, active, viewer, audit, hermesVars, ghostVars>>
  BY DEF buildHandoff
<1>3. s \in Sessions /\ s \in 0 .. MaxSessions /\ s # Nothing
  BY <1>1, <1>2, Numbers DEF Prepared, TurnRecords
<1>4. Given(turn[t].counts, cursor)
  BY <1>1, <1>2 DEF Prepared, Reading
<1>5. length \in Nat
  <2>1. history[s] \in Seq(Messages)
    BY <1>1, <1>3 DEF TypeOK
  <2>2. QED
    BY <2>1, LenProperties
<1>6. cursor \in Nat
  BY <1>1 DEF TurnRecords, Rows
<1> HIDE DEF s, length, cursor
<1>7. seen \in Nat /\ (seen = 0 \/ seen = cursor)
  BY <1>5, <1>6 DEF Clamped
<1> HIDE DEF seen
<1>8. parts \subseteq Places
  BY <1>3, <1>5, <1>7 DEF Places, Between
<1>9. counts \in 0 .. MaxSessions
  BY <1>3, Numbers
<1>10. counts # Nothing => \A i \in 1 .. length : <<counts, i>> \in handed \union parts
  <2> SUFFICES ASSUME counts # Nothing, NEW i \in 1 .. length
               PROVE  <<counts, i>> \in handed \union parts
    OBVIOUS
  <2>1. counts = s
    OBVIOUS
  <2>2. CASE i > seen
    <3>1. i \in seen + 1 .. length
      BY <1>5, <1>7, <2>2
    <3>2. QED
      BY <2>1, <3>1 DEF Between
  <2>3. CASE ~(i > seen)
    <3>1. seen # 0 /\ i \in 1 .. seen
      BY <1>7, <2>3
    <3>2. turn[t].counts = s /\ seen = cursor
      BY <1>7, <2>1, <3>1, <1>3
    <3>3. QED
      BY <1>3, <1>4, <2>1, <3>1, <3>2 DEF Given
  <2>4. QED
    BY <2>2, <2>3
<1> HIDE DEF parts, counts
<1>11. /\ r \in TurnRecords /\ r.pc = "submit" /\ r.length = length /\ r.parts = parts
       /\ r.counts = counts
  BY <1>1, <1>5, <1>8, <1>9 DEF TurnRecords, Pcs
<1> HIDE DEF r
<1>12. /\ turn' \in [Turns -> TurnRecords] /\ turn'[t] = r
       /\ \A u \in Turns \ {t} : turn'[u] = turn[u]
  BY <1>1, <1>2, <1>11, OneTurn
<1>13. TypeOK'
  BY <1>1, <1>2, <1>12 DEF TypeOK, hermesVars, ghostVars
<1>14. Prepared(t)'
  BY <1>2, <1>10, <1>11, <1>12 DEF Prepared, Reading, ghostVars
<1>15. QED
  BY <1>2, <1>12, <1>13, <1>14, TurnMoves DEF Inv, ghostVars


LEMMA SubmitStep ==
  ASSUME Inv, NEW t \in Turns, Submit(t)
  PROVE  Inv'
<1> DEFINE s == turn[t].session
<1>1. TypeOK /\ turn[t] \in TurnRecords /\ Prepared(t)
  BY DEF Inv, TypeOK
<1>2. /\ turn[t].pc = "submit" /\ running' = running \union {t}
      /\ history' = [history EXCEPT ![s] = Append(@, User(t))]
      /\ handed' = handed \union turn[t].parts
      /\ UNCHANGED <<row, viewer, audit, made, gone, counted>>
  BY DEF Submit
<1>3. history' \in [Sessions -> Seq(Messages)]
  BY <1>1, <1>2, MessageTypes, HistoryAppend DEF TypeOK
<1>4. handed' \subseteq Places /\ running' \subseteq Turns
  BY <1>1, <1>2 DEF TypeOK, TurnRecords
<1>5. CASE Fail(t)
  BY <1>2, <1>3, <1>4, <1>5, FailStep
<1>6. CASE UNCHANGED active /\ Goto(t, IF turn[t].source # Nothing THEN "cursor" ELSE "mode")
  <2> DEFINE r == [turn[t] EXCEPT !.pc = IF turn[t].source # Nothing THEN "cursor" ELSE "mode"]
  <2>1. turn' = [turn EXCEPT ![t] = r] /\ active' = active
    BY <1>6 DEF Goto
  <2>2. /\ r \in TurnRecords /\ r.pc \in {"cursor", "mode"} /\ r.length = turn[t].length
        /\ r.counts = turn[t].counts
    BY <1>1 DEF TurnRecords, Pcs
  <2> HIDE DEF r
  <2>3. /\ turn' \in [Turns -> TurnRecords] /\ turn'[t] = r
        /\ \A u \in Turns \ {t} : turn'[u] = turn[u]
    BY <1>1, <2>1, <2>2, OneTurn
  <2>4. TypeOK'
    BY <1>1, <1>2, <1>3, <1>4, <2>1, <2>3 DEF TypeOK
  <2>5. r.counts # Nothing => \A i \in 1 .. r.length : <<r.counts, i>> \in handed'
    BY <1>1, <1>2, <2>2 DEF Prepared
  <2>6. Prepared(t)'
    BY <2>2, <2>3, <2>5 DEF Prepared, Given, Reading
  <2>7. QED
    BY <1>2, <2>3, <2>4, <2>6, TurnMoves DEF Inv
<1>7. QED
  BY <1>5, <1>6 DEF Submit

LEMMA CursorStep ==
  ASSUME Inv, NEW t \in Turns, UpdateAssistantHandoffCursor(t)
  PROVE  Inv'
<1> DEFINE m == turn[t].read.lastMode
           r == [turn[t] EXCEPT !.pc = "mode"]
<1>1. TypeOK /\ turn[t] \in TurnRecords /\ Prepared(t)
  BY DEF Inv, TypeOK
<1>2. /\ turn[t].pc = "cursor" /\ turn' = [turn EXCEPT ![t] = r]
      /\ UNCHANGED <<active, viewer, audit, hermesVars, handed>>
  BY DEF UpdateAssistantHandoffCursor, Goto
<1>3. m \in Modes /\ turn[t].length \in Nat /\ turn[t].counts \in 0 .. MaxSessions
  BY <1>1 DEF TurnRecords, Rows
<1>4. r \in TurnRecords /\ r.pc = "mode"
  BY <1>1 DEF TurnRecords, Pcs
<1> HIDE DEF r
<1>5. /\ turn' \in [Turns -> TurnRecords] /\ turn'[t] = r
      /\ \A u \in Turns \ {t} : turn'[u] = turn[u]
  BY <1>1, <1>2, <1>4, OneTurn
<1>6. Prepared(t)'
  BY <1>4, <1>5 DEF Prepared, Reading
<1>7. CASE UNCHANGED <<row, counted>>
  <2>1. TypeOK'
    BY <1>1, <1>2, <1>5, <1>7 DEF TypeOK, hermesVars
  <2>2. QED
    BY <1>2, <1>5, <1>6, <1>7, <2>1, TurnMoves DEF Inv
<1>8. CASE /\ row' = [row EXCEPT !.cursor[m] = Covered(t)]
           /\ counted' = [counted EXCEPT ![m] = turn[t].counts]
  <2>1. row \in Rows /\ counted \in [Modes -> 0 .. MaxSessions]
    BY <1>1 DEF TypeOK
  <2>2. /\ row' \in Rows /\ row'.cursor[m] = turn[t].length
        /\ \A n \in Modes \ {m} : row'.cursor[n] = row.cursor[n]
    BY <1>3, <1>8, <2>1 DEF Rows, Covered
  <2>3. /\ counted' \in [Modes -> 0 .. MaxSessions] /\ counted'[m] = turn[t].counts
        /\ \A n \in Modes \ {m} : counted'[n] = counted[n]
    BY <1>3, <1>8, <2>1
  <2>4. TypeOK'
    BY <1>1, <1>2, <1>5, <2>2, <2>3 DEF TypeOK, hermesVars
  <2>5. \A u \in Turns \ {t} : Prepared(u)'
    BY <1>2, <1>5 DEF Inv, Prepared, Given
  <2>6. Given(turn[t].counts, turn[t].length)
    BY <1>1, <1>2 DEF Prepared
  <2> HIDE DEF m
  <2>7. \A n \in Modes : Given(counted[n], row.cursor[n])'
    BY <1>2, <2>2, <2>3, <2>6 DEF Inv, Given
  <2>8. QED
    BY <1>2, <1>6, <2>4, <2>5, <2>7 DEF Inv
<1>9. QED
  BY <1>7, <1>8 DEF UpdateAssistantHandoffCursor

LEMMA ModeStep ==
  ASSUME Inv, NEW t \in Turns, UpdateAssistantMode(t)
  PROVE  Inv'
<1>1. TypeOK /\ turn[t] \in TurnRecords
  BY DEF Inv, TypeOK
<1>2. /\ turn' = [turn EXCEPT ![t] = Over(t)]
      /\ row' = [row EXCEPT !.lastMode = turn[t].mode]
      /\ UNCHANGED <<active, viewer, audit, hermesVars, ghostVars>>
  BY DEF UpdateAssistantMode
<1>3. Over(t) \in TurnRecords /\ Over(t).pc = "over"
  BY <1>1, OverType
<1>4. /\ turn' \in [Turns -> TurnRecords] /\ turn'[t] = Over(t)
      /\ \A u \in Turns \ {t} : turn'[u] = turn[u]
  BY <1>1, <1>2, <1>3, OneTurn
<1>5. row' \in Rows /\ row'.cursor = row.cursor
  <2>1. row \in Rows /\ turn[t].mode \in Modes
    BY <1>1 DEF TypeOK, TurnRecords
  <2>2. QED
    BY <1>2, <2>1 DEF Rows
<1>6. TypeOK'
  BY <1>1, <1>2, <1>4, <1>5 DEF TypeOK, hermesVars, ghostVars
<1>7. Prepared(t)'
  BY <1>3, <1>4 DEF Prepared, Reading
<1>8. QED
  BY <1>2, <1>4, <1>5, <1>6, <1>7, TurnMoves DEF Inv, ghostVars

LEMMA SubmitFailsStep ==
  ASSUME Inv, NEW t \in Turns, SubmitFails(t)
  PROVE  Inv'
<1>1. Fail(t) /\ UNCHANGED <<row, viewer, audit, made, gone, history, running, handed, counted>>
  BY DEF SubmitFails, hermesVars, ghostVars
<1>2. /\ history' \in [Sessions -> Seq(Messages)] /\ handed' \subseteq Places
      /\ running' \subseteq Turns
  BY <1>1 DEF Inv, TypeOK
<1>3. QED
  BY <1>1, <1>2, FailStep

-----------------------------------------------------------------------------
(***************************************************************************)
(* The steps of others: none of them writes a cursor.                      *)
(***************************************************************************)
LEMMA StopStep ==
  ASSUME Inv, NEW t \in Turns, Stop(t)
  PROVE  Inv'
<1>1. /\ UNCHANGED <<row, turn, viewer, audit, hermesVars, ghostVars>> /\ active' = Nothing
  BY DEF Stop
<1>2. TypeOK' /\ IsFiniteSet(audit)'
  BY <1>1, Numbers, ConversationAssumption DEF Inv, TypeOK, hermesVars, ghostVars
<1>3. QED
  BY <1>1, <1>2, NoTurnMoves DEF ghostVars

LEMMA ViewStep ==
  ASSUME Inv, ViewSet \/ ViewFails \/ \E m \in Modes : ViewCreate(m)
  PROVE  Inv'
<1>1. TypeOK /\ viewer \in Viewers /\ row \in Rows /\ IsFiniteSet(audit)
  BY DEF Inv, TypeOK
<1>2. UNCHANGED <<active, turn, audit, gone, history, running, ghostVars>>
  BY DEF ViewSet, ViewFails, ViewCreate, hermesVars
<1>3. viewer' \in Viewers /\ made' \in 0 .. MaxSessions
  <2>1. NoViewer \in Viewers
    BY Numbers DEF NoViewer, Viewers, Modes
  <2>2. CASE ViewSet \/ ViewFails
    BY <1>1, <2>1, <2>2 DEF ViewSet, ViewFails, hermesVars, TypeOK
  <2>3. ASSUME NEW m \in Modes, ViewCreate(m)
        PROVE  viewer' \in Viewers /\ made' \in 0 .. MaxSessions
    <3>1. made + 1 \in 0 .. MaxSessions
      BY <1>1, <2>3, ConversationAssumption DEF ViewCreate, TypeOK
    <3>2. QED
      BY <2>3, <3>1 DEF ViewCreate, Viewers
  <2>4. QED
    BY <2>2, <2>3
<1>4. row' \in Rows /\ row'.cursor = row.cursor
  <2>1. CASE ViewSet
    BY <1>1, <2>1 DEF ViewSet, Viewers, Rows
  <2>2. CASE ViewFails \/ \E m \in Modes : ViewCreate(m)
    BY <1>1, <2>2 DEF ViewFails, ViewCreate
  <2>3. QED
    BY <2>1, <2>2
<1>5. TypeOK' /\ IsFiniteSet(audit)'
  BY <1>1, <1>2, <1>3, <1>4 DEF TypeOK, ghostVars
<1>6. QED
  BY <1>2, <1>4, <1>5, NoTurnMoves DEF ghostVars

LEMMA DraftStep ==
  ASSUME Inv, NEW t \in Turns, NEW u \in Turns, ApplyDraftChanges(t, u)
  PROVE  Inv'
<1> DEFINE a == [draft |-> Draft, turn |-> u, by |-> t]
<1>1. TypeOK /\ IsFiniteSet(audit)
  BY DEF Inv
<1>2. /\ UNCHANGED <<row, active, turn, viewer, made, gone, running, ghostVars>>
      /\ audit' = audit \union {a} /\ Draft <= MaxDrafts
  BY DEF ApplyDraftChanges
<1>3. Draft \in 1 .. MaxDrafts
  BY <1>1, <1>2, FS_CardinalityType, ConversationAssumption DEF Draft
<1>4. /\ audit' \subseteq [draft : 1 .. MaxDrafts, turn : Turns, by : Turns]
      /\ IsFiniteSet(audit)'
  <2>1. IsFiniteSet(audit \union {a})
    BY <1>1, FS_AddElement
  <2>2. QED
    BY <1>1, <1>2, <1>3, <2>1 DEF TypeOK
<1>5. history' \in [Sessions -> Seq(Messages)]
  <2>1. PICK said \in {<<Assistant(TRUE)>>, <<Assistant(FALSE)>>}, result \in {<<>>, <<Tool({Draft})>>} :
          history' = [history EXCEPT ![turn[t].session] = @ \o said \o result]
    BY DEF ApplyDraftChanges
  <2>2. said \in Seq(Messages)
    <3>1. Assistant(FALSE) \in Messages /\ Assistant(TRUE) \in Messages
      BY MessageTypes
    <3>2. <<Assistant(FALSE)>> \in Seq(Messages) /\ <<Assistant(TRUE)>> \in Seq(Messages)
      BY <3>1, ShortSeqs
    <3>3. QED
      BY <2>1, <3>2
  <2>3. result \in Seq(Messages)
    <3>1. {Draft} \in SUBSET (1 .. MaxDrafts)
      BY <1>3
    <3>2. Tool({Draft}) \in Messages
      BY <3>1, MessageTypes
    <3>3. <<>> \in Seq(Messages) /\ <<Tool({Draft})>> \in Seq(Messages)
      BY <3>2, ShortSeqs, EmptySeq
    <3>4. QED
      BY <2>1, <3>3
  <2>4. said \o result \in Seq(Messages)
    BY <2>2, <2>3, ConcatProperties
  <2>5. history' = [history EXCEPT ![turn[t].session] = @ \o (said \o result)]
    <3>1. turn[t].session \in Sessions => history[turn[t].session] \in Seq(Messages)
      BY <1>1 DEF TypeOK
    <3>2. ASSUME NEW told \in Seq(Messages)
          PROVE  (told \o said) \o result = told \o (said \o result)
      BY <2>2, <2>3, ConcatAssociative
    <3>3. history \in [Sessions -> Seq(Messages)]
      BY <1>1 DEF TypeOK
    <3>4. QED
      BY <2>1, <3>1, <3>2, <3>3
  <2>6. QED
    BY <1>1, <2>4, <2>5, HistoryGrows DEF TypeOK
<1>6. TypeOK'
  BY <1>1, <1>2, <1>4, <1>5 DEF TypeOK, ghostVars
<1>7. QED
  BY <1>2, <1>4, <1>6, NoTurnMoves DEF ghostVars

LEMMA CompleteStep ==
  ASSUME Inv, NEW t \in Turns, Complete(t)
  PROVE  Inv'
<1>1. TypeOK /\ IsFiniteSet(audit)
  BY DEF Inv
<1>2. /\ UNCHANGED <<row, turn, viewer, audit, made, gone, ghostVars>>
      /\ running' = running \ {t} /\ active' = Finished(t)
  BY DEF Complete
<1>3. active' \in 0 .. MaxTurns
  BY <1>1, <1>2, Numbers, ConversationAssumption DEF Finished, TypeOK
<1>4. history' \in [Sessions -> Seq(Messages)]
  <2>1. PICK said \in {<<>>, <<Assistant(FALSE)>>, <<Assistant(TRUE), Assistant(FALSE)>>} :
          history' = [history EXCEPT ![turn[t].session] = @ \o said]
    BY DEF Complete
  <2>2. said \in Seq(Messages)
    <3>1. Assistant(FALSE) \in Messages /\ Assistant(TRUE) \in Messages
      BY MessageTypes
    <3>2. /\ <<>> \in Seq(Messages) /\ <<Assistant(FALSE)>> \in Seq(Messages)
          /\ <<Assistant(TRUE), Assistant(FALSE)>> \in Seq(Messages)
      BY <3>1, ShortSeqs, EmptySeq
    <3>3. QED
      BY <2>1, <3>2
  <2>3. QED
    BY <1>1, <2>1, <2>2, HistoryGrows DEF TypeOK
<1>5. TypeOK'
  BY <1>1, <1>2, <1>3, <1>4 DEF TypeOK, ghostVars
<1>6. QED
  BY <1>1, <1>2, <1>5, NoTurnMoves DEF ghostVars

LEMMA LoseStep ==
  ASSUME Inv, NEW s \in Sessions, Lose(s)
  PROVE  Inv'
<1>1. /\ UNCHANGED <<row, active, turn, viewer, audit, made, history, ghostVars>>
      /\ gone' = {s} /\ running' \subseteq running
  BY DEF Lose
<1>2. TypeOK' /\ IsFiniteSet(audit)'
  BY <1>1 DEF Inv, TypeOK, ghostVars
<1>3. QED
  BY <1>1, <1>2, NoTurnMoves DEF ghostVars

-----------------------------------------------------------------------------
LEMMA InitInv == Init => Inv
<1> SUFFICES ASSUME Init PROVE Inv
  OBVIOUS
<1>1. row \in Rows
  <2>1. PICK m \in Modes : row = [EmptyRow EXCEPT !.lastMode = m]
    BY DEF Init
  <2>2. QED
    BY <2>1, RowTypes DEF Rows
<1>2. turn \in [Turns -> TurnRecords]
  BY NoTurnType DEF Init
<1>3. viewer \in Viewers
  BY Numbers DEF Init, NoViewer, Viewers, Modes
<1>4. history \in [Sessions -> Seq(Messages)]
  <2>1. <<>> \in Seq(Messages)
    BY EmptySeq
  <2>2. QED
    BY <2>1 DEF Init
<1>5. /\ active \in 0 .. MaxTurns /\ made \in 0 .. MaxSessions
      /\ counted \in [Modes -> 0 .. MaxSessions]
  BY ConversationAssumption DEF Init, Nothing
<1>6. audit = {} /\ gone = {} /\ running = {} /\ handed = {}
  BY DEF Init
<1>7. TypeOK /\ IsFiniteSet(audit)
  BY <1>1, <1>2, <1>3, <1>4, <1>5, <1>6, FS_EmptySet DEF TypeOK
<1>8. \A t \in Turns : Prepared(t)
  BY DEF Init, Prepared, NoTurn, Reading
<1>9. \A m \in Modes : Given(counted[m], row.cursor[m])
  BY DEF Init, Given
<1>10. QED
  BY <1>7, <1>8, <1>9 DEF Inv

LEMMA StepInv == Inv /\ [Next]_vars => Inv'
<1> SUFFICES ASSUME Inv, [Next]_vars PROVE Inv'
  OBVIOUS
<1>1. CASE UNCHANGED vars
  <2>1. /\ UNCHANGED <<row, active, turn, viewer, audit, made, gone, history, running>>
        /\ UNCHANGED <<handed, counted>>
    BY <1>1 DEF vars, hermesVars, ghostVars
  <2>2. QED
    BY <2>1 DEF Inv, TypeOK, Prepared, Given
<1>2. ASSUME NEW t \in Turns,
             \/ Reserve(t) \/ KeepSession(t) \/ CreateSession(t) \/ SetAssistantSession(t)
             \/ buildHandoff(t) \/ Submit(t) \/ UpdateAssistantHandoffCursor(t)
             \/ SubmitFails(t) \/ UpdateAssistantMode(t) \/ Stop(t) \/ Complete(t)
             \/ \E m \in Modes : AssistantConversation(t, m)
             \/ \E u \in Turns : ApplyDraftChanges(t, u)
      PROVE  Inv'
  BY <1>2, BeginStep, SessionStep, HandoffStep, SubmitStep, CursorStep, ModeStep,
     SubmitFailsStep, StopStep, DraftStep, CompleteStep
<1>3. ASSUME ViewSet \/ ViewFails \/ (\E m \in Modes : ViewCreate(m))
               \/ \E s \in Sessions : Lose(s)
      PROVE  Inv'
  BY <1>3, ViewStep, LoseStep
<1>4. CASE Unpublished
  BY <1>2, <1>3, <1>4 DEF Unpublished
<1>5. CASE \E t \in Turns : Published(t)
  BY <1>2, <1>5 DEF Published
<1>6. QED
  BY <1>1, <1>4, <1>5 DEF Next

-----------------------------------------------------------------------------
(***************************************************************************)
(* Where the drafts are.  A history carries a draft in one place, with the *)
(* prompt that made it (Attributed), because a session runs one prompt and *)
(* its last user message is of that turn (RunningSeen); and two histories  *)
(* never carry the same, nor are the two modes shown from one (Separate).  *)
(***************************************************************************)
\* What visibleHistory has gathered of a session, and the drafts in it.
View(s) == Seen(history[s])

Carries(v, d) == d \in v.pending \/ \E i \in DOMAIN v.out : d \in v.out[i].drafts

Recorded(d, t, trail) == \E a \in trail : a.draft = d /\ a.by = t

\* Each draft of a view is in one place, with the prompt that made it.
Attributed(v, trail) ==
  /\ v.turn = 0 => v.pending = {}
  /\ \A d \in v.pending : Recorded(d, v.turn, trail)
  /\ \A i \in DOMAIN v.out : \A d \in v.out[i].drafts :
       /\ v.out[i].role = "assistant" /\ Recorded(d, v.out[i].turn, trail)
       /\ d \notin v.pending
       /\ \A j \in DOMAIN v.out : d \in v.out[j].drafts => i = j

ShownMessages ==
  [turn : 0 .. MaxTurns, role : {"user", "assistant"}, index : Nat, drafts : SUBSET (1 .. MaxDrafts)]

Views ==
  [turn : 0 .. MaxTurns, index : Nat, pending : SUBSET (1 .. MaxDrafts), out : Seq(ShownMessages)]

ViewsAttributed ==
  /\ \A s \in Sessions : View(s) \in Views /\ Attributed(View(s), audit)
  /\ \A r, s \in Sessions, d \in 1 .. MaxDrafts :
       Carries(View(r), d) /\ Carries(View(s), d) => r = s

\* The audit trail numbers its drafts.
Numbered ==
  /\ \A a \in audit : a.draft <= Cardinality(audit)
  /\ \A a, b \in audit : a.draft = b.draft => a = b

\* The prompt a session runs is the one of its last user message.
WithItsSession == {"ensureSource", "setSource", "history", "submit", "cursor", "mode"}

RunningSeen ==
  /\ \A t \in Turns : turn[t].pc \in WithItsSession => turn[t].session # Nothing
  /\ \A t \in running :
       /\ turn[t].pc \in {"cursor", "mode", "over"} /\ turn[t].session # Nothing
       /\ View(turn[t].session).turn = t

\* A new session is written to the row once: the two modes never share one.
Pending(t) == turn[t].pc \in {"set", "setSource"}

Separate ==
  /\ row.session["qa"] = row.session["edit"] => row.session["qa"] = Nothing
  /\ \A m \in Modes : row.session[m] <= made
  /\ \A t \in Turns : Pending(t) => /\ turn[t].source # Nothing /\ turn[t].source <= made
                                    /\ \A m \in Modes : row.session[m] # turn[t].source
                                    /\ viewer.pc = "set" => viewer.session # turn[t].source
  /\ \A t, u \in Turns : Pending(t) /\ Pending(u) /\ turn[t].source = turn[u].source => t = u
  /\ viewer.pc = "set" => /\ viewer.session # Nothing /\ viewer.session <= made
                          /\ \A m \in Modes : row.session[m] # viewer.session

DraftInv == Numbered /\ ViewsAttributed /\ RunningSeen /\ Separate

-----------------------------------------------------------------------------
(***************************************************************************)
(* visibleHistory, a message at a time.                                    *)
(***************************************************************************)
LEMMA SeeType == \A v \in Views, m \in Messages : See(v, m) \in Views
<1> SUFFICES ASSUME NEW v \in Views, NEW m \in Messages PROVE See(v, m) \in Views
  OBVIOUS
<1>1. /\ v.turn \in 0 .. MaxTurns /\ v.index \in Nat /\ v.pending \in SUBSET (1 .. MaxDrafts)
      /\ v.out \in Seq(ShownMessages) /\ m.turn \in 0 .. MaxTurns /\ {} \in SUBSET (1 .. MaxDrafts)
      /\ m.drafts \in SUBSET (1 .. MaxDrafts) /\ 0 \in Nat /\ 0 \in 0 .. MaxTurns
  BY ConversationAssumption DEF Views, Messages
<1>2. \A n \in ShownMessages, o \in Seq(ShownMessages) : Append(o, n) \in Seq(ShownMessages)
  BY AppendProperties
<1>3. /\ Shown(v.turn, "assistant", 0, v.pending) \in ShownMessages
      /\ Shown(m.turn, "user", 0, {}) \in ShownMessages
      /\ Shown(v.turn, "assistant", v.index + 1, v.pending) \in ShownMessages
  BY <1>1 DEF Shown, ShownMessages
<1>4. flushReceipts(v) \in Views
  <2>1. Append(v.out, Receipt(v.turn, v.pending)) \in Seq(ShownMessages)
    BY <1>1, <1>2, <1>3 DEF Receipt
  <2> QED  BY <1>1, <2>1 DEF flushReceipts, Views
<1>5. SeeUser(v, m) \in Views
  <2> DEFINE w == flushReceipts(v)
  <2>1. Append(w.out, Shown(m.turn, "user", 0, {})) \in Seq(ShownMessages)
    <3>1. w.out \in Seq(ShownMessages)
      BY <1>4 DEF Views
    <3> QED  BY <1>2, <1>3, <3>1
  <2> HIDE DEF w
  <2>2. w \in Views
    BY <1>4 DEF w
  <2>3. SeeUser(v, m) = [w EXCEPT !.turn = m.turn, !.index = 0,
                                  !.out = Append(w.out, Shown(m.turn, "user", 0, {}))]
    BY <2>2 DEF SeeUser, w, Views
  <2> QED  BY <1>1, <2>1, <2>2, <2>3 DEF Views
<1>6. SeeTool(v, m) \in Views
  BY <1>1 DEF SeeTool, Views
<1>7. SeeAssistant(v, m) \in Views
  <2>1. Append(v.out, Shown(v.turn, "assistant", v.index + 1, v.pending)) \in Seq(ShownMessages)
    BY <1>1, <1>2, <1>3
  <2>2. v.index + 1 \in Nat /\ [v EXCEPT !.index = @ + 1] \in Views
    BY <1>1 DEF Views
  <2>3. [v EXCEPT !.index = @ + 1, !.pending = {},
                  !.out = Append(@, Shown(v.turn, "assistant", v.index + 1, v.pending))] \in Views
    BY <1>1, <2>1, <2>2 DEF Views
  <2> QED  BY <2>2, <2>3 DEF SeeAssistant
<1>8. m.role \in {"user", "assistant", "tool"}
  BY DEF Messages
<1> QED  BY <1>5, <1>6, <1>7, <1>8 DEF See

LEMMA UnseenType == Unseen \in Views
BY ConversationAssumption, EmptySeq DEF Unseen, Views

\* The views of the beginnings of a history.
IsViews(f, h) ==
  /\ f \in [0 .. Len(h) -> Views]
  /\ f[0] = Unseen
  /\ \A i \in 1 .. Len(h) : f[i] = See(f[i - 1], h[i])
  /\ Seen(h) = f[Len(h)]

LEMMA SeenIs ==
  ASSUME NEW h \in Seq(Messages)
  PROVE  \E f : IsViews(f, h)
<1> DEFINE n == Len(h)
           Body == [i \in 1 .. n |-> [v \in Views |-> See(v, h[i])]]
           Rec(f) == [i \in 0 .. n |-> IF i = 0 THEN Unseen ELSE See(f[i - 1], h[i])]
           view == CHOOSE f : f = Rec(f)
<1>1. n \in Nat /\ \A i \in 1 .. n : h[i] \in Messages
  OBVIOUS
<1>2. Body \in [1 .. n -> [Views -> Views]]
  BY <1>1, SeeType
<1>3. HasIteration(n, Views, Unseen, Body)
  <2> HIDE DEF n, Body
  <2> QED  BY <1>1, <1>2, UnseenType, Iteration
<1>4. PICK f \in [0 .. n -> Views] : Iterates(f, n, Unseen, Body)
  BY <1>3 DEF HasIteration
<1>5. \A i \in 1 .. n : i - 1 \in 0 .. n /\ i \in 0 .. n /\ i # 0
  BY <1>1
<1>6. f = Rec(f)
  <2>1. \A i \in 1 .. n : Body[i][f[i - 1]] = See(f[i - 1], h[i])
    BY <1>4, <1>5
  <2>2. f = [i \in 0 .. n |-> IF i = 0 THEN Unseen ELSE Body[i][f[i - 1]]]
    BY <1>4 DEF Iterates
  <2>3. \A i \in 0 .. n : i # 0 => i \in 1 .. n
    BY <1>1
  <2> HIDE DEF Body
  <2> QED  BY <2>1, <2>2, <2>3
<1>7. view = Rec(view)
  BY <1>6
<1>8. Seen(h) = view[n]
  BY DEF Seen
<1> HIDE DEF view
<1>9. view[0] = Unseen /\ \A i \in 1 .. n : view[i] = See(view[i - 1], h[i])
  <2>1. 0 \in 0 .. n
    BY <1>1
  <2> QED  BY <1>5, <1>7, <2>1
<1>10. \A i \in Nat : i <= n => view[i] \in Views
  <2> DEFINE S == {i \in Nat : i <= n => view[i] \in Views}
  <2>1. 0 \in S
    BY <1>9, UnseenType
  <2>2. ASSUME NEW i \in Nat, i \in S PROVE i + 1 \in S
    <3>1. ASSUME i + 1 <= n PROVE view[i + 1] \in Views
      <4>1. i + 1 \in 1 .. n /\ i <= n /\ (i + 1) - 1 = i
        BY <1>1, <3>1
      <4>2. view[i + 1] = See(view[i], h[i + 1]) /\ view[i] \in Views
        BY <1>9, <2>2, <4>1
      <4> QED  BY <1>1, <4>1, <4>2, SeeType
    <3> QED  BY <3>1
  <2> HIDE DEF S
  <2>3. \A i \in Nat : i \in S
    BY <2>1, <2>2, NatSetInduction
  <2> QED  BY <2>3 DEF S
<1>11. view \in [0 .. n -> Views]
  <2>1. \A i \in 0 .. n : view[i] \in Views
    BY <1>1, <1>10
  <2> QED  BY <1>7, <2>1
<1>12. IsViews(view, h)
  BY <1>8, <1>9, <1>11 DEF IsViews
<1> QED  BY <1>12

LEMMA SeenNothing == Seen(<<>>) = Unseen
<1>1. <<>> \in Seq(Messages) /\ Len(<<>>) = 0
  BY EmptySeq
<1> QED  BY <1>1, SeenIs DEF IsViews

LEMMA SeenType ==
  ASSUME NEW h \in Seq(Messages)
  PROVE  Seen(h) \in Views
<1>1. Len(h) \in Nat /\ Len(h) \in 0 .. Len(h)
  OBVIOUS
<1> QED  BY <1>1, SeenIs DEF IsViews

LEMMA SeenAppend ==
  ASSUME NEW h \in Seq(Messages), NEW m \in Messages
  PROVE  Seen(Append(h, m)) = See(Seen(h), m)
<1> DEFINE k == Append(h, m)
           n == Len(h)
<1>1. /\ k \in Seq(Messages) /\ n \in Nat /\ Len(k) = n + 1
      /\ \A i \in 1 .. n : k[i] = h[i]
      /\ k[n + 1] = m
  BY AppendProperties
<1>2. PICK f : IsViews(f, h)
  BY SeenIs
<1>3. PICK g : IsViews(g, k)
  BY <1>1, SeenIs
<1> HIDE DEF k, n
<1>4. \A i \in Nat : i <= n => g[i] = f[i]
  <2> DEFINE S == {i \in Nat : i <= n => g[i] = f[i]}
  <2>1. 0 \in S
    BY <1>2, <1>3 DEF IsViews
  <2>2. ASSUME NEW i \in Nat, i \in S PROVE i + 1 \in S
    <3>1. ASSUME i + 1 <= n PROVE g[i + 1] = f[i + 1]
      <4>1. i + 1 \in 1 .. n /\ i + 1 \in 1 .. n + 1 /\ i <= n /\ (i + 1) - 1 = i
        BY <1>1, <3>1
      <4>2. g[i + 1] = See(g[i], k[i + 1])
        BY <1>1, <1>3, <4>1 DEF IsViews
      <4>3. f[i + 1] = See(f[i], h[i + 1])
        BY <1>2, <4>1 DEF IsViews, n
      <4> QED  BY <1>1, <2>2, <4>1, <4>2, <4>3
    <3> QED  BY <3>1
  <2> HIDE DEF S
  <2>3. \A i \in Nat : i \in S
    BY <2>1, <2>2, NatSetInduction
  <2> QED  BY <2>3 DEF S
<1>5. g[n + 1] = See(g[n], m)
  <2>1. n + 1 \in 1 .. n + 1 /\ (n + 1) - 1 = n
    BY <1>1
  <2>2. g[n + 1] = See(g[(n + 1) - 1], k[n + 1])
    BY <1>1, <1>3, <2>1 DEF IsViews
  <2> QED  BY <1>1, <2>1, <2>2
<1>6. Seen(k) = g[n + 1] /\ Seen(h) = f[n]
  BY <1>1, <1>2, <1>3 DEF IsViews, n
<1> QED  BY <1>1, <1>4, <1>5, <1>6 DEF k

(***************************************************************************)
(* Where a draft is, and with which turn, as messages are seen.            *)
(***************************************************************************)
\* A message that is shown takes the drafts that were pending.
LEMMA OutGrows ==
  ASSUME NEW trail, NEW v \in Views, NEW w \in Views, Attributed(v, trail), NEW m \in ShownMessages,
         w.out = Append(v.out, m), w.pending = {}, m.drafts = v.pending,
         m.drafts # {} => m.role = "assistant" /\ m.turn = v.turn
  PROVE  Attributed(w, trail) /\ \A d : Carries(w, d) <=> Carries(v, d)
<1> DEFINE n == Len(v.out)
<1>1. /\ n \in Nat /\ DOMAIN v.out = 1 .. n /\ DOMAIN w.out = 1 .. n + 1
      /\ \A i \in 1 .. n : w.out[i] = v.out[i]
      /\ w.out[n + 1] = m
  <2>1. v.out \in Seq(ShownMessages)
    BY DEF Views
  <2>2. Append(v.out, m) \in Seq(ShownMessages)
    BY <2>1, AppendProperties
  <2> QED  BY <2>1, <2>2, AppendProperties, LenProperties
<1> HIDE DEF n
<1>2. \A i \in 1 .. n + 1 : i \in 1 .. n \/ i = n + 1
  BY <1>1
<1>3. 1 .. n \subseteq 1 .. n + 1 /\ n + 1 \in 1 .. n + 1 /\ n + 1 \notin 1 .. n
  BY <1>1
<1>4. \A d : Carries(w, d) <=> Carries(v, d)
  BY <1>1, <1>2, <1>3 DEF Carries
<1>5. ASSUME NEW i \in 1 .. n + 1, NEW d \in w.out[i].drafts
      PROVE  /\ w.out[i].role = "assistant" /\ Recorded(d, w.out[i].turn, trail)
             /\ \A j \in 1 .. n + 1 : d \in w.out[j].drafts => i = j
  <2>1. CASE i \in 1 .. n
    <3>1. /\ v.out[i].role = "assistant" /\ Recorded(d, v.out[i].turn, trail) /\ d \notin v.pending
          /\ \A j \in 1 .. n : d \in v.out[j].drafts => i = j
      BY <1>1, <1>5, <2>1 DEF Attributed
    <3> QED  BY <1>1, <1>2, <2>1, <3>1
  <2>2. CASE i = n + 1
    <3>1. d \in v.pending
      BY <1>1, <1>5, <2>2
    <3>2. /\ w.out[i].role = "assistant" /\ w.out[i].turn = v.turn
          /\ Recorded(d, v.turn, trail)
      BY <1>1, <2>2, <3>1 DEF Attributed
    <3>3. \A j \in 1 .. n : d \notin w.out[j].drafts
      BY <1>1, <3>1 DEF Attributed
    <3> QED  BY <1>2, <2>2, <3>2, <3>3
  <2> QED  BY <1>2, <2>1, <2>2
<1> QED  BY <1>1, <1>4, <1>5 DEF Attributed

\* After flushReceipts every draft is in a message.
LEMMA FlushedView ==
  ASSUME NEW trail, NEW v \in Views, Attributed(v, trail)
  PROVE  LET w == flushReceipts(v) IN
         /\ w \in Views /\ Attributed(w, trail) /\ w.pending = {} /\ w.turn = v.turn
         /\ \A d : Carries(w, d) <=> Carries(v, d)
<1>1. CASE v.turn = 0 \/ v.pending = {}
  BY <1>1 DEF flushReceipts, Attributed
<1>2. CASE ~(v.turn = 0 \/ v.pending = {})
  <2> DEFINE m == Receipt(v.turn, v.pending)
             w == flushReceipts(v)
  <2>1. m \in ShownMessages /\ m.drafts = v.pending /\ m.role = "assistant" /\ m.turn = v.turn
    BY DEF Receipt, Shown, ShownMessages, Views
  <2>2. w = [v EXCEPT !.out = Append(@, m), !.pending = {}]
    BY <1>2 DEF flushReceipts
  <2>3. Append(v.out, m) \in Seq(ShownMessages)
    BY <2>1, AppendProperties DEF Views
  <2> HIDE DEF m
  <2>4. w \in Views /\ w.out = Append(v.out, m) /\ w.pending = {} /\ w.turn = v.turn
    BY <2>2, <2>3 DEF Views
  <2> HIDE DEF w
  <2>5. Attributed(w, trail) /\ \A d : Carries(w, d) <=> Carries(v, d)
    BY <2>1, <2>4, OutGrows
  <2> QED  BY <2>4, <2>5 DEF w
<1> QED  BY <1>1, <1>2

LEMMA SeesUser ==
  ASSUME NEW trail, NEW v \in Views, Attributed(v, trail), NEW t \in Turns
  PROVE  LET w == See(v, User(t)) IN
         /\ w \in Views /\ Attributed(w, trail) /\ w.turn = t
         /\ \A d : Carries(w, d) <=> Carries(v, d)
<1> DEFINE f == flushReceipts(v)
           m == Shown(t, "user", 0, {})
           w == See(v, User(t))
<1>1. /\ f \in Views /\ Attributed(f, trail) /\ f.pending = {}
      /\ \A d : Carries(f, d) <=> Carries(v, d)
  BY FlushedView
<1>2. w \in Views
  BY SeeType, MessageTypes
<1>3. m \in ShownMessages /\ m.drafts = {}
  BY Numbers, ConversationAssumption DEF Shown, ShownMessages
<1>4. w = [f EXCEPT !.turn = t, !.index = 0, !.out = Append(@, m)]
  BY DEF See, SeeUser, User
<1> HIDE DEF f, m, w
<1>5. w.out = Append(f.out, m) /\ w.pending = {} /\ w.turn = t
  BY <1>1, <1>4 DEF Views
<1>6. Attributed(w, trail) /\ \A d : Carries(w, d) <=> Carries(f, d)
  BY <1>1, <1>2, <1>3, <1>5, OutGrows
<1> QED  BY <1>1, <1>2, <1>5, <1>6 DEF w

LEMMA SeesAssistant ==
  ASSUME NEW trail, NEW v \in Views, Attributed(v, trail), NEW blank \in BOOLEAN
  PROVE  LET w == See(v, Assistant(blank)) IN
         /\ w \in Views /\ Attributed(w, trail) /\ w.turn = v.turn
         /\ \A d : Carries(w, d) <=> Carries(v, d)
<1> DEFINE w == See(v, Assistant(blank))
           m == Shown(v.turn, "assistant", v.index + 1, v.pending)
<1>1. w \in Views
  BY SeeType, MessageTypes
<1>2. w = IF blank /\ v.pending = {} THEN [v EXCEPT !.index = @ + 1]
          ELSE [v EXCEPT !.index = @ + 1, !.pending = {}, !.out = Append(@, m)]
  BY DEF See, SeeAssistant, Assistant
<1>3. m \in ShownMessages /\ m.drafts = v.pending /\ m.role = "assistant" /\ m.turn = v.turn
  BY DEF Shown, ShownMessages, Views
<1> HIDE DEF w, m
<1>4. CASE blank /\ v.pending = {}
  <2>1. w.turn = v.turn /\ w.pending = v.pending /\ w.out = v.out
    BY <1>2, <1>4 DEF Views
  <2> QED  BY <1>1, <2>1 DEF Attributed, Carries, w
<1>5. CASE ~(blank /\ v.pending = {})
  <2>1. w.turn = v.turn /\ w.pending = {} /\ w.out = Append(v.out, m)
    BY <1>2, <1>5 DEF Views
  <2>2. Attributed(w, trail) /\ \A d : Carries(w, d) <=> Carries(v, d)
    BY <1>1, <1>3, <2>1, OutGrows
  <2> QED  BY <1>1, <2>1, <2>2 DEF w
<1> QED  BY <1>4, <1>5

\* The result of a tool belongs to the turn of the last user message.
LEMMA SeesTool ==
  ASSUME NEW trail, NEW v \in Views, Attributed(v, trail), NEW d \in 1 .. MaxDrafts,
         ~Carries(v, d), Recorded(d, v.turn, trail), v.turn # 0
  PROVE  LET w == See(v, Tool({d})) IN
         /\ w \in Views /\ Attributed(w, trail) /\ w.turn = v.turn
         /\ \A e : Carries(w, e) <=> Carries(v, e) \/ e = d
<1> DEFINE w == See(v, Tool({d}))
<1>1. w \in Views
  BY SeeType, MessageTypes
<1>2. w = [v EXCEPT !.pending = @ \union {d}]
  BY DEF See, SeeTool, Tool
<1> HIDE DEF w
<1>3. w.turn = v.turn /\ w.pending = v.pending \union {d} /\ w.out = v.out
  BY <1>2 DEF Views
<1>4. Attributed(w, trail)
  BY <1>3 DEF Attributed, Carries
<1> QED  BY <1>1, <1>3, <1>4 DEF Carries, w

LEMMA MoreRecorded ==
  ASSUME NEW trail, NEW more, trail \subseteq more, NEW v, Attributed(v, trail)
  PROVE  Attributed(v, more)
BY DEF Attributed, Recorded

-----------------------------------------------------------------------------
(***************************************************************************)
(* attachDraftReceipts: what it adds for a turn, and what it leaves alone. *)
(***************************************************************************)
HasUser(shown, t) == \E i \in DOMAIN shown : shown[i].role = "user" /\ shown[i].turn = t

Shows(shown, t, d) == \E i \in DOMAIN shown : d \in shown[i].drafts /\ shown[i].turn = t

\* Draft d is in one message at most, and in none but of the assistant in turn t.
Once(shown, t, d) ==
  \A i \in DOMAIN shown : d \in shown[i].drafts =>
    /\ shown[i].role = "assistant" /\ shown[i].turn = t
    /\ \A j \in DOMAIN shown : d \in shown[j].drafts => i = j

\* What the receipts D of turn t make of the messages.
Adds(shown, more, t, D) ==
  /\ more \in Seq(ShownMessages)
  /\ \A u : HasUser(more, u) <=> HasUser(shown, u)
  /\ \A u, d : Shows(shown, u, d) => Shows(more, u, d)
  /\ HasUser(shown, t) => \A d \in D : Shows(more, t, d)
  /\ \A u, d : Once(shown, u, d) /\ (d \in D => u = t) => Once(more, u, d)

LEMMA LargestIn ==
  ASSUME NEW n \in Nat, NEW S \in SUBSET (1 .. n), S # {}
  PROVE  \E i \in S : \A j \in S : j <= i
<1> DEFINE R == {n - i : i \in S}
<1>1. R \in SUBSET Nat /\ R # {}
  <2>1. \A i \in S : n - i \in Nat
    OBVIOUS
  <2> QED  BY <2>1
<1> HIDE DEF R
<1>2. PICK r \in R : \A j \in R : r <= j
  BY <1>1, SmallestNat
<1>3. PICK i \in S : r = n - i
  BY DEF R
<1>4. \A j \in S : n - i <= n - j
  BY <1>2, <1>3 DEF R
<1> QED  BY <1>4

LEMMA ToTheLast ==
  ASSUME NEW shown \in Seq(ShownMessages), NEW t, NEW D \in SUBSET (1 .. MaxDrafts),
         AssistantIndices(shown, t) # {}
  PROVE  Adds(shown, AttachTo(shown, t, D), t, D)
<1> DEFINE indices == AssistantIndices(shown, t)
           target == CHOOSE i \in indices : \A j \in indices : j <= i
           new == D \ Existing(shown, t)
           more == AttachTo(shown, t, D)
<1>1. /\ Len(shown) \in Nat /\ DOMAIN shown = 1 .. Len(shown)
      /\ \A i \in DOMAIN shown : shown[i] \in ShownMessages
  OBVIOUS
<1>2. target \in indices
  <2>1. indices \in SUBSET (1 .. Len(shown))
    BY <1>1 DEF AssistantIndices
  <2>2. \E i \in indices : \A j \in indices : j <= i
    BY <1>1, <2>1, LargestIn
  <2> QED  BY <2>2
<1>3. more = [shown EXCEPT ![target].drafts = @ \union new]
  BY DEF AttachTo
<1>4. /\ target \in DOMAIN shown /\ shown[target].role = "assistant" /\ shown[target].turn = t
      /\ new \in SUBSET (1 .. MaxDrafts)
  BY <1>2 DEF AssistantIndices
<1> HIDE DEF indices, target, more
<1>5. /\ DOMAIN more = DOMAIN shown
      /\ \A i \in DOMAIN shown :
           /\ more[i] \in ShownMessages
           /\ more[i].role = shown[i].role /\ more[i].turn = shown[i].turn
           /\ more[i].drafts = IF i = target THEN shown[i].drafts \union new ELSE shown[i].drafts
  <2>1. \A i \in DOMAIN shown : i # target => more[i] = shown[i]
    BY <1>3
  <2>2. more[target] = [shown[target] EXCEPT !.drafts = @ \union new]
    BY <1>3, <1>4
  <2>3. shown[target] \in ShownMessages
    BY <1>1, <1>4
  <2>4. /\ more[target] \in ShownMessages
        /\ more[target].role = shown[target].role /\ more[target].turn = shown[target].turn
        /\ more[target].drafts = shown[target].drafts \union new
    BY <1>4, <2>2, <2>3 DEF ShownMessages
  <2>5. DOMAIN more = DOMAIN shown
    BY <1>3
  <2> QED  BY <1>1, <2>1, <2>4, <2>5
<1>6. more \in Seq(ShownMessages)
  <2>1. more = [i \in DOMAIN shown |-> more[i]]
    BY <1>3
  <2>2. more \in [1 .. Len(shown) -> ShownMessages]
    BY <1>1, <1>5, <2>1
  <2> QED  BY <1>1, <2>2
<1>7. \A u : HasUser(more, u) <=> HasUser(shown, u)
  BY <1>5 DEF HasUser
<1>8. \A u, d : Shows(shown, u, d) => Shows(more, u, d)
  BY <1>5 DEF Shows
<1>9. \A d \in D : Shows(more, t, d)
  <2> SUFFICES ASSUME NEW d \in D PROVE Shows(more, t, d)
    OBVIOUS
  <2>1. CASE d \in Existing(shown, t)
    <3>1. Shows(shown, t, d)
      BY <2>1 DEF Existing, AssistantIndices, Shows
    <3> QED  BY <1>8, <3>1
  <2>2. CASE d \notin Existing(shown, t)
    BY <1>4, <1>5, <2>2 DEF Shows
  <2> QED  BY <2>1, <2>2
<1>10. ASSUME NEW u, NEW d, Once(shown, u, d), d \in D => u = t
       PROVE  Once(more, u, d)
  <2>1. CASE d \in new
    <3>1. u = t /\ d \notin Existing(shown, t)
      BY <1>10, <2>1
    <3>2. \A i \in DOMAIN shown : d \notin shown[i].drafts
      BY <1>10, <3>1 DEF Once, Existing, AssistantIndices
    <3> QED  BY <1>4, <1>5, <3>1, <3>2 DEF Once
  <2>2. CASE d \notin new
    <3>1. \A i \in DOMAIN shown : d \in more[i].drafts <=> d \in shown[i].drafts
      BY <1>5, <2>2
    <3> QED  BY <1>5, <1>10, <3>1 DEF Once
  <2> QED  BY <2>1, <2>2
<1> QED  BY <1>6, <1>7, <1>8, <1>9, <1>10 DEF Adds, more

LEMMA ToItsOwn ==
  ASSUME NEW shown \in Seq(ShownMessages), NEW t \in Turns, NEW D \in SUBSET (1 .. MaxDrafts),
         AssistantIndices(shown, t) = {}
  PROVE  Adds(shown, Append(shown, Receipt(t, D)), t, D)
<1> DEFINE m == Receipt(t, D)
           more == Append(shown, m)
           n == Len(shown)
<1>1. m \in ShownMessages /\ m.role = "assistant" /\ m.turn = t /\ m.drafts = D
  BY Numbers DEF Receipt, Shown, ShownMessages
<1> HIDE DEF m
<1>2. /\ n \in Nat /\ DOMAIN shown = 1 .. n /\ DOMAIN more = 1 .. n + 1
      /\ \A i \in 1 .. n : more[i] = shown[i]
      /\ more[n + 1] = m
      /\ more \in Seq(ShownMessages)
  BY <1>1, AppendProperties, LenProperties
<1> HIDE DEF more, n
<1>3. \A i \in 1 .. n + 1 : i \in 1 .. n \/ i = n + 1
  BY <1>2
<1>4. 1 .. n \subseteq 1 .. n + 1 /\ n + 1 \in 1 .. n + 1 /\ n + 1 \notin 1 .. n
  BY <1>2
<1>5. \A u : HasUser(more, u) <=> HasUser(shown, u)
  BY <1>1, <1>2, <1>3, <1>4 DEF HasUser
<1>6. \A u, d : Shows(shown, u, d) => Shows(more, u, d)
  BY <1>2, <1>4 DEF Shows
<1>7. \A d \in D : Shows(more, t, d)
  BY <1>1, <1>2, <1>4 DEF Shows
<1>8. ASSUME NEW u, NEW d, Once(shown, u, d), d \in D => u = t
      PROVE  Once(more, u, d)
  <2>1. CASE d \in D
    <3>1. \A i \in 1 .. n : d \notin shown[i].drafts
      BY <1>2, <1>8, <2>1 DEF Once, AssistantIndices
    <3> QED  BY <1>1, <1>2, <1>3, <1>8, <2>1, <3>1 DEF Once
  <2>2. CASE d \notin D
    BY <1>1, <1>2, <1>3, <1>8, <2>2 DEF Once
  <2> QED  BY <2>1, <2>2
<1> QED  BY <1>2, <1>5, <1>6, <1>7, <1>8 DEF Adds, more, m

LEMMA AttachesTo ==
  ASSUME NEW shown \in Seq(ShownMessages), NEW t \in Turns, NEW D \in SUBSET (1 .. MaxDrafts)
  PROVE  Adds(shown, AttachTo(shown, t, D), t, D)
<1>1. CASE AssistantIndices(shown, t) # {}
  BY <1>1, ToTheLast
<1>2. CASE AssistantIndices(shown, t) = {} /\ HasUser(shown, t)
  <2>1. AttachTo(shown, t, D) = Append(shown, Receipt(t, D))
    BY <1>2 DEF AttachTo, HasUser
  <2> QED  BY <1>2, <2>1, ToItsOwn
<1>3. CASE AssistantIndices(shown, t) = {} /\ ~HasUser(shown, t)
  <2>1. AttachTo(shown, t, D) = shown
    BY <1>3 DEF AttachTo, HasUser
  <2> QED  BY <1>3, <2>1 DEF Adds
<1> QED  BY <1>1, <1>2, <1>3

\* What the receipts of the first n turns make of the messages.
AddedTo(base, more, receipts, n) ==
  /\ more \in Seq(ShownMessages)
  /\ \A u : HasUser(more, u) <=> HasUser(base, u)
  /\ \A t \in 1 .. n : HasUser(base, t) => \A d \in receipts[t] : Shows(more, t, d)
  /\ \A u, d : Once(base, u, d) /\ (\A t \in Turns : d \in receipts[t] => t = u) => Once(more, u, d)

LEMMA AttachedReceipts ==
  ASSUME NEW base \in Seq(ShownMessages), NEW receipts \in [Turns -> SUBSET (1 .. MaxDrafts)]
  PROVE  AddedTo(base, attachDraftReceipts(base, receipts), receipts, MaxTurns)
<1> DEFINE n == Len(receipts)
           One(t, shown) == IF receipts[t] = {} THEN shown ELSE AttachTo(shown, t, receipts[t])
           Body == [t \in 1 .. n |-> [shown \in Seq(ShownMessages) |-> One(t, shown)]]
           Rec(f) == [t \in 0 .. n |-> IF t = 0 THEN base ELSE
                        IF receipts[t] = {} THEN f[t - 1] ELSE AttachTo(f[t - 1], t, receipts[t])]
           attached == CHOOSE f : f = Rec(f)
<1>1. n = MaxTurns /\ n \in Nat /\ Turns = 1 .. n
  <2>1. MaxTurns \in Nat /\ DOMAIN receipts = 1 .. MaxTurns
    BY ConversationAssumption DEF Turns
  <2>2. receipts \in Seq(SUBSET (1 .. MaxDrafts))
    BY <2>1 DEF Turns
  <2> QED  BY <2>1, <2>2, LenProperties DEF Turns
<1> HIDE DEF n
<1>2. ASSUME NEW t \in 1 .. n, NEW shown \in Seq(ShownMessages)
      PROVE  Adds(shown, One(t, shown), t, receipts[t])
  <2>1. receipts[t] \in SUBSET (1 .. MaxDrafts) /\ t \in Turns
    BY <1>1
  <2>2. CASE receipts[t] = {}
    BY <2>2 DEF Adds
  <2>3. CASE receipts[t] # {}
    BY <2>1, <2>3, AttachesTo
  <2> QED  BY <2>2, <2>3
<1>3. \A t \in 1 .. n, shown \in Seq(ShownMessages) : One(t, shown) \in Seq(ShownMessages)
  <2> HIDE DEF One
  <2> QED  BY <1>2 DEF Adds
<1>4. HasIteration(n, Seq(ShownMessages), base, Body)
  <2>1. Body \in [1 .. n -> [Seq(ShownMessages) -> Seq(ShownMessages)]]
    <3> HIDE DEF One
    <3> QED  BY <1>3
  <2> HIDE DEF Body
  <2> QED  BY <1>1, <2>1, Iteration
<1>5. PICK f \in [0 .. n -> Seq(ShownMessages)] : Iterates(f, n, base, Body)
  BY <1>4 DEF HasIteration
<1>6. \A t \in 1 .. n : t - 1 \in 0 .. n /\ t \in 0 .. n /\ t # 0
  BY <1>1
<1>7. f = Rec(f)
  <2>1. \A t \in 1 .. n : Body[t][f[t - 1]] = One(t, f[t - 1])
    <3> HIDE DEF One
    <3> QED  BY <1>5, <1>6
  <2>2. f = [t \in 0 .. n |-> IF t = 0 THEN base ELSE Body[t][f[t - 1]]]
    BY <1>5 DEF Iterates
  <2>3. \A t \in 0 .. n : t # 0 => t \in 1 .. n
    BY <1>1
  <2> HIDE DEF Body
  <2> QED  BY <2>1, <2>2, <2>3
<1>8. attached = Rec(attached)
  BY <1>7
<1>9. attachDraftReceipts(base, receipts) = attached[n]
  BY DEF attachDraftReceipts, n
<1> HIDE DEF attached
<1>10. attached[0] = base /\ \A t \in 1 .. n : attached[t] = One(t, attached[t - 1])
  <2>1. 0 \in 0 .. n
    BY <1>1
  <2> QED  BY <1>6, <1>8, <2>1
<1> HIDE DEF Rec, Body, One
<1>11. \A i \in Nat : i <= n => AddedTo(base, attached[i], receipts, i)
  <2> DEFINE S == {i \in Nat : i <= n => AddedTo(base, attached[i], receipts, i)}
  <2>1. 0 \in S
    BY <1>10 DEF AddedTo
  <2>2. ASSUME NEW i \in Nat, i \in S PROVE i + 1 \in S
    <3>1. ASSUME i + 1 <= n PROVE AddedTo(base, attached[i + 1], receipts, i + 1)
      <4> DEFINE t == i + 1
                 old == attached[i]
                 more == attached[t]
      <4>1. t \in 1 .. n /\ i <= n /\ t - 1 = i /\ t \in Turns
        BY <1>1, <3>1
      <4>2. AddedTo(base, old, receipts, i)
        BY <2>2, <4>1
      <4>3. more = One(t, old)
        BY <1>10, <4>1
      <4> HIDE DEF old, more
      <4>4. Adds(old, more, t, receipts[t])
        BY <1>2, <4>1, <4>2, <4>3 DEF AddedTo
      <4>5. ASSUME NEW u \in 1 .. t, HasUser(base, u), NEW d \in receipts[u]
            PROVE  Shows(more, u, d)
        <5>1. CASE u = t
          BY <4>2, <4>4, <4>5, <5>1 DEF Adds, AddedTo
        <5>2. CASE u # t
          <6>1. u \in 1 .. i
            BY <5>2
          <6>2. Shows(old, u, d)
            BY <4>2, <4>5, <6>1 DEF AddedTo
          <6> QED  BY <4>4, <6>2 DEF Adds
        <5> QED  BY <5>1, <5>2
      <4>6. ASSUME NEW u, NEW d, Once(base, u, d), \A w \in Turns : d \in receipts[w] => w = u
            PROVE  Once(more, u, d)
        <5>1. Once(old, u, d)
          BY <4>2, <4>6 DEF AddedTo
        <5>2. d \in receipts[t] => u = t
          BY <4>1, <4>6
        <5> QED  BY <4>4, <5>1, <5>2 DEF Adds
      <4>7. more \in Seq(ShownMessages) /\ \A u : HasUser(more, u) <=> HasUser(base, u)
        BY <4>2, <4>4 DEF Adds, AddedTo
      <4> HIDE DEF t
      <4>8. AddedTo(base, more, receipts, t)
        BY <4>5, <4>6, <4>7 DEF AddedTo
      <4> QED  BY <4>8 DEF more, t
    <3> QED  BY <3>1
  <2> HIDE DEF S
  <2>3. \A i \in Nat : i \in S
    BY <2>1, <2>2, NatSetInduction
  <2> QED  BY <2>3 DEF S
<1>12. n <= n
  BY <1>1
<1>13. AddedTo(base, attached[n], receipts, n)
  BY <1>1, <1>11, <1>12
<1> QED  BY <1>1, <1>9, <1>13

-----------------------------------------------------------------------------
(***************************************************************************)
(* The histories of the two modes together, and the drafts they show.      *)
(***************************************************************************)
Holds(shown, d) == \E i \in DOMAIN shown : d \in shown[i].drafts

LEMMA OnceInBoth ==
  ASSUME NEW x \in Seq(ShownMessages), NEW y \in Seq(ShownMessages), NEW t, NEW d,
         Once(x, t, d), Once(y, t, d), ~(Holds(x, d) /\ Holds(y, d))
  PROVE  Once(x \o y, t, d)
<1> DEFINE z == x \o y
           m == Len(x)
           n == Len(y)
<1>1. /\ m \in Nat /\ n \in Nat /\ DOMAIN x = 1 .. m /\ DOMAIN y = 1 .. n /\ DOMAIN z = 1 .. m + n
      /\ \A i \in 1 .. m + n : z[i] = IF i <= m THEN x[i] ELSE y[i - m]
  BY ConcatProperties, LenProperties
<1> HIDE DEF z, m, n
<1>2. \A i \in 1 .. m + n : IF i <= m THEN i \in 1 .. m ELSE i - m \in 1 .. n
  BY <1>1
<1>3. ASSUME NEW i \in 1 .. m + n, d \in z[i].drafts
      PROVE  /\ z[i].role = "assistant" /\ z[i].turn = t
             /\ \A j \in 1 .. m + n : d \in z[j].drafts => i = j
  <2>1. CASE i <= m
    <3>1. i \in 1 .. m /\ d \in x[i].drafts /\ z[i] = x[i]
      BY <1>1, <1>2, <1>3, <2>1
    <3>2. Holds(x, d) /\ ~Holds(y, d)
      BY <1>1, <3>1 DEF Holds
    <3>3. \A j \in 1 .. m + n : d \in z[j].drafts => j <= m /\ j \in 1 .. m /\ d \in x[j].drafts
      BY <1>1, <1>2, <3>2 DEF Holds
    <3>4. /\ x[i].role = "assistant" /\ x[i].turn = t
          /\ \A j \in 1 .. m : d \in x[j].drafts => i = j
      BY <1>1, <3>1 DEF Once
    <3> QED  BY <3>1, <3>3, <3>4
  <2>2. CASE ~(i <= m)
    <3>1. i - m \in 1 .. n /\ d \in y[i - m].drafts /\ z[i] = y[i - m]
      BY <1>1, <1>2, <1>3, <2>2
    <3>2. Holds(y, d) /\ ~Holds(x, d)
      BY <1>1, <3>1 DEF Holds
    <3>3. \A j \in 1 .. m + n : d \in z[j].drafts => j - m \in 1 .. n /\ d \in y[j - m].drafts
      BY <1>1, <1>2, <3>2 DEF Holds
    <3>4. /\ y[i - m].role = "assistant" /\ y[i - m].turn = t
          /\ \A j \in 1 .. n : d \in y[j].drafts => i - m = j
      BY <1>1, <3>1 DEF Once
    <3>5. \A j \in 1 .. m + n : d \in z[j].drafts => i - m = j - m
      BY <3>3, <3>4
    <3>6. \A j \in 1 .. m + n : i - m = j - m => i = j
      BY <1>1
    <3> QED  BY <3>1, <3>4, <3>5, <3>6
  <2> QED  BY <2>1, <2>2
<1> QED  BY <1>1, <1>3 DEF Once, z

\* What is loaded of a session.
LEMMA LoadedSession ==
  ASSUME TypeOK, DraftInv, NEW s \in Sessions, NEW a \in audit
  PROVE  LET shown == visibleHistory(history[s]) IN
         /\ shown \in Seq(ShownMessages) /\ Once(shown, a.by, a.draft)
         /\ Holds(shown, a.draft) => Carries(View(s), a.draft)
<1> DEFINE w == flushReceipts(View(s))
<1>1. View(s) \in Views /\ Attributed(View(s), audit)
  BY DEF DraftInv, ViewsAttributed
<1>2. /\ w \in Views /\ Attributed(w, audit) /\ \A d : Carries(w, d) <=> Carries(View(s), d)
  BY <1>1, FlushedView
<1>3. visibleHistory(history[s]) = w.out
  BY DEF visibleHistory, View
<1> HIDE DEF w
<1>4. w.out \in Seq(ShownMessages)
  BY <1>2 DEF Views
<1>5. Once(w.out, a.by, a.draft)
  <2> SUFFICES ASSUME NEW i \in DOMAIN w.out, a.draft \in w.out[i].drafts
               PROVE  /\ w.out[i].role = "assistant" /\ w.out[i].turn = a.by
                      /\ \A j \in DOMAIN w.out : a.draft \in w.out[j].drafts => i = j
    BY DEF Once
  <2>1. /\ w.out[i].role = "assistant" /\ Recorded(a.draft, w.out[i].turn, audit)
        /\ \A j \in DOMAIN w.out : a.draft \in w.out[j].drafts => i = j
    BY <1>2 DEF Attributed
  <2>2. w.out[i].turn = a.by
    BY <2>1 DEF Recorded, DraftInv, Numbered
  <2> QED  BY <2>1, <2>2
<1>6. Holds(w.out, a.draft) => Carries(w, a.draft)
  BY DEF Holds, Carries
<1> QED  BY <1>2, <1>3, <1>4, <1>5, <1>6

LEMMA DraftsAreShown ==
  ASSUME TypeOK, DraftInv
  PROVE  DraftsShown
<1> DEFINE Loaded(m) == IF row.session[m] \in gone \union {Nothing} THEN <<>>
                        ELSE visibleHistory(history[row.session[m]])
           base == Loaded("qa") \o Loaded("edit")
           detail == Detail
<1>1. detail = attachDraftReceipts(base, Receipts)
  BY DEF Detail
<1>2. Receipts \in [Turns -> SUBSET (1 .. MaxDrafts)]
  BY DEF Receipts, TypeOK
<1> SUFFICES ASSUME NEW a \in audit, HasUser(detail, a.turn)
             PROVE  LET Carrying == {i \in DOMAIN detail : a.draft \in detail[i].drafts} IN
                    /\ \E i \in Carrying : detail[i].turn = a.turn
                    /\ a.by = a.turn => Cardinality(Carrying) = 1
  <2> HIDE DEF detail
  <2> QED  BY DEF DraftsShown, HasUser, detail
<1>3. a.turn \in Turns /\ a.by \in Turns /\ a.draft \in 1 .. MaxDrafts
  BY DEF TypeOK
<1>4. /\ "qa" \in Modes /\ "edit" \in Modes
      /\ \A m \in Modes : row.session[m] \in 0 .. MaxSessions
  BY DEF Modes, TypeOK, Rows
<1>5. ASSUME NEW m \in Modes
      PROVE  /\ Loaded(m) \in Seq(ShownMessages) /\ Once(Loaded(m), a.by, a.draft)
             /\ Holds(Loaded(m), a.draft) => /\ row.session[m] \in Sessions
                                             /\ Carries(View(row.session[m]), a.draft)
  <2>1. CASE row.session[m] \in gone \union {Nothing}
    <3>1. Loaded(m) = <<>> /\ DOMAIN <<>> = {}
      BY <2>1
    <3> HIDE DEF Loaded
    <3> QED  BY <3>1, EmptySeq DEF Once, Holds
  <2>2. CASE row.session[m] \notin gone \union {Nothing}
    <3>1. row.session[m] \in Sessions
      BY <1>4, <2>2, Numbers
    <3>2. Loaded(m) = visibleHistory(history[row.session[m]])
      BY <2>2
    <3> HIDE DEF Loaded
    <3> QED  BY <3>1, <3>2, LoadedSession
  <2> QED  BY <2>1, <2>2
<1> HIDE DEF Loaded, detail
<1>6. ~(Holds(Loaded("qa"), a.draft) /\ Holds(Loaded("edit"), a.draft))
  <2> SUFFICES ASSUME Holds(Loaded("qa"), a.draft), Holds(Loaded("edit"), a.draft)
               PROVE  FALSE
    OBVIOUS
  <2>1. /\ row.session["qa"] \in Sessions /\ row.session["edit"] \in Sessions
        /\ Carries(View(row.session["qa"]), a.draft) /\ Carries(View(row.session["edit"]), a.draft)
    BY <1>4, <1>5
  <2>2. row.session["qa"] = row.session["edit"]
    BY <1>3, <2>1 DEF DraftInv, ViewsAttributed
  <2>3. Nothing \notin Sessions
    BY DEF Nothing, Sessions
  <2> QED  BY <2>1, <2>2, <2>3 DEF DraftInv, Separate
<1>7. base \in Seq(ShownMessages) /\ Once(base, a.by, a.draft)
  BY <1>4, <1>5, <1>6, OnceInBoth, ConcatProperties
<1> HIDE DEF base
<1>8. AddedTo(base, detail, Receipts, MaxTurns)
  BY <1>1, <1>2, <1>7, AttachedReceipts
<1>9. a.turn \in 1 .. MaxTurns /\ a.draft \in Receipts[a.turn]
  BY <1>3 DEF Receipts, Turns
<1>10. Shows(detail, a.turn, a.draft)
  BY <1>8, <1>9 DEF AddedTo
<1>11. ASSUME a.by = a.turn PROVE Once(detail, a.turn, a.draft)
  <2>1. \A t \in Turns : a.draft \in Receipts[t] => t = a.turn
    BY DEF Receipts, DraftInv, Numbered
  <2> QED  BY <1>7, <1>8, <1>11, <2>1 DEF AddedTo
<1>12. PICK i \in DOMAIN detail : a.draft \in detail[i].drafts /\ detail[i].turn = a.turn
  BY <1>10 DEF Shows
<1> DEFINE Carrying == {j \in DOMAIN detail : a.draft \in detail[j].drafts}
<1>13. a.by = a.turn => Cardinality(Carrying) = 1
  <2> SUFFICES ASSUME a.by = a.turn PROVE Cardinality(Carrying) = 1
    OBVIOUS
  <2>1. Carrying = {i}
    BY <1>11, <1>12 DEF Once
  <2> QED  BY <2>1, FS_Singleton
<1> QED  BY <1>12, <1>13

-----------------------------------------------------------------------------
(***************************************************************************)
(* DraftInv, conjunct by conjunct.                                         *)
(***************************************************************************)
\* A history that grows, and carries no draft another one carries.
LEMMA HistoryViews ==
  ASSUME TypeOK, ViewsAttributed, NEW s \in Sessions, NEW h, history' = [history EXCEPT ![s] = h],
         audit \subseteq audit', Seen(h) \in Views, Attributed(Seen(h), audit'),
         \A d : Carries(Seen(h), d) =>
           Carries(View(s), d) \/ \A r \in Sessions : ~Carries(View(r), d)
  PROVE  ViewsAttributed'
<1>1. View(s)' = Seen(h) /\ \A r \in Sessions \ {s} : View(r)' = View(r)
  BY DEF View, TypeOK
<1>2. \A r \in Sessions : View(r)' \in Views /\ Attributed(View(r)', audit')
  <2> SUFFICES ASSUME NEW r \in Sessions PROVE View(r)' \in Views /\ Attributed(View(r)', audit')
    OBVIOUS
  <2>1. CASE r = s
    BY <1>1, <2>1
  <2>2. CASE r # s
    <3>1. View(r)' = View(r) /\ View(r) \in Views /\ Attributed(View(r), audit)
      BY <1>1, <2>2 DEF ViewsAttributed
    <3>2. Attributed(View(r), audit')
      BY <3>1, MoreRecorded
    <3> QED  BY <3>1, <3>2
  <2> QED  BY <2>1, <2>2
<1>3. ASSUME NEW q \in Sessions, NEW r \in Sessions, NEW d \in 1 .. MaxDrafts,
             Carries(View(q)', d), Carries(View(r)', d)
      PROVE  q = r
  <2>1. CASE q # s /\ r # s
    BY <1>1, <1>3, <2>1 DEF ViewsAttributed
  <2>2. ASSUME NEW p \in Sessions \ {s}, Carries(View(p)', d), Carries(Seen(h), d)
        PROVE  FALSE
    <3>1. Carries(View(p), d)
      BY <1>1, <2>2
    <3>2. Carries(View(s), d)
      BY <2>2, <3>1
    <3> QED  BY <2>2, <3>1, <3>2 DEF ViewsAttributed
  <2> QED  BY <1>1, <1>3, <2>1, <2>2
<1> QED  BY <1>2, <1>3 DEF ViewsAttributed

\* What a message of the assistant makes of a history.
Says(h, more, trail) ==
  /\ more \in Seq(Messages) /\ Seen(more) \in Views /\ Attributed(Seen(more), trail)
  /\ Seen(more).turn = Seen(h).turn
  /\ \A d : Carries(Seen(more), d) <=> Carries(Seen(h), d)

LEMMA SaysNothing ==
  ASSUME NEW h \in Seq(Messages), NEW trail, Attributed(Seen(h), trail)
  PROVE  Says(h, h, trail)
BY SeenType DEF Says

LEMMA SaysOne ==
  ASSUME NEW h \in Seq(Messages), NEW trail, Attributed(Seen(h), trail), NEW blank \in BOOLEAN
  PROVE  Says(h, Append(h, Assistant(blank)), trail)
<1> DEFINE m == Assistant(blank)
           more == Append(h, m)
<1>1. m \in Messages
  BY MessageTypes
<1> HIDE DEF m
<1>2. more \in Seq(Messages) /\ Seen(more) = See(Seen(h), m) /\ Seen(h) \in Views
  BY <1>1, AppendProperties, SeenAppend, SeenType
<1>3. /\ See(Seen(h), m) \in Views /\ Attributed(See(Seen(h), m), trail)
      /\ See(Seen(h), m).turn = Seen(h).turn
      /\ \A d : Carries(See(Seen(h), m), d) <=> Carries(Seen(h), d)
  BY <1>2, SeesAssistant DEF m
<1> HIDE DEF more
<1>4. Says(h, more, trail)
  BY <1>2, <1>3 DEF Says
<1> QED  BY <1>4 DEF more, m

LEMMA SaysMore ==
  ASSUME NEW h, NEW more, NEW most, NEW trail, Says(h, more, trail), Says(more, most, trail)
  PROVE  Says(h, most, trail)
BY DEF Says

\* The turns whose prompts run go on with their sessions.
LEMMA RunningKept ==
  ASSUME RunningSeen, NEW t \in Turns, NEW r, turn'[t] = r,
         \A u \in Turns \ {t} : turn'[u] = turn[u],
         running' \subseteq running, running \subseteq Turns, history' = history,
         turn[t].pc \in {"cursor", "mode", "over"} =>
           r.pc \in {"cursor", "mode", "over"} /\ r.session = turn[t].session,
         r.pc \in WithItsSession => r.session # Nothing
  PROVE  RunningSeen'
<1>2. \A u \in Turns : turn'[u].pc \in WithItsSession => turn'[u].session # Nothing
  BY DEF RunningSeen
<1>3. ASSUME NEW u \in running'
      PROVE  /\ turn'[u].pc \in {"cursor", "mode", "over"} /\ turn'[u].session # Nothing
             /\ Seen(history'[turn'[u].session]).turn = u
  <2>1. /\ u \in Turns /\ turn[u].pc \in {"cursor", "mode", "over"} /\ turn[u].session # Nothing
        /\ Seen(history[turn[u].session]).turn = u
    BY <1>3 DEF RunningSeen, View
  <2>2. turn'[u].pc \in {"cursor", "mode", "over"} /\ turn'[u].session = turn[u].session
    <3>1. CASE u = t
      BY <2>1, <3>1
    <3>2. CASE u # t
      BY <2>1, <3>2
    <3> QED  BY <3>1, <3>2
  <2> QED  BY <2>1, <2>2
<1> QED  BY <1>2, <1>3 DEF RunningSeen, View

\* No turn has moved, and what was said leaves the turns of the histories.
LEMMA RunningStays ==
  ASSUME RunningSeen, turn' = turn, running' \subseteq running,
         \A t \in running' : View(turn[t].session)'.turn = View(turn[t].session).turn
  PROVE  RunningSeen'
BY DEF RunningSeen

\* No session was made or written.
LEMMA SeparateKept ==
  ASSUME Separate, row'.session = row.session, made' = made, viewer' \in {viewer, NoViewer},
         \A u \in Turns : Pending(u)' => Pending(u) /\ turn'[u].source = turn[u].source
  PROVE  Separate'
<1>1. viewer'.pc = "set" => viewer' = viewer
  BY DEF NoViewer
<1> QED  BY <1>1 DEF Separate

\* A session that was made is written to the row.
LEMMA SeparateWrites ==
  ASSUME TypeOK, Separate, NEW m \in Modes, NEW s, row' = [row EXCEPT !.session[m] = s],
         s # Nothing, s <= made, made' = made,
         \A n \in Modes : row.session[n] # s,
         viewer' \in {viewer, NoViewer}, viewer'.pc = "set" => viewer'.session # s,
         \A u \in Turns : Pending(u)' =>
           Pending(u) /\ turn'[u].source = turn[u].source /\ turn[u].source # s
  PROVE  Separate'
<1>1. viewer'.pc = "set" => viewer' = viewer
  BY DEF NoViewer
<1>2. row'.session[m] = s /\ \A n \in Modes \ {m} : row'.session[n] = row.session[n]
  BY DEF TypeOK, Rows
<1>3. Modes = {"qa", "edit"}
  BY DEF Modes
<1>4. row'.session["qa"] = row'.session["edit"] => row'.session["qa"] = Nothing
  BY <1>2, <1>3 DEF Separate
<1>5. \A n \in Modes : row'.session[n] <= made'
  BY <1>2 DEF Separate
<1>6. ASSUME NEW u \in Turns, Pending(u)'
      PROVE  /\ turn'[u].source # Nothing /\ turn'[u].source <= made'
             /\ \A n \in Modes : row'.session[n] # turn'[u].source
             /\ viewer'.pc = "set" => viewer'.session # turn'[u].source
  BY <1>1, <1>2, <1>6 DEF Separate
<1>7. \A u, w \in Turns : Pending(u)' /\ Pending(w)' /\ turn'[u].source = turn'[w].source => u = w
  BY DEF Separate
<1>8. viewer'.pc = "set" => /\ viewer'.session # Nothing /\ viewer'.session <= made'
                            /\ \A n \in Modes : row'.session[n] # viewer'.session
  BY <1>1, <1>2 DEF Separate
<1> QED  BY <1>4, <1>5, <1>6, <1>7, <1>8 DEF Separate

\* A session that is made is larger than those before.
LEMMA SeparateMakes ==
  ASSUME TypeOK, Separate, made' = made + 1, row' = row,
         \/ /\ viewer' = viewer
            /\ \E t \in Turns : /\ turn'[t].source = made + 1
                                /\ \A u \in Turns \ {t} : turn'[u] = turn[u]
         \/ turn' = turn /\ viewer'.session = made + 1
  PROVE  Separate'
<1>1. /\ made \in Nat /\ made # made + 1 /\ made + 1 # Nothing
      /\ \A m \in Modes : row.session[m] \in Nat
      /\ \A u \in Turns : turn[u].source \in Nat
      /\ viewer.session \in Nat
  BY ConversationAssumption DEF TypeOK, Rows, TurnRecords, Viewers, Nothing
<1>2. /\ \A m \in Modes : row.session[m] <= made + 1 /\ row.session[m] # made + 1
      /\ \A u \in Turns : Pending(u) => turn[u].source <= made + 1 /\ turn[u].source # made + 1
      /\ viewer.pc = "set" => viewer.session <= made + 1 /\ viewer.session # made + 1
      /\ made + 1 <= made + 1
  <2>1. \A n \in Nat : n <= made => n <= made + 1 /\ n # made + 1
    BY <1>1
  <2> QED  BY <1>1, <2>1 DEF Separate
<1>3. CASE /\ viewer' = viewer
           /\ \E t \in Turns : /\ turn'[t].source = made + 1
                               /\ \A u \in Turns \ {t} : turn'[u] = turn[u]
  <2>1. PICK t \in Turns : turn'[t].source = made + 1 /\ \A u \in Turns \ {t} : turn'[u] = turn[u]
    BY <1>3
  <2>2. \A u \in Turns \ {t} : Pending(u)' <=> Pending(u)
    BY <2>1 DEF Pending
  <2>3. ASSUME NEW u \in Turns, Pending(u)'
        PROVE  /\ turn'[u].source # Nothing /\ turn'[u].source <= made'
               /\ \A n \in Modes : row'.session[n] # turn'[u].source
               /\ viewer'.pc = "set" => viewer'.session # turn'[u].source
    BY <1>1, <1>2, <1>3, <2>1, <2>2, <2>3 DEF Separate
  <2>4. ASSUME NEW u \in Turns, NEW w \in Turns, Pending(u)', Pending(w)',
               turn'[u].source = turn'[w].source
        PROVE  u = w
    BY <1>2, <2>1, <2>2, <2>4 DEF Separate
  <2>5. viewer'.pc = "set" => /\ viewer'.session # Nothing /\ viewer'.session <= made'
                              /\ \A n \in Modes : row'.session[n] # viewer'.session
    BY <1>2, <1>3 DEF Separate
  <2> QED  BY <1>2, <2>3, <2>4, <2>5 DEF Separate
<1>4. CASE turn' = turn /\ viewer'.session = made + 1
  <2>1. \A u \in Turns : Pending(u)' <=> Pending(u)
    BY <1>4 DEF Pending
  <2> QED  BY <1>1, <1>2, <1>4, <2>1 DEF Separate
<1> QED  BY <1>3, <1>4

-----------------------------------------------------------------------------
(***************************************************************************)
(* Each step keeps DraftInv.                                               *)
(***************************************************************************)
\* A step of submit that says nothing to Hermes and writes no session.
LEMMA TurnSteps ==
  ASSUME Inv, DraftInv, NEW t \in Turns, NEW r, turn'[t] = r,
         \A u \in Turns \ {t} : turn'[u] = turn[u],
         row'.session = row.session, UNCHANGED <<viewer, audit, made, history, running>>,
         turn[t].pc \in {"cursor", "mode", "over"} =>
           r.pc \in {"cursor", "mode", "over"} /\ r.session = turn[t].session,
         r.pc \in WithItsSession => r.session # Nothing, r.pc \notin {"set", "setSource"}
  PROVE  DraftInv'
<1>1. Numbered' /\ ViewsAttributed'
  BY DEF DraftInv, Numbered, ViewsAttributed, View
<1>2. running' \subseteq running /\ running \subseteq Turns /\ history' = history
  BY DEF Inv, TypeOK
<1>3. RunningSeen'
  BY <1>2, RunningKept DEF DraftInv
<1>4. \A u \in Turns : Pending(u)' => Pending(u) /\ turn'[u].source = turn[u].source
  BY DEF Pending
<1>5. Separate'
  BY <1>4, SeparateKept DEF DraftInv
<1> QED  BY <1>1, <1>3, <1>5 DEF DraftInv

LEMMA FailDrafts ==
  ASSUME Inv, DraftInv, NEW t \in Turns, turn' = [turn EXCEPT ![t] = Over(t)],
         row'.session = row.session, UNCHANGED <<viewer, audit, made, history, running>>
  PROVE  DraftInv'
<1>1. Over(t).pc = "over" /\ Over(t).session = turn[t].session /\ Over(t) \in TurnRecords
  BY OverType DEF Inv, TypeOK, Over, NoTurn
<1>2. turn'[t] = Over(t) /\ \A u \in Turns \ {t} : turn'[u] = turn[u]
  BY <1>1, OneTurn DEF Inv
<1> QED  BY <1>1, <1>2, TurnSteps DEF WithItsSession

LEMMA BeginDrafts ==
  ASSUME Inv, DraftInv, NEW t \in Turns,
         Reserve(t) \/ \E m \in Modes : AssistantConversation(t, m)
  PROVE  DraftInv'
<1>1. turn[t] \in TurnRecords /\ turn \in [Turns -> TurnRecords]
  BY DEF Inv, TypeOK
<1>2. UNCHANGED <<viewer, audit, made, history, running>> /\ row'.session = row.session
  BY DEF Reserve, AssistantConversation, hermesVars
<1>3. turn[t].pc \in {"new", "reserve"}
  BY DEF Reserve, AssistantConversation
<1>4. ASSUME NEW r, turn' = [turn EXCEPT ![t] = r], r.pc \in {"reserve", "ensure"}
      PROVE  DraftInv'
  <2>1. turn'[t] = r /\ \A u \in Turns \ {t} : turn'[u] = turn[u]
    BY <1>1, <1>4
  <2> QED  BY <1>2, <1>3, <1>4, <2>1, TurnSteps DEF WithItsSession
<1>5. CASE \E m \in Modes : AssistantConversation(t, m)
  <2>1. PICK m \in Modes : AssistantConversation(t, m)
    BY <1>5
  <2> DEFINE r == [turn[t] EXCEPT !.pc = "reserve", !.mode = m, !.read = row,
                                  !.counts = counted[row.lastMode]]
  <2>2. turn' = [turn EXCEPT ![t] = r]
    BY <2>1 DEF AssistantConversation
  <2>3. r.pc = "reserve"
    BY <1>1 DEF TurnRecords
  <2> HIDE DEF r
  <2> QED  BY <1>4, <2>2, <2>3
<1>6. CASE Reserve(t) /\ active = Nothing
  <2> DEFINE r == [turn[t] EXCEPT !.pc = "ensure"]
  <2>1. turn' = [turn EXCEPT ![t] = r]
    BY <1>6 DEF Reserve, Goto
  <2>2. r.pc = "ensure"
    BY <1>1 DEF TurnRecords
  <2> HIDE DEF r
  <2> QED  BY <1>4, <2>1, <2>2
<1>7. CASE Reserve(t) /\ active # Nothing
  <2>1. turn' = [turn EXCEPT ![t] = Over(t)]
    BY <1>7 DEF Reserve
  <2> QED  BY <1>2, <2>1, FailDrafts
<1> QED  BY <1>5, <1>6, <1>7

\* ensureSession gives the turn the session, and its source.
LEMMA Ensured ==
  ASSUME TypeOK, NEW t \in Turns, NEW read, NEW s, s # Nothing,
         turn[t].pc \in {"ensure", "set", "ensureSource", "setSource"},
         turn[t].pc \in WithItsSession => turn[t].session # Nothing
  PROVE  LET r == WithSession(t, read, s) IN
         r.pc \in {"ensureSource", "submit", "history"} /\ r.session # Nothing
<1>1. turn[t] \in TurnRecords
  BY DEF TypeOK
<1>2. CASE turn[t].pc \in {"ensure", "set"}
  <2>1. WithSession(t, read, s) = [turn[t] EXCEPT !.read = read, !.session = s,
                                   !.pc = IF Sourced(t, read) THEN "ensureSource" ELSE "submit"]
    BY <1>2 DEF WithSession
  <2> QED  BY <1>1, <2>1 DEF TurnRecords
<1>3. CASE turn[t].pc \in {"ensureSource", "setSource"}
  <2>1. WithSession(t, read, s) = [turn[t] EXCEPT !.source = s, !.pc = "history"]
    BY <1>3 DEF WithSession
  <2> QED  BY <1>1, <1>3, <2>1 DEF TurnRecords, WithItsSession
<1> QED  BY <1>2, <1>3

LEMMA KeepDrafts ==
  ASSUME Inv, DraftInv, NEW t \in Turns, KeepSession(t)
  PROVE  DraftInv'
<1> DEFINE s == turn[t].read.session[Target(t)]
           r == WithSession(t, turn[t].read, s)
<1>1. /\ turn[t].pc \in {"ensure", "ensureSource"} /\ s # Nothing
      /\ turn' = [turn EXCEPT ![t] = r]
      /\ UNCHANGED <<viewer, audit, made, history, running>> /\ row'.session = row.session
  BY DEF KeepSession, hermesVars
<1> HIDE DEF s
<1>2. r.pc \in {"ensureSource", "submit", "history"} /\ r.session # Nothing
  BY <1>1, Ensured DEF Inv, DraftInv, RunningSeen
<1> HIDE DEF r
<1>3. turn'[t] = r /\ \A u \in Turns \ {t} : turn'[u] = turn[u]
  BY <1>1 DEF Inv, TypeOK
<1> QED  BY <1>1, <1>2, <1>3, TurnSteps

LEMMA CreateDrafts ==
  ASSUME Inv, DraftInv, NEW t \in Turns, CreateSession(t)
  PROVE  DraftInv'
<1> DEFINE r == [turn[t] EXCEPT !.pc = IF @ = "ensure" THEN "set" ELSE "setSource",
                                !.source = made + 1]
<1>1. /\ turn[t].pc \in {"ensure", "ensureSource"} /\ made' = made + 1
      /\ turn' = [turn EXCEPT ![t] = r]
      /\ UNCHANGED <<row, viewer, audit, history, running>>
  BY DEF CreateSession
<1>2. turn[t] \in TurnRecords /\ turn \in [Turns -> TurnRecords]
  BY DEF Inv, TypeOK
<1>3. /\ r.pc = (IF turn[t].pc = "ensure" THEN "set" ELSE "setSource") /\ r.source = made + 1
      /\ r.session = turn[t].session
  BY <1>2 DEF TurnRecords
<1> HIDE DEF r
<1>4. turn'[t] = r /\ \A u \in Turns \ {t} : turn'[u] = turn[u]
  BY <1>1, <1>2
<1>5. Numbered' /\ ViewsAttributed'
  BY <1>1 DEF DraftInv, Numbered, ViewsAttributed, View
<1>6. r.pc \in WithItsSession => r.session # Nothing
  BY <1>1, <1>3 DEF WithItsSession, DraftInv, RunningSeen
<1>7. running' \subseteq running /\ running \subseteq Turns
  BY <1>1 DEF Inv, TypeOK
<1>8. RunningSeen'
  BY <1>1, <1>4, <1>6, <1>7, RunningKept DEF DraftInv
<1>9. Separate'
  BY <1>1, <1>3, <1>4, SeparateMakes DEF Inv, DraftInv
<1> QED  BY <1>5, <1>8, <1>9 DEF DraftInv

LEMMA SetDrafts ==
  ASSUME Inv, DraftInv, NEW t \in Turns, SetAssistantSession(t)
  PROVE  DraftInv'
<1> DEFINE s == turn[t].source
           read == [turn[t].read EXCEPT !.session[Target(t)] = s]
           w == WithSession(t, read, s)
           r == [w EXCEPT !.source = IF turn[t].pc = "set" THEN Nothing ELSE s]
<1>1. /\ turn[t].pc \in {"set", "setSource"}
      /\ turn' = [turn EXCEPT ![t] = r] /\ row' = [row EXCEPT !.session[Target(t)] = s]
      /\ UNCHANGED <<viewer, audit, made, history, running>>
  BY DEF SetAssistantSession, hermesVars
<1>2. TypeOK /\ turn[t] \in TurnRecords /\ turn \in [Turns -> TurnRecords] /\ Target(t) \in Modes
  BY DEF Inv, TypeOK, TurnRecords, Target, Rows
<1>3. /\ Pending(t) /\ s # Nothing /\ s <= made
      /\ \A m \in Modes : row.session[m] # s
      /\ viewer.pc = "set" => viewer.session # s
      /\ \A u \in Turns \ {t} : Pending(u) => turn[u].source # s
  BY <1>1 DEF Pending, DraftInv, Separate
<1>4. w.pc \in {"ensureSource", "submit", "history"} /\ w.session # Nothing
  <2> HIDE DEF s, read
  <2>1. turn[t].pc \in WithItsSession => turn[t].session # Nothing
    BY DEF DraftInv, RunningSeen
  <2> QED  BY <1>1, <1>2, <1>3, <2>1, Ensured
<1>5. r.pc = w.pc /\ r.session = w.session
  BY DEF WithSession
<1> HIDE DEF r, w, read
<1>6. turn'[t] = r /\ \A u \in Turns \ {t} : turn'[u] = turn[u]
  BY <1>1, <1>2
<1>7. Numbered' /\ ViewsAttributed'
  BY <1>1 DEF DraftInv, Numbered, ViewsAttributed, View
<1>8. running' \subseteq running /\ running \subseteq Turns /\ history' = history
  BY <1>1 DEF Inv, TypeOK
<1>9. RunningSeen'
  BY <1>1, <1>4, <1>5, <1>6, <1>8, RunningKept DEF DraftInv
<1>10. \A u \in Turns : Pending(u)' =>
         Pending(u) /\ turn'[u].source = turn[u].source /\ turn[u].source # s
  BY <1>3, <1>4, <1>5, <1>6 DEF Pending
<1> HIDE DEF s
<1>11. Separate'
  BY <1>1, <1>2, <1>3, <1>10, SeparateWrites DEF DraftInv
<1> QED  BY <1>7, <1>9, <1>11 DEF DraftInv

LEMMA HandoffDrafts ==
  ASSUME Inv, DraftInv, NEW t \in Turns, buildHandoff(t)
  PROVE  DraftInv'
<1>1. PICK length, parts, counts :
        turn' = [turn EXCEPT ![t] = [@ EXCEPT !.pc = "submit", !.length = length, !.parts = parts,
                                              !.counts = counts]]
  BY DEF buildHandoff
<1> DEFINE r == [turn[t] EXCEPT !.pc = "submit", !.length = length, !.parts = parts,
                                !.counts = counts]
<1>2. turn[t] \in TurnRecords /\ turn \in [Turns -> TurnRecords] /\ turn[t].pc = "history"
  BY DEF Inv, TypeOK, buildHandoff
<1>3. UNCHANGED <<viewer, audit, made, history, running>> /\ row'.session = row.session
  BY DEF buildHandoff, hermesVars
<1>4. turn' = [turn EXCEPT ![t] = r]
  BY <1>1, <1>2
<1>5. r.pc = "submit" /\ r.session = turn[t].session
  BY <1>2 DEF TurnRecords
<1> HIDE DEF r
<1>6. turn'[t] = r /\ \A u \in Turns \ {t} : turn'[u] = turn[u]
  BY <1>2, <1>4
<1>7. r.session # Nothing
  BY <1>2, <1>5 DEF DraftInv, RunningSeen, WithItsSession
<1> QED  BY <1>2, <1>3, <1>5, <1>6, <1>7, TurnSteps

\* The history of a session after what is said in it, and the turns that run there.
LEMMA SaidIn ==
  ASSUME Inv, DraftInv, NEW s \in Sessions, NEW more, history' = [history EXCEPT ![s] = more],
         turn' = turn, row'.session = row.session, UNCHANGED <<viewer, made>>,
         running' \subseteq running, audit \subseteq audit', Numbered',
         more \in Seq(Messages), Attributed(Seen(more), audit'), Seen(more).turn = View(s).turn,
         \A d : Carries(Seen(more), d) =>
           Carries(View(s), d) \/ \A r \in Sessions : ~Carries(View(r), d)
  PROVE  DraftInv'
<1>1. ViewsAttributed'
  BY SeenType, HistoryViews DEF Inv, DraftInv
<1>2. ASSUME NEW t \in running' PROVE View(turn[t].session)'.turn = View(turn[t].session).turn
  <2>1. turn[t] \in TurnRecords /\ turn[t].session # Nothing
    BY <1>2 DEF Inv, TypeOK, DraftInv, RunningSeen
  <2>2. turn[t].session \in Sessions
    BY <2>1, Numbers DEF TurnRecords
  <2>3. history \in [Sessions -> Seq(Messages)]
    BY DEF Inv, TypeOK
  <2> QED  BY <2>2, <2>3 DEF View
<1>3. RunningSeen'
  BY <1>2, RunningStays DEF DraftInv
<1>4. Separate'
  <2>1. \A u \in Turns : Pending(u)' => Pending(u) /\ turn'[u].source = turn[u].source
    BY DEF Pending
  <2> QED  BY <2>1, SeparateKept DEF DraftInv
<1> QED  BY <1>1, <1>3, <1>4 DEF DraftInv

LEMMA SubmitDrafts ==
  ASSUME Inv, DraftInv, NEW t \in Turns, Submit(t)
  PROVE  DraftInv'
<1> DEFINE s == turn[t].session
<1>1. /\ turn[t].pc = "submit" /\ running' = running \union {t}
      /\ \A u \in running : turn[u].session # s
      /\ history' = [history EXCEPT ![s] = Append(@, User(t))]
      /\ UNCHANGED <<row, viewer, audit, made>>
  BY DEF Submit
<1>2. TypeOK /\ turn[t] \in TurnRecords /\ turn \in [Turns -> TurnRecords]
      /\ running \subseteq Turns /\ history \in [Sessions -> Seq(Messages)]
  BY DEF Inv, TypeOK
<1>3. s \in Sessions /\ s # Nothing
  <2>1. s # Nothing /\ s \in 0 .. MaxSessions
    BY <1>1, <1>2 DEF DraftInv, RunningSeen, WithItsSession, TurnRecords
  <2> QED  BY <2>1, Numbers
<1>4. PICK r : /\ turn' = [turn EXCEPT ![t] = r] /\ r.pc \in {"cursor", "mode", "over"}
               /\ r.session = s
  <2>1. CASE Fail(t)
    <3>1. Over(t).pc = "over" /\ Over(t).session = s
      BY <1>2, OverType DEF Over, NoTurn
    <3> QED  BY <2>1, <3>1 DEF Fail
  <2>2. CASE Goto(t, IF turn[t].source # Nothing THEN "cursor" ELSE "mode")
    <3> DEFINE pc == IF turn[t].source # Nothing THEN "cursor" ELSE "mode"
               q == [turn[t] EXCEPT !.pc = pc]
    <3>1. turn' = [turn EXCEPT ![t] = q]
      BY <2>2 DEF Goto
    <3>2. q.pc = pc /\ q.session = s
      BY <1>2 DEF TurnRecords
    <3> HIDE DEF q
    <3> QED  BY <3>1, <3>2
  <2> QED  BY <2>1, <2>2 DEF Submit
<1>5. turn'[t] = r /\ \A u \in Turns \ {t} : turn'[u] = turn[u]
  BY <1>2, <1>4
<1> DEFINE h == history[s]
           more == Append(h, User(t))
<1>6. history' = [history EXCEPT ![s] = more] /\ h \in Seq(Messages)
  BY <1>1, <1>2, <1>3
<1>7. Seen(more) = See(View(s), User(t))
  BY <1>6, MessageTypes, SeenAppend DEF View
<1>8. View(s) \in Views /\ Attributed(View(s), audit)
  BY <1>3 DEF DraftInv, ViewsAttributed
<1>9. /\ Seen(more) \in Views /\ Attributed(Seen(more), audit) /\ Seen(more).turn = t
      /\ \A d : Carries(Seen(more), d) <=> Carries(View(s), d)
  BY <1>7, <1>8, SeesUser
<1> HIDE DEF h, more
<1>10. ViewsAttributed'
  BY <1>1, <1>2, <1>3, <1>6, <1>9, HistoryViews DEF DraftInv
<1>11. Numbered'
  BY <1>1 DEF DraftInv, Numbered
<1>12. \A u \in Turns : turn'[u].pc \in WithItsSession => turn'[u].session # Nothing
  BY <1>3, <1>4, <1>5 DEF DraftInv, RunningSeen
<1>13. ASSUME NEW u \in running'
       PROVE  /\ turn'[u].pc \in {"cursor", "mode", "over"} /\ turn'[u].session # Nothing
              /\ Seen(history'[turn'[u].session]).turn = u
  <2>1. CASE u = t
    <3>1. history'[s] = more
      BY <1>2, <1>3, <1>6
    <3> QED  BY <1>3, <1>4, <1>5, <1>9, <2>1, <3>1
  <2>2. CASE u # t
    <3>1. /\ u \in running /\ u \in Turns /\ turn'[u] = turn[u]
          /\ turn[u].pc \in {"cursor", "mode", "over"} /\ turn[u].session # Nothing
          /\ Seen(history[turn[u].session]).turn = u
      BY <1>1, <1>2, <1>5, <1>13, <2>2 DEF DraftInv, RunningSeen, View
    <3>2. history'[turn[u].session] = history[turn[u].session]
      <4>1. turn[u].session \in Sessions /\ turn[u].session # s
        BY <1>1, <1>2, <3>1, Numbers DEF TurnRecords
      <4> QED  BY <1>2, <1>6, <4>1
    <3> QED  BY <3>1, <3>2
  <2> QED  BY <2>1, <2>2
<1>14. RunningSeen'
  BY <1>12, <1>13 DEF RunningSeen, View
<1>15. Separate'
  <2>1. \A u \in Turns : Pending(u)' => Pending(u) /\ turn'[u].source = turn[u].source
    BY <1>4, <1>5 DEF Pending
  <2> QED  BY <1>1, <2>1, SeparateKept DEF DraftInv
<1> QED  BY <1>10, <1>11, <1>14, <1>15 DEF DraftInv

LEMMA EndDrafts ==
  ASSUME Inv, DraftInv, NEW t \in Turns,
         UpdateAssistantHandoffCursor(t) \/ UpdateAssistantMode(t) \/ SubmitFails(t)
  PROVE  DraftInv'
<1>1. turn[t] \in TurnRecords /\ turn \in [Turns -> TurnRecords] /\ row \in Rows
  BY DEF Inv, TypeOK
<1>2. UNCHANGED <<viewer, audit, made, history, running>>
  BY DEF UpdateAssistantHandoffCursor, UpdateAssistantMode, SubmitFails, hermesVars
<1>3. CASE UpdateAssistantHandoffCursor(t)
  <2> DEFINE r == [turn[t] EXCEPT !.pc = "mode"]
  <2>1. turn[t].pc = "cursor" /\ turn' = [turn EXCEPT ![t] = r]
    BY <1>3 DEF UpdateAssistantHandoffCursor, Goto
  <2>2. r.pc = "mode" /\ r.session = turn[t].session
    BY <1>1 DEF TurnRecords
  <2> HIDE DEF r
  <2>3. turn'[t] = r /\ \A u \in Turns \ {t} : turn'[u] = turn[u]
    BY <1>1, <2>1
  <2>4. r.session # Nothing
    BY <2>1, <2>2 DEF DraftInv, RunningSeen, WithItsSession
  <2>5. row'.session = row.session
    BY <1>1, <1>3 DEF UpdateAssistantHandoffCursor, Rows
  <2> QED  BY <1>2, <2>2, <2>3, <2>4, <2>5, TurnSteps
<1>4. CASE UpdateAssistantMode(t)
  <2>1. turn' = [turn EXCEPT ![t] = Over(t)] /\ row'.session = row.session
    BY <1>1, <1>4 DEF UpdateAssistantMode, Rows
  <2> QED  BY <1>2, <2>1, FailDrafts
<1>5. CASE SubmitFails(t)
  <2>1. turn' = [turn EXCEPT ![t] = Over(t)] /\ row' = row
    BY <1>5 DEF SubmitFails, Fail
  <2> QED  BY <1>2, <2>1, FailDrafts
<1> QED  BY <1>3, <1>4, <1>5

LEMMA IdleDrafts ==
  ASSUME Inv, DraftInv, UNCHANGED <<row, turn, viewer, audit, made, history>>,
         running' \subseteq running
  PROVE  DraftInv'
<1>1. Numbered' /\ ViewsAttributed'
  BY DEF DraftInv, Numbered, ViewsAttributed, View
<1>2. RunningSeen'
  <2>1. \A t \in running' : View(turn[t].session)'.turn = View(turn[t].session).turn
    BY DEF View
  <2> QED  BY <2>1, RunningStays DEF DraftInv
<1>3. Separate'
  BY DEF DraftInv, Separate, Pending
<1> QED  BY <1>1, <1>2, <1>3 DEF DraftInv

LEMMA OtherDrafts ==
  ASSUME Inv, DraftInv, (\E t \in Turns : Stop(t)) \/ \E s \in Sessions : Lose(s)
  PROVE  DraftInv'
<1>1. UNCHANGED <<row, turn, viewer, audit, made, history>> /\ running' \subseteq running
  BY DEF Stop, Lose, hermesVars
<1> QED  BY <1>1, IdleDrafts

LEMMA ViewDrafts ==
  ASSUME Inv, DraftInv, ViewSet \/ ViewFails \/ \E m \in Modes : ViewCreate(m)
  PROVE  DraftInv'
<1>1. UNCHANGED <<turn, audit, history, running>>
  BY DEF ViewSet, ViewFails, ViewCreate, hermesVars
<1>2. Numbered' /\ ViewsAttributed'
  BY <1>1 DEF DraftInv, Numbered, ViewsAttributed, View
<1>3. RunningSeen'
  <2>1. \A t \in running' : View(turn[t].session)'.turn = View(turn[t].session).turn
    BY <1>1 DEF View
  <2> QED  BY <1>1, <2>1, RunningStays DEF DraftInv
<1>4. \A u \in Turns : Pending(u)' => Pending(u) /\ turn'[u].source = turn[u].source
  BY <1>1 DEF Pending
<1>5. Separate'
  <2>1. CASE ViewFails
    <3>1. row' = row /\ made' = made /\ viewer' = NoViewer
      BY <2>1 DEF ViewFails, hermesVars
    <3> QED  BY <1>4, <3>1, SeparateKept DEF DraftInv
  <2>2. CASE ViewSet
    <3> DEFINE s == viewer.session
               m == viewer.mode
    <3>1. /\ row' = [row EXCEPT !.session[m] = s] /\ made' = made /\ viewer' = NoViewer
          /\ viewer.pc = "set" /\ m \in Modes
      BY <2>2 DEF ViewSet, hermesVars, Inv, TypeOK, Viewers
    <3>2. /\ s # Nothing /\ s <= made /\ \A n \in Modes : row.session[n] # s
          /\ \A u \in Turns : Pending(u) => turn[u].source # s
      BY <3>1 DEF DraftInv, Separate
    <3>3. viewer'.pc # "set"
      BY <3>1 DEF NoViewer
    <3> HIDE DEF s, m
    <3> QED  BY <1>4, <3>1, <3>2, <3>3, SeparateWrites DEF Inv, DraftInv
  <2>3. CASE \E m \in Modes : ViewCreate(m)
    <3>1. made' = made + 1 /\ row' = row /\ turn' = turn /\ viewer'.session = made + 1
      BY <2>3 DEF ViewCreate
    <3> QED  BY <3>1, SeparateMakes DEF Inv, DraftInv
  <2> QED  BY <2>1, <2>2, <2>3
<1> QED  BY <1>2, <1>3, <1>5 DEF DraftInv

LEMMA Appended ==
  ASSUME NEW h \in Seq(Messages), NEW a \in Messages, NEW b \in Messages
  PROVE  h \o <<a>> = Append(h, a) /\ h \o <<a, b>> = Append(Append(h, a), b) /\ h \o <<>> = h
OBVIOUS

\* The next draft is in no history, and those who look for it find one record.
LEMMA NextDraft ==
  ASSUME Inv, DraftInv, NEW t \in Turns, NEW u \in Turns, NEW a,
         a = [draft |-> Draft, turn |-> u, by |-> t], audit' = audit \union {a}
  PROVE  /\ Numbered'
         /\ \A s \in Sessions : ~Carries(View(s), Draft)
<1>1. IsFiniteSet(audit) /\ Cardinality(audit) \in Nat
  BY FS_CardinalityType DEF Inv
<1>2. \A b \in audit : b.draft \in Nat /\ b.draft <= Cardinality(audit)
  BY DEF Inv, TypeOK, DraftInv, Numbered
<1>3. a.draft = Draft /\ Draft = Cardinality(audit) + 1
  BY DEF Draft
<1> HIDE DEF Draft
<1>4. \A b \in audit : b.draft # Draft
  BY <1>1, <1>2, <1>3
<1>5. Cardinality(audit') = Draft
  <2>1. a \notin audit
    BY <1>3, <1>4
  <2> QED  BY <1>1, <1>3, <2>1, FS_AddElement
<1>6. Numbered'
  <2>1. \A b \in audit' : b.draft <= Draft
    BY <1>1, <1>2, <1>3
  <2>2. ASSUME NEW b \in audit', NEW c \in audit', b.draft = c.draft PROVE b = c
    <3>1. CASE b = a \/ c = a
      BY <1>3, <1>4, <2>2, <3>1
    <3>2. CASE b # a /\ c # a
      BY <2>2, <3>2 DEF DraftInv, Numbered
    <3> QED  BY <3>1, <3>2
  <2> QED  BY <1>5, <2>1, <2>2 DEF Numbered
<1>7. ASSUME NEW s \in Sessions, Carries(View(s), Draft) PROVE FALSE
  <2>1. Attributed(View(s), audit)
    BY DEF DraftInv, ViewsAttributed
  <2>2. \E b \in audit : b.draft = Draft
    BY <1>7, <2>1 DEF Carries, Attributed, Recorded
  <2> QED  BY <1>4, <2>2
<1> QED  BY <1>6, <1>7

LEMMA RunningSession ==
  ASSUME Inv, DraftInv, NEW t \in running
  PROVE  LET s == turn[t].session IN
         /\ s \in Sessions /\ history[s] \in Seq(Messages) /\ t \in Turns
         /\ View(s).turn = t /\ Attributed(View(s), audit)
<1>1. turn[t] \in TurnRecords /\ t \in Turns /\ turn[t].session # Nothing /\ View(turn[t].session).turn = t
  BY DEF Inv, TypeOK, DraftInv, RunningSeen
<1>2. turn[t].session \in Sessions
  BY <1>1, Numbers DEF TurnRecords
<1> QED  BY <1>1, <1>2 DEF Inv, TypeOK, DraftInv, ViewsAttributed

LEMMA ApplyDrafts ==
  ASSUME Inv, DraftInv, NEW t \in Turns, NEW u \in Turns, ApplyDraftChanges(t, u)
  PROVE  DraftInv'
<1> DEFINE s == turn[t].session
           h == history[s]
           a == [draft |-> Draft, turn |-> u, by |-> t]
<1>1. /\ t \in running /\ Draft <= MaxDrafts
      /\ audit' = audit \union {a}
      /\ UNCHANGED <<row, turn, viewer, made, running>>
  BY DEF ApplyDraftChanges
<1>2. s \in Sessions /\ h \in Seq(Messages) /\ View(s).turn = t /\ Attributed(View(s), audit)
  BY <1>1, RunningSession
<1>3. Numbered' /\ \A r \in Sessions : ~Carries(View(r), Draft)
  BY <1>1, NextDraft
<1>4. Draft \in 1 .. MaxDrafts
  BY <1>1, FS_CardinalityType, ConversationAssumption DEF Inv, Draft
<1>5. Recorded(Draft, t, audit')
  <2>1. a.draft = Draft /\ a.by = t /\ a \in audit'
    BY <1>1
  <2> QED  BY <2>1 DEF Recorded
<1> HIDE DEF a
<1>6. audit \subseteq audit' /\ Attributed(Seen(h), audit')
  BY <1>1, <1>2, MoreRecorded DEF View
<1>7. PICK blank \in BOOLEAN, heard \in BOOLEAN :
        LET said == <<Assistant(blank)>>
            result == IF heard THEN <<Tool({Draft})>> ELSE <<>>
        IN  history' = [history EXCEPT ![s] = @ \o said \o result]
  BY DEF ApplyDraftChanges
<1> DEFINE told == Append(h, Assistant(blank))
           more == IF heard THEN Append(told, Tool({Draft})) ELSE told
<1>8. Says(h, told, audit')
  BY <1>2, <1>6, SaysOne
<1>9. Tool({Draft}) \in Messages /\ Assistant(blank) \in Messages
  BY <1>4, MessageTypes
<1>10. history' = [history EXCEPT ![s] = more]
  <2> DEFINE said == <<Assistant(blank)>>
             result == IF heard THEN <<Tool({Draft})>> ELSE <<>>
  <2>1. history' = [history EXCEPT ![s] = (h \o said) \o result]
    BY <1>7
  <2>2. h \o said = told /\ told \in Seq(Messages)
    BY <1>2, <1>8, <1>9, Appended DEF Says
  <2> HIDE DEF told
  <2>3. told \o result = more
    BY <1>9, <2>2, Appended
  <2> QED  BY <2>1, <2>2, <2>3
<1>11. /\ more \in Seq(Messages) /\ Attributed(Seen(more), audit') /\ Seen(more).turn = View(s).turn
       /\ \A d : Carries(Seen(more), d) => Carries(View(s), d) \/ d = Draft
  <2>1. /\ told \in Seq(Messages) /\ Seen(told) \in Views /\ Attributed(Seen(told), audit')
        /\ Seen(told).turn = t /\ \A d : Carries(Seen(told), d) <=> Carries(View(s), d)
    BY <1>2, <1>8 DEF Says, View
  <2> HIDE DEF told
  <2>2. CASE ~heard
    BY <1>2, <2>1, <2>2
  <2>3. CASE heard
    <3> DEFINE w == See(Seen(told), Tool({Draft}))
    <3>1. more \in Seq(Messages) /\ Seen(more) = w
      BY <1>9, <2>1, <2>3, AppendProperties, SeenAppend
    <3>2. ~Carries(Seen(told), Draft) /\ Recorded(Draft, Seen(told).turn, audit') /\ Seen(told).turn # 0
      BY <1>2, <1>3, <1>5, <2>1 DEF Turns
    <3>3. /\ w \in Views /\ Attributed(w, audit') /\ w.turn = Seen(told).turn
          /\ \A d : Carries(w, d) <=> Carries(Seen(told), d) \/ d = Draft
      BY <1>4, <2>1, <3>2, SeesTool
    <3> HIDE DEF w, more
    <3> QED  BY <1>2, <2>1, <3>1, <3>3
  <2> QED  BY <2>2, <2>3
<1> HIDE DEF more, told, h
<1>12. \A d : Carries(Seen(more), d) =>
         Carries(View(s), d) \/ \A r \in Sessions : ~Carries(View(r), d)
  BY <1>3, <1>11
<1>13. running' \subseteq running /\ row'.session = row.session
  BY <1>1
<1> QED  BY <1>1, <1>2, <1>3, <1>6, <1>10, <1>11, <1>12, <1>13, SaidIn

LEMMA CompleteDrafts ==
  ASSUME Inv, DraftInv, NEW t \in Turns, Complete(t)
  PROVE  DraftInv'
<1> DEFINE s == turn[t].session
           h == history[s]
           one == Append(h, Assistant(FALSE))
           first == Append(h, Assistant(TRUE))
           two == Append(first, Assistant(FALSE))
<1>1. /\ t \in running /\ running' \subseteq running
      /\ UNCHANGED <<row, turn, viewer, audit, made>>
  BY DEF Complete
<1>2. s \in Sessions /\ h \in Seq(Messages) /\ Attributed(View(s), audit)
  BY <1>1, RunningSession
<1>3. Assistant(TRUE) \in Messages /\ Assistant(FALSE) \in Messages
  BY MessageTypes
<1>4. PICK more \in {h, one, two} : history' = [history EXCEPT ![s] = more]
  <2>1. PICK said \in {<<>>, <<Assistant(FALSE)>>, <<Assistant(TRUE), Assistant(FALSE)>>} :
          history' = [history EXCEPT ![s] = h \o said]
    BY DEF Complete
  <2>2. h \o <<>> = h /\ h \o <<Assistant(FALSE)>> = one
        /\ h \o <<Assistant(TRUE), Assistant(FALSE)>> = two
    BY <1>2, <1>3, Appended
  <2> HIDE DEF one, two
  <2>3. h \o said \in {h, one, two}
    BY <2>1, <2>2
  <2> QED  BY <2>1, <2>3
<1>5. Says(h, more, audit)
  <2>1. Attributed(Seen(h), audit)
    BY <1>2 DEF View
  <2> HIDE DEF s, h
  <2>2. Says(h, h, audit) /\ Says(h, one, audit) /\ Says(h, first, audit)
    BY <1>2, <2>1, SaysNothing, SaysOne
  <2> HIDE DEF first
  <2>3. first \in Seq(Messages) /\ Attributed(Seen(first), audit)
    BY <2>2 DEF Says
  <2>4. Says(first, two, audit)
    BY <2>3, SaysOne
  <2> HIDE DEF one, two
  <2>5. Says(h, two, audit)
    BY <2>2, <2>4, SaysMore
  <2> QED  BY <1>4, <2>2, <2>5
<1>6. /\ more \in Seq(Messages) /\ Attributed(Seen(more), audit') /\ Seen(more).turn = View(s).turn
      /\ \A d : Carries(Seen(more), d) => Carries(View(s), d)
  BY <1>1, <1>5 DEF Says, View
<1>7. Numbered' /\ audit \subseteq audit' /\ row'.session = row.session
  BY <1>1 DEF DraftInv, Numbered
<1> HIDE DEF h, one, first, two
<1> QED  BY <1>1, <1>2, <1>4, <1>6, <1>7, SaidIn

LEMMA InitDrafts == Init => DraftInv
<1> SUFFICES ASSUME Init PROVE DraftInv
  OBVIOUS
<1>1. audit = {} /\ running = {} /\ viewer = NoViewer /\ made = 0
  BY DEF Init
<1>2. \A m \in Modes : row.session[m] = Nothing
  BY DEF Init, EmptyRow
<1>3. \A s \in Sessions : View(s) = Unseen
  BY SeenNothing DEF Init, View
<1>4. Numbered
  BY <1>1 DEF Numbered
<1>5. ViewsAttributed
  <2>1. Unseen.pending = {} /\ Unseen.out = <<>> /\ DOMAIN <<>> = {}
    BY DEF Unseen
  <2>2. Attributed(Unseen, audit) /\ \A d : ~Carries(Unseen, d)
    BY <2>1 DEF Attributed, Carries
  <2> QED  BY <1>3, <2>2, UnseenType DEF ViewsAttributed
<1>6. \A t \in Turns : turn[t].pc = "new"
  BY DEF Init, NoTurn
<1>7. RunningSeen
  BY <1>1, <1>6 DEF RunningSeen, WithItsSession
<1>8. Separate
  <2>1. viewer.pc = "idle" /\ \A t \in Turns : ~Pending(t)
    BY <1>1, <1>6 DEF NoViewer, Pending
  <2>2. \A m \in Modes : row.session[m] <= made
    BY <1>1, <1>2 DEF Nothing
  <2> QED  BY <1>2, <2>1, <2>2 DEF Separate, Modes
<1> QED  BY <1>4, <1>5, <1>7, <1>8 DEF DraftInv

LEMMA StepDrafts == Inv /\ DraftInv /\ [Next]_vars => DraftInv'
<1> SUFFICES ASSUME Inv, DraftInv, [Next]_vars PROVE DraftInv'
  OBVIOUS
<1>1. CASE UNCHANGED vars
  <2>1. UNCHANGED <<row, turn, viewer, audit, made, history, running>>
    BY <1>1 DEF vars, hermesVars
  <2> QED  BY <2>1, IdleDrafts
<1>2. ASSUME NEW t \in Turns,
             \/ Reserve(t) \/ KeepSession(t) \/ CreateSession(t) \/ SetAssistantSession(t)
             \/ buildHandoff(t) \/ Submit(t) \/ UpdateAssistantHandoffCursor(t)
             \/ SubmitFails(t) \/ UpdateAssistantMode(t) \/ Stop(t) \/ Complete(t)
             \/ \E m \in Modes : AssistantConversation(t, m)
             \/ \E u \in Turns : ApplyDraftChanges(t, u)
      PROVE  DraftInv'
  BY <1>2, BeginDrafts, KeepDrafts, CreateDrafts, SetDrafts, HandoffDrafts, SubmitDrafts,
     EndDrafts, OtherDrafts, CompleteDrafts, ApplyDrafts
<1>3. ASSUME ViewSet \/ ViewFails \/ (\E m \in Modes : ViewCreate(m))
               \/ \E s \in Sessions : Lose(s)
      PROVE  DraftInv'
  BY <1>3, ViewDrafts, OtherDrafts
<1>4. CASE Unpublished
  BY <1>2, <1>3, <1>4 DEF Unpublished
<1>5. CASE \E t \in Turns : Published(t)
  BY <1>2, <1>5 DEF Published
<1> QED  BY <1>1, <1>4, <1>5 DEF Next

-----------------------------------------------------------------------------
(***************************************************************************)
(* Theorems.                                                               *)
(***************************************************************************)

\* What the turns have read and what they will write of the cursors is covered
\* by prompts that Hermes took, in every reachable state.
THEOREM Invariance == Spec => []Inv
BY InitInv, StepInv, PTL DEF Spec

\* Every variable has the values submit, the viewers and Hermes give it.
THEOREM TypeCorrect == Spec => []TypeOK
BY Invariance, PTL DEF Inv

\* No message of the other mode is passed over by a cursor unless Hermes was
\* given it, for any number of overlapping submits, of sessions that are
\* replaced under them, and of calls that fail (assistant_runtime.go:713).
THEOREM CursorsCovered == Spec => []CursorCovers
<1>1. Inv => CursorCovers
  BY DEF Inv, Given, CursorCovers
<1>2. QED
  BY <1>1, Invariance, PTL

\* Every draft whose turn the user sees is shown with it, once, for any number
\* of turns, of sessions Hermes forgets and of answers that are lost between the
\* tool and Hermes (assistant_http.go:319).
THEOREM DraftsAreVisible == Spec => []DraftsShown
<1>1. Init => Inv /\ DraftInv
  BY InitInv, InitDrafts
<1>2. Inv /\ DraftInv /\ [Next]_vars => (Inv /\ DraftInv)'
  BY StepInv, StepDrafts
<1>3. Inv /\ DraftInv => DraftsShown
  BY DraftsAreShown DEF Inv
<1> QED  BY <1>1, <1>2, <1>3, PTL DEF Spec

-----------------------------------------------------------------------------
(***************************************************************************)
(* The conversation with its stream: every step is one of the conversation *)
(* or leaves it as it is, and publishes, serves a browser, or leaves the   *)
(* stream as it is.                                                        *)
(***************************************************************************)
LEMMA StreamedStep == [StreamedNext]_streamedVars => [Next]_vars /\ [publish \/ StreamNext]_streamVars
<1>1. CASE UNCHANGED streamedVars
  BY <1>1 DEF streamedVars
<1>2. CASE \E t \in Turns : Published(t) /\ publish
  BY <1>2 DEF Next
<1>3. CASE Unpublished /\ UNCHANGED streamVars
  BY <1>3 DEF Next
<1>4. CASE StreamNext /\ UNCHANGED vars
  BY <1>4
<1> QED  BY <1>1, <1>2, <1>3, <1>4 DEF StreamedNext

\* The conversation with its stream implements each of them.
THEOREM StreamedImplements == StreamedSpec => Spec /\ StreamSpec
BY StreamedStep, PTL DEF StreamedSpec, StreamedInit, Spec, StreamSpec

\* The cursors, whatever is streamed meanwhile (CursorCovers).
THEOREM StreamedCursors == StreamedSpec => []CursorCovers
BY StreamedImplements, CursorsCovered, PTL

\* The drafts, whatever is streamed meanwhile (DraftsShown).
THEOREM StreamedDrafts == StreamedSpec => []DraftsShown
BY StreamedImplements, DraftsAreVisible, PTL

\* What a browser is sent in the course of a conversation are consecutive
\* events (EmittedInOrder).
THEOREM StreamedOrder == StreamedSpec => EmittedInOrder
BY StreamedImplements, StreamOrder, PTL

\* Whenever a prompt runs, its answer is shown without the internal blocks,
\* however Hermes splits it (AnswersShown).
THEOREM StreamedAnswers == StreamedSpec => []AnswersShown
<1>1. AnswersShown
  BY AnswerOutside DEF AnswersShown
<1> QED  BY <1>1, PTL

-----------------------------------------------------------------------------
(***************************************************************************)
(* The hand-over.                                                          *)
(***************************************************************************)
Line == Seq(Bytes)

\* The longest beginning of a line that has room and ends with a character.
LEMMA Truncated ==
  ASSUME NEW line \in Line, NEW limit \in Nat, limit > 0, limit < Len(line)
  PROVE  \E n \in 0 .. limit :
           /\ truncateUTF8(line, limit) = SubSeq(line, 1, n)
           /\ EndsCharacter(line, n)
           /\ \A m \in n + 1 .. limit : ~EndsCharacter(line, m)
<1> DEFINE Good(n) == /\ EndsCharacter(line, n)
                      /\ \A m \in n + 1 .. limit : ~EndsCharacter(line, m)
           Left == {k \in Nat : k <= limit /\ EndsCharacter(line, limit - k)}
<1>1. Left \in SUBSET Nat /\ limit \in Left
  BY DEF EndsCharacter
<1>2. PICK k \in Left : \A j \in Left : k <= j
  BY <1>1, SmallestNat
<1>3. limit - k \in 0 .. limit /\ EndsCharacter(line, limit - k)
  BY <1>2
<1>4. ASSUME NEW m \in limit - k + 1 .. limit, EndsCharacter(line, m) PROVE FALSE
  <2>1. limit - m \in Nat /\ limit - m <= limit /\ limit - (limit - m) = m
    BY <1>3, <1>4
  <2>2. limit - m \in Left
    BY <1>4, <2>1
  <2>3. k \in Nat /\ k <= limit - m
    BY <1>2, <2>2
  <2> QED  BY <1>3, <2>1, <2>3
<1>5. \E n \in 0 .. limit : Good(n)
  BY <1>3, <1>4
<1> DEFINE cut == CHOOSE n \in 0 .. limit : Good(n)
<1>6. cut \in 0 .. limit /\ Good(cut)
  <2> HIDE DEF Good
  <2> QED  BY <1>5
<1>7. ~(limit <= 0 \/ Len(line) <= limit)
  OBVIOUS
<1>8. truncateUTF8(line, limit) = SubSeq(line, 1, cut)
  BY <1>7 DEF truncateUTF8
<1> HIDE DEF cut
<1> QED  BY <1>6, <1>8

\* Joining one message after the other, from the latest back.
JoinBody(messages) == [i \in 1 .. Len(messages) |->
                         [text \in Line |-> messages[Len(messages) + 1 - i] \o text]]

IsJoined(f, messages, k) ==
  f = [i \in 0 .. k |-> IF i = 0 THEN <<>> ELSE messages[Len(messages) + 1 - i] \o f[i - 1]]

LEMMA JoinedIs ==
  ASSUME NEW messages \in Seq(Line)
  PROVE  \E f \in [0 .. Len(messages) -> Line] :
           /\ IsJoined(f, messages, Len(messages))
           /\ \A k \in 0 .. Len(messages) : LastJoined(messages, k) = f[k]
<1> DEFINE n == Len(messages)
           Body == JoinBody(messages)
<1>1. n \in Nat /\ \A i \in 1 .. n : n + 1 - i \in 1 .. n /\ messages[n + 1 - i] \in Line
  OBVIOUS
<1>2. Body \in [1 .. n -> [Line -> Line]]
  BY <1>1 DEF JoinBody, Line
<1>3. <<>> \in Line
  BY EmptySeq DEF Line
<1>4. HasIteration(n, Line, <<>>, Body)
  <2> HIDE DEF n, Body
  <2> QED  BY <1>1, <1>2, <1>3, Iteration
<1>5. PICK f \in [0 .. n -> Line] : Iterates(f, n, <<>>, Body)
  BY <1>4 DEF HasIteration
<1>6. \A i \in 0 .. n : i # 0 => i \in 1 .. n /\ i - 1 \in 0 .. n
  BY <1>1
<1>7. IsJoined(f, messages, n)
  <2>1. \A i \in 1 .. n : f[i - 1] \in Line
    <3>1. \A i \in 1 .. n : i - 1 \in 0 .. n
      BY <1>1
    <3> QED  BY <1>5, <3>1
  <2>2. \A i \in 1 .. n : Body[i][f[i - 1]] = messages[n + 1 - i] \o f[i - 1]
    BY <2>1 DEF JoinBody
  <2>3. f = [i \in 0 .. n |-> IF i = 0 THEN <<>> ELSE Body[i][f[i - 1]]]
    BY <1>5 DEF Iterates
  <2> HIDE DEF Body
  <2> QED  BY <1>6, <2>2, <2>3 DEF IsJoined
<1>8. ASSUME NEW k \in 0 .. n PROVE LastJoined(messages, k) = f[k]
  <2> DEFINE joined == CHOOSE g : IsJoined(g, messages, k)
             part == [i \in 0 .. k |-> f[i]]
  <2>1. k \in Nat /\ \A i \in 0 .. k : i \in 0 .. n /\ (i # 0 => i - 1 \in 0 .. k)
    BY <1>1, <1>8
  <2>2. \A i \in 0 .. n : f[i] = IF i = 0 THEN <<>> ELSE messages[n + 1 - i] \o f[i - 1]
    BY <1>7 DEF IsJoined
  <2>3. IsJoined(part, messages, k)
    <3>1. \A i \in 0 .. k : i # 0 => part[i - 1] = f[i - 1]
      BY <2>1
    <3>2. \A i \in 0 .. k :
            f[i] = IF i = 0 THEN <<>> ELSE messages[n + 1 - i] \o part[i - 1]
      BY <2>1, <2>2, <3>1
    <3> QED  BY <3>2 DEF IsJoined
  <2>4. IsJoined(joined, messages, k)
    BY <2>3
  <2>5. LastJoined(messages, k) = joined[k]
    BY DEF LastJoined, IsJoined
  <2> HIDE DEF joined
  <2>6. \A i \in 0 .. k : joined[i] = IF i = 0 THEN <<>> ELSE messages[n + 1 - i] \o joined[i - 1]
    BY <2>4 DEF IsJoined
  <2>7. \A i \in Nat : i <= k => joined[i] = f[i]
    <3> DEFINE S == {i \in Nat : i <= k => joined[i] = f[i]}
    <3>1. 0 \in S
      <4>1. 0 \in 0 .. k /\ 0 \in 0 .. n
        BY <2>1
      <4> QED  BY <2>2, <2>6, <4>1
    <3>2. ASSUME NEW i \in Nat, i \in S PROVE i + 1 \in S
      <4>1. ASSUME i + 1 <= k PROVE joined[i + 1] = f[i + 1]
        <5>1. /\ i + 1 \in 0 .. k /\ i + 1 \in 0 .. n /\ i + 1 # 0
              /\ (i + 1) - 1 = i /\ i <= k
          BY <1>1, <1>8, <4>1
        <5>2. joined[i + 1] = messages[n + 1 - (i + 1)] \o joined[i]
          BY <2>6, <5>1
        <5>3. f[i + 1] = messages[n + 1 - (i + 1)] \o f[i]
          BY <2>2, <5>1
        <5>4. joined[i] = f[i]
          BY <3>2, <5>1
        <5> QED  BY <5>2, <5>3, <5>4
      <4> QED  BY <4>1
    <3> HIDE DEF S
    <3>3. \A i \in Nat : i \in S
      BY <3>1, <3>2, NatSetInduction
    <3> QED  BY <3>3 DEF S
  <2> QED  BY <2>1, <2>5, <2>7
<1> QED  BY <1>7, <1>8

LEMMA JoinedFacts ==
  ASSUME NEW messages \in Seq(Line)
  PROVE  /\ LastJoined(messages, 0) = <<>>
         /\ \A k \in 0 .. Len(messages) :
              LastJoined(messages, k) \in Line /\ Len(LastJoined(messages, k)) \in Nat
         /\ \A k \in 1 .. Len(messages) :
              LET line == messages[Len(messages) + 1 - k] IN
              /\ LastJoined(messages, k) = line \o LastJoined(messages, k - 1)
              /\ Len(LastJoined(messages, k)) = Len(line) + Len(LastJoined(messages, k - 1))
<1> DEFINE n == Len(messages)
<1>1. PICK f \in [0 .. n -> Line] :
        IsJoined(f, messages, n) /\ \A k \in 0 .. n : LastJoined(messages, k) = f[k]
  BY JoinedIs
<1>2. \A i \in 0 .. n : f[i] = IF i = 0 THEN <<>> ELSE messages[n + 1 - i] \o f[i - 1]
  BY <1>1 DEF IsJoined
<1>3. n \in Nat /\ 0 \in 0 .. n
  OBVIOUS
<1>4. \A k \in 0 .. n : LastJoined(messages, k) \in Line /\ Len(LastJoined(messages, k)) \in Nat
  <2>1. \A k \in 0 .. n : LastJoined(messages, k) \in Line
    BY <1>1
  <2> QED  BY <2>1, LenProperties DEF Line
<1>5. ASSUME NEW k \in 1 .. n
      PROVE  /\ LastJoined(messages, k) = messages[n + 1 - k] \o LastJoined(messages, k - 1)
             /\ Len(LastJoined(messages, k)) =
                  Len(messages[n + 1 - k]) + Len(LastJoined(messages, k - 1))
  <2>1. k \in 0 .. n /\ k # 0 /\ k - 1 \in 0 .. n /\ n + 1 - k \in 1 .. n
    BY <1>3
  <2>2. LastJoined(messages, k) = messages[n + 1 - k] \o LastJoined(messages, k - 1)
    BY <1>1, <1>2, <2>1
  <2>3. messages[n + 1 - k] \in Line /\ LastJoined(messages, k - 1) \in Line
    BY <1>4, <2>1
  <2> QED  BY <2>2, <2>3, ConcatProperties DEF Line
<1>6. LastJoined(messages, 0) = <<>>
  BY <1>1, <1>2, <1>3
<1> QED  BY <1>4, <1>5, <1>6

LEMMA JoinedGrows ==
  ASSUME NEW messages \in Seq(Line), NEW j \in 0 .. Len(messages), NEW k \in j .. Len(messages)
  PROVE  Len(LastJoined(messages, j)) <= Len(LastJoined(messages, k))
<1> DEFINE n == Len(messages)
           S == {i \in Nat : j + i <= n =>
                   Len(LastJoined(messages, j)) <= Len(LastJoined(messages, j + i))}
<1>1. n \in Nat /\ j \in Nat
  OBVIOUS
<1>2. 0 \in S
  <2>1. j + 0 = j /\ Len(LastJoined(messages, j)) \in Nat
    BY <1>1, JoinedFacts
  <2> QED  BY <2>1
<1>3. ASSUME NEW i \in Nat, i \in S PROVE i + 1 \in S
  <2>1. ASSUME j + (i + 1) <= n
        PROVE  Len(LastJoined(messages, j)) <= Len(LastJoined(messages, j + (i + 1)))
    <3>1. /\ j + i <= n /\ j + (i + 1) \in 1 .. n /\ (j + (i + 1)) - 1 = j + i
          /\ n + 1 - (j + (i + 1)) \in 1 .. n /\ j + i \in 0 .. n
      BY <1>1, <2>1
    <3>2. Len(LastJoined(messages, j + (i + 1))) =
            Len(messages[n + 1 - (j + (i + 1))]) + Len(LastJoined(messages, j + i))
      BY <3>1, JoinedFacts
    <3>3. messages[n + 1 - (j + (i + 1))] \in Line
      BY <3>1
    <3>4. Len(messages[n + 1 - (j + (i + 1))]) \in Nat
      BY <3>3, LenProperties DEF Line
    <3>5. Len(LastJoined(messages, j + i)) \in Nat /\ Len(LastJoined(messages, j)) \in Nat
      BY <3>1, JoinedFacts
    <3>6. Len(LastJoined(messages, j)) <= Len(LastJoined(messages, j + i))
      BY <1>3, <3>1
    <3>7. \A a, b, c, d \in Nat : a = b + c /\ d <= c => d <= a
      OBVIOUS
    <3>8. Len(LastJoined(messages, j + (i + 1))) \in Nat
      BY <3>2, <3>4, <3>5
    <3> QED  BY <3>2, <3>4, <3>5, <3>6, <3>7, <3>8
  <2> QED  BY <2>1
<1>4. \A i \in Nat : i \in S
  <2> HIDE DEF S
  <2> QED  BY <1>2, <1>3, NatSetInduction
<1>5. k - j \in Nat /\ j + (k - j) = k /\ k <= n
  BY <1>1
<1> QED  BY <1>4, <1>5

\* What an iteration of formatHandoff starts from.
Loops == [text : Seq(Bytes), total : Nat, done : BOOLEAN]

LEMMA AddLineType ==
  ASSUME NEW loop \in Loops, NEW line \in Line
  PROVE  AddLine(loop, line) \in Loops
<1> DEFINE remaining == MaxBytes - loop.total
           add == AddLine(loop, line)
<1>1. /\ loop.text \in Line /\ loop.total \in Nat /\ loop.done \in BOOLEAN
      /\ remaining \in Int /\ Len(line) \in Nat
  BY HandoffAssumption DEF Loops, Line
<1>2. CASE loop.done
  <2>1. add = loop
    BY <1>2 DEF AddLine
  <2> QED  BY <2>1
<1>3. CASE ~loop.done /\ Len(line) <= remaining
  <2>1. add = [loop EXCEPT !.text = line \o loop.text, !.total = loop.total + Len(line)]
    BY <1>3 DEF AddLine
  <2>2. line \o loop.text \in Seq(Bytes) /\ loop.total + Len(line) \in Nat
    BY <1>1, ConcatProperties DEF Line
  <2> HIDE DEF add
  <2>3. add \in Loops
    BY <2>1, <2>2 DEF Loops
  <2> QED  BY <2>3 DEF add
<1>4. CASE ~loop.done /\ ~(Len(line) <= remaining)
  <2> DEFINE text == IF remaining > 0 THEN truncateUTF8(line, remaining) \o loop.text
                     ELSE loop.text
  <2>1. add = [loop EXCEPT !.text = text, !.done = TRUE]
    BY <1>4 DEF AddLine
  <2>2. text \in Seq(Bytes)
    <3>1. CASE remaining > 0
      <4>1. remaining \in Nat /\ remaining < Len(line)
        BY <1>1, <1>4, <3>1
      <4>2. PICK n \in 0 .. remaining : truncateUTF8(line, remaining) = SubSeq(line, 1, n)
        BY <3>1, <4>1, Truncated
      <4>3. SubSeq(line, 1, n) \in Line
        BY <1>1, <4>1, <4>2 DEF Line
      <4> QED  BY <1>1, <3>1, <4>2, <4>3, ConcatProperties DEF Line
    <3>2. CASE ~(remaining > 0)
      BY <1>1, <3>2 DEF Line
    <3> QED  BY <3>1, <3>2
  <2> HIDE DEF add, text
  <2>3. add \in Loops
    BY <2>1, <2>2 DEF Loops
  <2> QED  BY <2>3 DEF add
<1> QED  BY <1>1, <1>2, <1>3, <1>4

\* The recursion of formatHandoff.
NewLoop == [text |-> <<>>, total |-> 0, done |-> FALSE]

IsLoop(f, messages) ==
  f = [i \in 0 .. Len(messages) |->
         IF i = 0 THEN NewLoop ELSE AddLine(f[i - 1], messages[Len(messages) + 1 - i])]

LEMMA LoopIs ==
  ASSUME NEW messages \in Seq(Line)
  PROVE  \E f \in [0 .. Len(messages) -> Loops] : IsLoop(f, messages)
<1> DEFINE n == Len(messages)
           Body == [i \in 1 .. n |-> [loop \in Loops |-> AddLine(loop, messages[n + 1 - i])]]
<1>1. n \in Nat /\ \A i \in 1 .. n : n + 1 - i \in 1 .. n /\ messages[n + 1 - i] \in Line
  OBVIOUS
<1>2. Body \in [1 .. n -> [Loops -> Loops]]
  BY <1>1, AddLineType
<1>3. NewLoop \in Loops
  BY EmptySeq DEF NewLoop, Loops
<1>4. HasIteration(n, Loops, NewLoop, Body)
  <2> HIDE DEF n, Body
  <2> QED  BY <1>1, <1>2, <1>3, Iteration
<1>5. PICK f \in [0 .. n -> Loops] : Iterates(f, n, NewLoop, Body)
  BY <1>4 DEF HasIteration
<1>6. \A i \in 0 .. n : i # 0 => i \in 1 .. n /\ i - 1 \in 0 .. n
  BY <1>1
<1>7. \A i \in 1 .. n : f[i - 1] \in Loops
  <2>1. \A i \in 1 .. n : i - 1 \in 0 .. n
    BY <1>1
  <2> QED  BY <1>5, <2>1
<1>8. \A i \in 1 .. n : Body[i][f[i - 1]] = AddLine(f[i - 1], messages[n + 1 - i])
  BY <1>7
<1>9. f = [i \in 0 .. n |-> IF i = 0 THEN NewLoop ELSE Body[i][f[i - 1]]]
  BY <1>5 DEF Iterates
<1> HIDE DEF Body
<1>10. IsLoop(f, messages)
  BY <1>6, <1>8, <1>9 DEF IsLoop
<1> QED  BY <1>10

(***************************************************************************)
(* As long as the loop goes on, its text is the latest messages, counted.  *)
(* It stops at the first message that does not fit, with as much of it as  *)
(* does.                                                                   *)
(***************************************************************************)
StoppedAt(messages, k, text) ==
  LET line == messages[Len(messages) + 1 - k]
      later == LastJoined(messages, k - 1)
  IN \E n \in 0 .. Len(line) :
       /\ n < Len(line) /\ EndsCharacter(line, n)
       /\ text = SubSeq(line, 1, n) \o later
       /\ n + Len(later) <= MaxBytes
       /\ \A m \in n + 1 .. Len(line) : EndsCharacter(line, m) => m + Len(later) > MaxBytes

LoopInv(messages, i, loop) ==
  /\ ~loop.done => /\ loop.text = LastJoined(messages, i)
                   /\ loop.total = Len(loop.text) /\ loop.total <= MaxBytes
  /\ loop.done => \E k \in 1 .. i : StoppedAt(messages, k, loop.text)

LEMMA LineAdded ==
  ASSUME NEW messages \in Seq(Line), NEW i \in 1 .. Len(messages), NEW loop \in Loops,
         LoopInv(messages, i - 1, loop)
  PROVE  LoopInv(messages, i, AddLine(loop, messages[Len(messages) + 1 - i]))
<1> DEFINE line == messages[Len(messages) + 1 - i]
           later == LastJoined(messages, i - 1)
           remaining == MaxBytes - loop.total
           add == AddLine(loop, line)
<1>1. Len(messages) \in Nat /\ i \in Nat /\ Len(messages) + 1 - i \in 1 .. Len(messages)
  OBVIOUS
<1>2. line \in Line /\ loop.text \in Line /\ loop.total \in Nat /\ loop.done \in BOOLEAN
  BY <1>1 DEF Loops, Line
<1>3. /\ LastJoined(messages, i) = line \o later
      /\ Len(LastJoined(messages, i)) = Len(line) + Len(later)
      /\ later \in Line /\ Len(later) \in Nat
  <2>1. i - 1 \in 0 .. Len(messages)
    BY <1>1
  <2> QED  BY <2>1, JoinedFacts
<1>4. Len(line) \in Nat /\ MaxBytes \in Nat
  BY <1>2, HandoffAssumption, LenProperties DEF Line
<1>5. CASE loop.done
  <2>1. add = loop
    BY <1>5 DEF AddLine
  <2>2. \E k \in 1 .. i - 1 : StoppedAt(messages, k, loop.text)
    BY <1>5 DEF LoopInv
  <2>3. \E k \in 1 .. i : StoppedAt(messages, k, loop.text)
    BY <1>1, <2>2
  <2> QED  BY <1>5, <2>1, <2>3 DEF LoopInv
<1>6. ASSUME ~loop.done
      PROVE  loop.text = later /\ loop.total = Len(later) /\ loop.total <= MaxBytes
  BY <1>6 DEF LoopInv
<1>7. CASE ~loop.done /\ Len(line) <= remaining
  <2>1. add = [loop EXCEPT !.text = line \o loop.text, !.total = loop.total + Len(line)]
    BY <1>7 DEF AddLine
  <2>2. /\ add.text = line \o loop.text /\ add.total = loop.total + Len(line)
        /\ add.done = loop.done
    BY <2>1 DEF Loops
  <2> HIDE DEF add, line, later
  <2>3. add.text = LastJoined(messages, i)
    BY <1>3, <1>6, <1>7, <2>2
  <2>4. add.total = Len(add.text) /\ add.total <= MaxBytes
    <3>1. loop.total = Len(later) /\ add.total = loop.total + Len(line)
      BY <1>6, <1>7, <2>2
    <3>2. Len(add.text) = Len(line) + Len(later)
      BY <1>3, <2>3
    <3>3. \A a, b \in Nat : a + b = b + a /\ (b <= MaxBytes - a => a + b <= MaxBytes)
      BY <1>4
    <3> QED  BY <1>3, <1>4, <1>7, <3>1, <3>2, <3>3
  <2>5. ~add.done
    BY <1>7, <2>2
  <2>6. LoopInv(messages, i, add)
    BY <2>3, <2>4, <2>5 DEF LoopInv
  <2> QED  BY <2>6 DEF add, line
<1>8. CASE ~loop.done /\ ~(Len(line) <= remaining)
  <2> DEFINE text == IF remaining > 0 THEN truncateUTF8(line, remaining) \o loop.text
                     ELSE loop.text
  <2>1. add = [loop EXCEPT !.text = text, !.done = TRUE]
    BY <1>8 DEF AddLine
  <2>2. add.text = text /\ add.done
    <3> HIDE DEF add, text
    <3> QED  BY <2>1 DEF Loops
  <2>3. /\ remaining \in Nat /\ remaining < Len(line)
        /\ loop.text = later /\ remaining = MaxBytes - Len(later) /\ Len(later) <= MaxBytes
    <3>1. loop.text = later /\ loop.total = Len(later) /\ loop.total <= MaxBytes
      BY <1>6, <1>8
    <3> HIDE DEF line, later
    <3> QED  BY <1>2, <1>4, <1>8, <3>1
  <2>4. PICK n \in 0 .. remaining :
          /\ text = SubSeq(line, 1, n) \o later /\ EndsCharacter(line, n)
          /\ \A m \in n + 1 .. remaining : ~EndsCharacter(line, m)
    <3>1. CASE remaining > 0
      <4>1. PICK n \in 0 .. remaining :
              /\ truncateUTF8(line, remaining) = SubSeq(line, 1, n) /\ EndsCharacter(line, n)
              /\ \A m \in n + 1 .. remaining : ~EndsCharacter(line, m)
        <5> HIDE DEF line, remaining
        <5> QED  BY <1>2, <2>3, <3>1, Truncated
      <4>2. text = SubSeq(line, 1, n) \o later
        BY <2>3, <3>1, <4>1
      <4> QED  BY <4>1, <4>2
    <3>2. CASE remaining = 0
      <4>1. text = later
        BY <2>3, <3>2
      <4>2. SubSeq(line, 1, 0) = <<>> /\ <<>> \o later = later
        <5> HIDE DEF line, later
        <5> QED  BY <1>2, <1>3, ConcatEmptySeq DEF Line
      <4>3. 0 \in 0 .. remaining /\ 0 + 1 .. remaining = {} /\ EndsCharacter(line, 0)
        BY <3>2 DEF EndsCharacter
      <4> HIDE DEF text, line, later, remaining
      <4> QED  BY <4>1, <4>2, <4>3
    <3>3. remaining > 0 \/ remaining = 0
      <4> HIDE DEF remaining
      <4> QED  BY <2>3
    <3> HIDE DEF text, line, later, remaining
    <3> QED  BY <3>1, <3>2, <3>3
  <2> HIDE DEF text
  <2>5. n \in 0 .. Len(line) /\ n < Len(line) /\ n + Len(later) <= MaxBytes
    <3> HIDE DEF line, later, remaining
    <3> QED  BY <1>3, <1>4, <2>3, <2>4
  <2>6. ASSUME NEW m \in n + 1 .. Len(line), EndsCharacter(line, m)
        PROVE  m + Len(later) > MaxBytes
    <3>1. ~(m \in n + 1 .. remaining)
      BY <2>4, <2>6
    <3> HIDE DEF line, later, remaining
    <3> QED  BY <1>3, <1>4, <2>3, <2>4, <2>6, <3>1
  <2>7. StoppedAt(messages, i, text)
    BY <2>4, <2>5, <2>6 DEF StoppedAt
  <2>8. i \in 1 .. i
    BY <1>1
  <2> HIDE DEF add
  <2>9. LoopInv(messages, i, add)
    BY <2>2, <2>7, <2>8 DEF LoopInv
  <2> QED  BY <2>9 DEF add
<1> QED  BY <1>2, <1>5, <1>7, <1>8

LEMMA LatestType ==
  ASSUME NEW behind \in Seq(Line)
  PROVE  Latest(behind) \in Seq(Line)
<1>1. CASE Len(behind) <= MaxMessages
  BY <1>1 DEF Latest
<1>2. CASE ~(Len(behind) <= MaxMessages)
  <2>1. /\ Len(behind) - MaxMessages + 1 \in 1 .. Len(behind) + 1
        /\ Len(behind) \in 0 .. Len(behind)
    BY <1>2, HandoffAssumption
  <2>2. Latest(behind) = SubSeq(behind, Len(behind) - MaxMessages + 1, Len(behind))
    BY <1>2 DEF Latest
  <2> HIDE DEF Line
  <2> QED  BY <2>1, <2>2
<1> QED  BY <1>1, <1>2

LEMMA LoopEnds ==
  ASSUME NEW behind \in Seq(Line)
  PROVE  \E loop \in Loops :
           /\ LoopInv(Latest(behind), Len(Latest(behind)), loop)
           /\ formatHandoff(behind) = loop.text
<1> DEFINE messages == Latest(behind)
           n == Len(messages)
           f == CHOOSE g : IsLoop(g, messages)
<1>1. messages \in Seq(Line) /\ n \in Nat
  BY LatestType
<1>2. formatHandoff(behind) = f[n].text
  BY DEF formatHandoff, IsLoop, NewLoop
<1> HIDE DEF messages
<1>3. IsLoop(f, messages)
  BY <1>1, LoopIs
<1> HIDE DEF f
<1>4. \A i \in 0 .. n :
        f[i] = IF i = 0 THEN NewLoop ELSE AddLine(f[i - 1], messages[n + 1 - i])
  BY <1>3 DEF IsLoop
<1>5. \A i \in Nat : i <= n => f[i] \in Loops /\ LoopInv(messages, i, f[i])
  <2> DEFINE S == {i \in Nat : i <= n => f[i] \in Loops /\ LoopInv(messages, i, f[i])}
  <2>1. 0 \in S
    <3>1. f[0] = NewLoop
      BY <1>1, <1>4
    <3>2. NewLoop \in Loops
      BY EmptySeq DEF NewLoop, Loops
    <3>3. LoopInv(messages, 0, NewLoop)
      <4>1. NewLoop.text = <<>> /\ NewLoop.total = 0 /\ ~NewLoop.done
        BY DEF NewLoop
      <4>2. LastJoined(messages, 0) = <<>> /\ Len(<<>>) = 0 /\ 0 <= MaxBytes
        <5>1. LastJoined(messages, 0) = <<>>
          BY <1>1, JoinedFacts
        <5>2. Len(<<>>) = 0
          OBVIOUS
        <5>3. 0 <= MaxBytes
          BY HandoffAssumption
        <5> QED  BY <5>1, <5>2, <5>3
      <4> QED  BY <4>1, <4>2 DEF LoopInv
    <3> QED  BY <3>1, <3>2, <3>3
  <2>2. ASSUME NEW i \in Nat, i \in S PROVE i + 1 \in S
    <3>1. ASSUME i + 1 <= n
          PROVE  f[i + 1] \in Loops /\ LoopInv(messages, i + 1, f[i + 1])
      <4>1. /\ i + 1 \in 1 .. n /\ i + 1 \in 0 .. n /\ i + 1 # 0 /\ (i + 1) - 1 = i /\ i <= n
            /\ n + 1 - (i + 1) \in 1 .. n
        BY <1>1, <3>1
      <4>2. f[i] \in Loops /\ LoopInv(messages, i, f[i])
        BY <2>2, <4>1
      <4>3. f[i + 1] = AddLine(f[i], messages[n + 1 - (i + 1)])
        BY <1>4, <4>1
      <4>4. messages[n + 1 - (i + 1)] \in Line
        BY <1>1, <4>1
      <4>5. f[i + 1] \in Loops
        BY <4>2, <4>3, <4>4, AddLineType
      <4>6. LoopInv(messages, (i + 1) - 1, f[i])
        BY <4>1, <4>2
      <4>7. LoopInv(messages, i + 1, f[i + 1])
        BY <1>1, <4>1, <4>2, <4>3, <4>6, LineAdded
      <4> QED  BY <4>5, <4>7
    <3> QED  BY <3>1
  <2> HIDE DEF S
  <2>3. \A i \in Nat : i \in S
    BY <2>1, <2>2, NatSetInduction
  <2> QED  BY <2>3 DEF S
<1>6. f[n] \in Loops /\ LoopInv(messages, n, f[n])
  BY <1>1, <1>5
<1> QED  BY <1>2, <1>6 DEF messages

\* The ends, told by the number of messages they reach back.
LEMMA EndsAre ==
  ASSUME NEW messages \in Seq(Line)
  PROVE  /\ \A k \in 1 .. Len(messages) :
              LET line == messages[Len(messages) + 1 - k] IN
              \A m \in 0 .. Len(line) :
                EndsCharacter(line, m) =>
                  SubSeq(line, 1, m) \o LastJoined(messages, k - 1) \in HandoffEnds(messages)
         /\ \A e \in HandoffEnds(messages) :
              \/ e = <<>>
              \/ \E k \in 1 .. Len(messages) :
                   LET line == messages[Len(messages) + 1 - k] IN
                   \E m \in 0 .. Len(line) :
                     /\ EndsCharacter(line, m)
                     /\ e = SubSeq(line, 1, m) \o LastJoined(messages, k - 1)
<1> DEFINE n == Len(messages)
           EndsIn(i) == {SubSeq(messages[i], 1, m) \o LastJoined(messages, n - i) :
                           m \in {m \in 0 .. Len(messages[i]) : EndsCharacter(messages[i], m)}}
<1>1. HandoffEnds(messages) = {<<>>} \union UNION {EndsIn(i) : i \in 1 .. n}
  BY DEF HandoffEnds
<1>2. n \in Nat
  OBVIOUS
<1>3. ASSUME NEW k \in 1 .. n, NEW m \in 0 .. Len(messages[n + 1 - k]),
             EndsCharacter(messages[n + 1 - k], m)
      PROVE  SubSeq(messages[n + 1 - k], 1, m) \o LastJoined(messages, k - 1)
               \in HandoffEnds(messages)
  <2> DEFINE i == n + 1 - k
  <2>1. i \in 1 .. n /\ n - i = k - 1
    BY <1>2
  <2>2. SubSeq(messages[i], 1, m) \o LastJoined(messages, k - 1) \in EndsIn(i)
    <3> HIDE DEF n
    <3> QED  BY <1>3, <2>1
  <2> HIDE DEF EndsIn, i
  <2>3. SubSeq(messages[i], 1, m) \o LastJoined(messages, k - 1) \in HandoffEnds(messages)
    BY <1>1, <2>1, <2>2
  <2> QED  BY <2>3 DEF i
<1>4. ASSUME NEW e \in HandoffEnds(messages), e # <<>>
      PROVE  \E k \in 1 .. n : \E m \in 0 .. Len(messages[n + 1 - k]) :
               /\ EndsCharacter(messages[n + 1 - k], m)
               /\ e = SubSeq(messages[n + 1 - k], 1, m) \o LastJoined(messages, k - 1)
  <2>1. PICK i \in 1 .. n : e \in EndsIn(i)
    <3> HIDE DEF EndsIn
    <3> QED  BY <1>1, <1>4
  <2>2. PICK m \in 0 .. Len(messages[i]) :
          /\ EndsCharacter(messages[i], m)
          /\ e = SubSeq(messages[i], 1, m) \o LastJoined(messages, n - i)
    BY <2>1
  <2>3. n + 1 - i \in 1 .. n /\ n + 1 - (n + 1 - i) = i /\ (n + 1 - i) - 1 = n - i
    BY <1>2
  <2> HIDE DEF n
  <2> QED  BY <2>2, <2>3
<1> HIDE DEF EndsIn
<1> QED  BY <1>3, <1>4

LEMMA EndLength ==
  ASSUME NEW messages \in Seq(Line), NEW k \in 1 .. Len(messages),
         NEW m \in 0 .. Len(messages[Len(messages) + 1 - k])
  PROVE  LET line == messages[Len(messages) + 1 - k]
             later == LastJoined(messages, k - 1)
         IN /\ line \in Line /\ Len(line) \in Nat /\ Len(later) \in Nat
            /\ Len(SubSeq(line, 1, m) \o later) = m + Len(later)
            /\ Len(LastJoined(messages, k)) = Len(line) + Len(later)
<1> DEFINE line == messages[Len(messages) + 1 - k]
           later == LastJoined(messages, k - 1)
<1>1. Len(messages) + 1 - k \in 1 .. Len(messages) /\ k - 1 \in 0 .. Len(messages)
  OBVIOUS
<1>2. line \in Line /\ later \in Line /\ Len(LastJoined(messages, k)) = Len(line) + Len(later)
  <2>1. line \in Line
    BY <1>1
  <2>2. later \in Line
    BY <1>1, JoinedFacts
  <2>3. Len(LastJoined(messages, k)) = Len(line) + Len(later)
    BY JoinedFacts
  <2> QED  BY <2>1, <2>2, <2>3
<1>3. m \in 0 .. Len(line)
  OBVIOUS
<1> HIDE DEF line, later
<1>4. Len(line) \in Nat /\ Len(later) \in Nat
  BY <1>2, LenProperties DEF Line
<1>5. SubSeq(line, 1, m) \in Line /\ Len(SubSeq(line, 1, m)) = m
  <2>1. \A l \in Seq(Bytes) : \A c \in 0 .. Len(l) :
          SubSeq(l, 1, c) \in Seq(Bytes) /\ Len(SubSeq(l, 1, c)) = c
    OBVIOUS
  <2> QED  BY ONLY <1>2, <1>3, <2>1 DEF Line
<1>6. Len(SubSeq(line, 1, m) \o later) = m + Len(later)
  <2>1. \A l, r \in Seq(Bytes) : Len(l \o r) = Len(l) + Len(r)
    BY ConcatProperties
  <2> QED  BY <1>2, <1>5, <2>1 DEF Line
<1> QED  BY <1>2, <1>4, <1>6 DEF line, later

LEMMA StoppedAtLongest ==
  ASSUME NEW messages \in Seq(Line), NEW k \in 1 .. Len(messages), NEW text,
         StoppedAt(messages, k, text)
  PROVE  /\ text \in HandoffEnds(messages) /\ Len(text) <= MaxBytes
         /\ \A e \in HandoffEnds(messages) : Len(e) <= MaxBytes => Len(e) <= Len(text)
<1> DEFINE n == Len(messages)
           line == messages[n + 1 - k]
           later == LastJoined(messages, k - 1)
<1>1. PICK c \in 0 .. Len(line) :
        /\ c < Len(line) /\ EndsCharacter(line, c)
        /\ text = SubSeq(line, 1, c) \o later
        /\ c + Len(later) <= MaxBytes
        /\ \A m \in c + 1 .. Len(line) : EndsCharacter(line, m) => m + Len(later) > MaxBytes
  BY DEF StoppedAt
<1>2. /\ Len(line) \in Nat /\ Len(later) \in Nat /\ Len(text) = c + Len(later)
      /\ Len(LastJoined(messages, k)) = Len(line) + Len(later)
  BY <1>1, EndLength
<1>3. text \in HandoffEnds(messages)
  BY <1>1, EndsAre
<1>4. ASSUME NEW e \in HandoffEnds(messages), Len(e) <= MaxBytes PROVE Len(e) <= Len(text)
  <2>1. CASE e = <<>>
    <3> HIDE DEF later, line
    <3> QED  BY <1>2, <2>1
  <2>2. ASSUME NEW j \in 1 .. n, NEW m \in 0 .. Len(messages[n + 1 - j]),
               EndsCharacter(messages[n + 1 - j], m),
               e = SubSeq(messages[n + 1 - j], 1, m) \o LastJoined(messages, j - 1)
        PROVE  Len(e) <= Len(text)
    <3>1. /\ Len(e) = m + Len(LastJoined(messages, j - 1))
          /\ Len(messages[n + 1 - j]) \in Nat /\ Len(LastJoined(messages, j - 1)) \in Nat
          /\ Len(LastJoined(messages, j)) =
               Len(messages[n + 1 - j]) + Len(LastJoined(messages, j - 1))
      BY <2>2, EndLength
    <3>2. n \in Nat /\ j \in Nat /\ k \in Nat /\ k <= n /\ j <= n
      OBVIOUS
    <3>3. CASE j < k
      <4>1. j \in 0 .. n /\ k - 1 \in j .. n
        BY <3>2, <3>3
      <4>2. Len(LastJoined(messages, j)) <= Len(later)
        BY <4>1, JoinedGrows
      <4> DEFINE before == Len(LastJoined(messages, j - 1))
                 upto == Len(LastJoined(messages, j))
      <4>3. upto <= Len(later) /\ Len(e) = m + before /\ upto = Len(messages[n + 1 - j]) + before
        BY <3>1, <4>2
      <4>4. before \in Nat /\ Len(messages[n + 1 - j]) \in Nat /\ m <= Len(messages[n + 1 - j])
        BY <2>2, <3>1
      <4> HIDE DEF before, upto, later, line
      <4>5. Len(e) <= upto
        BY <4>3, <4>4
      <4> QED  BY <1>2, <4>3, <4>4, <4>5
    <3>4. CASE j = k
      <4>1. m \in 0 .. Len(line) /\ EndsCharacter(line, m) /\ Len(e) = m + Len(later)
        BY <2>2, <3>1, <3>4
      <4> HIDE DEF later, line
      <4>2. ~(m \in c + 1 .. Len(line))
        BY <1>1, <1>2, <1>4, <4>1, HandoffAssumption
      <4>3. m <= c
        BY <1>2, <4>1, <4>2
      <4> QED  BY <1>2, <4>1, <4>3
    <3>5. CASE j > k
      <4>1. k \in 0 .. n /\ j - 1 \in k .. n
        BY <3>2, <3>5
      <4>2. Len(LastJoined(messages, k)) <= Len(LastJoined(messages, j - 1))
        BY <4>1, JoinedGrows
      <4> DEFINE before == Len(LastJoined(messages, j - 1))
      <4>3. Len(line) + Len(later) <= before /\ Len(e) = m + before /\ before \in Nat
        BY <1>2, <3>1, <4>2
      <4>4. Len(line) + Len(later) > MaxBytes
        <5> HIDE DEF line, later
        <5>1. Len(line) \in c + 1 .. Len(line) /\ EndsCharacter(line, Len(line))
          BY <1>1, <1>2 DEF EndsCharacter
        <5> QED  BY <1>1, <5>1
      <4> HIDE DEF before, line, later
      <4>5. FALSE
        BY <1>2, <1>4, <4>3, <4>4, HandoffAssumption
      <4> QED  BY <4>5
    <3> QED  BY <3>2, <3>3, <3>4, <3>5
  <2> QED  BY <2>1, <2>2, EndsAre
<1>5. Len(text) <= MaxBytes
  BY <1>1, <1>2
<1> QED  BY <1>3, <1>4, <1>5

LEMMA AllIsLongest ==
  ASSUME NEW messages \in Seq(Line), Len(LastJoined(messages, Len(messages))) <= MaxBytes
  PROVE  LET text == LastJoined(messages, Len(messages)) IN
         /\ text \in HandoffEnds(messages)
         /\ \A e \in HandoffEnds(messages) : Len(e) <= Len(text)
<1> DEFINE n == Len(messages)
           text == LastJoined(messages, n)
<1>1. n \in Nat /\ text \in Line /\ Len(text) \in Nat
  <2>1. n \in Nat /\ n \in 0 .. n
    OBVIOUS
  <2> QED  BY <2>1, JoinedFacts
<1>2. text \in HandoffEnds(messages)
  <2>1. CASE n = 0
    BY <2>1, JoinedFacts DEF HandoffEnds
  <2>2. CASE n # 0
    <3> DEFINE line == messages[n + 1 - n]
    <3>1. n \in 1 .. n /\ n + 1 - n \in 1 .. n
      BY <1>1, <2>2
    <3>2. line \in Line /\ text = line \o LastJoined(messages, n - 1)
      <4>1. line \in Line
        BY <3>1
      <4>2. text = line \o LastJoined(messages, n - 1)
        BY <3>1, JoinedFacts
      <4> QED  BY <4>1, <4>2
    <3>3. /\ Len(line) \in 0 .. Len(line) /\ EndsCharacter(line, Len(line))
          /\ SubSeq(line, 1, Len(line)) = line
      <4> HIDE DEF line
      <4> QED  BY <3>2 DEF EndsCharacter, Line
    <3>4. SubSeq(line, 1, Len(line)) \o LastJoined(messages, n - 1) \in HandoffEnds(messages)
      BY <3>1, <3>3, EndsAre
    <3> HIDE DEF line, text
    <3> QED  BY <3>2, <3>3, <3>4
  <2> QED  BY <2>1, <2>2
<1>3. ASSUME NEW e \in HandoffEnds(messages) PROVE Len(e) <= Len(text)
  <2>1. CASE e = <<>>
    <3> HIDE DEF text
    <3> QED  BY <1>1, <2>1
  <2>2. ASSUME NEW j \in 1 .. n, NEW m \in 0 .. Len(messages[n + 1 - j]),
               e = SubSeq(messages[n + 1 - j], 1, m) \o LastJoined(messages, j - 1)
        PROVE  Len(e) <= Len(text)
    <3> DEFINE before == Len(LastJoined(messages, j - 1))
               upto == Len(LastJoined(messages, j))
               size == Len(messages[n + 1 - j])
    <3>1. Len(e) = m + before /\ upto = size + before /\ size \in Nat /\ before \in Nat
      BY <2>2, EndLength
    <3>2. upto <= Len(text)
      <4>1. j \in 0 .. n /\ n \in j .. n
        BY <1>1
      <4> QED  BY <4>1, JoinedGrows
    <3>3. m \in 0 .. size
      BY <2>2
    <3> HIDE DEF before, upto, size, text
    <3>4. Len(e) <= upto
      BY <3>1, <3>3
    <3> QED  BY <1>1, <3>1, <3>2, <3>3, <3>4
  <2> QED  BY <2>1, <2>2, EndsAre
<1> QED  BY <1>2, <1>3

LEMMA HandoffsAreLongest ==
  ASSUME NEW behind \in Seq(Line)
  PROVE  LongestEnd(behind)
<1> DEFINE messages == Latest(behind)
           text == formatHandoff(behind)
<1>1. messages \in Seq(Line)
  BY LatestType
<1>2. PICK loop \in Loops : LoopInv(messages, Len(messages), loop) /\ text = loop.text
  BY LoopEnds
<1>3. CASE loop.done
  <2>1. PICK k \in 1 .. Len(messages) : StoppedAt(messages, k, text)
    BY <1>2, <1>3 DEF LoopInv
  <2> HIDE DEF messages, text
  <2>2. /\ text \in HandoffEnds(messages) /\ Len(text) <= MaxBytes
        /\ \A e \in HandoffEnds(messages) : Len(e) <= MaxBytes => Len(e) <= Len(text)
    BY <1>1, <2>1, StoppedAtLongest
  <2> QED  BY <2>2 DEF LongestEnd, messages, text
<1>4. CASE ~loop.done
  <2> HIDE DEF messages, text
  <2>1. text = LastJoined(messages, Len(messages)) /\ Len(text) <= MaxBytes
    BY <1>2, <1>4 DEF LoopInv
  <2>2. text \in HandoffEnds(messages) /\ \A e \in HandoffEnds(messages) : Len(e) <= Len(text)
    BY <1>1, <2>1, AllIsLongest
  <2> QED  BY <2>1, <2>2 DEF LongestEnd, messages, text
<1> QED  BY <1>3, <1>4

\* For messages of any number and length and any limits, the prompt gets the longest
\* end of what was said behind the cursor that fits (HandedOver).
THEOREM StreamedHandovers == StreamedSpec => []HandedOver
<1>1. HandoffIsLongestEnd
  <2>1. ASSUME NEW n \in 0 .. MaxBehind, NEW behind \in [1 .. n -> Lines]
        PROVE  LongestEnd(behind)
    <3>1. n \in Nat /\ behind \in [1 .. n -> Line]
      BY HandoffAssumption DEF Line
    <3>2. behind \in Seq(Line)
      BY <3>1
    <3> QED  BY <3>2, HandoffsAreLongest
  <2> QED  BY <2>1 DEF HandoffIsLongestEnd
<1>2. HandedOver
  BY <1>1 DEF HandedOver
<1> QED  BY <1>2, PTL
=============================================================================
