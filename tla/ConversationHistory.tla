------------------------ MODULE ConversationHistory ------------------------
(***************************************************************************)
(* How the messages Hermes keeps of a session are shown: visibleHistory    *)
(* gathers the receipts of tools until a message can carry them, and       *)
(* attachDraftReceipts adds the drafts that only the audit trail knows.    *)
(*                                                                         *)
(* A message of Hermes is a user message with the signed id of its turn,   *)
(* an assistant message, whose text may be blank, or a tool result with    *)
(* the drafts it made.  Texts, citations and times are left out.           *)
(***************************************************************************)
EXTENDS Integers, Sequences

User(t) == [role |-> "user", turn |-> t, blank |-> FALSE, drafts |-> {}]
Assistant(blank) == [role |-> "assistant", turn |-> 0, blank |-> blank, drafts |-> {}]
Tool(drafts) == [role |-> "tool", turn |-> 0, blank |-> TRUE, drafts |-> drafts]

\* A message that is shown: its id is "<turn>-<role>", with a suffix for the
\* second and later messages of the assistant ("receipt": index 0).
Shown(t, role, index, drafts) ==
  [turn |-> t, role |-> role, index |-> index, drafts |-> drafts]

Receipt(t, drafts) == Shown(t, "assistant", 0, drafts)

\* The turn is 0 before the first user message.
Unseen == [turn |-> 0, index |-> 0, pending |-> {}, out |-> <<>>]

flushReceipts(view) ==
  IF view.turn = 0 \/ view.pending = {} THEN view
  ELSE [view EXCEPT !.out = Append(@, Receipt(view.turn, view.pending)), !.pending = {}]

SeeUser(view, m) ==
  [flushReceipts(view) EXCEPT !.turn = m.turn, !.index = 0,
                              !.out = Append(@, Shown(m.turn, "user", 0, {}))]

SeeTool(view, m) ==
  IF view.turn = 0 THEN view ELSE [view EXCEPT !.pending = @ \union m.drafts]

SeeAssistant(view, m) ==
  IF m.blank /\ view.pending = {} THEN [view EXCEPT !.index = @ + 1]
  ELSE [view EXCEPT
          !.index = @ + 1, !.pending = {},
          !.out = Append(@, Shown(view.turn, "assistant", view.index + 1, view.pending))]

See(view, m) ==
  CASE m.role = "user"      -> SeeUser(view, m)
    [] m.role = "tool"      -> SeeTool(view, m)
    [] m.role = "assistant" -> SeeAssistant(view, m)

Seen(history) ==
  LET view[i \in 0 .. Len(history)] == IF i = 0 THEN Unseen ELSE See(view[i - 1], history[i])
  IN  view[Len(history)]

visibleHistory(history) == flushReceipts(Seen(history)).out

\* The messages of the assistant in a turn, by their place; what has no turn
\* has no receipts.
AssistantIndices(messages, t) ==
  {i \in DOMAIN messages : messages[i].role = "assistant" /\ messages[i].turn = t}

\* Mutant: what the history shows already is added again.
NoneExisting(messages, t) == {}

Existing(messages, t) ==
  UNION {messages[i].drafts : i \in AssistantIndices(messages, t)}

\* The drafts of turn t in the audit trail: to its last assistant message, or
\* in a message of their own after its user message.
AttachTo(messages, t, drafts) ==
  LET indices == AssistantIndices(messages, t) IN
  IF indices # {}
  THEN LET target == CHOOSE i \in indices : \A j \in indices : j <= i IN
       [messages EXCEPT ![target].drafts = @ \union (drafts \ Existing(messages, t))]
  ELSE IF \E i \in DOMAIN messages : messages[i].role = "user" /\ messages[i].turn = t
       THEN Append(messages, Receipt(t, drafts))
       ELSE messages

\* The receipts of the turns, which the code goes through in any order: the
\* receipts of a turn touch none of another.
attachDraftReceipts(messages, receipts) ==
  LET attached[t \in 0 .. Len(receipts)] ==
        IF t = 0 THEN messages
        ELSE IF receipts[t] = {} THEN attached[t - 1]
        ELSE AttachTo(attached[t - 1], t, receipts[t])
  IN  attached[Len(receipts)]
=============================================================================
