------------------------ MODULE StreamedConversation ------------------------
(***************************************************************************)
(* A conversation, the stream of its events, the filter its answers pass   *)
(* and the hand-over: the steps of the turns that tell the browsers of it  *)
(* publish an event.                                                       *)
(***************************************************************************)
EXTENDS Conversation, EventStream, StreamFilter, Handoff

streamedVars == <<vars, streamVars>>

StreamedInit == Init /\ StreamInit

StreamedNext ==
  \/ \E t \in Turns : Published(t) /\ publish
  \/ Unpublished /\ UNCHANGED streamVars
  \/ StreamNext /\ UNCHANGED vars

StreamedSpec == StreamedInit /\ [][StreamedNext]_streamedVars

-----------------------------------------------------------------------------
\* Whatever a prompt that runs answers, and however Hermes splits it, also
\* within a marker: the browser is shown what is outside the internal blocks,
\* all of it, and the same again when the history is loaded, unless what is
\* left around a block makes a new marker.  Of a block that is never closed
\* nothing is shown as long as the answer streams.
AnswersShown == running # {} => AnswerIsOutside

\* Whatever was said behind the cursor when a turn has read the history of the
\* other mode: the prompt gets the end of it, whole characters and no gap, that
\* fits in the room there is, and not one character less than fits.
HandedOver == (\E t \in Turns : turn[t].pc = "history") => HandoffIsLongestEnd
=============================================================================
