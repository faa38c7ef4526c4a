------------------------------ MODULE Handoff ------------------------------
(***************************************************************************)
(* What a mode is told of the other one: buildHandoff of Conversation      *)
(* counts the messages behind the cursor as handed over, formatHandoff     *)
(* puts as many of them into the prompt as fit, from the latest back to    *)
(* the earliest, and no part of a character.                               *)
(*                                                                         *)
(* A message is the line that is made of it, a sequence of bytes; the      *)
(* space that is trimmed around the result is left out.                    *)
(***************************************************************************)
EXTENDS Integers, Sequences

CONSTANTS
  Bytes,
  RuneStart,    \* the bytes a character begins with
  Lines,        \* the lines messages are formatted to
  MaxBehind,    \* bound: the messages behind the cursor
  MaxMessages,  \* maxHandoffMessages, 20
  MaxBytes      \* maxHandoffBytes, 4096

ASSUME HandoffAssumption ==
  /\ Lines \subseteq Seq(Bytes)
  /\ MaxBehind \in Nat /\ MaxMessages \in Nat /\ MaxBytes \in Nat

Latest(behind) ==
  IF Len(behind) <= MaxMessages THEN behind
  ELSE SubSeq(behind, Len(behind) - MaxMessages + 1, Len(behind))

\* After n bytes of the line a character ends.
EndsCharacter(line, n) == n = 0 \/ n = Len(line) \/ line[n + 1] \in RuneStart

\* Mutant: the line is cut where the room ends.
truncateAnywhere(line, limit) == SubSeq(line, 1, limit)

truncateUTF8(line, limit) ==
  IF limit <= 0 \/ Len(line) <= limit THEN line
  ELSE LET cut == CHOOSE n \in 0 .. limit :
                    /\ EndsCharacter(line, n)
                    /\ \A m \in n + 1 .. limit : ~EndsCharacter(line, m)
       IN SubSeq(line, 1, cut)

\* Lines are appended and reversed in the end; here each is put before the later ones.
AddLine(loop, line) ==
  LET remaining == MaxBytes - loop.total IN
  CASE loop.done -> loop
    [] ~loop.done /\ Len(line) <= remaining ->
         [loop EXCEPT !.text = line \o @, !.total = @ + Len(line)]
    [] OTHER ->
         [loop EXCEPT !.text = IF remaining > 0 THEN truncateUTF8(line, remaining) \o @ ELSE @,
                      !.done = TRUE]

formatHandoff(behind) ==
  LET messages == Latest(behind)
      n == Len(messages)
      loop[i \in 0 .. n] ==
        IF i = 0 THEN [text |-> <<>>, total |-> 0, done |-> FALSE]
        ELSE AddLine(loop[i - 1], messages[n + 1 - i])
  IN loop[n].text

-----------------------------------------------------------------------------
\* The last k messages.
LastJoined(messages, k) ==
  LET joined[i \in 0 .. k] ==
        IF i = 0 THEN <<>> ELSE messages[Len(messages) + 1 - i] \o joined[i - 1]
  IN joined[k]

\* The ends of what was said: the last k messages, and of the one before them the
\* beginning, up to the end of a character.
HandoffEnds(messages) ==
  {<<>>} \union
  UNION {{SubSeq(messages[i], 1, n) \o LastJoined(messages, Len(messages) - i) :
            n \in {m \in 0 .. Len(messages[i]) : EndsCharacter(messages[i], m)}} :
         i \in 1 .. Len(messages)}

\* Of any messages behind the cursor the longest end that fits is handed over.
LongestEnd(behind) ==
  LET ends == HandoffEnds(Latest(behind))
      text == formatHandoff(behind)
  IN /\ text \in ends /\ Len(text) <= MaxBytes
     /\ \A e \in ends : Len(e) <= MaxBytes => Len(e) <= Len(text)

HandoffIsLongestEnd ==
  \A n \in 0 .. MaxBehind : \A behind \in [1 .. n -> Lines] : LongestEnd(behind)
=============================================================================
