---------------------------- MODULE StreamFilter ----------------------------
(***************************************************************************)
(* Hiding the internal context Hermes may repeat in an answer: as deltas   *)
(* of the text arrive (internalStreamFilter), and in a complete text       *)
(* (stripInternalMarkers).  Texts are sequences of letters; the white      *)
(* space both trim is left out.                                            *)
(***************************************************************************)
EXTENDS Integers, Sequences, SequencesExt

CONSTANTS
  Letters,
  Start, End,      \* internalPromptStart and internalPromptEnd, which share a prefix
  MaxHidden,       \* letters of hidden text that are kept: 6144 in the code
  MaxText          \* bound: of the texts of the property

Differ(s, t) == \E i \in DOMAIN s \cap DOMAIN t : s[i] # t[i]

\* Inside a start marker no marker begins, and none is an end marker as well:
\* both begin with "<<<", go on differently and have no other "<".
ASSUME FilterAssumption ==
  /\ Start \in Seq(Letters) \ {<<>>} /\ End \in Seq(Letters) \ {<<>>}
  /\ \A n \in 1 .. Len(Start) :
       LET rest == SubSeq(Start, n, Len(Start)) IN
       Differ(rest, End) /\ (n > 1 => Differ(rest, Start))
  /\ MaxHidden \in Nat /\ MaxHidden >= Len(End) - 1
  /\ MaxText \in Nat

At(text, marker) ==
  {i \in 1 .. Len(text) - Len(marker) + 1 : SubSeq(text, i, i + Len(marker) - 1) = marker}

Has(text, marker) == At(text, marker) # {}
Before(text, marker) == SubSeq(text, 1, Min(At(text, marker)) - 1)
After(text, marker) == SubSeq(text, Min(At(text, marker)) + Len(marker), Len(text))

Ending(text, n) == SubSeq(text, Len(text) - n + 1, Len(text))

\* Mutant: a marker of which only the last letter is missing is not seen.
shortMarkerPrefixSuffix(value, marker) ==
  Max({n \in 0 .. Len(marker) - 2 : IsSuffix(SubSeq(marker, 1, n), value)})

longestMarkerPrefixSuffix(value, marker) ==
  Max({n \in 0 .. Len(marker) - 1 : IsSuffix(SubSeq(marker, 1, n), value)})

Hidden(buffer) == IF Len(buffer) > MaxHidden THEN Ending(buffer, Len(End) - 1) ELSE buffer

Filters == [buffer : Seq(Letters), inside : BOOLEAN, output : Seq(Letters)]

\* The loop of Feed: `output' is what has become visible.
Scan[filter \in Filters] ==
  LET buffer == filter.buffer IN
  CASE filter.inside /\ Has(buffer, End) ->
         Scan[[filter EXCEPT !.buffer = After(buffer, End), !.inside = FALSE]]
    [] filter.inside /\ ~Has(buffer, End) -> [filter EXCEPT !.buffer = Hidden(buffer)]
    [] ~filter.inside /\ Has(buffer, Start) ->
         Scan[[buffer |-> After(buffer, Start), inside |-> TRUE,
               output |-> filter.output \o Before(buffer, Start)]]
    [] OTHER ->
         LET keep == longestMarkerPrefixSuffix(buffer, Start) IN
         [filter EXCEPT !.buffer = Ending(buffer, keep),
                        !.output = @ \o SubSeq(buffer, 1, Len(buffer) - keep)]

Feed(filter, delta) == Scan[[filter EXCEPT !.buffer = @ \o delta]]

Flush(filter) == IF filter.inside THEN filter.output ELSE filter.output \o filter.buffer

NewFilter == [buffer |-> <<>>, inside |-> FALSE, output |-> <<>>]

Streamed(deltas) ==
  LET fed[i \in 0 .. Len(deltas)] == IF i = 0 THEN NewFilter ELSE Feed(fed[i - 1], deltas[i])
  IN Flush(fed[Len(deltas)])

\* From the first start marker on.
FromStart(text) == SubSeq(text, Min(At(text, Start)), Len(text))

stripInternalMarkers[text \in Seq(Letters)] ==
  IF Has(text, Start) /\ Has(FromStart(text), End)
  THEN stripInternalMarkers[Before(text, Start) \o After(FromStart(text), End)]
  ELSE text

\* message.complete, with the whole text, which is shown if nothing of it was.
Answer(deltas, text) ==
  IF Streamed(deltas) # <<>> THEN Streamed(deltas) ELSE stripInternalMarkers[text]

-----------------------------------------------------------------------------
\* Letter by letter: what is outside every block, and whether all are closed.
Outside[text \in Seq(Letters)] ==
  CASE text = <<>> -> [text |-> <<>>, closed |-> TRUE]
    [] text # <<>> /\ IsPrefix(Start, text) ->
         LET rest == SubSeq(text, Len(Start) + 1, Len(text)) IN
         IF Has(rest, End) THEN Outside[After(rest, End)] ELSE [text |-> <<>>, closed |-> FALSE]
    [] OTHER -> LET rest == Outside[Tail(text)] IN
                [rest EXCEPT !.text = <<Head(text)>> \o @]

Texts == UNION {[1 .. n -> Letters] : n \in 0 .. MaxText}

Split(text, i, j) == <<SubSeq(text, 1, i), SubSeq(text, i + 1, j), SubSeq(text, j + 1, Len(text))>>

\* The answers of every text, split into three deltas in every way.
AnswerIsOutside ==
  \A text \in Texts :
    LET outside == Outside[text] IN
    /\ \A i \in 0 .. Len(text) : \A j \in i .. Len(text) :
         /\ Streamed(Split(text, i, j)) = outside.text
         /\ outside.closed => Answer(Split(text, i, j), text) = outside.text
    /\ outside.closed /\ ~Has(outside.text, Start) =>
         stripInternalMarkers[text] = outside.text
=============================================================================
