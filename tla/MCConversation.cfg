\* Two turns in either mode, two sessions, one draft; one browser, two events
\* kept for replay, room for one in its channel.  Answers of seven letters.
\* Up to four messages behind a cursor, of which three may be told, in five bytes.
CONSTANTS
  MaxTurns = 2
  MaxSessions = 2
  MaxDrafts = 1
  Browsers = {b1}
  MaxReplay = 2
  Buffer = 1
  Start <- MCStart
  End <- MCEnd
  MaxHidden = 3
  Letters = {"<", "s", "e"}
  MaxText = 7
  Bytes = {"a", "b1", "b2"}
  RuneStart = {"a", "b1"}
  Lines <- MCLines
  MaxBehind = 4
  MaxMessages = 3
  MaxBytes = 5
SPECIFICATION StreamedSpec
CHECK_DEADLOCK FALSE
INVARIANTS
  AnswersShown
  
  DraftsShown
  HandedOver
PROPERTIES
  EmittedInOrder
