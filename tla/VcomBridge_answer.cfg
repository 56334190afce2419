SPECIFICATION FairSpec
CONSTANTS
  a = a
  b = b
  eol = eol
  nul = nul
  Chars <- MCChars
  NL = eol
  NUL = nul
  Lines <- ShortLines
  LINE_BUF_SIZE = 4
  MaxPacketSize = 2
  ReplyLens = {1, 4}
  OpenFirst = TRUE
  LinesPerWrite = {1}
  MaxUnanswered = 2
  MaxLines = 3
  MaxResets = 0
  MaxHalts = 2
INVARIANTS OneTurn CommandsAreLines RepliesIntact LayersAgree
PROPERTIES ReplyBufferStable AnswersInOrder NoneUnanswered
