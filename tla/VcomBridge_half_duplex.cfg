SPECIFICATION Spec
CONSTANTS
  a = a
  b = b
  eol = eol
  nul = nul
  Chars <- MCChars
  NL = eol
  NUL = nul
  Lines <- ShortLines
  LINE_BUF_SIZE = 4
  MaxPacketSize = 2
  ReplyLens = {1, 4}
  OpenFirst = TRUE
  LinesPerWrite = {1}
  MaxUnanswered = 1
  MaxLines = 1
  MaxResets = 1
  MaxHalts = 0
INVARIANT HalfDuplex
