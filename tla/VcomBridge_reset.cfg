SPECIFICATION FairSpec
CONSTANTS
  a = a
  b = b
  eol = eol
  nul = nul
  Chars <- MCChars
  NL = eol
  NUL = nul
  Lines <- LongLines
  LINE_BUF_SIZE = 4
  MaxPacketSize = 2
  ReplyLens = {4}
  OpenFirst = FALSE
  LinesPerWrite = {1, 2}
  MaxUnanswered = 2
  MaxLines = 2
  MaxResets = 2
  MaxHalts = 0
INVARIANTS TypeOK Terminated NeverDeaf NoStuckBusy NotificationTracked LayersAgree
PROPERTIES ListensAgain
