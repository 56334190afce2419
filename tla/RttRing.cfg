SPECIFICATION Spec
CONSTANTS
  RTT_UP_BUF_SIZE = 3
  Chars <- MCChars
  MainMessages <- MCMainMessages
  IsrMessages <- MCIsrMessages
  IsrPreempts = FALSE
  MaxMessages = 3
INVARIANTS TypeOK StreamIntact
PROPERTIES EverythingRead
