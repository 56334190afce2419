SPECIFICATION Spec
CONSTANTS
  RTT_UP_BUF_SIZE = 3
  Chars <- MCChars
  MainMessages <- MCMainMessages
  IsrMessages <- MCIsrMessages
  IsrPreempts = TRUE
  MaxMessages = 2
INVARIANT BytesAccounted
