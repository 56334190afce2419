SPECIFICATION Spec
CONSTANTS
  TICKS = 5
  timeoutTicks = 2
  MaxLag = 2
  bufMax = 2
  Texts <- MCTexts
  MaxTransfers = 2
  MaxWaits = 2
INVARIANTS TypeOK CapturesTheWrite TimeoutIsLate
PROPERTIES WaitEnds ClockReleased
