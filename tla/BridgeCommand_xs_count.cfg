SPECIFICATION Spec
CONSTANTS
  I2C_CMD_MAX_DATA = 2
  SEND_BUF_SIZE = 13
  LAST_ADDR = 3
  ScanFirst = 1
  ScanLast = 3
  Targets <- MCTargets
  Commands <- MCCommands
  MaxFaults = 2
INVARIANT WriteThenRead
