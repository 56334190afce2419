SPECIFICATION Spec
CONSTANTS
  WORD = 1024
  MaxPacketSize = 21
  Requests <- MCRequests
  Payloads = {1}
  Addresses = {1, 2}
  MaxLost = 1
INVARIANTS TypeOK Listens AnswerIsRight ViewsAgree EndpointsAsDescribed
PROPERTIES AddressAfterStatus Answered
