------------------------- MODULE BridgeCommandProofs -------------------------
(***************************************************************************)
(* Proofs about BridgeCommand for every buffer size, address range, set of   *)
(* targets and set of commands.                                             *)
(***************************************************************************)
EXTENDS BridgeCommand, SequenceTheorems, FiniteSetTheorems, TLAPS

USE CommandAssumption DEF Answer, busVars

ScanSize == ScanLast - ScanFirst + 1

(* How many bytes a reply under construction may list.                      *)
Listed ==
  /\ pc \in {"probe", "probed"} => items <= next - ScanFirst
  /\ items <= I2C_CMD_MAX_DATA \/ items <= ScanSize

SizeInv ==
  /\ TypeOK
  /\ Listed
  /\ pc \in {"read", "gotData"} => ReadLen(line) <= I2C_CMD_MAX_DATA

(* A parsed line leaves room for the PEC byte that WS appends.              *)
LEMMA TakenFits ==
  ASSUME NEW l \in Command
  PROVE  /\ Taken(l) \in Nat
         /\ Taken(l) + (IF AppendsPec(l) THEN 1 ELSE 0) \in 0 .. I2C_CMD_MAX_DATA
  BY DEF Command, Taken, DataMax, AppendsPec

LEMMA BufferBytes ==
  ASSUME NEW kind \in {"data", "rdata"}, NEW n \in Int
  PROVE  Buffer(kind, n) \in Seq(Byte)
<1>1. CASE n \in Nat
  BY <1>1 DEF Buffer, Byte
<1>2. CASE n < 0
  <2>1. 1 .. n = 1 .. 0
    BY <1>2
  <2>2. Buffer(kind, n) = [i \in 1 .. 0 |-> [kind |-> kind, n |-> i]]
    BY <2>1 DEF Buffer
  <2> QED BY <2>2 DEF Byte
<1> QED BY <1>1, <1>2

LEMMA AddressBytes == AddrW \in Seq(Byte) /\ AddrR \in Seq(Byte) /\ Pec \in Seq(Byte)
  BY DEF AddrW, AddrR, Pec, Byte

(* The bytes of each transfer, and those given to the CRC.                  *)
LEMMA WireBytes ==
  ASSUME TypeOK
  PROVE  DataBytes \in Seq(Byte) /\ ReadBytes \in Seq(Byte) /\ ReadCrc \in Seq(Byte)
<1>1. dataLen \in Int /\ dataLen - 1 \in Int /\ line.count \in Int
  BY DEF TypeOK, Command
<1>2. /\ Buffer("data", dataLen) \in Seq(Byte) /\ Buffer("data", dataLen - 1) \in Seq(Byte)
      /\ Buffer("rdata", line.count) \in Seq(Byte)
  BY <1>1, BufferBytes
<1>3. DataBytes \in Seq(Byte)
  BY <1>2, AddressBytes, ConcatProperties DEF DataBytes
<1>4. ReadBytes \in Seq(Byte)
  <2>1. Buffer("rdata", line.count) \o Pec \in Seq(Byte)
    BY <1>2, AddressBytes, ConcatProperties
  <2>2. Buffer("rdata", line.count) \o << >> \in Seq(Byte)
    BY <1>2
  <2> QED BY <2>1, <2>2 DEF ReadBytes
<1>5. ReadCrc \in Seq(Byte)
  <2>1. AddrW \o DataBytes \in Seq(Byte)
    BY <1>3, AddressBytes, ConcatProperties
  <2>2. (IF line.cmd = "X" THEN AddrW \o DataBytes ELSE << >>) \in Seq(Byte)
    BY <2>1
  <2>3. (IF line.cmd = "X" THEN AddrW \o DataBytes ELSE << >>) \o AddrR \in Seq(Byte)
    BY <2>2, AddressBytes, ConcatProperties
  <2> QED BY <1>2, <2>3, ConcatProperties DEF ReadCrc
<1> QED BY <1>3, <1>4, <1>5

(* A transfer keeps the types of what it changes.                           *)
LEMMA TransferType ==
  ASSUME TypeOK, NEW addr, NEW bytes \in Seq(Byte), NEW noStop \in BOOLEAN,
         Transfer(addr, bytes, noStop)
  PROVE  /\ status' \in BusErrors \cup {"Success", "Nak"}
         /\ wire' \in Seq(Byte)
         /\ held' \in BOOLEAN
         /\ stuck' \in Nat
         /\ faults' \in 0 .. MaxFaults
         /\ disturbed' \in Nat
<1>1. wire \o bytes \in Seq(Byte)
  BY ConcatProperties DEF TypeOK
<1>2. status' \in BusErrors \cup {"Success", "Nak"}
  BY DEF Transfer
<1>3. wire' \in Seq(Byte)
  BY <1>1 DEF Transfer, TypeOK
<1>4. held' \in BOOLEAN
  BY Zenon DEF Transfer, TypeOK
<1>6. stuck' \in Nat
  BY DEF Transfer, TypeOK, MID_BYTE_CLOCKS
<1>5. faults' \in 0 .. MaxFaults /\ disturbed' \in Nat
  BY DEF Transfer, TypeOK
<1> QED BY <1>2, <1>3, <1>4, <1>5, <1>6

LEMMA RecoveryType ==
  ASSUME TypeOK, RecoverIfNeeded
  PROVE  held' \in BOOLEAN /\ stuck' \in Nat
<1>1. held' \in BOOLEAN
  BY Zenon DEF TypeOK, RecoverIfNeeded, BusRecover
<1>2. stuck' \in Nat
  BY DEF TypeOK, RecoverIfNeeded, BusRecover, RECOVER_CLOCKS
<1> QED BY <1>1, <1>2
LEMMA SizeInit == Init => SizeInv
<1> SUFFICES ASSUME Init PROVE SizeInv
  OBVIOUS
<1>1. line \in Command /\ next \in ScanFirst .. ScanLast
  BY DEF Init
<1>2. wire \in Seq(Byte) /\ crc \in Seq(Byte)
  BY DEF Init
<1>3. held \in BOOLEAN
  BY Zenon DEF Init
<1>4. /\ pc \in Steps /\ dataLen \in 0 .. I2C_CMD_MAX_DATA /\ items \in Nat
      /\ stuck \in Nat /\ faults \in 0 .. MaxFaults /\ disturbed \in Nat
  BY DEF Init, Steps
<1>5. status \in BusErrors \cup {"Success", "Nak"} /\ reply \in {"none", "OK", "refused", "failed"}
  BY DEF Init
<1>6. Listed
  BY DEF Init, Listed
<1>7. TypeOK
  BY <1>1, <1>2, <1>3, <1>4, <1>5 DEF TypeOK
<1>8. pc \notin {"read", "gotData"}
  BY DEF Init
<1> QED BY <1>6, <1>7, <1>8 DEF SizeInv

(* The actions that call the driver.                                        *)
LEMMA SizeTransfers ==
  SizeInv /\ (Probe \/ Write \/ Read) => SizeInv'
<1> SUFFICES ASSUME SizeInv, Probe \/ Write \/ Read PROVE SizeInv'
  OBVIOUS
<1> USE DEF SizeInv
<1>1. CASE Probe
  <2>1. AddrW \in Seq(Byte)
    BY AddressBytes
  <2>2. Transfer(next, AddrW, FALSE)
    BY <1>1 DEF Probe
  <2> QED BY <1>1, <2>1, <2>2, TransferType DEF Probe, TypeOK, Steps, Listed
<1>2. CASE Write
  <2>1. AddrW \o DataBytes \in Seq(Byte)
    BY AddressBytes, WireBytes, ConcatProperties
  <2>2. Transfer(line.addr, AddrW \o DataBytes, line.cmd = "X")
    BY <1>2 DEF Write
  <2> QED BY <1>2, <2>1, <2>2, TransferType DEF Write, TypeOK, Steps, Listed
<1>3. CASE Read
  <2>1. AddrR \o ReadBytes \in Seq(Byte)
    BY AddressBytes, WireBytes, ConcatProperties
  <2>2. Transfer(line.addr, AddrR \o ReadBytes, FALSE)
    BY <1>3 DEF Read
  <2> QED BY <1>3, <2>1, <2>2, TransferType DEF Read, TypeOK, Steps, Listed
<1> QED BY <1>1, <1>2, <1>3

LEMMA SizeParse ==
  ASSUME SizeInv, NEW l \in Commands, Parse(l)
  PROVE  SizeInv'
<1> USE DEF SizeInv
<1>1. l \in Command
  OBVIOUS
<1>2. dataLen' \in 0 .. I2C_CMD_MAX_DATA
  BY <1>1, TakenFits DEF Parse
<1>3. wire' \in Seq(Byte) /\ crc' \in Seq(Byte)
  <2>1. Taken(l) \in Int
    BY <1>1, TakenFits
  <2>2. AddrW \o Buffer("data", Taken(l)) \in Seq(Byte)
    BY <2>1, BufferBytes, AddressBytes, ConcatProperties
  <2> QED BY <2>2 DEF Parse
<1>4. pc' \in Steps /\ reply' \in {"none", "OK", "refused", "failed"}
  BY DEF Parse, FirstStep, Steps
<1>5. pc' \in {"read", "gotData"} => ReadLen(l) <= I2C_CMD_MAX_DATA
  <2>1. SUFFICES ASSUME pc' \in {"read", "gotData"} PROVE ReadLen(l) <= I2C_CMD_MAX_DATA
    OBVIOUS
  <2>2. ~BadCount(l) /\ FirstStep(l) \in {"read", "gotData"}
    BY <2>1 DEF Parse
  <2>3. l.cmd = "R"
    BY <2>2 DEF FirstStep
  <2>4. ReadLen(l) \in Nat
    BY <1>1 DEF ReadLen, Command
  <2> QED BY <2>2, <2>3, <2>4 DEF BadCount
<1>6. next' = ScanFirst /\ items' = 0 /\ line' = l /\ disturbed' \in Nat
  BY DEF Parse
<1>7. (ReadLen(line))' = ReadLen(l)
  BY <1>6 DEF ReadLen, ReadsPec
<1>8. UNCHANGED <<status, held, stuck, faults>>
  BY DEF Parse
<1>9. TypeOK'
  BY <1>1, <1>2, <1>3, <1>4, <1>6, <1>8 DEF TypeOK
<1>10. Listed'
  BY <1>6 DEF Listed
<1> QED BY <1>5, <1>7, <1>9, <1>10

LEMMA SizeDecisions ==
  SizeInv /\ (Probed \/ Written \/ GotData \/ Listen \/ Return \/ TargetSticks) => SizeInv'
<1> SUFFICES ASSUME SizeInv, Probed \/ Written \/ GotData \/ Listen \/ Return \/ TargetSticks
             PROVE  SizeInv'
  OBVIOUS
<1> USE DEF SizeInv
<1>1. CASE Probed
  <2>1. held' \in BOOLEAN /\ stuck' \in Nat
    BY <1>1, RecoveryType DEF Probed
  <2>2. next' \in ScanFirst .. ScanLast /\ items' \in Nat /\ Listed'
    BY <1>1 DEF Probed, TypeOK, Listed, ScanSize
  <2>3. pc' \in {"probe", "done"} /\ reply' \in {"none", "OK", "refused", "failed"}
    BY <1>1 DEF Probed, TypeOK
  <2> QED BY <1>1, <2>1, <2>2, <2>3 DEF Probed, TypeOK, Steps
<1>2. CASE Written
  <2>1. held' \in BOOLEAN /\ stuck' \in Nat
    BY <1>2, RecoveryType DEF Written, Failed, TypeOK
  <2>2. pc' \in {"done", "read", "listen"} /\ reply' \in {"none", "OK", "refused", "failed"}
    BY <1>2 DEF Written, Failed, TypeOK
  <2>3. pc' = "read" => ReadLen(line) <= I2C_CMD_MAX_DATA
    BY <1>2 DEF Written, Failed
  <2> QED BY <1>2, <2>1, <2>2, <2>3 DEF Written, TypeOK, Steps, Listed, ReadLen, ReadsPec
<1>3. CASE GotData
  <2>1. held' \in BOOLEAN /\ stuck' \in Nat
    BY <1>3, RecoveryType DEF GotData, Failed, TypeOK
  <2>2. pc' = "done" /\ reply' \in {"none", "OK", "refused", "failed"}
    BY <1>3 DEF GotData, Failed
  <2>3. line.count \in Nat /\ line.count <= I2C_CMD_MAX_DATA
    BY <1>3 DEF GotData, TypeOK, Command, ReadLen
  <2>4. items' \in Nat /\ (items' <= I2C_CMD_MAX_DATA \/ items' <= ScanSize)
    BY <1>3, <2>3 DEF GotData, Listed, TypeOK
  <2>5. crc' \in Seq(Byte)
    BY <1>3, WireBytes DEF GotData, TypeOK
  <2> QED BY <1>3, <2>1, <2>2, <2>4, <2>5 DEF GotData, TypeOK, Steps, Listed
<1>4. CASE Listen
  <2>1. held' \in BOOLEAN
    BY <1>4, Zenon DEF Listen
  <2>2. items' \in Nat /\ (items' <= I2C_CMD_MAX_DATA \/ items' <= ScanSize)
    BY <1>4 DEF Listen, TypeOK, Listed
  <2>3. pc' = "done" /\ reply' \in {"none", "OK", "refused", "failed"}
    BY <1>4 DEF Listen
  <2> QED BY <1>4, <2>1, <2>2, <2>3 DEF Listen, TypeOK, Steps, Listed
<1>5. CASE Return
  BY <1>5 DEF Return, TypeOK, Steps, Listed
<1>6. CASE TargetSticks
  BY <1>6 DEF TargetSticks, TypeOK, Listed, MID_BYTE_CLOCKS
<1> QED BY <1>1, <1>2, <1>3, <1>4, <1>5, <1>6

LEMMA SizeStep == SizeInv /\ [Next]_vars => SizeInv'
<1> SUFFICES ASSUME SizeInv, [Next]_vars PROVE SizeInv'
  OBVIOUS
<1>1. CASE UNCHANGED vars
  <2>1. TypeOK'
    BY <1>1 DEF vars, SizeInv, TypeOK
  <2>2. Listed'
    BY <1>1 DEF vars, SizeInv, Listed
  <2>3. (pc \in {"read", "gotData"} => ReadLen(line) <= I2C_CMD_MAX_DATA)'
    BY <1>1 DEF vars, SizeInv, ReadLen, ReadsPec
  <2> QED BY <2>1, <2>2, <2>3 DEF SizeInv
<1>2. CASE Next
  BY <1>2, SizeParse, SizeTransfers, SizeDecisions DEF Next
<1> QED BY <1>1, <1>2

(* The bytes a read asks for: the count and, with a PEC, one more.          *)
LEMMA ReadBytesLength ==
  ASSUME TypeOK
  PROVE  Len(ReadBytes) = ReadLen(line)
<1>1. line.count \in Nat
  BY DEF TypeOK, Command
<1>2. /\ Buffer("rdata", line.count) \in Seq(Byte)
      /\ Len(Buffer("rdata", line.count)) = line.count
  BY <1>1, BufferBytes DEF Buffer
<1>3. Len(Pec) = 1 /\ Pec \in Seq(Byte)
  BY AddressBytes DEF Pec
<1>4. Len(Buffer("rdata", line.count) \o Pec) = line.count + 1
  <2> DEFINE r == Buffer("rdata", line.count)
  <2>1. r \in Seq(Byte) /\ Len(r) = line.count
    BY <1>2
  <2> HIDE DEF r
  <2>2. Len(r \o Pec) = Len(r) + Len(Pec)
    BY <1>3, <2>1, ConcatProperties
  <2> QED BY <1>3, <2>1, <2>2 DEF r
<1>5. Len(Buffer("rdata", line.count) \o << >>) = line.count
  BY <1>2, ConcatEmptySeq
<1>6. CASE ReadsPec(line)
  BY <1>1, <1>4, <1>6 DEF ReadBytes, ReadLen
<1>7. CASE ~ReadsPec(line)
  BY <1>1, <1>5, <1>7 DEF ReadBytes, ReadLen
<1> QED BY <1>6, <1>7

(* data[] is never exceeded, the PEC byte of WS included: dataLen keeps its    *)
(* range through the appends of process_command, and all else its type.       *)
THEOREM CommandTypes == Spec => []TypeOK
<1>1. SizeInv => TypeOK
  BY DEF SizeInv
<1> QED BY <1>1, SizeInit, SizeStep, PTL DEF Spec

(* rdata[] is never exceeded, whatever the count and with or without a PEC     *)
(* byte, and no reply is longer than s_currSendBuf.                          *)
THEOREM BuffersSuffice == Spec => []BuffersFit
<1>1. SizeInv => BuffersFit
  <2> SUFFICES ASSUME SizeInv PROVE BuffersFit
    OBVIOUS
  <2>1. pc \in {"read", "gotData"} => Len(ReadBytes) <= I2C_CMD_MAX_DATA
    BY ReadBytesLength DEF SizeInv
  <2>2. ReplyLength(items) <= SEND_BUF_SIZE
    BY SendBufAssumption DEF SizeInv, TypeOK, Listed, ReplyLength, ScanSize
  <2> QED BY <2>1, <2>2 DEF BuffersFit
<1> QED BY <1>1, SizeInit, SizeStep, PTL DEF Spec
------------------------------------------------------------------------------
(* PEC coverage.                                                            *)

(* What a write that went through puts on the wire.                         *)
WholeWrite == AddrW \o DataBytes

(* What WS gave to the CRC before its transfer.                             *)
WriteCrc == IF AppendsPec(line) THEN AddrW \o Buffer("data", dataLen - 1) ELSE << >>

(* Where the wire and the CRC stand at each step of a command. An X whose      *)
(* write reports success at an absent address has nothing on the wire yet, and *)
(* its read cannot succeed there.                                            *)
PecInv ==
  /\ pc \in {"probe", "probed", "listen"} => crc = << >>
  /\ pc \in {"write", "written"} => crc = WriteCrc /\ line.cmd \in {"W", "X", "I"}
  /\ pc = "write" => wire = << >>
  /\ pc = "written" => /\ wire \in {<< >>, WholeWrite}
                       /\ status = "Success" /\ line.addr \in Targets => wire = WholeWrite
  /\ pc = "read" => /\ crc = << >> /\ line.cmd \in {"R", "X"}
                    /\ line.cmd = "R" => wire = << >>
                    /\ line.cmd = "X" /\ line.addr \in Targets => wire = WholeWrite
  /\ pc = "gotData" => /\ crc = << >> /\ line.cmd \in {"R", "X"}
                       /\ status = "Success" =>
                            wire = (IF line.cmd = "X" THEN WholeWrite ELSE << >>)
                                     \o (AddrR \o ReadBytes)
  /\ PecCoversWire

(* These depend on the command alone.                                       *)
LEMMA SameLine ==
  ASSUME UNCHANGED <<line, dataLen>>
  PROVE  /\ WholeWrite' = WholeWrite
         /\ WriteCrc' = WriteCrc
         /\ ReadBytes' = ReadBytes
  BY DEF WholeWrite, WriteCrc, DataBytes, ReadBytes, AppendsPec, ReadsPec

(* What a transfer leaves on the wire.                                      *)
LEMMA TransferWire ==
  ASSUME NEW addr, NEW bytes, NEW noStop \in BOOLEAN, Transfer(addr, bytes, noStop)
  PROVE  /\ wire' \in {wire, wire \o bytes}
         /\ status' = "Success" /\ addr \in Targets => wire' = wire \o bytes
         /\ status' = "Success" /\ addr \notin Targets => noStop
<1>1. "Success" \notin BusErrors
  BY DEF BusErrors
<1>2. wire' \in {wire, wire \o bytes}
  BY DEF Transfer
<1>3. status' = "Success" /\ addr \in Targets => wire' = wire \o bytes
  BY <1>1 DEF Transfer
<1>4. status' = "Success" /\ addr \notin Targets => noStop
  BY <1>1 DEF Transfer
<1> QED BY <1>2, <1>3, <1>4

(* WS: the PEC byte follows what it covers.                                 *)
LEMMA WriteCovered ==
  ASSUME TypeOK, AppendsPec(line)
  PROVE  WholeWrite = WriteCrc \o Pec
<1> DEFINE b == Buffer("data", dataLen - 1)
<1>1. b \in Seq(Byte)
  BY BufferBytes DEF TypeOK
<1> HIDE DEF b
<1>2. WholeWrite = AddrW \o (b \o Pec)
  BY DEF WholeWrite, DataBytes, b
<1>3. WriteCrc = AddrW \o b
  BY DEF WriteCrc, b
<1>4. (AddrW \o b) \o Pec = AddrW \o (b \o Pec)
  BY <1>1, AddressBytes, ConcatAssociative, SMTT(30)
<1> QED BY <1>2, <1>3, <1>4

(* RS and XS: the PEC byte follows everything since the first START.        *)
LEMMA ReadCovered ==
  ASSUME TypeOK, ReadsPec(line)
  PROVE  (IF line.cmd = "X" THEN WholeWrite ELSE << >>) \o (AddrR \o ReadBytes) = ReadCrc \o Pec
<1> DEFINE w == IF line.cmd = "X" THEN WholeWrite ELSE << >>
           b == Buffer("rdata", line.count)
<1>1. b \in Seq(Byte)
  BY BufferBytes DEF TypeOK, Command
<1>2. w \in Seq(Byte)
  <2>1. WholeWrite \in Seq(Byte)
    BY WireBytes, AddressBytes, ConcatProperties DEF WholeWrite
  <2> QED BY <2>1
<1>3. ReadBytes = b \o Pec
  BY DEF ReadBytes
<1>4. ReadCrc = (w \o AddrR) \o b
  BY DEF ReadCrc, WholeWrite
<1>5. AddrR \in Seq(Byte) /\ Pec \in Seq(Byte)
  BY AddressBytes
<1>6. w \o AddrR \in Seq(Byte) /\ b \o Pec \in Seq(Byte)
  BY <1>1, <1>2, <1>5, ConcatProperties
<1> HIDE DEF w, b
<1>7. ((w \o AddrR) \o b) \o Pec = w \o (AddrR \o (b \o Pec))
  <2>1. ((w \o AddrR) \o b) \o Pec = (w \o AddrR) \o (b \o Pec)
    BY <1>1, <1>5, <1>6, ConcatAssociative, SMTT(30)
  <2>2. (w \o AddrR) \o (b \o Pec) = w \o (AddrR \o (b \o Pec))
    BY <1>2, <1>5, <1>6, ConcatAssociative, SMTT(30)
  <2> QED BY <2>1, <2>2
<1>8. w \o (AddrR \o ReadBytes) = ReadCrc \o Pec
  BY <1>3, <1>4, <1>7
<1> QED BY <1>8 DEF w

LEMMA PecParse ==
  ASSUME TypeOK, NEW l \in Commands, Parse(l)
  PROVE  PecInv'
<1>1. wire' = << >> /\ line' = l
  BY DEF Parse
<1>2. CASE pc' = "done"
  BY <1>1, <1>2 DEF PecInv, PecCoversWire
<1>3. CASE pc' # "done"
  <2>1. pc' = FirstStep(l) /\ l.cmd \in {"S", "W", "R", "X", "I", "L"}
    BY <1>3 DEF Parse, Command, Letters
  <2>2. crc' = WriteCrc'
    <3>1. CASE AppendsPec(l)
      <4>1. dataLen' = Taken(l) + 1 /\ Taken(l) \in Nat
        BY <3>1, TakenFits DEF Parse
      <4>2. dataLen' - 1 = Taken(l)
        BY <4>1
      <4>3. crc' = AddrW \o Buffer("data", Taken(l))
        BY <3>1 DEF Parse
      <4> QED BY <1>1, <3>1, <4>2, <4>3 DEF WriteCrc, AppendsPec
    <3>2. CASE ~AppendsPec(l)
      BY <1>1, <3>2 DEF Parse, WriteCrc, AppendsPec
    <3> QED BY <3>1, <3>2
  <2>3. l.cmd # "W" => crc' = << >>
    BY DEF Parse, AppendsPec
  <2>4. CASE l.cmd = "S"
    BY <1>1, <2>1, <2>3, <2>4 DEF FirstStep, PecInv, PecCoversWire
  <2>5. CASE l.cmd = "L"
    BY <1>1, <2>1, <2>3, <2>5 DEF FirstStep, PecInv, PecCoversWire
  <2>6. CASE l.cmd = "R"
    BY <1>1, <2>1, <2>3, <2>6 DEF FirstStep, PecInv, PecCoversWire
  <2>7. CASE l.cmd \in {"W", "X", "I"}
    BY <1>1, <2>1, <2>2, <2>7 DEF FirstStep, PecInv, PecCoversWire
  <2> QED BY <2>1, <2>4, <2>5, <2>6, <2>7
<1> QED BY <1>2, <1>3

LEMMA PecTransfers ==
  ASSUME TypeOK, PecInv, Probe \/ Write \/ Read
  PROVE  PecInv'
<1>1. CASE Probe
  BY <1>1 DEF Probe, PecInv, PecCoversWire
<1>2. CASE Write
  <2>1. Transfer(line.addr, WholeWrite, line.cmd = "X") /\ wire = << >>
    BY <1>2 DEF Write, WholeWrite, PecInv
  <2>2. << >> \o WholeWrite = WholeWrite
    <3>1. WholeWrite \in Seq(Byte)
      BY WireBytes, AddressBytes, ConcatProperties DEF WholeWrite
    <3> QED BY <3>1, ConcatEmptySeq
  <2>3. /\ wire' \in {<< >>, WholeWrite}
        /\ status' = "Success" /\ line.addr \in Targets => wire' = WholeWrite
    BY <2>1, <2>2, TransferWire
  <2>4. UNCHANGED <<line, dataLen, crc>> /\ pc' = "written" /\ pc = "write"
    BY <1>2 DEF Write
  <2> QED BY <2>3, <2>4, SameLine DEF PecInv, PecCoversWire
<1>3. CASE Read
  <2>1. Transfer(line.addr, AddrR \o ReadBytes, FALSE)
    BY <1>3 DEF Read
  <2>2. UNCHANGED <<line, dataLen, crc>> /\ pc' = "gotData" /\ pc = "read"
    BY <1>3 DEF Read
  <2>3. status' = "Success" => line.addr \in Targets /\ wire' = wire \o (AddrR \o ReadBytes)
    BY <2>1, TransferWire
  <2>4. line.addr \in Targets => wire = (IF line.cmd = "X" THEN WholeWrite ELSE << >>)
    BY <2>2 DEF PecInv
  <2>5. status' = "Success" =>
          wire' = (IF line.cmd = "X" THEN WholeWrite ELSE << >>) \o (AddrR \o ReadBytes)
    BY <2>3, <2>4
  <2> QED BY <2>2, <2>5, SameLine DEF PecInv, PecCoversWire
<1> QED BY <1>1, <1>2, <1>3

LEMMA PecDecisions ==
  ASSUME TypeOK, PecInv, Probed \/ Written \/ GotData \/ Listen \/ Return \/ TargetSticks
  PROVE  PecInv'
<1>1. CASE Probed
  BY <1>1 DEF Probed, PecInv, PecCoversWire
<1>2. CASE Written
  <2>1. UNCHANGED <<line, dataLen, status, wire, crc>> /\ pc = "written"
    BY <1>2 DEF Written
  <2>2. crc = WriteCrc /\ wire \in {<< >>, WholeWrite}
    BY <2>1 DEF PecInv
  <2>3. crc # << >> /\ wire # << >> => wire = crc \o Pec
    <3>1. crc # << >> => AppendsPec(line)
      BY <2>2 DEF WriteCrc
    <3> QED BY <2>2, <3>1, WriteCovered
  <2>4. line.cmd # "W" => crc = << >>
    BY <2>2 DEF WriteCrc, AppendsPec
  <2>5. CASE pc' = "done"
    BY <2>1, <2>3, <2>5 DEF PecInv, PecCoversWire
  <2>6. CASE pc' = "listen"
    BY <1>2, <2>1, <2>4, <2>6 DEF Written, Failed, PecInv, PecCoversWire
  <2>7. CASE pc' = "read"
    <3>1. status = "Success" /\ line.cmd = "X"
      BY <1>2, <2>7 DEF Written, Failed
    <3> QED BY <2>1, <2>4, <2>7, <3>1, SameLine DEF PecInv, PecCoversWire
  <2> QED BY <1>2, <2>5, <2>6, <2>7 DEF Written, Failed
<1>3. CASE GotData
  <2>1. UNCHANGED <<line, dataLen, status, wire>> /\ pc = "gotData" /\ pc' = "done"
    BY <1>3 DEF GotData, Failed
  <2>2. crc = << >>
    BY <2>1 DEF PecInv
  <2>3. CASE crc' = << >>
    BY <2>1, <2>3 DEF PecInv, PecCoversWire
  <2>4. CASE crc' # << >>
    <3>1. status = "Success" /\ ReadsPec(line) /\ crc' = ReadCrc
      BY <1>3, <2>2, <2>4 DEF GotData, Failed
    <3>2. wire = ReadCrc \o Pec
      BY <2>1, <3>1, ReadCovered DEF PecInv
    <3> QED BY <2>1, <3>1, <3>2 DEF PecInv, PecCoversWire
  <2> QED BY <2>3, <2>4
<1>4. CASE Listen
  BY <1>4 DEF Listen, PecInv, PecCoversWire
<1>5. CASE Return
  BY <1>5 DEF Return, PecInv, PecCoversWire
<1>6. CASE TargetSticks
  BY <1>6, SameLine DEF TargetSticks, PecInv, PecCoversWire
<1> QED BY <1>1, <1>2, <1>3, <1>4, <1>5, <1>6

LEMMA PecStep == SizeInv /\ PecInv /\ [Next]_vars => PecInv'
<1> SUFFICES ASSUME SizeInv, PecInv, [Next]_vars PROVE PecInv'
  OBVIOUS
<1>1. TypeOK
  BY DEF SizeInv
<1>2. CASE UNCHANGED vars
  BY <1>2, SameLine DEF vars, PecInv, PecCoversWire
<1>3. CASE Next
  BY <1>1, <1>3, PecParse, PecTransfers, PecDecisions DEF Next
<1> QED BY <1>2, <1>3

(* "PEC is a CRC-8 over every byte actually seen on the wire": whatever the    *)
(* data, the count and the outcomes of the transfers, the bytes given to the  *)
(* CRC are those of the wire, in order, and the PEC byte is the one after.   *)
THEOREM PecComplete == Spec => []PecCoversWire
<1>1. Init => PecInv
  BY DEF Init, PecInv, PecCoversWire
<1>2. PecInv => PecCoversWire
  BY DEF PecInv
<1> QED BY <1>1, <1>2, SizeInit, SizeStep, PecStep, PTL DEF Spec
------------------------------------------------------------------------------
(* The bus after a command.                                                  *)

(* A target that holds SDA makes the transfer fail with an error of the bus,    *)
(* which is what recovery goes by; and it lets go within its nine clocks. The *)
(* wait, which has no recovery, comes in an L or after the write of an I.      *)
HealInv ==
  /\ stuck <= MID_BYTE_CLOCKS
  /\ pc \in {"probed", "written", "gotData"} /\ stuck > 0 => status \in BusErrors
  /\ pc = "listen" => line.cmd = "L" \/ (line.cmd = "I" /\ status = "Success")
  /\ SelfHeals

(* A transfer that ended well, or with a NAK, gave the bus back, but for the     *)
(* write of an X; the count of an X fits the buffer without its PEC byte.     *)
HeldInv ==
  /\ pc \in {"probed", "written", "gotData"} /\ held =>
       status \in BusErrors \/ (pc = "written" /\ status = "Success" /\ line.cmd = "X")
  /\ pc \in {"write", "written"} /\ line.cmd = "X" => line.count <= I2C_CMD_MAX_DATA

LEMMA Statuses == "Success" \notin BusErrors /\ "Nak" \notin BusErrors
BY DEF BusErrors

LEMMA TransferBus ==
  ASSUME TypeOK, HealInv, NEW addr, NEW bytes, NEW noStop \in BOOLEAN,
         Transfer(addr, bytes, noStop)
  PROVE  /\ stuck' <= MID_BYTE_CLOCKS
         /\ stuck' > 0 => status' \in BusErrors
         /\ held' => status' \in BusErrors \/ (noStop /\ status' = "Success")
<1>1. stuck' <= MID_BYTE_CLOCKS /\ (stuck' > 0 => status' \in BusErrors)
  BY DEF Transfer, HealInv, TypeOK, MID_BYTE_CLOCKS
<1>2. \/ status' \in BusErrors
      \/ status' = "Success" /\ held' = noStop
      \/ held' = FALSE
  BY Zenon DEF Transfer
<1>3. held' => status' \in BusErrors \/ (noStop /\ status' = "Success")
  BY <1>2, Zenon
<1> QED BY <1>1, <1>3

LEMMA RecoveryBus ==
  ASSUME TypeOK, stuck <= MID_BYTE_CLOCKS, stuck > 0 => status \in BusErrors, RecoverIfNeeded
  PROVE  /\ stuck' = 0
         /\ held' => held /\ status \notin BusErrors
<1>1. CASE status \in {"Success", "Nak"}
  BY <1>1, Statuses DEF RecoverIfNeeded, TypeOK
<1>2. CASE status \notin {"Success", "Nak"}
  <2>1. held' = FALSE /\ stuck' = IF stuck > RECOVER_CLOCKS THEN stuck - RECOVER_CLOCKS ELSE 0
    BY <1>2 DEF RecoverIfNeeded, BusRecover
  <2>2. stuck' = 0
    BY <2>1 DEF MID_BYTE_CLOCKS, RECOVER_CLOCKS, TypeOK
  <2> QED BY <2>1, <2>2
<1> QED BY <1>1, <1>2

LEMMA HealInit == Init => HealInv /\ HeldInv
BY DEF Init, HealInv, HeldInv, SelfHeals, WaitedInVain, MID_BYTE_CLOCKS

LEMMA BusParse ==
  ASSUME SizeInv, HealInv, HeldInv, NEW l \in Commands, Parse(l)
  PROVE  HealInv' /\ HeldInv'
<1>1. /\ UNCHANGED <<held, stuck>> /\ line' = l /\ l \in Command
      /\ \/ pc' = "done" /\ reply' = "refused"
         \/ pc' = FirstStep(l) /\ ~BadCount(l)
  BY DEF Parse
<1>2. FirstStep(l) \in {"probe", "listen", "read", "write"} /\ (FirstStep(l) = "listen" => l.cmd = "L")
  BY DEF FirstStep
<1>3. l.cmd = "X" /\ ~BadCount(l) => l.count <= I2C_CMD_MAX_DATA
  BY <1>1 DEF BadCount, Command
<1>4. HealInv'
  BY <1>1, <1>2 DEF HealInv, SelfHeals, WaitedInVain
<1>5. HeldInv'
  BY <1>1, <1>2, <1>3 DEF HeldInv
<1> QED BY <1>4, <1>5

LEMMA BusTransfers ==
  ASSUME SizeInv, HealInv, HeldInv, Probe \/ Write \/ Read
  PROVE  HealInv' /\ HeldInv'
<1>0. TypeOK
  BY DEF SizeInv
<1>1. CASE Probe
  <2>1. Transfer(next, AddrW, FALSE) /\ pc' = "probed"
    BY <1>1 DEF Probe
  <2> QED BY <1>0, <2>1, TransferBus DEF HealInv, HeldInv, SelfHeals, WaitedInVain
<1>2. CASE Write
  <2>1. /\ Transfer(line.addr, AddrW \o DataBytes, line.cmd = "X")
        /\ pc = "write" /\ pc' = "written" /\ line' = line
    BY <1>2 DEF Write
  <2>2. (line.cmd = "X") \in BOOLEAN
    OBVIOUS
  <2>3. /\ stuck' <= MID_BYTE_CLOCKS /\ (stuck' > 0 => status' \in BusErrors)
        /\ held' => status' \in BusErrors \/ (line.cmd = "X" /\ status' = "Success")
    BY <1>0, <2>1, <2>2, TransferBus
  <2> QED BY <2>1, <2>3 DEF HealInv, HeldInv, SelfHeals, WaitedInVain
<1>3. CASE Read
  <2>1. Transfer(line.addr, AddrR \o ReadBytes, FALSE) /\ pc' = "gotData"
    BY <1>3 DEF Read
  <2> QED BY <1>0, <2>1, TransferBus DEF HealInv, HeldInv, SelfHeals, WaitedInVain
<1> QED BY <1>1, <1>2, <1>3

(* What a decision leaves: a free bus, but for the X that is refused or carried  *)
(* on after its write.                                                       *)
LEMMA BusDecisions ==
  ASSUME SizeInv, HealInv, HeldInv,
         Probed \/ Written \/ GotData \/ Listen \/ Return \/ TargetSticks
  PROVE  HealInv' /\ HeldInv' /\ (pc # "done" /\ pc' = "done" /\ held' =>
           line.cmd = "X" /\ line.smbusPec /\ line.count = I2C_CMD_MAX_DATA)
<1>0. TypeOK /\ stuck \in Nat /\ stuck <= MID_BYTE_CLOCKS
  BY DEF SizeInv, TypeOK, HealInv
<1>1. CASE Probed
  <2>1. /\ pc = "probed" /\ RecoverIfNeeded /\ pc' \in {"probe", "done"}
        /\ UNCHANGED <<line, status>>
    BY <1>1 DEF Probed
  <2>2. stuck' = 0 /\ ~held'
    BY <1>0, <2>1, RecoveryBus DEF HealInv, HeldInv
  <2> QED BY <2>1, <2>2 DEF HealInv, HeldInv, SelfHeals, WaitedInVain, MID_BYTE_CLOCKS
<1>2. CASE Written
  <2>1. pc = "written" /\ UNCHANGED <<line, status>>
    BY <1>2 DEF Written
  <2>2. CASE Failed
    <3>1. RecoverIfNeeded /\ pc' = "done" /\ status # "Success"
      BY <2>2 DEF Failed
    <3>2. stuck' = 0 /\ ~held'
      BY <1>0, <2>1, <3>1, RecoveryBus DEF HealInv, HeldInv
    <3> QED BY <2>1, <3>1, <3>2 DEF HealInv, HeldInv, SelfHeals, WaitedInVain, MID_BYTE_CLOCKS
  <2>3. CASE ~Failed
    <3>1. /\ status = "Success" /\ UNCHANGED <<held, stuck>>
          /\ \/ line.cmd = "W" /\ pc' = "done"
             \/ line.cmd = "X" /\ ReadLen(line) > I2C_CMD_MAX_DATA /\ pc' = "done" /\ reply' = "refused"
             \/ line.cmd = "X" /\ pc' = "read"
             \/ line.cmd = "I" /\ pc' = "listen"
      BY <1>2, <2>3 DEF Written
    <3>2. stuck = 0
      BY <1>0, <2>1, <3>1, Statuses DEF HealInv
    <3>3. HealInv' /\ HeldInv'
      BY <1>0, <2>1, <3>1, <3>2 DEF HealInv, HeldInv, SelfHeals, WaitedInVain, MID_BYTE_CLOCKS
    <3>4. held => line.cmd = "X"
      BY <2>1, <3>1, Statuses DEF HeldInv
    <3>5. line.cmd = "X" /\ ReadLen(line) > I2C_CMD_MAX_DATA =>
            line.smbusPec /\ line.count = I2C_CMD_MAX_DATA
      <4>1. line \in Command
        BY <1>0 DEF TypeOK
      <4>2. line.cmd = "X" => line.count <= I2C_CMD_MAX_DATA
        BY <2>1 DEF HeldInv
      <4> QED BY <4>1, <4>2 DEF Command, ReadLen, ReadsPec
    <3> QED BY <2>1, <3>1, <3>3, <3>4, <3>5
  <2> QED BY <2>2, <2>3
<1>3. CASE GotData
  <2>1. pc = "gotData" /\ pc' = "done" /\ UNCHANGED <<line, status>>
    BY <1>3 DEF GotData, Failed
  <2>2. stuck' = 0 /\ ~held'
    <3>1. CASE Failed
      BY <1>0, <2>1, <3>1, RecoveryBus DEF HealInv, HeldInv, Failed
    <3>2. CASE ~Failed
      <4>1. status = "Success" /\ UNCHANGED <<held, stuck>>
        BY <1>3, <3>2 DEF GotData
      <4> QED BY <1>0, <2>1, <4>1, Statuses DEF HealInv, HeldInv
    <3> QED BY <3>1, <3>2
  <2> QED BY <2>1, <2>2 DEF HealInv, HeldInv, SelfHeals, WaitedInVain, MID_BYTE_CLOCKS
<1>4. CASE Listen
  <2>1. /\ pc = "listen" /\ pc' = "done" /\ ~held' /\ UNCHANGED <<line, status, stuck>>
        /\ stuck = 0 \/ reply' = "failed"
    BY <1>4 DEF Listen
  <2> QED BY <1>0, <2>1 DEF HealInv, HeldInv, SelfHeals, WaitedInVain
<1>5. CASE Return
  <2>1. pc = "done" /\ pc' = "idle" /\ UNCHANGED stuck
    BY <1>5 DEF Return
  <2> QED BY <2>1 DEF HealInv, HeldInv, SelfHeals, WaitedInVain
<1>6. CASE TargetSticks
  <2>1. /\ pc \in {"idle", "listen"} /\ stuck' \in 1 .. MID_BYTE_CLOCKS
        /\ UNCHANGED <<pc, line, status, held>>
    BY <1>6 DEF TargetSticks
  <2> QED BY <2>1 DEF HealInv, HeldInv, SelfHeals, WaitedInVain, MID_BYTE_CLOCKS
<1> QED BY <1>1, <1>2, <1>3, <1>4, <1>5, <1>6

BusInv == SizeInv /\ HealInv /\ HeldInv

LEMMA BusStep == BusInv /\ [Next]_vars => BusInv'
<1> SUFFICES ASSUME BusInv, [Next]_vars PROVE BusInv'
  OBVIOUS
<1>1. SizeInv'
  BY SizeStep DEF BusInv
<1>2. CASE UNCHANGED vars
  <2>1. HealInv' /\ HeldInv'
    BY <1>2 DEF vars, BusInv, HealInv, HeldInv, SelfHeals, WaitedInVain
  <2> QED BY <1>1, <2>1 DEF BusInv
<1>3. CASE Next
  BY <1>1, <1>3, BusParse, BusTransfers, BusDecisions DEF Next, BusInv
<1> QED BY <1>2, <1>3

(* i2c_recover_if_needed after every transfer frees the bus: whatever target was  *)
(* left holding SDA, before the command or by one of its transfers, no command    *)
(* leaves it held but an L or an I that waited in vain.                      *)
THEOREM BusHealed == Spec => []SelfHeals
<1>1. Init => BusInv
  BY SizeInit, HealInit DEF BusInv
<1>2. BusInv => SelfHeals
  BY DEF BusInv, HealInv
<1> QED BY <1>1, <1>2, BusStep, PTL DEF Spec

(* No reply is given while the command keeps the bus, but for that of the XS      *)
(* whose count leaves no room for the PEC byte.                              *)
THEOREM BusGivenBack == Spec => HeldOnlyByXS
<1>1. Init => BusInv
  BY SizeInit, HealInit DEF BusInv
<1>2. ASSUME BusInv, [Next]_vars
      PROVE  [pc # "done" /\ pc' = "done" /\ held' =>
                \/ pc = "idle" /\ held
                \/ line.cmd = "X" /\ line.smbusPec /\ line.count = I2C_CMD_MAX_DATA]_vars
  <2>1. CASE UNCHANGED vars
    BY <2>1
  <2>2. ASSUME NEW l \in Commands, Parse(l)
        PROVE  pc = "idle" /\ (held' => held)
    BY <2>2 DEF Parse
  <2>3. CASE Probe \/ Write \/ Read
    BY <2>3 DEF Probe, Write, Read
  <2>4. CASE Probed \/ Written \/ GotData \/ Listen \/ Return \/ TargetSticks
    BY <1>2, <2>4, BusDecisions DEF BusInv
  <2> QED BY <1>2, <2>1, <2>2, <2>3, <2>4 DEF Next
<1> QED BY <1>1, <1>2, BusStep, PTL DEF Spec, HeldOnlyByXS
------------------------------------------------------------------------------
(* The scan.                                                                 *)

(* The targets among the addresses that were probed before n.                 *)
PresentBefore(n) == Cardinality(Targets \cap (ScanFirst .. n - 1))

(* The fault that the next probe meets, since it was there before the command. *)
Owed == IF stuck > 0 THEN 1 ELSE 0

(* What the scan has listed so far: no more than there is, and what is missing  *)
(* was missed by a fault.                                                    *)
ScanInv ==
  /\ pc \in {"probe", "probed"} => line.cmd = "S"
  /\ line.cmd = "S" => pc \in {"idle", "probe", "probed", "done"}
  /\ pc = "probe" => /\ items <= PresentBefore(next)
                     /\ PresentBefore(next) + Owed <= items + disturbed
  /\ pc = "probed" => /\ items <= PresentBefore(next)
                      /\ status = "Success" => /\ next \in Targets
                                               /\ PresentBefore(next) <= items + disturbed
                      /\ status # "Success" => PresentBefore(next + 1) <= items + disturbed
  /\ ScanHeals

LEMMA PresentType ==
  ASSUME NEW n \in Int
  PROVE  IsFiniteSet(Targets \cap (ScanFirst .. n - 1)) /\ PresentBefore(n) \in Nat
<1>1. ScanFirst \in Int /\ n - 1 \in Int
  OBVIOUS
<1>2. IsFiniteSet(ScanFirst .. n - 1)
  BY <1>1, FS_Interval
<1>3. Targets \cap (ScanFirst .. n - 1) \in SUBSET (ScanFirst .. n - 1)
  OBVIOUS
<1>4. IsFiniteSet(Targets \cap (ScanFirst .. n - 1))
  BY <1>2, <1>3, FS_Subset
<1> QED BY <1>4, FS_CardinalityType DEF PresentBefore

LEMMA PresentNext ==
  ASSUME NEW n \in ScanFirst .. ScanLast
  PROVE  PresentBefore(n + 1) = PresentBefore(n) + (IF n \in Targets THEN 1 ELSE 0)
<1> DEFINE s == Targets \cap (ScanFirst .. n - 1)
<1>1. IsFiniteSet(s) /\ PresentBefore(n) = Cardinality(s) /\ n \notin s /\ Cardinality(s) \in Nat
  BY PresentType DEF PresentBefore
<1>2. (n + 1) - 1 = n /\ ScanFirst .. n = (ScanFirst .. n - 1) \cup {n}
  OBVIOUS
<1>3. CASE n \in Targets
  <2>1. Targets \cap (ScanFirst .. n) = s \cup {n}
    BY <1>2, <1>3
  <2>2. Cardinality(s \cup {n}) = Cardinality(s) + 1
    BY <1>1, FS_AddElement
  <2> QED BY <1>1, <1>2, <1>3, <2>1, <2>2 DEF PresentBefore
<1>4. CASE n \notin Targets
  <2>1. Targets \cap (ScanFirst .. n) = s
    BY <1>2, <1>4
  <2> QED BY <1>1, <1>2, <1>4, <2>1 DEF PresentBefore
<1> QED BY <1>3, <1>4

LEMMA PresentFirst == PresentBefore(ScanFirst) = 0
<1>1. Targets \cap (ScanFirst .. ScanFirst - 1) = {}
  OBVIOUS
<1> QED BY <1>1, FS_EmptySet DEF PresentBefore

LEMMA PresentAll == PresentBefore(ScanLast + 1) = Cardinality(Targets \cap (ScanFirst .. ScanLast))
<1>1. (ScanLast + 1) - 1 = ScanLast
  OBVIOUS
<1> QED BY <1>1 DEF PresentBefore

LEMMA ScanInit == Init => ScanInv
BY DEF Init, ScanInv, ScanHeals

LEMMA ScanParse ==
  ASSUME SizeInv, NEW l \in Commands, Parse(l)
  PROVE  ScanInv'
<1>1. /\ line' = l /\ next' = ScanFirst /\ items' = 0 /\ stuck' = stuck
      /\ disturbed' = (IF stuck > 0 THEN 1 ELSE 0) /\ stuck \in Nat /\ l \in Command
  BY DEF Parse, SizeInv, TypeOK
<1>2. CASE l.cmd = "S"
  <2>1. pc' = "probe"
    BY <1>1, <1>2 DEF Parse, BadAddress, BadCount, TooLong, FirstStep
  <2>2. PresentBefore(next') = 0 /\ Owed' = disturbed'
    BY <1>1, PresentFirst DEF Owed
  <2> QED BY <1>1, <1>2, <2>1, <2>2 DEF ScanInv, ScanHeals
<1>3. CASE l.cmd # "S"
  <2>1. pc' \notin {"probe", "probed"}
    BY <1>3 DEF Parse, FirstStep
  <2> QED BY <1>1, <1>3, <2>1 DEF ScanInv, ScanHeals
<1> QED BY <1>2, <1>3

LEMMA ScanProbe ==
  ASSUME SizeInv, ScanInv, Probe
  PROVE  ScanInv'
<1>1. /\ pc = "probe" /\ pc' = "probed" /\ UNCHANGED <<line, next, items>>
      /\ Transfer(next, AddrW, FALSE) /\ line.cmd = "S"
  BY DEF Probe, ScanInv
<1>2. /\ items \in Nat /\ disturbed \in Nat /\ stuck \in Nat /\ next \in ScanFirst .. ScanLast
      /\ next \in Int
  BY DEF SizeInv, TypeOK
<1>3. items <= PresentBefore(next) /\ PresentBefore(next) + Owed <= items + disturbed
  BY <1>1 DEF ScanInv
<1>4. PresentBefore(next) \in Nat
  BY <1>2, PresentType
<1>5. PresentBefore(next + 1) = PresentBefore(next) + (IF next \in Targets THEN 1 ELSE 0)
  BY <1>2, PresentNext
<1>6. /\ status' = "Success" => /\ next \in Targets
                                /\ PresentBefore(next) <= items + disturbed'
      /\ status' # "Success" => PresentBefore(next + 1) <= items + disturbed'
  <2>1. CASE stuck = 0 /\ next \in Targets /\ status' = "Success" /\ disturbed' = disturbed
    BY <1>2, <1>3, <1>4, <2>1 DEF Owed
  <2>2. CASE stuck = 0 /\ next \notin Targets /\ status' = "Nak" /\ disturbed' = disturbed
    BY <1>2, <1>3, <1>4, <1>5, <2>2 DEF Owed
  <2>3. CASE stuck > 0 /\ status' \in BusErrors /\ disturbed' = disturbed
    BY <1>2, <1>3, <1>4, <1>5, <2>3, Statuses DEF Owed
  <2>4. CASE stuck = 0 /\ disturbed' = disturbed + 1 /\ status' \in BusErrors \cup {"Nak"}
    BY <1>2, <1>3, <1>4, <1>5, <2>4, Statuses DEF Owed
  <2> QED BY <1>1, <2>1, <2>2, <2>3, <2>4 DEF Transfer, busVars
<1> QED BY <1>1, <1>3, <1>6 DEF ScanInv, ScanHeals

LEMMA ScanProbed ==
  ASSUME BusInv, ScanInv, Probed
  PROVE  ScanInv'
<1>1. /\ pc = "probed" /\ UNCHANGED <<line, disturbed>> /\ line.cmd = "S"
      /\ items' = (IF status = "Success" THEN items + 1 ELSE items) /\ RecoverIfNeeded
      /\ \/ next = ScanLast /\ pc' = "done"
         \/ next # ScanLast /\ next' = next + 1 /\ pc' = "probe"
  BY DEF Probed, ScanInv
<1>2. /\ items \in Nat /\ disturbed \in Nat /\ next \in ScanFirst .. ScanLast /\ next \in Int
      /\ TypeOK
  BY DEF BusInv, SizeInv, TypeOK
<1>3. PresentBefore(next) \in Nat /\ PresentBefore(next + 1) \in Nat
  <2>1. next + 1 \in Int
    BY <1>2
  <2> QED BY <1>2, <2>1, PresentType
<1>4. PresentBefore(next + 1) = PresentBefore(next) + (IF next \in Targets THEN 1 ELSE 0)
  BY <1>2, PresentNext
<1>5. items' <= PresentBefore(next + 1) /\ PresentBefore(next + 1) <= items' + disturbed'
  <2>1. CASE status = "Success"
    BY <1>1, <1>2, <1>3, <1>4, <2>1 DEF ScanInv
  <2>2. CASE status # "Success"
    BY <1>1, <1>2, <1>3, <1>4, <2>2 DEF ScanInv
  <2> QED BY <2>1, <2>2
<1>6. Owed' = 0
  BY <1>1, <1>2, RecoveryBus DEF BusInv, HealInv, Owed
<1>7. CASE pc' = "probe"
  BY <1>1, <1>2, <1>3, <1>5, <1>6, <1>7 DEF ScanInv, ScanHeals
<1>8. CASE pc' = "done"
  <2>1. next = ScanLast
    BY <1>1, <1>8
  <2>2. items' \in Nat /\ disturbed' \in Nat
    BY <1>1, <1>2
  <2>3. ScanHeals'
    BY <1>3, <1>5, <2>1, <2>2, PresentAll DEF ScanHeals
  <2> QED BY <1>1, <1>8, <2>3 DEF ScanInv
<1> QED BY <1>1, <1>7, <1>8

LEMMA ScanStep == BusInv /\ ScanInv /\ [Next]_vars => ScanInv'
<1> SUFFICES ASSUME BusInv, ScanInv, [Next]_vars PROVE ScanInv'
  OBVIOUS
<1>1. SizeInv
  BY DEF BusInv
<1>2. CASE UNCHANGED vars
  BY <1>2 DEF vars, ScanInv, ScanHeals, Owed
<1>3. ASSUME NEW l \in Commands, Parse(l)
      PROVE  ScanInv'
  BY <1>1, <1>3, ScanParse
<1>4. CASE Probe
  BY <1>1, <1>4, ScanProbe
<1>5. CASE Probed
  BY <1>5, ScanProbed
<1>6. CASE Write \/ Read
  BY <1>6 DEF Write, Read, ScanInv, ScanHeals
<1>7. CASE Written \/ GotData \/ Listen
  BY <1>7 DEF Written, GotData, Listen, Failed, ScanInv, ScanHeals
<1>8. CASE Return \/ TargetSticks
  BY <1>8 DEF Return, TargetSticks, ScanInv, ScanHeals
<1> QED BY <1>2, <1>3, <1>4, <1>5, <1>6, <1>7, <1>8 DEF Next

(* Whatever wedges the bus, before a scan or at any of its probes, the scan        *)
(* lists nothing that is not there, and misses at most one target for each fault.  *)
THEOREM ScanComplete == Spec => []ScanHeals
<1>1. Init => BusInv
  BY SizeInit, HealInit DEF BusInv
<1>2. ScanInv => ScanHeals
  BY DEF ScanInv
<1> QED BY <1>1, <1>2, ScanInit, BusStep, ScanStep, PTL DEF Spec
------------------------------------------------------------------------------
(* The data of a line.                                                       *)

HasData(l) == l.cmd \in {"W", "X", "I"}

(* What a line that was not refused has put into data[] is all of its data, and  *)
(* what succeeds has put all of data[] on the wire.                          *)
DataInv ==
  /\ pc \in {"probe", "probed"} => line.cmd = "S"
  /\ pc \in {"write", "written"} => HasData(line)
  /\ pc \in {"read", "gotData"} => line.cmd \in {"R", "X"}
  /\ pc = "listen" => line.cmd \in {"L", "I"}
  /\ HasData(line) /\ (pc \in {"write", "written", "read", "gotData", "listen"}
                        \/ (pc = "done" /\ reply = "OK")) =>
       dataLen = line.data + (IF AppendsPec(line) THEN 1 ELSE 0)
  /\ pc = "written" /\ status = "Success" /\ line.cmd # "X" => wire = WholeWrite
  /\ pc = "listen" /\ line.cmd = "I" => wire = WholeWrite
  /\ pc = "done" /\ reply = "OK" /\ HasData(line) =>
       wire = WholeWrite \o (IF line.cmd = "X" THEN AddrR \o ReadBytes ELSE << >>)

LEMMA DataParse ==
  ASSUME SizeInv, NEW l \in Commands, Parse(l)
  PROVE  DataInv'
<1>1. line' = l /\ l \in Command /\ dataLen' = Taken(l) + (IF AppendsPec(l) THEN 1 ELSE 0)
  BY DEF Parse
<1>2. CASE pc' = "done"
  <2>1. reply' # "OK"
    BY <1>2 DEF Parse, FirstStep
  <2> QED BY <1>2, <2>1 DEF DataInv
<1>3. CASE pc' # "done"
  <2>1. pc' = FirstStep(l) /\ ~TooLong(l) /\ l.cmd \in {"S", "W", "R", "X", "I", "L"}
    BY <1>1, <1>3 DEF Parse, Command, Letters
  <2>2. /\ pc' = "probe" => l.cmd = "S"
        /\ pc' = "listen" => l.cmd = "L"
        /\ pc' = "read" => l.cmd = "R"
        /\ pc' = "write" => HasData(l)
        /\ pc' \in {"probe", "listen", "read", "write"}
    BY <2>1 DEF FirstStep, HasData
  <2>3. HasData(l) => Taken(l) = l.data
    BY <1>1, <2>1 DEF HasData, TooLong, Taken, DataMax, Command
  <2>4. HasData(line)' => dataLen' = line'.data + (IF AppendsPec(line') THEN 1 ELSE 0)
    BY <1>1, <2>3 DEF HasData
  <2> QED BY <1>1, <2>2, <2>4 DEF DataInv, HasData
<1> QED BY <1>2, <1>3

LEMMA DataTransfers ==
  ASSUME SizeInv, PecInv, DataInv, Probe \/ Write \/ Read
  PROVE  DataInv'
<1>1. CASE Probe
  BY <1>1 DEF Probe, DataInv, HasData
<1>2. CASE Write
  <2>1. /\ UNCHANGED <<line, dataLen>> /\ pc = "write" /\ pc' = "written"
        /\ Transfer(line.addr, WholeWrite, line.cmd = "X") /\ wire = << >>
    BY <1>2 DEF Write, WholeWrite, PecInv
  <2>2. << >> \o WholeWrite = WholeWrite
    <3>1. WholeWrite \in Seq(Byte)
      BY WireBytes, AddressBytes, ConcatProperties DEF WholeWrite, SizeInv
    <3> QED BY <3>1, ConcatEmptySeq
  <2>3. status' = "Success" /\ line.cmd # "X" => wire' = WholeWrite
    BY <2>1, <2>2, TransferWire
  <2> QED BY <2>1, <2>3, SameLine DEF DataInv, HasData
<1>3. CASE Read
  BY <1>3 DEF Read, DataInv, HasData
<1> QED BY <1>1, <1>2, <1>3

LEMMA DataDecisions ==
  ASSUME SizeInv, PecInv, DataInv,
         Probed \/ Written \/ GotData \/ Listen \/ Return \/ TargetSticks
  PROVE  DataInv'
<1>0. WholeWrite \in Seq(Byte)
  BY WireBytes, AddressBytes, ConcatProperties DEF WholeWrite, SizeInv
<1>a. WholeWrite \o << >> = WholeWrite
  BY <1>0, ConcatEmptySeq
<1>1. CASE Probed
  BY <1>1 DEF Probed, DataInv, HasData
<1>2. CASE Written
  <2>1. UNCHANGED <<line, dataLen, status, wire>> /\ pc = "written" /\ HasData(line)
    BY <1>2 DEF Written, DataInv
  <2>2. CASE Failed
    BY <2>1, <2>2 DEF Failed, DataInv
  <2>3. CASE ~Failed
    <3>1. /\ status = "Success"
          /\ \/ line.cmd = "W" /\ pc' = "done"
             \/ line.cmd = "X" /\ pc' = "done" /\ reply' = "refused"
             \/ line.cmd = "X" /\ pc' = "read"
             \/ line.cmd = "I" /\ pc' = "listen"
      BY <1>2, <2>3 DEF Written
    <3>2. line.cmd # "X" => wire' = WholeWrite'
      BY <2>1, <3>1, SameLine DEF DataInv
    <3>3. line.cmd = "W" => wire' = WholeWrite' \o << >>
      BY <1>a, <2>1, <3>2, SameLine
    <3>4. dataLen' = line'.data + (IF AppendsPec(line') THEN 1 ELSE 0)
      BY <2>1 DEF DataInv
    <3>5. CASE line.cmd = "W" /\ pc' = "done"
      BY <2>1, <3>3, <3>4, <3>5 DEF DataInv, HasData
    <3>6. CASE line.cmd = "X" /\ pc' = "done" /\ reply' = "refused"
      BY <2>1, <3>6 DEF DataInv, HasData
    <3>7. CASE line.cmd = "X" /\ pc' = "read"
      BY <2>1, <3>4, <3>7 DEF DataInv, HasData
    <3>8. CASE line.cmd = "I" /\ pc' = "listen"
      BY <2>1, <3>2, <3>4, <3>8 DEF DataInv, HasData
    <3> QED BY <3>1, <3>5, <3>6, <3>7, <3>8
  <2> QED BY <2>2, <2>3
<1>3. CASE GotData
  <2>1. UNCHANGED <<line, dataLen, status, wire>> /\ pc = "gotData" /\ pc' = "done"
    BY <1>3 DEF GotData, Failed
  <2>2. reply' = "OK" => status = "Success"
    BY <1>3 DEF GotData, Failed
  <2>3. line.cmd \in {"R", "X"} /\ (line.cmd = "X" => HasData(line))
    BY <2>1 DEF DataInv, HasData
  <2>4. status = "Success" /\ line.cmd = "X" => wire = WholeWrite \o (AddrR \o ReadBytes)
    BY <2>1 DEF PecInv
  <2>5. line.cmd = "X" => dataLen = line.data + (IF AppendsPec(line) THEN 1 ELSE 0)
    BY <2>1, <2>3 DEF DataInv
  <2> QED BY <2>1, <2>2, <2>3, <2>4, <2>5, SameLine DEF DataInv, HasData
<1>4. CASE Listen
  <2>1. UNCHANGED <<line, dataLen, wire>> /\ pc = "listen" /\ pc' = "done"
    BY <1>4 DEF Listen
  <2>2. /\ line.cmd \in {"L", "I"}
        /\ line.cmd = "I" => wire' = WholeWrite' \o << >>
    BY <1>a, <2>1, SameLine DEF DataInv
  <2>3. line.cmd = "I" => dataLen = line.data + (IF AppendsPec(line) THEN 1 ELSE 0)
    BY <2>1 DEF DataInv, HasData
  <2> QED BY <2>1, <2>2, <2>3 DEF DataInv, HasData
<1>5. CASE Return
  BY <1>5 DEF Return, DataInv
<1>6. CASE TargetSticks
  <2>1. UNCHANGED <<pc, line, dataLen, status, reply, wire>>
    BY <1>6 DEF TargetSticks
  <2> QED BY <2>1, SameLine DEF DataInv
<1> QED BY <1>1, <1>2, <1>3, <1>4, <1>5, <1>6

LEMMA DataStep == SizeInv /\ PecInv /\ DataInv /\ [Next]_vars => DataInv'
<1> SUFFICES ASSUME SizeInv, PecInv, DataInv, [Next]_vars PROVE DataInv'
  OBVIOUS
<1>1. CASE UNCHANGED vars
  BY <1>1, SameLine DEF vars, DataInv, HasData, AppendsPec
<1>2. CASE Next
  BY <1>2, DataParse, DataTransfers, DataDecisions DEF Next
<1> QED BY <1>1, <1>2

LEMMA Joined ==
  ASSUME NEW s \in Seq(Byte), NEW t \in Seq(Byte), NEW m \in Nat, Len(s) = m
  PROVE  /\ s \o t \in Seq(Byte) /\ Len(s \o t) = m + Len(t) /\ Len(t) \in Nat
         /\ \A i \in 1 .. m : (s \o t)[i] = s[i]
         /\ \A i \in m + 1 .. m + Len(t) : (s \o t)[i] = t[i - m]
<1>1. s \o t \in Seq(Byte) /\ Len(s \o t) = m + Len(t) /\ Len(t) \in Nat
  BY ConcatProperties
<1>2. \A i \in 1 .. m + Len(t) : (s \o t)[i] = IF i <= m THEN s[i] ELSE t[i - m]
  BY ConcatProperties
<1>3. \A i \in 1 .. m : (s \o t)[i] = s[i]
  BY <1>1, <1>2
<1>4. \A i \in m + 1 .. m + Len(t) : (s \o t)[i] = t[i - m]
  BY <1>1, <1>2
<1> QED BY <1>1, <1>3, <1>4

LEMMA JoinedToOne ==
  ASSUME NEW s \in Seq(Byte), NEW t \in Seq(Byte), Len(s) = 1
  PROVE  /\ s \o t \in Seq(Byte) /\ Len(s \o t) = 1 + Len(t) /\ Len(t) \in Nat
         /\ (s \o t)[1] = s[1]
         /\ \A i \in 2 .. 1 + Len(t) : (s \o t)[i] = t[i - 1]
<1>1. s \o t \in Seq(Byte) /\ Len(s \o t) = 1 + Len(t) /\ Len(t) \in Nat
  BY ConcatProperties
<1>2. \A i \in 1 .. 1 + Len(t) : (s \o t)[i] = IF i <= 1 THEN s[i] ELSE t[i - 1]
  BY ConcatProperties, SMTT(30)
<1>3. (s \o t)[1] = s[1]
  BY <1>1, <1>2
<1>4. \A i \in 2 .. 1 + Len(t) : (s \o t)[i] = t[i - 1]
  BY <1>1, <1>2
<1> QED BY <1>1, <1>3, <1>4

(* The bytes of a line in a whole write are those from the second on, and there   *)
(* are as many as the line has; a read that follows has none.                 *)
LEMMA DataOfWrite ==
  ASSUME TypeOK, HasData(line), dataLen = line.data + (IF AppendsPec(line) THEN 1 ELSE 0),
         NEW rest \in Seq(Byte), \A i \in DOMAIN rest : rest[i].kind # "data"
  PROVE  Cardinality({i \in DOMAIN (WholeWrite \o rest) : (WholeWrite \o rest)[i].kind = "data"})
           = line.data
<1> DEFINE n == line.data
           b == Buffer("data", n)
           tail == (IF AppendsPec(line) THEN Pec ELSE << >>) \o rest
           w == WholeWrite \o rest
<1>1. n \in Nat /\ b \in Seq(Byte) /\ Len(b) = n /\ \A i \in 1 .. n : b[i].kind = "data"
  <2>1. n \in Nat
    BY DEF TypeOK, Command
  <2>2. b \in Seq(Byte)
    <3>1. n \in Int /\ "data" \in {"data", "rdata"}
      BY <2>1
    <3> HIDE DEF n
    <3> QED BY <3>1, BufferBytes
  <2>3. b = [i \in 1 .. n |-> [kind |-> "data", n |-> i]]
    BY DEF Buffer
  <2>4. Len(b) = n
    BY <2>1, <2>3
  <2>5. \A i \in 1 .. n : b[i].kind = "data"
    BY <2>1, <2>3
  <2> QED BY <2>1, <2>2, <2>4, <2>5
<1>2. tail \in Seq(Byte) /\ \A i \in DOMAIN tail : tail[i].kind # "data"
  <2>1. CASE AppendsPec(line)
    <3>1. tail = Pec \o rest /\ Pec \in Seq(Byte) /\ Len(Pec) = 1 /\ Pec[1].kind # "data"
      BY <2>1, AddressBytes DEF Pec
    <3>2. Pec \o rest \in Seq(Byte) /\ Len(Pec \o rest) = 1 + Len(rest)
      BY <3>1, ConcatProperties, ZenonT(30)
    <3>3. (Pec \o rest)[1].kind # "data"
      BY <3>1, ConcatProperties
    <3>4. \A i \in 2 .. 1 + Len(rest) : (Pec \o rest)[i].kind # "data"
      <4> SUFFICES ASSUME NEW i \in 2 .. 1 + Len(rest) PROVE (Pec \o rest)[i].kind # "data"
        OBVIOUS
      <4>1. (Pec \o rest)[i] = rest[i - 1] /\ i - 1 \in DOMAIN rest
        <5>1. Len(rest) \in Nat /\ (Pec \o rest)[i] = rest[i - 1]
          BY <3>1, JoinedToOne
        <5> QED BY <5>1
      <4> QED BY <4>1
    <3>5. DOMAIN (Pec \o rest) = 1 .. 1 + Len(rest) /\ Len(rest) \in Nat
      BY <3>2
    <3>6. \A i \in DOMAIN (Pec \o rest) : i = 1 \/ i \in 2 .. 1 + Len(rest)
      BY <3>5
    <3> QED BY <3>1, <3>2, <3>3, <3>4, <3>6
  <2>2. CASE ~AppendsPec(line)
    <3>1. tail = rest
      BY <2>2, ConcatEmptySeq
    <3> QED BY <3>1
  <2> QED BY <2>1, <2>2
<1>3. w = AddrW \o (b \o tail)
  <2>1. DataBytes = b \o (IF AppendsPec(line) THEN Pec ELSE << >>)
    <3>1. CASE AppendsPec(line)
      <4>1. dataLen - 1 = n
        BY <1>1, <3>1
      <4> QED BY <3>1, <4>1 DEF DataBytes
    <3>2. CASE ~AppendsPec(line)
      <4>1. dataLen = n
        BY <1>1, <3>2
      <4> QED BY <1>1, <3>2, <4>1, ConcatEmptySeq DEF DataBytes
    <3> QED BY <3>1, <3>2
  <2> DEFINE q == IF AppendsPec(line) THEN Pec ELSE << >>
  <2>2. q \in Seq(Byte)
    BY AddressBytes
  <2>3. w = (AddrW \o (b \o q)) \o rest
    BY <2>1 DEF WholeWrite
  <2> HIDE DEF q, b
  <2>4. (b \o q) \in Seq(Byte) /\ (b \o q) \o rest = b \o (q \o rest)
    BY <1>1, <2>2, ConcatAssociative, ConcatProperties
  <2> DEFINE c == b \o q
  <2>6. c \in Seq(Byte) /\ AddrW \in Seq(Byte)
    BY <2>4, AddressBytes
  <2> HIDE DEF c
  <2>7. (AddrW \o c) \o rest = AddrW \o (c \o rest)
    BY <2>6, ConcatAssociative
  <2>5. (AddrW \o (b \o q)) \o rest = AddrW \o ((b \o q) \o rest)
    BY <2>7 DEF c
  <2> QED BY <2>3, <2>4, <2>5 DEF q
<1> HIDE DEF b, tail, w
<1>4. AddrW \in Seq(Byte) /\ Len(AddrW) = 1 /\ AddrW[1].kind # "data"
  BY AddressBytes DEF AddrW
<1>5. /\ b \o tail \in Seq(Byte) /\ Len(b \o tail) = n + Len(tail) /\ Len(tail) \in Nat
      /\ \A i \in 1 .. n : (b \o tail)[i] = b[i]
      /\ \A i \in n + 1 .. n + Len(tail) : (b \o tail)[i] = tail[i - n]
  BY <1>1, <1>2, Joined
<1>6. /\ w \in Seq(Byte) /\ Len(w) = 1 + (n + Len(tail)) /\ w[1] = AddrW[1]
      /\ \A i \in 2 .. 1 + (n + Len(tail)) : w[i] = (b \o tail)[i - 1]
  <2>1. /\ w \in Seq(Byte) /\ Len(w) = 1 + Len(b \o tail)
        /\ w[1] = AddrW[1]
        /\ \A i \in 2 .. 1 + Len(b \o tail) : w[i] = (b \o tail)[i - 1]
    <3> DEFINE c == b \o tail
    <3>1. c \in Seq(Byte) /\ w = AddrW \o c /\ 1 \in Nat
      BY <1>3, <1>5
    <3> HIDE DEF c
    <3>2. /\ AddrW \o c \in Seq(Byte) /\ Len(AddrW \o c) = 1 + Len(c)
          /\ (AddrW \o c)[1] = AddrW[1]
          /\ \A i \in 2 .. 1 + Len(c) : (AddrW \o c)[i] = c[i - 1]
      BY <1>4, <3>1, JoinedToOne
    <3> QED BY <3>1, <3>2 DEF c
  <2> QED BY <1>5, <2>1
<1>7. DOMAIN w = 1 .. 1 + (n + Len(tail))
  BY <1>6
<1>8. \A i \in DOMAIN w : w[i].kind = "data" <=> i \in 2 .. n + 1
  <2> SUFFICES ASSUME NEW i \in DOMAIN w PROVE w[i].kind = "data" <=> i \in 2 .. n + 1
    OBVIOUS
  <2>1. CASE i = 1
    BY <1>1, <1>4, <1>6, <2>1
  <2>2. CASE i \in 2 .. n + 1
    <3>1. i - 1 \in 1 .. n /\ i \in 2 .. 1 + (n + Len(tail))
      BY <1>1, <1>5, <2>2
    <3>2. w[i] = b[i - 1]
      BY <1>5, <1>6, <3>1
    <3>3. b[i - 1].kind = "data"
      BY <1>1, <3>1
    <3> QED BY <2>2, <3>2, <3>3
  <2>3. CASE i \in n + 2 .. 1 + (n + Len(tail))
    <3>1. /\ i - 1 \in n + 1 .. n + Len(tail) /\ i \in 2 .. 1 + (n + Len(tail))
          /\ (i - 1) - n \in 1 .. Len(tail) /\ i \notin 2 .. n + 1
      BY <1>1, <1>5, <2>3, SMTT(30)
    <3>2. w[i] = tail[(i - 1) - n]
      BY <1>5, <1>6, <3>1
    <3>3. (i - 1) - n \in DOMAIN tail
      BY <1>2, <3>1
    <3> QED BY <1>2, <3>1, <3>2, <3>3
  <2> QED BY <1>1, <1>5, <1>7, <2>1, <2>2, <2>3
<1>9. {i \in DOMAIN w : w[i].kind = "data"} = 2 .. n + 1
  BY <1>1, <1>5, <1>7, <1>8
<1>10. Cardinality(2 .. n + 1) = n
  <2>1. Cardinality(2 .. n + 1) = IF 2 > n + 1 THEN 0 ELSE (n + 1) - 2 + 1
    <3>1. 2 \in Int /\ n + 1 \in Int
      BY <1>1
    <3> QED BY <3>1, FS_Interval
  <2> QED BY <1>1, <2>1
<1> QED BY <1>9, <1>10 DEF w

LEMMA ReadHasNoData ==
  ASSUME TypeOK
  PROVE  /\ AddrR \o ReadBytes \in Seq(Byte)
         /\ \A i \in DOMAIN (AddrR \o ReadBytes) : (AddrR \o ReadBytes)[i].kind # "data"
<1> DEFINE NoData(s) == \A i \in DOMAIN s : s[i].kind # "data"
<1>1. ASSUME NEW s \in Seq(Byte), NEW t \in Seq(Byte), NoData(s), NoData(t)
      PROVE  NoData(s \o t)
  <2> SUFFICES ASSUME NEW i \in DOMAIN (s \o t) PROVE (s \o t)[i].kind # "data"
    OBVIOUS
  <2>1. s \o t \in Seq(Byte) /\ Len(s \o t) = Len(s) + Len(t) /\ Len(s) \in Nat /\ Len(t) \in Nat
    BY ConcatProperties
  <2>2. i \in 1 .. Len(s) + Len(t)
    BY <2>1
  <2>3. CASE i \in 1 .. Len(s)
    <3>1. (s \o t)[i] = s[i] /\ i \in DOMAIN s
      BY <2>3, ConcatProperties
    <3> QED BY <1>1, <3>1
  <2>4. CASE i \notin 1 .. Len(s)
    <3>1. i \in Len(s) + 1 .. Len(s) + Len(t) /\ i - Len(s) \in DOMAIN t
      BY <2>1, <2>2, <2>4
    <3>2. (s \o t)[i] = t[i - Len(s)]
      BY <3>1, ConcatProperties
    <3> QED BY <1>1, <3>1, <3>2
  <2> QED BY <2>3, <2>4
<1>2. NoData(AddrR) /\ NoData(Pec) /\ NoData(<< >>)
  BY DEF AddrR, Pec
<1>3. line.count \in Nat /\ Buffer("rdata", line.count) \in Seq(Byte)
  BY BufferBytes DEF TypeOK, Command
<1>4. NoData(Buffer("rdata", line.count))
  BY <1>3 DEF Buffer
<1>5. AddrR \in Seq(Byte) /\ Pec \in Seq(Byte) /\ << >> \in Seq(Byte) /\ ReadBytes \in Seq(Byte)
  BY AddressBytes, WireBytes
<1> HIDE DEF NoData
<1>6. NoData(ReadBytes)
  <2>1. NoData(Buffer("rdata", line.count) \o Pec) /\ NoData(Buffer("rdata", line.count) \o << >>)
    BY <1>1, <1>2, <1>3, <1>4, <1>5
  <2> QED BY <2>1 DEF ReadBytes
<1>7. NoData(AddrR \o ReadBytes) /\ AddrR \o ReadBytes \in Seq(Byte)
  BY <1>1, <1>2, <1>5, <1>6, ConcatProperties
<1> QED BY <1>7 DEF NoData

(* A reply OK to W, X or I means that all the bytes of the line went out, with     *)
(* or without a PEC, whatever their number: a line is refused or sent whole.     *)
THEOREM LinesGoOutWhole == Spec => []NothingTruncated
<1>1. Init => DataInv /\ PecInv
  BY DEF Init, DataInv, PecInv, PecCoversWire
<1>2. SizeInv /\ DataInv => NothingTruncated
  <2> SUFFICES ASSUME SizeInv, DataInv, pc = "done", reply = "OK", line.cmd \in {"W", "X", "I"}
               PROVE  Cardinality({i \in DOMAIN wire : wire[i].kind = "data"}) = line.data
    BY DEF NothingTruncated
  <2> DEFINE rest == IF line.cmd = "X" THEN AddrR \o ReadBytes ELSE << >>
  <2>1. TypeOK /\ HasData(line) /\ wire = WholeWrite \o rest
        /\ dataLen = line.data + (IF AppendsPec(line) THEN 1 ELSE 0)
    BY DEF SizeInv, DataInv, HasData
  <2>2. rest \in Seq(Byte) /\ \A i \in DOMAIN rest : rest[i].kind # "data"
    BY <2>1, ReadHasNoData
  <2> HIDE DEF rest
  <2>3. Cardinality({i \in DOMAIN (WholeWrite \o rest) : (WholeWrite \o rest)[i].kind = "data"})
          = line.data
    BY <2>1, <2>2, DataOfWrite
  <2> QED BY <2>1, <2>3
<1> QED BY <1>1, <1>2, SizeInit, SizeStep, PecStep, DataStep, PTL DEF Spec
==============================================================================
