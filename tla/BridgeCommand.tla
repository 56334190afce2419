---------------------------- MODULE BridgeCommand ----------------------------
(***************************************************************************)
(* process_command of src/usb_main.c: how one command line becomes I2C      *)
(* transfers and a reply. The text is abstracted to what the parsers find in *)
(* it; the wire to the bytes the transfers put on it, address bytes included;*)
(* the CRC to the bytes fed into it. Targets may be absent, fail a transfer  *)
(* in any way the driver reports, and be left holding SDA low.              *)
(***************************************************************************)
EXTENDS Integers, Sequences, FiniteSets

CONSTANTS
  I2C_CMD_MAX_DATA,      \* 128
  SEND_BUF_SIZE,         \* 400
  LAST_ADDR,             \* 0x7F: the addresses of the bus are 0 .. LAST_ADDR
  ScanFirst, ScanLast,   \* 0x08 and 0x77
  Targets,               \* the addresses a target answers at
  Commands,              \* what the host may send
  MaxFaults              \* bound: transfers that fail for a reason of the bus

Letters == {"S", "W", "R", "X", "I", "L", "other"}

(* What the parsers find on a line. An address or a count that is missing,    *)
(* malformed or out of range is refused like one just out of range:          *)
(* LAST_ADDR + 1 is a bad address and I2C_CMD_MAX_DATA + 1 a bad count. The  *)
(* data are the hex bytes up to the first that does not parse: what follows  *)
(* it is not looked at, and the command goes on with the data before it.     *)
Command == [cmd : Letters, smbusPec : BOOLEAN, addr : 0 .. LAST_ADDR + 1,
            ourAddr : 0 .. LAST_ADDR + 1, count : 0 .. I2C_CMD_MAX_DATA + 1,
            data : Nat]                     \* data: hex bytes found on the line

ASSUME CommandAssumption ==
  /\ I2C_CMD_MAX_DATA \in Nat \ {0}
  /\ LAST_ADDR \in Nat
  /\ ScanFirst \in 0 .. LAST_ADDR /\ ScanLast \in ScanFirst .. LAST_ADDR
  /\ Targets \subseteq 0 .. LAST_ADDR
  /\ Commands \subseteq Command
  /\ MaxFaults \in Nat

(* "OK", three characters for each byte listed, CR LF: the sizes the comment *)
(* on SEND_BUF_SIZE adds up.                                                 *)
ReplyLength(n) == 2 + 3 * n + 2

ASSUME SendBufAssumption ==
  /\ SEND_BUF_SIZE \in Nat
  /\ ReplyLength(I2C_CMD_MAX_DATA) <= SEND_BUF_SIZE
  /\ ReplyLength(ScanLast - ScanFirst + 1) <= SEND_BUF_SIZE

VARIABLES
  pc,         \* where process_command is
  line,       \* the command being processed
  dataLen,    \* bytes in data[]
  next,       \* the address the scan probes next
  status,     \* of the last transfer
  items,      \* bytes listed after OK: addresses found, or rdata
  reply,      \* "none", "OK", "refused" (for its text) or "failed"
  wire,       \* the bytes this command has put on the bus
  crc,        \* the bytes smbus_pec_byte and smbus_pec_buf were given
  held,       \* the last transfer ended without a STOP
  stuck,      \* clocks until the target that holds SDA low lets go; 0: none
  faults,     \* budget spent
  disturbed   \* history: the faults this command met

busVars == <<held, stuck, faults, disturbed>>
vars == <<pc, line, dataLen, next, status, items, reply, wire, crc, busVars>>

BusErrors == {"Timeout", "PinLowTimeout", "ArbitrationLost", "BitError", "FifoError", "Busy"}
Steps == {"idle", "probe", "probed", "write", "written", "read", "gotData", "listen", "done"}

Byte == [kind : {"addrWrite", "addrRead", "data", "rdata", "pec"}, n : Nat]

TypeOK ==
  /\ pc \in Steps
  /\ line \in Command
  /\ dataLen \in 0 .. I2C_CMD_MAX_DATA
  /\ next \in ScanFirst .. ScanLast
  /\ status \in BusErrors \cup {"Success", "Nak"}
  /\ items \in Nat
  /\ reply \in {"none", "OK", "refused", "failed"}
  /\ wire \in Seq(Byte) /\ crc \in Seq(Byte)
  /\ held \in BOOLEAN
  /\ stuck \in Nat
  /\ faults \in 0 .. MaxFaults
  /\ disturbed \in Nat
------------------------------------------------------------------------------
(* The bytes of a transfer. The second byte of the address word says where    *)
(* the data goes; buffers are numbered so that order and count show.        *)
AddrW == <<[kind |-> "addrWrite", n |-> 0]>>
AddrR == <<[kind |-> "addrRead", n |-> 0]>>
Pec   == <<[kind |-> "pec", n |-> 0]>>
Buffer(kind, n) == [i \in 1 .. n |-> [kind |-> kind, n |-> i]]

AppendsPec(l) == l.smbusPec /\ l.cmd = "W"
ReadsPec(l) == l.smbusPec /\ l.cmd \in {"R", "X"}

(* data[] as it goes out: WS has appended its PEC.                          *)
DataBytes ==
  IF AppendsPec(line) THEN Buffer("data", dataLen - 1) \o Pec ELSE Buffer("data", dataLen)

ReadBytes == Buffer("rdata", line.count) \o (IF ReadsPec(line) THEN Pec ELSE << >>)

(* Mutant of ReadCrc: the repeated start's address byte is forgotten.       *)
ReadCrcForgetsAddress ==
  (IF line.cmd = "X" THEN AddrW \o DataBytes ELSE << >>) \o Buffer("rdata", line.count)

(* What RS and XS compute their PEC over.                                   *)
ReadCrc ==
  (IF line.cmd = "X" THEN AddrW \o DataBytes ELSE << >>)
     \o AddrR \o Buffer("rdata", line.count)
------------------------------------------------------------------------------
(* The bus, as LPI2C_MasterTransferBlocking shows it.                       *)

MID_BYTE_CLOCKS == 9    \* a target caught in a byte needs at most these

Transfer(addr, bytes, noStop) ==
  \/ /\ stuck = 0 /\ addr \in Targets
     /\ status' = "Success"
     /\ wire' = wire \o bytes
     /\ held' = noStop
     /\ UNCHANGED <<stuck, faults, disturbed>>
  \/ \* Without a STOP the driver returns before the address is acknowledged.
     /\ stuck = 0 /\ addr \notin Targets
     /\ status' \in IF noStop THEN {"Nak", "Success"} ELSE {"Nak"}
     /\ held' = FALSE
     /\ UNCHANGED <<wire, stuck, faults, disturbed>>
  \/ /\ stuck > 0
     /\ status' \in BusErrors
     /\ UNCHANGED <<wire, busVars>>
  \/ /\ stuck = 0 /\ faults < MaxFaults
     /\ faults' = faults + 1 /\ disturbed' = disturbed + 1
     /\ \/ status' = "Nak" /\ held' = FALSE /\ UNCHANGED stuck
        \/ status' \in BusErrors /\ held' \in BOOLEAN /\ stuck' \in 0 .. MID_BYTE_CLOCKS
     /\ UNCHANGED wire

(* Between commands, or while the bridge waits as a slave and the bus is         *)
(* another master's, a target may lose count of a byte (a glitch, a master that  *)
(* went away).                                                               *)
TargetSticks ==
  /\ pc \in {"idle", "listen"} /\ stuck = 0 /\ faults < MaxFaults
  /\ faults' = faults + 1
  /\ stuck' \in 1 .. MID_BYTE_CLOCKS
  /\ disturbed' = IF pc = "idle" THEN disturbed ELSE disturbed + 1
  /\ UNCHANGED <<pc, line, dataLen, next, status, items, reply, wire, crc, held>>

(* I2C_BusRecover: up to nine clocks, until SDA is free, then a STOP and a    *)
(* fresh peripheral.                                                         *)
RECOVER_CLOCKS == 9

BusRecover ==
  /\ stuck' = IF stuck > RECOVER_CLOCKS THEN stuck - RECOVER_CLOCKS ELSE 0
  /\ held' = FALSE

(* Mutants of RecoverIfNeeded: no recovery at all, or only for a timeout.   *)
NoRecovery == UNCHANGED <<held, stuck>>
RecoverFromTimeouts ==
  IF status = "Timeout" THEN BusRecover ELSE UNCHANGED <<held, stuck>>

(* i2c_recover_if_needed: a NAK is a normal answer.                         *)
RecoverIfNeeded ==
  IF status \in {"Success", "Nak"} THEN UNCHANGED <<held, stuck>> ELSE BusRecover
------------------------------------------------------------------------------
(* process_command.                                                         *)

(* Mutant of DataMax: no room is reserved for the PEC of WS.                *)
DataMaxUnreserved(l) == I2C_CMD_MAX_DATA

DataMax(l) == IF AppendsPec(l) THEN I2C_CMD_MAX_DATA - 1 ELSE I2C_CMD_MAX_DATA

ReadLen(l) == l.count + (IF ReadsPec(l) THEN 1 ELSE 0)

BadAddress(l) ==
  \/ l.cmd \in {"W", "R", "X", "I"} /\ l.addr > LAST_ADDR
  \/ l.cmd \in {"L", "I"} /\ l.ourAddr > LAST_ADDR

(* Mutant of BadCount: the PEC byte is not counted.                         *)
BadCountForgetsPec(l) == l.cmd \in {"R", "X"} /\ l.count > I2C_CMD_MAX_DATA

(* X checks the count again, with the PEC byte, only after its write.       *)
BadCount(l) ==
  \/ l.cmd \in {"R", "X"} /\ l.count > I2C_CMD_MAX_DATA
  \/ l.cmd = "R" /\ ReadLen(l) > I2C_CMD_MAX_DATA

(* Mutant of TooLong: what does not fit is left on the line.                *)
TooLongIgnored(l) == FALSE

TooLong(l) == l.cmd \in {"W", "X", "I"} /\ l.data > DataMax(l)

Taken(l) == IF l.cmd \notin {"W", "X", "I"} THEN 0
            ELSE IF l.data > DataMax(l) THEN DataMax(l) ELSE l.data

FirstStep(l) ==
  CASE l.cmd = "S" -> "probe"
    [] l.cmd = "L" -> "listen"
    [] l.cmd = "R" -> "read"
    [] OTHER -> "write"

Answer(r) == pc' = "done" /\ reply' = r

(* The checks made on the text before the first transfer; WS computes its     *)
(* PEC here.                                                                 *)
Parse(l) ==
  /\ pc = "idle"
  /\ line' = l
  /\ IF l.cmd = "other" \/ BadAddress(l) \/ BadCount(l) \/ TooLong(l)
       THEN Answer("refused")
       ELSE pc' = FirstStep(l) /\ reply' = "none"
  /\ dataLen' = Taken(l) + (IF AppendsPec(l) THEN 1 ELSE 0)
  /\ crc' = IF AppendsPec(l) THEN AddrW \o Buffer("data", Taken(l)) ELSE << >>
  /\ wire' = << >>
  /\ next' = ScanFirst /\ items' = 0
  /\ disturbed' = IF stuck > 0 THEN 1 ELSE 0
  /\ UNCHANGED <<status, held, stuck, faults>>

Probe ==
  /\ pc = "probe"
  /\ Transfer(next, AddrW, FALSE)
  /\ pc' = "probed"
  /\ UNCHANGED <<line, dataLen, next, items, reply, crc>>

Probed ==
  /\ pc = "probed"
  /\ items' = IF status = "Success" THEN items + 1 ELSE items
  /\ RecoverIfNeeded
  /\ IF next = ScanLast
       THEN Answer("OK") /\ UNCHANGED next
       ELSE next' = next + 1 /\ pc' = "probe" /\ UNCHANGED reply
  /\ UNCHANGED <<line, dataLen, status, wire, crc, faults, disturbed>>

Write ==
  /\ pc = "write"
  /\ Transfer(line.addr, AddrW \o DataBytes, line.cmd = "X")
  /\ pc' = "written"
  /\ UNCHANGED <<line, dataLen, next, items, reply, crc>>

Failed ==
  /\ status # "Success"
  /\ RecoverIfNeeded
  /\ Answer("failed")

Written ==
  /\ pc = "written"
  /\ \/ Failed
     \/ /\ status = "Success" /\ UNCHANGED <<held, stuck>>
        /\ \/ line.cmd = "W" /\ Answer("OK")
           \/ line.cmd = "X" /\ ReadLen(line) > I2C_CMD_MAX_DATA /\ Answer("refused")
           \/ /\ line.cmd = "X" /\ ReadLen(line) <= I2C_CMD_MAX_DATA
              /\ pc' = "read" /\ UNCHANGED reply
           \/ line.cmd = "I" /\ pc' = "listen" /\ UNCHANGED reply
  /\ UNCHANGED <<line, dataLen, next, status, items, wire, crc, faults, disturbed>>

Read ==
  /\ pc = "read"
  /\ Transfer(line.addr, AddrR \o ReadBytes, FALSE)
  /\ pc' = "gotData"
  /\ UNCHANGED <<line, dataLen, next, items, reply, crc>>

(* The target's PEC byte may be right or wrong.                             *)
GotData ==
  /\ pc = "gotData"
  /\ \/ Failed /\ UNCHANGED <<items, crc>>
     \/ /\ status = "Success" /\ UNCHANGED <<held, stuck>>
        /\ crc' = IF ReadsPec(line) THEN ReadCrc ELSE crc
        /\ \/ Answer("OK") /\ items' = line.count
           \/ ReadsPec(line) /\ Answer("failed") /\ UNCHANGED items
  /\ UNCHANGED <<line, dataLen, next, status, wire, faults, disturbed>>

(* I2C_SlaveWaitForWrite: another master writes up to the size of rdata[], or *)
(* the wait times out; either way the peripheral is a fresh master again. On a *)
(* bus that is held no STOP comes, and nothing in the wait or after it frees   *)
(* SDA.                                                                      *)
Listen ==
  /\ pc = "listen"
  /\ \/ stuck = 0 /\ Answer("OK") /\ items' \in 0 .. I2C_CMD_MAX_DATA
     \/ Answer("failed") /\ UNCHANGED items
  /\ held' = FALSE
  /\ UNCHANGED <<line, dataLen, next, status, wire, crc, stuck, faults, disturbed>>

(* APPTask sends the reply and waits for the next command.                  *)
Return ==
  /\ pc = "done" /\ pc' = "idle"
  /\ UNCHANGED <<line, dataLen, next, status, items, reply, wire, crc, busVars>>

Init ==
  /\ pc = "idle"
  /\ line \in Commands
  /\ dataLen = 0 /\ next = ScanFirst /\ status = "Success" /\ items = 0
  /\ reply = "none" /\ wire = << >> /\ crc = << >>
  /\ held = FALSE /\ stuck = 0 /\ faults = 0 /\ disturbed = 0

Next ==
  \/ \E l \in Commands : Parse(l)
  \/ Probe \/ Probed \/ Write \/ Written \/ Read \/ GotData \/ Listen \/ Return
  \/ TargetSticks

Spec == Init /\ [][Next]_vars
------------------------------------------------------------------------------
(* Properties.                                                              *)

(* rdata[] holds the read and its PEC byte, and the reply with its line end    *)
(* fits s_currSendBuf: "400 comfortably covers" the longest one.             *)
BuffersFit ==
  /\ pc \in {"read", "gotData"} => Len(ReadBytes) <= I2C_CMD_MAX_DATA
  /\ reply = "OK" => ReplyLength(items) <= SEND_BUF_SIZE

(* OK means that every data byte found on the line went out: the truncation    *)
(* that has_more_hex_data is there to make loud.                              *)
NothingTruncated ==
  pc = "done" /\ reply = "OK" /\ line.cmd \in {"W", "X", "I"} =>
    Cardinality({i \in DOMAIN wire : wire[i].kind = "data"}) = line.data

(* The PEC is computed over "every byte actually seen on the wire for a        *)
(* transaction": address, data, repeated start and read data, in their order, *)
(* up to the PEC byte itself.                                                *)
PecCoversWire ==
  pc = "done" /\ crc # << >> /\ wire # << >> => wire = crc \o Pec

(* An L, or an I whose write went through, has waited for the target to write    *)
(* back, and in vain.                                                         *)
WaitedInVain == /\ reply = "failed"
                /\ line.cmd = "L" \/ (line.cmd = "I" /\ status = "Success")

(* No wedged target survives a command that used the bus as its master: S, W, R *)
(* and X leave SDA free for the next one, whether they succeed or fail, and so  *)
(* do an I whose write fails and one that gets its answer. An I or an L that    *)
(* waited in vain leaves SDA as the wait did, to be freed by the next of those: the *)
(* timeout is not followed by a recovery, although usb_main.c:623 counts I among *)
(* the commands that heal.                                                   *)
SelfHeals ==
  pc = "done" /\ reply # "refused" /\ ~WaitedInVain => stuck = 0

(* A wedge costs a scan no more than the address that met it: the scan lists   *)
(* every target but one for each fault, and nothing that is not there.       *)
ScanHeals ==
  LET present == Cardinality(Targets \cap (ScanFirst .. ScanLast))
  IN  pc = "done" /\ line.cmd = "S" => items \in present - disturbed .. present

(* The bus is given back with the reply, by every command but the one XS whose *)
(* count leaves no room for the PEC byte; a command refused for its text       *)
(* leaves the bus as it was.                                                 *)
HeldOnlyByXS ==
  [][pc # "done" /\ pc' = "done" /\ held' =>
       \/ pc = "idle" /\ held
       \/ line.cmd = "X" /\ line.smbusPec /\ line.count = I2C_CMD_MAX_DATA]_vars

(* "write bytes to <addr>, repeated-start, then read <n> bytes": an X whose    *)
(* write went through is carried on, unless the bus fails it.                *)
WriteThenRead ==
  pc = "done" /\ line.cmd = "X" /\ wire # << >> => reply # "refused"
==============================================================================
