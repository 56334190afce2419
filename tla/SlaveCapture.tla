---------------------------- MODULE SlaveCapture ----------------------------
(***************************************************************************)
(* I2C_SlaveWaitForWrite of src/usb_main.c: the bridge becomes an I2C slave  *)
(* and polls the peripheral for another master's write, until a STOP or for   *)
(* timeoutTicks periods of SysTick, whose counter wraps. The other master     *)
(* goes on between any two statements of the loop.                           *)
(***************************************************************************)
EXTENDS Integers, Sequences

CONSTANTS
  TICKS,           \* 2^32: s_tickCount counts modulo this
  timeoutTicks,    \* 16
  MaxLag,          \* bound: ticks between two tests of the loop's condition
  bufMax,          \* I2C_CMD_MAX_DATA
  Texts,           \* what a master writes to us
  MaxTransfers,    \* bound: transfers addressed to us
  MaxWaits         \* bound: calls of I2C_SlaveWaitForWrite

(* The loop polls often enough for the deadline to be seen within one turn of *)
(* the counter.                                                              *)
ASSUME CaptureAssumption ==
  /\ TICKS \in Nat \ {0}
  /\ timeoutTicks \in Nat /\ MaxLag \in Nat
  /\ timeoutTicks + MaxLag < TICKS
  /\ bufMax \in Nat
  /\ \A t \in Texts : t \in Seq(Nat)
  /\ MaxTransfers \in Nat /\ MaxWaits \in Nat

VARIABLES
  pc,                         \* where the wait is; "idle": a master again
  len, sawAddress, gotStop,   \* its locals; buf[] holds buf
  buf, startTick, status,
  reply,                      \* of the command: "none", "OK" or "timeout"
  s_tickCount, lag,           \* lag: ticks since the condition was tested
  SEN, SSR, SRDR,             \* the slave's registers; SSR: the flags raised
  matched,                    \* the slave: the transfer under way is to us
  bus, rest,                  \* what the other master does, and its bytes left
  transfers, waits,           \* budgets spent
  elapsed, received, stopAt, heard \* history of this wait: ticks (up to the first
                              \* beyond the deadline), bytes given to
                              \* the slave, how many before the first STOP, and
                              \* whether a STOP came before the last poll

NoStop == -1

localVars   == <<len, sawAddress, gotStop, buf, startTick, status>>
tickVars    == <<s_tickCount, lag, elapsed>>
slaveVars   == <<SEN, SSR, SRDR, matched>>
busVars     == <<bus, rest, transfers>>
historyVars == <<received, stopAt, heard>>
vars == <<pc, localVars, reply, tickVars, slaveVars, busVars, waits, historyVars>>

(* Address valid, a byte received, and a STOP.                               *)
Flags == {"AVF", "RDF", "SDF"}

TypeOK ==
  /\ pc \in {"idle", "test", "address", "data", "stop", "close"}
  /\ len \in 0 .. bufMax /\ Len(buf) = len /\ buf \in Seq(Nat)
  /\ sawAddress \in BOOLEAN /\ gotStop \in BOOLEAN
  /\ status \subseteq Flags
  /\ reply \in {"none", "OK", "timeout"}
  /\ s_tickCount \in 0 .. TICKS - 1 /\ startTick \in 0 .. TICKS - 1
  /\ lag \in 0 .. MaxLag /\ elapsed \in 0 .. timeoutTicks + 1
  /\ SEN \in BOOLEAN /\ SSR \subseteq Flags /\ SRDR \in Nat /\ matched \in BOOLEAN
  /\ bus \in {"idle", "write", "read"} /\ rest \in Seq(Nat)
  /\ transfers \in 0 .. MaxTransfers /\ waits \in 0 .. MaxWaits
  /\ received \in Seq(Nat) /\ stopAt \in Nat \cup {NoStop} /\ heard \in BOOLEAN

Init ==
  /\ pc = "idle" /\ reply = "none"
  /\ len = 0 /\ buf = << >> /\ status = {}
  /\ sawAddress = FALSE /\ gotStop = FALSE
  /\ s_tickCount \in 0 .. TICKS - 1 /\ startTick = 0 /\ lag = 0 /\ elapsed = 0
  /\ SEN = FALSE /\ SSR = {} /\ SRDR = 0
  /\ matched = FALSE
  /\ bus = "idle" /\ rest = << >> /\ transfers = 0 /\ waits = 0
  /\ received = << >> /\ stopAt = NoStop /\ heard = FALSE
------------------------------------------------------------------------------
(* I2C_SlaveWaitForWrite, called for L, or for I after its own write.        *)

(* Mutant of Listen: LPI2C_SlaveInit does not reset the peripheral, whose     *)
(* flags are then those of the last wait.                                    *)
ListenUnreset ==
  /\ pc = "idle" /\ waits < MaxWaits
  /\ waits' = waits + 1
  /\ SEN' = TRUE
  /\ len' = 0 /\ buf' = << >> /\ sawAddress' = FALSE /\ gotStop' = FALSE
  /\ startTick' = s_tickCount /\ lag' = 0 /\ elapsed' = 0
  /\ received' = << >> /\ stopAt' = NoStop /\ heard' = FALSE
  /\ pc' = "test" /\ reply' = "none"
  /\ UNCHANGED <<s_tickCount, status, busVars, SSR, SRDR, matched>>

Listen ==
  /\ pc = "idle" /\ waits < MaxWaits
  /\ waits' = waits + 1
  /\ SEN' = TRUE
  /\ SSR' = {} /\ SRDR' = SRDR
  /\ len' = 0 /\ buf' = << >> /\ sawAddress' = FALSE /\ gotStop' = FALSE
  /\ startTick' = s_tickCount /\ lag' = 0 /\ elapsed' = 0
  /\ received' = << >> /\ stopAt' = NoStop /\ heard' = FALSE
  /\ pc' = "test" /\ reply' = "none"
  /\ UNCHANGED <<s_tickCount, status, matched, busVars>>

(* Mutant of InTime: the count is compared with a deadline that may have      *)
(* wrapped.                                                                  *)
InTimeByDeadline == s_tickCount <= (startTick + timeoutTicks) % TICKS

InTime == (s_tickCount - startTick) % TICKS <= timeoutTicks

(* The condition, and the snapshot of SSR that the body works on.           *)
Test ==
  /\ pc = "test" /\ lag' = 0
  /\ IF InTime
       THEN /\ pc' = "address"
            /\ status' = SSR
            /\ heard' = (stopAt # NoStop)
       ELSE pc' = "close" /\ UNCHANGED <<status, heard>>
  /\ UNCHANGED <<len, sawAddress, gotStop, buf, startTick, reply, s_tickCount, elapsed,
                 slaveVars, busVars, waits, received, stopAt>>

(* Mutant of Address: sawAddress is a local of the loop's body.             *)
AddressForgotten ==
  /\ pc = "address" /\ pc' = "data"
  /\ sawAddress' = ("AVF" \in status)
  /\ SSR' = SSR \ (status \cap {"AVF"})
  /\ UNCHANGED <<len, gotStop, buf, startTick, status, reply, tickVars,
                 SEN, SRDR, matched, busVars, waits, historyVars>>

(* Reading SASR clears AVF.                                                 *)
Address ==
  /\ pc = "address" /\ pc' = "data"
  /\ sawAddress' = (sawAddress \/ "AVF" \in status)
  /\ SSR' = SSR \ (status \cap {"AVF"})
  /\ UNCHANGED <<len, gotStop, buf, startTick, status, reply, tickVars,
                 SEN, SRDR, matched, busVars, waits, historyVars>>

(* Mutant of Room: one byte more than buf[] holds.                          *)
RoomOffByOne == len <= bufMax

Room == len < bufMax

(* Reading SRDR clears RDF, and a byte without room is dropped.             *)
Data ==
  /\ pc = "data" /\ pc' = "stop"
  /\ IF "RDF" \in status \cap SSR /\ Room
       THEN buf' = Append(buf, SRDR) /\ len' = len + 1
       ELSE UNCHANGED <<buf, len>>
  /\ SSR' = SSR \ (status \cap {"RDF"})
  /\ UNCHANGED <<sawAddress, gotStop, startTick, status, reply, tickVars,
                 SEN, SRDR, matched, busVars, waits, historyVars>>

Stop ==
  /\ pc = "stop"
  /\ gotStop' = ("SDF" \in status /\ sawAddress)
  /\ pc' = IF gotStop' THEN "close" ELSE "test"
  /\ SSR' = SSR \ (status \cap {"SDF"})
  /\ UNCHANGED <<len, sawAddress, buf, startTick, status, reply, tickVars,
                 SEN, SRDR, matched, busVars, waits, historyVars>>

(* Mutant of Close: the slave stays enabled.                                *)
CloseEnabled ==
  /\ pc = "close" /\ pc' = "idle"
  /\ reply' = IF gotStop THEN "OK" ELSE "timeout"
  /\ UNCHANGED <<localVars, tickVars, slaveVars, busVars, waits, historyVars>>

(* The slave is disabled, which lets go of SCL, and the reply made.         *)
Close ==
  /\ pc = "close" /\ pc' = "idle"
  /\ SEN' = FALSE /\ matched' = FALSE
  /\ reply' = IF gotStop THEN "OK" ELSE "timeout"
  /\ UNCHANGED <<localVars, tickVars, SSR, SRDR, busVars, waits, historyVars>>

Wait == Test \/ Address \/ Data \/ Stop \/ Close

AtMost(n, bound) == IF n < bound THEN n ELSE bound

(* SysTick_Handler.                                                         *)
SysTick ==
  /\ pc # "idle" => lag < MaxLag
  /\ s_tickCount' = (s_tickCount + 1) % TICKS
  /\ IF pc \in {"idle", "close"} THEN UNCHANGED <<lag, elapsed>>
                                 ELSE /\ lag' = lag + 1
                                      /\ elapsed' = AtMost(elapsed + 1, timeoutTicks + 1)
  /\ UNCHANGED <<pc, localVars, reply, slaveVars, busVars, waits, historyVars>>
------------------------------------------------------------------------------
(* The other master, and the slave that answers it. An address that finds no  *)
(* slave is not acknowledged and its transfer ends there.                    *)

(* SCL is held low while a byte waits in SRDR, and for a byte to transmit,    *)
(* which never comes.                                                        *)
Stalls == matched /\ ("RDF" \in SSR \/ bus = "read")

MasterAddresses(kind, text) ==
  /\ bus = "idle" /\ SEN /\ transfers < MaxTransfers
  /\ transfers' = transfers + 1
  /\ SSR' = SSR \cup {"AVF"} /\ matched' = TRUE
  /\ bus' = kind /\ rest' = text
  /\ UNCHANGED <<pc, localVars, reply, tickVars, SEN, SRDR, waits, historyVars>>

(* A byte that finds SRDR full is lost. A slave disabled meanwhile does not   *)
(* acknowledge, and the master gives up.                                     *)
MasterSends ==
  /\ bus = "write" /\ rest # << >> /\ ~Stalls
  /\ IF matched
       THEN /\ SSR' = SSR \cup {"RDF"}
            /\ SRDR' = IF "RDF" \in SSR THEN SRDR ELSE Head(rest)
            /\ received' = Append(received, Head(rest))
            /\ rest' = Tail(rest) /\ UNCHANGED bus
       ELSE bus' = "idle" /\ rest' = << >> /\ UNCHANGED <<SSR, SRDR, received>>
  /\ UNCHANGED <<pc, localVars, reply, tickVars, SEN, matched, transfers, waits,
                 stopAt, heard>>

(* SDF tells a STOP of a transfer that was addressed to us.                 *)
MasterStops ==
  /\ bus # "idle" /\ rest = << >> /\ ~Stalls
  /\ bus' = "idle"
  /\ SSR' = IF matched THEN SSR \cup {"SDF"} ELSE SSR
  /\ matched' = FALSE
  /\ stopAt' = IF matched /\ stopAt = NoStop THEN Len(received) ELSE stopAt
  /\ UNCHANGED <<pc, localVars, reply, tickVars, SEN, SRDR, rest, transfers,
                 waits, received, heard>>

(* A repeated START goes on with another transfer to us, or to someone else.  *)
MasterRestarts(text) ==
  /\ bus = "write" /\ rest = << >> /\ ~Stalls
  /\ \/ /\ SEN /\ transfers < MaxTransfers /\ transfers' = transfers + 1
        /\ SSR' = SSR \cup {"AVF"} /\ matched' = TRUE /\ rest' = text /\ UNCHANGED bus
     \/ bus' = "idle" /\ matched' = FALSE /\ UNCHANGED <<SSR, rest, transfers>>
  /\ UNCHANGED <<pc, localVars, reply, tickVars, SEN, SRDR, waits, historyVars>>

OtherMaster ==
  \/ \E t \in Texts : MasterAddresses("write", t) \/ MasterRestarts(t)
  \/ MasterAddresses("read", << >>)
  \/ MasterSends \/ MasterStops
------------------------------------------------------------------------------
Next == Listen \/ Wait \/ SysTick \/ OtherMaster

(* The processor runs, the timer ticks, a master goes on when SCL lets it.   *)
Fairness == WF_vars(Wait) /\ WF_vars(SysTick) /\ WF_vars(MasterSends) /\ WF_vars(MasterStops)

Spec == Init /\ [][Next]_vars /\ Fairness
------------------------------------------------------------------------------
(* Properties.                                                              *)

Prefix(s, n) == SubSeq(s, 1, AtMost(n, Len(s)))

(* "catch the incoming write": OK lists all the bytes up to the first STOP that *)
(* buf[] has room for, and nothing from an earlier wait. One byte more is       *)
(* caught when the next transfer's first byte comes before the poll that sees   *)
(* the STOP.                                                                  *)
CapturesTheWrite ==
  reply = "OK" =>
    /\ stopAt # NoStop
    /\ \E n \in {stopAt, stopAt + 1} : buf = Prefix(received, AtMost(n, bufMax))

(* "bounded": a wait that times out has lasted more than timeoutTicks ticks,    *)
(* wherever the counter started, and no STOP was there to see at its last poll. *)
TimeoutIsLate ==
  reply = "timeout" => elapsed > timeoutTicks /\ ~heard

(* Every wait ends, also under a master that keeps the bus.                 *)
WaitEnds == pc # "idle" ~> pc = "idle"

(* A master whose clock is held, even one that reads from us, gets it back.  *)
ClockReleased == Stalls ~> ~Stalls
==============================================================================
