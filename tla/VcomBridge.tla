----------------------------- MODULE VcomBridge -----------------------------
(***************************************************************************)
(* The command bridge of src/usb_main.c: how a line typed by the host is    *)
(* collected by the USB interrupt, answered by the main loop and sent back, *)
(* on top of the CDC pipes of CdcPipe.                                      *)
(*                                                                          *)
(* Two threads share the state. The USB0 interrupt runs the whole stack, up *)
(* to the callbacks of usb_main.c, without being preempted by the main loop:*)
(* each of its events is one action. The main loop (APPTask) is preempted   *)
(* anywhere: each of its actions is one access to what the interrupt shares.*)
(* The host is the environment: it enumerates, opens the port, writes lines,*)
(* polls for the reply, and may reset, reconfigure or halt.                 *)
(***************************************************************************)
EXTENDS CdcPipe, Sequences

CONSTANTS
  Chars,            \* the bytes of a command; CR is dropped wherever it comes
  NL,               \* the byte that ends a line
  NUL,              \* the terminator the parsers stop at
  Lines,            \* what the host may type, without the line end
  LINE_BUF_SIZE,    \* 400 in the code
  ReplyLens,        \* lengths of the replies process_command can produce
  OpenFirst,        \* does the host open the port before it writes?
  LinesPerWrite,    \* how many lines one write() of the host may hold
  MaxUnanswered,    \* lines the host has sent without having their reply
  MaxLines,         \* bound: lines the host types
  MaxResets,        \* bound: bus resets and changes of configuration
  MaxHalts          \* bound: SetFeature/ClearFeature(ENDPOINT_HALT) requests

ASSUME BridgeAssumption ==
  /\ NL \notin Chars /\ NUL \notin Chars /\ NL # NUL
  /\ Lines \subseteq Seq(Chars)
  /\ LINE_BUF_SIZE \in Nat \ {0}
  /\ ReplyLens \subseteq Nat \ {0}
  /\ OpenFirst \in BOOLEAN
  /\ LinesPerWrite \subseteq {1, 2}
  /\ MaxUnanswered \in Nat /\ MaxLines \in Nat
  /\ MaxResets \in Nat /\ MaxHalts \in Nat

VARIABLES
  devState,           \* deviceHandle->state
  cfg,                \* cdcAcmHandle->configuration
  attach,             \* s_cdcVcom.attach
  startTransactions,  \* s_cdcVcom.startTransactions
  hasSentState,       \* cdcAcmHandle->hasSentState
  pipe,               \* the three CDC pipes
  lineBuf, lineLen, lineReady,    \* s_lineBuf, s_lineLen, s_lineReady
  sendSize,           \* s_sendSize
  pc,                 \* where APPTask is
  cmd,                \* the text process_command has parsed
  size,               \* APPTask's local of that name
  sendBuf,            \* s_currSendBuf: the command whose reply it holds
  replies,            \* history: the replies process_command has built
  portOpen, outbox,   \* the host: port open, writes not yet delivered
  unanswered,         \* the host: lines it still waits for
  typed, got,         \* history: lines typed, replies received
  deafened,           \* history: a packet was dropped since the last Configure
  resets, halts       \* budgets spent

deviceVars == <<devState, cfg, attach, startTransactions, hasSentState>>
lineVars   == <<lineBuf, lineLen, lineReady>>
mainVars   == <<sendSize, pc, cmd, size, sendBuf, replies>>
hostVars   == <<portOpen, outbox, unanswered, typed, got, deafened>>
budgets    == <<resets, halts>>
vars == <<deviceVars, pipe, lineVars, mainVars, hostVars, budgets>>

Endpoints == {"InterruptIn", "BulkIn", "BulkOut"}
DevStates == {"Default", "Addressing", "Address", "Configured"}
MainSteps == {"idle", "parse", "reply", "clear", "clearLen", "clearReady",
              "setSize", "takeSize", "send", "stallCheck", "backup", "claim", "prime"}
Bytes     == Chars \cup {NL}
Slots     == 0 .. LINE_BUF_SIZE - 1
Reply     == [cmd : Seq(Chars), len : Nat]

NOTIF_LEN == 1      \* the serial state notification fits one packet

TypeOK ==
  /\ devState \in DevStates
  /\ cfg \in {0, 1}
  /\ attach \in BOOLEAN /\ startTransactions \in BOOLEAN /\ hasSentState \in BOOLEAN
  /\ pipe \in [Endpoints -> Pipe]
  /\ lineBuf \in [Slots -> Chars \cup {NUL}]
  /\ lineLen \in Slots
  /\ lineReady \in BOOLEAN
  /\ sendSize \in Nat
  /\ pc \in MainSteps
  /\ cmd \in Seq(Chars)
  /\ size \in Nat
  /\ sendBuf \in Seq(Chars)
  /\ replies \in Seq(Reply)
  /\ portOpen \in BOOLEAN
  /\ outbox \in Seq(Seq(Bytes))
  /\ unanswered \in Nat
  /\ typed \in Seq(Lines)
  /\ got \in Seq(Reply)
  /\ deafened \in BOOLEAN
  /\ resets \in 0 .. MaxResets
  /\ halts \in 0 .. MaxHalts

(* USB_DeviceClassInit and APPInit have run, and the host has reset the bus  *)
(* for the first time.                                                      *)
Init ==
  /\ devState = "Default"
  /\ cfg = 0
  /\ attach = FALSE /\ startTransactions = FALSE /\ hasSentState = FALSE
  /\ pipe = [e \in Endpoints |-> ClosedPipe]
  /\ lineBuf = [i \in Slots |-> NUL]
  /\ lineLen = 0
  /\ lineReady = FALSE
  /\ sendSize = 0
  /\ pc = "idle"
  /\ cmd = << >>
  /\ size = 0
  /\ sendBuf = << >>
  /\ replies = << >>
  /\ portOpen = FALSE
  /\ outbox = << >>
  /\ unanswered = 0
  /\ typed = << >> /\ got = << >> /\ deafened = FALSE
  /\ resets = 0 /\ halts = 0
------------------------------------------------------------------------------
(* Control requests and bus events, each one USB0 interrupt.                *)

(* A cancelled transfer is reported to an endpoint that has a callback; the  *)
(* callback of the notification pipe clears hasSentState whatever the length.*)
NotificationCancelled == pipe["InterruptIn"].open /\ pipe["InterruptIn"].transferring

HostLeaves ==
  /\ portOpen' = FALSE /\ outbox' = << >> /\ unanswered' = 0
  /\ UNCHANGED <<typed, got, deafened>>

(* Mutant of BusReset: the notification that was under way is not accounted   *)
(* for.                                                                      *)
BusResetKeepsState ==
  /\ resets < MaxResets
  /\ resets' = resets + 1
  /\ devState' = "Default"
  /\ cfg' = 0
  /\ attach' = FALSE
  /\ pipe' = [e \in Endpoints |-> BusResetPipe(pipe[e])]
  /\ HostLeaves
  /\ UNCHANGED <<hasSentState, startTransactions, lineVars, mainVars, halts>>

(* USB_DeviceResetNotification, then USB_DeviceCallback with                *)
(* kUSB_DeviceEventBusReset.                                                 *)
BusReset ==
  /\ resets < MaxResets
  /\ resets' = resets + 1
  /\ devState' = "Default"
  /\ cfg' = 0
  /\ attach' = FALSE
  /\ pipe' = [e \in Endpoints |-> BusResetPipe(pipe[e])]
  /\ hasSentState' = (hasSentState /\ ~NotificationCancelled)
  /\ HostLeaves
  /\ UNCHANGED <<startTransactions, lineVars, mainVars, halts>>

(* SET_ADDRESS: the setup stage, then the status stage that applies it.     *)
SetAddress ==
  /\ \/ devState = "Default"    /\ devState' = "Addressing"
     \/ devState = "Addressing" /\ devState' = "Address"
  /\ UNCHANGED <<cfg, attach, startTransactions, hasSentState, pipe, lineVars,
                 mainVars, hostVars, budgets>>

(* SET_CONFIGURATION(1): the class opens its pipes unless the configuration  *)
(* is the one it has; the application arms a receive in either case, over a  *)
(* descriptor of bulk OUT that was forgotten. Closing the old pipes first    *)
(* (EndpointsDeinit) leaves nothing that opening keeps.                      *)
Configure ==
  /\ devState \in {"Address", "Configured"}
  /\ IF devState = "Address" THEN UNCHANGED resets
                             ELSE resets < MaxResets /\ resets' = resets + 1
  /\ devState' = "Configured"
  /\ cfg' = 1
  /\ attach' = TRUE
  /\ LET classPipes == IF cfg = 1 THEN pipe ELSE [e \in Endpoints |-> Opened(pipe[e])]
     IN  pipe' = [classPipes EXCEPT !["BulkOut"] = Submit(@, MaxPacketSize)]
  /\ hasSentState' = (hasSentState /\ (cfg = 1 \/ ~NotificationCancelled))
  /\ deafened' = FALSE
  /\ UNCHANGED <<startTransactions, lineVars, mainVars, portOpen, outbox, unanswered,
                 typed, got, halts>>

(* SET_CONFIGURATION(0).                                                    *)
Unconfigure ==
  /\ devState = "Configured"
  /\ resets < MaxResets
  /\ resets' = resets + 1
  /\ devState' = "Address"
  /\ cfg' = 0
  /\ attach' = FALSE
  /\ pipe' = [e \in Endpoints |-> Deinit(pipe[e])]
  /\ hasSentState' = (hasSentState /\ ~NotificationCancelled)
  /\ HostLeaves
  /\ UNCHANGED <<startTransactions, lineVars, mainVars, halts>>

(* SET_CONTROL_LINE_STATE: what a host sends when a program opens the port. *)
(* The notification counts as sent whatever became of it.                   *)
SetControlLineState ==
  /\ devState = "Configured"
  /\ pipe' = IF hasSentState
               THEN pipe
               ELSE [pipe EXCEPT !["InterruptIn"] = Submit(@, NOTIF_LEN)]
  /\ hasSentState' = TRUE
  /\ startTransactions' = (startTransactions \/ attach)
  /\ portOpen' = TRUE
  /\ UNCHANGED <<devState, cfg, attach, lineVars, mainVars, outbox, unanswered,
                 typed, got, deafened, budgets>>

(* Mutants of SendResponse: listening while the empty packet is sent, an empty *)
(* packet after every empty packet, and not listening after one.            *)
SendResponseListensEarly(pipes, n) ==
  LET ended == IF n # 0 /\ n % MaxPacketSize = 0
                 THEN [pipes EXCEPT !["BulkIn"] = Submit(@, 0)] ELSE pipes
  IN  IF attach /\ startTransactions
        THEN [ended EXCEPT !["BulkOut"] = Submit(@, MaxPacketSize)] ELSE ended

SendResponseForEver(pipes, n) ==
  IF n % MaxPacketSize = 0
    THEN [pipes EXCEPT !["BulkIn"] = Submit(@, 0)]
  ELSE IF attach /\ startTransactions
    THEN [pipes EXCEPT !["BulkOut"] = Submit(@, MaxPacketSize)]
  ELSE pipes

SendResponseEndsDeaf(pipes, n) ==
  IF n # 0 /\ n % MaxPacketSize = 0
    THEN [pipes EXCEPT !["BulkIn"] = Submit(@, 0)]
  ELSE IF attach /\ startTransactions /\ n # 0
    THEN [pipes EXCEPT !["BulkOut"] = Submit(@, MaxPacketSize)]
  ELSE pipes

(* The application's answer to a completed bulk IN transfer of n bytes: end   *)
(* it with an empty packet if it filled its last one, else listen again.    *)
SendResponse(pipes, n) ==
  IF n # 0 /\ n % MaxPacketSize = 0
    THEN [pipes EXCEPT !["BulkIn"] = Submit(@, 0)]
  ELSE IF attach /\ startTransactions
    THEN [pipes EXCEPT !["BulkOut"] = Submit(@, MaxPacketSize)]
  ELSE pipes

(* SetFeature(ENDPOINT_HALT).                                               *)
SetHalt(e) ==
  /\ devState = "Configured"
  /\ halts < MaxHalts
  /\ halts' = halts + 1
  /\ pipe' = [pipe EXCEPT ![e] = Stalled(@)]
  /\ hasSentState' = (hasSentState /\ ~(e = "InterruptIn" /\ NotificationCancelled))
  /\ UNCHANGED <<devState, cfg, attach, startTransactions, lineVars, mainVars,
                 hostVars, resets>>

(* ClearFeature(ENDPOINT_HALT), on a halted pipe or not. Only the bulk IN     *)
(* pipe, which the main loop uses too, can find the device layer busy when   *)
(* its backed-up transfer is resubmitted.                                    *)
ClearHalt(e) ==
  /\ devState = "Configured"
  /\ halts < MaxHalts
  /\ halts' = halts + 1
  /\ LET p       == pipe[e]
         cleared == [pipe EXCEPT ![e] = IF MustResubmit(p) THEN Resubmitted(p)
                                                           ELSE Unstalled(p)]
         refused == e = "BulkIn" /\ MustResubmit(p) /\ Unstalled(p).epBusy
     IN  pipe' = IF refused THEN SendResponse(cleared, p.pipeDataLen) ELSE cleared
  /\ hasSentState' = (hasSentState /\ ~(e = "InterruptIn" /\ NotificationCancelled))
  /\ UNCHANGED <<devState, cfg, attach, startTransactions, lineVars, mainVars,
                 hostVars, resets>>
------------------------------------------------------------------------------
(* Data transfers, each completion one USB0 interrupt.                      *)

NotificationSent ==
  /\ NotificationCancelled /\ ~pipe["InterruptIn"].behind
  /\ pipe' = [pipe EXCEPT !["InterruptIn"] = Released(@)]
  /\ hasSentState' = FALSE
  /\ UNCHANGED <<devState, cfg, attach, startTransactions, lineVars, mainVars,
                 hostVars, budgets>>

Listening == pipe["BulkOut"].open /\ pipe["BulkOut"].transferring

(* Mutants of EndsLine: the line end is not looked for, and the slot of the    *)
(* terminator is given away.                                                 *)
EndsLineWhenFull(packet, i) == lineLen + i > LINE_BUF_SIZE - 1
EndsLineTooLate(packet, i) == packet[i] = NL \/ lineLen + i > LINE_BUF_SIZE

(* The i-th byte of a packet ends the line: it is the line end, or there is   *)
(* no room for it below the slot kept for the terminator.                   *)
EndsLine(packet, i) == packet[i] = NL \/ lineLen + i > LINE_BUF_SIZE - 1

(* k bytes of the packet join the line and, if the packet has more, the next  *)
(* one ends it.                                                              *)
Joins(packet, k) ==
  /\ \A i \in 1 .. k : ~EndsLine(packet, i)
  /\ k < Len(packet) => EndsLine(packet, k + 1)

(* The host's next packet: the front of its oldest write.                   *)
DeliverPacket(n) ==
  LET write == Head(outbox)
  IN  /\ outbox' = IF n = Len(write)
                     THEN Tail(outbox)
                     ELSE <<SubSeq(write, n + 1, Len(write))>> \o Tail(outbox)
      /\ UNCHANGED <<portOpen, unanswered, typed, got>>

(* RecvResponse before the host opened the port: the packet is forgotten and  *)
(* nothing is armed.                                                         *)
DropPacket ==
  /\ ~(attach /\ startTransactions)
  /\ pipe' = [pipe EXCEPT !["BulkOut"] = Released(@)]
  /\ deafened' = TRUE
  /\ UNCHANGED lineVars

(* RecvResponse: the bytes join the line; the first one that ends it makes it *)
(* ready and what follows in the packet is ignored. An unfinished line arms   *)
(* the next receive.                                                         *)
TakePacket(packet) ==
  /\ attach /\ startTransactions
  /\ \E k \in 0 .. Len(packet) :
       /\ Joins(packet, k)
       /\ lineLen' = lineLen + k
       /\ lineBuf' = [i \in Slots |->
            IF i \in lineLen .. lineLen + k - 1 THEN packet[i - lineLen + 1]
            ELSE IF k < Len(packet) /\ i = lineLen + k THEN NUL
            ELSE lineBuf[i]]
       /\ lineReady' = (lineReady \/ k < Len(packet))
       /\ LET released == [pipe EXCEPT !["BulkOut"] = Released(@)]
          IN  pipe' = IF k < Len(packet)
                        THEN released
                        ELSE [released EXCEPT !["BulkOut"] = Submit(@, MaxPacketSize)]
  /\ UNCHANGED deafened

ReceivePacket ==
  /\ Listening
  /\ outbox # << >>
  /\ \E n \in 1 .. MaxPacketSize :
       /\ n <= Len(Head(outbox))
       /\ DeliverPacket(n)
       /\ DropPacket \/ TakePacket(SubSeq(Head(outbox), 1, n))
  /\ UNCHANGED <<deviceVars, mainVars, budgets>>

Sending == pipe["BulkIn"].open /\ pipe["BulkIn"].transferring

(* The host appends a packet to the reply it is collecting, which starts with *)
(* the first packet of a transfer, and stops waiting once it is complete.    *)
HostCollects(p) ==
  IF p.transferLength = 0
    THEN UNCHANGED <<got, unanswered>>
    ELSE /\ got' = IF p.transferDone = 0 \/ got = << >>
                     THEN Append(got, [cmd |-> sendBuf, len |-> Chunk(p)])
                     ELSE [got EXCEPT ![Len(got)].len = @ + Chunk(p)]
         /\ unanswered' = IF SendComplete(p) /\ unanswered > 0
                            THEN unanswered - 1 ELSE unanswered

SendChunk ==
  /\ Sending /\ ~pipe["BulkIn"].behind
  /\ LET p    == pipe["BulkIn"]
         done == [pipe EXCEPT !["BulkIn"] = Released(Sent(p))]
     IN  /\ pipe' = IF SendComplete(p)
                      THEN SendResponse(done, p.transferDone + Chunk(p))
                      ELSE [pipe EXCEPT !["BulkIn"] = Sent(p)]
         /\ HostCollects(p)
  /\ UNCHANGED <<deviceVars, lineVars, mainVars, portOpen, outbox, typed, deafened, budgets>>

(* The host polls an endpoint that was closed and opened with a packet primed, *)
(* before the next transfer: the token of that packet is ignored. What the     *)
(* host makes of the packet is not followed here.                            *)
IgnoreToken(e) ==
  /\ CanSkip(pipe[e])
  /\ pipe' = [pipe EXCEPT ![e] = Skipped(@)]
  /\ UNCHANGED <<deviceVars, lineVars, mainVars, hostVars, budgets>>

(* A program on the host writes one line, or two in one write.              *)
WriteLines(lines, bytes) ==
  /\ devState = "Configured"
  /\ portOpen \/ ~OpenFirst
  /\ Len(lines) \in LinesPerWrite
  /\ Len(typed) + Len(lines) <= MaxLines
  /\ unanswered + Len(lines) <= MaxUnanswered
  /\ typed' = typed \o lines
  /\ outbox' = Append(outbox, bytes)
  /\ unanswered' = unanswered + Len(lines)
  /\ UNCHANGED <<deviceVars, pipe, lineVars, mainVars, portOpen, got, deafened, budgets>>

HostWrites ==
  \/ \E l \in Lines : WriteLines(<<l>>, Append(l, NL))
  \/ \E l, m \in Lines : WriteLines(<<l, m>>, Append(l, NL) \o Append(m, NL))
------------------------------------------------------------------------------
(* The main loop.                                                           *)

(* The two conditions of APPTask. A line becomes ready only while the flags   *)
(* of the first hold, so that reading one after the other finds what some     *)
(* state in between shows.                                                   *)
StartCommand ==
  /\ pc = "idle"
  /\ attach /\ startTransactions
  /\ lineReady /\ sendSize = 0
  /\ pc' = "parse"
  /\ UNCHANGED <<deviceVars, pipe, lineVars, sendSize, cmd, size, sendBuf, replies,
                 hostVars, budgets>>

(* process_command reads the line up to its terminator before it touches the  *)
(* bus ...                                                                   *)
ParseCommand ==
  /\ pc = "parse"
  /\ \E n \in Slots :
       /\ lineBuf[n] = NUL
       /\ \A i \in 0 .. n - 1 : lineBuf[i] # NUL
       /\ cmd' = [i \in 1 .. n |-> lineBuf[i - 1]]
  /\ pc' = "reply"
  /\ UNCHANGED <<deviceVars, pipe, lineVars, sendSize, size, sendBuf, replies,
                 hostVars, budgets>>

(* ... and builds the reply, to which APPTask adds CR LF, after it.         *)
BuildReply ==
  /\ pc = "reply"
  /\ \E n \in ReplyLens :
       /\ size' = n
       /\ replies' = Append(replies, [cmd |-> cmd, len |-> n])
  /\ sendBuf' = cmd
  /\ pc' = "clear"
  /\ UNCHANGED <<deviceVars, pipe, lineVars, sendSize, cmd, hostVars, budgets>>

(* Mutant of ClearLine: the next line is appended to this one.              *)
ClearLineKeepsText ==
  /\ \/ pc = "clear" /\ pc' = "clearReady" /\ UNCHANGED lineReady
     \/ pc = "clearReady" /\ pc' = "setSize" /\ lineReady' = FALSE
  /\ UNCHANGED <<deviceVars, pipe, lineBuf, lineLen, sendSize, cmd, size, sendBuf,
                 replies, hostVars, budgets>>

(* s_lineLen = 0; s_lineReady = false. Only the second is volatile: the       *)
(* compiler may order the two stores either way.                             *)
ClearLine ==
  /\ \/ /\ pc = "clear" /\ pc' = "clearReady"
        /\ lineLen' = 0 /\ UNCHANGED lineReady
     \/ /\ pc = "clear" /\ pc' = "clearLen"
        /\ lineReady' = FALSE /\ UNCHANGED lineLen
     \/ /\ pc = "clearReady" /\ pc' = "setSize"
        /\ lineReady' = FALSE /\ UNCHANGED lineLen
     \/ /\ pc = "clearLen" /\ pc' = "setSize"
        /\ lineLen' = 0 /\ UNCHANGED lineReady
  /\ UNCHANGED <<deviceVars, pipe, lineBuf, sendSize, cmd, size, sendBuf, replies,
                 hostVars, budgets>>

SetSendSize ==
  /\ pc = "setSize"
  /\ sendSize' = size
  /\ pc' = "takeSize"
  /\ UNCHANGED <<deviceVars, pipe, lineVars, cmd, size, sendBuf, replies, hostVars, budgets>>

TakeSendSize ==
  /\ pc = "takeSize" /\ sendSize # 0
  /\ size' = sendSize
  /\ sendSize' = 0
  /\ pc' = "send"
  /\ UNCHANGED <<deviceVars, pipe, lineVars, cmd, sendBuf, replies, hostVars, budgets>>

(* USB_DeviceCdcAcmSend: the class's busy flag is tested and set ...        *)
ClaimPipe ==
  /\ pc = "send"
  /\ IF pipe["BulkIn"].isBusy
       THEN pc' = "idle" /\ UNCHANGED pipe      \* the reply is lost
       ELSE /\ pc' = "stallCheck"
            /\ pipe' = [pipe EXCEPT !["BulkIn"].isBusy = TRUE]
  /\ UNCHANGED <<deviceVars, lineVars, sendSize, cmd, size, sendBuf, replies,
                 hostVars, budgets>>

(* ... then the stall flag is read, and acted on in a later step ...        *)
CheckStall ==
  /\ pc = "stallCheck"
  /\ pc' = IF pipe["BulkIn"].pipeStall THEN "backup" ELSE "claim"
  /\ UNCHANGED <<deviceVars, pipe, lineVars, sendSize, cmd, size, sendBuf, replies,
                 hostVars, budgets>>

BackupReply ==
  /\ pc = "backup"
  /\ pipe' = [pipe EXCEPT !["BulkIn"] = Backup(@, size)]
  /\ pc' = "idle"
  /\ UNCHANGED <<deviceVars, lineVars, sendSize, cmd, size, sendBuf, replies,
                 hostVars, budgets>>

(* ... then USB_DeviceTransfer claims the endpoint with interrupts disabled   *)
(* and gives the class's flag back if it cannot ...                          *)
ClaimEndpoint ==
  /\ pc = "claim"
  /\ IF pipe["BulkIn"].epBusy
       THEN /\ pc' = "idle"
            /\ pipe' = [pipe EXCEPT !["BulkIn"].isBusy = FALSE]
       ELSE /\ pc' = "prime"
            /\ pipe' = [pipe EXCEPT !["BulkIn"].epBusy = TRUE]
  /\ UNCHANGED <<deviceVars, lineVars, sendSize, cmd, size, sendBuf, replies,
                 hostVars, budgets>>

(* Mutant of PrimeReply: the next receive is armed as soon as the reply starts.*)
PrimeReplyAndListen ==
  /\ pc = "prime"
  /\ pipe' = [pipe EXCEPT !["BulkIn"] = Prime(@, size),
                          !["BulkOut"] = Submit(@, MaxPacketSize)]
  /\ pc' = "idle"
  /\ UNCHANGED <<deviceVars, lineVars, sendSize, cmd, size, sendBuf, replies,
                 hostVars, budgets>>

(* ... and the controller starts the transfer.                              *)
PrimeReply ==
  /\ pc = "prime"
  /\ pipe' = [pipe EXCEPT !["BulkIn"] = Prime(@, size)]
  /\ pc' = "idle"
  /\ UNCHANGED <<deviceVars, lineVars, sendSize, cmd, size, sendBuf, replies,
                 hostVars, budgets>>
------------------------------------------------------------------------------
UsbInterrupt ==
  \/ BusReset \/ SetAddress \/ Configure \/ Unconfigure \/ SetControlLineState
  \/ \E e \in Endpoints : SetHalt(e) \/ ClearHalt(e)
  \/ NotificationSent \/ ReceivePacket \/ SendChunk
  \/ \E e \in {"InterruptIn", "BulkIn"} : IgnoreToken(e)

AppTask ==
  \/ StartCommand \/ ParseCommand \/ BuildReply \/ ClearLine \/ SetSendSize
  \/ TakeSendSize \/ ClaimPipe \/ CheckStall \/ BackupReply \/ ClaimEndpoint
  \/ PrimeReply

Next == UsbInterrupt \/ AppTask \/ HostWrites

(* main() calls APPTask for ever; the host transmits what it has written and  *)
(* polls the bulk IN endpoint while the device has data for it.              *)
Fairness == WF_vars(AppTask) /\ WF_vars(ReceivePacket) /\ WF_vars(SendChunk)

Spec == Init /\ [][Next]_vars
FairSpec == Spec /\ Fairness
------------------------------------------------------------------------------
(* Properties.                                                              *)

(* process_command's parsers stop inside s_lineBuf whatever the host sent:   *)
(* the last slot is never given to a byte of the line, so that a stale line, *)
(* a line cut short by a reset, or a too-long one is still terminated.      *)
Terminated == lineBuf[LINE_BUF_SIZE - 1] = NUL

(* The command being answered: from the end of its line until its reply is    *)
(* handed to the controller.                                                *)
Answering == lineReady \/ pc # "idle"

(* "While a completed line is waiting to be answered, no further receive is  *)
(* armed" (the comment on s_lineBuf): the interrupt cannot touch the line     *)
(* buffer while the main loop works on it.                                   *)
HalfDuplex == Answering => ~Listening

(* One turn at a time: the bridge listens, or works on a command, or sends    *)
(* the reply, and never two of them, with every packet boundary, empty packet *)
(* and backed-up transfer in between.                                        *)
OneTurn ==
  /\ HalfDuplex
  /\ ~(Listening /\ pipe["BulkIn"].isBusy)
  /\ ~(lineReady /\ pipe["BulkIn"].isBusy)

(* s_currSendBuf is not rewritten while the controller transmits from it, or  *)
(* while the transfer is backed up: APPTask builds the next reply only after  *)
(* the previous one is out.                                                   *)
ReplyBufferStable ==
  [][(Sending /\ pipe["BulkIn"].transferLength # 0) \/ pipe["BulkIn"].queued
       => sendBuf' = sendBuf]_vars

(* The commands executed are the lines typed, in order: no line is merged     *)
(* with another, cut, executed twice or executed out of turn, however the     *)
(* host's packets slice it.                                                  *)
CommandsAreLines ==
  /\ Len(replies) <= Len(typed)
  /\ \A i \in 1 .. Len(replies) : replies[i].cmd = typed[i]

(* What the host receives is the replies in order, each under its own text    *)
(* and whole before the next one begins, across packets and empty packets.   *)
RepliesIntact ==
  /\ Len(got) <= Len(replies)
  /\ \A i \in 1 .. Len(got) :
       /\ got[i].cmd = replies[i].cmd
       /\ got[i].len <= replies[i].len
       /\ i < Len(got) => got[i].len = replies[i].len

(* Answered: the replies the host has in full.                              *)
Complete == { i \in 1 .. Len(got) : i <= Len(replies) /\ got[i].len = replies[i].len }

Answered == [i \in 1 .. (IF Len(got) \in Complete THEN Len(got)
                         ELSE IF got = << >> THEN 0 ELSE Len(got) - 1)
              |-> got[i].cmd]

Channel == INSTANCE CommandChannel WITH asked <- typed, answered <- Answered

(* The bridge implements a command channel as long as the host does not reset: *)
(* lines are answered one by one, in order, none twice ...                 *)
AnswersInOrder == Channel!ChannelSafety

(* ... and if it does not halt an endpoint either, none stays unanswered.     *)
NoneUnanswered == [](halts = 0) => Channel!ChannelLiveness

(* Between resets the bridge is never deaf: once a port is open on it, it is  *)
(* listening, or has a line, a reply or a transfer of its own in hand whose   *)
(* end makes it listen. The exception is the packet that came before the port *)
(* was opened: RecvResponse then arms nothing. A transfer in hand is one the   *)
(* driver keeps; whether the controller can end it is ListensAgain's question. *)
NeverDeaf ==
  attach /\ startTransactions /\ ~deafened => Listening \/ Answering \/ Sending

(* A pipe's class-level busy flag is held for a reason: a transfer in the      *)
(* controller, one backed up by a halt, or the main loop about to start one.  *)
(* A flag left behind by a reset would refuse every later transfer.          *)
NoStuckBusy ==
  \A e \in Endpoints :
    pipe[e].open /\ pipe[e].isBusy =>
      \/ pipe[e].transferring
      \/ pipe[e].queued /\ pipe[e].pipeStall
      \/ e = "BulkIn" /\ pc \in {"stallCheck", "backup", "claim", "prime"}

(* hasSentState is set exactly while a notification is on its way, so that a  *)
(* later opening of the port is notified again.                              *)
NotificationTracked ==
  devState = "Configured" => (hasSentState <=> pipe["InterruptIn"].isBusy)

(* On the two pipes that only interrupts use (not the reply's) the layers      *)
(* agree: the device layer's flag is the controller's, the class's is held for  *)
(* a transfer in the controller or for one backed up behind a halt, and never  *)
(* for both. So no receive or notification is ever refused by a flag left      *)
(* behind, and only the reply's resubmission can be refused at all.          *)
LayersAgree ==
  \A e \in Endpoints \ {"BulkIn"} :
    /\ pipe[e].epBusy <=> pipe[e].transferring
    /\ pipe[e].isBusy <=> pipe[e].transferring \/ pipe[e].queued
    /\ pipe[e].queued => pipe[e].pipeStall /\ ~pipe[e].transferring

(* After any number of resets the bridge listens again: no line, reply or      *)
(* transfer that a reset cut short keeps it from arming a receive. Two things  *)
(* do, and are excepted: a packet that came before the port was opened          *)
(* (deafened), and a reply's descriptor that SET_CONFIGURATION(0), or a reset    *)
(* within USB_DeviceTransfer, left with the controller, once the host has taken *)
(* its packet (behind): the bulk IN pipe is then dead until the bus is reset.  *)
ListensAgain ==
  (attach /\ startTransactions /\ ~deafened) ~>
    (Listening \/ ~attach \/ pipe["BulkIn"].behind)

(* "APPTask() will reply, then re-arm the next receive", unless the bus went   *)
(* away or the host leaves an endpoint halted.                               *)
RearmsAfterReply ==
  lineReady ~> (Listening \/ ~attach \/ \E e \in Endpoints : pipe[e].pipeStall)
==============================================================================
