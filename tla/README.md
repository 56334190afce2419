# Verification of the USB-to-I2C bridge

The firmware turns an FRDM-MCXA153 board into a USB CDC-ACM serial port on
which a program writes one-line commands (`S`, `W`, `R`, `X`, `I`, `L`) that the
board carries out on an I2C bus, answering each with one line. This directory
holds TLA+ models of that firmware, TLC configurations that check them on small
instances, and TLAPS proofs. Paths are relative to the repository; line numbers
are in the "map" of `PROJECT.json`.

## 1. The system

| Part | Code | State | Operations |
|---|---|---|---|
| Command bridge | `src/usb_main.c`: `APPTask`, `USB_DeviceCdcVcomCallback`, `USB_DeviceCallback` | `s_lineBuf`, `s_lineLen`, `s_lineReady`, `s_sendSize`, `s_currSendBuf`, `s_cdcVcom.attach`, `.startTransactions` | main loop step; RecvResponse, SendResponse, SerialStateNotif, SetControlLineState; BusReset, SetConfiguration, SetInterface |
| CDC-ACM class | `usb_device_cdc_acm.c` | per pipe `isBusy`, `pipeStall`, `pipeDataBuffer/Len`; `configuration`, `hasSentState` | Send, Recv, completion callbacks, class events |
| Device layer | `usb_device_dci.c`, `usb_device_class.c`, `usb_device_ch9.c` | `epCallback[].isBusy/.callbackFn`, device state | Transfer, Init/DeinitEndpoint, NotificationTrigger, chapter 9 requests |
| KHCI driver | `usb_device_khci.c` | `endpointState[]` (`transferring`, `transferLength`, `transferDone`, `bdtOdd`, DATA0/1), buffer descriptors | Send, Recv, Cancel, token done, reset, the interrupt function |
| Command interpreter | `process_command`, `parse_*`, `append_*` | locals only | one call per line |
| SMBus PEC | `smbus_pec_byte`, `smbus_pec_buf` | none | CRC-8 |
| I2C bus recovery | `I2C_BusRecover`, `i2c_recover_if_needed` | pins, LPI2C0 | up to nine clocks, STOP, re-init |
| I2C slave capture | `I2C_SlaveWaitForWrite` | `s_tickCount` | poll until STOP or timeout |
| LPI2C driver | `fsl_lpi2c.c` (`LPI2C_MasterTransferBlocking`) | peripheral | one blocking transfer |
| Log ring | `rtt.c` | `wr_off`, `rd_off`, `s_up_buffer` | `rtt_write` from main and interrupt |
| Descriptors | `usb_device_descriptor.c/.h` | constant tables, and the class's copy of them | the getters, `USB_DeviceSetSpeed` |
| Heartbeat, start-up, `main.c` blinky | | | |
| Host script | `tools/verify_smbus.py` | | writes a line, waits for the reply |

**How they interact.** There are two threads. The USB0 interrupt runs the whole
USB stack from the KHCI interrupt function up to the callbacks of `usb_main.c`,
and runs to completion. `main` calls `APPTask` for ever, which waits for
`s_lineReady`, calls `process_command` (blocking, up to seconds on the bus), and
hands the reply to `USB_DeviceCdcAcmSend`; it is preempted anywhere except inside
the few critical sections of the device layer. They share the line variables,
`attach`, `startTransactions` and the bulk IN pipe. Nothing locks them: the
half-duplex rule stated above `s_lineBuf` is meant to keep them apart.

**What is hard.** (1) A completed line stops reception; only the completion of
its reply starts it again, through three layers each with its own busy flag. Any
path that loses a reply makes the bridge deaf. (2) A reset, a repeated
SET_CONFIGURATION, an endpoint halt or un-halt may come between any two accesses
of the main loop. (3) Replies that fill their last packet need exactly one empty
packet. (4) The line buffer is shared between packets, lines and sessions.
(5) A failing I2C transfer may leave a target holding SDA for every later
command. (6) The PEC byte is one more than every count. (7) Driver and controller
walk two buffer descriptors per endpoint with an ODD and a DATA0/1 bit each, while
handshakes are lost and pipes are halted, closed and reset. (8) Endpoint 0 must be
primed for the next SETUP after every way a request can end. (9) The address and the
configuration are kept in four places. (10) The slave capture polls flags that
another master changes between any two of its statements, against a counter that
wraps.
`PROJECT.json` lists each under "hazards" with its line and the property
that watches it.

**What makes it correct.**

- Bridge: every line is answered once, in order and whole, and the bridge then
  listens again; one turn at a time (listen, work, send); the parsers stop inside
  the line buffer; the reply buffer is stable while it is sent; resets and halts
  leave no flag behind.
- Pipes: the class, the device layer and the controller agree on who is busy; a
  backed-up transfer waits only behind a stall.
- Interpreter: no buffer is exceeded, nothing is sent cut short, the PEC covers
  exactly the bytes of the wire, a failed transfer never wedges the next command
  (a wait for a write-back in vain may), the bus is given back with the reply.
- Endpoints: driver and controller agree which descriptor is next; what is reported
  sent was received, once and whole; nothing that was cancelled is sent.
- Control pipe: every request is answered or refused, the answer is the bytes asked
  for, the pipe then listens for the next SETUP; the layers agree with the host on
  address and configuration, and the endpoints opened are those described.
- Capture: ends, and not before its timeout, although the tick wraps; keeps the
  bytes of the write in order, none of an earlier one; never writes past its buffer;
  lets go of the other master's clock.
- Log ring: the probe reads what was taken of every message, in order, each byte
  once; only the end of a message that met a full ring is lost.

## 2. Modules

| Module | Models | Lines up with |
|---|---|---|
| `CdcPipe` | One endpoint in its three layers, as a record; each operator is a call that moves it | `USB_DeviceCdcAcmSend/Recv`, the completion callbacks, halt and un-halt (`USB_DeviceCdcAcmEvent`), `USB_DeviceTransfer`, `USB_DeviceKhciSend/Recv/Cancel`, token done |
| `VcomBridge` | The bridge on three such pipes, the interrupt, the main loop and the host | `usb_main.c`, chapter 9 requests |
| `CommandChannel` | Abstract specification: lines asked, replies answered in order | what `VcomBridge` promises |
| `MCVcomBridge` | Values for TLC | |
| `BridgeCommand` | `process_command` on a bus with absent, failing and wedged targets | `process_command`, PEC coverage, recovery, the outcome of `LPI2C_MasterTransferBlocking` |
| `MCBridgeCommand` | Values for TLC | |
| `SlaveCapture` | The polling loop of the I2C slave, the tick, and another master | `I2C_SlaveWaitForWrite`, `SysTick_Handler` |
| `MCSlaveCapture` | Values for TLC | |
| `Khci` | One direction of one endpoint: `endpointState` and its two buffer descriptors, as a record | `USB_DeviceKhciEndpointTransfer`, `Send`, `Recv`, `Cancel`, `EndpointInit/Deinit/Stall/Unstall`, the counting of a done token |
| `BulkIn` | A bulk IN endpoint on `Khci`, the controller, the main loop and the host | `USB_DeviceTransfer`, token done, the class events |
| `Descriptors` | The tables and their getters, and what the host reads in them | `usb_device_descriptor.c` |
| `ControlPipe` | Endpoint 0 on two `Khci` endpoints, chapter 9, the class's and the application's requests, a host that enumerates | `usb_device_ch9.c`, the class and application callbacks, endpoint 0 in `usb_device_khci.c` |
| `MCControlPipe` | Values for TLC | |
| `RttRing` | The log ring, its two writers and a probe that reads it | `rtt_write`, `rtt_puts`; the probe from what the ring's layout asks of it |
| `MCRttRing` | Values for TLC | |
| `VcomBridgeProofs`, `VcomTurnProofs`, `VcomChannelProofs` | Theorems about the pipes and the bridge, each on those before it | |
| `BridgeCommandProofs`, `SlaveCaptureProofs`, `BulkInProofs`, `ControlPipeProofs`, `RttRingProofs` | Theorems about the component of that name | |

### Granularity

- **Interrupt actions are atomic.** The interrupt is not preempted by the main
  loop, so a whole handler, down to the `Recv` or `Send` it makes, is one action:
  `TakePacket` assembles the line *and* re-arms the receive; `SendChunk` on the
  last packet releases the pipe *and* runs SendResponse.
- **The main loop is cut at every shared access**: `StartCommand`, `ParseCommand`,
  `BuildReply`, `ClearLine` (two stores; `s_lineLen` is not volatile, so both
  orders are allowed), `SetSendSize`, `TakeSendSize`, then `USB_DeviceCdcAcmSend`
  as `ClaimPipe` (test and set of `isBusy`), `CheckStall`, `BackupReply` or
  `ClaimEndpoint` (critical section of `USB_DeviceTransfer`) and `PrimeReply`.
  `BackupReply` stores buffer and length in one step and `PrimeReply` fills the
  controller's state in one step.
- **Names.** `s_lineBuf` is `lineBuf`, and so on; `pipe["BulkOut"].isBusy` is
  `cdcAcmHandle->bulkOut.isBusy`; `epBusy` and `open` are `epCallback[].isBusy` and
  `.callbackFn`; `queued` is `pipeDataBuffer # USB_INVALID_TRANSFER_BUFFER`; `cfg` is
  the class's `configuration`.
- **Data.** A byte is a model value; CR is dropped wherever it comes by the code and
  is left out of what the host types. A reply is the command it answers and a
  length. `typed`, `got`, `replies` and `deafened` are history variables: no guard
  of the firmware reads them.
- **SetInterface** changes nothing: every interface has alternate 0 only.
- **The host** may slice a write into packets anywhere up to the packet size, so
  that a full packet, a short one and a line end alone all occur. When the device
  goes away it forgets what it had not delivered.
- **A resubmission can only be refused on bulk IN.** `LayersAgree` is the reason
  that `ClearHalt` does not model the call of `USB_DeviceCdcAcmBulkIn` that the class
  makes when the *notification* pipe's resubmission fails
  (`usb_device_cdc_acm.c:510`, the wrong callback): it is unreachable.
- **BridgeCommand** has one action per transfer and one per decision after it. A
  target may be absent, fail a transfer with any status of the driver, be left
  without a STOP, or hold SDA for up to nine clocks. A write without STOP returns
  before the address is acknowledged, so it may report success at an absent
  address. An address or a count that does not parse is refused like one out of range;
  the data of a line are the hex bytes up to the first token that does not parse, since
  that token ends them silently and the command goes on (`usb_main.c:723`). Text is
  abstracted to what the parsers find; the CRC to the bytes it was fed.
  `I2C_SlaveWaitForWrite` is one step with its two outcomes, before which a target may
  come to hold SDA: the bus is another master's then. Otherwise the bridge is the only
  master.
- **SlaveCapture** has one action per statement of the loop that reads or clears a
  register: the test with the snapshot of SSR, the reads of SASR and of SRDR, the
  clearing of SDF. The other master goes on between them, except that SCL is held
  while a byte waits in SRDR, as `LPI2C_SlaveGetDefaultConfig` sets it up. SDF is the
  STOP of a transfer that was addressed to us. SSR is the set of its flags that are up. `MaxLag` bounds the ticks that pass in
  one turn of the loop; the assumption on it says that the counter does not turn
  round within a wait.
- **Khci, BulkIn.** Below `CdcPipe`, which knows only how much of a transfer is left:
  the descriptors in memory with OWN, stall and toggle, the driver's `bdtOdd` and
  `data0`, the controller's own ODD bit, and the tokens it has done that the interrupt
  has not seen. `USB_DeviceTransfer` is cut in two, `Claim` (up to the bookkeeping of
  `USB_DeviceKhciSend`) and `Prime`. A request of the host is handled after the tokens
  before it, since the controller answers none until the SETUP is handled; a bus
  reset comes at any time.
- **ControlPipe** has one action per interrupt cause and one per transaction of the
  host; every handler, from the token down to `Send` and `Recv`, is within one. A
  request is a name, a value, an index and a length; a descriptor is its buffer and
  its length; what the host stores is one number per buffer. Assumed of the
  controller: it answers only the address in ADDR; a SETUP that finds its descriptor
  not given away, or stalled, goes unanswered; a STALL leaves its descriptor alone;
  after a SETUP no token is answered until it is handled; an OUT packet with the wrong
  toggle is acknowledged and dropped, and so is the empty DATA1 packet that ends a
  read, since the descriptor is primed for a SETUP, with DATA0. Assumed of the host:
  it gives up a request only in the status stage of a read, or by resetting the bus;
  it changes the address only before it configures; its requests have the
  `bmRequestType` that belongs to them. A class request for the data interface is
  refused when it has a data stage (there is no buffer) and answered empty otherwise,
  as the code does. `isBusy` of endpoint 0 is left out: a SETUP clears it in both
  directions, and a request makes at most one Send and one Recv. The receive that the
  application arms in SET_CONFIGURATION is in `VcomBridge`.
- **Two depths of the same pipe.** `VcomBridge` keeps of the descriptors what can make
  a pipe fail: that one was left with the controller by a cancelled transfer
  (`forgotten`), and that its token was ignored before `bdtOdd` was turned (`behind`,
  by `IgnoreToken`), after which no packet of the pipe is answered until the bus is
  reset. Priming a transfer first overwrites the forgotten descriptor, a halt empties
  it. `BulkIn` has the descriptors themselves, with the toggles and lost handshakes,
  and shows that driver and controller are in step until a transfer is forgotten
  (`InStep`), and that one can be (finding 5). What the host makes of the stale packet
  is followed in `BulkIn` only. On bulk OUT nothing is forgotten for long: opening it
  arms a receive over the descriptor in the same interrupt.
- **RttRing** has one action per access of `rtt_write` to the ring, in the order of
  the program: the offsets are volatile, and the store of a `char` may alias them, so
  that the compiler cannot reorder the two. The interrupt runs to completion before
  `main` steps again; whether it may begin while `main` is inside `rtt_write` is the
  constant `IsrPreempts`. The probe reads both offsets, then the bytes between them
  one by one, then stores `rd_off`; it may do so between any two accesses, since it
  reads memory over SWD while the processor runs. `message`, `done`, `taken` and
  `received` are history: what each call was given, how far it is, all bytes taken and
  all bytes read.

## 3. Runs

| Run | Configuration | Shows |
|---|---|---|
| `bridge_answers` | no resets, 2 halts or un-halts of any endpoint; host opens first; 3 lines, 2 typed ahead | `OneTurn`, `CommandsAreLines`, `RepliesIntact`, `ReplyBufferStable`, `LayersAgree`; the refinement `AnswersInOrder` of `CommandChannel`: lines are answered in order and once; and `NoneUnanswered` under fairness: unless a halt is used, all of them are |
| `bridge_resets` | 2 resets, re- or de-configurations anywhere; lines longer than the buffer, one or two in a write; host may write before it opens | `Terminated`, `NeverDeaf`, `NoStuckBusy`, `NotificationTracked`, `LayersAgree`, and under fairness `ListensAgain`, which excepts a packet dropped before the port was opened and a bulk IN pipe out of step (finding 5) |
| `commands` | every command with every count and amount of data around the limits | `BuffersFit`, `NothingTruncated`, `PecCoversWire`, `SelfHeals`, `ScanHeals`, `HeldOnlyByXS` |
| `slave_capture` | 2 waits, 2 transfers to us, a counter of 5 | `CapturesTheWrite` (the bytes up to the STOP, as many as fit, none of an earlier wait), `TimeoutIsLate`, `WaitEnds`, `ClockReleased` |
| `bulk_in` | 3 transfers of no, one full and three packets; 4 resets, configurations or halts; 1 lost handshake | `InStep`, `SentMeansReceived`, `PipeDrains` |
| `control` | 14 requests of an enumeration and of a terminal program, in any order; 1 lost handshake in each; resets at any moment | `Listens`, `AnswerIsRight`, `ViewsAgree`, `AddressAfterStatus`, `EndpointsAsDescribed`, and `Answered` under fairness |
| `rtt_log` | calls that do not overlap; a probe at any moment | `StreamIntact` (no hole, no repeat, through wraps and full rings) and `EverythingRead` under fairness |
| `half_duplex` | one reset | **violated**: finding 1 |
| `cancelled_reply` | one CLEAR_FEATURE | **violated**: finding 2 |
| `xs_count` | as `commands` | **violated**: finding 3 |
| `rtt_preempt` | as `rtt_log`, the interrupt may log while `main` does | **violated**: finding 4 |
| `bulk_cancel` | as `bulk_in` | **violated**: finding 5 |

### Bounds, and why they are enough

`LINE_BUF_SIZE = 4` and lines of 1, 3 and 4 bytes: a line that is short, one that
fills the buffer to the terminator's slot, one that overflows. `MaxPacketSize = 2`
and replies of 1 and 4: a short packet, and two full ones followed by the empty
packet; the host's packets of 1 or 2 bytes cut every line at every place. Three
lines with two typed ahead let a reply meet a line already waiting. Two resets let
the second one come while the first one's leftovers are still there; two halts
allow a halt and its end around one transfer. In `MCBridgeCommand` the
buffers are of two bytes, so counts 0 to 3 reach below, at and beyond both the limit
and the limit less the PEC byte; `SEND_BUF_SIZE = 13` is the exact size of the
longest scan reply there. Two faults let a scan be wedged twice, a wedge meet a
failing transfer, or a command whose write failed be followed by a wedge in a wait. A log ring of three slots holds two bytes: messages of one, two and
four bytes leave room, fill it exactly and overflow it at each of its positions, and
three of them go round it more than once. In `SlaveCapture` a counter modulo 5 with a
timeout of 2 starts at each of its values and wraps within most waits; `buf[]` of two
bytes meets writes of none, two and three. In `BulkIn` packets of two bytes and
lengths of 0, 2 and 5 are an empty packet, a full one and a transfer of three; four
events allow a halt, its end, a closing and an opening around one transfer, and three
transfers use both descriptors. In `MCControlPipe` packets of 21 bytes cut the
configuration (63 bytes are asked for) and the second string (42 bytes, 255 asked
for, so that an empty packet must follow) into several full packets; one handshake
lost per request repeats any packet once. Every bound is a constant (`MaxLines`,
`MaxUnanswered`, `MaxResets`, `MaxHalts`, `MaxFaults`, `MaxMessages`, `MaxLag`,
`MaxWaits`, `MaxTransfers`, `MaxEvents`, `MaxLost`), each named in the guards it
bounds. Deadlock is checked in every run but the two of `BulkIn`, whose transfers and
events run out: elsewhere the host may always enumerate, ask or open the port, a tick
may always pass, and a next command may always come.

### Fairness

`FairSpec` assumes weak fairness of `AppTask` (`main` calls it for ever, and the
interrupt cannot hold the processor: each handler ends), of `ReceivePacket` (the host
controller transmits what a program wrote while the device is ready to take it) and
of `SendChunk` (a port that is open is polled). Nothing is assumed of a program's
writes, of resets, halts or requests. `RttRing!Spec` assumes weak fairness of each
writer inside `rtt_write`, which never waits, and of the probe, which polls for as
long as it is attached; nothing makes a writer call. `SlaveCapture!Spec` assumes it of
the loop, of SysTick, and of another master's bytes and STOP when SCL lets it go on;
no master has to begin. `BulkIn!Spec` assumes it of the main loop inside the driver,
of the host's polling and of the interrupt. `ControlPipe!Spec` assumes only that
something of what is due happens: an interrupt is taken, or a host that has begun a
request goes on with it; nothing is assumed of new requests, of resets or of lost
handshakes.

## 4. Findings

1. `half_duplex`: SET_CONFIGURATION arms a receive whatever `s_lineReady` says
   (`usb_main.c:1154`), against the comment above `s_lineBuf`. A host that configures
   the device again while a command runs can overwrite the line being parsed.
2. `cancelled_reply`: clearing a halt that was never set cancels the reply, and
   nothing arms a receive again: the bridge is deaf until the next configuration.
3. `xs_count`: `XS` with count 128 writes first and refuses the count afterwards,
   leaving the bus without a STOP.
4. `rtt_preempt`: `rtt_write` stores an offset it computed before the interrupt
   wrote its own message, and takes that message back from the probe or repeats it
   (`rtt.c:49-55`; the interrupt logs at `usb_main.c:1112`, `main` at 261).
5. `bulk_cancel`: `USB_DeviceKhciCancel` forgets a transfer but leaves its descriptor
   with the controller. After SET_CONFIGURATION(0) and (1) the cancelled packet goes
   out; its token is ignored before `bdtOdd` is turned (`usb_device_khci.c:684`), and
   the pipe is dead until the bus is reset: no reply completes any more, and nothing
   arms a receive. `ListensAgain` excepts a bridge in that state.

Also met while modelling, and no runs of their own. The first differs from what the
comments say; the others the code does by design, or no document says otherwise:

- an `I` whose wait times out recovers nothing (`usb_main.c:258-264`, 907-911): a target
  that wedged while another master had the bus holds SDA for the next command, although
  `usb_main.c:623` says that "Every other command (W/R/X/I) already self-heals this way"
  and `README.md:260-261` that recovery "runs automatically after any non-NAK failure".
  The next S, W, R or X frees it. `BridgeCommand` lets it happen, and `SelfHeals` excepts
  exactly that (`WaitedInVain`): without the exception TLC finds it violated;
- the tail of an overlong line that comes in a later packet is taken for a new line
  (`usb_main.c:987`), and what follows a line end in its packet is dropped (971);
- a packet that comes before the port is opened is dropped, and no receive is armed
  until the device is configured again (`deafened`);
- `USB_DeviceCdcAcmSend` tests `pipeStall` and backs up the reply in two steps; a
  CLEAR_FEATURE between them strands the reply (`usb_device_cdc_acm.c:904`);
- a bus reset between `Claim` and `Prime` leaves a descriptor primed that nobody waits
  for, and the next SET_CONFIGURATION may then meet finding 5;
- a data token that is not hexadecimal ends the data of a line silently: the command
  goes out with what came before and is answered OK (`usb_main.c:723`; at 727
  `has_more_hex_data` is asked only when `data[]` is full, and for hex only);
- a repeated SET_CONFIGURATION(1), or SET_INTERFACE, resets the host's toggles and not
  the device's;
- a SET_CONFIGURATION that the application refuses has already closed the endpoints.

## 5. Proofs

All proofs are checked by TLAPS for every value of the constants, from the named
assumptions only: `MaxPacketSizeAssumption`, `BridgeAssumption`, `CommandAssumption`,
`SendBufAssumption`, `WordAssumption`, `BulkAssumption`, `CaptureAssumption`,
`ControlAssumption` and `RttAssumption`, each evaluated by the runs of its module. A condition within a
theorem, such as `resets = 0`, is a part of the property: the runs show that it holds
in states where the property is at stake, and a finding, where there is one, that the
property fails without it.

### The bridge

- `TypeCorrect`: `Spec => []TypeOK`. `TypeOK` is not inductive: the length of the next
  packet is `transferLength - transferDone`, a natural number only if the controller
  never sends more than the transfer holds. `TypeInv` adds that (`GoodPipe`, preserved
  by every operator of `CdcPipe`: the lemmas at the head of `VcomBridgeProofs`) and `Terminated`,
  without which the parser would have no end to find. That `lineLen` stays a slot of
  the buffer is the memory safety of RecvResponse: bytes join only while `EndsLine` is
  false (lemma `JoiningBytesFit`). `ParserStops` is `Spec => []Terminated`, from the
  same invariant.
- `LayersInAgreement`: `Spec => []LayersAgree`, with resets and halts at any step of the
  main loop. `LayerInv` says that endpoints, device state, `attach` and the class agree
  on what is configured, and that the two pipes only the interrupt works on have all
  their flags in agreement (`InterruptPipe`): the device layer's is the controller's, and
  the class's is held for exactly one of a transfer in the controller or one backed up
  behind a halt. `LayersAgree` leaves out bulk IN, whose flags `main` sets one after
  the other; what holds of those is `NoStuckBusy`.
- `FlagsReleased`, `StaysAwake`, `NotificationsCounted`: `NoStuckBusy`, `NeverDeaf` and
  `NotificationTracked` as long as the host halts nothing, whatever resets come.
  `UnhaltedInv` gives each busy flag its reason: a transfer, or the main loop between
  the flag and the controller (`Handing`); and it says who arms the next receive
  (`Awake`). Halts are excepted because the code needs it: a CLEAR_FEATURE between
  `CheckStall` and `BackupReply` leaves a queued reply that no stall will release, and
  clearing a halt drops a reply (finding 2); a halt of the notification pipe, then a
  reset, leaves `hasSentState` set without a notification.
- `OneTurnAtATime`: without a reset there is one turn at a time, halts included.
  `TurnInv` names the turns by the class's flags, `Hearing`, `Working`, `Talking`, that
  outlast a transfer backed up by a halt, and ties `pc` to the flags of the reply's
  pipe. With a reset the property is false: finding 1. `ReplyBufferKept` is the action
  property `ReplyBufferStable` from the same invariant.
- `RepliesArriveIntact`: without a reset, what the host holds is the replies in order,
  whole but for the last. `ReplyInv` follows one reply from `BuildReply` through
  `size`, `sendSize`, a backed-up length and the controller's counters to the host; an
  empty transfer is the packet that ends a reply which is already whole.
- `CommandsAreTheLines`: what main parses is the next line typed, however the host cuts
  it into packets, for a `TidyHost`: one that opens the port first, writes a line at a
  time and types no line longer than the buffer. What the other hosts meet is listed
  under the findings: the code forgets what follows a line end in its packet, takes the
  tail of an overlong line for a line, and drops what comes before the port is opened.
  `LineInv` counts the lines that have been delivered (`Taken`) and says how much of
  the next has joined `s_lineBuf`.
- `ImplementsChannel`: under the same conditions every step is a step of
  `CommandChannel` or a stutter under the refinement mapping (`Answered` is what the
  host holds whole): a line typed is `Ask`, the packet that completes a reply is
  `Answer`, all else stutters. This is the safety of the refinement; that every line
  is answered is liveness, and TLC's.

### The interpreter

- `CommandTypes`, `BuffersSuffice`: `Spec => []TypeOK` (`data[]` is in bounds) and
  `Spec => []BuffersFit` (`rdata[]` and the send buffer are). `BuffersFit` alone is not
  inductive: the length of a reply is known from what it will list before it is written.
  `SizeInv` adds `Listed` (a scan lists at most one entry per address behind it, a read
  at most `I2C_CMD_MAX_DATA` bytes) and that the read length, PEC byte included, was
  checked before the transfer. `SendBufAssumption` is the inequality between the buffer
  sizes that the code's "400 comfortably covers" asserts; it is used once, at the end.
- `PecComplete`: `Spec => []PecCoversWire`. `PecInv` says, at each step, what is on the
  wire and what the CRC was fed: nothing before the first transfer, the address and the
  data after a write that went through, and after a read the repeated start, address
  and data behind them. A write without STOP may report success at an absent address
  with nothing on the wire; the clause on `Targets` keeps that apart, and the read that
  follows cannot succeed there.
- `LinesGoOutWhole`: `NothingTruncated`, from `DataInv`: a line that was not refused has
  all of its data in `data[]`, and a transfer that succeeds puts all of `data[]` on
  the wire.
- `BusHealed`, `BusGivenBack`: `SelfHeals` and the action property `HeldOnlyByXS`.
  `HealInv` is the reason that recovery by status is enough: a target that holds SDA
  makes every transfer fail with an error of the bus, which is what
  `i2c_recover_if_needed` goes by, and it lets go within nine clocks; and that only an L,
  or an I whose write succeeded, comes to the wait, which `SelfHeals` excepts when it is
  in vain (section 4). `HeldInv` says
  that only a write without STOP that succeeded keeps the bus, so that an X whose read
  is not refused gives it back; XS with a full count is the exception (finding 3).
- `ScanComplete`: `ScanHeals`. `ScanInv` compares what a scan has listed with the
  targets behind it (`PresentBefore`, by cardinality): each fault costs at most the
  target at whose probe it is met, and a wedge from before the scan is owed one.

### The capture

- `TypeCorrect`, which includes that `buf[]` is never exceeded; `CaptureCorrect`:
  `CapturesTheWrite`. `CaptureInv` is in five parts: SRDR holds the last byte that came
  and nothing overwrites it; `buf[]` holds what was read, as far as it goes; a STOP
  belongs to a transfer whose address the loop has seen or sees with it; the first STOP
  polled ends the loop, which has read at most one byte since; and what the reply will
  say. The snapshot `status` and the registers are different states throughout: the
  theorem is that polling a stale copy does no harm.
- `TimeoutCorrect`: `TimeoutIsLate`, wherever in the wrap of the counter the wait
  begins. `LateInv` says that, up to the deadline, the counter is `startTick` and the
  ticks elapsed, once round at most, which needs `CaptureAssumption`: the counter does
  not turn round within a wait.

### The endpoint

- `BulkInProofs!TypeCorrect`. `TypeInv` adds what keeps it: the endpoint's packet size is
  the class's or, when it is closed, 0, so no packet of a continued transfer outgrows
  the descriptor; and the buffer of a transfer is one that was asked for, so only such
  a transfer is reported.
- `StaysInStep`: `InStep`. That the turns agree is not inductive: a token of a transfer
  that was given up would not toggle `bdtOdd`. `StepInv` adds `Steps`, which holds while
  nothing is forgotten: at most one token is pending, and then the endpoint has a
  transfer and no primed descriptor; a primed descriptor is the driver's next and
  belongs to a transfer; main primes only an endpoint without one. Where halts cancel a
  transfer no token is pending, and the descriptor they empty was the next one, so both
  sides stay where they are.
- `SentIsReceived`: `SentMeansReceived`. A descriptor may be taken twice and a packet
  only once, so the invariant must know what the host has: `Sent` says that the packet
  with the controller is the next one of the transfer asked for last, that the host has
  all packets before it (`Until`), and that its toggle tells whether it has this one
  too; that an endpoint which may be sent to has the host's toggle; and, for a transfer
  that main has claimed and not primed, the same of its first packet. Lemma `DueJoins`
  is the step from one packet to the next. Halts, closing and resets may leave part of
  a transfer with the host, of one that is never reported.

### The control pipe

`ControlAssumption` says of the host's requests that wLength is a 16-bit number, that
an address given by SET_ADDRESS is one that there is, and that the data of a class
request fits in one packet (the two that store something have 7 and 2 bytes). `Inductive`
shows the invariant `IInv`, once for every action; the theorems below rest on it.

- `ControlPipeProofs!TypeCorrect`: at most two tokens wait, since the controller
  answers none after a SETUP. `QueueInv` names the queues there are: a packet sent, data
  received, a SETUP, and a SETUP behind a packet that the interrupt has not seen.
- `AlwaysListens`: `Listens`. `TurnInv` gives each direction one of four conditions
  (`Empty`, `Offers`, `Used`, `Halted`), which tie the driver's `bdtOdd` and
  `transferring` to the descriptors and the controller's ODD bit; `HaltInv` says that
  both directions are stalled or neither, and that the STALL interrupt, or a host that
  is owed one, will release them. `OutInv` is what the OUT direction is primed for: a
  SETUP with DATA0, or the data of a request that the handlers have agreed to.
  `InInv` is about the answer: how much of it the host has, by its toggle, and when the
  packet under way will be the last (`Ends`); it needs that the half of
  `setupPacketBuffer` read by the zero-length test is the current request's
  (`usb_device_khci.c:721`).
- `AddressIsTakenAfterStatus`: the action property `AddressAfterStatus`. `AddressInv`
  ties the state Addressing to an answer under way to SET_ADDRESS: either the host still
  waits for it, at the old address, or it has it and has gone over. That the device
  leaves Addressing at a reset, and not otherwise before that answer is seen, is what
  keeps the two apart.
- `LayersAgreeWithHost`: `ViewsAgree`, for a host that `Chooses` a configuration which
  the device has described. Without that the property is false: the device layer and
  the class take any value before the application refuses it (section 4).
  `ConfigurationInv` lets the device be ahead of the host while an agreed
  SET_CONFIGURATION is unanswered (`Done`), `MemoryInv` the settings alike.
- `OpenedAsDescribed`: `EndpointsAsDescribed`, for a host that `Chooses` and that
  `Selects` a setting which there is: any other closes the endpoints of both interfaces
  (`usb_device_cdc_acm.c`, SET_INTERFACE) before the application refuses it. The class's
  tables and the descriptor, written out by hand each, are compared for both speeds;
  `Opens`, that the class has opened both interfaces' endpoints or has no
  configuration, holds at every moment, and `ViewsAgree` carries it over to the host.
- `AnswersAreRight`: `AnswerIsRight`, for a host that `Chooses` (a read of the
  configuration must tell it what it believes). Lemma `ReadTruth` compares each handler
  that answers with `Expected`: a length, a buffer and its contents, or a refusal.
  `UnderWay` says that the transfer is that answer, cut to wLength, and that the packet
  offered begins where the counted ones end (`NextIs`); `Told`, that the host has the
  packets up to some end, all full until the last. `InInv` ties the two by the toggle,
  so that a packet offered again after a lost handshake is not taken twice (`OfferTaken`).

### The log ring

- `RttRingProofs!TypeCorrect`, also when the interrupt logs inside `rtt_write`.
- `StreamKept`: `StreamIntact`, for every ring size and every pace of the probe, when
  calls do not overlap (`~IsrPreempts`; with it the property is false, finding 4).
  `RingInv` says what each statement of `rtt_write` knows: the offset it computed is
  still the next one, and the room it has checked is still there, since the probe only
  makes more. Distances are taken around the ring (`Gap`), in which the probe's
  offsets keep their order: `rd_off`, the cursor, the end it has seen, `wr_off`. The
  bytes from the cursor to `wr_off` are those taken and not yet received.

### Only model-checked

Every invariant and action property that a passing run checks is also the statement of
a theorem, under the hypotheses named above, which the constants of that run satisfy. The
liveness properties (`ListensAgain`, `NoneUnanswered`, `EverythingRead`,
`WaitEnds`, `ClockReleased`, `PipeDrains`, `Answered`) are out of the prover's reach, as
is `ENABLED`, and stay with TLC.

## 6. Not modelled, and why

- GET_STATUS, SYNCH_FRAME, remote wakeup: they keep no state that another part reads.
  SET and CLEAR_FEATURE of an endpoint are in `VcomBridge` and `BulkIn`, not in
  `ControlPipe`.
- A SETUP while the IN packet of the request before it is still primed: what happens
  depends on the controller's manual, which is not part of the repository. The host of
  `ControlPipe` resets the bus instead.
- Bulk OUT and the notification endpoint on descriptors: `Khci` has what they need;
  `BulkIn` stands for the three.
- The digit parsers and the CRC arithmetic: pure functions.
- LED, start-up, `main.c`: hardware set-up without interaction. Suspend, resume and
  error interrupts are compiled out or only acknowledged.
- LPI2C's FIFO polling: `Transfer` keeps its outcomes only. Other masters on the bus
  while the bridge is one; a write-back that begins before the bridge is a slave.

## 7. Plan

Done: the core (`CdcPipe`, `VcomBridge`, `CommandChannel`), the interpreter
(`BridgeCommand`), the log (`RttRing`), the capture (`SlaveCapture`), the endpoints
(`Khci`, `BulkIn`) and the control pipe (`Descriptors`, `ControlPipe`). Left:

1. `LineParser`, `SmbusPec`: pure functions against reference definitions, checked
   by TLC over bounded inputs.
2. `Khci` as a refinement of the controller layer of `CdcPipe`.
