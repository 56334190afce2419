---------------------------- MODULE ControlPipe ----------------------------
(***************************************************************************)
(* Endpoint 0 and the requests that come through it: the KHCI driver's two      *)
(* directions of the pipe (Khci), the controller with its queue of done tokens  *)
(* and its interrupts, the Chapter 9 handlers, the CDC class and the            *)
(* application's callbacks behind them (Descriptors), and a host that           *)
(* enumerates the device, loses handshakes and resets the bus at any moment.   *)
(***************************************************************************)
EXTENDS Descriptors, SequencesExt

CONSTANTS
  WORD,
  MaxPacketSize,     \* USB_CONTROL_MAX_PACKET_SIZE: 64
  Requests,          \* what the host may ask, see Request
  Payloads,          \* what it may store with a request
  Addresses,         \* that it may give the device
  MaxLost            \* bound: handshakes of the host that do not arrive, for each
                     \* request

Buffers == {"NULL", "device", "configuration", "string0", "string1", "string2", "standard",
            "lineCoding", "abstractState", "countryCode", "setupPacketBuffer", "dmaAlignBuffer"}

INSTANCE Khci WITH Buffer <- Buffers, NULL <- "NULL"

Reads ==
  {"GET_DEVICE_DESCRIPTOR", "GET_CONFIGURATION_DESCRIPTOR", "GET_STRING_DESCRIPTOR",
   "GET_CONFIGURATION", "GET_INTERFACE", "GET_LINE_CODING", "GET_COMM_FEATURE"}
Writes ==
  {"SET_ADDRESS", "SET_CONFIGURATION", "SET_INTERFACE", "SET_LINE_CODING", "SET_COMM_FEATURE",
   "SET_CONTROL_LINE_STATE", "SEND_BREAK"}
ClassRequests ==
  {"GET_LINE_CODING", "GET_COMM_FEATURE", "SET_LINE_CODING", "SET_COMM_FEATURE",
   "SET_CONTROL_LINE_STATE", "SEND_BREAK"}

(* A descriptor's type is in the name of its request; value is its index.     *)
Request == [name : Reads \cup Writes \cup {"none"}, value : 0 .. 255, index : Nat, length : Nat]

NoRequest == [name |-> "none", value |-> 0, index |-> 0, length |-> 0]
NoPackets == [i \in 0 .. 1 |-> NoRequest]

SETUP_PACKET_SIZE == 8
ABSTRACT_STATE == 1
COUNTRY_SETTING == 2
LINE_CODING_SIZE == 7
COMM_FEATURE_DATA_SIZE == 2

(* The buffers that are written to, and those that the host writes to.        *)
Settings == {"lineCoding", "abstractState", "countryCode"}
Stored == Settings \cup {"standard", "dmaAlignBuffer"}

ASSUME ControlAssumption ==
  /\ WORD \in Nat \ {0} /\ MaxPacketSize \in Nat /\ MaxPacketSize >= SETUP_PACKET_SIZE
  /\ Requests \subseteq Request /\ Payloads \subseteq Nat /\ Payloads # {}
  /\ Addresses \subseteq 1 .. 127 /\ MaxLost \in Nat
  /\ \A r \in Requests :
       /\ r.name # "none" /\ r.length < WORD
       /\ r.name = "SET_ADDRESS" => r.value \in Addresses
       /\ r.name \in ClassRequests \cap Writes => r.length <= MaxPacketSize

VARIABLES
  ep,                 \* endpointState and the descriptors, by direction
  odd,                \* the controller: the descriptor it uses next
  tokens,             \* done, and waiting for the interrupt
  stallInterrupt,     \* ISTAT: a STALL was sent
  setupPacketBuffer, setupBufferIndex,
  deviceSetup,        \* the class layer's copy of the last request
  device,             \* what the requests change, see Device
  host

driverVars == <<ep, setupBufferIndex, deviceSetup, device>>
controllerVars == <<odd, tokens, stallInterrupt, setupPacketBuffer>>
vars == <<driverVars, controllerVars, host>>

Dir == {"IN", "OUT"}
Token == [dir : Dir, odd : Bit, setup : BOOLEAN]

(* state and deviceAddress are the device layer's, configuration, alternate and *)
(* opened the class's, currentConfiguration the application's, which is attached *)
(* unless it is 0, ADDR a register.                                         *)
Device ==
  [state : {"Default", "Addressing", "Address", "Configured"}, deviceAddress : 0 .. 127,
   ADDR : 0 .. 127, configuration : 0 .. 255, alternate : 0 .. 255,
   opened : SUBSET (CicEndpoints \cup DicEndpoints), currentConfiguration : 0 .. 255,
   memory : [Stored -> Nat]]

Packet == [from : Buffers, off : Nat, len : Nat, data : Nat]

Host ==
  [stage : {"idle", "dataIn", "dataOut", "statusIn", "statusOut"}, request : Request,
   payload : Nat, toggle : Bit, got : Seq(Packet), received : Nat, lost : 0 .. MaxLost,
   address : 0 .. 127, configuration : 0 .. 255, stored : [Settings -> SUBSET Nat]]

TypeOK ==
  /\ ep \in [Dir -> Endpoint] /\ \A dir \in Dir, i \in Bit : ep[dir].bd[i].len <= MaxPacketSize
  /\ odd \in [Dir -> Bit]
  /\ tokens \in Seq(Token) /\ Len(tokens) <= 2 /\ stallInterrupt \in BOOLEAN
  /\ setupPacketBuffer \in [Bit -> Request] /\ setupBufferIndex \in Bit
  /\ deviceSetup \in Request /\ device \in Device /\ host \in Host
------------------------------------------------------------------------------
(* The driver's side of the pipe: operators on ep.                          *)

(* The half of setupPacketBuffer is the one of bdtOdd.                      *)
PrimeNextSetup(e) ==
  LET o == [e["OUT"] EXCEPT !.transferBuffer = "setupPacketBuffer", !.transferDone = 0,
                            !.transferLength = SETUP_PACKET_SIZE, !.data0 = 0]
  IN  [e EXCEPT !["OUT"] = EndpointTransfer(o, 0, SETUP_PACKET_SIZE)]

Send(e, buffer, length) ==
  LET f == [e EXCEPT !["IN"] = Transfer(@, buffer, length)]
  IN  IF f["IN"].transferDone = 0 /\ length = 0 THEN PrimeNextSetup(f) ELSE f

(* What the host stores is never a whole number of words, so it is received in *)
(* dmaAlignBuffer.                                                          *)
Recv(e, buffer, length) ==
  IF length = 0 THEN PrimeNextSetup([e EXCEPT !["OUT"] = Cancel(@)])
  ELSE LET o == Transfer(e["OUT"], buffer, length)
       IN  [e EXCEPT !["OUT"] = [o EXCEPT !.bd[o.bdtOdd].from = "dmaAlignBuffer"]]

(* Endpoint 0 is stalled in both directions, and so released.               *)
StallEndpoint(e) == [dir \in Dir |-> EndpointStall(e[dir])]
Stalled(e) == \E dir \in Dir, i \in Bit : e[dir].bd[i].stall

(* Mutant of UnstallEndpoint: nothing is primed for the next request.         *)
UnstallEndpointDeaf(e) == [dir \in Dir |-> EndpointUnstall(e[dir])]

UnstallEndpoint(e) == PrimeNextSetup([dir \in Dir |-> EndpointUnstall(e[dir])])

ControlPipeInit(e) == PrimeNextSetup([dir \in Dir |-> EndpointInit(e[dir], MaxPacketSize)])

DeviceReset(d) ==
  [d EXCEPT !.state = "Default", !.deviceAddress = 0, !.ADDR = 0, !.configuration = 0,
            !.opened = {}, !.currentConfiguration = 0, !.memory["dmaAlignBuffer"] = 0]

Init ==
  /\ ep = ControlPipeInit([dir \in Dir |-> NewEndpoint])
  /\ odd = [dir \in Dir |-> 0] /\ tokens = << >> /\ stallInterrupt = FALSE
  /\ setupPacketBuffer = NoPackets /\ setupBufferIndex = 0
  /\ deviceSetup = NoRequest
  /\ device = DeviceReset([state |-> "Default", deviceAddress |-> 0, ADDR |-> 0, configuration |-> 0,
                           alternate |-> 255, opened |-> {}, currentConfiguration |-> 0,
                           memory |-> [b \in Stored |-> 0]])
  /\ host = [stage |-> "idle", request |-> NoRequest, payload |-> 0, toggle |-> 0, got |-> << >>, received |-> 0,
             lost |-> 0, address |-> 0, configuration |-> 0, stored |-> [b \in Settings |-> {0}]]
------------------------------------------------------------------------------
(* The requests: the device after, and what is answered.                    *)

Outcome(d, answer) == [device |-> d, answer |-> answer]
Refused(d) == Outcome(d, InvalidRequest)
Accepted(d) == Outcome(d, Found("NULL", 0))
State(d, s) == [d EXCEPT !.state = s]

(* The low byte of standardTranscationBuffer, the only one that is answered.  *)
Standard(d, value) == [d EXCEPT !.memory["standard"] = value]

(* USB_DeviceCallback. Both interfaces have but the alternate setting 0.    *)
DeviceCallback(d, r) ==
  CASE r.name = "SET_CONFIGURATION" ->
         IF r.value \in {0, CONFIGURE_INDEX} THEN Accepted([d EXCEPT !.currentConfiguration = r.value])
         ELSE Refused(d)
    [] r.name = "SET_INTERFACE" ->
         IF d.currentConfiguration # 0 /\ r.index \in {COMM_INTERFACE, DATA_INTERFACE} /\ r.value = 0
           THEN Accepted(d)
         ELSE Refused(d)
    [] r.name = "GET_CONFIGURATION" ->
         Outcome(Standard(d, d.currentConfiguration), Found("standard", 1))
    [] r.name = "GET_INTERFACE" ->
         IF r.index \in {COMM_INTERFACE, DATA_INTERFACE} THEN Outcome(d, Found("standard", 1))
         ELSE Refused(d)
    [] r.name = "GET_DEVICE_DESCRIPTOR" -> Outcome(d, GetDeviceDescriptor)
    [] r.name = "GET_CONFIGURATION_DESCRIPTOR" -> Outcome(d, GetConfigurationDescriptor(r.value))
    [] r.name = "GET_STRING_DESCRIPTOR" -> Outcome(d, GetStringDescriptor(r.value, r.index))

GetDescriptor(d, r) ==
  IF \/ d.state = "Addressing"
     \/ r.name = "GET_DEVICE_DESCRIPTOR" /\ r.value # 0
     \/ r.name # "GET_STRING_DESCRIPTOR" /\ r.index # 0
    THEN Refused(d)
  ELSE DeviceCallback(d, r)

GetConfiguration(d, r) ==
  IF d.state \in {"Address", "Configured"} /\ r.value = 0 /\ r.index = 0 /\ r.length = 1
    THEN DeviceCallback(d, r)
  ELSE Refused(d)

GetInterface(d, r) ==
  IF d.state = "Configured" /\ r.value = 0 /\ r.length = 1
    THEN DeviceCallback(Standard(d, 0), r)
  ELSE Refused(d)

(* Mutant of EndpointsInit: the notification endpoint is not opened.          *)
EndpointsInitBulkOnly(d) ==
  [d EXCEPT !.opened =
     IF d.configuration \in 1 .. CONFIGURATION_COUNT
       THEN UNION {i.endpoints : i \in {j \in InterfaceList : j.class = "DATA"}} ELSE {}]

(* Without the communication interface's setting nothing is opened.         *)
EndpointsInit(d) ==
  LET set == {i \in InterfaceList : i.alternate = d.alternate}
  IN  [d EXCEPT !.opened =
         IF d.configuration \in 1 .. CONFIGURATION_COUNT /\ \E i \in set : i.class = "COMM"
           THEN UNION {i.endpoints : i \in set} ELSE {}]

ClassSetConfiguration(d, value) ==
  IF d.configuration = value THEN d
  ELSE EndpointsInit([d EXCEPT !.configuration = value, !.alternate = 0])

ClassSetInterface(d, interface, alternate) ==
  IF interface = COMM_INTERFACE /\ d.alternate # alternate
    THEN EndpointsInit([d EXCEPT !.alternate = alternate])
  ELSE d

(* The class and the device layer have taken the value when the application is  *)
(* asked.                                                                   *)
SetConfiguration(d, r) ==
  IF d.state \in {"Address", "Configured"} /\ r.index = 0 /\ r.length = 0
    THEN LET state == IF r.value = 0 THEN "Address" ELSE "Configured"
         IN  DeviceCallback(ClassSetConfiguration(State(d, state), r.value), r)
  ELSE Refused(d)

SetInterface(d, r) ==
  IF d.state = "Configured" /\ r.length = 0
    THEN DeviceCallback(ClassSetInterface(Standard(d, r.value), r.index, r.value), r)
  ELSE Refused(d)

(* Mutant of SetAddress: the controller is told at once.                     *)
SetAddressAtOnce(d, r) ==
  IF r.index # 0 \/ r.length # 0 THEN Refused(d)
  ELSE IF d.state = "Addressing" THEN Accepted(State(d, "Address"))
  ELSE Accepted([State(d, "Addressing") EXCEPT !.deviceAddress = r.value, !.ADDR = r.value])

(* In its status stage the request is handled once more.                    *)
SetAddress(d, r) ==
  IF r.index # 0 \/ r.length # 0 THEN Refused(d)
  ELSE IF d.state = "Addressing" THEN Accepted([State(d, "Address") EXCEPT !.ADDR = d.deviceAddress])
  ELSE Accepted([State(d, "Addressing") EXCEPT !.deviceAddress = r.value])

(* USB_DeviceCdcVcomCallback.                                               *)
CommFeature(r) ==
  CASE r.value = ABSTRACT_STATE  -> Found("abstractState", COMM_FEATURE_DATA_SIZE)
    [] r.value = COUNTRY_SETTING -> Found("countryCode", COMM_FEATURE_DATA_SIZE)
    [] OTHER -> InvalidRequest

CdcVcomCallback(r) ==
  CASE r.name \in {"GET_LINE_CODING", "SET_LINE_CODING"} -> Found("lineCoding", LINE_CODING_SIZE)
    [] r.name \in {"GET_COMM_FEATURE", "SET_COMM_FEATURE"} -> CommFeature(r)
    [] r.name = "SET_CONTROL_LINE_STATE" -> Found("NULL", r.length)
    [] OTHER -> InvalidRequest

(* Another interface's requests are left as they came, without a buffer.      *)
ClassRequest(r) ==
  IF r.index # COMM_INTERFACE THEN [error |-> "Error", buffer |-> "NULL", length |-> r.length]
  ELSE IF r.name \in {"SET_CONTROL_LINE_STATE", "SEND_BREAK"} <=> r.length # 0 THEN InvalidRequest
  ELSE CdcVcomCallback(r)

Handle(d, r) ==
  CASE r.name \in ClassRequests -> Outcome(d, ClassRequest(r))
    [] r.name = "SET_ADDRESS" -> SetAddress(d, r)
    [] r.name = "SET_CONFIGURATION" -> SetConfiguration(d, r)
    [] r.name = "SET_INTERFACE" -> SetInterface(d, r)
    [] r.name = "GET_CONFIGURATION" -> GetConfiguration(d, r)
    [] r.name = "GET_INTERFACE" -> GetInterface(d, r)
    [] OTHER -> GetDescriptor(d, r)
------------------------------------------------------------------------------
(* USB_DeviceControlCallback: ep after the request has been handled.        *)

(* Mutant of Feedback: the answer is not cut to what was asked.              *)
FeedbackUncut(e, r, answer) ==
  IF answer.error = "InvalidRequest" THEN StallEndpoint(e)
  ELSE LET f == Send(e, answer.buffer, answer.length)
       IN  IF r.name \in Reads THEN Recv(f, "NULL", 0) ELSE f

Feedback(e, r, answer) ==
  IF answer.error = "InvalidRequest" THEN StallEndpoint(e)
  ELSE LET f == IF answer.error = "Success"
                  THEN Send(e, answer.buffer, Least(answer.length, r.length))
                ELSE Send(e, "NULL", 0)
       IN  IF r.name \in Reads THEN Recv(f, "NULL", 0) ELSE f

Receives(r) == r.name \in ClassRequests \cap Writes /\ r.length # 0

SetupStage(e, r, answer) ==
  IF ~Receives(r)
    THEN Feedback(e, r, IF answer.length # 0 /\ answer.buffer = "NULL" THEN InvalidRequest ELSE answer)
  ELSE IF answer.error = "Success" THEN Recv(e, answer.buffer, Least(answer.length, r.length))
  ELSE StallEndpoint(e)
------------------------------------------------------------------------------
(* USB_DeviceKhciInterruptTokenDone, the oldest token.                      *)

Counted(e, dir, len) == [e EXCEPT ![dir] = TokenCounted(@, len)]

(* Mutant of EndsShort: a full packet is left to end the answer.             *)
EndsShortNever(e, len) == FALSE

(* A full last packet that the host could take for an earlier one is followed by *)
(* an empty one.                                                            *)
EndsShort(e, len) ==
  len # 0 /\ len % e.maxPacketSize = 0
    /\ setupPacketBuffer[setupBufferIndex].length > e.transferLength

InDone ==
  LET len == ep["IN"].bd[Head(tokens).odd].len
      e   == Counted(ep, "IN", len)
      i   == e["IN"]
  IN  IF ~TransferComplete(i, len)
        THEN ep' = Send(e, i.transferBuffer, Remaining(i)) /\ UNCHANGED device
      ELSE IF EndsShort(i, len)
        THEN ep' = [e EXCEPT !["IN"] = EndpointTransfer(@, i.transferDone, 0)] /\ UNCHANGED device
      ELSE /\ ep' = [e EXCEPT !["IN"] = Cancel(@)]
           /\ device' = IF device.state = "Addressing" /\ deviceSetup.name = "SET_ADDRESS"
                          THEN SetAddress(device, deviceSetup).device ELSE device

(* The data stages of both directions begin with DATA1.                     *)
SetupCounted(e) ==
  [e EXCEPT !["OUT"] = Cancel([TokenCounted(@, SETUP_PACKET_SIZE) EXCEPT !.data0 = 1]), !["IN"].data0 = 1]

(* The other half of setupPacketBuffer is written before it is read again: what   *)
(* is in it is forgotten.                                                   *)
SetupDone ==
  \E r \in {setupPacketBuffer[Head(tokens).odd]} :
    \E outcome \in {Handle(device, r)}, e \in {SetupCounted(ep)} :
      /\ setupBufferIndex' = Head(tokens).odd
      /\ setupPacketBuffer' = [setupPacketBuffer EXCEPT ![Flip(Head(tokens).odd)] = NoRequest]
      /\ deviceSetup' = r
      /\ device' = outcome.device
      /\ ep' = SetupStage(e, r, outcome.answer)

(* The data of a request, which its handler has only to agree to.           *)
OutDone ==
  LET len == ep["OUT"].bd[Head(tokens).odd].len
      e   == [Counted(ep, "OUT", len) EXCEPT !["OUT"] = Cancel(@)]
  IN  IF len = 0 THEN UNCHANGED <<ep, device>>
      ELSE /\ device' = [device EXCEPT !.memory[ep["OUT"].transferBuffer] = device.memory["dmaAlignBuffer"],
                                  !.memory["dmaAlignBuffer"] = 0]
           /\ ep' = Feedback(e, deviceSetup, Found("NULL", 0))

TokenDone ==
  /\ tokens # << >> /\ tokens' = Tail(tokens)
  /\ IF ~ep[Head(tokens).dir].transferring
       THEN UNCHANGED <<driverVars, setupPacketBuffer>>
     ELSE IF Head(tokens).setup THEN SetupDone
     ELSE /\ IF Head(tokens).dir = "IN" THEN InDone ELSE OutDone
          /\ UNCHANGED <<setupPacketBuffer, setupBufferIndex, deviceSetup>>
  /\ UNCHANGED <<odd, stallInterrupt, host>>

InterruptStall ==
  /\ stallInterrupt /\ stallInterrupt' = FALSE
  /\ ep' = IF Stalled(ep) THEN UnstallEndpoint(ep) ELSE ep
  /\ UNCHANGED <<setupBufferIndex, deviceSetup, device, odd, tokens, setupPacketBuffer, host>>
------------------------------------------------------------------------------
(* The host and the controller. A token reaches the device at the address that  *)
(* ADDR holds, and finds a descriptor that the driver has given away. After a   *)
(* SETUP the controller answers no other until the driver has handled it.     *)

Answers(dir) ==
  /\ device.ADDR = host.address
  /\ \A i \in DOMAIN tokens : ~tokens[i].setup
  /\ ep[dir].bd[odd[dir]].own

(* The controller gives the descriptor back with the number of bytes, which is all *)
(* that is read of it then.                                                 *)
Consumed(dir, setup, len) ==
  /\ tokens' = Append(tokens, [dir |-> dir, odd |-> odd[dir], setup |-> setup])
  /\ ep' = [ep EXCEPT ![dir].bd[odd[dir]] = [NoDescriptor EXCEPT !.len = len]]
  /\ odd' = [odd EXCEPT ![dir] = Flip(@)]

(* The next request, which may come in place of the status stage of a read. A     *)
(* host that gives up a request earlier than that, or whose last handshake was lost, *)
(* resets the bus.                                                          *)
Setup ==
  /\ Answers("OUT") /\ ~ep["OUT"].bd[odd["OUT"]].stall
  /\ host.stage \in {"idle", "statusOut"} /\ ~Primed(ep["IN"])
  /\ \E r \in Requests, p \in Payloads :
       /\ r.name = "SET_ADDRESS" => host.configuration = 0 /\ r.value # host.address
       /\ p # Min(Payloads) => Receives(r)
       /\ Consumed("OUT", TRUE, SETUP_PACKET_SIZE)
       /\ setupPacketBuffer' = [setupPacketBuffer EXCEPT ![odd["OUT"]] = r]
       /\ host' = [host EXCEPT !.request = r, !.payload = p, !.toggle = 1, !.got = << >>, !.received = 0,
                               !.stage = IF r.length = 0 THEN "statusIn"
                                         ELSE IF r.name \in Reads THEN "dataIn" ELSE "dataOut"]
  /\ UNCHANGED <<setupBufferIndex, deviceSetup, device, stallInterrupt>>

Idle(h) == [h EXCEPT !.stage = "idle", !.request = NoRequest, !.payload = 0, !.toggle = 0, !.got = << >>,
                     !.received = 0, !.lost = 0]

(* The setting that a request with data stores, if any.                     *)
Sets(r) ==
  CASE r.length # 0 /\ r.name = "SET_LINE_CODING" -> {"lineCoding"}
    [] r.length # 0 /\ r.name = "SET_COMM_FEATURE" ->
         {IF r.value = ABSTRACT_STATE THEN "abstractState" ELSE "countryCode"}
    [] OTHER -> {}

(* What the host believes of the device after a request, and after one that a    *)
(* reset broke off.                                                         *)
Finished(h) ==
  LET r == h.request
  IN  [Idle(h) EXCEPT
         !.address = IF r.name = "SET_ADDRESS" THEN r.value ELSE @,
         !.configuration = IF r.name = "SET_CONFIGURATION" THEN r.value ELSE @,
         !.stored = [b \in Settings |-> IF b \in Sets(r) THEN {h.payload} ELSE @[b]]]

BrokenOff(h) ==
  [Idle(h) EXCEPT
     !.address = 0, !.configuration = 0,
     !.stored = [b \in Settings |-> IF b \in Sets(h.request) THEN @[b] \cup {h.payload} ELSE @[b]]]

(* A packet with another toggle is taken for a repetition. The answer ends with   *)
(* all bytes asked for, or with a short packet.                              *)
Accepts(h) ==
  LET d   == ep["IN"].bd[odd["IN"]]
      got == Append(h.got, [from |-> d.from, off |-> d.off, len |-> d.len,
                            data |-> IF d.from \in Stored /\ d.len # 0 THEN device.memory[d.from] ELSE 0])
      received == h.received + d.len
      last == d.len < MaxPacketSize \/ received >= h.request.length
  IN  IF d.data01 # h.toggle THEN h
      ELSE IF h.stage = "statusIn" THEN Finished(h)
      ELSE [h EXCEPT !.got = got, !.received = received, !.toggle = Flip(@),
                     !.stage = IF last THEN "statusOut" ELSE @]

Offered == Answers("IN") /\ ~ep["IN"].bd[odd["IN"]].stall /\ host.stage \in {"dataIn", "statusIn"}

InToken ==
  /\ Offered
  /\ Consumed("IN", FALSE, ep["IN"].bd[odd["IN"]].len)
  /\ host' = Accepts(host)
  /\ UNCHANGED <<setupPacketBuffer, stallInterrupt, setupBufferIndex, deviceSetup, device>>

(* The handshake is lost: the controller keeps the packet for the next token. *)
InTokenUnacknowledged ==
  /\ Offered /\ host.lost < MaxLost
  /\ host' = Accepts([host EXCEPT !.lost = @ + 1])
  /\ UNCHANGED <<driverVars, controllerVars>>

(* The data of the request; if the handshake is lost it is sent again. With the *)
(* wrong toggle it is acknowledged and dropped.                             *)
OutToken ==
  LET d == ep["OUT"].bd[odd["OUT"]]
  IN  /\ Answers("OUT") /\ ~d.stall /\ host.stage = "dataOut"
      /\ IF d.data01 = host.toggle
           THEN /\ Consumed("OUT", FALSE, host.request.length)
                /\ device' = [device EXCEPT !.memory["dmaAlignBuffer"] = host.payload]
           ELSE UNCHANGED <<ep, odd, tokens, device>>
      /\ \/ host' = [host EXCEPT !.stage = "statusIn"]
         \/ host.lost < MaxLost /\ host' = [host EXCEPT !.lost = @ + 1]
      /\ UNCHANGED <<setupPacketBuffer, stallInterrupt, setupBufferIndex, deviceSetup>>

(* The empty packet with DATA1 that ends a read: the descriptor for the next   *)
(* request is primed with DATA0, so it is acknowledged and dropped.         *)
StatusOut ==
  LET d == ep["OUT"].bd[odd["OUT"]]
  IN  /\ Answers("OUT") /\ ~d.stall /\ host.stage = "statusOut"
      /\ IF d.data01 = 1 THEN Consumed("OUT", FALSE, 0) ELSE UNCHANGED <<ep, odd, tokens>>
      /\ host' = Finished(host)
      /\ UNCHANGED <<setupPacketBuffer, stallInterrupt, setupBufferIndex, deviceSetup, device>>

Waiting == host.stage \in {"dataIn", "dataOut", "statusIn"}

StallAnswer ==
  LET dir == IF host.stage = "dataOut" THEN "OUT" ELSE "IN"
  IN  /\ Waiting /\ Answers(dir) /\ ep[dir].bd[odd[dir]].stall
      /\ stallInterrupt' = TRUE
      /\ host' = Idle(host)
      /\ UNCHANGED <<driverVars, odd, tokens, setupPacketBuffer>>

(* Mutant of BusReset: the application keeps its configuration.              *)
BusResetKeepsAttach ==
  /\ ep' = ControlPipeInit([dir \in Dir |-> SetDefaultState(ep[dir])])
  /\ odd' = [dir \in Dir |-> 0] /\ tokens' = << >> /\ stallInterrupt' = FALSE
  /\ device' = [DeviceReset(device) EXCEPT !.currentConfiguration = device.currentConfiguration]
  /\ host' = BrokenOff(host)
  /\ setupPacketBuffer' = NoPackets /\ deviceSetup' = NoRequest
  /\ UNCHANGED setupBufferIndex

(* The requests in memory, which are not read before there is a next one, are    *)
(* forgotten.                                                               *)
BusReset ==
  /\ ep' = ControlPipeInit([dir \in Dir |-> SetDefaultState(ep[dir])])
  /\ odd' = [dir \in Dir |-> 0] /\ tokens' = << >> /\ stallInterrupt' = FALSE
  /\ device' = DeviceReset(device)
  /\ host' = BrokenOff(host)
  /\ setupPacketBuffer' = NoPackets /\ deviceSetup' = NoRequest
  /\ UNCHANGED setupBufferIndex
------------------------------------------------------------------------------
Interrupts == TokenDone \/ InterruptStall
Transaction == InToken \/ OutToken \/ StatusOut \/ StallAnswer
Next == Interrupts \/ Transaction \/ InTokenUnacknowledged \/ Setup \/ BusReset

(* An interrupt is taken, or a host that has begun a request goes on with it.    *)
Fairness == WF_vars(Interrupts \/ Transaction)

Spec == Init /\ [][Next]_vars /\ Fairness
------------------------------------------------------------------------------
(* Properties.                                                              *)

(* Between requests the pipe listens: the controller's next descriptor is the one *)
(* that the driver has primed for a SETUP. If not, the device is deaf until the   *)
(* bus is reset.                                                            *)
Listens ==
  host.stage = "idle" /\ tokens = << >> /\ ~stallInterrupt =>
    LET o == ep["OUT"]
    IN  /\ o.bdtOdd = odd["OUT"] /\ o.bd[odd["OUT"]].own /\ ~o.bd[odd["OUT"]].stall
        /\ o.transferring /\ o.transferBuffer = "setupPacketBuffer"

(* What a host that asks r of the device as it believes it to be must be told.    *)
Expected(h) ==
  LET r == h.request
  IN  CASE r.name = "GET_DEVICE_DESCRIPTOR" -> [from |-> "device", length |-> 18, data |-> {0}]
        [] r.name = "GET_CONFIGURATION_DESCRIPTOR" ->
             [from |-> "configuration", length |-> ConfigurationDescriptor[1].totalLength, data |-> {0}]
        [] r.name = "GET_STRING_DESCRIPTOR" ->
             [from |-> <<"string0", "string1", "string2">>[r.value + 1],
              length |-> <<4, 38, 42>>[r.value + 1], data |-> {0}]
        [] r.name = "GET_CONFIGURATION" -> [from |-> "standard", length |-> 1, data |-> {h.configuration}]
        [] r.name = "GET_INTERFACE" -> [from |-> "standard", length |-> 1, data |-> {0}]
        [] r.name = "GET_LINE_CODING" ->
             [from |-> "lineCoding", length |-> 7, data |-> h.stored["lineCoding"]]
        [] r.name = "GET_COMM_FEATURE" ->
             LET b == IF r.value = ABSTRACT_STATE THEN "abstractState" ELSE "countryCode"
             IN  [from |-> b, length |-> 2, data |-> h.stored[b]]

(* The packets are of one buffer, full but for the last, each begins where the     *)
(* one before it ends, and they are as many bytes as there are or were asked for. *)
AnswerIsRight ==
  host.stage = "statusOut" =>
    LET want == Expected(host)
        got  == host.got
        last == got[Len(got)]
    IN  /\ got # << >> /\ got[1].off = 0
        /\ last.off + last.len = Least(want.length, host.request.length)
        /\ \A i \in 1 .. Len(got) - 1 :
             got[i].len = MaxPacketSize /\ got[i + 1].off = got[i].off + got[i].len
        /\ \A i \in DOMAIN got : got[i].len # 0 => got[i].from = want.from /\ got[i].data \in want.data

(* Nothing of an earlier request is under way.                              *)
Settled ==
  /\ host.stage = "idle" /\ tokens = << >> /\ ~stallInterrupt
  /\ ~Primed(ep["IN"])

(* The device layer, the class, the application and the register, each of which   *)
(* keeps its own note of the address and the configuration, say what the host     *)
(* believes once a request is over; so does what the host has stored.         *)
ViewsAgree ==
  Settled =>
    /\ device.ADDR = host.address /\ device.deviceAddress = host.address
    /\ device.state = IF host.address = 0 THEN "Default"
                      ELSE IF host.configuration = 0 THEN "Address" ELSE "Configured"
    /\ device.configuration = host.configuration
    /\ device.currentConfiguration = host.configuration
    /\ \A b \in Settings : device.memory[b] \in host.stored[b]

(* The address changes only after the status stage of SET_ADDRESS, which the      *)
(* device still has to answer at the old one; then it is the one that the host has *)
(* gone over to.                                                            *)
AddressAfterStatus ==
  [][device'.ADDR # device.ADDR => device'.ADDR = host'.address]_vars

(* The endpoints that the class opens are the ones that the host read about, in   *)
(* a well-formed descriptor; at either speed.                               *)
DescriptorsAgree ==
  /\ WellFormed(ConfigurationDescriptor)
  /\ \A speed \in Speeds : Described(SetSpeedDescriptor(speed)) = SetSpeedEndpoints(speed)

EndpointsAsDescribed ==
  /\ DescriptorsAgree
  /\ device.opened \in {{}, Described(ConfigurationDescriptor)}
  /\ Settled => (device.opened # {} <=> host.configuration # 0)

(* A request is answered, or refused: the host does not wait for ever.         *)
Answered == Waiting ~> ~Waiting
==============================================================================
