-------------------------- MODULE ControlPipeProofs --------------------------
(***************************************************************************)
(* Theorems about ControlPipe: its types, that between requests the device      *)
(* listens, that the address changes only with the status stage, that the       *)
(* layers agree with the host, that the endpoints are opened as described, and   *)
(* that the host is answered what it must be told, for every set of requests a   *)
(* host may make, every packet size and number of lost handshakes.             *)
(***************************************************************************)
EXTENDS ControlPipe, SequenceTheorems, FiniteSetTheorems, TLAPS

(* The endpoints of the pipe, whose descriptors have no more than a packet.   *)
GoodEp ==
  {e \in Endpoint : e.maxPacketSize = MaxPacketSize /\ \A i \in Bit : e.bd[i].len <= MaxPacketSize}

(* A direction, when the controller's next descriptor is k: it has nothing and   *)
(* nothing is under way, it holds a packet or the room for one, it has used that *)
(* and the driver has not looked yet, it answers with STALL.                   *)
Free(e) == \A i \in Bit : ~e.bd[i].own
Empty(e, k) == ~e.transferring /\ e.bdtOdd = k /\ Free(e)
Offers(e, k) ==
  e.transferring /\ e.bdtOdd = k /\ e.bd[k].own /\ ~e.bd[k].stall /\ ~e.bd[Flip(k)].own
Used(e, k) == e.transferring /\ e.bdtOdd = Flip(k) /\ Free(e)
Halted(e, k) ==
  ~e.transferring /\ e.bdtOdd = k /\ e.bd[k].own /\ e.bd[k].stall /\ ~e.bd[Flip(k)].own

I == ep["IN"]
O == ep["OUT"]
InOdd == odd["IN"]
OutOdd == odd["OUT"]

(* The queue: a packet sent, data received, a SETUP; the last may come before   *)
(* the first has been seen.                                                  *)
Tok(dir, setup) == [dir |-> dir, odd |-> Flip(odd[dir]), setup |-> setup]
SentTok == Tok("IN", FALSE)
DataTok == Tok("OUT", FALSE)
SetupTok == Tok("OUT", TRUE)
InPending == tokens \in {<<SentTok>>, <<SentTok, SetupTok>>}
DataPending == tokens = <<DataTok>>
SetupPending == tokens \in {<<SetupTok>>, <<SentTok, SetupTok>>}

QueueInv == tokens = << >> \/ InPending \/ DataPending \/ SetupPending

TurnInv ==
  /\ IF InPending THEN Used(I, InOdd) ELSE Empty(I, InOdd) \/ Offers(I, InOdd) \/ Halted(I, InOdd)
  /\ IF DataPending \/ SetupPending THEN Used(O, OutOdd) ELSE Offers(O, OutOdd) \/ Halted(O, OutOdd)

HaltInv ==
  /\ Halted(I, InOdd) <=> Halted(O, OutOdd)
  /\ Halted(O, OutOdd) => (tokens = << >> /\ (stallInterrupt \/ Waiting))
  /\ stallInterrupt => Halted(O, OutOdd)

Stage(r) == IF r.length = 0 THEN "statusIn" ELSE IF r.name \in Reads THEN "dataIn" ELSE "dataOut"

SetupInv ==
  /\ {host.request, deviceSetup} \subseteq Requests \cup {NoRequest}
  /\ host.stage \in {"dataIn", "statusOut"} => host.request.name \in Reads
  /\ SetupPending =>
       /\ setupPacketBuffer[Flip(OutOdd)] = host.request /\ host.request \in Requests
       /\ host.stage = Stage(host.request) /\ host.toggle = 1 /\ host.received = 0 /\ host.got = << >>

(* The room for the data of a request that has been agreed to.               *)
DataPhase ==
  /\ Empty(I, InOdd) /\ I.data0 = 1 /\ host.toggle = 1
  /\ deviceSetup = host.request /\ Receives(host.request) /\ Sets(host.request) = {O.transferBuffer}

OutInv ==
  /\ host.stage = "dataOut" => host.toggle = 1
  /\ DataPending =>
       /\ DataPhase /\ host.stage \in {"dataOut", "statusIn"}
       /\ O.bd[Flip(OutOdd)].len = host.request.length
       /\ device.memory["dmaAlignBuffer"] = host.payload
  /\ Offers(O, OutOdd) =>
       IF O.bd[OutOdd].data01 = 0 THEN O.transferBuffer = "setupPacketBuffer"
       ELSE DataPhase /\ host.stage = "dataOut"

(* The packet under way, of what is left of the answer, and whether it ends an  *)
(* answer of n bytes.                                                        *)
Chunk == Least(I.transferLength - I.transferDone, MaxPacketSize)
Ends(n) == Chunk < MaxPacketSize \/ I.transferDone + Chunk >= n

Progress ==
  /\ host.stage \in {"statusIn", "dataOut"} =>
       ~InPending /\ I.data0 = 1 /\ I.transferLength = 0
  /\ host.stage = "dataIn" =>
       /\ deviceSetup = host.request
       /\ \/ ~InPending /\ host.toggle = I.data0 /\ host.received = I.transferDone
          \/ ~Ends(host.request.length) /\ host.toggle = Flip(I.data0) /\ host.received = I.transferDone + Chunk

InInv ==
  /\ host.stage = "statusIn" => host.toggle = 1
  /\ I.transferring =>
       /\ I.transferDone <= I.transferLength /\ I.transferLength <= deviceSetup.length
       /\ I.bd[I.bdtOdd].len = Chunk
       /\ ~InPending => I.bd[I.bdtOdd].data01 = I.data0
       /\ deviceSetup \in Requests
       /\ I.transferLength # 0 =>
            /\ setupPacketBuffer[setupBufferIndex] = deviceSetup
            /\ setupBufferIndex = IF SetupPending THEN OutOdd ELSE Flip(OutOdd)
       /\ (SetupPending \/ host.stage \in {"idle", "statusOut"}) => Ends(deviceSetup.length)
       /\ SetupPending => InPending
       /\ ~SetupPending => Progress

(* The device has agreed to the request of that name, and says so.          *)
Done(name) == host.request.name = name /\ I.transferring /\ ~SetupPending

AddressInv ==
  IF device.state = "Addressing"
    THEN /\ deviceSetup.name = "SET_ADDRESS" /\ device.deviceAddress = deviceSetup.value
         /\ deviceSetup.index = 0 /\ deviceSetup.length = 0
         /\ deviceSetup.value # device.ADDR
         /\ ~SetupPending /\ I.transferring
         /\ \/ host.stage = "statusIn" /\ host.request = deviceSetup /\ device.ADDR = host.address
            \/ host.stage = "idle" /\ host.address = deviceSetup.value
  ELSE /\ ~Done("SET_ADDRESS")
       /\ device.deviceAddress = device.ADDR /\ device.ADDR = host.address
       /\ (SetupPending /\ host.request.name = "SET_ADDRESS") => host.request.value # device.ADDR

PipeInv == QueueInv /\ TurnInv /\ HaltInv /\ SetupInv /\ OutInv /\ InInv

ConfigurationInv ==
  /\ device.configuration = (IF Done("SET_CONFIGURATION") THEN host.request.value ELSE host.configuration)
  /\ device.currentConfiguration = device.configuration
  /\ host.stage = "idle" => host.request.name = "none"
  /\ IF device.state = "Addressing" THEN device.configuration = 0
     ELSE device.state = IF device.ADDR = 0 THEN "Default"
                         ELSE IF device.configuration = 0 THEN "Address" ELSE "Configured"
  /\ device.ADDR = 0 => device.configuration = 0
  /\ (SetupPending /\ host.request.name = "SET_ADDRESS") => host.configuration = 0

MemoryInv ==
  \A b \in Settings :
     device.memory[b] \in IF b \in Sets(host.request) /\ I.transferring /\ ~SetupPending THEN {host.payload}
                           ELSE host.stored[b]
------------------------------------------------------------------------------
(* What the operators of Khci do.                                           *)

LEMMA Constants ==
  /\ WORD \in Nat \ {0} /\ MaxPacketSize \in Nat \ {0} /\ 8 <= MaxPacketSize
  /\ Requests \subseteq Request /\ Payloads \subseteq Nat /\ "NULL" \in Buffers
  /\ \A r \in Requests : r.name # "none" /\ r.length < WORD
BY ControlAssumption DEF SETUP_PACKET_SIZE, Buffers

LEMMA Flipping ==
  ASSUME NEW i \in Bit
  PROVE  Flip(i) \in Bit /\ Flip(i) # i /\ Flip(Flip(i)) = i /\ Bit \ {i} = {Flip(i)}
BY DEF Bit, Flip

LEMMA Words ==
  ASSUME NEW n \in Int
  PROVE  n % WORD \in Nat /\ (0 <= n /\ n < WORD => n % WORD = n)
BY Constants

(* e is f but for the descriptors, whether a transfer is under way, and what is  *)
(* said of it.                                                              *)
Same(e, f) ==
  /\ e.maxPacketSize = f.maxPacketSize /\ e.data0 = f.data0 /\ e.bdtOdd = f.bdtOdd
  /\ e.transferBuffer = f.transferBuffer /\ e.transferLength = f.transferLength
  /\ e.transferDone = f.transferDone

(* e with the descriptor d.                                                 *)
With(e, k, d) == [e EXCEPT !.bd[k] = d]

LEMMA EpDescriptors ==
  ASSUME NEW e \in GoodEp, NEW b \in [Bit -> Descriptor], \A i \in Bit : b[i].len <= MaxPacketSize
  PROVE  LET f == [e EXCEPT !.bd = b]
         IN  f \in GoodEp /\ f.bd = b /\ Same(f, e) /\ f.transferring = e.transferring
BY DEF GoodEp, Endpoint, Same

LEMMA EpDescriptor ==
  ASSUME NEW e \in GoodEp, NEW k \in Bit, NEW d \in Descriptor, d.len <= MaxPacketSize
  PROVE  LET f == With(e, k, d)
         IN  /\ f \in GoodEp /\ Same(f, e) /\ f.transferring = e.transferring
             /\ f.bd[k] = d /\ f.bd[Flip(k)] = e.bd[Flip(k)]
<1> DEFINE b == [e.bd EXCEPT ![k] = d]
<1>1. e.bd \in [Bit -> Descriptor] /\ \A i \in Bit : e.bd[i].len <= MaxPacketSize
  BY DEF GoodEp, Endpoint
<1>2. b \in [Bit -> Descriptor] /\ b[k] = d /\ b[Flip(k)] = e.bd[Flip(k)]
  BY <1>1, Flipping
<1>3. \A i \in Bit : b[i].len <= MaxPacketSize
  BY <1>1
<1>4. With(e, k, d) = [e EXCEPT !.bd = b]
  BY DEF With, GoodEp, Endpoint
<1> HIDE DEF b
<1>5. LET f == [e EXCEPT !.bd = b]
      IN  f \in GoodEp /\ f.bd = b /\ Same(f, e) /\ f.transferring = e.transferring
  BY <1>2, <1>3, EpDescriptors
<1> QED BY <1>2, <1>4, <1>5

LEMMA NoDescriptorGood ==
  /\ NoDescriptor \in Descriptor /\ NoDescriptor.len <= MaxPacketSize
  /\ ~NoDescriptor.own
BY Constants DEF NoDescriptor, Descriptor, Bit

LEMMA EpEmpty ==
  ASSUME NEW e \in GoodEp
  PROVE  LET f == [e EXCEPT !.bd = [i \in Bit |-> NoDescriptor]]
         IN  f \in GoodEp /\ Same(f, e) /\ f.transferring = e.transferring /\ Free(f)
<1> DEFINE b == [i \in Bit |-> NoDescriptor]
<1>1. b \in [Bit -> Descriptor] /\ \A i \in Bit : b[i].len <= MaxPacketSize /\ ~b[i].own
  BY NoDescriptorGood
<1> HIDE DEF b
<1>2. LET f == [e EXCEPT !.bd = b]
      IN  f \in GoodEp /\ f.bd = b /\ Same(f, e) /\ f.transferring = e.transferring
  BY <1>1, EpDescriptors
<1> QED BY <1>1, <1>2 DEF b, Free

LEMMA CancelDoes ==
  ASSUME NEW e \in GoodEp
  PROVE  LET f == Cancel(e)
         IN  f \in GoodEp /\ Same(f, e) /\ ~f.transferring /\ f.bd = e.bd
BY DEF Cancel, GoodEp, Endpoint, Same

LEMMA BitsGood ==
  ASSUME NEW e \in GoodEp, NEW k \in Bit
  PROVE  LET f == [e EXCEPT !.data0 = k]
         IN  /\ f \in GoodEp /\ f.data0 = k /\ f.bd = e.bd /\ f.bdtOdd = e.bdtOdd
             /\ f.transferring = e.transferring /\ f.transferBuffer = e.transferBuffer
             /\ f.transferLength = e.transferLength /\ f.transferDone = e.transferDone
BY DEF GoodEp, Endpoint

(* The descriptor in turn is given away.                                    *)
LEMMA EndpointTransferDoes ==
  ASSUME NEW e \in GoodEp, NEW off \in Nat, NEW n \in Nat, n <= MaxPacketSize, ~e.bd[Flip(e.bdtOdd)].own
  PROVE  LET f == EndpointTransfer(e, off, n)
         IN  /\ f \in GoodEp /\ Same(f, e) /\ Offers(f, e.bdtOdd)
             /\ f.bd[e.bdtOdd].len = n /\ f.bd[e.bdtOdd].data01 = e.data0
<1> DEFINE d == [own |-> TRUE, stall |-> FALSE, data01 |-> e.data0, from |-> e.transferBuffer,
                 off |-> off, len |-> n]
           f == [e EXCEPT !.transferring = TRUE]
<1>1. d \in Descriptor /\ d.len = n /\ d.len <= MaxPacketSize /\ d.data01 = e.data0 /\ d.own /\ ~d.stall
  BY DEF Descriptor, GoodEp, Endpoint
<1>2. f \in GoodEp /\ f.transferring /\ e.bdtOdd \in Bit /\ f.bd = e.bd /\ Same(f, e)
  BY DEF GoodEp, Endpoint, Same
<1>3. EndpointTransfer(e, off, n) = With(f, e.bdtOdd, d)
  BY DEF With, EndpointTransfer, GoodEp, Endpoint
<1> DEFINE k == e.bdtOdd
<1> HIDE DEF d, f, k
<1>4. LET g == With(f, k, d)
      IN  /\ g \in GoodEp /\ Same(g, f) /\ g.transferring = f.transferring
          /\ g.bd[k] = d /\ g.bd[Flip(k)] = f.bd[Flip(k)]
  <2>1. k \in Bit
    BY <1>2 DEF k
  <2>2. f \in GoodEp
    BY <1>2
  <2>3. d \in Descriptor /\ d.len <= MaxPacketSize
    BY <1>1
  <2> QED BY <2>1, <2>2, <2>3, EpDescriptor, Zenon
<1> QED BY <1>1, <1>2, <1>3, <1>4 DEF Same, Offers, k

LEMMA SaveTransferDoes ==
  ASSUME NEW e \in GoodEp, NEW b \in Buffers, NEW n \in Nat
  PROVE  LET f == SaveTransfer(e, b, n)
         IN  /\ f \in GoodEp /\ f.bd = e.bd /\ f.bdtOdd = e.bdtOdd /\ f.data0 = e.data0
             /\ f.transferring = e.transferring
             /\ e.transferring => f = e
             /\ ~e.transferring => f.transferBuffer = b /\ f.transferLength = n /\ f.transferDone = 0
BY DEF SaveTransfer, GoodEp, Endpoint

(* The first packet of a transfer.                                          *)
LEMMA TransferBegins ==
  ASSUME NEW e \in GoodEp, NEW k \in Bit, Empty(e, k), NEW b \in Buffers, NEW n \in Nat
  PROVE  LET f == Transfer(e, b, n)
         IN  /\ f \in GoodEp /\ Offers(f, k) /\ f.data0 = e.data0
             /\ f.transferBuffer = b /\ f.transferLength = n /\ f.transferDone = 0
             /\ f.bd[k].len = Least(n, MaxPacketSize) /\ f.bd[k].data01 = e.data0
<1> DEFINE s == SaveTransfer(e, b, n)
           m == Least(n, MaxPacketSize)
<1>1. /\ s \in GoodEp /\ s.bd = e.bd /\ s.bdtOdd = k /\ s.data0 = e.data0
      /\ s.transferBuffer = b /\ s.transferLength = n /\ s.transferDone = 0
  BY SaveTransferDoes DEF Empty
<1>2. m \in Nat /\ m <= MaxPacketSize /\ s.maxPacketSize = MaxPacketSize
  BY <1>1, Constants DEF Least, GoodEp
<1>3. ~s.bd[Flip(k)].own
  BY <1>1, Flipping DEF Empty, Free
<1>4. Transfer(e, b, n) = EndpointTransfer(s, 0, m)
  BY <1>1, <1>2 DEF Transfer
<1> HIDE DEF s, m
<1>5. LET f == EndpointTransfer(s, 0, m)
      IN  /\ f \in GoodEp /\ Same(f, s) /\ Offers(f, s.bdtOdd)
          /\ f.bd[s.bdtOdd].len = m /\ f.bd[s.bdtOdd].data01 = s.data0
  BY <1>1, <1>2, <1>3, EndpointTransferDoes
<1> QED BY <1>1, <1>4, <1>5 DEF Same, m

(* The next one.                                                            *)
LEMMA TransferContinues ==
  ASSUME NEW e \in GoodEp, e.transferring, Free(e), NEW n \in Nat
  PROVE  LET f == Transfer(e, e.transferBuffer, n)
         IN  /\ f \in GoodEp /\ Same(f, e) /\ Offers(f, e.bdtOdd)
             /\ f.bd[e.bdtOdd].len = Least(n, MaxPacketSize) /\ f.bd[e.bdtOdd].data01 = e.data0
<1> DEFINE m == Least(n, MaxPacketSize)
<1>1. /\ e.bdtOdd \in Bit /\ e.transferDone \in Nat /\ e.transferBuffer \in Buffers
      /\ e.maxPacketSize = MaxPacketSize
  BY DEF GoodEp, Endpoint
<1>2. m \in Nat /\ m <= MaxPacketSize
  BY Constants DEF Least
<1>3. ~e.bd[Flip(e.bdtOdd)].own
  BY <1>1, Flipping DEF Free
<1>4. SaveTransfer(e, e.transferBuffer, n) = e
  BY DEF SaveTransfer
<1>5. Transfer(e, e.transferBuffer, n) = EndpointTransfer(e, e.transferDone, m)
  BY <1>1, <1>4 DEF Transfer
<1> HIDE DEF m
<1>6. LET f == EndpointTransfer(e, e.transferDone, m)
      IN  /\ f \in GoodEp /\ Same(f, e) /\ Offers(f, e.bdtOdd)
          /\ f.bd[e.bdtOdd].len = m /\ f.bd[e.bdtOdd].data01 = e.data0
  BY <1>1, <1>2, <1>3, EndpointTransferDoes
<1> QED BY <1>5, <1>6 DEF m

LEMMA TokenCountedDoes ==
  ASSUME NEW e \in GoodEp, NEW n \in Nat
  PROVE  LET f == TokenCounted(e, n)
         IN  /\ f \in GoodEp /\ f.bd = e.bd /\ f.bdtOdd = Flip(e.bdtOdd) /\ f.data0 = Flip(e.data0)
             /\ f.transferring = e.transferring /\ f.transferBuffer = e.transferBuffer
             /\ f.transferLength = e.transferLength
             /\ f.transferDone = (e.transferDone + n) % WORD
<1>1. Flip(e.data0) \in Bit /\ Flip(e.bdtOdd) \in Bit
  BY Flipping DEF GoodEp, Endpoint
<1>2. (e.transferDone + n) % WORD \in Nat
  <2>1. e.transferDone + n \in Int
    BY DEF GoodEp, Endpoint
  <2> QED BY <2>1, Words
<1> QED BY <1>1, <1>2 DEF TokenCounted, GoodEp, Endpoint

LEMMA EndpointStallDoes ==
  ASSUME NEW e \in GoodEp, NEW k \in Bit, Empty(e, k)
  PROVE  EndpointStall(e) \in GoodEp /\ Halted(EndpointStall(e), k) /\ Same(EndpointStall(e), e)
<1> DEFINE d == [NoDescriptor EXCEPT !.own = TRUE, !.stall = TRUE]
<1>1. d \in Descriptor /\ d.own /\ d.stall /\ d.len <= MaxPacketSize
  BY NoDescriptorGood DEF NoDescriptor, Descriptor
<1>2. Cancel(e) \in GoodEp /\ Same(Cancel(e), e) /\ ~Cancel(e).transferring /\ Cancel(e).bd = e.bd
  BY CancelDoes
<1>3. EndpointStall(e) = With(Cancel(e), k, d)
  BY DEF EndpointStall, With, Empty
<1> HIDE DEF d
<1>4. LET f == With(Cancel(e), k, d)
      IN  /\ f \in GoodEp /\ Same(f, Cancel(e)) /\ f.transferring = Cancel(e).transferring
          /\ f.bd[k] = d /\ f.bd[Flip(k)] = Cancel(e).bd[Flip(k)]
  BY <1>1, <1>2, EpDescriptor
<1> QED BY <1>1, <1>2, <1>3, <1>4, Flipping DEF Same, Halted, Empty, Free

LEMMA EndpointUnstallDoes ==
  ASSUME NEW e \in GoodEp
  PROVE  EndpointUnstall(e) \in GoodEp /\ Empty(EndpointUnstall(e), e.bdtOdd) /\ EndpointUnstall(e).data0 = 0
<1> DEFINE c == Cancel(e)
           f == [c EXCEPT !.data0 = 0]
<1>1. c \in GoodEp /\ ~c.transferring /\ c.bdtOdd = e.bdtOdd
  BY CancelDoes DEF Same
<1>2. 0 \in Bit
  BY DEF Bit
<1>3. EndpointUnstall(e) = [f EXCEPT !.bd = [i \in Bit |-> NoDescriptor]]
  BY <1>1 DEF EndpointUnstall, GoodEp, Endpoint
<1> HIDE DEF c
<1>4. f \in GoodEp /\ ~f.transferring /\ f.bdtOdd = e.bdtOdd /\ f.data0 = 0
  BY <1>1, <1>2, BitsGood
<1> HIDE DEF f
<1>5. LET g == [f EXCEPT !.bd = [i \in Bit |-> NoDescriptor]]
      IN  g \in GoodEp /\ Same(g, f) /\ g.transferring = f.transferring /\ Free(g)
  BY <1>4, EpEmpty
<1> QED BY <1>3, <1>4, <1>5 DEF Same, Empty

LEMMA EndpointInitDoes ==
  ASSUME NEW e \in Endpoint, e.bdtOdd = 0, e.bd = [i \in Bit |-> NoDescriptor]
  PROVE  LET f == EndpointInit(e, MaxPacketSize)
         IN  f \in GoodEp /\ Empty(f, 0) /\ f.data0 = 0
<1>1. MaxPacketSize \in Nat /\ 0 \in Bit
  BY Constants DEF Bit
<1>2. \A i \in Bit : e.bd[i] = NoDescriptor
  OBVIOUS
<1>3. /\ EndpointInit(e, MaxPacketSize).bd = e.bd
      /\ EndpointInit(e, MaxPacketSize).bdtOdd = 0
      /\ EndpointInit(e, MaxPacketSize).data0 = 0
      /\ ~EndpointInit(e, MaxPacketSize).transferring
      /\ EndpointInit(e, MaxPacketSize).maxPacketSize = MaxPacketSize
  BY DEF EndpointInit, Endpoint
<1>4. EndpointInit(e, MaxPacketSize) \in Endpoint
  BY <1>1 DEF EndpointInit, Endpoint
<1> QED BY <1>2, <1>3, <1>4, NoDescriptorGood DEF GoodEp, Empty, Free

LEMMA SetDefaultStateDoes ==
  ASSUME NEW e \in Endpoint
  PROVE  LET f == SetDefaultState(e)
         IN  f \in Endpoint /\ f.bdtOdd = 0 /\ f.bd = [i \in Bit |-> NoDescriptor]
<1>1. [i \in Bit |-> NoDescriptor] \in [Bit -> Descriptor]
  BY NoDescriptorGood
<1>2. 0 \in Bit /\ 0 \in Nat
  BY DEF Bit
<1> DEFINE b == [i \in Bit |-> NoDescriptor]
<1>3. SetDefaultState(e) = [e EXCEPT !.transferring = FALSE, !.maxPacketSize = 0, !.data0 = 0, !.bdtOdd = 0, !.bd = b]
  BY DEF SetDefaultState
<1> HIDE DEF b
<1> QED BY <1>1, <1>2, <1>3 DEF Endpoint, b
------------------------------------------------------------------------------
(* What the operators on the pipe do.                                       *)

Pipe == [Dir -> GoodEp]

(* Endpoint 0 has room for a SETUP.                                         *)
Listening(o, k) == Offers(o, k) /\ o.transferBuffer = "setupPacketBuffer" /\ o.bd[k].data01 = 0

LEMMA PipeParts ==
  ASSUME NEW e \in Pipe
  PROVE  e["IN"] \in GoodEp /\ e["OUT"] \in GoodEp
BY DEF Pipe, Dir

LEMMA PipeWith ==
  ASSUME NEW e \in Pipe, NEW f \in GoodEp
  PROVE  /\ [e EXCEPT !["IN"] = f] \in Pipe /\ [e EXCEPT !["OUT"] = f] \in Pipe
         /\ [e EXCEPT !["IN"] = f]["IN"] = f /\ [e EXCEPT !["IN"] = f]["OUT"] = e["OUT"]
         /\ [e EXCEPT !["OUT"] = f]["OUT"] = f /\ [e EXCEPT !["OUT"] = f]["IN"] = e["IN"]
BY DEF Pipe, Dir

LEMMA PrimeNextSetupDoes ==
  ASSUME NEW e \in Pipe, NEW k \in Bit, e["OUT"].bdtOdd = k, ~e["OUT"].bd[Flip(k)].own
  PROVE  LET f == PrimeNextSetup(e)
         IN  f \in Pipe /\ f["IN"] = e["IN"] /\ Listening(f["OUT"], k)
<1> DEFINE o == [e["OUT"] EXCEPT !.transferBuffer = "setupPacketBuffer", !.transferDone = 0,
                                 !.transferLength = SETUP_PACKET_SIZE, !.data0 = 0]
           f == EndpointTransfer(o, 0, SETUP_PACKET_SIZE)
<1>1. e["OUT"] \in GoodEp
  BY PipeParts
<1>2. SETUP_PACKET_SIZE \in Nat /\ SETUP_PACKET_SIZE <= MaxPacketSize /\ 0 \in Nat
  BY Constants DEF SETUP_PACKET_SIZE
<1>3. /\ o.bd = e["OUT"].bd /\ o.bdtOdd = k /\ o.data0 = 0 /\ o.transferBuffer = "setupPacketBuffer"
  BY <1>1 DEF GoodEp, Endpoint
<1>4. o \in GoodEp
  <2>1. "setupPacketBuffer" \in Buffers /\ 0 \in Bit
    BY DEF Buffers, Bit
  <2> QED BY <1>1, <1>2, <2>1 DEF GoodEp, Endpoint
<1>5. PrimeNextSetup(e) = [e EXCEPT !["OUT"] = f]
  BY DEF PrimeNextSetup
<1> HIDE DEF o
<1>6. f \in GoodEp /\ Same(f, o) /\ Offers(f, o.bdtOdd) /\ f.bd[o.bdtOdd].data01 = o.data0
  BY <1>2, <1>3, <1>4, EndpointTransferDoes
<1> HIDE DEF f
<1>7. LET g == [e EXCEPT !["OUT"] = f] IN g \in Pipe /\ g["OUT"] = f /\ g["IN"] = e["IN"]
  BY <1>6, PipeWith
<1> QED BY <1>3, <1>5, <1>6, <1>7 DEF Listening, Same

(* The first packet of an answer of n bytes; one without bytes makes room for     *)
(* the next SETUP.                                                          *)
LEMMA SendBegins ==
  ASSUME NEW e \in Pipe, NEW i \in Bit, NEW o \in Bit, Empty(e["IN"], i), Empty(e["OUT"], o),
         NEW b \in Buffers, NEW n \in Nat
  PROVE  LET f == Send(e, b, n)
         IN  /\ f \in Pipe /\ Offers(f["IN"], i) /\ f["IN"].data0 = e["IN"].data0
             /\ f["IN"].transferBuffer = b /\ f["IN"].transferLength = n /\ f["IN"].transferDone = 0
             /\ f["IN"].bd[i].len = Least(n, MaxPacketSize) /\ f["IN"].bd[i].data01 = e["IN"].data0
             /\ IF n = 0 THEN Listening(f["OUT"], o) ELSE f["OUT"] = e["OUT"]
<1> DEFINE t == Transfer(e["IN"], b, n)
           f == [e EXCEPT !["IN"] = t]
<1>1. /\ t \in GoodEp /\ Offers(t, i) /\ t.data0 = e["IN"].data0
      /\ t.transferBuffer = b /\ t.transferLength = n /\ t.transferDone = 0
      /\ t.bd[i].len = Least(n, MaxPacketSize) /\ t.bd[i].data01 = e["IN"].data0
  BY PipeParts, TransferBegins
<1> HIDE DEF t
<1>2. f \in Pipe /\ f["IN"] = t /\ f["OUT"] = e["OUT"]
  BY <1>1, PipeWith
<1>3. Send(e, b, n) = IF n = 0 THEN PrimeNextSetup(f) ELSE f
  <2>1. Send(e, b, n) = IF f["IN"].transferDone = 0 /\ n = 0 THEN PrimeNextSetup(f) ELSE f
    BY DEF Send, t
  <2> QED BY <1>1, <1>2, <2>1
<1> HIDE DEF f
<1>4. CASE n = 0
  <2>1. f["OUT"].bdtOdd = o /\ ~f["OUT"].bd[Flip(o)].own
    BY <1>2, Flipping DEF Empty, Free
  <2>2. LET g == PrimeNextSetup(f)
        IN  g \in Pipe /\ g["IN"] = f["IN"] /\ Listening(g["OUT"], o)
    BY <1>2, <2>1, PrimeNextSetupDoes
  <2> QED BY <1>1, <1>2, <1>3, <1>4, <2>2
<1>5. CASE n # 0
  BY <1>1, <1>2, <1>3, <1>5
<1> QED BY <1>4, <1>5

LEMMA SendContinues ==
  ASSUME NEW e \in Pipe, e["IN"].transferring, Free(e["IN"]), NEW n \in Nat \ {0}
  PROVE  LET f == Send(e, e["IN"].transferBuffer, n)
         IN  /\ f \in Pipe /\ f["OUT"] = e["OUT"] /\ Same(f["IN"], e["IN"])
             /\ Offers(f["IN"], e["IN"].bdtOdd)
             /\ f["IN"].bd[e["IN"].bdtOdd].len = Least(n, MaxPacketSize)
             /\ f["IN"].bd[e["IN"].bdtOdd].data01 = e["IN"].data0
<1> DEFINE t == Transfer(e["IN"], e["IN"].transferBuffer, n)
<1>1. /\ t \in GoodEp /\ Same(t, e["IN"]) /\ Offers(t, e["IN"].bdtOdd)
      /\ t.bd[e["IN"].bdtOdd].len = Least(n, MaxPacketSize) /\ t.bd[e["IN"].bdtOdd].data01 = e["IN"].data0
  <2>1. e["IN"] \in GoodEp
    BY PipeParts
  <2> QED BY <2>1, TransferContinues
<1>2. Send(e, e["IN"].transferBuffer, n) = [e EXCEPT !["IN"] = t]
  BY DEF Send
<1> HIDE DEF t
<1>3. LET f == [e EXCEPT !["IN"] = t] IN f \in Pipe /\ f["IN"] = t /\ f["OUT"] = e["OUT"]
  BY <1>1, PipeWith
<1> QED BY <1>1, <1>2, <1>3

(* Nothing is to be received but a SETUP.                                   *)
LEMMA RecvNothingDoes ==
  ASSUME NEW e \in Pipe, NEW o \in Bit, NEW b \in Buffers, e["OUT"].bdtOdd = o, ~e["OUT"].bd[Flip(o)].own
  PROVE  LET f == Recv(e, b, 0)
         IN  f \in Pipe /\ f["IN"] = e["IN"] /\ Listening(f["OUT"], o)
<1> DEFINE c == Cancel(e["OUT"])
           g == [e EXCEPT !["OUT"] = c]
<1>1. c \in GoodEp /\ Same(c, e["OUT"]) /\ ~c.transferring /\ c.bd = e["OUT"].bd
  BY PipeParts, CancelDoes
<1> HIDE DEF c
<1>2. g \in Pipe /\ g["IN"] = e["IN"] /\ g["OUT"] = c
  BY <1>1, PipeWith
<1>3. Recv(e, b, 0) = PrimeNextSetup(g)
  BY DEF Recv, c
<1> HIDE DEF g
<1>4. g["OUT"].bdtOdd = o /\ ~g["OUT"].bd[Flip(o)].own
  BY <1>1, <1>2 DEF Same
<1>5. LET f == PrimeNextSetup(g)
      IN  f \in Pipe /\ f["IN"] = g["IN"] /\ Listening(f["OUT"], o)
  BY <1>2, <1>4, PrimeNextSetupDoes
<1> QED BY <1>2, <1>3, <1>5

(* The room for the data of a request.                                      *)
LEMMA RecvDoes ==
  ASSUME NEW e \in Pipe, NEW o \in Bit, Empty(e["OUT"], o), NEW b \in Buffers, NEW n \in Nat \ {0}
  PROVE  LET f == Recv(e, b, n)
         IN  /\ f \in Pipe /\ f["IN"] = e["IN"] /\ Offers(f["OUT"], o)
             /\ f["OUT"].transferBuffer = b /\ f["OUT"].bd[o].data01 = e["OUT"].data0
<1> DEFINE t == Transfer(e["OUT"], b, n)
           d == [t.bd[o] EXCEPT !.from = "dmaAlignBuffer"]
           g == With(t, o, d)
<1>1. /\ t \in GoodEp /\ Offers(t, o) /\ t.data0 = e["OUT"].data0
      /\ t.transferBuffer = b /\ t.bd[o].data01 = e["OUT"].data0
  BY PipeParts, TransferBegins
<1> HIDE DEF t
<1>2. t.bd[o] \in Descriptor /\ t.bd[o].len <= MaxPacketSize /\ t.bdtOdd = o
  BY <1>1 DEF GoodEp, Endpoint, Offers
<1>3. /\ d \in Descriptor /\ d.len <= MaxPacketSize
      /\ d.own = t.bd[o].own /\ d.stall = t.bd[o].stall /\ d.data01 = t.bd[o].data01
  <2>1. "dmaAlignBuffer" \in Buffers
    BY DEF Buffers
  <2> QED BY <1>2, <2>1 DEF Descriptor
<1>4. g = [t EXCEPT !.bd[t.bdtOdd].from = "dmaAlignBuffer"]
  BY <1>1, <1>2 DEF With, GoodEp, Endpoint, Descriptor
<1>5. Recv(e, b, n) = [e EXCEPT !["OUT"] = g]
  BY <1>4 DEF Recv, t
<1> HIDE DEF d, g
<1>6. LET f == With(t, o, d)
      IN  /\ f \in GoodEp /\ Same(f, t) /\ f.transferring = t.transferring
          /\ f.bd[o] = d /\ f.bd[Flip(o)] = t.bd[Flip(o)]
  BY <1>1, <1>3, EpDescriptor
<1>7. g \in GoodEp /\ Offers(g, o) /\ g.transferBuffer = b /\ g.bd[o].data01 = e["OUT"].data0
  BY <1>1, <1>2, <1>3, <1>6 DEF g, Same, Offers
<1>8. LET f == [e EXCEPT !["OUT"] = g] IN f \in Pipe /\ f["OUT"] = g /\ f["IN"] = e["IN"]
  BY <1>7, PipeWith
<1> QED BY <1>5, <1>7, <1>8

LEMMA StallEndpointDoes ==
  ASSUME NEW e \in Pipe, NEW i \in Bit, NEW o \in Bit, Empty(e["IN"], i), Empty(e["OUT"], o)
  PROVE  LET f == StallEndpoint(e)
         IN  f \in Pipe /\ Halted(f["IN"], i) /\ Halted(f["OUT"], o)
<1>1. /\ StallEndpoint(e)["IN"] = EndpointStall(e["IN"])
      /\ StallEndpoint(e)["OUT"] = EndpointStall(e["OUT"])
      /\ StallEndpoint(e) = [dir \in Dir |-> EndpointStall(e[dir])]
  BY DEF StallEndpoint, Dir
<1>2. EndpointStall(e["IN"]) \in GoodEp /\ EndpointStall(e["OUT"]) \in GoodEp
  BY PipeParts, EndpointStallDoes
<1>3. Halted(EndpointStall(e["IN"]), i) /\ Halted(EndpointStall(e["OUT"]), o)
  BY PipeParts, EndpointStallDoes
<1>4. StallEndpoint(e) \in Pipe
  BY <1>1, <1>2 DEF Pipe, Dir
<1> QED BY <1>1, <1>3, <1>4

LEMMA UnstallEndpointDoes ==
  ASSUME NEW e \in Pipe
  PROVE  LET f == UnstallEndpoint(e)
         IN  f \in Pipe /\ Empty(f["IN"], e["IN"].bdtOdd) /\ Listening(f["OUT"], e["OUT"].bdtOdd)
<1> DEFINE g == [dir \in Dir |-> EndpointUnstall(e[dir])]
<1>1. \A dir \in Dir : e[dir] \in GoodEp /\ e[dir].bdtOdd \in Bit
  BY DEF Pipe, GoodEp, Endpoint
<1>2. \A dir \in Dir : EndpointUnstall(e[dir]) \in GoodEp /\ Empty(EndpointUnstall(e[dir]), e[dir].bdtOdd)
  BY <1>1, EndpointUnstallDoes
<1>3. g \in Pipe
  BY <1>2 DEF Pipe
<1>4. Empty(g["IN"], e["IN"].bdtOdd) /\ Empty(g["OUT"], e["OUT"].bdtOdd)
  BY <1>2 DEF Dir
<1>5. UnstallEndpoint(e) = PrimeNextSetup(g)
  BY DEF UnstallEndpoint
<1> HIDE DEF g
<1>6. /\ e["OUT"].bdtOdd \in Bit /\ g["OUT"].bdtOdd = e["OUT"].bdtOdd
      /\ ~g["OUT"].bd[Flip(e["OUT"].bdtOdd)].own
  BY <1>1, <1>4, Flipping DEF Empty, Free, Dir
<1>7. LET f == PrimeNextSetup(g)
      IN  f \in Pipe /\ f["IN"] = g["IN"] /\ Listening(f["OUT"], e["OUT"].bdtOdd)
  BY <1>3, <1>6, PrimeNextSetupDoes
<1> QED BY <1>4, <1>5, <1>7

LEMMA ControlPipeInitDoes ==
  ASSUME NEW e \in [Dir -> Endpoint], \A dir \in Dir : e[dir].bdtOdd = 0 /\ e[dir].bd = [i \in Bit |-> NoDescriptor]
  PROVE  LET f == ControlPipeInit(e)
         IN  f \in Pipe /\ Empty(f["IN"], 0) /\ Listening(f["OUT"], 0)
<1> DEFINE g == [dir \in Dir |-> EndpointInit(e[dir], MaxPacketSize)]
<1>1. \A dir \in Dir :
        EndpointInit(e[dir], MaxPacketSize) \in GoodEp /\ Empty(EndpointInit(e[dir], MaxPacketSize), 0)
  BY EndpointInitDoes
<1>2. g \in Pipe /\ Empty(g["IN"], 0) /\ Empty(g["OUT"], 0)
  BY <1>1 DEF Pipe, Dir
<1>3. ControlPipeInit(e) = PrimeNextSetup(g)
  BY DEF ControlPipeInit
<1> HIDE DEF g
<1>4. 0 \in Bit /\ g["OUT"].bdtOdd = 0 /\ ~g["OUT"].bd[Flip(0)].own
  BY <1>2, Flipping DEF Empty, Free, Bit
<1>5. LET f == PrimeNextSetup(g)
      IN  f \in Pipe /\ f["IN"] = g["IN"] /\ Listening(f["OUT"], 0)
  BY <1>2, <1>4, PrimeNextSetupDoes
<1> QED BY <1>2, <1>3, <1>5
------------------------------------------------------------------------------
(* What the handlers answer, and do to the device.                          *)

Answer == [error : {"Success", "InvalidRequest", "Error"}, buffer : Buffers, length : Nat]

(* What the handlers of r never answer: data to a request that writes, or room for *)
(* data that it does not store.                                             *)
Agrees(r, a) ==
  /\ a \in Answer
  /\ r.name \in Writes \ ClassRequests => a.length = 0
  /\ Receives(r) /\ a.error = "Success" => a.length # 0 /\ Sets(r) = {a.buffer}

(* The requests that read, and those to the class, leave this of the device.   *)
Untouched(d, e) ==
  /\ d \in Device /\ d.state = e.state /\ d.ADDR = e.ADDR /\ d.deviceAddress = e.deviceAddress
  /\ d.configuration = e.configuration /\ d.currentConfiguration = e.currentConfiguration
  /\ \A b \in Settings : d.memory[b] = e.memory[b]

(* The sum that sizeof takes of the configuration descriptor's parts.         *)
PartLengths == <<9, 9, 5, 5, 4, 5, 7, 9, 7, 7>>

LEMMA PartsHaveLengths ==
  /\ Len(ConfigurationDescriptor) = 10
  /\ \A i \in 1 .. 10 : ConfigurationDescriptor[i].length = PartLengths[i]
BY DEF ConfigurationDescriptor, PartLengths, InterfacePart, Part, EndpointPart

LEMMA LengthOfConfiguration == ConfigurationDescriptorLength = 67
<1> DEFINE Body(f, i) == IF i = 0 THEN 0 ELSE f[i - 1] + ConfigurationDescriptor[i].length
           IsSum(f) == f = [i \in 0 .. Len(ConfigurationDescriptor) |-> Body(f, i)]
           sums == [i \in 0 .. 10 |->
                      CASE i = 0 -> 0 [] i = 1 -> 9 [] i = 2 -> 18 [] i = 3 -> 23 [] i = 4 -> 28 [] i = 5 -> 32
                        [] i = 6 -> 37 [] i = 7 -> 44 [] i = 8 -> 53 [] i = 9 -> 60 [] i = 10 -> 67]
           sum == CHOOSE f : IsSum(f)
<1>1. IsSum(sums)
  <2> DEFINE t == [i \in 0 .. Len(ConfigurationDescriptor) |-> Body(sums, i)]
  <2>1. \A i \in 0 .. 10 : t[i] = sums[i]
    BY PartsHaveLengths DEF PartLengths
  <2>2. t = [i \in 0 .. 10 |-> t[i]] /\ sums = [i \in 0 .. 10 |-> sums[i]]
    BY PartsHaveLengths
  <2> HIDE DEF sums, t
  <2>3. t = sums
    BY <2>1, <2>2
  <2> QED BY <2>3 DEF t
<1> HIDE DEF sums, IsSum
<1>2. IsSum(sum)
  BY <1>1
<1>3. \A i \in 0 .. 10 : sum[i] = IF i = 0 THEN 0 ELSE sum[i - 1] + PartLengths[i]
  <2>1. sum = [i \in 0 .. 10 |-> Body(sum, i)]
    BY <1>2, PartsHaveLengths DEF IsSum
  <2> HIDE DEF sum
  <2>2. \A i \in 0 .. 10 : sum[i] = Body(sum, i)
    BY <2>1
  <2> QED BY <2>2, PartsHaveLengths
<1>4. sum[10] = 67
  <2> HIDE DEF sum
  <2> QED BY <1>3 DEF PartLengths
<1>5. ConfigurationDescriptorLength = sum[Len(ConfigurationDescriptor)]
  BY DEF ConfigurationDescriptorLength, sum, IsSum
<1> QED BY <1>4, <1>5, PartsHaveLengths

LEMMA FoundAnswers ==
  ASSUME NEW b \in Buffers, NEW n \in Nat
  PROVE  Found(b, n) \in Answer /\ Found(b, n).length = n /\ Found(b, n).buffer = b /\ Found(b, n).error = "Success"
BY DEF Found, Answer

LEMMA InvalidAnswers ==
  InvalidRequest \in Answer /\ InvalidRequest.length = 0 /\ InvalidRequest.error = "InvalidRequest"
BY DEF InvalidRequest, Answer, Buffers

LEMMA DescriptorAnswers ==
  ASSUME NEW value \in Nat, NEW index \in Nat
  PROVE  /\ GetDeviceDescriptor \in Answer
         /\ GetConfigurationDescriptor(value) \in Answer
         /\ GetStringDescriptor(value, index) \in Answer
<1>1. GetDeviceDescriptor \in Answer
  BY FoundAnswers DEF GetDeviceDescriptor, DeviceDescriptorLength, Buffers
<1>2. GetConfigurationDescriptor(value) \in Answer
  <2>1. 67 \in Nat /\ "configuration" \in Buffers
    BY DEF Buffers
  <2> QED BY <2>1, FoundAnswers, InvalidAnswers, LengthOfConfiguration DEF GetConfigurationDescriptor
<1>3. \A i \in 0 .. STRING_COUNT - 1 : StringBuffer[i] \in Buffers /\ StringLength[i] \in Nat
  BY DEF STRING_COUNT, StringBuffer, StringLength, Buffers
<1>4. \A i \in 0 .. STRING_COUNT - 1 : Found(StringBuffer[i], StringLength[i]) \in Answer
  BY <1>3, FoundAnswers
<1>5. GetStringDescriptor(value, index) \in Answer
  BY <1>4, InvalidAnswers DEF GetStringDescriptor, STRING_COUNT
<1> QED BY <1>1, <1>2, <1>5

(* A device with one of its fields replaced.                                *)
LEMMA DeviceWith ==
  ASSUME NEW d \in Device
  PROVE  /\ \A s \in {"Default", "Addressing", "Address", "Configured"} : [d EXCEPT !.state = s] \in Device
         /\ \A n \in 0 .. 127 : [d EXCEPT !.deviceAddress = n] \in Device /\ [d EXCEPT !.ADDR = n] \in Device
         /\ \A n \in 0 .. 255 :
              /\ [d EXCEPT !.configuration = n] \in Device /\ [d EXCEPT !.alternate = n] \in Device
              /\ [d EXCEPT !.currentConfiguration = n] \in Device
         /\ \A m \in [Stored -> Nat] : [d EXCEPT !.memory = m] \in Device
         /\ \A o \in SUBSET (CicEndpoints \cup DicEndpoints) : [d EXCEPT !.opened = o] \in Device
<1>1. \A s \in {"Default", "Addressing", "Address", "Configured"} : [d EXCEPT !.state = s] \in Device
  BY DEF Device
<1>2. \A n \in 0 .. 127 : [d EXCEPT !.deviceAddress = n] \in Device /\ [d EXCEPT !.ADDR = n] \in Device
  <2> TAKE n \in 0 .. 127
  <2>1. [d EXCEPT !.deviceAddress = n] \in Device
    BY DEF Device
  <2>2. [d EXCEPT !.ADDR = n] \in Device
    BY DEF Device
  <2> QED BY <2>1, <2>2
<1>3. \A n \in 0 .. 255 :
        /\ [d EXCEPT !.configuration = n] \in Device /\ [d EXCEPT !.alternate = n] \in Device
        /\ [d EXCEPT !.currentConfiguration = n] \in Device
  <2> TAKE n \in 0 .. 255
  <2>1. [d EXCEPT !.configuration = n] \in Device
    BY DEF Device
  <2>2. [d EXCEPT !.alternate = n] \in Device
    BY DEF Device
  <2>3. [d EXCEPT !.currentConfiguration = n] \in Device
    BY DEF Device
  <2> QED BY <2>1, <2>2, <2>3
<1>4. \A m \in [Stored -> Nat] : [d EXCEPT !.memory = m] \in Device
  BY DEF Device
<1>5. \A o \in SUBSET (CicEndpoints \cup DicEndpoints) : [d EXCEPT !.opened = o] \in Device
  BY DEF Device
<1> QED BY <1>1, <1>2, <1>3, <1>4, <1>5

LEMMA StandardDoes ==
  ASSUME NEW d \in Device, NEW n \in Nat
  PROVE  Untouched(Standard(d, n), d) /\ Standard(d, n).alternate = d.alternate /\ Standard(d, n).opened = d.opened
<1> DEFINE m == [d.memory EXCEPT !["standard"] = n]
<1>1. m \in [Stored -> Nat] /\ \A b \in Settings : m[b] = d.memory[b]
  BY DEF Device, Stored, Settings
<1>2. Standard(d, n) = [d EXCEPT !.memory = m]
  BY DEF Standard, Device
<1> HIDE DEF m
<1> QED BY <1>1, <1>2 DEF Device, Untouched

(* The application's callback for the requests that read, and SET_INTERFACE.   *)
LEMMA CallbackAnswers ==
  ASSUME NEW d \in Device, NEW r \in Request, r.name \in (Reads \ ClassRequests) \cup {"SET_INTERFACE"}
  PROVE  /\ Untouched(DeviceCallback(d, r).device, d)
         /\ DeviceCallback(d, r).answer \in Answer
         /\ r.name = "SET_INTERFACE" => DeviceCallback(d, r).answer.length = 0
<1>1. Untouched(d, d)
  BY DEF Untouched
<1>2. d.currentConfiguration \in Nat /\ r.value \in Nat /\ r.index \in Nat
  BY DEF Device, Request
<1>3. "NULL" \in Buffers /\ "standard" \in Buffers
  BY DEF Buffers
<1>4. CASE r.name = "SET_INTERFACE"
  <2>1. DeviceCallback(d, r) \in {Accepted(d), Refused(d)}
    BY <1>4 DEF DeviceCallback
  <2> QED BY <1>1, <1>3, <2>1, FoundAnswers, InvalidAnswers DEF Accepted, Refused, Outcome
<1>5. CASE r.name = "GET_CONFIGURATION"
  <2>1. DeviceCallback(d, r) = Outcome(Standard(d, d.currentConfiguration), Found("standard", 1))
    BY <1>5 DEF DeviceCallback
  <2> QED BY <1>2, <1>3, <1>5, <2>1, FoundAnswers, StandardDoes DEF Outcome
<1>6. CASE r.name = "GET_INTERFACE"
  <2>1. DeviceCallback(d, r) \in {Outcome(d, Found("standard", 1)), Refused(d)}
    BY <1>6 DEF DeviceCallback
  <2> QED BY <1>1, <1>3, <1>6, <2>1, FoundAnswers, InvalidAnswers DEF Outcome, Refused
<1>7. CASE r.name = "GET_DEVICE_DESCRIPTOR"
  <2>1. DeviceCallback(d, r) = Outcome(d, GetDeviceDescriptor)
    BY <1>7 DEF DeviceCallback
  <2> QED BY <1>1, <1>2, <1>7, <2>1, DescriptorAnswers DEF Outcome
<1>8. CASE r.name = "GET_CONFIGURATION_DESCRIPTOR"
  <2>1. DeviceCallback(d, r) = Outcome(d, GetConfigurationDescriptor(r.value))
    BY <1>8 DEF DeviceCallback
  <2> QED BY <1>1, <1>2, <1>8, <2>1, DescriptorAnswers DEF Outcome
<1>9. CASE r.name = "GET_STRING_DESCRIPTOR"
  <2>1. DeviceCallback(d, r) = Outcome(d, GetStringDescriptor(r.value, r.index))
    BY <1>9 DEF DeviceCallback
  <2> QED BY <1>1, <1>2, <1>9, <2>1, DescriptorAnswers DEF Outcome
<1> QED BY <1>4, <1>5, <1>6, <1>7, <1>8, <1>9 DEF Reads, ClassRequests

LEMMA ClassAnswers ==
  ASSUME NEW r \in Request, r.name \in ClassRequests
  PROVE  Agrees(r, ClassRequest(r))
<1>1. r.length \in Nat /\ "NULL" \in Buffers /\ r.name \notin Writes \ ClassRequests
  BY DEF Request, Buffers
<1>2. CASE r.index # COMM_INTERFACE
  <2>1. ClassRequest(r) = [error |-> "Error", buffer |-> "NULL", length |-> r.length]
    BY <1>2 DEF ClassRequest
  <2> QED BY <1>1, <2>1 DEF Agrees, Answer
<1>3. CASE ClassRequest(r) = InvalidRequest
  BY <1>1, <1>3, InvalidAnswers DEF Agrees
<1>4. CASE r.index = COMM_INTERFACE /\ ClassRequest(r) # InvalidRequest
  <2>1. /\ ClassRequest(r) = CdcVcomCallback(r)
        /\ r.name \in {"SET_CONTROL_LINE_STATE", "SEND_BREAK"} <=> r.length = 0
    BY <1>4 DEF ClassRequest
  <2>2. LINE_CODING_SIZE \in Nat \ {0} /\ COMM_FEATURE_DATA_SIZE \in Nat \ {0} /\ Settings \subseteq Buffers
    BY DEF LINE_CODING_SIZE, COMM_FEATURE_DATA_SIZE, Settings, Buffers
  <2>3. CASE r.name \in {"GET_LINE_CODING", "SET_LINE_CODING"}
    <3>1. ClassRequest(r) = Found("lineCoding", LINE_CODING_SIZE) /\ "lineCoding" \in Buffers
      BY <2>1, <2>3 DEF CdcVcomCallback, Buffers
    <3>2. Receives(r) => Sets(r) = {"lineCoding"}
      BY <2>3 DEF Receives, Sets, Writes
    <3> QED BY <1>1, <2>2, <3>1, <3>2, FoundAnswers DEF Agrees
  <2>4. CASE r.name \in {"GET_COMM_FEATURE", "SET_COMM_FEATURE"}
    <3>1. ClassRequest(r) = CommFeature(r)
      BY <2>1, <2>4 DEF CdcVcomCallback
    <3>2. CASE r.value = ABSTRACT_STATE
      <4>1. ClassRequest(r) = Found("abstractState", COMM_FEATURE_DATA_SIZE) /\ "abstractState" \in Buffers
        BY <3>1, <3>2 DEF CommFeature, Buffers, ABSTRACT_STATE, COUNTRY_SETTING
      <4>2. Receives(r) => Sets(r) = {"abstractState"}
        BY <2>4, <3>2 DEF Receives, Sets, Writes
      <4> QED BY <1>1, <2>2, <4>1, <4>2, FoundAnswers DEF Agrees
    <3>3. CASE r.value = COUNTRY_SETTING
      <4>1. ClassRequest(r) = Found("countryCode", COMM_FEATURE_DATA_SIZE) /\ "countryCode" \in Buffers
        BY <3>1, <3>3 DEF CommFeature, Buffers, ABSTRACT_STATE, COUNTRY_SETTING
      <4>2. Receives(r) => Sets(r) = {"countryCode"}
        BY <2>4, <3>3 DEF Receives, Sets, Writes, ABSTRACT_STATE, COUNTRY_SETTING
      <4> QED BY <1>1, <2>2, <4>1, <4>2, FoundAnswers DEF Agrees
    <3>4. CASE r.value \notin {ABSTRACT_STATE, COUNTRY_SETTING}
      BY <1>4, <3>1, <3>4 DEF CommFeature
    <3> QED BY <3>2, <3>3, <3>4
  <2>5. CASE r.name = "SET_CONTROL_LINE_STATE"
    <3>1. ClassRequest(r) = Found("NULL", r.length) /\ ~Receives(r)
      BY <2>1, <2>5 DEF CdcVcomCallback, Receives
    <3> QED BY <1>1, <3>1, FoundAnswers DEF Agrees
  <2>6. CASE r.name = "SEND_BREAK"
    BY <1>4, <2>1, <2>6 DEF CdcVcomCallback
  <2> QED BY <2>3, <2>4, <2>5, <2>6 DEF ClassRequests
<1> QED BY <1>2, <1>3, <1>4

LEMMA SetInterfaceDoes ==
  ASSUME NEW d \in Device, NEW r \in Request, r.name = "SET_INTERFACE"
  PROVE  /\ Untouched(SetInterface(d, r).device, d)
         /\ SetInterface(d, r).answer \in Answer /\ SetInterface(d, r).answer.length = 0
<1>1. Untouched(d, d)
  BY DEF Untouched
<1>2. CASE d.state = "Configured" /\ r.length = 0
  <2> DEFINE s == Standard(d, r.value)
             c == ClassSetInterface(s, r.index, r.value)
             a == [s EXCEPT !.alternate = r.value]
  <2>1. Untouched(s, d)
    BY StandardDoes DEF Request
  <2>2. Untouched(c, d)
    <3> HIDE DEF s
    <3>1. Untouched(a, d)
      BY <2>1 DEF Untouched, Device, Request
    <3>2. Untouched(EndpointsInit(a), d)
      <4> DEFINE set == {i \in InterfaceList : i.alternate = a.alternate}
                 opened == IF a.configuration \in 1 .. CONFIGURATION_COUNT /\ \E i \in set : i.class = "COMM"
                             THEN UNION {i.endpoints : i \in set} ELSE {}
      <4>1. opened \in SUBSET (CicEndpoints \cup DicEndpoints)
        BY DEF InterfaceList
      <4>2. EndpointsInit(a) = [a EXCEPT !.opened = opened]
        BY DEF EndpointsInit
      <4> HIDE DEF opened, a
      <4> QED BY <3>1, <4>1, <4>2 DEF Untouched, Device
    <3> QED BY <2>1, <3>2 DEF ClassSetInterface
  <2>3. SetInterface(d, r) = DeviceCallback(c, r)
    BY <1>2 DEF SetInterface
  <2> HIDE DEF c
  <2>4. c \in Device
    BY <2>2 DEF Untouched
  <2>5. /\ Untouched(DeviceCallback(c, r).device, c)
        /\ DeviceCallback(c, r).answer \in Answer /\ DeviceCallback(c, r).answer.length = 0
    BY <2>4, CallbackAnswers
  <2> QED BY <2>2, <2>3, <2>5 DEF Untouched
<1>3. CASE ~(d.state = "Configured" /\ r.length = 0)
  BY <1>1, <1>3, InvalidAnswers DEF SetInterface, Refused, Outcome
<1> QED BY <1>2, <1>3

LEMMA GettersDo ==
  ASSUME NEW d \in Device, NEW r \in Request, r.name \in Reads \ ClassRequests
  PROVE  Untouched(Handle(d, r).device, d) /\ Handle(d, r).answer \in Answer
<1> DEFINE Good(x) == Untouched(x.device, d) /\ x.answer \in Answer
<1>1. Untouched(d, d) /\ Good(Refused(d))
  BY InvalidAnswers DEF Untouched, Refused, Outcome
<1>2. Good(DeviceCallback(d, r))
  BY CallbackAnswers
<1>3. CASE r.name = "GET_CONFIGURATION"
  <2>1. Handle(d, r) = GetConfiguration(d, r)
    BY <1>3 DEF Handle, ClassRequests
  <2> QED BY <1>1, <1>2, <2>1 DEF GetConfiguration
<1>4. CASE r.name = "GET_INTERFACE"
  <2>1. Handle(d, r) = GetInterface(d, r)
    BY <1>4 DEF Handle, ClassRequests
  <2>2. Untouched(Standard(d, 0), d)
    BY StandardDoes
  <2>3. Good(DeviceCallback(Standard(d, 0), r))
    <3>1. Standard(d, 0) \in Device
      BY <2>2 DEF Untouched
    <3>2. /\ Untouched(DeviceCallback(Standard(d, 0), r).device, Standard(d, 0))
          /\ DeviceCallback(Standard(d, 0), r).answer \in Answer
      BY <3>1, CallbackAnswers
    <3> QED BY <2>2, <3>2 DEF Untouched
  <2> QED BY <1>1, <2>1, <2>3 DEF GetInterface
<1>5. CASE r.name \in {"GET_DEVICE_DESCRIPTOR", "GET_CONFIGURATION_DESCRIPTOR", "GET_STRING_DESCRIPTOR"}
  <2>1. Handle(d, r) = GetDescriptor(d, r)
    BY <1>5 DEF Handle, ClassRequests
  <2> QED BY <1>1, <1>2, <2>1 DEF GetDescriptor
<1> QED BY <1>3, <1>4, <1>5 DEF Reads, ClassRequests

(* The address is noted, and is not that of the controller yet.              *)
LEMMA SetAddressDoes ==
  ASSUME NEW d \in Device, NEW r \in Request, r.value \in 0 .. 127, r.name = "SET_ADDRESS", d.state # "Addressing"
  PROVE  LET e == SetAddress(d, r).device
         IN  /\ SetAddress(d, r).answer \in Answer /\ SetAddress(d, r).answer.length = 0
             /\ SetAddress(d, r).answer.error \in {"Success", "InvalidRequest"}
             /\ SetAddress(d, r).answer.error # "Success" => e = d
             /\ SetAddress(d, r).answer.error = "Success" =>
                  /\ r.length = 0 /\ r.index = 0 /\ e.state = "Addressing" /\ e.deviceAddress = r.value
                  /\ e.ADDR = d.ADDR /\ e.configuration = d.configuration
                  /\ e.currentConfiguration = d.currentConfiguration /\ e.memory = d.memory
             /\ e \in Device
<1>1. CASE r.index # 0 \/ r.length # 0
  BY <1>1, InvalidAnswers DEF SetAddress, Refused, Outcome
<1>2. CASE ~(r.index # 0 \/ r.length # 0)
  <2> DEFINE e == [d EXCEPT !.state = "Addressing", !.deviceAddress = r.value]
  <2>1. SetAddress(d, r) = Accepted(e)
    BY <1>2 DEF SetAddress, State, Device
  <2>2. /\ e \in Device /\ e.state = "Addressing" /\ e.deviceAddress = r.value
        /\ e.ADDR = d.ADDR /\ e.configuration = d.configuration
        /\ e.currentConfiguration = d.currentConfiguration /\ e.memory = d.memory
    <3> DEFINE f == [d EXCEPT !.state = "Addressing"]
    <3>1. f \in Device
      BY DeviceWith
    <3>2. [f EXCEPT !.deviceAddress = r.value] \in Device
      <4> HIDE DEF f
      <4> QED BY <3>1, DeviceWith
    <3>3. e = [f EXCEPT !.deviceAddress = r.value]
      BY DEF Device
    <3> HIDE DEF f
    <3>4. e \in Device
      BY <3>2, <3>3
    <3> QED BY <3>4 DEF Device
  <2> HIDE DEF e
  <2>3. 0 \in Nat /\ "NULL" \in Buffers
    BY DEF Buffers
  <2>4. Found("NULL", 0) \in Answer /\ Found("NULL", 0).length = 0 /\ Found("NULL", 0).error = "Success"
    BY <2>3, FoundAnswers
  <2> QED BY <1>2, <2>1, <2>2, <2>4 DEF Accepted, Outcome
<1> QED BY <1>1, <1>2

(* In the status stage it becomes that.                                     *)
LEMMA AddressTaken ==
  ASSUME NEW d \in Device, NEW r, d.state = "Addressing"
  PROVE  LET e == SetAddress(d, r).device
         IN  \/ e = d /\ (r.index # 0 \/ r.length # 0)
             \/ /\ e \in Device /\ e.state = "Address" /\ e.ADDR = d.deviceAddress
                /\ e.deviceAddress = d.deviceAddress /\ e.configuration = d.configuration
                /\ e.currentConfiguration = d.currentConfiguration /\ e.memory = d.memory
<1> DEFINE e == [d EXCEPT !.state = "Address", !.ADDR = d.deviceAddress]
<1>1. SetAddress(d, r) = IF r.index # 0 \/ r.length # 0 THEN Refused(d) ELSE Accepted(e)
  BY DEF SetAddress, State, Device
<1>2. /\ e \in Device /\ e.state = "Address" /\ e.ADDR = d.deviceAddress
      /\ e.deviceAddress = d.deviceAddress /\ e.configuration = d.configuration
      /\ e.currentConfiguration = d.currentConfiguration /\ e.memory = d.memory
  <2>1. d.deviceAddress \in 0 .. 127
    BY DEF Device
  <2> DEFINE f == [d EXCEPT !.state = "Address"]
  <2>2. f \in Device
    BY DeviceWith
  <2>3. [f EXCEPT !.ADDR = d.deviceAddress] \in Device
    <3> HIDE DEF f
    <3> QED BY <2>1, <2>2, DeviceWith
  <2>4. e = [f EXCEPT !.ADDR = d.deviceAddress]
    BY DEF Device
  <2> HIDE DEF f
  <2>5. e \in Device
    BY <2>3, <2>4
  <2> QED BY <2>5 DEF Device
<1> HIDE DEF e
<1> QED BY <1>1, <1>2 DEF Refused, Accepted, Outcome

(* The class, the device layer and the application take the configuration, if it  *)
(* is one of the two that there are.                                        *)
LEMMA SetConfigurationDoes ==
  ASSUME NEW d \in Device, NEW r \in Request, r.name = "SET_CONFIGURATION"
  PROVE  LET e == SetConfiguration(d, r).device
             a == SetConfiguration(d, r).answer
         IN  /\ a \in Answer /\ a.length = 0
             /\ e \in Device /\ e.ADDR = d.ADDR /\ e.deviceAddress = d.deviceAddress
             /\ \A b \in Settings : e.memory[b] = d.memory[b]
             /\ e.state = "Addressing" <=> d.state = "Addressing"
             /\ \/ e = d /\ a.error = "InvalidRequest"
                \/ /\ d.state \in {"Address", "Configured"} /\ r.length = 0
                   /\ e.state = IF r.value = 0 THEN "Address" ELSE "Configured"
                   /\ e.configuration = r.value
                   /\ r.value \in {0, CONFIGURE_INDEX} => a.error = "Success" /\ e.currentConfiguration = r.value
<1>1. CASE ~(d.state \in {"Address", "Configured"} /\ r.index = 0 /\ r.length = 0)
  BY <1>1, InvalidAnswers DEF SetConfiguration, Refused, Outcome
<1>2. CASE d.state \in {"Address", "Configured"} /\ r.index = 0 /\ r.length = 0
  <2> DEFINE state == IF r.value = 0 THEN "Address" ELSE "Configured"
             s == State(d, state)
             t == [s EXCEPT !.configuration = r.value, !.alternate = 0]
             c == ClassSetConfiguration(s, r.value)
  <2>1. SetConfiguration(d, r) = DeviceCallback(c, r)
    BY <1>2 DEF SetConfiguration
  <2> DEFINE Taken(x) == /\ x \in Device /\ x.ADDR = d.ADDR /\ x.deviceAddress = d.deviceAddress
                         /\ x.memory = d.memory /\ x.state = state
  <2>2. state \in {"Address", "Configured"} /\ r.value \in 0 .. 255
    BY DEF Request
  <2>3. Taken(s) /\ s.configuration = d.configuration
    <3> HIDE DEF state
    <3>1. s = [d EXCEPT !.state = state]
      BY DEF State
    <3> HIDE DEF s
    <3>2. s \in Device
      BY <2>2, <3>1 DEF Device
    <3> QED BY <3>1, <3>2 DEF Device
  <2>4. Taken(t) /\ t.configuration = r.value
    <3> DEFINE f == [s EXCEPT !.configuration = r.value]
    <3> HIDE DEF state, s
    <3>1. f \in Device
      BY <2>2, <2>3, DeviceWith
    <3>2. t = [f EXCEPT !.alternate = 0]
      BY <2>3 DEF Device
    <3> HIDE DEF f
    <3>3. t \in Device
      <4>1. 0 \in 0 .. 255
        OBVIOUS
      <4>2. [f EXCEPT !.alternate = 0] \in Device
        BY <3>1, <4>1, DeviceWith
      <4> QED BY <3>2, <4>2
    <3> QED BY <2>2, <2>3, <3>3 DEF Device
  <2>5. Taken(c) /\ c.configuration = r.value
    <3> DEFINE set == {i \in InterfaceList : i.alternate = t.alternate}
               opened == IF t.configuration \in 1 .. CONFIGURATION_COUNT /\ \E i \in set : i.class = "COMM"
                           THEN UNION {i.endpoints : i \in set} ELSE {}
    <3>1. opened \in SUBSET (CicEndpoints \cup DicEndpoints)
      BY DEF InterfaceList
    <3>2. EndpointsInit(t) = [t EXCEPT !.opened = opened]
      BY DEF EndpointsInit
    <3>3. c = IF s.configuration = r.value THEN s ELSE EndpointsInit(t)
      BY DEF ClassSetConfiguration
    <3> HIDE DEF opened, t, s, c, state
    <3>4. Taken(EndpointsInit(t)) /\ EndpointsInit(t).configuration = r.value
      BY <2>4, <3>1, <3>2 DEF Device
    <3> QED BY <2>3, <3>3, <3>4
  <2> HIDE DEF c
  <2> DEFINE y == [c EXCEPT !.currentConfiguration = r.value]
  <2>6. Taken(y) /\ y.configuration = r.value /\ y.currentConfiguration = r.value
    <3> HIDE DEF state
    <3> QED BY <2>2, <2>5 DEF Device
  <2>7. DeviceCallback(c, r) = IF r.value \in {0, CONFIGURE_INDEX} THEN Accepted(y) ELSE Refused(c)
    BY DEF DeviceCallback
  <2> HIDE DEF y
  <2>8. 0 \in Nat /\ "NULL" \in Buffers
    BY DEF Buffers
  <2>9. Found("NULL", 0) \in Answer /\ Found("NULL", 0).length = 0 /\ Found("NULL", 0).error = "Success"
    BY <2>8, FoundAnswers
  <2> QED BY <1>2, <2>1, <2>2, <2>5, <2>6, <2>7, <2>9, InvalidAnswers DEF Accepted, Refused, Outcome
<1> QED BY <1>1, <1>2

LEMMA AddressesFit ==
  ASSUME NEW r \in Requests, r.name = "SET_ADDRESS"
  PROVE  r.value \in 1 .. 127
<1>1. r.value \in Addresses
  BY ControlAssumption
<1> QED BY <1>1, ControlAssumption

(* Of every request, in a state in which no address is pending.               *)
LEMMA HandleAgrees ==
  ASSUME NEW d \in Device, NEW r \in Requests, d.state # "Addressing"
  PROVE  Handle(d, r).device \in Device /\ Agrees(r, Handle(d, r).answer)
<1>1. r \in Request /\ r.name # "none" /\ r.name \in Reads \cup Writes
  BY Constants DEF Request
<1>2. CASE r.name \in ClassRequests
  <2>1. Handle(d, r) = Outcome(d, ClassRequest(r))
    BY <1>2 DEF Handle, ClassRequests
  <2> QED BY <1>1, <1>2, <2>1, ClassAnswers DEF Outcome
<1>3. CASE r.name = "SET_ADDRESS"
  <2>1. Handle(d, r) = SetAddress(d, r) /\ ~Receives(r)
    BY <1>3 DEF Handle, ClassRequests, Receives
  <2>2. r.value \in 0 .. 127
    BY <1>3, AddressesFit
  <2> QED BY <1>1, <1>3, <2>1, <2>2, SetAddressDoes DEF Agrees
<1>4. CASE r.name = "SET_CONFIGURATION"
  <2>1. Handle(d, r) = SetConfiguration(d, r) /\ ~Receives(r)
    BY <1>4 DEF Handle, ClassRequests, Receives
  <2> QED BY <1>1, <1>4, <2>1, SetConfigurationDoes DEF Agrees
<1>5. CASE r.name = "SET_INTERFACE"
  <2>1. Handle(d, r) = SetInterface(d, r) /\ ~Receives(r)
    BY <1>5 DEF Handle, ClassRequests, Receives
  <2> QED BY <1>1, <1>5, <2>1, SetInterfaceDoes DEF Agrees, Untouched
<1>6. CASE r.name \in Reads \ ClassRequests
  <2>1. r.name \notin Writes \ ClassRequests /\ ~Receives(r)
    BY <1>6 DEF Reads, Writes, Receives
  <2> QED BY <1>1, <1>6, <2>1, GettersDo DEF Agrees, Untouched
<1> QED BY <1>1, <1>2, <1>3, <1>4, <1>5, <1>6 DEF Writes, ClassRequests

(* But for SET_ADDRESS a request leaves the address.                         *)
LEMMA HandleKeepsAddress ==
  ASSUME NEW d \in Device, NEW r \in Requests, d.state # "Addressing", r.name # "SET_ADDRESS"
  PROVE  LET e == Handle(d, r).device
         IN  e.ADDR = d.ADDR /\ e.deviceAddress = d.deviceAddress /\ e.state # "Addressing"
<1>1. r \in Request /\ r.name # "none" /\ r.name \in Reads \cup Writes
  BY Constants DEF Request
<1>2. CASE r.name \in ClassRequests
  <2>1. Handle(d, r).device = d
    BY <1>2 DEF Handle, ClassRequests, Outcome
  <2> QED BY <2>1
<1>3. CASE r.name = "SET_CONFIGURATION"
  <2>1. Handle(d, r) = SetConfiguration(d, r)
    BY <1>3 DEF Handle, ClassRequests
  <2> QED BY <1>1, <1>3, <2>1, SetConfigurationDoes
<1>4. CASE r.name = "SET_INTERFACE"
  <2>1. Handle(d, r) = SetInterface(d, r)
    BY <1>4 DEF Handle, ClassRequests
  <2> QED BY <1>1, <1>4, <2>1, SetInterfaceDoes DEF Untouched
<1>5. CASE r.name \in Reads \ ClassRequests
  BY <1>1, <1>5, GettersDo DEF Untouched
<1> QED BY <1>1, <1>2, <1>3, <1>4, <1>5 DEF Writes, ClassRequests
------------------------------------------------------------------------------
(* The pipe after a SETUP has been handled.                                 *)

(* Endpoint 0 is stalled, answers with n bytes and listens, or has room for data.  *)
Refuses(e, i, o) == Halted(e["IN"], i) /\ Halted(e["OUT"], o)

Replies(e, i, o, n) ==
  /\ Offers(e["IN"], i) /\ e["IN"].transferDone = 0 /\ e["IN"].transferLength = n /\ e["IN"].data0 = 1
  /\ e["IN"].bd[i].len = Least(n, MaxPacketSize) /\ e["IN"].bd[i].data01 = 1
  /\ Listening(e["OUT"], o)

Collects(e, i, o, r) ==
  /\ Receives(r) /\ Empty(e["IN"], i) /\ e["IN"].data0 = 1
  /\ Offers(e["OUT"], o) /\ e["OUT"].bd[o].data01 = 1 /\ Sets(r) = {e["OUT"].transferBuffer}

LEMMA FeedbackDoes ==
  ASSUME NEW e \in Pipe, NEW i \in Bit, NEW o \in Bit, Empty(e["IN"], i), Empty(e["OUT"], o), e["IN"].data0 = 1,
         NEW r \in Request, NEW a \in Answer,
         r.name \in Reads \/ a.length = 0 \/ r.length = 0, r.name # "none"
  PROVE  LET f == Feedback(e, r, a)
         IN  /\ f \in Pipe
             /\ \/ a.error = "InvalidRequest" /\ Refuses(f, i, o)
                \/ /\ a.error # "InvalidRequest"
                   /\ \E n \in 0 .. r.length : n <= a.length /\ Replies(f, i, o, n)
<1>1. r.length \in Nat /\ a.length \in Nat /\ a.buffer \in Buffers /\ "NULL" \in Buffers
  BY DEF Request, Answer, Buffers
<1>2. CASE a.error = "InvalidRequest"
  <2>1. Feedback(e, r, a) = StallEndpoint(e)
    BY <1>2 DEF Feedback
  <2> QED BY <1>2, <2>1, StallEndpointDoes DEF Refuses
<1>3. CASE a.error # "InvalidRequest"
  <2> DEFINE n == IF a.error = "Success" THEN Least(a.length, r.length) ELSE 0
             b == IF a.error = "Success" THEN a.buffer ELSE "NULL"
             f == Send(e, b, n)
  <2>1. n \in Nat /\ n <= r.length /\ n <= a.length /\ b \in Buffers /\ (r.name \in Reads \/ n = 0)
    BY <1>1 DEF Least
  <2>2. Feedback(e, r, a) = IF r.name \in Reads THEN Recv(f, "NULL", 0) ELSE f
    BY <1>3 DEF Feedback
  <2> HIDE DEF n, b
  <2>3. /\ f \in Pipe /\ Offers(f["IN"], i) /\ f["IN"].data0 = e["IN"].data0
        /\ f["IN"].transferBuffer = b /\ f["IN"].transferLength = n /\ f["IN"].transferDone = 0
        /\ f["IN"].bd[i].len = Least(n, MaxPacketSize) /\ f["IN"].bd[i].data01 = e["IN"].data0
        /\ IF n = 0 THEN Listening(f["OUT"], o) ELSE f["OUT"] = e["OUT"]
    BY <2>1, SendBegins
  <2> HIDE DEF f
  <2>4. n \in 0 .. r.length
    BY <1>1, <2>1
  <2>5. CASE r.name \in Reads
    <3>1. f["OUT"].bdtOdd = o /\ ~f["OUT"].bd[Flip(o)].own
      BY <2>3, Flipping DEF Listening, Offers, Empty, Free
    <3>2. LET g == Recv(f, "NULL", 0)
          IN  g \in Pipe /\ g["IN"] = f["IN"] /\ Listening(g["OUT"], o)
      BY <1>1, <2>3, <3>1, RecvNothingDoes
    <3>3. Recv(f, "NULL", 0) \in Pipe /\ Replies(Recv(f, "NULL", 0), i, o, n)
      BY <2>3, <3>2 DEF Replies
    <3> QED BY <1>3, <2>1, <2>2, <2>4, <2>5, <3>3
  <2>6. CASE r.name \notin Reads
    <3>1. Replies(f, i, o, n)
      BY <2>1, <2>3, <2>6 DEF Replies
    <3> QED BY <1>3, <2>1, <2>2, <2>3, <2>4, <2>6, <3>1
  <2> QED BY <2>5, <2>6
<1> QED BY <1>2, <1>3

(* The answer that the control pipe gives in the end.                        *)
Final(a) == IF a.length # 0 /\ a.buffer = "NULL" THEN InvalidRequest ELSE a

LEMMA SetupStageDoes ==
  ASSUME NEW e \in Pipe, NEW i \in Bit, NEW o \in Bit, Empty(e["IN"], i), Empty(e["OUT"], o),
         e["IN"].data0 = 1, e["OUT"].data0 = 1,
         NEW r \in Request, r.name # "none", NEW a, Agrees(r, a)
  PROVE  LET f == SetupStage(e, r, a)
         IN  /\ f \in Pipe
             /\ \/ Refuses(f, i, o) /\ (Receives(r) \/ Final(a).error = "InvalidRequest")
                \/ /\ ~Receives(r) /\ Final(a).error # "InvalidRequest"
                   /\ \E n \in 0 .. r.length : n <= Final(a).length /\ Replies(f, i, o, n)
                \/ Collects(f, i, o, r)
<1>1. /\ r.length \in Nat /\ a \in Answer /\ a.length \in Nat /\ a.buffer \in Buffers
      /\ r.name \in Reads \cup Writes
  BY DEF Request, Answer, Agrees
<1>2. CASE ~Receives(r)
  <2> DEFINE b == Final(a)
  <2>1. b \in Answer /\ (r.name \in Reads \/ b.length = 0 \/ r.length = 0)
    <3>1. r.name \in Reads \/ a.length = 0 \/ r.length = 0
      BY <1>1, <1>2 DEF Receives, Agrees
    <3> QED BY <1>1, <3>1, InvalidAnswers DEF Final
  <2>2. SetupStage(e, r, a) = Feedback(e, r, b)
    BY <1>2 DEF SetupStage, Final
  <2> HIDE DEF b
  <2>3. LET f == Feedback(e, r, b)
        IN  /\ f \in Pipe
            /\ \/ b.error = "InvalidRequest" /\ Refuses(f, i, o)
               \/ /\ b.error # "InvalidRequest"
                  /\ \E n \in 0 .. r.length : n <= b.length /\ Replies(f, i, o, n)
    BY <2>1, FeedbackDoes
  <2> QED BY <1>2, <2>2, <2>3 DEF b
<1>3. CASE Receives(r) /\ a.error = "Success"
  <2> DEFINE n == Least(a.length, r.length)
  <2>1. SetupStage(e, r, a) = Recv(e, a.buffer, n)
    BY <1>3 DEF SetupStage
  <2>2. n \in Nat \ {0} /\ Sets(r) = {a.buffer}
    BY <1>1, <1>3 DEF Agrees, Least, Receives
  <2> HIDE DEF n
  <2>3. LET f == Recv(e, a.buffer, n)
        IN  /\ f \in Pipe /\ f["IN"] = e["IN"] /\ Offers(f["OUT"], o)
            /\ f["OUT"].transferBuffer = a.buffer /\ f["OUT"].bd[o].data01 = e["OUT"].data0
    BY <1>1, <2>2, RecvDoes
  <2> QED BY <1>3, <2>1, <2>2, <2>3 DEF Collects
<1>4. CASE Receives(r) /\ a.error # "Success"
  <2>1. SetupStage(e, r, a) = StallEndpoint(e)
    BY <1>4 DEF SetupStage
  <2> QED BY <1>4, <2>1, StallEndpointDoes DEF Refuses
<1> QED BY <1>2, <1>3, <1>4

LEMMA SetupCountedDoes ==
  ASSUME NEW e \in Pipe, NEW i \in Bit, NEW o \in Bit, Empty(e["IN"], i), Used(e["OUT"], o)
  PROVE  LET f == SetupCounted(e)
         IN  /\ f \in Pipe /\ Empty(f["IN"], i) /\ Empty(f["OUT"], o)
             /\ f["IN"].data0 = 1 /\ f["OUT"].data0 = 1
<1> DEFINE t == TokenCounted(e["OUT"], SETUP_PACKET_SIZE)
           u == [t EXCEPT !.data0 = 1]
           c == Cancel(u)
           v == [e["IN"] EXCEPT !.data0 = 1]
<1>1. e["IN"] \in GoodEp /\ e["OUT"] \in GoodEp /\ 1 \in Bit /\ SETUP_PACKET_SIZE \in Nat
  BY PipeParts DEF Bit, SETUP_PACKET_SIZE
<1>2. t \in GoodEp /\ t.bd = e["OUT"].bd /\ t.bdtOdd = Flip(e["OUT"].bdtOdd)
  BY <1>1, TokenCountedDoes
<1>3. t.bdtOdd = o /\ Free(t)
  BY <1>2, Flipping DEF Used, Free
<1> HIDE DEF t
<1>4. u \in GoodEp /\ u.bd = t.bd /\ u.bdtOdd = o /\ u.data0 = 1
  BY <1>1, <1>2, <1>3, BitsGood
<1> HIDE DEF u
<1>5. c \in GoodEp /\ ~c.transferring /\ c.bd = u.bd /\ c.bdtOdd = o /\ c.data0 = 1
  BY <1>4, CancelDoes DEF Same
<1>6. v \in GoodEp /\ v.bd = e["IN"].bd /\ v.bdtOdd = i /\ v.data0 = 1 /\ v.transferring = e["IN"].transferring
  BY <1>1, BitsGood DEF Empty
<1>7. SetupCounted(e) = [e EXCEPT !["OUT"] = c, !["IN"] = v]
  BY DEF SetupCounted, t, u, c, v, Pipe, Dir
<1> HIDE DEF c, v
<1>8. SetupCounted(e) \in Pipe /\ SetupCounted(e)["IN"] = v /\ SetupCounted(e)["OUT"] = c
  BY <1>5, <1>6, <1>7 DEF Pipe, Dir
<1> QED BY <1>3, <1>4, <1>5, <1>6, <1>8 DEF Empty, Free
------------------------------------------------------------------------------
(* What the host makes of an answer.                                        *)

LEMMA NoRequestFits == NoRequest \in Request /\ NoRequest.name = "none" /\ Sets(NoRequest) = {}
BY DEF NoRequest, Request, Sets

Stores == [Settings -> SUBSET Nat]
Addrs == 0 .. 127
Bytes == 0 .. 255

(* A host with one of its fields replaced.                                  *)
LEMMA HostWith ==
  ASSUME NEW h \in Host
  PROVE  /\ \A x \in {"idle", "dataIn", "dataOut", "statusIn", "statusOut"} : [h EXCEPT !.stage = x] \in Host
         /\ \A x \in Request : [h EXCEPT !.request = x] \in Host
         /\ \A x \in Nat : [h EXCEPT !.payload = x] \in Host
         /\ \A x \in Bit : [h EXCEPT !.toggle = x] \in Host
         /\ \A x \in Seq(Packet) : [h EXCEPT !.got = x] \in Host
         /\ \A x \in Nat : [h EXCEPT !.received = x] \in Host
         /\ \A x \in 0 .. MaxLost : [h EXCEPT !.lost = x] \in Host
         /\ \A x \in 0 .. 127 : [h EXCEPT !.address = x] \in Host
         /\ \A x \in 0 .. 255 : [h EXCEPT !.configuration = x] \in Host
         /\ \A x \in [Settings -> SUBSET Nat] : [h EXCEPT !.stored = x] \in Host
<1> DEFINE Stages == {"idle", "dataIn", "dataOut", "statusIn", "statusOut"}
           Packets == Seq(Packet)
           Losses == 0 .. MaxLost
<1>0. Host = [stage : Stages, request : Request, payload : Nat, toggle : Bit, got : Packets,
             received : Nat, lost : Losses, address : Addrs, configuration : Bytes, stored : Stores]
  BY DEF Host, Stores, Addrs, Bytes
<1> HIDE DEF Stages, Packets, Losses
<1>1. \A x \in Stages : [h EXCEPT !.stage = x] \in Host
  BY <1>0
<1>2. \A x \in Request : [h EXCEPT !.request = x] \in Host
  BY <1>0
<1>3. \A x \in Nat : [h EXCEPT !.payload = x] \in Host
  BY <1>0
<1>4. \A x \in Bit : [h EXCEPT !.toggle = x] \in Host
  BY <1>0
<1>5. \A x \in Packets : [h EXCEPT !.got = x] \in Host
  BY <1>0
<1>6. \A x \in Nat : [h EXCEPT !.received = x] \in Host
  BY <1>0
<1>7. \A x \in Losses : [h EXCEPT !.lost = x] \in Host
  BY <1>0
<1>8. \A x \in Addrs : [h EXCEPT !.address = x] \in Host
  BY <1>0
<1>9. \A x \in Bytes : [h EXCEPT !.configuration = x] \in Host
  BY <1>0
<1>10. \A x \in Stores : [h EXCEPT !.stored = x] \in Host
  BY <1>0
<1> QED BY <1>1, <1>2, <1>3, <1>4, <1>5, <1>6, <1>7, <1>8, <1>9, <1>10
     DEF Stages, Packets, Losses, Addrs, Bytes, Stores

LEMMA HostIdle ==
  ASSUME NEW h \in Host
  PROVE  LET g == Idle(h)
         IN  /\ g \in Host /\ g.stage = "idle" /\ g.request = NoRequest /\ g.toggle = 0 /\ g.got = << >>
             /\ g.address = h.address /\ g.configuration = h.configuration /\ g.stored = h.stored
<1> DEFINE h1 == [h EXCEPT !.stage = "idle"]
           h2 == [h1 EXCEPT !.request = NoRequest]
           h3 == [h2 EXCEPT !.payload = 0]
           h4 == [h3 EXCEPT !.toggle = 0]
           h5 == [h4 EXCEPT !.got = << >>]
           h6 == [h5 EXCEPT !.received = 0]
           h7 == [h6 EXCEPT !.lost = 0]
<1>1. Idle(h) = h7
  BY DEF Idle, Host
<1>2. /\ h7.stage = "idle" /\ h7.request = NoRequest /\ h7.toggle = 0 /\ h7.got = << >>
      /\ h7.address = h.address /\ h7.configuration = h.configuration /\ h7.stored = h.stored
  BY DEF Host
<1>3. h7 \in Host
  <2>0. 0 \in Bit /\ 0 \in Nat /\ << >> \in Seq(Packet) /\ 0 \in 0 .. MaxLost
    BY ControlAssumption DEF Bit
  <2>1. h1 \in Host
    BY HostWith
  <2> HIDE DEF h1
  <2>2. h2 \in Host
    BY <2>1, NoRequestFits, HostWith
  <2> HIDE DEF h2
  <2>3. h3 \in Host
    BY <2>0, <2>2, HostWith
  <2> HIDE DEF h3
  <2>4. h4 \in Host
    BY <2>0, <2>3, HostWith
  <2> HIDE DEF h4
  <2>5. h5 \in Host
    BY <2>0, <2>4, HostWith
  <2> HIDE DEF h5
  <2>6. h6 \in Host
    BY <2>0, <2>5, HostWith
  <2> HIDE DEF h6
  <2>7. h7 \in Host
    BY <2>0, <2>6, HostWith
  <2> QED BY <2>7
<1> HIDE DEF h7
<1> QED BY <1>1, <1>2, <1>3

(* The host believes what it has told the device.                            *)
Believing(h, a, c, s) == [h EXCEPT !.address = a, !.configuration = c, !.stored = s]

LEMMA HostBelieves ==
  ASSUME NEW h \in Host, NEW a \in Addrs, NEW c \in Bytes, NEW s \in Stores
  PROVE  LET g == Believing(h, a, c, s)
         IN  /\ g \in Host /\ g.stage = h.stage /\ g.request = h.request /\ g.toggle = h.toggle /\ g.got = h.got
             /\ g.address = a /\ g.configuration = c /\ g.stored = s
<1> DEFINE h1 == [h EXCEPT !.address = a]
           h2 == [h1 EXCEPT !.configuration = c]
           h3 == [h2 EXCEPT !.stored = s]
<1>1. h3 = Believing(h, a, c, s)
  BY DEF Believing, Host
<1>2. /\ h3.stage = h.stage /\ h3.request = h.request /\ h3.toggle = h.toggle /\ h3.got = h.got
      /\ h3.address = a /\ h3.configuration = c /\ h3.stored = s
  BY DEF Host
<1>3. h3 \in Host
  <2>1. h1 \in Host
    BY HostWith DEF Addrs
  <2> HIDE DEF h1
  <2>2. h2 \in Host
    BY <2>1, HostWith DEF Bytes
  <2> HIDE DEF h2
  <2>3. h3 \in Host
    BY <2>2, HostWith DEF Stores
  <2> QED BY <2>3
<1> HIDE DEF h3
<1> QED BY <1>1, <1>2, <1>3

LEMMA HostFinished ==
  ASSUME NEW h \in Host, h.request \in Requests \cup {NoRequest}
  PROVE  LET g == Finished(h)
             r == h.request
         IN  /\ g \in Host /\ g.stage = "idle" /\ g.request = NoRequest /\ g.toggle = 0 /\ g.got = << >>
             /\ g.address = IF r.name = "SET_ADDRESS" THEN r.value ELSE h.address
             /\ g.configuration = IF r.name = "SET_CONFIGURATION" THEN r.value ELSE h.configuration
             /\ \A b \in Settings : g.stored[b] = IF b \in Sets(r) THEN {h.payload} ELSE h.stored[b]
<1> DEFINE i == Idle(h)
           a == IF h.request.name = "SET_ADDRESS" THEN h.request.value ELSE h.address
           c == IF h.request.name = "SET_CONFIGURATION" THEN h.request.value ELSE h.configuration
           s == [b \in Settings |-> IF b \in Sets(h.request) THEN {h.payload} ELSE h.stored[b]]
<1>1. /\ i \in Host /\ i.stage = "idle" /\ i.request = NoRequest /\ i.toggle = 0 /\ i.got = << >>
      /\ i.address = h.address /\ i.configuration = h.configuration /\ i.stored = h.stored
  BY HostIdle
<1>2. h.address \in 0 .. 127 /\ h.configuration \in 0 .. 255 /\ h.payload \in Nat
      /\ h.stored \in [Settings -> SUBSET Nat] /\ h.request \in Request
  BY DEF Host
<1>3. a \in 0 .. 127
  BY <1>2, AddressesFit, NoRequestFits
<1>4. c \in 0 .. 255
  BY <1>2 DEF Request
<1>5. s \in [Settings -> SUBSET Nat]
  BY <1>2
<1>6. Finished(h) = Believing(i, a, c, s)
  BY <1>1 DEF Finished, Believing
<1> HIDE DEF i, a, c
<1>7. \A b \in Settings : s[b] = IF b \in Sets(h.request) THEN {h.payload} ELSE h.stored[b]
  OBVIOUS
<1> HIDE DEF s
<1>8. LET g == Believing(i, a, c, s)
      IN  /\ g \in Host /\ g.stage = i.stage /\ g.request = i.request /\ g.toggle = i.toggle /\ g.got = i.got
          /\ g.address = a /\ g.configuration = c /\ g.stored = s
  <2>1. i \in Host
    BY <1>1
  <2>2. s \in Stores /\ a \in Addrs /\ c \in Bytes
    BY <1>3, <1>4, <1>5 DEF Stores, Addrs, Bytes
  <2> QED BY <2>1, <2>2, HostBelieves
<1> QED BY <1>1, <1>6, <1>7, <1>8 DEF a, c

LEMMA HostBrokenOff ==
  ASSUME NEW h \in Host
  PROVE  LET g == BrokenOff(h)
             r == h.request
         IN  /\ g \in Host /\ g.stage = "idle" /\ g.request = NoRequest /\ g.toggle = 0 /\ g.got = << >>
             /\ g.address = 0 /\ g.configuration = 0
             /\ \A b \in Settings : g.stored[b] = IF b \in Sets(r) THEN h.stored[b] \cup {h.payload} ELSE h.stored[b]
<1> DEFINE i == Idle(h)
           s == [b \in Settings |-> IF b \in Sets(h.request) THEN h.stored[b] \cup {h.payload} ELSE h.stored[b]]
<1>1. /\ i \in Host /\ i.stage = "idle" /\ i.request = NoRequest /\ i.toggle = 0 /\ i.got = << >>
      /\ i.stored = h.stored
  BY HostIdle
<1>2. h.payload \in Nat /\ h.stored \in [Settings -> SUBSET Nat]
  BY DEF Host
<1>3. s \in [Settings -> SUBSET Nat]
  BY <1>2
<1>4. BrokenOff(h) = Believing(i, 0, 0, s)
  BY <1>1 DEF BrokenOff, Believing
<1> HIDE DEF i
<1>5. \A b \in Settings : s[b] = IF b \in Sets(h.request) THEN h.stored[b] \cup {h.payload} ELSE h.stored[b]
  OBVIOUS
<1> HIDE DEF s
<1>6. LET g == Believing(i, 0, 0, s)
      IN  /\ g \in Host /\ g.stage = i.stage /\ g.request = i.request /\ g.toggle = i.toggle /\ g.got = i.got
          /\ g.address = 0 /\ g.configuration = 0 /\ g.stored = s
  <2>1. 0 \in Addrs /\ 0 \in Bytes /\ i \in Host
    BY <1>1 DEF Addrs, Bytes
  <2>2. s \in Stores
    BY <1>3 DEF Stores
  <2> QED BY <2>1, <2>2, HostBelieves
<1> QED BY <1>1, <1>4, <1>5, <1>6

LEMMA DeviceResetDoes ==
  ASSUME NEW d \in Device
  PROVE  LET e == DeviceReset(d)
         IN  /\ e \in Device /\ e.state = "Default" /\ e.deviceAddress = 0 /\ e.ADDR = 0
             /\ e.configuration = 0 /\ e.currentConfiguration = 0 /\ e.opened = {}
             /\ \A b \in Settings : e.memory[b] = d.memory[b]
<1> DEFINE m == [d.memory EXCEPT !["dmaAlignBuffer"] = 0]
           d1 == [d EXCEPT !.state = "Default"]
           d2 == [d1 EXCEPT !.deviceAddress = 0]
           d3 == [d2 EXCEPT !.ADDR = 0]
           d4 == [d3 EXCEPT !.configuration = 0]
           d5 == [d4 EXCEPT !.opened = {}]
           d6 == [d5 EXCEPT !.currentConfiguration = 0]
           d7 == [d6 EXCEPT !.memory = m]
<1>1. m \in [Stored -> Nat] /\ \A b \in Settings : m[b] = d.memory[b]
  BY DEF Device, Stored, Settings
<1>2. DeviceReset(d) = d7
  BY DEF DeviceReset, Device
<1>3. d7 \in Device
  <2>0. 0 \in 0 .. 127 /\ 0 \in 0 .. 255 /\ {} \in SUBSET (CicEndpoints \cup DicEndpoints)
    OBVIOUS
  <2>1. d1 \in Device
    BY DeviceWith
  <2> HIDE DEF d1
  <2>2. d2 \in Device
    BY <2>0, <2>1, DeviceWith
  <2> HIDE DEF d2
  <2>3. d3 \in Device
    BY <2>0, <2>2, DeviceWith
  <2> HIDE DEF d3
  <2>4. d4 \in Device
    BY <2>0, <2>3, DeviceWith
  <2> HIDE DEF d4
  <2>5. d5 \in Device
    BY <2>0, <2>4, DeviceWith
  <2> HIDE DEF d5
  <2>6. d6 \in Device
    BY <2>0, <2>5, DeviceWith
  <2> HIDE DEF d6
  <2>7. d7 \in Device
    BY <1>1, <2>6, DeviceWith
  <2> QED BY <2>7
<1>4. /\ d7.state = "Default" /\ d7.deviceAddress = 0 /\ d7.ADDR = 0 /\ d7.configuration = 0
      /\ d7.currentConfiguration = 0 /\ d7.opened = {} /\ d7.memory = m
  BY DEF Device
<1> HIDE DEF d7, m
<1> QED BY <1>1, <1>2, <1>3, <1>4
------------------------------------------------------------------------------
(* The inductive invariant.                                                 *)

Types ==
  /\ ep \in Pipe /\ odd \in [Dir -> Bit] /\ stallInterrupt \in BOOLEAN
  /\ setupPacketBuffer \in [Bit -> Request] /\ setupBufferIndex \in Bit
  /\ device \in Device /\ host \in Host

IInv == Types /\ PipeInv /\ AddressInv

QueueShapes ==
  /\ tokens = << >> => ~InPending /\ ~DataPending /\ ~SetupPending
  /\ tokens = <<SentTok>> => InPending /\ ~DataPending /\ ~SetupPending
  /\ DataPending => tokens = <<DataTok>> /\ ~InPending /\ ~SetupPending
  /\ tokens = <<SetupTok>> => ~InPending /\ ~DataPending /\ SetupPending
  /\ tokens = <<SentTok, SetupTok>> => InPending /\ ~DataPending /\ SetupPending
  /\ InPending => tokens = IF SetupPending THEN <<SentTok, SetupTok>> ELSE <<SentTok>>
  /\ SetupPending => tokens = IF InPending THEN <<SentTok, SetupTok>> ELSE <<SetupTok>>

LEMMA Queues == QueueShapes /\ QueueShapes'
<1>1. QueueShapes
  BY DEF QueueShapes, InPending, DataPending, SetupPending, SentTok, DataTok, SetupTok, Tok
<1>2. QueueShapes'
  BY DEF QueueShapes, InPending, DataPending, SetupPending, SentTok, DataTok, SetupTok, Tok
<1> QED BY <1>1, <1>2

(* A direction is in one of four conditions.                                *)
LEMMA Conditions ==
  ASSUME NEW e \in GoodEp, NEW k \in Bit
  PROVE  /\ Offers(e, k) => e.transferring /\ e.bdtOdd = k /\ ~Empty(e, k) /\ ~Halted(e, k) /\ ~Used(e, k)
         /\ Used(e, k) => e.transferring /\ e.bdtOdd = Flip(k) /\ ~Empty(e, k) /\ ~Halted(e, k)
         /\ Empty(e, k) => ~e.transferring /\ e.bdtOdd = k /\ ~Halted(e, k)
         /\ Halted(e, k) => ~e.transferring /\ e.bdtOdd = k
BY Flipping DEF Offers, Used, Empty, Halted, Free

LEMMA Parts ==
  ASSUME Types
  PROVE  I \in GoodEp /\ O \in GoodEp /\ InOdd \in Bit /\ OutOdd \in Bit
BY PipeParts DEF Types, I, O, InOdd, OutOdd, Dir

(* With no transfer under way and no request, nothing is left to say.         *)
LEMMA QuietIn ==
  ASSUME ~I.transferring, host.stage # "statusIn"
  PROVE  InInv
BY DEF InInv

LEMMA QuietOut ==
  ASSUME Listening(O, OutOdd), host.stage # "dataOut", ~DataPending
  PROVE  OutInv
BY DEF OutInv, Listening

(* The state after a reset of the bus, and the first one.                    *)
Fresh ==
  /\ ep \in Pipe /\ Empty(I, 0) /\ Listening(O, 0) /\ odd = [dir \in Dir |-> 0]
  /\ tokens = << >> /\ stallInterrupt = FALSE
  /\ setupPacketBuffer = NoPackets /\ setupBufferIndex \in Bit /\ deviceSetup = NoRequest
  /\ device \in Device /\ device.state = "Default" /\ device.deviceAddress = 0 /\ device.ADDR = 0
  /\ host \in Host /\ host.stage = "idle" /\ host.request = NoRequest /\ host.address = 0

LEMMA FreshIsGood ==
  ASSUME Fresh
  PROVE  IInv
<1>1. InOdd = 0 /\ OutOdd = 0 /\ 0 \in Bit /\ odd \in [Dir -> Bit]
  BY DEF Fresh, InOdd, OutOdd, Dir, Bit
<1>2. Types
  <2>1. NoPackets \in [Bit -> Request]
    BY NoRequestFits DEF NoPackets, Bit
  <2> QED BY <1>1, <2>1 DEF Fresh, Types
<1>3. ~InPending /\ ~DataPending /\ ~SetupPending /\ tokens = << >>
  BY Queues DEF Fresh, QueueShapes
<1>4. I \in GoodEp /\ O \in GoodEp
  BY <1>2, Parts
<1>5. Empty(I, InOdd) /\ Offers(O, OutOdd) /\ Listening(O, OutOdd)
  BY <1>1 DEF Fresh, Listening
<1>6. ~I.transferring /\ ~Halted(I, InOdd) /\ ~Halted(O, OutOdd)
  BY <1>1, <1>4, <1>5, Conditions
<1>7. QueueInv
  BY <1>3 DEF QueueInv
<1>8. TurnInv
  BY <1>3, <1>5 DEF TurnInv
<1>9. HaltInv
  BY <1>6 DEF HaltInv, Fresh
<1>10. SetupInv
  BY <1>3 DEF SetupInv, Fresh
<1>11. OutInv /\ InInv
  BY <1>3, <1>5, <1>6, QuietIn, QuietOut DEF Fresh
<1>12. AddressInv
  BY <1>3, <1>6 DEF AddressInv, Fresh, Done
<1> QED BY <1>2, <1>7, <1>8, <1>9, <1>10, <1>11, <1>12 DEF IInv, PipeInv

LEMMA InitFresh ==
  ASSUME Init
  PROVE  Fresh /\ device.configuration = 0 /\ device.currentConfiguration = 0 /\ host.configuration = 0
         /\ device.opened = {} /\ \A b \in Settings : device.memory[b] \in host.stored[b]
<1> DEFINE e == [dir \in Dir |-> NewEndpoint]
           d == [state |-> "Default", deviceAddress |-> 0, ADDR |-> 0, configuration |-> 0,
                 alternate |-> 255, opened |-> {}, currentConfiguration |-> 0,
                 memory |-> [b \in Stored |-> 0]]
<1>1. e \in [Dir -> Endpoint] /\ \A dir \in Dir : e[dir].bdtOdd = 0 /\ e[dir].bd = [i \in Bit |-> NoDescriptor]
  <2>1. NewEndpoint \in Endpoint /\ NewEndpoint.bdtOdd = 0 /\ NewEndpoint.bd = [i \in Bit |-> NoDescriptor]
    BY NoDescriptorGood DEF NewEndpoint, Endpoint, Bit, Buffers
  <2> QED BY <2>1
<1>2. ep = ControlPipeInit(e)
  BY DEF Init
<1> HIDE DEF e
<1>3. ep \in Pipe /\ Empty(I, 0) /\ Listening(O, 0)
  <2>1. LET f == ControlPipeInit(e)
        IN  f \in Pipe /\ Empty(f["IN"], 0) /\ Listening(f["OUT"], 0)
    BY <1>1, ControlPipeInitDoes
  <2> QED BY <1>2, <2>1 DEF I, O
<1>4. d \in Device
  <2>1. 0 \in 0 .. 127 /\ 0 \in 0 .. 255 /\ 255 \in 0 .. 255
    OBVIOUS
  <2> QED BY <2>1 DEF Device
<1>5. device = DeviceReset(d)
  BY DEF Init
<1>6. \A b \in Settings : d.memory[b] = 0
  BY DEF Stored
<1> HIDE DEF d
<1>7. /\ device \in Device /\ device.state = "Default" /\ device.deviceAddress = 0 /\ device.ADDR = 0
      /\ device.configuration = 0 /\ device.currentConfiguration = 0 /\ device.opened = {}
      /\ \A b \in Settings : device.memory[b] = 0
  <2>1. LET f == DeviceReset(d)
        IN  /\ f \in Device /\ f.state = "Default" /\ f.deviceAddress = 0 /\ f.ADDR = 0
            /\ f.configuration = 0 /\ f.currentConfiguration = 0 /\ f.opened = {}
            /\ \A b \in Settings : f.memory[b] = d.memory[b]
    BY <1>4, DeviceResetDoes
  <2> QED BY <1>5, <1>6, <2>1
<1>8. host \in Host
  <2>1. host = [stage |-> "idle", request |-> NoRequest, payload |-> 0, toggle |-> 0, got |-> << >>, received |-> 0,
                lost |-> 0, address |-> 0, configuration |-> 0, stored |-> [b \in Settings |-> {0}]]
    BY DEF Init
  <2>2. 0 \in Addrs /\ 0 \in Bytes /\ 0 \in Bit /\ 0 \in 0 .. MaxLost /\ << >> \in Seq(Packet)
        /\ [b \in Settings |-> {0}] \in Stores
    BY ControlAssumption DEF Addrs, Bytes, Bit, Stores
  <2> DEFINE Losses == 0 .. MaxLost
             Packets == Seq(Packet)
             s == [b \in Settings |-> {0}]
  <2>3. Host = [stage : {"idle", "dataIn", "dataOut", "statusIn", "statusOut"}, request : Request,
                payload : Nat, toggle : Bit, got : Packets, received : Nat, lost : Losses,
                address : Addrs, configuration : Bytes, stored : Stores]
    BY DEF Host, Addrs, Bytes, Stores
  <2> HIDE DEF Losses, Packets, s
  <2>4. 0 \in Losses /\ << >> \in Packets /\ s \in Stores
    BY <2>2 DEF Losses, Packets, s
  <2> QED BY <2>1, <2>2, <2>3, <2>4, NoRequestFits DEF s
<1>9. /\ odd = [dir \in Dir |-> 0] /\ tokens = << >> /\ stallInterrupt = FALSE
      /\ setupPacketBuffer = NoPackets /\ setupBufferIndex \in Bit /\ deviceSetup = NoRequest
  BY DEF Init, Bit
<1>10. /\ host.stage = "idle" /\ host.request = NoRequest /\ host.address = 0 /\ host.configuration = 0
       /\ \A b \in Settings : host.stored[b] = {0}
  BY DEF Init
<1> QED BY <1>3, <1>7, <1>8, <1>9, <1>10 DEF Fresh

LEMMA ResetFresh ==
  ASSUME IInv, BusReset
  PROVE  Fresh'
<1>1. ep \in Pipe /\ device \in Device /\ host \in Host /\ setupBufferIndex \in Bit
  BY DEF IInv, Types
<1> DEFINE e == [dir \in Dir |-> SetDefaultState(ep[dir])]
<1>2. \A dir \in Dir : /\ SetDefaultState(ep[dir]) \in Endpoint /\ SetDefaultState(ep[dir]).bdtOdd = 0
                       /\ SetDefaultState(ep[dir]).bd = [i \in Bit |-> NoDescriptor]
  <2>1. \A dir \in Dir : ep[dir] \in Endpoint
    BY <1>1 DEF Pipe, GoodEp
  <2> QED BY <2>1, SetDefaultStateDoes
<1>3. e \in [Dir -> Endpoint] /\ \A dir \in Dir : e[dir].bdtOdd = 0 /\ e[dir].bd = [i \in Bit |-> NoDescriptor]
  BY <1>2
<1>4. ep' = ControlPipeInit(e)
  BY DEF BusReset
<1> HIDE DEF e
<1>5. ep' \in Pipe /\ Empty(I', 0) /\ Listening(O', 0)
  <2>1. LET f == ControlPipeInit(e)
        IN  f \in Pipe /\ Empty(f["IN"], 0) /\ Listening(f["OUT"], 0)
    BY <1>3, ControlPipeInitDoes
  <2> QED BY <1>4, <2>1 DEF I, O
<1>6. /\ device' \in Device /\ device'.state = "Default" /\ device'.deviceAddress = 0 /\ device'.ADDR = 0
  BY <1>1, DeviceResetDoes DEF BusReset
<1>7. host' \in Host /\ host'.stage = "idle" /\ host'.request = NoRequest /\ host'.address = 0
  BY <1>1, HostBrokenOff DEF BusReset
<1>8. /\ odd' = [dir \in Dir |-> 0] /\ tokens' = << >> /\ stallInterrupt' = FALSE
      /\ setupPacketBuffer' = NoPackets /\ setupBufferIndex' \in Bit /\ deviceSetup' = NoRequest
  BY <1>1 DEF BusReset
<1> QED BY <1>5, <1>6, <1>7, <1>8 DEF Fresh, Listening, Empty, Offers, Free
------------------------------------------------------------------------------
(* The steps. A STALL is answered, and taken back.                           *)

LEMMA PartsNext ==
  ASSUME Types'
  PROVE  I' \in GoodEp /\ O' \in GoodEp /\ InOdd' \in Bit /\ OutOdd' \in Bit
BY PipeParts DEF Types, I, O, InOdd, OutOdd, Dir

(* Only what the host thinks and whether a STALL was sent is different.         *)
LEMMA HostSteps ==
  ASSUME IInv, UNCHANGED <<driverVars, odd, tokens, setupPacketBuffer>>
  PROVE  /\ I' = I /\ O' = O /\ InOdd' = InOdd /\ OutOdd' = OutOdd
         /\ InPending' = InPending /\ DataPending' = DataPending /\ SetupPending' = SetupPending
         /\ device' = device /\ deviceSetup' = deviceSetup /\ setupPacketBuffer' = setupPacketBuffer
         /\ setupBufferIndex' = setupBufferIndex /\ tokens' = tokens
         /\ QueueInv' /\ TurnInv'
<1>1. ep' = ep /\ odd' = odd /\ tokens' = tokens
  BY DEF driverVars
<1>2. I' = I /\ O' = O /\ InOdd' = InOdd /\ OutOdd' = OutOdd
  BY <1>1 DEF I, O, InOdd, OutOdd
<1>3. /\ device' = device /\ deviceSetup' = deviceSetup /\ setupPacketBuffer' = setupPacketBuffer
      /\ setupBufferIndex' = setupBufferIndex
  BY DEF driverVars
<1>4. InPending' = InPending /\ DataPending' = DataPending /\ SetupPending' = SetupPending
  BY <1>1 DEF InPending, DataPending, SetupPending, SentTok, DataTok, SetupTok, Tok
<1>5. QueueInv' /\ TurnInv'
  BY <1>1, <1>2, <1>4 DEF IInv, PipeInv, QueueInv, TurnInv
<1> QED BY <1>1, <1>2, <1>3, <1>4, <1>5

LEMMA StallAnswerKeeps ==
  ASSUME IInv, StallAnswer
  PROVE  IInv'
<1>1. Types /\ TurnInv /\ HaltInv /\ SetupInv /\ OutInv /\ AddressInv
  BY DEF IInv, PipeInv
<1>2. I \in GoodEp /\ O \in GoodEp /\ InOdd \in Bit /\ OutOdd \in Bit
  BY <1>1, Parts
<1>3. Halted(I, InOdd) /\ Halted(O, OutOdd)
  <2>1. \/ I.bd[InOdd].own /\ I.bd[InOdd].stall
        \/ O.bd[OutOdd].own /\ O.bd[OutOdd].stall
    BY DEF StallAnswer, Answers, I, O, InOdd, OutOdd
  <2>2. Halted(I, InOdd) \/ Halted(O, OutOdd)
    BY <1>1, <1>2, <2>1 DEF TurnInv, Used, Empty, Offers, Free
  <2> QED BY <1>1, <2>2 DEF HaltInv
<1>4. /\ I' = I /\ O' = O /\ InOdd' = InOdd /\ OutOdd' = OutOdd
      /\ InPending' = InPending /\ DataPending' = DataPending /\ SetupPending' = SetupPending
      /\ device' = device /\ deviceSetup' = deviceSetup /\ setupPacketBuffer' = setupPacketBuffer
      /\ setupBufferIndex' = setupBufferIndex /\ tokens' = tokens
      /\ QueueInv' /\ TurnInv'
  BY HostSteps DEF StallAnswer
<1>5. /\ host' \in Host /\ host'.stage = "idle" /\ host'.request = NoRequest /\ host'.toggle = 0
      /\ host'.address = host.address
  BY <1>1, HostIdle DEF StallAnswer, Types
<1>6. tokens = << >> /\ ~InPending /\ ~DataPending /\ ~SetupPending
  BY <1>1, <1>3, Queues DEF HaltInv, QueueShapes
<1>7. ~I.transferring /\ ~O.transferring /\ ~Offers(O, OutOdd)
  BY <1>2, <1>3, Conditions
<1>8. Types'
  BY <1>1, <1>5 DEF StallAnswer, Types, driverVars
<1>9. HaltInv'
  BY <1>3, <1>4, <1>6 DEF HaltInv, StallAnswer
<1>10. SetupInv'
  BY <1>1, <1>4, <1>5, <1>6 DEF SetupInv
<1>11. OutInv' /\ InInv'
  BY <1>4, <1>5, <1>6, <1>7 DEF OutInv, InInv
<1>12. AddressInv'
  BY <1>1, <1>4, <1>5, <1>6, <1>7, NoRequestFits DEF AddressInv, Done
<1> QED BY <1>4, <1>8, <1>9, <1>10, <1>11, <1>12 DEF IInv, PipeInv

LEMMA InterruptStallKeeps ==
  ASSUME IInv, InterruptStall
  PROVE  IInv'
<1>1. Types /\ TurnInv /\ HaltInv /\ SetupInv /\ AddressInv
  BY DEF IInv, PipeInv
<1>2. I \in GoodEp /\ O \in GoodEp /\ InOdd \in Bit /\ OutOdd \in Bit
  BY <1>1, Parts
<1>3. Halted(I, InOdd) /\ Halted(O, OutOdd)
  BY <1>1 DEF HaltInv, InterruptStall
<1>4. tokens = << >> /\ ~InPending /\ ~DataPending /\ ~SetupPending
  BY <1>1, <1>3, Queues DEF HaltInv, QueueShapes
<1>5. ~I.transferring /\ I.bdtOdd = InOdd /\ O.bdtOdd = OutOdd
  BY <1>2, <1>3, Conditions
<1>6. ep' = UnstallEndpoint(ep)
  <2>1. Stalled(ep)
    BY <1>2, <1>3 DEF Stalled, Halted, Dir, O
  <2> QED BY <2>1 DEF InterruptStall
<1>7. ep' \in Pipe /\ Empty(I', InOdd) /\ Listening(O', OutOdd)
  <2>1. LET f == UnstallEndpoint(ep)
        IN  f \in Pipe /\ Empty(f["IN"], ep["IN"].bdtOdd) /\ Listening(f["OUT"], ep["OUT"].bdtOdd)
    BY <1>1, UnstallEndpointDoes DEF Types
  <2> QED BY <1>5, <1>6, <2>1 DEF I, O
<1>8. InOdd' = InOdd /\ OutOdd' = OutOdd /\ tokens' = tokens
  BY DEF InterruptStall, InOdd, OutOdd
<1>9. ~InPending' /\ ~DataPending' /\ ~SetupPending' /\ tokens' = << >>
  BY <1>4, <1>8, Queues DEF QueueShapes
<1>10. Types'
  BY <1>1, <1>7 DEF Types, InterruptStall
<1>11. I' \in GoodEp /\ O' \in GoodEp
  BY <1>10, PartsNext
<1>12. Empty(I', InOdd') /\ Offers(O', OutOdd') /\ Listening(O', OutOdd') /\ ~I'.transferring
       /\ ~Halted(I', InOdd') /\ ~Halted(O', OutOdd')
  BY <1>2, <1>7, <1>8, <1>11, Conditions DEF Listening
<1>13. QueueInv' /\ TurnInv'
  BY <1>9, <1>12 DEF QueueInv, TurnInv
<1>14. HaltInv'
  BY <1>12 DEF HaltInv, InterruptStall
<1>15. host' = host /\ deviceSetup' = deviceSetup /\ device' = device
  BY DEF InterruptStall
<1>16. SetupInv'
  BY <1>1, <1>9, <1>15 DEF SetupInv
<1>17. OutInv' /\ InInv'
  BY <1>1, <1>9, <1>12, <1>15 DEF OutInv, InInv, Listening, IInv, PipeInv
<1>18. AddressInv'
  BY <1>1, <1>5, <1>9, <1>12, <1>15 DEF AddressInv, Done
<1> QED BY <1>10, <1>13, <1>14, <1>16, <1>17, <1>18 DEF IInv, PipeInv
------------------------------------------------------------------------------
(* A token is answered: the descriptor is used, and the queue is longer.       *)

LEMMA Appending ==
  ASSUME NEW a, NEW x
  PROVE  Append(<< >>, x) = <<x>> /\ Append(<<a>>, x) = <<a, x>>
<1>1. Append(<< >>, x) = <<x>>
  OBVIOUS
<1>2. Append(<<a>>, x) = <<a, x>>
  <2> DEFINE s == Append(<<a>>, x)
             t == <<a, x>>
  <2>1. s \in Seq({a, x}) /\ Len(s) = 2 /\ s[1] = a /\ s[2] = x
    <3>1. <<a>> \in Seq({a, x}) /\ Len(<<a>>) = 1 /\ <<a>>[1] = a
      OBVIOUS
    <3> QED BY <3>1, AppendProperties
  <2>2. t \in Seq({a, x}) /\ Len(t) = 2 /\ t[1] = a /\ t[2] = x
    OBVIOUS
  <2> HIDE DEF s, t
  <2>3. s = t
    BY <2>1, <2>2, SeqEqual
  <2> QED BY <2>3 DEF s, t
<1> QED BY <1>1, <1>2

LEMMA ConsumedDoes ==
  ASSUME Types, NEW dir \in Dir, NEW other \in Dir \ {dir}, NEW setup \in BOOLEAN, NEW n \in Nat, n <= MaxPacketSize,
         Offers(ep[dir], odd[dir]), Consumed(dir, setup, n)
  PROVE  /\ ep' \in Pipe /\ odd' \in [Dir -> Bit]
         /\ ep'[other] = ep[other] /\ odd'[other] = odd[other]
         /\ odd'[dir] = Flip(odd[dir]) /\ odd[dir] = Flip(odd'[dir])
         /\ Used(ep'[dir], odd'[dir]) /\ Same(ep'[dir], ep[dir])
         /\ ep'[dir].bd[odd[dir]].len = n
         /\ tokens' = Append(tokens, Tok(dir, setup)')
<1> DEFINE e == ep[dir]
           k == odd[dir]
           d == [NoDescriptor EXCEPT !.len = n]
           f == With(e, k, d)
<1>1. e \in GoodEp /\ k \in Bit /\ ep \in Pipe /\ odd \in [Dir -> Bit]
  BY DEF Types, Pipe
<1>2. d \in Descriptor /\ d.len = n /\ ~d.own
  BY NoDescriptorGood DEF Descriptor, NoDescriptor
<1>3. ep' = [ep EXCEPT ![dir] = f] /\ odd' = [odd EXCEPT ![dir] = Flip(k)]
  BY DEF Consumed, With
<1> HIDE DEF d
<1>4. LET g == With(e, k, d)
      IN  /\ g \in GoodEp /\ Same(g, e) /\ g.transferring = e.transferring
          /\ g.bd[k] = d /\ g.bd[Flip(k)] = e.bd[Flip(k)]
  BY <1>1, <1>2, EpDescriptor
<1>5. Flip(k) \in Bit /\ Flip(Flip(k)) = k /\ Bit = {k, Flip(k)}
  BY <1>1, Flipping
<1>6. f \in GoodEp /\ Used(f, Flip(k)) /\ Same(f, e) /\ f.bd[k].len = n
  BY <1>1, <1>2, <1>4, <1>5 DEF Used, Offers, Same, Free
<1>7. ep' \in Pipe /\ ep'[dir] = f /\ ep'[other] = ep[other]
  <2> HIDE DEF f
  <2> QED BY <1>1, <1>3, <1>6 DEF Pipe
<1>8. odd' \in [Dir -> Bit] /\ odd'[dir] = Flip(k) /\ odd'[other] = odd[other]
  <2> HIDE DEF k
  <2> QED BY <1>1, <1>3, <1>5
<1>9. tokens' = Append(tokens, [dir |-> dir, odd |-> k, setup |-> setup])
  BY DEF Consumed
<1>10. Tok(dir, setup)' = [dir |-> dir, odd |-> k, setup |-> setup]
  BY <1>5, <1>8 DEF Tok
<1> QED BY <1>5, <1>6, <1>7, <1>8, <1>9, <1>10

(* A packet of the OUT direction: what is waiting is before it.               *)
LEMMA OutConsumed ==
  ASSUME IInv, NEW setup \in BOOLEAN, NEW n \in Nat, n <= MaxPacketSize, Offers(O, OutOdd), Consumed("OUT", setup, n)
  PROVE  /\ ep' \in Pipe /\ odd' \in [Dir -> Bit] /\ I' = I /\ InOdd' = InOdd
         /\ OutOdd' = Flip(OutOdd) /\ OutOdd = Flip(OutOdd')
         /\ Used(O', OutOdd') /\ Same(O', O) /\ O'.bd[OutOdd].len = n
         /\ ~DataPending /\ ~SetupPending
         /\ tokens' = IF InPending THEN <<SentTok', Tok("OUT", setup)'>> ELSE <<Tok("OUT", setup)'>>
<1>1. Types /\ QueueInv /\ TurnInv
  BY DEF IInv, PipeInv
<1>2. /\ ep' \in Pipe /\ odd' \in [Dir -> Bit]
      /\ ep'["IN"] = ep["IN"] /\ odd'["IN"] = odd["IN"]
      /\ odd'["OUT"] = Flip(odd["OUT"]) /\ odd["OUT"] = Flip(odd'["OUT"])
      /\ Used(ep'["OUT"], odd'["OUT"]) /\ Same(ep'["OUT"], ep["OUT"])
      /\ ep'["OUT"].bd[odd["OUT"]].len = n
      /\ tokens' = Append(tokens, Tok("OUT", setup)')
  BY <1>1, ConsumedDoes, "OUT" \in Dir, "IN" \in Dir \ {"OUT"} DEF O, OutOdd, Dir
<1>3. ~DataPending /\ ~SetupPending
  BY <1>1, Parts, Conditions DEF TurnInv
<1>4. tokens = IF InPending THEN <<SentTok>> ELSE << >>
  BY <1>1, <1>3, Queues DEF QueueInv, QueueShapes
<1>5. SentTok' = SentTok
  BY <1>2 DEF SentTok, Tok
<1> QED BY <1>2, <1>3, <1>4, <1>5, Appending DEF I, O, InOdd, OutOdd

LEMMA SetupKeeps ==
  ASSUME IInv, Setup
  PROVE  IInv'
<1>1. Types /\ QueueInv /\ TurnInv /\ HaltInv /\ SetupInv /\ OutInv /\ InInv /\ AddressInv
  BY DEF IInv, PipeInv
<1>2. I \in GoodEp /\ O \in GoodEp /\ InOdd \in Bit /\ OutOdd \in Bit
  BY <1>1, Parts
<1>3. Offers(O, OutOdd)
  <2>1. O.bd[OutOdd].own /\ ~O.bd[OutOdd].stall
    BY DEF Setup, Answers, O, OutOdd
  <2> QED BY <1>1, <1>2, <2>1 DEF TurnInv, Used, Halted, Free
<1>4. PICK r \in Requests, p \in Payloads :
        /\ r.name = "SET_ADDRESS" => host.configuration = 0 /\ r.value # host.address
        /\ p # Min(Payloads) => Receives(r)
        /\ Consumed("OUT", TRUE, SETUP_PACKET_SIZE)
        /\ setupPacketBuffer' = [setupPacketBuffer EXCEPT ![odd["OUT"]] = r]
        /\ host' = [host EXCEPT !.request = r, !.payload = p, !.toggle = 1, !.got = << >>, !.received = 0,
                                !.stage = Stage(r)]
  BY DEF Setup, Stage
<1>5. SETUP_PACKET_SIZE \in Nat /\ SETUP_PACKET_SIZE <= MaxPacketSize
  BY Constants DEF SETUP_PACKET_SIZE
<1>6. /\ ep' \in Pipe /\ odd' \in [Dir -> Bit] /\ I' = I /\ InOdd' = InOdd
      /\ OutOdd' = Flip(OutOdd) /\ OutOdd = Flip(OutOdd')
      /\ Used(O', OutOdd') /\ Same(O', O)
      /\ ~DataPending /\ ~SetupPending
      /\ tokens' = IF InPending THEN <<SentTok', SetupTok'>> ELSE <<SetupTok'>>
  BY <1>3, <1>4, <1>5, OutConsumed DEF SetupTok
<1>7. SetupPending' /\ InPending' = InPending /\ ~DataPending'
  <2>3. InPending \in BOOLEAN /\ InPending' \in BOOLEAN
    BY DEF InPending
  <2>1. CASE InPending
    BY <1>6, <2>1, Queues DEF QueueShapes
  <2>2. CASE ~InPending
    <3>1. tokens' = <<SetupTok'>>
      BY <1>6, <2>2
    <3>2. SetupPending' /\ ~InPending' /\ ~DataPending'
      BY <3>1, Queues DEF QueueShapes
    <3> QED BY <2>2, <2>3, <3>2
  <2> QED BY <2>1, <2>2
<1>8. /\ host' \in Host /\ host'.request = r /\ host'.toggle = 1 /\ host'.got = << >> /\ host'.received = 0
      /\ host'.stage = Stage(r) /\ host'.address = host.address
  <2> DEFINE h1 == [host EXCEPT !.request = r]
             h2 == [h1 EXCEPT !.payload = p]
             h3 == [h2 EXCEPT !.toggle = 1]
             h4 == [h3 EXCEPT !.got = << >>]
             h5 == [h4 EXCEPT !.received = 0]
             h6 == [h5 EXCEPT !.stage = Stage(r)]
  <2>1. host' = h6
    BY <1>1, <1>4 DEF Types, Host
  <2>2. h6.request = r /\ h6.toggle = 1 /\ h6.got = << >> /\ h6.received = 0 /\ h6.stage = Stage(r)
        /\ h6.address = host.address
    BY <1>1 DEF Types, Host
  <2>3. h6 \in Host
    <3>0. /\ 1 \in Bit /\ 0 \in Nat /\ << >> \in Seq(Packet) /\ p \in Nat /\ r \in Request
          /\ Stage(r) \in {"idle", "dataIn", "dataOut", "statusIn", "statusOut"}
      BY Constants DEF Bit, Stage
    <3>1. h1 \in Host
      BY <1>1, <3>0, HostWith DEF Types
    <3> HIDE DEF h1
    <3>2. h2 \in Host
      BY <3>0, <3>1, HostWith
    <3> HIDE DEF h2
    <3>3. h3 \in Host
      BY <3>0, <3>2, HostWith
    <3> HIDE DEF h3
    <3>4. h4 \in Host
      BY <3>0, <3>3, HostWith
    <3> HIDE DEF h4
    <3>5. h5 \in Host
      BY <3>0, <3>4, HostWith
    <3> HIDE DEF h5
    <3>6. h6 \in Host
      BY <3>0, <3>5, HostWith
    <3> QED BY <3>6
  <2> HIDE DEF h6
  <2> QED BY <2>1, <2>2, <2>3
<1>9. /\ deviceSetup' = deviceSetup /\ device' = device /\ setupBufferIndex' = setupBufferIndex
      /\ stallInterrupt' = stallInterrupt
  BY DEF Setup
<1>10. r \in Request /\ r.name # "none"
  BY Constants
<1>11. /\ setupPacketBuffer' \in [Bit -> Request] /\ setupPacketBuffer'[OutOdd] = r
       /\ setupPacketBuffer'[Flip(OutOdd)] = setupPacketBuffer[Flip(OutOdd)]
  BY <1>1, <1>2, <1>4, <1>10, Flipping DEF Types, OutOdd
<1>12. Types'
  BY <1>1, <1>6, <1>8, <1>9, <1>11 DEF Types
<1>13. I' \in GoodEp /\ O' \in GoodEp /\ InOdd' \in Bit /\ OutOdd' \in Bit
  BY <1>12, PartsNext
<1>14. ~Offers(I, InOdd)
  BY <1>2 DEF Setup, Primed, Offers, I
<1>15. InInv'
  <2>1. host'.stage = "statusIn" => host'.toggle = 1
    BY <1>8
  <2>2. ASSUME I'.transferring
        PROVE  /\ I'.transferDone <= I'.transferLength /\ I'.transferLength <= deviceSetup'.length
               /\ I'.bd[I'.bdtOdd].len = Chunk' /\ (~InPending' => I'.bd[I'.bdtOdd].data01 = I'.data0)
               /\ deviceSetup' \in Requests
               /\ (I'.transferLength # 0 =>
                      /\ setupPacketBuffer'[setupBufferIndex'] = deviceSetup'
                      /\ setupBufferIndex' = OutOdd')
               /\ Ends(deviceSetup.length)' /\ InPending'
    <3>1. I.transferring /\ InPending
      BY <1>1, <1>2, <1>6, <1>14, <2>2, Conditions DEF TurnInv
    <3>2. Chunk' = Chunk /\ Ends(deviceSetup.length)' = Ends(deviceSetup.length)
      BY <1>6, <1>9 DEF Chunk, Ends
    <3>3. Ends(deviceSetup.length)
      BY <1>1, <3>1 DEF InInv, Setup
    <3>4. I.transferLength # 0 => setupPacketBuffer'[setupBufferIndex'] = deviceSetup' /\ setupBufferIndex' = OutOdd'
      BY <1>1, <1>2, <1>6, <1>9, <1>11, <3>1 DEF InInv
    <3> QED BY <1>1, <1>6, <1>7, <1>9, <3>1, <3>2, <3>3, <3>4 DEF InInv
  <2> QED BY <1>7, <2>1, <2>2 DEF InInv
<1>16. QueueInv'
  BY <1>7 DEF QueueInv
<1>17. TurnInv'
  BY <1>1, <1>6, <1>7 DEF TurnInv
<1>18. ~Halted(O, OutOdd) /\ ~Halted(O', OutOdd') /\ ~Halted(I', InOdd') /\ ~stallInterrupt
  BY <1>1, <1>2, <1>3, <1>6, <1>13, Conditions DEF HaltInv
<1>19. HaltInv'
  BY <1>9, <1>18 DEF HaltInv
<1>20. SetupInv'
  <2>1. host'.stage \in {"dataIn", "statusOut"} => r.name \in Reads
    BY <1>8 DEF Stage
  <2> QED BY <1>1, <1>2, <1>6, <1>8, <1>9, <1>11, <2>1 DEF SetupInv
<1>21. OutInv'
  BY <1>6, <1>7, <1>8, <1>13, Conditions DEF OutInv
<1>22. AddressInv'
  <2>1. device.ADDR = host.address /\ host.stage \in {"idle", "statusOut"}
    BY DEF Setup, Answers
  <2>2. device.state # "Addressing"
    BY <1>1, <2>1 DEF AddressInv
  <2> QED BY <1>1, <1>4, <1>6, <1>7, <1>8, <1>9, <2>1, <2>2 DEF AddressInv, Done
<1> QED BY <1>12, <1>15, <1>16, <1>17, <1>19, <1>20, <1>21, <1>22 DEF IInv, PipeInv
------------------------------------------------------------------------------
(* The host is answered.                                                    *)

LEMMA InConsumed ==
  ASSUME IInv, Offers(I, InOdd), Consumed("IN", FALSE, I.bd[InOdd].len)
  PROVE  /\ ep' \in Pipe /\ odd' \in [Dir -> Bit] /\ O' = O /\ OutOdd' = OutOdd
         /\ InOdd' = Flip(InOdd) /\ InOdd = Flip(InOdd')
         /\ Used(I', InOdd') /\ Same(I', I) /\ I'.bd[InOdd].len = I.bd[InOdd].len
         /\ ~InPending /\ ~SetupPending
         /\ ~DataPending => tokens' = <<SentTok'>>
<1>1. Types /\ QueueInv /\ TurnInv /\ InInv
  BY DEF IInv, PipeInv
<1>2. I \in GoodEp /\ O \in GoodEp /\ InOdd \in Bit /\ OutOdd \in Bit
  BY <1>1, Parts
<1>3. I.bd[InOdd].len \in Nat /\ I.bd[InOdd].len <= MaxPacketSize
  BY <1>2 DEF GoodEp, Endpoint, Descriptor
<1>4. /\ ep' \in Pipe /\ odd' \in [Dir -> Bit]
      /\ ep'["OUT"] = ep["OUT"] /\ odd'["OUT"] = odd["OUT"]
      /\ odd'["IN"] = Flip(odd["IN"]) /\ odd["IN"] = Flip(odd'["IN"])
      /\ Used(ep'["IN"], odd'["IN"]) /\ Same(ep'["IN"], ep["IN"])
      /\ ep'["IN"].bd[odd["IN"]].len = I.bd[InOdd].len
      /\ tokens' = Append(tokens, Tok("IN", FALSE)')
  BY <1>1, <1>3, ConsumedDoes, "IN" \in Dir, "OUT" \in Dir \ {"IN"} DEF I, InOdd, Dir
<1>5. ~InPending
  BY <1>1, <1>2, Conditions DEF TurnInv
<1>6. ~SetupPending
  BY <1>1, <1>2, <1>5, Conditions DEF InInv
<1>7. ~DataPending => tokens = << >>
  BY <1>1, <1>5, <1>6 DEF QueueInv
<1> QED BY <1>4, <1>5, <1>6, <1>7, Appending DEF I, O, InOdd, OutOdd, SentTok

(* What the host does with the packet that is offered to it, whether or not it has  *)
(* had it before.                                                           *)
LEMMA OfferAccepted ==
  ASSUME IInv, Offered, NEW h \in Host,
         h.stage = host.stage, h.request = host.request, h.toggle = host.toggle, h.received = host.received,
         h.address = host.address
  PROVE  LET g == Accepts(h)
         IN  /\ Offers(I, InOdd) /\ ~InPending /\ ~DataPending /\ ~SetupPending /\ deviceSetup \in Requests
             /\ host.stage \in {"dataIn", "statusIn"} /\ g \in Host
             /\ host.stage = "statusIn" => g = Finished(h) /\ Ends(deviceSetup.length)
             /\ host.stage = "dataIn" =>
                  /\ g.request = host.request /\ g.address = host.address /\ deviceSetup = host.request
                  /\ g.configuration = h.configuration /\ g.stored = h.stored /\ g.payload = h.payload
                  /\ IF Ends(host.request.length) THEN g.stage = "statusOut"
                     ELSE /\ g.stage = "dataIn" /\ g.toggle = Flip(I.data0)
                          /\ g.received = I.transferDone + Chunk
<1>1. Types /\ TurnInv /\ HaltInv /\ SetupInv /\ OutInv /\ InInv
  BY DEF IInv, PipeInv
<1>2. I \in GoodEp /\ O \in GoodEp /\ InOdd \in Bit /\ OutOdd \in Bit
  BY <1>1, Parts
<1>3. Offers(I, InOdd)
  <2>1. I.bd[InOdd].own /\ ~I.bd[InOdd].stall
    BY DEF Offered, Answers, I, InOdd
  <2> QED BY <1>1, <1>2, <2>1 DEF TurnInv, Used, Empty, Halted, Free
<1>4. I.transferring /\ I.bdtOdd = InOdd /\ ~InPending /\ ~Empty(I, InOdd)
  BY <1>1, <1>2, <1>3, Conditions DEF TurnInv
<1>5. ~DataPending /\ ~SetupPending
  BY <1>1, <1>4 DEF OutInv, DataPhase, InInv
<1>6. host.stage \in {"dataIn", "statusIn"}
  BY DEF Offered
<1>7. /\ I.bd[InOdd].len = Chunk /\ I.bd[InOdd].data01 = I.data0 /\ deviceSetup \in Requests
      /\ I.transferDone <= I.transferLength /\ Progress
  BY <1>1, <1>4, <1>5 DEF InInv
<1>8. /\ I.bd[InOdd] \in Descriptor /\ Chunk \in Nat /\ I.transferDone \in Nat /\ I.data0 \in Bit
      /\ I.transferLength \in Nat
  <2>1. I.bd[InOdd] \in Descriptor /\ I.transferDone \in Nat /\ I.data0 \in Bit /\ I.transferLength \in Nat
    BY <1>2 DEF GoodEp, Endpoint
  <2> QED BY <1>7, <2>1 DEF Descriptor
<1> DEFINE d == I.bd[InOdd]
           x == [from |-> d.from, off |-> d.off, len |-> d.len,
                 data |-> IF d.from \in Stored /\ d.len # 0 THEN device.memory[d.from] ELSE 0]
           got == Append(h.got, x)
           received == h.received + d.len
           last == d.len < MaxPacketSize \/ received >= h.request.length
           stage == IF last THEN "statusOut" ELSE h.stage
           h1 == [h EXCEPT !.got = got]
           h2 == [h1 EXCEPT !.received = received]
           h3 == [h2 EXCEPT !.toggle = Flip(h.toggle)]
           h4 == [h3 EXCEPT !.stage = stage]
<1>9. Accepts(h) = IF d.data01 # h.toggle THEN h ELSE IF h.stage = "statusIn" THEN Finished(h) ELSE h4
  <2>1. h4 = [h EXCEPT !.got = got, !.received = received, !.toggle = Flip(@),
                       !.stage = IF last THEN "statusOut" ELSE @]
    BY DEF Host
  <2> HIDE DEF h4
  <2> QED BY <2>1 DEF Accepts, I, InOdd
<1>10. CASE host.stage = "statusIn"
  <2>1. h.toggle = 1 /\ I.data0 = 1 /\ I.transferLength = 0
    BY <1>1, <1>7, <1>10 DEF InInv, Progress
  <2>2. Accepts(h) = Finished(h)
    BY <1>7, <1>9, <1>10, <2>1
  <2>3. Finished(h) \in Host
    BY <1>1, HostFinished DEF SetupInv
  <2>4. Ends(deviceSetup.length)
    BY <1>7, <1>8, <2>1, Constants DEF Ends, Chunk, Least
  <2> QED BY <1>3, <1>4, <1>5, <1>6, <1>7, <1>10, <2>2, <2>3, <2>4
<1>11. CASE host.stage = "dataIn"
  <2>1. /\ deviceSetup = host.request
        /\ \/ h.toggle = I.data0 /\ h.received = I.transferDone
           \/ /\ ~Ends(host.request.length) /\ h.toggle = Flip(I.data0)
              /\ h.received = I.transferDone + Chunk
    BY <1>7, <1>11 DEF Progress
  <2>2. CASE h.toggle = I.data0 /\ h.received = I.transferDone
    <3>1. Accepts(h) = h4
      BY <1>7, <1>9, <1>11, <2>2
    <3>2. x \in Packet
      <4>1. device.memory \in [Stored -> Nat]
        BY <1>1 DEF Types, Device
      <4> QED BY <1>8, <4>1 DEF Packet, Descriptor
    <3>3. /\ got \in Seq(Packet) /\ received \in Nat /\ Flip(h.toggle) \in Bit
          /\ stage \in {"idle", "dataIn", "dataOut", "statusIn", "statusOut"}
      <4>1. h.got \in Seq(Packet) /\ h.received \in Nat /\ h.toggle \in Bit /\ h.stage = "dataIn"
        BY <1>11 DEF Host
      <4> HIDE DEF x
      <4>2. got \in Seq(Packet)
        BY <3>2, <4>1
      <4> QED BY <1>7, <1>8, <4>1, <4>2, Flipping
    <3>4. /\ h4.request = host.request /\ h4.address = host.address /\ h4.stage = stage
          /\ h4.toggle = Flip(I.data0) /\ h4.received = received
          /\ h4.configuration = h.configuration /\ h4.stored = h.stored /\ h4.payload = h.payload
      BY <2>2 DEF Host
    <3>5. h4 \in Host
      <4> HIDE DEF got, received, stage
      <4>1. h1 \in Host
        BY <3>3, HostWith
      <4> HIDE DEF h1
      <4>2. h2 \in Host
        BY <3>3, <4>1, HostWith
      <4> HIDE DEF h2
      <4>3. h3 \in Host
        BY <3>3, <4>2, HostWith
      <4> HIDE DEF h3
      <4>4. h4 \in Host
        BY <3>3, <4>3, HostWith
      <4> QED BY <4>4
    <3>6. received = I.transferDone + Chunk /\ (last <=> Ends(host.request.length))
      BY <1>7, <1>8, <2>2 DEF Ends
    <3> HIDE DEF h4, received, last
    <3> QED BY <1>3, <1>4, <1>5, <1>6, <1>7, <1>11, <2>1, <3>1, <3>4, <3>5, <3>6
  <2>3. CASE /\ ~Ends(host.request.length) /\ h.toggle = Flip(I.data0)
             /\ h.received = I.transferDone + Chunk
    <3>1. Accepts(h) = h
      BY <1>7, <1>8, <1>9, <2>3, Flipping
    <3> QED BY <1>3, <1>4, <1>5, <1>6, <1>7, <1>11, <2>1, <2>3, <3>1
  <2> QED BY <2>1, <2>2, <2>3
<1> QED BY <1>6, <1>10, <1>11

(* The host after an answer, on the way to or back from its status stage.      *)
LEMMA InTokenKeeps ==
  ASSUME IInv, InToken
  PROVE  IInv'
<1>1. Types /\ TurnInv /\ HaltInv /\ SetupInv /\ OutInv /\ InInv /\ AddressInv
  BY DEF IInv, PipeInv
<1>2. I \in GoodEp /\ O \in GoodEp /\ InOdd \in Bit /\ OutOdd \in Bit
  BY <1>1, Parts
<1>3. host' = Accepts(host) /\ Offered /\ host \in Host
  BY <1>1 DEF InToken, Types
<1>4. /\ Offers(I, InOdd) /\ ~InPending /\ ~DataPending /\ ~SetupPending /\ deviceSetup \in Requests
      /\ host.stage \in {"dataIn", "statusIn"} /\ host' \in Host
      /\ host.stage = "statusIn" => host' = Finished(host) /\ Ends(deviceSetup.length)
      /\ host.stage = "dataIn" =>
           /\ host'.request = host.request /\ host'.address = host.address /\ deviceSetup = host.request
           /\ IF Ends(host.request.length) THEN host'.stage = "statusOut"
              ELSE /\ host'.stage = "dataIn" /\ host'.toggle = Flip(I.data0)
                   /\ host'.received = I.transferDone + Chunk
  BY <1>3, OfferAccepted
<1>5. Consumed("IN", FALSE, I.bd[InOdd].len)
  BY DEF InToken, I, InOdd
<1>6. /\ ep' \in Pipe /\ odd' \in [Dir -> Bit] /\ O' = O /\ OutOdd' = OutOdd
      /\ InOdd' = Flip(InOdd) /\ InOdd = Flip(InOdd')
      /\ Used(I', InOdd') /\ Same(I', I) /\ I'.bd[InOdd].len = I.bd[InOdd].len
      /\ tokens' = <<SentTok'>>
  BY <1>4, <1>5, InConsumed
<1>7. InPending' /\ ~DataPending' /\ ~SetupPending'
  BY <1>6, Queues DEF QueueShapes
<1>8. /\ deviceSetup' = deviceSetup /\ device' = device /\ setupBufferIndex' = setupBufferIndex
      /\ setupPacketBuffer' = setupPacketBuffer /\ stallInterrupt' = stallInterrupt
  BY DEF InToken
<1>9. host.stage = "statusIn" =>
        /\ host'.stage = "idle" /\ host'.request = NoRequest
        /\ host'.address = IF host.request.name = "SET_ADDRESS" THEN host.request.value ELSE host.address
  BY <1>1, <1>3, <1>4, HostFinished DEF SetupInv
<1>10. Types'
  BY <1>1, <1>4, <1>6, <1>8 DEF Types
<1>11. I' \in GoodEp /\ O' \in GoodEp /\ InOdd' \in Bit /\ OutOdd' \in Bit
  BY <1>10, PartsNext
<1>12. I'.transferring /\ I'.bdtOdd = InOdd /\ ~Halted(I', InOdd') /\ ~Halted(I, InOdd)
  BY <1>2, <1>4, <1>6, <1>11, Conditions
<1>13. QueueInv'
  BY <1>7 DEF QueueInv
<1>14. TurnInv' /\ HaltInv'
  BY <1>1, <1>4, <1>6, <1>7, <1>8, <1>12 DEF TurnInv, HaltInv
<1>15. SetupInv'
  BY <1>1, <1>4, <1>7, <1>8, <1>9 DEF SetupInv
<1>16. OutInv'
  <2>1. ~(Offers(O, OutOdd) /\ O.bd[OutOdd].data01 # 0)
    BY <1>1, <1>2, <1>4, Conditions DEF OutInv, DataPhase
  <2>2. host'.stage # "dataOut"
    BY <1>4, <1>9
  <2> QED BY <1>1, <1>6, <1>7, <2>1, <2>2 DEF OutInv
<1>17. Chunk' = Chunk /\ I.bd[InOdd].len = Chunk /\ \A n \in Nat : Ends(n)' = Ends(n)
  BY <1>1, <1>2, <1>4, <1>6, Conditions DEF Chunk, Ends, Same, InInv
<1>18. InInv'
  <2>1. /\ I'.transferDone <= I'.transferLength /\ I'.transferLength <= deviceSetup'.length
        /\ I'.bd[I'.bdtOdd].len = Chunk' /\ deviceSetup' \in Requests
    BY <1>1, <1>2, <1>4, <1>6, <1>8, <1>12, <1>17, Conditions DEF InInv, Same
  <2>2. I'.transferLength # 0 =>
          /\ setupPacketBuffer'[setupBufferIndex'] = deviceSetup'
          /\ setupBufferIndex' = IF SetupPending' THEN OutOdd' ELSE Flip(OutOdd')
    BY <1>1, <1>2, <1>4, <1>6, <1>7, <1>8, Conditions DEF InInv, Same
  <2>3. deviceSetup.length \in Nat
    BY <1>4, Constants DEF Request
  <2>4. host'.stage \in {"idle", "statusOut"} => Ends(deviceSetup.length)'
    BY <1>4, <1>8, <1>9, <1>17, <2>3
  <2>5. Progress'
    BY <1>4, <1>6, <1>8, <1>9, <1>17, <2>3 DEF Progress, Same
  <2>6. host'.stage # "statusIn"
    BY <1>4, <1>9
  <2> QED BY <1>7, <2>1, <2>2, <2>4, <2>5, <2>6 DEF InInv
<1>19. AddressInv'
  <2>1. I.transferring
    BY <1>2, <1>4, Conditions
  <2>2. CASE device.state = "Addressing"
    BY <1>1, <1>4, <1>7, <1>8, <1>9, <1>12, <2>2 DEF AddressInv
  <2>3. CASE device.state # "Addressing"
    <3>1. host.request.name # "SET_ADDRESS"
      BY <1>1, <1>4, <2>1, <2>3 DEF AddressInv, Done
    <3>2. host'.address = host.address /\ host'.request \in {host.request, NoRequest}
      BY <1>4, <1>9, <3>1
    <3> QED BY <1>1, <1>7, <1>8, <2>3, <3>1, <3>2, NoRequestFits DEF AddressInv, Done
  <2> QED BY <2>2, <2>3
<1> QED BY <1>10, <1>13, <1>14, <1>15, <1>16, <1>18, <1>19 DEF IInv, PipeInv

LEMMA InTokenUnacknowledgedKeeps ==
  ASSUME IInv, InTokenUnacknowledged
  PROVE  IInv'
<1>1. Types /\ TurnInv /\ HaltInv /\ SetupInv /\ OutInv /\ InInv /\ AddressInv
  BY DEF IInv, PipeInv
<1>2. I \in GoodEp /\ O \in GoodEp /\ InOdd \in Bit /\ OutOdd \in Bit
  BY <1>1, Parts
<1> DEFINE h == [host EXCEPT !.lost = host.lost + 1]
<1>3. /\ h \in Host /\ h.stage = host.stage /\ h.request = host.request /\ h.toggle = host.toggle
      /\ h.received = host.received /\ h.address = host.address
  <2>1. host \in Host
    BY <1>1 DEF Types
  <2>2. host.lost + 1 \in 0 .. MaxLost
    BY <2>1, ControlAssumption DEF InTokenUnacknowledged, Host
  <2>3. h \in Host
    BY <2>1, <2>2, HostWith
  <2> QED BY <2>1, <2>3 DEF Host
<1>4. host' = Accepts(h) /\ Offered
  BY DEF InTokenUnacknowledged
<1> HIDE DEF h
<1>5. /\ Offers(I, InOdd) /\ ~InPending /\ ~DataPending /\ ~SetupPending /\ deviceSetup \in Requests
      /\ host.stage \in {"dataIn", "statusIn"} /\ host' \in Host
      /\ host.stage = "statusIn" => host' = Finished(h) /\ Ends(deviceSetup.length)
      /\ host.stage = "dataIn" =>
           /\ host'.request = host.request /\ host'.address = host.address /\ deviceSetup = host.request
           /\ IF Ends(host.request.length) THEN host'.stage = "statusOut"
              ELSE /\ host'.stage = "dataIn" /\ host'.toggle = Flip(I.data0)
                   /\ host'.received = I.transferDone + Chunk
  BY <1>3, <1>4, OfferAccepted
<1>6. /\ I' = I /\ O' = O /\ InOdd' = InOdd /\ OutOdd' = OutOdd
      /\ InPending' = InPending /\ DataPending' = DataPending /\ SetupPending' = SetupPending
      /\ device' = device /\ deviceSetup' = deviceSetup /\ setupPacketBuffer' = setupPacketBuffer
      /\ setupBufferIndex' = setupBufferIndex /\ tokens' = tokens
      /\ QueueInv' /\ TurnInv'
  BY HostSteps DEF InTokenUnacknowledged, controllerVars
<1>7. host.stage = "statusIn" =>
        /\ host'.stage = "idle" /\ host'.request = NoRequest
        /\ host'.address = IF host.request.name = "SET_ADDRESS" THEN host.request.value ELSE host.address
  BY <1>1, <1>3, <1>5, HostFinished DEF SetupInv
<1>8. Types' /\ stallInterrupt' = stallInterrupt
  BY <1>1, <1>5 DEF Types, InTokenUnacknowledged, driverVars, controllerVars
<1>9. I.transferring /\ ~Halted(I, InOdd) /\ ~Empty(I, InOdd)
  BY <1>2, <1>5, Conditions
<1>10. HaltInv'
  BY <1>1, <1>6, <1>8, <1>9 DEF HaltInv
<1>11. SetupInv'
  BY <1>1, <1>5, <1>6, <1>7 DEF SetupInv
<1>12. OutInv'
  <2>1. ~(Offers(O, OutOdd) /\ O.bd[OutOdd].data01 # 0)
    BY <1>1, <1>9 DEF OutInv, DataPhase
  <2>2. host'.stage # "dataOut"
    BY <1>5, <1>7
  <2> QED BY <1>1, <1>5, <1>6, <2>1, <2>2 DEF OutInv
<1>13. Chunk' = Chunk /\ \A n \in Nat : Ends(n)' = Ends(n)
  BY <1>6 DEF Chunk, Ends
<1>14. InInv'
  <2>1. deviceSetup.length \in Nat
    BY <1>5, Constants DEF Request
  <2>2. host'.stage \in {"idle", "statusOut"} => Ends(deviceSetup.length)'
    BY <1>5, <1>6, <1>7, <1>13, <2>1
  <2>3. Progress'
    BY <1>5, <1>6, <1>7, <1>13, <2>1 DEF Progress
  <2>4. host'.stage # "statusIn"
    BY <1>5, <1>7
  <2> QED BY <1>1, <1>5, <1>6, <1>9, <1>13, <2>2, <2>3, <2>4 DEF InInv
<1>15. AddressInv'
  <2>1. CASE device.state = "Addressing"
    BY <1>1, <1>5, <1>6, <1>7, <1>9, <2>1 DEF AddressInv
  <2>2. CASE device.state # "Addressing"
    <3>1. host.request.name # "SET_ADDRESS"
      BY <1>1, <1>5, <1>9, <2>2 DEF AddressInv, Done
    <3>2. host'.address = host.address /\ host'.request \in {host.request, NoRequest}
      BY <1>5, <1>7, <3>1
    <3> QED BY <1>1, <1>5, <1>6, <2>2, <3>1, <3>2, NoRequestFits DEF AddressInv, Done
  <2> QED BY <2>1, <2>2
<1> QED BY <1>6, <1>8, <1>10, <1>11, <1>12, <1>14, <1>15 DEF IInv, PipeInv

(* A packet of the OUT direction finds the room for a SETUP or for data, and no    *)
(* STALL.                                                                   *)
LEMMA OutAnswers ==
  ASSUME IInv, Answers("OUT"), ~ep["OUT"].bd[odd["OUT"]].stall
  PROVE  /\ Offers(O, OutOdd) /\ ~Halted(O, OutOdd) /\ ~Halted(I, InOdd) /\ ~stallInterrupt
         /\ ~DataPending /\ ~SetupPending
<1>1. Types /\ TurnInv /\ HaltInv
  BY DEF IInv, PipeInv
<1>2. I \in GoodEp /\ O \in GoodEp /\ InOdd \in Bit /\ OutOdd \in Bit
  BY <1>1, Parts
<1>3. Offers(O, OutOdd)
  <2>1. O.bd[OutOdd].own /\ ~O.bd[OutOdd].stall
    BY DEF Answers, O, OutOdd
  <2> QED BY <1>1, <1>2, <2>1 DEF TurnInv, Used, Halted, Free
<1>4. ~Halted(O, OutOdd) /\ ~Used(O, OutOdd)
  BY <1>2, <1>3, Conditions
<1> QED BY <1>1, <1>3, <1>4 DEF HaltInv, TurnInv

(* What a request that receives stores is small, and one of the settings.      *)
LEMMA Receiving ==
  ASSUME NEW r \in Requests, Receives(r)
  PROVE  /\ r.length \in Nat \ {0} /\ r.length <= MaxPacketSize /\ Stage(r) = "dataOut"
         /\ r.name # "SET_ADDRESS" /\ r.name # "SET_CONFIGURATION" /\ Sets(r) \subseteq Settings
BY Constants, ControlAssumption DEF Receives, Request, Stage, ClassRequests, Writes, Reads, Sets, Settings

LEMMA OutTokenKeeps ==
  ASSUME IInv, OutToken
  PROVE  IInv'
<1>1. Types /\ QueueInv /\ TurnInv /\ HaltInv /\ SetupInv /\ OutInv /\ InInv /\ AddressInv
  BY DEF IInv, PipeInv
<1>2. I \in GoodEp /\ O \in GoodEp /\ InOdd \in Bit /\ OutOdd \in Bit
  BY <1>1, Parts
<1>3. /\ Offers(O, OutOdd) /\ ~Halted(O, OutOdd) /\ ~Halted(I, InOdd) /\ ~stallInterrupt
      /\ ~DataPending /\ ~SetupPending
  BY OutAnswers DEF OutToken
<1>4. /\ host' \in Host /\ host'.stage \in {"dataOut", "statusIn"} /\ host'.request = host.request
      /\ host'.toggle = host.toggle /\ host'.address = host.address /\ host'.payload = host.payload
      /\ host'.received = host.received
  <2>1. host \in Host
    BY <1>1 DEF Types
  <2>2. CASE host' = [host EXCEPT !.stage = "statusIn"]
    <3>1. host' \in Host
      BY <2>1, <2>2, HostWith
    <3> QED BY <2>1, <2>2, <3>1 DEF Host
  <2>3. CASE host.lost < MaxLost /\ host' = [host EXCEPT !.lost = @ + 1]
    <3>1. host.lost + 1 \in 0 .. MaxLost
      BY <2>1, <2>3, ControlAssumption DEF Host
    <3>2. [host EXCEPT !.lost = host.lost + 1] \in Host
      BY <2>1, <3>1, HostWith
    <3>3. host' = [host EXCEPT !.lost = host.lost + 1]
      BY <2>3
    <3> QED BY <2>1, <2>3, <3>2, <3>3 DEF Host, OutToken
  <2> QED BY <2>2, <2>3 DEF OutToken
<1>5. host.stage = "dataOut" /\ host.toggle = 1
  BY <1>1 DEF OutToken, OutInv
<1>6. /\ setupPacketBuffer' = setupPacketBuffer /\ stallInterrupt' = stallInterrupt
      /\ setupBufferIndex' = setupBufferIndex /\ deviceSetup' = deviceSetup
  BY DEF OutToken
<1>7. device.state # "Addressing"
  BY <1>1, <1>5 DEF AddressInv
<1>9. CASE O.bd[OutOdd].data01 = 1
  <2> DEFINE n == host.request.length
  <2>1. DataPhase
    BY <1>1, <1>3, <1>9 DEF OutInv
  <2>2. host.request \in Requests /\ Receives(host.request)
    BY <1>1, <2>1, NoRequestFits DEF SetupInv, DataPhase, Receives, ClassRequests
  <2>3. n \in Nat /\ n <= MaxPacketSize
    BY <2>2, Receiving
  <2>4. Consumed("OUT", FALSE, n) /\ device' = [device EXCEPT !.memory["dmaAlignBuffer"] = host.payload]
    BY <1>5, <1>9 DEF OutToken, O, OutOdd
  <2> HIDE DEF n
  <2>5. /\ ep' \in Pipe /\ odd' \in [Dir -> Bit] /\ I' = I /\ InOdd' = InOdd
        /\ OutOdd' = Flip(OutOdd) /\ OutOdd = Flip(OutOdd')
        /\ Used(O', OutOdd') /\ Same(O', O) /\ O'.bd[OutOdd].len = n
        /\ tokens' = IF InPending THEN <<SentTok', DataTok'>> ELSE <<DataTok'>>
    BY <1>3, <2>3, <2>4, OutConsumed DEF DataTok
  <2>6. ~I.transferring /\ ~InPending
    BY <1>1, <1>2, <2>1, Conditions DEF DataPhase, TurnInv
  <2>7. DataPending' /\ ~InPending' /\ ~SetupPending'
    <3>1. DataPending'
      BY <2>5, <2>6 DEF DataPending
    <3> QED BY <3>1, Queues DEF QueueShapes
  <2>8. /\ device' \in Device /\ device'.memory["dmaAlignBuffer"] = host.payload
        /\ device'.state = device.state /\ device'.ADDR = device.ADDR
        /\ device'.deviceAddress = device.deviceAddress
    <3> DEFINE m == [device.memory EXCEPT !["dmaAlignBuffer"] = host.payload]
    <3>1. m \in [Stored -> Nat] /\ m["dmaAlignBuffer"] = host.payload
      <4>1. device.memory \in [Stored -> Nat] /\ host.payload \in Nat
        BY <1>1 DEF Types, Device, Host
      <4> QED BY <4>1 DEF Stored
    <3>2. device' = [device EXCEPT !.memory = m]
      BY <1>1, <2>4 DEF Types, Device
    <3> HIDE DEF m
    <3>3. device \in Device
      BY <1>1 DEF Types
    <3>4. device' \in Device
      BY <3>1, <3>2, <3>3, DeviceWith
    <3> QED BY <3>1, <3>2, <3>3, <3>4 DEF Device
  <2>9. Types'
    BY <1>1, <1>4, <1>6, <2>5, <2>8 DEF Types
  <2>10. I' \in GoodEp /\ O' \in GoodEp /\ InOdd' \in Bit /\ OutOdd' \in Bit
    BY <2>9, PartsNext
  <2>11. ~Halted(O', OutOdd') /\ ~Halted(I', InOdd') /\ ~Offers(O', OutOdd')
    BY <1>3, <2>5, <2>10, Conditions
  <2>12. QueueInv' /\ HaltInv'
    BY <1>3, <1>6, <2>7, <2>11 DEF QueueInv, HaltInv
  <2>13. TurnInv'
    BY <1>1, <2>5, <2>6, <2>7 DEF TurnInv
  <2>14. DataPhase'
    BY <1>4, <1>6, <2>1, <2>5 DEF DataPhase, Same
  <2>15. OutInv' /\ InInv'
    BY <1>4, <1>5, <2>5, <2>6, <2>7, <2>8, <2>11, <2>14 DEF OutInv, InInv, n
  <2>16. AddressInv'
    BY <1>1, <1>3, <1>4, <1>7, <2>5, <2>6, <2>7, <2>8 DEF AddressInv, Done
  <2>17. SetupInv'
    BY <1>1, <1>4, <1>6, <2>7 DEF SetupInv
  <2> QED BY <2>9, <2>12, <2>13, <2>15, <2>16, <2>17 DEF IInv, PipeInv
<1>10. CASE O.bd[OutOdd].data01 # 1
  <2>1. ep' = ep /\ odd' = odd /\ tokens' = tokens /\ device' = device
    BY <1>5, <1>10 DEF OutToken, O, OutOdd
  <2>2. /\ I' = I /\ O' = O /\ InOdd' = InOdd /\ OutOdd' = OutOdd
        /\ InPending' = InPending /\ DataPending' = DataPending /\ SetupPending' = SetupPending
        /\ QueueInv' /\ TurnInv'
    BY <1>6, <2>1, HostSteps DEF driverVars
  <2>3. Types'
    BY <1>1, <1>4, <1>6, <2>1 DEF Types
  <2>4. HaltInv'
    BY <1>3, <1>6, <2>2 DEF HaltInv
  <2>5. O.bd[OutOdd].data01 = 0
    BY <1>2, <1>10 DEF GoodEp, Endpoint, Descriptor, Bit
  <2>6. OutInv'
    BY <1>1, <1>3, <1>4, <1>5, <2>2, <2>5 DEF OutInv
  <2>7. InInv'
    <3>1. Chunk' = Chunk
      BY <2>2 DEF Chunk
    <3>2. I.transferring => Progress'
      BY <1>1, <1>3, <1>4, <1>5, <2>2 DEF InInv, Progress
    <3> QED BY <1>1, <1>3, <1>4, <1>5, <1>6, <2>2, <3>1, <3>2 DEF InInv
  <2>8. AddressInv'
    BY <1>1, <1>3, <1>4, <1>6, <1>7, <2>1, <2>2 DEF AddressInv, Done
  <2>9. SetupInv'
    BY <1>1, <1>3, <1>4, <1>6, <2>2 DEF SetupInv
  <2> QED BY <2>2, <2>3, <2>4, <2>6, <2>7, <2>8, <2>9 DEF IInv, PipeInv
<1> QED BY <1>9, <1>10

(* The end of a read. The packet is dropped: the driver waits for a SETUP, with   *)
(* the other toggle.                                                        *)
LEMMA StatusOutKeeps ==
  ASSUME IInv, StatusOut
  PROVE  IInv'
<1>1. Types /\ QueueInv /\ TurnInv /\ HaltInv /\ SetupInv /\ OutInv /\ InInv /\ AddressInv
  BY DEF IInv, PipeInv
<1>2. I \in GoodEp /\ O \in GoodEp /\ InOdd \in Bit /\ OutOdd \in Bit
  BY <1>1, Parts
<1>3. /\ Offers(O, OutOdd) /\ ~Halted(O, OutOdd) /\ ~Halted(I, InOdd) /\ ~stallInterrupt
      /\ ~DataPending /\ ~SetupPending
  BY OutAnswers DEF StatusOut
<1>4. host.stage = "statusOut"
  BY DEF StatusOut
<1>5. O.bd[OutOdd].data01 = 0
  <2>1. O.bd[OutOdd].data01 \in Bit
    BY <1>2 DEF GoodEp, Endpoint, Descriptor
  <2> QED BY <1>1, <1>3, <1>4, <2>1 DEF OutInv, Bit
<1>6. ep' = ep /\ odd' = odd /\ tokens' = tokens
  BY <1>5 DEF StatusOut, O, OutOdd
<1>7. /\ setupPacketBuffer' = setupPacketBuffer /\ stallInterrupt' = stallInterrupt
      /\ setupBufferIndex' = setupBufferIndex /\ deviceSetup' = deviceSetup /\ device' = device
  BY DEF StatusOut
<1>8. /\ I' = I /\ O' = O /\ InOdd' = InOdd /\ OutOdd' = OutOdd
      /\ InPending' = InPending /\ DataPending' = DataPending /\ SetupPending' = SetupPending
      /\ QueueInv' /\ TurnInv'
  BY <1>6, <1>7, HostSteps DEF driverVars
<1>9. /\ host' \in Host /\ host'.stage = "idle" /\ host'.request = NoRequest /\ host'.address = host.address
  <2>1. host.request.name # "SET_ADDRESS"
    BY <1>1, <1>4 DEF SetupInv, Reads
  <2>2. host' = Finished(host) /\ host \in Host /\ host.request \in Requests \cup {NoRequest}
    BY <1>1 DEF StatusOut, Types, SetupInv
  <2> QED BY <2>1, <2>2, HostFinished
<1>10. Types'
  BY <1>1, <1>6, <1>7, <1>9 DEF Types
<1>11. HaltInv'
  BY <1>3, <1>7, <1>8 DEF HaltInv
<1>12. SetupInv'
  BY <1>1, <1>3, <1>7, <1>8, <1>9 DEF SetupInv
<1>13. OutInv'
  BY <1>1, <1>3, <1>5, <1>8, <1>9 DEF OutInv
<1>14. InInv'
  <2>1. Chunk' = Chunk /\ Ends(deviceSetup.length)' = Ends(deviceSetup.length)
    BY <1>7, <1>8 DEF Chunk, Ends
  <2>2. Progress'
    BY <1>9 DEF Progress
  <2> QED BY <1>1, <1>4, <1>7, <1>8, <1>9, <2>1, <2>2 DEF InInv
<1>15. AddressInv'
  BY <1>1, <1>3, <1>4, <1>7, <1>8, <1>9, NoRequestFits DEF AddressInv, Done
<1> QED BY <1>8, <1>10, <1>11, <1>12, <1>13, <1>14, <1>15 DEF IInv, PipeInv
------------------------------------------------------------------------------
(* The oldest token is taken from the queue.                                *)

LEMMA Oldest ==
  ASSUME IInv, TokenDone
  PROVE  /\ odd' = odd /\ stallInterrupt' = stallInterrupt /\ host' = host
         /\ \/ /\ InPending /\ Head(tokens) = SentTok /\ InDone
               /\ setupPacketBuffer' = setupPacketBuffer /\ setupBufferIndex' = setupBufferIndex
               /\ deviceSetup' = deviceSetup
               /\ tokens' = IF SetupPending THEN <<SetupTok>> ELSE << >>
            \/ /\ DataPending /\ Head(tokens) = DataTok /\ OutDone
               /\ setupPacketBuffer' = setupPacketBuffer /\ setupBufferIndex' = setupBufferIndex
               /\ deviceSetup' = deviceSetup /\ tokens' = << >>
            \/ ~InPending /\ SetupPending /\ Head(tokens) = SetupTok /\ SetupDone /\ tokens' = << >>
<1>1. Types /\ QueueInv /\ TurnInv
  BY DEF IInv, PipeInv
<1>2. odd' = odd /\ stallInterrupt' = stallInterrupt /\ host' = host /\ tokens # << >> /\ tokens' = Tail(tokens)
  BY DEF TokenDone
<1>3. CASE InPending
  <2>1. I.transferring
    BY <1>1, <1>3 DEF TurnInv, Used
  <2>2. tokens = IF SetupPending THEN <<SentTok, SetupTok>> ELSE <<SentTok>>
    BY <1>3, Queues DEF QueueShapes
  <2>3. Head(tokens) = SentTok /\ Tail(tokens) = IF SetupPending THEN <<SetupTok>> ELSE << >>
    <3>1. CASE SetupPending
      <4>1. tokens = <<SentTok, SetupTok>>
        BY <2>2, <3>1
      <4> HIDE DEF SentTok, SetupTok
      <4>2. Head(tokens) = SentTok /\ Tail(tokens) = <<SetupTok>>
        BY <4>1
      <4> QED BY <3>1, <4>2
    <3>2. CASE ~SetupPending
      <4>1. tokens = <<SentTok>>
        BY <2>2, <3>2
      <4>2. Head(tokens) = SentTok /\ Tail(tokens) = << >>
        BY <4>1
      <4> QED BY <3>2, <4>2
    <3> QED BY <3>1, <3>2
  <2>4. SentTok.dir = "IN" /\ ~SentTok.setup
    BY DEF SentTok, Tok
  <2>5. /\ InDone /\ setupPacketBuffer' = setupPacketBuffer /\ setupBufferIndex' = setupBufferIndex
        /\ deviceSetup' = deviceSetup
    BY <2>1, <2>3, <2>4 DEF TokenDone, I
  <2> QED BY <1>2, <1>3, <2>3, <2>5
<1>4. CASE DataPending
  <2>1. O.transferring
    BY <1>1, <1>4 DEF TurnInv, Used
  <2>2. Head(tokens) = DataTok /\ Tail(tokens) = << >>
    <3>1. tokens = <<DataTok>>
      BY <1>4 DEF DataPending
    <3> QED BY <3>1
  <2>3. DataTok.dir = "OUT" /\ ~DataTok.setup
    BY DEF DataTok, Tok
  <2>4. /\ OutDone /\ setupPacketBuffer' = setupPacketBuffer /\ setupBufferIndex' = setupBufferIndex
        /\ deviceSetup' = deviceSetup
    BY <2>1, <2>2, <2>3 DEF TokenDone, O
  <2> QED BY <1>2, <1>4, <2>2, <2>4
<1>5. CASE ~InPending /\ SetupPending
  <2>1. O.transferring
    BY <1>1, <1>5 DEF TurnInv, Used
  <2>2. tokens = <<SetupTok>>
    BY <1>5, Queues DEF QueueShapes
  <2>3. Head(tokens) = SetupTok /\ Tail(tokens) = << >>
    BY <2>2
  <2>4. SetupTok.dir = "OUT" /\ SetupTok.setup
    BY DEF SetupTok, Tok
  <2>5. SetupDone
    BY <2>1, <2>3, <2>4 DEF TokenDone, O
  <2> QED BY <1>2, <1>5, <2>3, <2>5
<1> QED BY <1>1, <1>2, <1>3, <1>4, <1>5 DEF QueueInv

(* The pipe after a packet has been sent, the OUT direction being as it was.     *)
LEMMA AfterInDone ==
  ASSUME IInv, InPending, odd' = odd, stallInterrupt' = stallInterrupt, host' = host,
         setupPacketBuffer' = setupPacketBuffer, setupBufferIndex' = setupBufferIndex, deviceSetup' = deviceSetup,
         tokens' = IF SetupPending THEN <<SetupTok>> ELSE << >>,
         ep' \in Pipe, O' = O, Empty(I', InOdd) \/ (Offers(I', InOdd) /\ ~SetupPending), device' \in Device
  PROVE  /\ Types' /\ QueueInv' /\ TurnInv' /\ HaltInv' /\ SetupInv' /\ OutInv'
         /\ ~InPending' /\ ~DataPending' /\ SetupPending' = SetupPending
         /\ InOdd' = InOdd /\ OutOdd' = OutOdd
<1>1. Types /\ QueueInv /\ TurnInv /\ HaltInv /\ SetupInv /\ OutInv
  BY DEF IInv, PipeInv
<1>2. I \in GoodEp /\ O \in GoodEp /\ InOdd \in Bit /\ OutOdd \in Bit
  BY <1>1, Parts
<1>3. InOdd' = InOdd /\ OutOdd' = OutOdd /\ SetupTok' = SetupTok
  BY DEF InOdd, OutOdd, SetupTok, Tok
<1>4. ~InPending' /\ ~DataPending' /\ SetupPending' = SetupPending
  <2>1. CASE SetupPending
    <3>1. tokens' = <<SetupTok'>>
      BY <1>3, <2>1
    <3>2. SetupPending' /\ ~InPending' /\ ~DataPending'
      BY <3>1, Queues DEF QueueShapes
    <3> QED BY <2>1, <3>2
  <2>2. CASE ~SetupPending
    <3>1. ~SetupPending' /\ ~InPending' /\ ~DataPending'
      BY <2>2, Queues DEF QueueShapes
    <3> QED BY <2>2, <3>1 DEF SetupPending
  <2> QED BY <2>1, <2>2
<1>5. Types'
  BY <1>1 DEF Types
<1>6. I' \in GoodEp /\ O' \in GoodEp
  BY <1>5, PartsNext
<1>7. ~DataPending
  BY Queues DEF QueueShapes
<1>8. Used(I, InOdd) /\ ~Empty(I, InOdd) /\ ~Halted(I, InOdd) /\ ~Halted(O, OutOdd) /\ ~Halted(I', InOdd)
  BY <1>1, <1>2, <1>6, Conditions DEF TurnInv, HaltInv
<1>9. QueueInv'
  BY <1>4 DEF QueueInv
<1>10. TurnInv'
  BY <1>1, <1>3, <1>4, <1>7 DEF TurnInv
<1>11. HaltInv'
  BY <1>1, <1>3, <1>8 DEF HaltInv
<1>12. SetupInv'
  BY <1>1, <1>3, <1>4 DEF SetupInv
<1>13. OutInv'
  <2>1. ~(Offers(O, OutOdd) /\ O.bd[OutOdd].data01 # 0)
    BY <1>1, <1>8 DEF OutInv, DataPhase
  <2> QED BY <1>1, <1>3, <1>4, <2>1 DEF OutInv
<1> QED BY <1>3, <1>4, <1>5, <1>9, <1>10, <1>11, <1>12, <1>13

(* What has been counted of an answer, and what of it is left.                *)
LEMMA InCounted ==
  ASSUME IInv, InPending
  PROVE  LET i == TokenCounted(I, Chunk)
         IN  /\ I.bd[Flip(InOdd)].len = Chunk /\ Chunk \in Nat /\ Chunk <= MaxPacketSize
             /\ i \in GoodEp /\ i.transferring /\ Free(i) /\ i.bdtOdd = InOdd /\ i.data0 = Flip(I.data0)
             /\ i.transferBuffer = I.transferBuffer /\ i.transferLength = I.transferLength
             /\ i.transferDone = I.transferDone + Chunk /\ i.transferDone <= i.transferLength
             /\ Remaining(i) = i.transferLength - i.transferDone
             /\ i.maxPacketSize = MaxPacketSize
             /\ I.transferDone \in Nat /\ I.transferLength \in Nat
             /\ deviceSetup \in Requests /\ I.transferLength <= deviceSetup.length
<1>1. Types /\ TurnInv /\ InInv
  BY DEF IInv, PipeInv
<1>2. I \in GoodEp /\ InOdd \in Bit
  BY <1>1, Parts
<1>3. Used(I, InOdd) /\ I.transferring /\ I.bdtOdd = Flip(InOdd) /\ Free(I)
  BY <1>1 DEF TurnInv, Used
<1>4. /\ I.transferDone <= I.transferLength /\ I.transferLength <= deviceSetup.length
      /\ I.bd[Flip(InOdd)].len = Chunk /\ deviceSetup \in Requests
  BY <1>1, <1>3 DEF InInv
<1>5. I.transferDone \in Nat /\ I.transferLength \in Nat
  BY <1>2 DEF GoodEp, Endpoint
<1>6. deviceSetup.length \in Nat /\ deviceSetup.length < WORD
  BY <1>4, Constants DEF Request
<1>7. Chunk \in Nat /\ Chunk <= MaxPacketSize /\ I.transferDone + Chunk <= I.transferLength
  BY <1>4, <1>5, Constants DEF Chunk, Least
<1>8. (I.transferDone + Chunk) % WORD = I.transferDone + Chunk
  <2>1. WORD \in Nat
    BY Constants
  <2> DEFINE sent == I.transferDone + Chunk
  <2>2. sent \in Int /\ 0 <= sent /\ sent < WORD
    <3> HIDE DEF Chunk
    <3> QED BY <1>4, <1>5, <1>6, <1>7, <2>1
  <2> HIDE DEF sent
  <2>3. sent % WORD = sent
    BY <2>2, Words
  <2> QED BY <2>3 DEF sent
<1> DEFINE i == TokenCounted(I, Chunk)
<1>9. /\ i \in GoodEp /\ i.bd = I.bd /\ i.bdtOdd = Flip(I.bdtOdd) /\ i.data0 = Flip(I.data0)
      /\ i.transferring = I.transferring /\ i.transferBuffer = I.transferBuffer
      /\ i.transferLength = I.transferLength
      /\ i.transferDone = (I.transferDone + Chunk) % WORD
  BY <1>2, <1>7, TokenCountedDoes
<1>10. Flip(Flip(InOdd)) = InOdd
  BY <1>2, Flipping
<1>11. Free(i) /\ i.transferring /\ i.bdtOdd = InOdd /\ i.maxPacketSize = MaxPacketSize
  BY <1>3, <1>9, <1>10 DEF Free, GoodEp
<1>12. /\ i.transferDone = I.transferDone + Chunk /\ i.transferDone <= i.transferLength
       /\ i.transferLength - i.transferDone \in Int
  BY <1>5, <1>7, <1>8, <1>9
<1>13. Remaining(i) = i.transferLength - i.transferDone
  <2> HIDE DEF i
  <2>1. 0 <= i.transferLength - i.transferDone /\ i.transferLength - i.transferDone < WORD
    BY <1>4, <1>5, <1>6, <1>7, <1>9, <1>12, Constants
  <2> QED BY <1>12, <2>1, Words DEF Remaining
<1> QED BY <1>4, <1>5, <1>7, <1>9, <1>11, <1>12, <1>13

(* A full packet before the last.                                           *)
LEMMA FullPacket ==
  ASSUME NEW n \in Nat, n # 0, n <= MaxPacketSize, n % MaxPacketSize = 0
  PROVE  n = MaxPacketSize
<1>1. MaxPacketSize \in Nat \ {0}
  BY Constants
<1>2. n < MaxPacketSize => n % MaxPacketSize = n
  BY <1>1
<1> QED BY <1>1, <1>2

LEMMA InDoneKeeps ==
  ASSUME IInv, TokenDone, InPending
  PROVE  IInv'
<1>1. Types /\ TurnInv /\ HaltInv /\ SetupInv /\ OutInv /\ InInv /\ AddressInv
  BY DEF IInv, PipeInv
<1>2. I \in GoodEp /\ O \in GoodEp /\ InOdd \in Bit /\ OutOdd \in Bit
  BY <1>1, Parts
<1>3. /\ odd' = odd /\ stallInterrupt' = stallInterrupt /\ host' = host
      /\ Head(tokens) = SentTok /\ InDone
      /\ setupPacketBuffer' = setupPacketBuffer /\ setupBufferIndex' = setupBufferIndex
      /\ deviceSetup' = deviceSetup
      /\ tokens' = IF SetupPending THEN <<SetupTok>> ELSE << >>
  BY Oldest, Queues DEF QueueShapes
<1> DEFINE i == TokenCounted(I, Chunk)
           e == [ep EXCEPT !["IN"] = i]
<1>4. /\ I.bd[Flip(InOdd)].len = Chunk /\ Chunk \in Nat /\ Chunk <= MaxPacketSize
      /\ i \in GoodEp /\ i.transferring /\ Free(i) /\ i.bdtOdd = InOdd /\ i.data0 = Flip(I.data0)
      /\ i.transferBuffer = I.transferBuffer /\ i.transferLength = I.transferLength
      /\ i.transferDone = I.transferDone + Chunk /\ i.transferDone <= i.transferLength
      /\ Remaining(i) = i.transferLength - i.transferDone
      /\ i.maxPacketSize = MaxPacketSize
      /\ I.transferDone \in Nat /\ I.transferLength \in Nat
      /\ deviceSetup \in Requests /\ I.transferLength <= deviceSetup.length
  BY InCounted
<1>5. e = Counted(ep, "IN", Chunk)
  BY DEF Counted, I
<1>6. ep["IN"].bd[Head(tokens).odd].len = Chunk
  BY <1>3, <1>4 DEF SentTok, Tok, InOdd, I
<1> HIDE DEF i
<1>7. e \in Pipe /\ e["IN"] = i /\ e["OUT"] = O
  <2>1. ep \in Pipe
    BY <1>1 DEF Types
  <2> QED BY <1>4, <2>1, PipeWith DEF O
<1> HIDE DEF e
<1>8. \/ /\ ~TransferComplete(i, Chunk)
         /\ ep' = Send(e, i.transferBuffer, Remaining(i)) /\ device' = device
      \/ /\ TransferComplete(i, Chunk) /\ EndsShort(i, Chunk)
         /\ ep' = [e EXCEPT !["IN"] = EndpointTransfer(i, i.transferDone, 0)] /\ device' = device
      \/ /\ TransferComplete(i, Chunk) /\ ~EndsShort(i, Chunk)
         /\ ep' = [e EXCEPT !["IN"] = Cancel(i)]
         /\ device' = IF device.state = "Addressing" /\ deviceSetup.name = "SET_ADDRESS"
                        THEN SetAddress(device, deviceSetup).device ELSE device
  <2> DEFINE Outcomes(f, len) ==
      IF ~TransferComplete(f["IN"], len)
        THEN ep' = Send(f, f["IN"].transferBuffer, Remaining(f["IN"])) /\ UNCHANGED device
      ELSE IF EndsShort(f["IN"], len)
        THEN ep' = [f EXCEPT !["IN"] = EndpointTransfer(@, f["IN"].transferDone, 0)] /\ UNCHANGED device
      ELSE /\ ep' = [f EXCEPT !["IN"] = Cancel(@)]
           /\ device' = IF device.state = "Addressing" /\ deviceSetup.name = "SET_ADDRESS"
                          THEN SetAddress(device, deviceSetup).device ELSE device
  <2>1. Outcomes(Counted(ep, "IN", ep["IN"].bd[Head(tokens).odd].len), ep["IN"].bd[Head(tokens).odd].len)
    BY <1>3 DEF InDone
  <2>2. Outcomes(e, Chunk)
    <3> HIDE DEF Outcomes
    <3> QED BY <1>5, <1>6, <2>1
  <2> QED BY <1>7, <2>2
<1>9. ~DataPending
  BY Queues DEF QueueShapes
<1>10. I.transferring
  BY <1>1 DEF TurnInv, Used
<1>11. CASE \/ ~TransferComplete(i, Chunk)
            \/ TransferComplete(i, Chunk) /\ EndsShort(i, Chunk)
  <2>1. /\ ep' \in Pipe /\ O' = O /\ device' = device /\ Same(I', i) /\ Offers(I', InOdd)
        /\ I'.bd[InOdd].len = Chunk' /\ I'.bd[InOdd].data01 = i.data0
        /\ ~Ends(deviceSetup.length)
    <3>1. CASE ~TransferComplete(i, Chunk)
      <4> DEFINE n == Remaining(i)
      <4>1. n \in Nat \ {0} /\ Chunk = MaxPacketSize
        BY <1>4, <3>1, Constants DEF TransferComplete
      <4>2. ep' = Send(e, i.transferBuffer, n) /\ device' = device
        BY <1>8, <3>1
      <4> HIDE DEF n
      <4>3. LET f == Send(e, e["IN"].transferBuffer, n)
            IN  /\ f \in Pipe /\ f["OUT"] = e["OUT"] /\ Same(f["IN"], e["IN"])
                /\ Offers(f["IN"], e["IN"].bdtOdd)
                /\ f["IN"].bd[e["IN"].bdtOdd].len = Least(n, MaxPacketSize)
                /\ f["IN"].bd[e["IN"].bdtOdd].data01 = e["IN"].data0
        BY <1>4, <1>7, <4>1, SendContinues
      <4>4. /\ ep' \in Pipe /\ O' = O /\ Same(I', i) /\ Offers(I', InOdd)
            /\ I'.bd[InOdd].len = Least(n, MaxPacketSize) /\ I'.bd[InOdd].data01 = i.data0
        BY <1>4, <1>7, <4>2, <4>3 DEF I, O
      <4>5. Chunk' = Least(n, MaxPacketSize)
        BY <1>4, <4>4 DEF Chunk, Same, n
      <4>6. ~Ends(deviceSetup.length)
        <5>1. Ends(deviceSetup.length) <=> I.transferDone + Chunk >= deviceSetup.length
          BY <1>4, <4>1, Constants DEF Ends
        <5>2. deviceSetup.length \in Nat
          BY <1>4, Constants DEF Request
        <5>3. n = I.transferLength - (I.transferDone + Chunk)
          BY <1>4 DEF n
        <5>4. CASE I.transferDone + Chunk >= deviceSetup.length
          <6> HIDE DEF Chunk
          <6> QED BY <1>4, <4>1, <5>2, <5>3, <5>4
        <5> QED BY <5>1, <5>4
      <4> QED BY <4>1, <4>2, <4>4, <4>5, <4>6
    <3>2. CASE TransferComplete(i, Chunk) /\ EndsShort(i, Chunk)
      <4> DEFINE t == EndpointTransfer(i, i.transferDone, 0)
      <4>1. /\ Chunk # 0 /\ Chunk % MaxPacketSize = 0
            /\ setupPacketBuffer[setupBufferIndex].length > I.transferLength
        BY <1>4, <3>2 DEF EndsShort
      <4>2. Chunk = MaxPacketSize
        <5> HIDE DEF Chunk
        <5> QED BY <1>4, <4>1, FullPacket
      <4>3. i.transferDone = i.transferLength
        BY <1>4, <3>2, <4>2, Constants DEF TransferComplete
      <4>4. setupPacketBuffer[setupBufferIndex] = deviceSetup
        <5>1. I.transferLength # 0
          BY <1>4, <4>1 DEF Chunk, Least
        <5> QED BY <1>1, <1>10, <5>1 DEF InInv
      <4>5. ~Ends(deviceSetup.length)
        <5>1. deviceSetup.length \in Nat
          BY <1>4, Constants DEF Request
        <5>2. I.transferDone + Chunk < deviceSetup.length
          BY <1>4, <4>1, <4>3, <4>4, <5>1
        <5>3. ~(Chunk < MaxPacketSize) /\ ~(I.transferDone + Chunk >= deviceSetup.length)
          BY <1>4, <4>2, <5>1, <5>2, Constants
        <5> QED BY <5>3 DEF Ends
      <4>6. ep' = [e EXCEPT !["IN"] = t] /\ device' = device
        BY <1>8, <3>2
      <4>7. /\ t \in GoodEp /\ Same(t, i) /\ Offers(t, InOdd) /\ t.bd[InOdd].len = 0 /\ t.bd[InOdd].data01 = i.data0
        <5>1. ~i.bd[Flip(i.bdtOdd)].own
          BY <1>2, <1>4, Flipping DEF Free
        <5>2. i.transferDone \in Nat /\ 0 <= MaxPacketSize
          BY <1>4, Constants DEF GoodEp, Endpoint
        <5>3. LET f == EndpointTransfer(i, i.transferDone, 0)
              IN  /\ f \in GoodEp /\ Same(f, i) /\ Offers(f, i.bdtOdd)
                  /\ f.bd[i.bdtOdd].len = 0 /\ f.bd[i.bdtOdd].data01 = i.data0
          BY <1>4, <5>1, <5>2, EndpointTransferDoes
        <5> QED BY <1>4, <5>3
      <4> HIDE DEF t
      <4>8. ep' \in Pipe /\ I' = t /\ O' = O
        BY <1>7, <4>6, <4>7, PipeWith DEF I, O
      <4>9. Chunk' = 0
        BY <1>4, <4>3, <4>7, <4>8, Constants DEF Chunk, Same, Least
      <4> QED BY <4>5, <4>6, <4>7, <4>8, <4>9
    <3> QED BY <1>11, <3>1, <3>2
  <2>2. ~SetupPending /\ host.stage = "dataIn" /\ deviceSetup = host.request
        /\ host.toggle = Flip(I.data0) /\ host.received = I.transferDone + Chunk
    <3>1. ~SetupPending /\ host.stage \notin {"idle", "statusOut"} /\ Progress
      BY <1>1, <1>10, <2>1 DEF InInv
    <3>2. host.stage = "dataIn"
      <4>1. host.stage \in {"idle", "dataIn", "dataOut", "statusIn", "statusOut"}
        BY <1>1 DEF Types, Host
      <4> QED BY <3>1, <4>1 DEF Progress
    <3> QED BY <3>1, <3>2 DEF Progress
  <2>3. /\ Types' /\ QueueInv' /\ TurnInv' /\ HaltInv' /\ SetupInv' /\ OutInv'
        /\ ~InPending' /\ ~DataPending' /\ SetupPending' = SetupPending
        /\ InOdd' = InOdd /\ OutOdd' = OutOdd
    <3>1. device' \in Device
      BY <1>1, <2>1 DEF Types
    <3> QED BY <1>3, <2>1, <2>2, <3>1, AfterInDone
  <2>4. I'.transferring /\ I'.bdtOdd = InOdd
    BY <2>1 DEF Offers
  <2>5. Progress'
    <3> HIDE DEF Chunk
    <3> QED BY <1>3, <1>4, <2>1, <2>2, <2>3 DEF Progress, Same
  <2>6. InInv'
    <3>1. /\ I'.transferDone <= I'.transferLength /\ I'.transferLength <= deviceSetup'.length
          /\ deviceSetup' \in Requests /\ I'.data0 = i.data0
      BY <1>3, <1>4, <2>1 DEF Same
    <3>2. I'.transferLength # 0 =>
            /\ setupPacketBuffer'[setupBufferIndex'] = deviceSetup'
            /\ setupBufferIndex' = IF SetupPending' THEN OutOdd' ELSE Flip(OutOdd')
      BY <1>1, <1>3, <1>4, <1>10, <2>1, <2>2, <2>3 DEF InInv, Same
    <3> QED BY <1>3, <2>1, <2>2, <2>3, <2>4, <2>5, <3>1, <3>2 DEF InInv
  <2>7. AddressInv'
    BY <1>1, <1>3, <1>10, <2>1, <2>2, <2>3, <2>4 DEF AddressInv, Done
  <2> QED BY <2>3, <2>6, <2>7 DEF IInv, PipeInv
<1>12. CASE TransferComplete(i, Chunk) /\ ~EndsShort(i, Chunk)
  <2> DEFINE c == Cancel(i)
  <2>1. /\ ep' = [e EXCEPT !["IN"] = c]
        /\ device' = IF device.state = "Addressing" /\ deviceSetup.name = "SET_ADDRESS"
                       THEN SetAddress(device, deviceSetup).device ELSE device
    BY <1>8, <1>12
  <2>2. c \in GoodEp /\ Same(c, i) /\ ~c.transferring /\ c.bd = i.bd
    BY <1>4, CancelDoes
  <2> HIDE DEF c
  <2>3. ep' \in Pipe /\ I' = c /\ O' = O
    BY <1>7, <2>1, <2>2, PipeWith DEF I, O
  <2>4. Empty(I', InOdd) /\ ~I'.transferring
    BY <1>4, <2>2, <2>3 DEF Empty, Same, Free
  <2>5. CASE device.state = "Addressing"
    <3>1. /\ deviceSetup.name = "SET_ADDRESS" /\ deviceSetup.index = 0 /\ deviceSetup.length = 0
          /\ device.deviceAddress = deviceSetup.value /\ ~SetupPending
      BY <1>1, <2>5 DEF AddressInv
    <3>2. host.address = deviceSetup.value
      <4>1. host.stage # "statusIn"
        BY <1>1, <1>10, <3>1 DEF InInv, Progress
      <4> QED BY <1>1, <2>5, <4>1 DEF AddressInv
    <3>3. device' = SetAddress(device, deviceSetup).device
      BY <2>1, <2>5, <3>1
    <3>4. LET d == SetAddress(device, deviceSetup).device
          IN  \/ d = device /\ (deviceSetup.index # 0 \/ deviceSetup.length # 0)
              \/ /\ d \in Device /\ d.state = "Address" /\ d.ADDR = device.deviceAddress
                 /\ d.deviceAddress = device.deviceAddress /\ d.configuration = device.configuration
                 /\ d.currentConfiguration = device.currentConfiguration /\ d.memory = device.memory
      <4>1. device \in Device
        BY <1>1 DEF Types
      <4> QED BY <2>5, <4>1, AddressTaken
    <3>5. /\ device' \in Device /\ device'.state = "Address" /\ device'.ADDR = host.address
          /\ device'.deviceAddress = host.address
      BY <3>1, <3>2, <3>3, <3>4
    <3>6. /\ Types' /\ QueueInv' /\ TurnInv' /\ HaltInv' /\ SetupInv' /\ OutInv'
          /\ ~InPending' /\ ~DataPending' /\ SetupPending' = SetupPending
      BY <1>3, <2>3, <2>4, <3>5, AfterInDone
    <3>7. InInv'
      BY <1>1, <1>3, <2>4 DEF InInv
    <3>8. AddressInv'
      BY <1>3, <2>4, <3>1, <3>5, <3>6 DEF AddressInv, Done
    <3> QED BY <3>6, <3>7, <3>8 DEF IInv, PipeInv
  <2>6. CASE device.state # "Addressing"
    <3>1. device' = device /\ device' \in Device
      BY <1>1, <2>1, <2>6 DEF Types
    <3>2. /\ Types' /\ QueueInv' /\ TurnInv' /\ HaltInv' /\ SetupInv' /\ OutInv'
          /\ ~InPending' /\ ~DataPending' /\ SetupPending' = SetupPending
      BY <1>3, <2>3, <2>4, <3>1, AfterInDone
    <3>3. InInv'
      BY <1>1, <1>3, <2>4 DEF InInv
    <3>4. AddressInv'
      BY <1>1, <1>3, <2>4, <2>6, <3>1, <3>2 DEF AddressInv, Done
    <3> QED BY <3>2, <3>3, <3>4 DEF IInv, PipeInv
  <2> QED BY <2>5, <2>6
<1> QED BY <1>11, <1>12

(* The data that a request stores.                                          *)
LEMMA OutDoneReplies ==
  ASSUME IInv, TokenDone, DataPending
  PROVE  ep' \in Pipe /\ Replies(ep', InOdd, OutOdd, 0)
<1>1. Types /\ TurnInv /\ HaltInv /\ SetupInv /\ OutInv /\ InInv /\ AddressInv
  BY DEF IInv, PipeInv
<1>2. I \in GoodEp /\ O \in GoodEp /\ InOdd \in Bit /\ OutOdd \in Bit
  BY <1>1, Parts
<1>3. /\ odd' = odd /\ stallInterrupt' = stallInterrupt /\ host' = host
      /\ Head(tokens) = DataTok /\ OutDone
      /\ setupPacketBuffer' = setupPacketBuffer /\ setupBufferIndex' = setupBufferIndex
      /\ deviceSetup' = deviceSetup /\ tokens' = << >> /\ ~InPending /\ ~SetupPending
  BY Oldest, Queues DEF QueueShapes
<1>4. /\ DataPhase /\ host.stage \in {"dataOut", "statusIn"} /\ O.bd[Flip(OutOdd)].len = host.request.length
      /\ Used(O, OutOdd)
  BY <1>1 DEF OutInv, TurnInv
<1>5. /\ Empty(I, InOdd) /\ I.data0 = 1 /\ host.toggle = 1 /\ deviceSetup = host.request
      /\ Receives(host.request) /\ Sets(host.request) = {O.transferBuffer}
  BY <1>4 DEF DataPhase
<1>6. host.request \in Requests
  BY <1>1, <1>5, NoRequestFits DEF SetupInv, Receives, ClassRequests
<1>7. /\ host.request.length \in Nat \ {0} /\ host.request.name # "SET_ADDRESS"
      /\ O.transferBuffer \in Settings
  BY <1>5, <1>6, Receiving
<1> DEFINE n == host.request.length
           e == [Counted(ep, "OUT", n) EXCEPT !["OUT"] = Cancel(@)]
           t == TokenCounted(O, n)
           c == Cancel(t)
<1>8. e \in Pipe /\ e["IN"] = I /\ Empty(e["OUT"], OutOdd)
  <2>1. t \in GoodEp /\ t.bd = O.bd /\ t.bdtOdd = Flip(O.bdtOdd)
    BY <1>2, <1>7, TokenCountedDoes
  <2>2. t.bdtOdd = OutOdd /\ Free(t)
    BY <1>2, <1>4, <2>1, Flipping DEF Used, Free
  <2>3. c \in GoodEp /\ Same(c, t) /\ ~c.transferring /\ c.bd = t.bd
    <3> HIDE DEF t
    <3> QED BY <2>1, CancelDoes
  <2>4. Empty(c, OutOdd)
    BY <2>2, <2>3 DEF Empty, Free, Same
  <2>5. ep \in Pipe
    BY <1>1 DEF Types
  <2>6. e = [ep EXCEPT !["OUT"] = c]
    BY <2>5 DEF Counted, O, Pipe, Dir
  <2> HIDE DEF c, e
  <2> QED BY <2>3, <2>4, <2>5, <2>6, PipeWith DEF I
<1>9. ep' = Feedback(e, deviceSetup, Found("NULL", 0))
  <2>1. ep["OUT"].bd[Head(tokens).odd].len = n
    BY <1>3, <1>4 DEF DataTok, Tok, O, OutOdd
  <2> QED BY <1>3, <1>7, <2>1 DEF OutDone, O
<1> HIDE DEF n, e
<1>10. ep' \in Pipe /\ Replies(ep', InOdd, OutOdd, 0)
  <2>1. "NULL" \in Buffers /\ deviceSetup \in Request /\ deviceSetup.name # "none"
    BY <1>5, <1>6, Constants
  <2>2. Found("NULL", 0) \in Answer /\ Found("NULL", 0).length = 0 /\ Found("NULL", 0).error = "Success"
    BY <2>1, FoundAnswers
  <2> DEFINE a == Found("NULL", 0)
  <2> HIDE DEF a
  <2>3. LET f == Feedback(e, deviceSetup, a)
        IN  /\ f \in Pipe
            /\ \/ a.error = "InvalidRequest" /\ Refuses(f, InOdd, OutOdd)
               \/ /\ a.error # "InvalidRequest"
                  /\ \E m \in 0 .. deviceSetup.length : m <= a.length /\ Replies(f, InOdd, OutOdd, m)
    BY <1>2, <1>5, <1>8, <2>1, <2>2, FeedbackDoes DEF a
  <2>4. PICK m \in 0 .. deviceSetup.length : m <= 0 /\ Replies(ep', InOdd, OutOdd, m)
    BY <1>9, <2>2, <2>3 DEF a
  <2>5. m = 0
    BY <2>4
  <2> QED BY <1>9, <2>3, <2>4, <2>5 DEF a
<1> QED BY <1>10

LEMMA OutDoneKeeps ==
  ASSUME IInv, TokenDone, DataPending
  PROVE  IInv'
<1>1. Types /\ TurnInv /\ HaltInv /\ SetupInv /\ OutInv /\ InInv /\ AddressInv
  BY DEF IInv, PipeInv
<1>2. I \in GoodEp /\ O \in GoodEp /\ InOdd \in Bit /\ OutOdd \in Bit
  BY <1>1, Parts
<1>3. /\ odd' = odd /\ stallInterrupt' = stallInterrupt /\ host' = host
      /\ Head(tokens) = DataTok /\ OutDone
      /\ setupPacketBuffer' = setupPacketBuffer /\ setupBufferIndex' = setupBufferIndex
      /\ deviceSetup' = deviceSetup /\ tokens' = << >> /\ ~InPending /\ ~SetupPending
  BY Oldest, Queues DEF QueueShapes
<1>4. /\ DataPhase /\ host.stage \in {"dataOut", "statusIn"} /\ O.bd[Flip(OutOdd)].len = host.request.length
      /\ Used(O, OutOdd)
  BY <1>1 DEF OutInv, TurnInv
<1>5. /\ Empty(I, InOdd) /\ I.data0 = 1 /\ host.toggle = 1 /\ deviceSetup = host.request
      /\ Receives(host.request) /\ Sets(host.request) = {O.transferBuffer}
  BY <1>4 DEF DataPhase
<1>6. host.request \in Requests
  BY <1>1, <1>5, NoRequestFits DEF SetupInv, Receives, ClassRequests
<1>7. /\ host.request.length \in Nat \ {0} /\ host.request.name # "SET_ADDRESS"
      /\ O.transferBuffer \in Settings
  BY <1>5, <1>6, Receiving
<1>9. device' = [device EXCEPT !.memory[O.transferBuffer] = device.memory["dmaAlignBuffer"],
                                   !.memory["dmaAlignBuffer"] = 0]
  <2>1. ep["OUT"].bd[Head(tokens).odd].len # 0
    BY <1>3, <1>4, <1>7 DEF DataTok, Tok, O, OutOdd
  <2> QED BY <1>3, <2>1 DEF OutDone, O
<1>10. ep' \in Pipe /\ Replies(ep', InOdd, OutOdd, 0)
  BY OutDoneReplies
<1>11. /\ device' \in Device /\ device'.state = device.state /\ device'.ADDR = device.ADDR
       /\ device'.deviceAddress = device.deviceAddress
  <2> DEFINE m == [device.memory EXCEPT ![O.transferBuffer] = device.memory["dmaAlignBuffer"],
                                        !["dmaAlignBuffer"] = 0]
  <2>1. device \in Device /\ device.memory \in [Stored -> Nat]
    BY <1>1 DEF Types, Device
  <2>2. m \in [Stored -> Nat]
    BY <1>7, <2>1 DEF Stored
  <2>3. device' = [device EXCEPT !.memory = m]
    BY <1>9, <2>1 DEF Device
  <2> HIDE DEF m
  <2>4. device' \in Device
    BY <2>1, <2>2, <2>3, DeviceWith
  <2> QED BY <2>1, <2>3, <2>4 DEF Device
<1>12. InOdd' = InOdd /\ OutOdd' = OutOdd
  BY <1>3 DEF InOdd, OutOdd
<1>13. ~InPending' /\ ~DataPending' /\ ~SetupPending'
  BY <1>3, Queues DEF QueueShapes
<1>14. Types'
  BY <1>1, <1>3, <1>10, <1>11 DEF Types
<1>15. I' \in GoodEp /\ O' \in GoodEp
  BY <1>14, PartsNext
<1>16. /\ Offers(I', InOdd') /\ I'.transferDone = 0 /\ I'.transferLength = 0 /\ I'.data0 = 1
       /\ I'.bd[InOdd'].len = Least(0, MaxPacketSize) /\ I'.bd[InOdd'].data01 = 1
       /\ Listening(O', OutOdd')
  BY <1>10, <1>12 DEF Replies, I, O
<1>17. /\ I'.transferring /\ I'.bdtOdd = InOdd' /\ Offers(O', OutOdd') /\ ~Halted(I', InOdd')
       /\ ~Halted(O', OutOdd') /\ O'.bd[OutOdd'].data01 = 0 /\ O'.transferBuffer = "setupPacketBuffer"
  BY <1>2, <1>12, <1>15, <1>16, Conditions DEF Listening
<1>18. QueueInv' /\ TurnInv'
  BY <1>3, <1>13, <1>16, <1>17 DEF QueueInv, TurnInv
<1>19. HaltInv'
  <2>1. ~Halted(O, OutOdd)
    BY <1>2, <1>4, Conditions
  <2> QED BY <1>1, <1>3, <1>17, <2>1 DEF HaltInv
<1>20. SetupInv'
  BY <1>1, <1>3, <1>13 DEF SetupInv
<1>21. OutInv'
  BY <1>3, <1>5, <1>13, <1>17 DEF OutInv
<1>22. InInv'
  <2>1. Chunk' = 0 /\ Least(0, MaxPacketSize) = 0
    BY <1>16, Constants DEF Chunk, Least
  <2>2. Progress'
    BY <1>3, <1>4, <1>13, <1>16 DEF Progress
  <2> QED BY <1>3, <1>4, <1>5, <1>6, <1>7, <1>13, <1>16, <1>17, <2>1, <2>2 DEF InInv
<1>23. AddressInv'
  <2>1. device.state # "Addressing"
    BY <1>1, <1>5 DEF AddressInv, Empty
  <2> QED BY <1>1, <1>3, <1>7, <1>11, <1>13, <2>1 DEF AddressInv, Done
<1> QED BY <1>14, <1>18, <1>19, <1>20, <1>21, <1>22, <1>23 DEF IInv, PipeInv

(* A request is handled. What is left of the answer to the one before it is over.  *)
LEMMA SetupDoneDoes ==
  ASSUME IInv, TokenDone, ~InPending, SetupPending
  PROVE  LET r == host.request
             a == Handle(device, r).answer
         IN  /\ odd' = odd /\ stallInterrupt' = FALSE /\ host' = host /\ tokens' = << >>
             /\ r \in Requests /\ host.stage = Stage(r) /\ host.toggle = 1 /\ host.received = 0
             /\ setupPacketBuffer' \in [Bit -> Request] /\ setupPacketBuffer'[Flip(OutOdd)] = r
             /\ setupBufferIndex' = Flip(OutOdd) /\ deviceSetup' = r
             /\ device.state # "Addressing" /\ device' = Handle(device, r).device /\ device' \in Device
             /\ Agrees(r, a)
             /\ ep' \in Pipe
             /\ \/ Refuses(ep', InOdd, OutOdd) /\ (Receives(r) \/ Final(a).error = "InvalidRequest")
                \/ /\ ~Receives(r) /\ Final(a).error # "InvalidRequest"
                   /\ \E n \in 0 .. r.length : n <= Final(a).length /\ Replies(ep', InOdd, OutOdd, n)
                \/ Collects(ep', InOdd, OutOdd, r)
<1>1. Types /\ TurnInv /\ HaltInv /\ SetupInv /\ InInv /\ AddressInv
  BY DEF IInv, PipeInv
<1>2. I \in GoodEp /\ O \in GoodEp /\ InOdd \in Bit /\ OutOdd \in Bit
  BY <1>1, Parts
<1>3. /\ odd' = odd /\ stallInterrupt' = stallInterrupt /\ host' = host
      /\ Head(tokens) = SetupTok /\ SetupDone /\ tokens' = << >>
  BY Oldest, Queues DEF QueueShapes
<1>4. Used(O, OutOdd) /\ ~Halted(O, OutOdd) /\ ~stallInterrupt /\ ~Halted(I, InOdd)
  BY <1>1, <1>2, Conditions DEF TurnInv, HaltInv
<1>5. Empty(I, InOdd)
  <2>1. ~I.transferring
    BY <1>1 DEF InInv
  <2> QED BY <1>1, <1>2, <1>4, <2>1, Conditions DEF TurnInv
<1> DEFINE r == host.request
           a == Handle(device, r).answer
           e == SetupCounted(ep)
<1>6. Head(tokens).odd = Flip(OutOdd) /\ setupPacketBuffer[Flip(OutOdd)] = r
  BY <1>1, <1>3 DEF SetupInv, SetupTok, Tok, OutOdd
<1>7. /\ setupBufferIndex' = Flip(OutOdd) /\ deviceSetup' = r
      /\ setupPacketBuffer' = [setupPacketBuffer EXCEPT ![OutOdd] = NoRequest]
      /\ device' = Handle(device, r).device /\ ep' = SetupStage(e, r, a)
  <2>1. Flip(Flip(OutOdd)) = OutOdd
    BY <1>2, Flipping
  <2> QED BY <1>3, <1>6, <2>1 DEF SetupDone
<1>8. setupPacketBuffer' \in [Bit -> Request] /\ setupPacketBuffer'[Flip(OutOdd)] = r
  BY <1>1, <1>2, <1>6, <1>7, NoRequestFits, Flipping DEF Types
<1>9. /\ r \in Requests /\ host.stage = Stage(r) /\ host.toggle = 1 /\ host.received = 0
      /\ r \in Request /\ r.name # "none"
  BY <1>1, Constants DEF SetupInv
<1>10. device.state # "Addressing" /\ device \in Device
  BY <1>1 DEF AddressInv, Types
<1>11. device' \in Device /\ Agrees(r, a)
  BY <1>7, <1>9, <1>10, HandleAgrees
<1>12. e \in Pipe /\ Empty(e["IN"], InOdd) /\ Empty(e["OUT"], OutOdd) /\ e["IN"].data0 = 1 /\ e["OUT"].data0 = 1
  <2>1. ep \in Pipe
    BY <1>1 DEF Types
  <2>2. LET f == SetupCounted(ep)
        IN  /\ f \in Pipe /\ Empty(f["IN"], InOdd) /\ Empty(f["OUT"], OutOdd)
            /\ f["IN"].data0 = 1 /\ f["OUT"].data0 = 1
    BY <1>2, <1>4, <1>5, <2>1, SetupCountedDoes DEF I, O
  <2> QED BY <2>2
<1> HIDE DEF a, e
<1>13. LET f == SetupStage(e, r, a)
       IN  /\ f \in Pipe
           /\ \/ Refuses(f, InOdd, OutOdd) /\ (Receives(r) \/ Final(a).error = "InvalidRequest")
              \/ /\ ~Receives(r) /\ Final(a).error # "InvalidRequest"
                 /\ \E n \in 0 .. r.length : n <= Final(a).length /\ Replies(f, InOdd, OutOdd, n)
              \/ Collects(f, InOdd, OutOdd, r)
  BY <1>2, <1>9, <1>11, <1>12, SetupStageDoes
<1>14. stallInterrupt' = FALSE
  BY <1>1, <1>3, <1>4 DEF Types
<1> QED BY <1>3, <1>7, <1>8, <1>9, <1>10, <1>11, <1>13, <1>14 DEF a

(* Of the address, when a request has been handled.                          *)
LEMMA SetupDoneAddress ==
  ASSUME IInv, TokenDone, ~InPending, SetupPending, ~SetupPending',
         host.request.name = "SET_ADDRESS" =>
           (I'.transferring <=> Final(Handle(device, host.request).answer).error # "InvalidRequest")
  PROVE  AddressInv'
<1> DEFINE r == host.request
           a == Handle(device, r).answer
<1>1. AddressInv /\ Types
  BY DEF IInv, PipeInv
<1>2. /\ host' = host /\ r \in Requests /\ host.stage = Stage(r) /\ deviceSetup' = r
      /\ device.state # "Addressing" /\ device' = Handle(device, r).device
  BY SetupDoneDoes
<1>3. /\ device.deviceAddress = device.ADDR /\ device.ADDR = host.address
      /\ r.name = "SET_ADDRESS" => r.value # device.ADDR
  BY <1>1, <1>2 DEF AddressInv
<1>4. r \in Request /\ device \in Device
  BY <1>1, <1>2, Constants DEF Types
<1>5. CASE r.name # "SET_ADDRESS"
  <2>1. device'.ADDR = device.ADDR /\ device'.deviceAddress = device.deviceAddress /\ device'.state # "Addressing"
    BY <1>2, <1>4, <1>5, HandleKeepsAddress
  <2> QED BY <1>2, <1>3, <1>5, <2>1 DEF AddressInv, Done
<1>6. CASE r.name = "SET_ADDRESS"
  <2>1. Handle(device, r) = SetAddress(device, r)
    BY <1>6 DEF Handle, ClassRequests
  <2>2. r.value \in 0 .. 127
    BY <1>2, <1>6, AddressesFit
  <2>3. LET e == SetAddress(device, r).device
        IN  /\ SetAddress(device, r).answer \in Answer /\ SetAddress(device, r).answer.length = 0
            /\ SetAddress(device, r).answer.error \in {"Success", "InvalidRequest"}
            /\ SetAddress(device, r).answer.error # "Success" => e = device
            /\ SetAddress(device, r).answer.error = "Success" =>
                 /\ r.length = 0 /\ r.index = 0 /\ e.state = "Addressing" /\ e.deviceAddress = r.value
                 /\ e.ADDR = device.ADDR
    BY <1>2, <1>4, <1>6, <2>2, SetAddressDoes
  <2>4. Final(a) = a
    BY <2>1, <2>3 DEF Final
  <2>5. CASE a.error = "Success"
    <3>1. /\ r.length = 0 /\ r.index = 0 /\ device'.state = "Addressing" /\ device'.deviceAddress = r.value
          /\ device'.ADDR = device.ADDR
      BY <1>2, <2>1, <2>3, <2>5
    <3>2. I'.transferring /\ host.stage = "statusIn"
      BY <1>2, <1>6, <2>4, <2>5, <3>1 DEF Stage
    <3> QED BY <1>2, <1>3, <1>6, <3>1, <3>2 DEF AddressInv
  <2>6. CASE a.error # "Success"
    <3>1. device' = device /\ a.error = "InvalidRequest"
      BY <1>2, <2>1, <2>3, <2>6
    <3>2. ~I'.transferring
      BY <1>6, <2>4, <3>1
    <3> QED BY <1>2, <1>3, <3>1, <3>2 DEF AddressInv, Done
  <2> QED BY <2>5, <2>6
<1> QED BY <1>5, <1>6

LEMMA SetupDoneKeeps ==
  ASSUME IInv, TokenDone, ~InPending, SetupPending
  PROVE  IInv'
<1> DEFINE r == host.request
           a == Handle(device, r).answer
<1>1. Types
  BY DEF IInv
<1>2. I \in GoodEp /\ O \in GoodEp /\ InOdd \in Bit /\ OutOdd \in Bit
  BY <1>1, Parts
<1>3. /\ odd' = odd /\ stallInterrupt' = FALSE /\ host' = host /\ tokens' = << >>
      /\ r \in Requests /\ host.stage = Stage(r) /\ host.toggle = 1 /\ host.received = 0
      /\ setupPacketBuffer' \in [Bit -> Request] /\ setupPacketBuffer'[Flip(OutOdd)] = r
      /\ setupBufferIndex' = Flip(OutOdd) /\ deviceSetup' = r /\ device' \in Device
      /\ Agrees(r, a) /\ ep' \in Pipe
      /\ \/ Refuses(ep', InOdd, OutOdd) /\ (Receives(r) \/ Final(a).error = "InvalidRequest")
         \/ /\ ~Receives(r) /\ Final(a).error # "InvalidRequest"
            /\ \E n \in 0 .. r.length : n <= Final(a).length /\ Replies(ep', InOdd, OutOdd, n)
         \/ Collects(ep', InOdd, OutOdd, r)
  BY SetupDoneDoes
<1>4. InOdd' = InOdd /\ OutOdd' = OutOdd
  BY <1>3 DEF InOdd, OutOdd
<1>5. ~InPending' /\ ~DataPending' /\ ~SetupPending'
  BY <1>3, Queues DEF QueueShapes
<1>6. Types'
  BY <1>1, <1>2, <1>3, Flipping DEF Types
<1>7. I' \in GoodEp /\ O' \in GoodEp
  BY <1>6, PartsNext
<1>8. QueueInv'
  BY <1>3 DEF QueueInv
<1>9. SetupInv'
  <2>1. host.stage \in {"dataIn", "statusOut"} => r.name \in Reads
    BY <1>3 DEF Stage
  <2> QED BY <1>3, <1>5, <2>1 DEF SetupInv
<1>10. r \in Request /\ r.length \in Nat /\ r.name \in Reads \cup Writes
  BY <1>3, Constants DEF Request
<1> HIDE DEF a
<1>11. CASE Refuses(ep', InOdd, OutOdd) /\ (Receives(r) \/ Final(a).error = "InvalidRequest")
  <2>1. Halted(I', InOdd') /\ Halted(O', OutOdd')
    BY <1>4, <1>11 DEF Refuses, I, O
  <2>2. ~I'.transferring /\ ~Offers(O', OutOdd')
    BY <1>2, <1>4, <1>7, <2>1, Conditions
  <2>3. TurnInv'
    BY <1>5, <2>1 DEF TurnInv
  <2>4. HaltInv'
    <3>1. Waiting'
      BY <1>3 DEF Waiting, Stage
    <3> QED BY <1>3, <2>1, <3>1 DEF HaltInv
  <2>5. OutInv' /\ InInv'
    BY <1>3, <1>5, <2>2 DEF OutInv, InInv
  <2>6. r.name = "SET_ADDRESS" => Final(a).error = "InvalidRequest"
    BY <1>11 DEF Receives, ClassRequests
  <2>7. AddressInv'
    BY <1>5, <2>2, <2>6, SetupDoneAddress DEF a
  <2> QED BY <1>6, <1>8, <1>9, <2>3, <2>4, <2>5, <2>7 DEF IInv, PipeInv
<1>12. CASE /\ ~Receives(r) /\ Final(a).error # "InvalidRequest"
            /\ \E n \in 0 .. r.length : n <= Final(a).length /\ Replies(ep', InOdd, OutOdd, n)
  <2>1. PICK n \in 0 .. r.length : n <= Final(a).length /\ Replies(ep', InOdd, OutOdd, n)
    BY <1>12
  <2>2. /\ Offers(I', InOdd') /\ I'.transferDone = 0 /\ I'.transferLength = n /\ I'.data0 = 1
        /\ I'.bd[InOdd'].len = Least(n, MaxPacketSize) /\ I'.bd[InOdd'].data01 = 1
        /\ Listening(O', OutOdd')
    BY <1>4, <2>1 DEF Replies, I, O
  <2>3. /\ I'.transferring /\ I'.bdtOdd = InOdd' /\ Offers(O', OutOdd') /\ ~Halted(I', InOdd')
        /\ ~Halted(O', OutOdd') /\ O'.bd[OutOdd'].data01 = 0 /\ O'.transferBuffer = "setupPacketBuffer"
    BY <1>2, <1>4, <1>7, <2>2, Conditions DEF Listening
  <2>4. TurnInv'
    BY <1>5, <2>2, <2>3 DEF TurnInv
  <2>5. HaltInv'
    BY <1>3, <2>3 DEF HaltInv
  <2>6. OutInv'
    BY <1>3, <1>5, <2>3 DEF OutInv
  <2>7. n \in Nat /\ n <= r.length /\ host.stage \in {"statusIn", "dataIn", "dataOut"}
    BY <1>3, <1>10, <2>1 DEF Stage
  <2>8. host.stage # "dataIn" => n = 0
    <3>1. CASE r.length = 0
      BY <2>7, <3>1
    <3>2. CASE r.length # 0 /\ r.name \notin Reads
      <4>1. r.name \in Writes \ ClassRequests
        BY <1>10, <1>12, <3>2 DEF Receives
      <4>2. Final(a).length = 0
        BY <1>3, <4>1 DEF Agrees, Final
      <4> QED BY <2>1, <2>7, <4>2
    <3> QED BY <1>3, <3>1, <3>2 DEF Stage
  <2>9. Progress'
    BY <1>3, <1>5, <2>2, <2>7, <2>8 DEF Progress
  <2>10. InInv'
    <3>1. Chunk' = Least(n, MaxPacketSize)
      BY <2>2, <2>7 DEF Chunk
    <3>2. host'.stage \notin {"idle", "statusOut"}
      BY <1>3, <2>7
    <3> QED BY <1>3, <1>4, <1>5, <2>2, <2>3, <2>7, <2>9, <3>1, <3>2 DEF InInv
  <2>11. AddressInv'
    BY <1>5, <1>12, <2>3, SetupDoneAddress DEF a
  <2> QED BY <1>6, <1>8, <1>9, <2>4, <2>5, <2>6, <2>10, <2>11 DEF IInv, PipeInv
<1>13. CASE Collects(ep', InOdd, OutOdd, r)
  <2>1. /\ Receives(r) /\ Empty(I', InOdd') /\ I'.data0 = 1
        /\ Offers(O', OutOdd') /\ O'.bd[OutOdd'].data01 = 1 /\ Sets(r) = {O'.transferBuffer}
    BY <1>4, <1>13 DEF Collects, I, O
  <2>2. ~I'.transferring /\ ~Halted(O', OutOdd') /\ ~Halted(I', InOdd')
    BY <1>2, <1>4, <1>7, <2>1, Conditions
  <2>3. r.name # "SET_ADDRESS" /\ host.stage = "dataOut"
    BY <1>3, <2>1, Receiving
  <2>4. TurnInv'
    BY <1>5, <2>1 DEF TurnInv
  <2>5. HaltInv'
    BY <1>3, <2>2 DEF HaltInv
  <2>6. DataPhase'
    BY <1>3, <2>1 DEF DataPhase
  <2>7. OutInv' /\ InInv'
    BY <1>3, <1>5, <2>1, <2>2, <2>3, <2>6 DEF OutInv, InInv
  <2>8. AddressInv'
    BY <1>5, <2>2, <2>3, SetupDoneAddress
  <2> QED BY <1>6, <1>8, <1>9, <2>4, <2>5, <2>7, <2>8 DEF IInv, PipeInv
<1> QED BY <1>3, <1>11, <1>12, <1>13

LEMMA TokenDoneKeeps ==
  ASSUME IInv, TokenDone
  PROVE  IInv'
<1>1. InPending \/ DataPending \/ (~InPending /\ SetupPending)
  BY Oldest
<1> QED BY <1>1, InDoneKeeps, OutDoneKeeps, SetupDoneKeeps
------------------------------------------------------------------------------
LEMMA StutterKeeps ==
  ASSUME IInv, UNCHANGED vars
  PROVE  IInv'
<1>1. /\ ep' = ep /\ odd' = odd /\ tokens' = tokens /\ stallInterrupt' = stallInterrupt
      /\ setupPacketBuffer' = setupPacketBuffer /\ setupBufferIndex' = setupBufferIndex
      /\ deviceSetup' = deviceSetup /\ device' = device /\ host' = host
  BY DEF vars, driverVars, controllerVars
<1>2. /\ I' = I /\ O' = O /\ InOdd' = InOdd /\ OutOdd' = OutOdd
      /\ InPending' = InPending /\ DataPending' = DataPending /\ SetupPending' = SetupPending
      /\ QueueInv' /\ TurnInv'
  BY <1>1, HostSteps DEF driverVars
<1>3. Types /\ HaltInv /\ SetupInv /\ OutInv /\ InInv /\ AddressInv
  BY DEF IInv, PipeInv
<1>4. Types' /\ SetupInv'
  BY <1>1, <1>2, <1>3 DEF Types, SetupInv
<1>5. HaltInv'
  BY <1>1, <1>2, <1>3 DEF HaltInv, Waiting
<1>6. OutInv'
  BY <1>1, <1>2, <1>3 DEF OutInv, DataPhase
<1>7. InInv'
  <2>1. Chunk' = Chunk /\ Ends(deviceSetup.length)' = Ends(deviceSetup.length) /\ (Progress => Progress')
    BY <1>1, <1>2 DEF Chunk, Ends, Progress
  <2> QED BY <1>1, <1>2, <1>3, <2>1 DEF InInv
<1>8. AddressInv'
  BY <1>1, <1>2, <1>3 DEF AddressInv, Done
<1> QED BY <1>2, <1>4, <1>5, <1>6, <1>7, <1>8 DEF IInv, PipeInv

(* The invariant holds: whatever the host asks, and however often it resets the    *)
(* bus or a handshake is lost.                                              *)
THEOREM Inductive == Spec => []IInv
<1>1. Init => IInv
  BY InitFresh, FreshIsGood
<1>2. Fresh => IInv
  BY FreshIsGood
<1>3. ASSUME IInv, [Next]_vars
      PROVE  IInv' \/ Fresh'
  <2>1. CASE TokenDone
    BY <1>3, <2>1, TokenDoneKeeps
  <2>2. CASE InterruptStall
    BY <1>3, <2>2, InterruptStallKeeps
  <2>3. CASE InToken
    BY <1>3, <2>3, InTokenKeeps
  <2>4. CASE OutToken
    BY <1>3, <2>4, OutTokenKeeps
  <2>5. CASE StatusOut
    BY <1>3, <2>5, StatusOutKeeps
  <2>6. CASE StallAnswer
    BY <1>3, <2>6, StallAnswerKeeps
  <2>7. CASE InTokenUnacknowledged
    BY <1>3, <2>7, InTokenUnacknowledgedKeeps
  <2>8. CASE Setup
    BY <1>3, <2>8, SetupKeeps
  <2>9. CASE BusReset
    BY <1>3, <2>9, ResetFresh
  <2>10. CASE UNCHANGED vars
    BY <1>3, <2>10, StutterKeeps
  <2> QED BY <1>3, <2>1, <2>2, <2>3, <2>4, <2>5, <2>6, <2>7, <2>8, <2>9, <2>10 DEF Next, Interrupts, Transaction
<1> QED BY <1>1, <1>2, <1>3, PTL DEF Spec

(* TypeOK: the types of ControlPipe, and at most two tokens wait.             *)
THEOREM TypeCorrect == Spec => []TypeOK
<1>1. ASSUME IInv
      PROVE  TypeOK
  <2>1. Types /\ QueueInv
    BY <1>1 DEF IInv, PipeInv
  <2>2. ep \in [Dir -> Endpoint] /\ \A dir \in Dir, i \in Bit : ep[dir].bd[i].len <= MaxPacketSize
    <3>1. ep \in [Dir -> GoodEp]
      BY <2>1 DEF Types, Pipe
    <3> QED BY <3>1 DEF GoodEp
  <2>3. InOdd \in Bit /\ OutOdd \in Bit
    BY <2>1, Parts
  <2>4. SentTok \in Token /\ DataTok \in Token /\ SetupTok \in Token
    BY <2>3, Flipping DEF SentTok, DataTok, SetupTok, Tok, Token, Dir, InOdd, OutOdd
  <2>5. tokens \in Seq(Token) /\ Len(tokens) <= 2
    <3>1. tokens \in {<< >>, <<SentTok>>, <<DataTok>>, <<SetupTok>>, <<SentTok, SetupTok>>}
      BY <2>1 DEF QueueInv, InPending, DataPending, SetupPending
    <3> HIDE DEF SentTok, DataTok, SetupTok, Token
    <3>2. CASE tokens = << >>
      BY <3>2
    <3>3. ASSUME NEW t \in Token, tokens = <<t>>
          PROVE  tokens \in Seq(Token) /\ Len(tokens) <= 2
      BY <3>3
    <3>4. CASE tokens = <<SentTok, SetupTok>>
      BY <2>4, <3>4
    <3> QED BY <2>4, <3>1, <3>2, <3>3, <3>4
  <2>6. deviceSetup \in Request
    <3>1. deviceSetup \in Requests \cup {NoRequest}
      BY <1>1 DEF IInv, PipeInv, SetupInv
    <3> QED BY <3>1, Constants, NoRequestFits
  <2> QED BY <2>1, <2>2, <2>5, <2>6 DEF TypeOK, Types
<1> QED BY <1>1, Inductive, PTL

(* Listens: between requests the controller's next OUT descriptor is one that the   *)
(* driver has primed for a SETUP. No order of SETUP, data, STALL and reset leaves    *)
(* the device deaf.                                                         *)
THEOREM AlwaysListens == Spec => []Listens
<1>1. ASSUME IInv
      PROVE  Listens
  <2>1. Types /\ TurnInv /\ HaltInv /\ OutInv
    BY <1>1 DEF IInv, PipeInv
  <2>2. I \in GoodEp /\ O \in GoodEp /\ InOdd \in Bit /\ OutOdd \in Bit
    BY <2>1, Parts
  <2> SUFFICES ASSUME host.stage = "idle", tokens = << >>, ~stallInterrupt
               PROVE  /\ O.bdtOdd = OutOdd /\ O.bd[OutOdd].own /\ ~O.bd[OutOdd].stall
                      /\ O.transferring /\ O.transferBuffer = "setupPacketBuffer"
    BY DEF Listens, O, OutOdd
  <2>3. ~InPending /\ ~DataPending /\ ~SetupPending
    BY Queues DEF QueueShapes
  <2>4. Offers(O, OutOdd)
    BY <2>1, <2>3 DEF TurnInv, HaltInv, Waiting
  <2>5. O.bd[OutOdd].data01 = 0
    BY <2>1, <2>2, <2>4 DEF OutInv, GoodEp, Endpoint, Descriptor, Bit
  <2> QED BY <2>1, <2>4, <2>5 DEF OutInv, Offers
<1> QED BY <1>1, Inductive, PTL

(* AddressAfterStatus: the controller's address becomes the one that the host has   *)
(* gone over to, after the status stage that it has had at the old one.       *)
THEOREM AddressIsTakenAfterStatus == Spec => AddressAfterStatus
<1> DEFINE Taken == device'.ADDR # device.ADDR => device'.ADDR = host'.address
<1>1. ASSUME IInv, IInv', TokenDone, device'.ADDR # device.ADDR
      PROVE  device'.state # "Addressing"
  <2>1. Types /\ device \in Device
    BY <1>1 DEF IInv, Types
  <2>2. CASE InPending
    <3>1. InDone
      BY <1>1, <2>2, Oldest, Queues DEF QueueShapes
    <3>2. device.state = "Addressing" /\ device' = SetAddress(device, deviceSetup).device
      BY <1>1, <3>1 DEF InDone
    <3> QED BY <1>1, <2>1, <3>2, AddressTaken
  <2>3. CASE DataPending
    <3>1. OutDone
      BY <1>1, <2>3, Oldest, Queues DEF QueueShapes
    <3>2. device'.ADDR = device.ADDR
      BY <2>1, <3>1 DEF OutDone, Device
    <3> QED BY <1>1, <3>2
  <2>4. CASE ~InPending /\ SetupPending
    <3>1. /\ host.request \in Requests /\ device.state # "Addressing"
          /\ device' = Handle(device, host.request).device
      BY <1>1, <2>4, SetupDoneDoes
    <3>2. CASE host.request.name # "SET_ADDRESS"
      BY <2>1, <3>1, <3>2, HandleKeepsAddress
    <3>3. CASE host.request.name = "SET_ADDRESS"
      <4>1. device' = SetAddress(device, host.request).device
        BY <3>1, <3>3 DEF Handle, ClassRequests
      <4>2. device'.ADDR = device.ADDR
        BY <2>1, <3>1, <4>1 DEF SetAddress, Accepted, Refused, Outcome, State, Device
      <4> QED BY <1>1, <4>2
    <3> QED BY <3>2, <3>3
  <2> QED BY <1>1, <2>2, <2>3, <2>4, Oldest
<1>2. ASSUME IInv, IInv', [Next]_vars
      PROVE  Taken
  <2> SUFFICES ASSUME device'.ADDR # device.ADDR
               PROVE  device'.ADDR = host'.address
    OBVIOUS
  <2>1. CASE TokenDone
    BY <1>1, <1>2, <2>1 DEF IInv, AddressInv
  <2>2. CASE OutToken
    <3>1. device \in Device
      BY <1>2 DEF IInv, Types
    <3> QED BY <2>2, <3>1 DEF OutToken, Device
  <2>3. CASE BusReset
    BY <1>2, <2>3, ResetFresh DEF Fresh
  <2>4. CASE InterruptStall \/ InToken \/ StatusOut \/ StallAnswer \/ InTokenUnacknowledged \/ Setup \/ UNCHANGED vars
    BY <2>4 DEF InterruptStall, InToken, StatusOut, StallAnswer, InTokenUnacknowledged, Setup, vars, driverVars
  <2> QED BY <1>2, <2>1, <2>2, <2>3, <2>4 DEF Next, Interrupts, Transaction
<1>3. ASSUME IInv, IInv', [Next]_vars
      PROVE  [Taken]_vars
  BY <1>2, <1>3
<1>4. AddressAfterStatus <=> [][Taken]_vars
  BY PTL DEF AddressAfterStatus
<1> HIDE DEF Taken
<1> QED BY <1>3, <1>4, Inductive, PTL DEF Spec
------------------------------------------------------------------------------
(* What the layers know of the configuration and of the settings.              *)

AgreeInv == ConfigurationInv /\ MemoryInv

(* A host that chooses a configuration which the device has described.          *)
Chooses == \A r \in Requests : r.name = "SET_CONFIGURATION" => r.value \in {0, CONFIGURE_INDEX}

LEMMA HandleLeaves ==
  ASSUME NEW d \in Device, NEW r \in Requests, d.state # "Addressing"
  PROVE  LET e == Handle(d, r).device
         IN  /\ \A b \in Settings : e.memory[b] = d.memory[b]
             /\ r.name \notin {"SET_ADDRESS", "SET_CONFIGURATION"} => Untouched(e, d)
<1>1. r \in Request /\ r.name # "none" /\ r.name \in Reads \cup Writes
  BY Constants DEF Request
<1>2. CASE r.name \in ClassRequests
  <2>1. Handle(d, r).device = d
    BY <1>2 DEF Handle, ClassRequests, Outcome
  <2> QED BY <2>1 DEF Untouched
<1>3. CASE r.name = "SET_ADDRESS"
  <2>1. Handle(d, r) = SetAddress(d, r)
    BY <1>3 DEF Handle, ClassRequests
  <2>2. Handle(d, r).device.memory = d.memory
    BY <2>1 DEF SetAddress, Accepted, Refused, Outcome, State, Device
  <2> QED BY <1>3, <2>2
<1>4. CASE r.name = "SET_CONFIGURATION"
  <2>1. Handle(d, r) = SetConfiguration(d, r)
    BY <1>4 DEF Handle, ClassRequests
  <2> QED BY <1>1, <1>4, <2>1, SetConfigurationDoes
<1>5. CASE r.name = "SET_INTERFACE"
  <2>1. Handle(d, r) = SetInterface(d, r)
    BY <1>5 DEF Handle, ClassRequests
  <2> QED BY <1>1, <1>5, <2>1, SetInterfaceDoes DEF Untouched
<1>6. CASE r.name \in Reads \ ClassRequests
  BY <1>1, <1>6, GettersDo DEF Untouched
<1> QED BY <1>1, <1>2, <1>3, <1>4, <1>5, <1>6 DEF Writes, ClassRequests

(* A request that reads, or none, stores nothing and chooses no configuration.    *)
LEMMA Harmless ==
  ASSUME NEW r, r.name \in Reads \cup {"none"}
  PROVE  Sets(r) = {} /\ r.name \notin {"SET_ADDRESS", "SET_CONFIGURATION"}
BY DEF Reads, Sets

LEMMA FreshAgrees ==
  ASSUME Fresh, device.configuration = 0, device.currentConfiguration = 0, host.configuration = 0,
         \A b \in Settings : device.memory[b] \in host.stored[b]
  PROVE  AgreeInv
<1>1. ~SetupPending /\ ~Done("SET_CONFIGURATION")
  BY Queues, NoRequestFits DEF Fresh, QueueShapes, Done
<1>2. ConfigurationInv
  BY <1>1, NoRequestFits DEF ConfigurationInv, Fresh
<1>3. MemoryInv
  BY NoRequestFits DEF MemoryInv, Fresh
<1> QED BY <1>2, <1>3 DEF AgreeInv

(* A step that leaves the device's layers and what the host believes, and does not  *)
(* bring the answer to a request that writes.                               *)
LEMMA AgreeKept ==
  ASSUME AgreeInv, UNCHANGED <<device, host>>, SetupPending' = SetupPending,
         (I'.transferring <=> I.transferring) \/ SetupPending \/ host.request.name \in Reads \cup {"none"}
  PROVE  AgreeInv'
<1>1. device' = device /\ host' = host
  OBVIOUS
<1>2. Done("SET_CONFIGURATION")' = Done("SET_CONFIGURATION")
  BY <1>1, Harmless DEF Done
<1>3. ConfigurationInv'
  BY <1>1, <1>2 DEF AgreeInv, ConfigurationInv
<1>4. MemoryInv'
  <2>1. ASSUME NEW b \in Settings
        PROVE  (b \in Sets(host.request) /\ I.transferring /\ ~SetupPending)
                 <=> (b \in Sets(host'.request) /\ I'.transferring /\ ~SetupPending')
    BY <1>1, Harmless
  <2>2. ASSUME NEW b \in Settings
        PROVE  device'.memory[b] \in IF b \in Sets(host'.request) /\ I'.transferring /\ ~SetupPending'
                                       THEN {host'.payload} ELSE host'.stored[b]
    <3>1. device.memory[b] \in IF b \in Sets(host.request) /\ I.transferring /\ ~SetupPending
                                 THEN {host.payload} ELSE host.stored[b]
      BY DEF AgreeInv, MemoryInv
    <3> QED BY <1>1, <2>1, <3>1
  <2> QED BY <2>2 DEF MemoryInv
<1> QED BY <1>3, <1>4 DEF AgreeInv

(* The host has been told the end of a request that the device has agreed to.     *)
LEMMA AgreeFinished ==
  ASSUME IInv, AgreeInv, NEW h \in Host,
         h.request = host.request, h.payload = host.payload, h.configuration = host.configuration,
         h.stored = host.stored,
         host' = Finished(h), device' = device, ~SetupPending, ~SetupPending',
         I.transferring \/ host.request.name \in Reads
  PROVE  AgreeInv'
<1> DEFINE r == host.request
<1>1. r \in Requests \cup {NoRequest}
  BY DEF IInv, PipeInv, SetupInv
<1>2. /\ host'.stage = "idle" /\ host'.request = NoRequest
      /\ host'.configuration = IF r.name = "SET_CONFIGURATION" THEN r.value ELSE host.configuration
      /\ \A b \in Settings : host'.stored[b] = IF b \in Sets(r) THEN {host.payload} ELSE host.stored[b]
  BY <1>1, HostFinished
<1>3. ~Done("SET_CONFIGURATION")'
  BY <1>2, NoRequestFits DEF Done
<1>4. Done("SET_CONFIGURATION") <=> r.name = "SET_CONFIGURATION"
  BY Harmless DEF Done
<1>5. ConfigurationInv'
  BY <1>2, <1>3, <1>4, NoRequestFits DEF AgreeInv, ConfigurationInv
<1>6. MemoryInv'
  <2>1. ASSUME NEW b \in Settings
        PROVE  device.memory[b] \in host'.stored[b]
    <3>1. device.memory[b] \in IF b \in Sets(r) /\ I.transferring /\ ~SetupPending
                                 THEN {host.payload} ELSE host.stored[b]
      BY DEF AgreeInv, MemoryInv
    <3>2. b \in Sets(r) => I.transferring
      BY Harmless
    <3> QED BY <1>2, <3>1, <3>2
  <2> QED BY <1>2, <2>1, NoRequestFits DEF MemoryInv
<1> QED BY <1>5, <1>6 DEF AgreeInv

LEMMA AgreeInitially ==
  ASSUME Init
  PROVE  AgreeInv
BY InitFresh, FreshAgrees

LEMMA AgreeAfterReset ==
  ASSUME IInv, AgreeInv, BusReset
  PROVE  AgreeInv'
<1>1. Fresh'
  BY ResetFresh
<1>2. device \in Device /\ host \in Host
  BY DEF IInv, Types
<1>3. /\ device'.configuration = 0 /\ device'.currentConfiguration = 0
      /\ \A b \in Settings : device'.memory[b] = device.memory[b]
  BY <1>2, DeviceResetDoes DEF BusReset
<1>4. /\ host'.configuration = 0
      /\ \A b \in Settings : host'.stored[b] = IF b \in Sets(host.request) THEN host.stored[b] \cup {host.payload}
                                                ELSE host.stored[b]
  BY <1>2, HostBrokenOff DEF BusReset
<1>5. \A b \in Settings : device'.memory[b] \in host'.stored[b]
  BY <1>3, <1>4 DEF AgreeInv, MemoryInv
<1>6. ~SetupPending' /\ ~Done("SET_CONFIGURATION")'
  BY <1>1, Queues, NoRequestFits DEF Fresh, QueueShapes, Done
<1>7. ConfigurationInv'
  BY <1>1, <1>3, <1>4, <1>6, NoRequestFits DEF ConfigurationInv, Fresh
<1>8. MemoryInv'
  BY <1>1, <1>5, NoRequestFits DEF MemoryInv, Fresh
<1> QED BY <1>7, <1>8 DEF AgreeInv

LEMMA AgreeStall ==
  ASSUME IInv, AgreeInv, StallAnswer \/ InterruptStall
  PROVE  AgreeInv'
<1>1. Types /\ TurnInv /\ HaltInv
  BY DEF IInv, PipeInv
<1>2. I \in GoodEp /\ O \in GoodEp /\ InOdd \in Bit /\ OutOdd \in Bit
  BY <1>1, Parts
<1>3. CASE StallAnswer
  <2>1. Halted(I, InOdd) /\ tokens = << >>
    <3>1. \/ I.bd[InOdd].own /\ I.bd[InOdd].stall
          \/ O.bd[OutOdd].own /\ O.bd[OutOdd].stall
      BY <1>3 DEF StallAnswer, Answers, I, O, InOdd, OutOdd
    <3>2. Halted(I, InOdd) \/ Halted(O, OutOdd)
      BY <1>1, <1>2, <3>1 DEF TurnInv, Used, Empty, Offers, Free
    <3> QED BY <1>1, <3>2 DEF HaltInv
  <2>2. ~SetupPending /\ ~I.transferring
    BY <1>2, <2>1, Conditions, Queues DEF QueueShapes
  <2>3. I' = I /\ SetupPending' = SetupPending /\ device' = device
    BY <1>3, HostSteps DEF StallAnswer
  <2>4. /\ host'.stage = "idle" /\ host'.request = NoRequest
        /\ host'.configuration = host.configuration /\ host'.stored = host.stored
    BY <1>1, <1>3, HostIdle DEF StallAnswer, Types
  <2>5. ConfigurationInv'
    BY <2>2, <2>3, <2>4, NoRequestFits DEF AgreeInv, ConfigurationInv, Done
  <2>6. MemoryInv'
    BY <2>2, <2>3, <2>4, NoRequestFits DEF AgreeInv, MemoryInv
  <2> QED BY <2>5, <2>6 DEF AgreeInv
<1>4. CASE InterruptStall
  <2>1. Halted(I, InOdd) /\ tokens = << >>
    BY <1>1, <1>4 DEF HaltInv, InterruptStall
  <2>2. ~SetupPending /\ ~SetupPending' /\ ~I.transferring
    <3>1. tokens' = << >>
      BY <1>4, <2>1 DEF InterruptStall
    <3> QED BY <1>2, <2>1, <3>1, Conditions, Queues DEF QueueShapes
  <2>3. ~I'.transferring
    <3>1. LET f == UnstallEndpoint(ep)
          IN  f \in Pipe /\ Empty(f["IN"], ep["IN"].bdtOdd) /\ Listening(f["OUT"], ep["OUT"].bdtOdd)
      BY <1>1, UnstallEndpointDoes DEF Types
    <3>2. ep' = UnstallEndpoint(ep) \/ ep' = ep
      BY <1>4 DEF InterruptStall
    <3> QED BY <2>2, <3>1, <3>2 DEF Empty, I
  <2>4. device' = device /\ host' = host
    BY <1>4 DEF InterruptStall
  <2> QED BY <2>2, <2>3, <2>4, AgreeKept DEF SetupPending
<1> QED BY <1>3, <1>4

(* A packet of the answer, the first time or again.                           *)
LEMMA AgreeAnswered ==
  ASSUME IInv, AgreeInv, Offered, NEW h \in Host,
         h.stage = host.stage, h.request = host.request, h.toggle = host.toggle, h.received = host.received,
         h.address = host.address, h.payload = host.payload, h.configuration = host.configuration,
         h.stored = host.stored,
         host' = Accepts(h), device' = device, ~SetupPending'
  PROVE  AgreeInv'
<1>1. /\ Offers(I, InOdd) /\ ~SetupPending
      /\ host.stage \in {"dataIn", "statusIn"}
      /\ host.stage = "statusIn" => host' = Finished(h)
      /\ host.stage = "dataIn" =>
           /\ host'.request = host.request /\ host'.stage \in {"statusOut", "dataIn"}
           /\ host'.configuration = h.configuration /\ host'.stored = h.stored /\ host'.payload = h.payload
  BY OfferAccepted
<1>2. CASE host.stage = "statusIn"
  BY <1>1, <1>2, AgreeFinished DEF Offers
<1>3. CASE host.stage = "dataIn"
  <2>1. host.request.name \in Reads
    BY <1>3 DEF IInv, PipeInv, SetupInv
  <2>2. Sets(host.request) = {} /\ ~Done("SET_CONFIGURATION") /\ ~Done("SET_CONFIGURATION")'
    BY <1>1, <1>3, <2>1, Harmless DEF Done
  <2>3. ConfigurationInv'
    BY <1>1, <1>3, <2>2 DEF AgreeInv, ConfigurationInv
  <2>4. MemoryInv'
    BY <1>1, <1>3, <2>2 DEF AgreeInv, MemoryInv
  <2> QED BY <2>3, <2>4 DEF AgreeInv
<1> QED BY <1>1, <1>2, <1>3

LEMMA AgreeTransaction ==
  ASSUME IInv, AgreeInv, InToken \/ InTokenUnacknowledged \/ OutToken \/ StatusOut
  PROVE  AgreeInv'
<1>1. Types /\ SetupInv /\ host \in Host /\ device \in Device
  BY DEF IInv, PipeInv, Types
<1>2. CASE InToken
  <2>1. Offered /\ host' = Accepts(host) /\ device' = device
    BY <1>2 DEF InToken
  <2>2. Offers(I, InOdd) /\ ~DataPending /\ host' \in Host
    BY <1>1, <2>1, OfferAccepted
  <2>3. Consumed("IN", FALSE, I.bd[InOdd].len)
    BY <1>2 DEF InToken, I, InOdd
  <2>4. tokens' = <<SentTok'>>
    BY <2>2, <2>3, InConsumed
  <2>5. ~SetupPending'
    BY <2>4, Queues DEF QueueShapes
  <2> QED BY <1>1, <2>1, <2>5, AgreeAnswered
<1>3. CASE InTokenUnacknowledged
  <2> DEFINE h == [host EXCEPT !.lost = host.lost + 1]
  <2>1. /\ h \in Host /\ h.stage = host.stage /\ h.request = host.request /\ h.toggle = host.toggle
        /\ h.received = host.received /\ h.address = host.address /\ h.payload = host.payload
        /\ h.configuration = host.configuration /\ h.stored = host.stored
    <3>1. host.lost + 1 \in 0 .. MaxLost
      BY <1>1, <1>3, ControlAssumption DEF InTokenUnacknowledged, Host
    <3>2. h \in Host
      BY <1>1, <3>1, HostWith
    <3> QED BY <1>1, <3>2 DEF Host
  <2>2. host' = Accepts(h) /\ Offered
    BY <1>3 DEF InTokenUnacknowledged
  <2> HIDE DEF h
  <2>3. ~SetupPending /\ SetupPending' = SetupPending /\ device' = device
    BY <1>3, <2>1, <2>2, HostSteps, OfferAccepted DEF InTokenUnacknowledged, controllerVars
  <2> QED BY <2>1, <2>2, <2>3, AgreeAnswered
<1>4. CASE OutToken
  <2>1. /\ host'.stage \in {"dataOut", "statusIn"} /\ host'.request = host.request
        /\ host'.payload = host.payload /\ host'.configuration = host.configuration /\ host'.stored = host.stored
    BY <1>1, <1>4 DEF OutToken, Host
  <2>2. /\ device'.state = device.state /\ device'.ADDR = device.ADDR
        /\ device'.configuration = device.configuration
        /\ device'.currentConfiguration = device.currentConfiguration
        /\ \A b \in Settings : device'.memory[b] = device.memory[b]
    <3> DEFINE m == [device.memory EXCEPT !["dmaAlignBuffer"] = host.payload]
    <3>1. \A b \in Settings : m[b] = device.memory[b]
      <4>1. device.memory \in [Stored -> Nat]
        BY <1>1 DEF Device
      <4> QED BY <4>1 DEF Stored, Settings
    <3>2. device' = [device EXCEPT !.memory = m] \/ device' = device
      BY <1>1, <1>4 DEF OutToken, Device
    <3> HIDE DEF m
    <3> QED BY <1>1, <3>1, <3>2 DEF Device
  <2>3. Offers(O, OutOdd) /\ ~SetupPending
    BY <1>4, OutAnswers DEF OutToken
  <2>4. I' = I /\ ~SetupPending'
    <3>1. CASE Consumed("OUT", FALSE, host.request.length)
      <4>1. ep'["IN"] = ep["IN"] /\ tokens' = Append(tokens, [dir |-> "OUT", odd |-> OutOdd, setup |-> FALSE])
        BY <1>1, <3>1 DEF Consumed, Types, Pipe, Dir, OutOdd
      <4>2. ~SetupPending'
        <5> DEFINE t == [dir |-> "OUT", odd |-> OutOdd, setup |-> FALSE]
        <5>1. tokens = << >> \/ tokens = <<SentTok>>
          BY <2>3, OutAnswers, <1>4, Queues DEF IInv, PipeInv, QueueInv, QueueShapes, OutToken
        <5>2. ~t.setup /\ SetupTok'.setup
          BY DEF SetupTok, Tok
        <5> HIDE DEF t
        <5>3. tokens' = <<t>> \/ tokens' = <<SentTok, t>>
          BY <4>1, <5>1, Appending DEF t
        <5> QED BY <5>2, <5>3 DEF SetupPending
      <4> QED BY <4>1, <4>2 DEF I
    <3>2. CASE UNCHANGED <<ep, odd, tokens, device>>
      BY <2>3, <3>2 DEF I, SetupPending, SentTok, SetupTok, Tok
    <3> QED BY <1>4, <3>1, <3>2 DEF OutToken
  <2>5. Done("SET_CONFIGURATION")' = Done("SET_CONFIGURATION")
    BY <2>1, <2>3, <2>4 DEF Done
  <2>6. ConfigurationInv'
    BY <2>1, <2>2, <2>4, <2>5 DEF AgreeInv, ConfigurationInv
  <2>7. MemoryInv'
    BY <2>1, <2>2, <2>3, <2>4 DEF AgreeInv, MemoryInv
  <2> QED BY <2>6, <2>7 DEF AgreeInv
<1>5. CASE StatusOut
  <2>1. Offers(O, OutOdd) /\ ~SetupPending
    BY <1>5, OutAnswers DEF StatusOut
  <2>2. tokens' = tokens /\ odd' = odd
    <3>1. O.bd[OutOdd].data01 # 1
      BY <1>5, <2>1 DEF IInv, PipeInv, OutInv, StatusOut
    <3> QED BY <1>5, <3>1 DEF StatusOut, O, OutOdd
  <2>3. ~SetupPending'
    BY <2>1, <2>2 DEF SetupPending, SentTok, SetupTok, Tok
  <2>4. host' = Finished(host) /\ device' = device /\ host.request.name \in Reads
    BY <1>1, <1>5 DEF StatusOut, SetupInv
  <2> QED BY <1>1, <2>1, <2>3, <2>4, AgreeFinished
<1> QED BY <1>2, <1>3, <1>4, <1>5

LEMMA AgreeSetup ==
  ASSUME IInv, AgreeInv, Setup
  PROVE  AgreeInv'
<1>1. host \in Host /\ device' = device /\ SetupInv /\ host.stage \in {"idle", "statusOut"}
  BY DEF IInv, Types, Setup, PipeInv
<1>2. PICK r \in Requests :
        /\ r.name = "SET_ADDRESS" => host.configuration = 0
        /\ Consumed("OUT", TRUE, SETUP_PACKET_SIZE)
        /\ host'.stage = Stage(r) /\ host'.request = r
        /\ host'.configuration = host.configuration /\ host'.stored = host.stored
  BY <1>1 DEF Setup, Stage, Host
<1>3. SetupPending'
  <2>1. SETUP_PACKET_SIZE \in Nat /\ SETUP_PACKET_SIZE <= MaxPacketSize
    BY Constants DEF SETUP_PACKET_SIZE
  <2>2. Offers(O, OutOdd)
    BY OutAnswers DEF Setup
  <2>3. tokens' = IF InPending THEN <<SentTok', SetupTok'>> ELSE <<SetupTok'>>
    BY <1>2, <2>1, <2>2, OutConsumed DEF SetupTok
  <2> QED BY <2>3 DEF SetupPending
<1>4. ~Done("SET_CONFIGURATION")' /\ host'.stage # "idle"
  BY <1>2, <1>3 DEF Done, Stage
<1>5. host.request.name \in Reads \cup {"none"}
  BY <1>1 DEF AgreeInv, ConfigurationInv, SetupInv
<1>6. ~Done("SET_CONFIGURATION") /\ Sets(host.request) = {}
  BY <1>5, Harmless DEF Done
<1>7. ConfigurationInv'
  BY <1>1, <1>2, <1>3, <1>4, <1>6 DEF AgreeInv, ConfigurationInv
<1>8. MemoryInv'
  BY <1>1, <1>2, <1>3, <1>6 DEF AgreeInv, MemoryInv
<1> QED BY <1>7, <1>8 DEF AgreeInv

(* A token is taken: the packet sent, the data received, the request handled.     *)
LEMMA AgreeInDone ==
  ASSUME IInv, AgreeInv, TokenDone, InPending
  PROVE  AgreeInv'
<1>1. Types /\ TurnInv /\ SetupInv /\ InInv /\ AddressInv
  BY DEF IInv, PipeInv
<1>3. /\ odd' = odd /\ host' = host /\ InDone
      /\ tokens' = IF SetupPending THEN <<SetupTok>> ELSE << >>
  BY Oldest, Queues DEF QueueShapes
<1>4. SetupPending' = SetupPending
  <2>1. CASE SetupPending
    BY <1>3, <2>1 DEF SetupPending, SetupTok, Tok
  <2>2. CASE ~SetupPending
    BY <1>3, <2>2, Queues DEF QueueShapes, SetupPending
  <2> QED BY <2>1, <2>2
<1>5. I.transferring
  BY <1>1 DEF TurnInv, Used
<1>6. SetupPending \/ host.request.name \in Reads \cup {"none"}
  <2>1. CASE ~SetupPending
    <3>1. host.stage \notin {"statusIn", "dataOut"}
      BY <1>1, <1>5, <2>1 DEF InInv, Progress
    <3>2. host.stage \in {"idle", "dataIn", "dataOut", "statusIn", "statusOut"}
      BY <1>1 DEF Types, Host
    <3> QED BY <1>1, <3>1, <3>2 DEF SetupInv, AgreeInv, ConfigurationInv
  <2> QED BY <2>1
<1>7. CASE device' = device
  BY <1>3, <1>4, <1>6, <1>7, AgreeKept
<1>8. CASE device' # device
  <2>1. device.state = "Addressing" /\ device' = SetAddress(device, deviceSetup).device /\ device \in Device
    BY <1>1, <1>3, <1>8 DEF InDone, Types
  <2>2. /\ device'.state = "Address" /\ device'.ADDR = device.deviceAddress
        /\ device'.configuration = device.configuration
        /\ device'.currentConfiguration = device.currentConfiguration /\ device'.memory = device.memory
    BY <1>8, <2>1, AddressTaken
  <2>3. device.deviceAddress # 0
    <3>1. /\ deviceSetup \in Requests \cup {NoRequest} /\ deviceSetup.name = "SET_ADDRESS"
          /\ device.deviceAddress = deviceSetup.value
      BY <1>1, <2>1 DEF SetupInv, AddressInv
    <3>2. deviceSetup.value \in 1 .. 127
      BY <3>1, NoRequestFits, AddressesFit
    <3> QED BY <3>1, <3>2
  <2>4. ~SetupPending
    BY <1>1, <2>1 DEF AddressInv
  <2>5. ~Done("SET_CONFIGURATION") /\ ~Done("SET_CONFIGURATION")'
    BY <1>3, <1>6, <2>4, Harmless DEF Done
  <2>6. Sets(host.request) = {}
    BY <1>6, <2>4, Harmless
  <2>7. ConfigurationInv'
    BY <1>3, <1>4, <2>1, <2>2, <2>3, <2>5 DEF AgreeInv, ConfigurationInv
  <2>8. MemoryInv'
    BY <1>3, <2>2, <2>6 DEF AgreeInv, MemoryInv
  <2> QED BY <2>7, <2>8 DEF AgreeInv
<1> QED BY <1>7, <1>8

LEMMA AgreeOutDone ==
  ASSUME IInv, AgreeInv, TokenDone, DataPending
  PROVE  AgreeInv'
<1>1. Types /\ SetupInv /\ OutInv
  BY DEF IInv, PipeInv
<1>2. host' = host /\ OutDone /\ tokens' = << >> /\ Head(tokens) = DataTok
  BY Oldest, Queues DEF QueueShapes
<1>3. ~SetupPending' /\ ~SetupPending
  BY <1>2, Queues DEF QueueShapes
<1>4. /\ ~I.transferring /\ Receives(host.request) /\ Sets(host.request) = {O.transferBuffer}
      /\ O.bd[Flip(OutOdd)].len = host.request.length
      /\ device.memory["dmaAlignBuffer"] = host.payload
  BY <1>1 DEF OutInv, DataPhase, Empty
<1>5. host.request \in Requests
  BY <1>1, <1>4, NoRequestFits DEF SetupInv, Receives, ClassRequests
<1>6. /\ O.transferBuffer \in Settings /\ host.request.name # "SET_CONFIGURATION"
      /\ host.request.length # 0
  BY <1>4, <1>5, Receiving
<1> DEFINE m == [device.memory EXCEPT ![O.transferBuffer] = device.memory["dmaAlignBuffer"],
                                      !["dmaAlignBuffer"] = 0]
<1>7. device' = [device EXCEPT !.memory = m]
  <2>1. ep["OUT"].bd[Head(tokens).odd].len # 0
    BY <1>2, <1>4, <1>6 DEF DataTok, Tok, O, OutOdd
  <2>2. device' = [device EXCEPT !.memory[O.transferBuffer] = device.memory["dmaAlignBuffer"],
                                 !.memory["dmaAlignBuffer"] = 0]
    BY <1>2, <2>1 DEF OutDone, O
  <2> QED BY <1>1, <2>2 DEF Types, Device
<1>8. \A b \in Settings : m[b] = IF b = O.transferBuffer THEN host.payload ELSE device.memory[b]
  <2>1. device.memory \in [Stored -> Nat]
    BY <1>1 DEF Types, Device
  <2> QED BY <1>4, <1>6, <2>1 DEF Stored, Settings
<1> HIDE DEF m
<1>9. /\ device'.state = device.state /\ device'.ADDR = device.ADDR
      /\ device'.configuration = device.configuration
      /\ device'.currentConfiguration = device.currentConfiguration
      /\ device'.memory = m
  BY <1>1, <1>7 DEF Types, Device
<1>10. ~Done("SET_CONFIGURATION") /\ ~Done("SET_CONFIGURATION")'
  BY <1>2, <1>6 DEF Done
<1>11. ConfigurationInv'
  BY <1>2, <1>3, <1>9, <1>10 DEF AgreeInv, ConfigurationInv
<1>12. I'.transferring
  <2>1. Replies(ep', InOdd, OutOdd, 0)
    BY OutDoneReplies
  <2> QED BY <2>1 DEF Replies, Offers, I
<1>13. MemoryInv'
  BY <1>2, <1>3, <1>4, <1>8, <1>9, <1>12 DEF AgreeInv, MemoryInv
<1> QED BY <1>11, <1>13 DEF AgreeInv

LEMMA AgreeSetupDone ==
  ASSUME Chooses, IInv, AgreeInv, TokenDone, ~InPending, SetupPending
  PROVE  AgreeInv'
<1> DEFINE r == host.request
           a == Handle(device, r).answer
<1>1. Types /\ AddressInv /\ device \in Device
  BY DEF IInv, Types
<1>2. /\ odd' = odd /\ host' = host /\ tokens' = << >>
      /\ r \in Requests /\ host.stage = Stage(r)
      /\ device.state # "Addressing" /\ device' = Handle(device, r).device
      /\ \/ Refuses(ep', InOdd, OutOdd) /\ (Receives(r) \/ Final(a).error = "InvalidRequest")
         \/ /\ ~Receives(r) /\ Final(a).error # "InvalidRequest"
            /\ \E n \in 0 .. r.length : n <= Final(a).length /\ Replies(ep', InOdd, OutOdd, n)
         \/ Collects(ep', InOdd, OutOdd, r)
  BY SetupDoneDoes
<1>3. ~SetupPending'
  BY <1>2, Queues DEF QueueShapes
<1>4. /\ I'.transferring => ~Receives(r) /\ Final(a).error # "InvalidRequest"
      /\ Final(a).error # "InvalidRequest" /\ ~Receives(r) => I'.transferring
  BY <1>2 DEF Refuses, Replies, Collects, Halted, Offers, Empty, I
<1>5. r \in Request /\ r.name # "none"
  BY <1>2, Constants
<1>6. \A b \in Settings : device'.memory[b] = device.memory[b]
  BY <1>1, <1>2, HandleLeaves
<1>7. MemoryInv'
  <2>1. ASSUME NEW b \in Settings, I'.transferring
        PROVE  b \notin Sets(r)
    BY <1>4, <2>1 DEF Receives, Sets, ClassRequests, Writes
  <2> QED BY <1>2, <1>3, <1>6, <2>1 DEF AgreeInv, MemoryInv
<1>8. /\ ~Done("SET_CONFIGURATION") /\ device.configuration = host.configuration
      /\ device.currentConfiguration = device.configuration
      /\ device.state = IF device.ADDR = 0 THEN "Default"
                        ELSE IF device.configuration = 0 THEN "Address" ELSE "Configured"
      /\ device.ADDR = 0 => device.configuration = 0
      /\ r.name = "SET_ADDRESS" => host.configuration = 0
  BY <1>2 DEF AgreeInv, ConfigurationInv, Done
<1>9. host'.stage # "idle"
  BY <1>2 DEF Stage
<1>10. CASE r.name = "SET_CONFIGURATION"
  <2>1. Handle(device, r) = SetConfiguration(device, r) /\ ~Receives(r)
    BY <1>10 DEF Handle, ClassRequests, Receives
  <2>2. /\ a.length = 0 /\ device'.ADDR = device.ADDR
        /\ device'.state = "Addressing" <=> device.state = "Addressing"
        /\ \/ device' = device /\ a.error = "InvalidRequest"
           \/ /\ device.state \in {"Address", "Configured"}
              /\ device'.state = IF r.value = 0 THEN "Address" ELSE "Configured"
              /\ device'.configuration = r.value
              /\ r.value \in {0, CONFIGURE_INDEX} => a.error = "Success" /\ device'.currentConfiguration = r.value
    BY <1>1, <1>2, <1>5, <1>10, <2>1, SetConfigurationDoes
  <2>3. Final(a) = a /\ r.value \in {0, CONFIGURE_INDEX}
    BY <1>2, <1>10, <2>2 DEF Final, Chooses
  <2>4. CASE device' = device /\ a.error = "InvalidRequest"
    <3>1. ~Done("SET_CONFIGURATION")'
      BY <1>4, <2>3, <2>4 DEF Done
    <3> QED BY <1>2, <1>3, <1>7, <1>8, <1>9, <2>4, <3>1 DEF AgreeInv, ConfigurationInv
  <2>5. CASE /\ device.state \in {"Address", "Configured"}
             /\ device'.state = IF r.value = 0 THEN "Address" ELSE "Configured"
             /\ device'.configuration = r.value
             /\ a.error = "Success" /\ device'.currentConfiguration = r.value
    <3>1. Done("SET_CONFIGURATION")'
      BY <1>2, <1>3, <1>4, <1>10, <2>1, <2>3, <2>5 DEF Done
    <3>2. device.ADDR # 0
      BY <1>8, <2>5
    <3> QED BY <1>2, <1>3, <1>7, <1>9, <2>2, <2>5, <3>1, <3>2 DEF AgreeInv, ConfigurationInv
  <2> QED BY <2>2, <2>3, <2>4, <2>5
<1>11. CASE r.name = "SET_ADDRESS"
  <2>1. ~Done("SET_CONFIGURATION")'
    BY <1>2, <1>11 DEF Done
  <2>2. Handle(device, r) = SetAddress(device, r)
    BY <1>11 DEF Handle, ClassRequests
  <2>3. r.value \in 0 .. 127
    BY <1>2, <1>11, AddressesFit
  <2>4. \/ device' = device
        \/ /\ device'.state = "Addressing" /\ device'.ADDR = device.ADDR
           /\ device'.configuration = device.configuration
           /\ device'.currentConfiguration = device.currentConfiguration
    BY <1>1, <1>2, <1>5, <1>11, <2>2, <2>3, SetAddressDoes
  <2> QED BY <1>2, <1>3, <1>7, <1>8, <1>9, <1>11, <2>1, <2>4 DEF AgreeInv, ConfigurationInv
<1>12. CASE r.name \notin {"SET_ADDRESS", "SET_CONFIGURATION"}
  <2>1. ~Done("SET_CONFIGURATION")'
    BY <1>2, <1>12 DEF Done
  <2>2. Untouched(device', device)
    BY <1>1, <1>2, <1>12, HandleLeaves
  <2> QED BY <1>2, <1>3, <1>7, <1>8, <1>9, <2>1, <2>2 DEF AgreeInv, ConfigurationInv, Untouched
<1> QED BY <1>10, <1>11, <1>12

LEMMA AgreeNext ==
  ASSUME Chooses, IInv, AgreeInv, [Next]_vars
  PROVE  AgreeInv'
<1>1. CASE TokenDone
  BY <1>1, Oldest, AgreeInDone, AgreeOutDone, AgreeSetupDone
<1>2. CASE StallAnswer \/ InterruptStall
  BY <1>2, AgreeStall
<1>3. CASE InToken \/ InTokenUnacknowledged \/ OutToken \/ StatusOut
  BY <1>3, AgreeTransaction
<1>4. CASE Setup
  BY <1>4, AgreeSetup
<1>5. CASE BusReset
  BY <1>5, AgreeAfterReset
<1>6. CASE UNCHANGED vars
  BY <1>6, AgreeKept DEF vars, driverVars, controllerVars, SetupPending, SentTok, SetupTok, Tok, I
<1> QED BY <1>1, <1>2, <1>3, <1>4, <1>5, <1>6 DEF Next, Interrupts, Transaction

(* ViewsAgree: once a request is over, the register, the device layer, the class    *)
(* and the application say of the address, the configuration and the settings what  *)
(* the host believes. A host that chooses a configuration that there is not is left  *)
(* out: the device layer and the class take it before the application refuses.    *)
THEOREM LayersAgreeWithHost ==
  ASSUME Chooses
  PROVE  Spec => []ViewsAgree
<1>1. Init => AgreeInv
  BY AgreeInitially
<1>2. IInv /\ AgreeInv /\ [Next]_vars => AgreeInv'
  BY AgreeNext
<1>3. IInv /\ AgreeInv => ViewsAgree
  <2> SUFFICES ASSUME IInv, AgreeInv, Settled
               PROVE  /\ device.ADDR = host.address /\ device.deviceAddress = host.address
                      /\ device.state = IF host.address = 0 THEN "Default"
                                        ELSE IF host.configuration = 0 THEN "Address" ELSE "Configured"
                      /\ device.configuration = host.configuration
                      /\ device.currentConfiguration = host.configuration
                      /\ \A b \in Settings : device.memory[b] \in host.stored[b]
    BY DEF ViewsAgree
  <2>1. Types /\ TurnInv /\ HaltInv /\ AddressInv
    BY DEF IInv, PipeInv
  <2>2. I \in GoodEp /\ O \in GoodEp /\ InOdd \in Bit /\ OutOdd \in Bit
    BY <2>1, Parts
  <2>3. ~InPending /\ ~SetupPending /\ ~Offers(I, InOdd) /\ ~I.transferring
    BY <2>1, <2>2, Queues, Conditions DEF Settled, QueueShapes, Primed, Offers, I, TurnInv
  <2>4. device.state # "Addressing" /\ device.deviceAddress = device.ADDR /\ device.ADDR = host.address
    BY <2>1, <2>3 DEF AddressInv
  <2>5. ~Done("SET_CONFIGURATION")
    BY <2>3 DEF Done
  <2> QED BY <2>3, <2>4, <2>5 DEF AgreeInv, ConfigurationInv, MemoryInv
<1> QED BY <1>1, <1>2, <1>3, Inductive, PTL DEF Spec
------------------------------------------------------------------------------
(* The endpoints that the descriptor tells of, and those that are opened.      *)

InterfaceParts == {2, 8}
EndpointParts == {7, 9, 10}

LEMMA PartsOfConfiguration ==
  LET d == ConfigurationDescriptor
  IN  /\ DOMAIN d = 1 .. 10 /\ Len(d) = 10
      /\ d[1].totalLength = 67 /\ d[1].interfaces = 2 /\ d[2].count = 1 /\ d[8].count = 2
      /\ \A i \in 1 .. 10 : d[i].type = "INTERFACE" <=> i \in InterfaceParts
      /\ \A i \in 1 .. 10 : d[i].type = "ENDPOINT" <=> i \in EndpointParts
      /\ {d[7].endpoint} = CicEndpoints /\ {d[9].endpoint, d[10].endpoint} = DicEndpoints
<1> DEFINE d == ConfigurationDescriptor
<1>1. DOMAIN d = 1 .. 10 /\ Len(d) = 10
  BY DEF ConfigurationDescriptor
<1>2. d[1].totalLength = 67 /\ d[1].interfaces = 2
  BY DEF ConfigurationDescriptor
<1>3. d[2].count = 1 /\ d[8].count = 2
  BY DEF ConfigurationDescriptor, InterfacePart
<1>4. \A i \in 1 .. 10 : d[i].type = "INTERFACE" <=> i \in InterfaceParts
  BY DEF ConfigurationDescriptor, InterfacePart, EndpointPart, Part, InterfaceParts
<1>5. \A i \in 1 .. 10 : d[i].type = "ENDPOINT" <=> i \in EndpointParts
  BY DEF ConfigurationDescriptor, InterfacePart, EndpointPart, Part, EndpointParts
<1>6. d[7].endpoint = EndpointRecord(1, "IN", "INTERRUPT", InterruptInPacketSize("FULL"), InterruptInInterval("FULL"))
  BY DEF ConfigurationDescriptor, EndpointPart
<1>7. /\ d[9].endpoint = EndpointRecord(2, "IN", "BULK", BulkPacketSize("FULL"), 0)
      /\ d[10].endpoint = EndpointRecord(3, "OUT", "BULK", BulkPacketSize("FULL"), 0)
  BY DEF ConfigurationDescriptor, EndpointPart
<1> HIDE DEF d
<1>8. {d[7].endpoint} = CicEndpoints /\ {d[9].endpoint, d[10].endpoint} = DicEndpoints
  BY <1>6, <1>7 DEF CicEndpoints, DicEndpoints
<1> QED BY <1>1, <1>2, <1>3, <1>4, <1>5, <1>8 DEF d

LEMMA DescribedIs ==
  ASSUME NEW d, DOMAIN d = 1 .. 10, \A i \in 1 .. 10 : d[i].type = "ENDPOINT" <=> i \in EndpointParts
  PROVE  Described(d) = {d[7].endpoint} \cup {d[9].endpoint, d[10].endpoint}
<1>1. {j \in DOMAIN d : d[j].type = "ENDPOINT"} = {7, 9, 10}
  BY DEF EndpointParts
<1> QED BY <1>1 DEF Described

LEMMA PairCounts ==
  ASSUME NEW a, NEW b, a # b
  PROVE  Cardinality({a, b}) = 2
<1> DEFINE S == {a}
<1>1. IsFiniteSet(S) /\ Cardinality(S) = 1 /\ b \notin S
  BY FS_Singleton
<1> HIDE DEF S
<1>2. Cardinality(S \cup {b}) = Cardinality(S) + 1
  BY <1>1, FS_AddElement
<1>3. S \cup {b} = {a, b}
  BY DEF S
<1> QED BY <1>1, <1>2, <1>3

LEMMA DescriptorWellFormed == WellFormed(ConfigurationDescriptor)
<1> DEFINE d == ConfigurationDescriptor
           is(t) == {i \in DOMAIN d : d[i].type = t}
           next(i) == Min({j \in is("INTERFACE") : j > i} \cup {Len(d) + 1})
<1>1. is("INTERFACE") = {2, 8} /\ is("ENDPOINT") = {7, 9, 10}
  BY PartsOfConfiguration DEF InterfaceParts, EndpointParts
<1>2. /\ d[1].totalLength = 67 /\ d[1].interfaces = 2 /\ d[2].count = 1 /\ d[8].count = 2 /\ Len(d) = 10
  BY PartsOfConfiguration
<1>3. next(2) = 8
  <2>1. {j \in is("INTERFACE") : j > 2} \cup {Len(d) + 1} = {8, 11}
    BY <1>1, <1>2
  <2>2. Min({8, 11}) = 8
    BY DEF Min
  <2> QED BY <2>1, <2>2
<1>4. next(8) = 11
  <2>1. {j \in is("INTERFACE") : j > 8} \cup {Len(d) + 1} = {11}
    BY <1>1, <1>2
  <2>2. Min({11}) = 11
    BY DEF Min
  <2> QED BY <2>1, <2>2
<1>5. Cardinality({2, 8}) = 2 /\ Cardinality({7}) = 1 /\ Cardinality({9, 10}) = 2
  <2>1. 2 # 8 /\ 9 # 10
    OBVIOUS
  <2> QED BY <2>1, PairCounts, FS_Singleton, Zenon
<1>6. {j \in {7, 9, 10} : 2 < j /\ j < 8} = {7} /\ {j \in {7, 9, 10} : 8 < j /\ j < 11} = {9, 10}
  OBVIOUS
<1>7. \A i \in is("INTERFACE") : d[i].count = Cardinality({j \in is("ENDPOINT") : i < j /\ j < next(i)})
  <2>1. Cardinality({j \in is("ENDPOINT") : 2 < j /\ j < next(2)}) = 1
    BY <1>1, <1>3, <1>5, <1>6, ZenonT(40)
  <2>2. Cardinality({j \in is("ENDPOINT") : 8 < j /\ j < next(8)}) = 2
    BY <1>1, <1>4, <1>5, <1>6, ZenonT(40)
  <2> HIDE DEF next, d
  <2> QED BY <1>1, <1>2, <2>1, <2>2
<1> HIDE DEF d
<1> QED BY <1>1, <1>2, <1>5, <1>7, LengthOfConfiguration DEF WellFormed, d

LEMMA SpeedsAgree ==
  ASSUME NEW speed \in Speeds
  PROVE  Described(SetSpeedDescriptor(speed)) = SetSpeedEndpoints(speed)
<1> DEFINE d == ConfigurationDescriptor
           s == SetSpeedDescriptor(speed)
           in == EndpointRecord(1, "IN", "INTERRUPT", InterruptInPacketSize("FULL"), InterruptInInterval("FULL"))
           bulkIn == EndpointRecord(2, "IN", "BULK", BulkPacketSize("FULL"), 0)
           bulkOut == EndpointRecord(3, "OUT", "BULK", BulkPacketSize("FULL"), 0)
<1>1. DOMAIN s = 1 .. 10
  BY PartsOfConfiguration DEF SetSpeedDescriptor
<1>2. \A i \in 1 .. 10 : s[i] = IF i \in EndpointParts THEN [d[i] EXCEPT !.endpoint = AtSpeed(@, speed)] ELSE d[i]
  BY PartsOfConfiguration DEF SetSpeedDescriptor
<1>3. d[7].endpoint = in /\ {d[9].endpoint, d[10].endpoint} = {bulkIn, bulkOut}
  BY PartsOfConfiguration DEF CicEndpoints, DicEndpoints
<1>4. \A i \in EndpointParts : /\ s[i].type = "ENDPOINT" /\ s[i].endpoint = AtSpeed(d[i].endpoint, speed)
  <2>1. d[7] = EndpointPart(1, "IN", "INTERRUPT", InterruptInPacketSize("FULL"), InterruptInInterval("FULL"))
    BY DEF ConfigurationDescriptor
  <2>2. /\ d[9] = EndpointPart(2, "IN", "BULK", BulkPacketSize("FULL"), 0)
        /\ d[10] = EndpointPart(3, "OUT", "BULK", BulkPacketSize("FULL"), 0)
    BY DEF ConfigurationDescriptor
  <2> HIDE DEF d, s
  <2> QED BY <1>2, <2>1, <2>2 DEF EndpointParts, EndpointPart
<1>5. \A i \in 1 .. 10 : s[i].type = "ENDPOINT" <=> i \in EndpointParts
  BY <1>2, <1>4, PartsOfConfiguration
<1>6. Described(s) = {s[7].endpoint} \cup {s[9].endpoint, s[10].endpoint}
  BY <1>1, <1>5, DescribedIs
<1>7. /\ s[7].endpoint = AtSpeed(in, speed)
      /\ {s[9].endpoint, s[10].endpoint} = {AtSpeed(bulkIn, speed), AtSpeed(bulkOut, speed)}
  <2> HIDE DEF s, d, in, bulkIn, bulkOut
  <2> QED BY <1>3, <1>4 DEF EndpointParts
<1>8. /\ AtSpeed(in, speed) = [in EXCEPT !.maxPacketSize = InterruptInPacketSize(speed),
                                         !.interval = InterruptInInterval(speed)]
      /\ AtSpeed(bulkIn, speed) = [bulkIn EXCEPT !.maxPacketSize = BulkPacketSize(speed)]
      /\ AtSpeed(bulkOut, speed) = [bulkOut EXCEPT !.maxPacketSize = BulkPacketSize(speed)]
  BY DEF AtSpeed, EndpointRecord
<1>9. CicEndpoints = {in} /\ DicEndpoints = {bulkIn, bulkOut}
  BY DEF CicEndpoints, DicEndpoints
<1> HIDE DEF s, d, in, bulkIn, bulkOut
<1>10. SetSpeedEndpoints(speed) = {AtSpeed(in, speed)} \cup {AtSpeed(bulkIn, speed), AtSpeed(bulkOut, speed)}
  BY <1>8, <1>9 DEF SetSpeedEndpoints
<1> QED BY <1>6, <1>7, <1>10 DEF s

(* The class opens both interfaces' endpoints when it has a configuration.      *)
AllEndpoints == CicEndpoints \cup DicEndpoints

Opens(d) ==
  /\ d.configuration \in {0, CONFIGURE_INDEX}
  /\ d.configuration # 0 => d.alternate = 0
  /\ d.opened = IF d.configuration = 0 THEN {} ELSE AllEndpoints

LEMMA EndpointsInitOpens ==
  ASSUME NEW d \in Device, d.alternate = 0, d.configuration \in {0, CONFIGURE_INDEX}
  PROVE  Opens(EndpointsInit(d))
<1> DEFINE set == {i \in InterfaceList : i.alternate = d.alternate}
           all == UNION {i.endpoints : i \in set}
           hasComm == \E i \in set : i.class = "COMM"
           opened == IF d.configuration \in 1 .. CONFIGURATION_COUNT /\ hasComm THEN all ELSE {}
           comm == [number |-> COMM_INTERFACE, class |-> "COMM", alternate |-> 0, endpoints |-> CicEndpoints]
           data == [number |-> DATA_INTERFACE, class |-> "DATA", alternate |-> 0, endpoints |-> DicEndpoints]
<1>1. set = {comm, data}
  <2>1. InterfaceList = {comm, data}
    BY DEF InterfaceList
  <2>2. comm.alternate = 0 /\ data.alternate = 0
    OBVIOUS
  <2> HIDE DEF comm, data
  <2> QED BY <2>1, <2>2
<1>2. comm.class = "COMM" /\ comm.endpoints = CicEndpoints /\ data.endpoints = DicEndpoints
  OBVIOUS
<1> HIDE DEF comm, data
<1>3. all = AllEndpoints /\ hasComm
  <2>1. {i.endpoints : i \in set} = {CicEndpoints, DicEndpoints}
    BY <1>1, <1>2
  <2>2. UNION {CicEndpoints, DicEndpoints} = AllEndpoints
    BY DEF AllEndpoints
  <2> QED BY <1>1, <1>2, <2>1, <2>2
<1>4. EndpointsInit(d) = [d EXCEPT !.opened = opened]
  BY DEF EndpointsInit
<1> HIDE DEF all, hasComm
<1>5. opened = IF d.configuration = 0 THEN {} ELSE AllEndpoints
  BY <1>3 DEF CONFIGURATION_COUNT, CONFIGURE_INDEX
<1> HIDE DEF opened
<1>6. /\ EndpointsInit(d).opened = opened /\ EndpointsInit(d).configuration = d.configuration
      /\ EndpointsInit(d).alternate = d.alternate
  BY <1>4 DEF Device
<1> QED BY <1>5, <1>6 DEF Opens

LEMMA EndpointsInitFits ==
  ASSUME NEW d \in Device
  PROVE  EndpointsInit(d) \in Device
<1> DEFINE set == {i \in InterfaceList : i.alternate = d.alternate}
           opened == IF d.configuration \in 1 .. CONFIGURATION_COUNT /\ \E i \in set : i.class = "COMM"
                       THEN UNION {i.endpoints : i \in set} ELSE {}
<1>1. opened \in SUBSET (CicEndpoints \cup DicEndpoints)
  BY DEF InterfaceList
<1>2. EndpointsInit(d) = [d EXCEPT !.opened = opened]
  BY DEF EndpointsInit
<1> HIDE DEF opened
<1> QED BY <1>1, <1>2, DeviceWith, ZenonT(40)

(* Only these three fields matter.                                          *)
LEMMA OpensSame ==
  ASSUME NEW d, NEW e, Opens(d), e.configuration = d.configuration, e.alternate = d.alternate, e.opened = d.opened
  PROVE  Opens(e)
BY DEF Opens

LEMMA StandardOpens ==
  ASSUME NEW d \in Device, NEW n \in Nat, Opens(d)
  PROVE  Standard(d, n) \in Device /\ Opens(Standard(d, n)) /\ Standard(d, n).configuration = d.configuration
BY StandardDoes, OpensSame DEF Untouched

LEMMA CallbackOpens ==
  ASSUME NEW d \in Device, NEW r \in Request, Opens(d),
         r.name \in (Reads \ ClassRequests) \cup {"SET_CONFIGURATION", "SET_INTERFACE"}
  PROVE  Opens(DeviceCallback(d, r).device)
<1>1. CASE r.name = "SET_CONFIGURATION"
  <2> DEFINE e == [d EXCEPT !.currentConfiguration = r.value]
  <2>1. Opens(e)
    <3>1. e.configuration = d.configuration /\ e.alternate = d.alternate /\ e.opened = d.opened
      BY DEF Device
    <3> QED BY <3>1, OpensSame
  <2>2. DeviceCallback(d, r).device \in {d, e}
    BY <1>1 DEF DeviceCallback, Accepted, Refused, Outcome
  <2> QED BY <2>1, <2>2
<1>2. CASE r.name = "GET_CONFIGURATION"
  <2>1. d.currentConfiguration \in Nat
    BY DEF Device
  <2>2. DeviceCallback(d, r).device = Standard(d, d.currentConfiguration)
    BY <1>2 DEF DeviceCallback, Outcome
  <2> QED BY <2>1, <2>2, StandardOpens
<1>3. CASE r.name \notin {"SET_CONFIGURATION", "GET_CONFIGURATION"}
  <2>1. DeviceCallback(d, r).device = d
    BY <1>3 DEF DeviceCallback, Accepted, Refused, Outcome, Reads, ClassRequests
  <2> QED BY <2>1
<1> QED BY <1>1, <1>2, <1>3

LEMMA SetConfigurationOpens ==
  ASSUME NEW d \in Device, NEW r \in Request, r.name = "SET_CONFIGURATION", Opens(d),
         r.value \in {0, CONFIGURE_INDEX}
  PROVE  Opens(SetConfiguration(d, r).device)
<1>1. CASE ~(d.state \in {"Address", "Configured"} /\ r.index = 0 /\ r.length = 0)
  BY <1>1 DEF SetConfiguration, Refused, Outcome
<1>2. CASE d.state \in {"Address", "Configured"} /\ r.index = 0 /\ r.length = 0
  <2> DEFINE state == IF r.value = 0 THEN "Address" ELSE "Configured"
             s == State(d, state)
             t == [s EXCEPT !.configuration = r.value, !.alternate = 0]
             c == ClassSetConfiguration(s, r.value)
  <2>1. SetConfiguration(d, r) = DeviceCallback(c, r)
    BY <1>2 DEF SetConfiguration
  <2>2. s \in Device /\ Opens(s)
    <3>1. s \in Device
      BY DeviceWith DEF State
    <3>2. s.configuration = d.configuration /\ s.alternate = d.alternate /\ s.opened = d.opened
      BY DEF State, Device
    <3> QED BY <3>1, <3>2, OpensSame
  <2> HIDE DEF s
  <2>3. t \in Device /\ t.configuration = r.value /\ t.alternate = 0
    <3> DEFINE f == [s EXCEPT !.configuration = r.value]
    <3>1. f \in Device
      BY <2>2, DeviceWith DEF Request
    <3>2. t = [f EXCEPT !.alternate = 0]
      BY <2>2 DEF Device
    <3> HIDE DEF f
    <3>3. 0 \in 0 .. 255
      OBVIOUS
    <3>4. t \in Device
      BY <3>1, <3>2, <3>3, DeviceWith
    <3> QED BY <2>2, <3>4 DEF Device
  <2>4. c = IF s.configuration = r.value THEN s ELSE EndpointsInit(t)
    BY DEF ClassSetConfiguration
  <2> HIDE DEF t
  <2>5. Opens(EndpointsInit(t)) /\ EndpointsInit(t) \in Device
    <3>1. Opens(EndpointsInit(t))
      BY <2>3, EndpointsInitOpens
    <3>2. EndpointsInit(t) \in Device
      BY <2>3, EndpointsInitFits
    <3> QED BY <3>1, <3>2
  <2>6. c \in Device /\ Opens(c)
    BY <2>2, <2>4, <2>5
  <2> HIDE DEF c
  <2> QED BY <2>1, <2>6, CallbackOpens
<1> QED BY <1>1, <1>2

(* The alternate setting 0, which both interfaces have had since then.        *)
LEMMA SetInterfaceOpens ==
  ASSUME NEW d \in Device, NEW r \in Request, r.name = "SET_INTERFACE", Opens(d), r.value = 0,
         d.state = "Configured" => d.configuration # 0
  PROVE  Opens(SetInterface(d, r).device)
<1>1. CASE ~(d.state = "Configured" /\ r.length = 0)
  BY <1>1 DEF SetInterface, Refused, Outcome
<1>2. CASE d.state = "Configured" /\ r.length = 0
  <2> DEFINE s == Standard(d, r.value)
             c == ClassSetInterface(s, r.index, r.value)
  <2>1. SetInterface(d, r) = DeviceCallback(c, r)
    BY <1>2 DEF SetInterface
  <2>2. s \in Device /\ Opens(s) /\ s.configuration # 0
    BY <1>2, StandardOpens
  <2> HIDE DEF s
  <2>3. c = s
    BY <2>2 DEF ClassSetInterface, Opens
  <2> HIDE DEF c
  <2> QED BY <2>1, <2>2, <2>3, CallbackOpens
<1> QED BY <1>1, <1>2

LEMMA SetAddressOpens ==
  ASSUME NEW d \in Device, NEW r, Opens(d)
  PROVE  Opens(SetAddress(d, r).device)
<1> DEFINE e == SetAddress(d, r).device
<1>1. e.configuration = d.configuration /\ e.alternate = d.alternate /\ e.opened = d.opened
  BY DEF SetAddress, Accepted, Refused, Outcome, State, Device
<1> HIDE DEF e
<1>2. Opens(e)
  BY <1>1, OpensSame
<1> QED BY <1>2 DEF e

(* A host that selects an alternate setting which the device has described.      *)
Selects == \A r \in Requests : r.name = "SET_INTERFACE" => r.value = 0

LEMMA HandleOpens ==
  ASSUME Chooses, Selects, NEW d \in Device, NEW r \in Requests, Opens(d),
         d.state = "Configured" => d.configuration # 0
  PROVE  Opens(Handle(d, r).device)
<1>1. r \in Request /\ r.name # "none" /\ r.name \in Reads \cup Writes
  BY Constants DEF Request
<1>2. CASE r.name \in ClassRequests
  <2>1. Handle(d, r).device = d
    BY <1>2 DEF Handle, ClassRequests, Outcome
  <2> QED BY <2>1
<1>3. CASE r.name = "SET_ADDRESS"
  <2>1. Handle(d, r) = SetAddress(d, r)
    BY <1>3 DEF Handle, ClassRequests
  <2> QED BY <2>1, SetAddressOpens
<1>4. CASE r.name = "SET_CONFIGURATION"
  <2>1. Handle(d, r) = SetConfiguration(d, r)
    BY <1>4 DEF Handle, ClassRequests
  <2> QED BY <1>1, <1>4, <2>1, SetConfigurationOpens DEF Chooses
<1>5. CASE r.name = "SET_INTERFACE"
  <2>1. Handle(d, r) = SetInterface(d, r)
    BY <1>5 DEF Handle, ClassRequests
  <2> QED BY <1>1, <1>5, <2>1, SetInterfaceOpens DEF Selects
<1>6. CASE r.name \in Reads \ ClassRequests
  <2>1. Opens(DeviceCallback(d, r).device)
    BY <1>1, <1>6, CallbackOpens
  <2>2. Opens(Refused(d).device)
    BY DEF Refused, Outcome
  <2>3. CASE r.name = "GET_CONFIGURATION"
    <3>1. Handle(d, r) = GetConfiguration(d, r)
      BY <2>3 DEF Handle, ClassRequests
    <3> QED BY <2>1, <2>2, <3>1 DEF GetConfiguration
  <2>4. CASE r.name = "GET_INTERFACE"
    <3>1. Handle(d, r) = GetInterface(d, r)
      BY <2>4 DEF Handle, ClassRequests
    <3>2. Standard(d, 0) \in Device /\ Opens(Standard(d, 0))
      BY StandardOpens
    <3>3. Opens(DeviceCallback(Standard(d, 0), r).device)
      BY <1>1, <1>6, <3>2, CallbackOpens
    <3> QED BY <2>2, <3>1, <3>3 DEF GetInterface
  <2>5. CASE r.name \in {"GET_DEVICE_DESCRIPTOR", "GET_CONFIGURATION_DESCRIPTOR", "GET_STRING_DESCRIPTOR"}
    <3>1. Handle(d, r) = GetDescriptor(d, r)
      BY <2>5 DEF Handle, ClassRequests
    <3> QED BY <2>1, <2>2, <3>1 DEF GetDescriptor
  <2> QED BY <1>6, <2>3, <2>4, <2>5 DEF Reads, ClassRequests
<1> QED BY <1>1, <1>2, <1>3, <1>4, <1>5, <1>6 DEF Writes, ClassRequests

OpenedInv == Opens(device)

(* A step other than the handling of a request.                             *)
LEMMA OpenedKept ==
  ASSUME IInv, OpenedInv, [Next]_vars, ~(TokenDone /\ ~InPending /\ SetupPending)
  PROVE  OpenedInv'
<1>1. device \in Device
  BY DEF IInv, Types
<1>2. CASE device'.configuration = device.configuration /\ device'.alternate = device.alternate
             /\ device'.opened = device.opened
  BY <1>2, OpensSame DEF OpenedInv
<1>3. CASE TokenDone
  <2>1. CASE InDone
    <3>1. device' \in {device, SetAddress(device, deviceSetup).device}
      BY <2>1 DEF InDone
    <3> QED BY <1>1, <3>1, SetAddressOpens DEF OpenedInv
  <2>2. CASE OutDone
    <3>1. /\ device'.configuration = device.configuration /\ device'.alternate = device.alternate
          /\ device'.opened = device.opened
      BY <1>1, <2>2 DEF OutDone, Device
    <3> QED BY <1>2, <3>1
  <2> QED BY <1>3, <2>1, <2>2, Oldest
<1>4. CASE BusReset
  <2>1. device' = DeviceReset(device)
    BY <1>4 DEF BusReset
  <2>2. device'.configuration = 0 /\ device'.opened = {}
    BY <1>1, <2>1, DeviceResetDoes
  <2> QED BY <2>2 DEF OpenedInv, Opens
<1>5. CASE OutToken
  <2>1. /\ device'.configuration = device.configuration /\ device'.alternate = device.alternate
        /\ device'.opened = device.opened
    BY <1>1, <1>5 DEF OutToken, Device
  <2> QED BY <1>2, <2>1
<1>6. CASE InterruptStall \/ InToken \/ StatusOut \/ StallAnswer \/ InTokenUnacknowledged \/ Setup \/ UNCHANGED vars
  <2>1. device' = device
    BY <1>6 DEF InterruptStall, InToken, StatusOut, StallAnswer, InTokenUnacknowledged, Setup, vars, driverVars
  <2> QED BY <1>2, <2>1
<1> QED BY <1>3, <1>4, <1>5, <1>6 DEF Next, Interrupts, Transaction

LEMMA OpenedInitially ==
  ASSUME Init
  PROVE  OpenedInv
<1> DEFINE d == [state |-> "Default", deviceAddress |-> 0, ADDR |-> 0, configuration |-> 0,
                 alternate |-> 255, opened |-> {}, currentConfiguration |-> 0,
                 memory |-> [b \in Stored |-> 0]]
<1>1. device = DeviceReset(d)
  BY DEF Init
<1>2. DeviceReset(d).configuration = 0 /\ DeviceReset(d).opened = {}
  BY DEF DeviceReset
<1> QED BY <1>1, <1>2 DEF OpenedInv, Opens

LEMMA OpenedNext ==
  ASSUME Chooses, Selects, IInv, AgreeInv, OpenedInv, [Next]_vars
  PROVE  OpenedInv'
<1>1. CASE TokenDone /\ ~InPending /\ SetupPending
  <2>1. /\ device' = Handle(device, host.request).device
        /\ host.request \in Requests /\ device.state # "Addressing"
    BY <1>1, SetupDoneDoes
  <2>2. device \in Device /\ (device.state = "Configured" => device.configuration # 0)
    BY <2>1 DEF IInv, Types, AgreeInv, ConfigurationInv
  <2>3. Opens(Handle(device, host.request).device)
    BY <2>1, <2>2, HandleOpens DEF OpenedInv
  <2> QED BY <2>1, <2>3 DEF OpenedInv
<1>2. CASE ~(TokenDone /\ ~InPending /\ SetupPending)
  BY <1>2, OpenedKept
<1> QED BY <1>1, <1>2

(* EndpointsAsDescribed: the configuration descriptor is well formed, and the class  *)
(* opens the endpoints that it tells the host of, exactly while it is configured. A   *)
(* host that selects a setting which there is not is left out, as such a setting     *)
(* closes them before the application refuses.                              *)
THEOREM OpenedAsDescribed ==
  ASSUME Chooses, Selects
  PROVE  Spec => []EndpointsAsDescribed
<1>1. Init => AgreeInv /\ OpenedInv
  BY AgreeInitially, OpenedInitially
<1>2. IInv /\ AgreeInv /\ OpenedInv /\ [Next]_vars => AgreeInv' /\ OpenedInv'
  BY AgreeNext, OpenedNext
<1>3. Described(ConfigurationDescriptor) = AllEndpoints
  BY PartsOfConfiguration, DescribedIs DEF AllEndpoints
<1>4. DescriptorsAgree
  BY DescriptorWellFormed, SpeedsAgree DEF DescriptorsAgree
<1>5. OpenedInv /\ ViewsAgree => EndpointsAsDescribed
  <2> SUFFICES ASSUME OpenedInv, ViewsAgree
               PROVE  EndpointsAsDescribed
    OBVIOUS
  <2>1. device.opened \in {{}, AllEndpoints} /\ (device.opened # {} <=> device.configuration # 0)
    BY DEF OpenedInv, Opens, AllEndpoints, CicEndpoints
  <2>2. Settled => device.configuration = host.configuration
    BY DEF ViewsAgree
  <2> QED BY <1>3, <1>4, <2>1, <2>2 DEF EndpointsAsDescribed
<1>6. Spec => []ViewsAgree
  BY LayersAgreeWithHost
<1> QED BY <1>1, <1>2, <1>5, <1>6, Inductive, PTL DEF Spec
------------------------------------------------------------------------------
(* What the host is told.                                                   *)

Want == Expected(host)
Content(d, b) == IF b \in Stored THEN d.memory[b] ELSE 0

(* The answer under way is what the host must be told, and the packet that is      *)
(* offered is the one after those that have been counted.                    *)
NextIs(e, i) == e.bd[i].from = e.transferBuffer /\ e.bd[i].off = e.transferDone

UnderWay ==
  host.stage = "dataIn" /\ I.transferring /\ ~SetupPending =>
    /\ I.transferBuffer = Want.from /\ I.transferLength = Least(Want.length, host.request.length)
    /\ Content(device, Want.from) \in Want.data
    /\ Offers(I, InOdd) => NextIs(I, InOdd)

(* The host has the packets up to some end, each after the other.            *)
End(got) == IF got = << >> THEN 0 ELSE got[Len(got)].off + got[Len(got)].len

Chained(got) ==
  /\ got # << >> => got[1].off = 0
  /\ \A i \in 1 .. Len(got) - 1 : got[i].len = MaxPacketSize /\ got[i + 1].off = got[i].off + got[i].len

Full(got) == \A i \in DOMAIN got : got[i].len = MaxPacketSize
Right(p, w) == p.len # 0 => p.from = w.from /\ p.data \in w.data

Told ==
  host.stage \in {"dataIn", "statusOut"} =>
    /\ Chained(host.got) /\ \A i \in DOMAIN host.got : Right(host.got[i], Want)
    /\ host.stage = "dataIn" => Full(host.got) /\ host.received = End(host.got)
    /\ host.stage = "statusOut" =>
         host.got # << >> /\ End(host.got) = Least(Want.length, host.request.length)

(* What EndpointTransfer notes in the descriptor in turn.                     *)
LEMMA EndpointTransferAt ==
  ASSUME NEW e \in GoodEp, NEW off \in Nat, NEW n \in Nat
  PROVE  LET f == EndpointTransfer(e, off, n)
         IN  f.bd[e.bdtOdd].from = e.transferBuffer /\ f.bd[e.bdtOdd].off = off
BY DEF EndpointTransfer, GoodEp, Endpoint

LEMMA TransferAt ==
  ASSUME NEW e \in GoodEp, NEW b \in Buffers, NEW n \in Nat, e.transferring => e.transferBuffer = b
  PROVE  LET f == Transfer(e, b, n)
         IN  /\ f.bd[e.bdtOdd].from = b
             /\ f.bd[e.bdtOdd].off = IF e.transferring THEN e.transferDone ELSE 0
<1> DEFINE s == SaveTransfer(e, b, n)
           m == Least(n, s.maxPacketSize)
<1>1. /\ s \in GoodEp /\ s.bdtOdd = e.bdtOdd /\ s.transferBuffer = b
      /\ s.transferDone = IF e.transferring THEN e.transferDone ELSE 0
  BY SaveTransferDoes
<1> HIDE DEF s
<1>2. s.transferDone \in Nat /\ m \in Nat
  BY <1>1 DEF GoodEp, Endpoint, Least
<1>3. Transfer(e, b, n) = EndpointTransfer(s, s.transferDone, m)
  BY DEF Transfer, s
<1> HIDE DEF m
<1>4. LET f == EndpointTransfer(s, s.transferDone, m)
      IN  f.bd[s.bdtOdd].from = s.transferBuffer /\ f.bd[s.bdtOdd].off = s.transferDone
  BY <1>1, <1>2, EndpointTransferAt
<1> QED BY <1>1, <1>3, <1>4

(* Send leaves the IN direction as Transfer does.                           *)
LEMMA SendIs ==
  ASSUME NEW e \in Pipe, NEW b \in Buffers, NEW n \in Nat
  PROVE  Send(e, b, n)["IN"] = Transfer(e["IN"], b, n)
<1> DEFINE t == Transfer(e["IN"], b, n)
           f == [e EXCEPT !["IN"] = t]
<1>1. f["IN"] = t /\ DOMAIN f = Dir
  BY DEF Pipe, Dir
<1>2. Send(e, b, n) = IF f["IN"].transferDone = 0 /\ n = 0 THEN PrimeNextSetup(f) ELSE f
  BY DEF Send
<1> HIDE DEF f, t
<1>3. PrimeNextSetup(f)["IN"] = f["IN"]
  BY <1>1 DEF PrimeNextSetup, Dir
<1> QED BY <1>1, <1>2, <1>3 DEF t

(* The answer to a request that reads, as far as it was asked for.            *)
LEMMA FeedbackSends ==
  ASSUME NEW e \in Pipe, NEW i \in Bit, NEW o \in Bit, Empty(e["IN"], i), Empty(e["OUT"], o),
         NEW r \in Request, r.name \in Reads, NEW a \in Answer, a.error = "Success"
  PROVE  LET f == Feedback(e, r, a)["IN"]
         IN  /\ f.transferBuffer = a.buffer /\ f.transferLength = Least(a.length, r.length)
             /\ f.transferDone = 0 /\ NextIs(f, i)
<1> DEFINE n == Least(a.length, r.length)
           s == Send(e, a.buffer, n)
<1>1. r.length \in Nat /\ a.length \in Nat /\ a.buffer \in Buffers /\ "NULL" \in Buffers /\ n \in Nat
  BY DEF Request, Answer, Buffers, Least
<1>2. Feedback(e, r, a) = Recv(s, "NULL", 0)
  BY DEF Feedback
<1> HIDE DEF n
<1>3. /\ s \in Pipe /\ Offers(s["IN"], i) /\ s["IN"].transferBuffer = a.buffer
      /\ s["IN"].transferLength = n /\ s["IN"].transferDone = 0
      /\ IF n = 0 THEN Listening(s["OUT"], o) ELSE s["OUT"] = e["OUT"]
  BY <1>1, SendBegins
<1>4. NextIs(s["IN"], i)
  <2>1. s["IN"] = Transfer(e["IN"], a.buffer, n)
    BY <1>1, SendIs
  <2>2. e["IN"] \in GoodEp /\ e["IN"].bdtOdd = i /\ ~e["IN"].transferring
    BY PipeParts DEF Empty
  <2>3. LET f == Transfer(e["IN"], a.buffer, n) IN f.bd[i].from = a.buffer /\ f.bd[i].off = 0
    BY <1>1, <2>2, TransferAt
  <2> QED BY <1>3, <2>1, <2>3 DEF NextIs
<1> HIDE DEF s
<1>5. s["OUT"].bdtOdd = o /\ ~s["OUT"].bd[Flip(o)].own
  BY <1>3, Flipping DEF Listening, Offers, Empty, Free
<1>6. Recv(s, "NULL", 0)["IN"] = s["IN"]
  BY <1>1, <1>3, <1>5, RecvNothingDoes
<1> QED BY <1>2, <1>3, <1>4, <1>6 DEF n

(* What the host must be told is said by the request and by what it believes.    *)
LEMMA ExpectedSame ==
  ASSUME NEW g, NEW h, g.request = h.request, g.configuration = h.configuration, g.stored = h.stored
  PROVE  Expected(g) = Expected(h)
BY DEF Expected

(* A request that reads, with something to read, is refused or answered as the      *)
(* host must be told.                                                       *)
Truth(a, d, w) ==
  a.error = "InvalidRequest"
    \/ /\ a.error = "Success" /\ a.buffer = w.from /\ a.length = w.length
       /\ Content(d, w.from) \in w.data

LEMMA DescriptorTruth ==
  ASSUME NEW d, NEW h, NEW r \in Request, r = h.request,
         r.name \in {"GET_DEVICE_DESCRIPTOR", "GET_CONFIGURATION_DESCRIPTOR", "GET_STRING_DESCRIPTOR"}
  PROVE  Truth(DeviceCallback(d, r).answer, DeviceCallback(d, r).device, Expected(h))
<1>1. r.value \in Nat /\ InvalidRequest.error = "InvalidRequest"
  BY InvalidAnswers DEF Request
<1>2. CASE r.name = "GET_DEVICE_DESCRIPTOR"
  <2>1. DeviceCallback(d, r) = Outcome(d, Found("device", 18))
    BY <1>2 DEF DeviceCallback, GetDeviceDescriptor, DeviceDescriptorLength
  <2>2. Expected(h) = [from |-> "device", length |-> 18, data |-> {0}]
    BY <1>2 DEF Expected
  <2> QED BY <2>1, <2>2 DEF Truth, Outcome, Found, Content, Stored, Settings
<1>3. CASE r.name = "GET_CONFIGURATION_DESCRIPTOR"
  <2>1. DeviceCallback(d, r) = Outcome(d, IF r.value < CONFIGURE_INDEX THEN Found("configuration", 67) ELSE InvalidRequest)
    BY <1>3, LengthOfConfiguration DEF DeviceCallback, GetConfigurationDescriptor
  <2>2. Expected(h) = [from |-> "configuration", length |-> 67, data |-> {0}]
    BY <1>3, PartsOfConfiguration DEF Expected
  <2> QED BY <1>1, <2>1, <2>2 DEF Truth, Outcome, Found, Content, Stored, Settings
<1>4. CASE r.name = "GET_STRING_DESCRIPTOR"
  <2> DEFINE a == GetStringDescriptor(r.value, r.index)
             b(i) == <<"string0", "string1", "string2">>[i + 1]
             n(i) == <<4, 38, 42>>[i + 1]
  <2>1. DeviceCallback(d, r) = Outcome(d, a)
    BY <1>4 DEF DeviceCallback
  <2>2. Expected(h) = [from |-> b(r.value), length |-> n(r.value), data |-> {0}]
    BY <1>4 DEF Expected
  <2>3. \A i \in 0 .. 2 : StringBuffer[i] = b(i) /\ StringLength[i] = n(i) /\ b(i) \notin Stored
    BY DEF StringBuffer, StringLength, STRING_COUNT, Stored, Settings
  <2>4. a = InvalidRequest \/ (r.value \in 0 .. 2 /\ a = Found(StringBuffer[r.value], StringLength[r.value]))
    BY <1>1 DEF GetStringDescriptor, STRING_COUNT
  <2> HIDE DEF a, b, n
  <2> QED BY <1>1, <2>1, <2>2, <2>3, <2>4 DEF Truth, Outcome, Found, Content
<1> QED BY <1>2, <1>3, <1>4

LEMMA StandardHolds ==
  ASSUME NEW d \in Device, NEW n \in Nat
  PROVE  Standard(d, n) \in Device /\ Content(Standard(d, n), "standard") = n
<1>1. Standard(d, n) \in Device
  BY StandardDoes DEF Untouched
<1> QED BY <1>1 DEF Standard, Content, Device, Stored

LEMMA ClassTruth ==
  ASSUME NEW d \in Device, NEW h, NEW r \in Request, r = h.request, r.length # 0,
         r.name \in {"GET_LINE_CODING", "GET_COMM_FEATURE"},
         \A b \in Settings : d.memory[b] \in h.stored[b]
  PROVE  Truth(Final(ClassRequest(r)), d, Expected(h))
<1>1. InvalidRequest.error = "InvalidRequest" /\ InvalidRequest.length = 0
  BY InvalidAnswers
<1>2. CASE r.index # COMM_INTERFACE
  <2>1. ClassRequest(r) = [error |-> "Error", buffer |-> "NULL", length |-> r.length]
    BY <1>2 DEF ClassRequest
  <2>2. Final(ClassRequest(r)) = InvalidRequest
    BY <2>1 DEF Final
  <2> QED BY <1>1, <2>2 DEF Truth
<1>3. CASE r.index = COMM_INTERFACE
  <2>1. ClassRequest(r) \in {InvalidRequest, CdcVcomCallback(r)}
    BY <1>3 DEF ClassRequest
  <2>2. CASE ClassRequest(r) = InvalidRequest
    BY <1>1, <2>2 DEF Final, Truth
  <2>3. CASE ClassRequest(r) = CdcVcomCallback(r) /\ r.name = "GET_LINE_CODING"
    <3>1. ClassRequest(r) = Found("lineCoding", 7)
      BY <2>3 DEF CdcVcomCallback, LINE_CODING_SIZE
    <3>2. Expected(h) = [from |-> "lineCoding", length |-> 7, data |-> h.stored["lineCoding"]]
      BY <2>3 DEF Expected
    <3>3. Content(d, "lineCoding") \in h.stored["lineCoding"]
      BY DEF Content, Stored, Settings
    <3> QED BY <3>1, <3>2, <3>3 DEF Truth, Final, Found
  <2>4. CASE ClassRequest(r) = CdcVcomCallback(r) /\ r.name = "GET_COMM_FEATURE"
    <3> DEFINE b == IF r.value = ABSTRACT_STATE THEN "abstractState" ELSE "countryCode"
    <3>1. ClassRequest(r) \in {InvalidRequest, Found(b, 2)}
      BY <2>4 DEF CdcVcomCallback, CommFeature, COMM_FEATURE_DATA_SIZE, ABSTRACT_STATE, COUNTRY_SETTING
    <3>2. Expected(h) = [from |-> b, length |-> 2, data |-> h.stored[b]]
      BY <2>4 DEF Expected
    <3>3. b \in Settings /\ b # "NULL"
      BY DEF Settings
    <3> HIDE DEF b
    <3>4. Content(d, b) \in h.stored[b]
      BY <3>3 DEF Content, Stored
    <3> QED BY <1>1, <3>1, <3>2, <3>3, <3>4 DEF Truth, Final, Found
  <2> QED BY <2>1, <2>2, <2>3, <2>4
<1> QED BY <1>2, <1>3

LEMMA ReadTruth ==
  ASSUME NEW d \in Device, NEW h, NEW r \in Request, r = h.request, r.length # 0, r.name \in Reads,
         d.currentConfiguration = h.configuration, \A b \in Settings : d.memory[b] \in h.stored[b]
  PROVE  Truth(Final(Handle(d, r).answer), Handle(d, r).device, Expected(h))
<1>1. /\ InvalidRequest.error = "InvalidRequest" /\ InvalidRequest.length = 0
      /\ Refused(d).answer = InvalidRequest /\ Final(InvalidRequest) = InvalidRequest
  BY InvalidAnswers DEF Refused, Outcome, Final
<1>2. CASE r.name \in ClassRequests
  <2>1. r.name \in {"GET_LINE_CODING", "GET_COMM_FEATURE"}
    BY <1>2 DEF Reads, ClassRequests
  <2>2. Handle(d, r) = Outcome(d, ClassRequest(r))
    BY <1>2 DEF Handle, ClassRequests
  <2>3. Truth(Final(ClassRequest(r)), d, Expected(h))
    BY <2>1, ClassTruth
  <2> QED BY <2>2, <2>3 DEF Outcome
<1>3. CASE r.name = "GET_CONFIGURATION"
  <2>1. Handle(d, r) \in {Refused(d), Outcome(Standard(d, d.currentConfiguration), Found("standard", 1))}
    BY <1>3 DEF Handle, ClassRequests, GetConfiguration, DeviceCallback
  <2>2. Expected(h) = [from |-> "standard", length |-> 1, data |-> {d.currentConfiguration}]
    BY <1>3 DEF Expected
  <2>3. d.currentConfiguration \in Nat
    BY DEF Device
  <2>4. Content(Standard(d, d.currentConfiguration), "standard") = d.currentConfiguration
    BY <2>3, StandardHolds
  <2> QED BY <1>1, <2>1, <2>2, <2>4 DEF Truth, Outcome, Found, Final
<1>4. CASE r.name = "GET_INTERFACE"
  <2>1. \/ Handle(d, r).answer = InvalidRequest
        \/ Handle(d, r) = Outcome(Standard(d, 0), Found("standard", 1))
    <3>1. \/ Handle(d, r) = Refused(d)
          \/ Handle(d, r) \in {Refused(Standard(d, 0)), Outcome(Standard(d, 0), Found("standard", 1))}
      BY <1>4 DEF Handle, ClassRequests, GetInterface, DeviceCallback
    <3> QED BY <1>1, <3>1 DEF Refused, Outcome
  <2>2. Expected(h) = [from |-> "standard", length |-> 1, data |-> {0}]
    BY <1>4 DEF Expected
  <2>3. Content(Standard(d, 0), "standard") = 0
    BY StandardHolds
  <2> QED BY <1>1, <2>1, <2>2, <2>3 DEF Truth, Outcome, Found, Final
<1>5. CASE r.name \in {"GET_DEVICE_DESCRIPTOR", "GET_CONFIGURATION_DESCRIPTOR", "GET_STRING_DESCRIPTOR"}
  <2>1. Handle(d, r) \in {Refused(d), DeviceCallback(d, r)}
    BY <1>5 DEF Handle, ClassRequests, GetDescriptor
  <2>2. Truth(DeviceCallback(d, r).answer, DeviceCallback(d, r).device, Expected(h))
    BY <1>5, DescriptorTruth
  <2> DEFINE a == DeviceCallback(d, r).answer
  <2>3. Truth(Final(a), DeviceCallback(d, r).device, Expected(h))
    <3> HIDE DEF a
    <3> QED BY <1>1, <2>2 DEF Final, Truth, a
  <2> QED BY <1>1, <2>1, <2>3 DEF Truth
<1> QED BY <1>2, <1>3, <1>4, <1>5 DEF Reads, ClassRequests

------------------------------------------------------------------------------
(* The answer and what the host has of it, at every step.                    *)

AnswerInv == UnderWay /\ Told

(* A packet that follows those which the host has.                          *)
LEMMA PacketFollows ==
  ASSUME NEW got \in Seq(Packet), NEW p \in Packet, Chained(got), Full(got), p.off = End(got)
  PROVE  LET more == Append(got, p)
         IN  /\ more # << >> /\ Chained(more) /\ End(more) = p.off + p.len
             /\ p.len = MaxPacketSize => Full(more)
<1> DEFINE more == Append(got, p)
<1>1. /\ Len(got) \in Nat /\ Len(more) = Len(got) + 1 /\ more # << >> /\ DOMAIN more = 1 .. Len(got) + 1
      /\ \A i \in 1 .. Len(got) : more[i] = got[i]
      /\ more[Len(got) + 1] = p
  OBVIOUS
<1>2. DOMAIN got = 1 .. Len(got) /\ (got = << >> <=> Len(got) = 0)
  BY EmptySeq
<1> HIDE DEF more
<1>3. End(more) = p.off + p.len
  BY <1>1 DEF End
<1>4. more[1].off = 0
  <2>1. CASE got = << >>
    BY <1>1, <1>2, <2>1 DEF End
  <2>2. CASE got # << >>
    BY <1>1, <1>2, <2>2 DEF Chained
  <2> QED BY <2>1, <2>2
<1>5. ASSUME NEW i \in 1 .. Len(got)
      PROVE  more[i].len = MaxPacketSize /\ more[i + 1].off = more[i].off + more[i].len
  <2>1. more[i] = got[i] /\ got[i].len = MaxPacketSize
    BY <1>1, <1>2 DEF Full
  <2>2. CASE i = Len(got)
    BY <1>1, <1>2, <2>1, <2>2 DEF End
  <2>3. CASE i # Len(got)
    <3>1. i \in 1 .. Len(got) - 1 /\ i + 1 \in 1 .. Len(got)
      BY <1>1, <2>3
    <3> QED BY <1>1, <2>1, <3>1 DEF Chained
  <2> QED BY <2>2, <2>3
<1>6. Chained(more)
  BY <1>1, <1>4, <1>5 DEF Chained
<1>7. p.len = MaxPacketSize => Full(more)
  BY <1>1, <1>2 DEF Full
<1> QED BY <1>1, <1>3, <1>6, <1>7 DEF more

(* The packet that the host takes of the answer.                             *)
Offer ==
  LET d == I.bd[InOdd]
  IN  [from |-> d.from, off |-> d.off, len |-> d.len,
       data |-> IF d.from \in Stored /\ d.len # 0 THEN device.memory[d.from] ELSE 0]

LEMMA OfferTaken ==
  ASSUME IInv, Offered, host.stage = "dataIn", NEW h \in Host,
         h.stage = host.stage, h.request = host.request, h.toggle = host.toggle, h.received = host.received,
         h.address = host.address
  PROVE  LET g == Accepts(h)
         IN  \/ g = h
             \/ /\ g.got = Append(h.got, Offer) /\ h.received = I.transferDone
                /\ g.received = I.transferDone + Chunk
<1>1. Types /\ TurnInv /\ HaltInv /\ SetupInv /\ OutInv /\ InInv
  BY DEF IInv, PipeInv
<1>2. /\ Offers(I, InOdd) /\ ~InPending /\ ~DataPending /\ ~SetupPending
  BY OfferAccepted
<1>3. I \in GoodEp /\ InOdd \in Bit
  BY <1>1, Parts
<1>4. I.transferring /\ I.bdtOdd = InOdd
  BY <1>2 DEF Offers
<1>5. I.bd[InOdd].len = Chunk /\ I.bd[InOdd].data01 = I.data0 /\ Progress
  BY <1>1, <1>2, <1>4 DEF InInv
<1>6. /\ Accepts(h).got = (IF I.bd[InOdd].data01 # h.toggle THEN h.got ELSE Append(h.got, Offer))
      /\ Accepts(h).received = (IF I.bd[InOdd].data01 # h.toggle THEN h.received ELSE h.received + I.bd[InOdd].len)
      /\ I.bd[InOdd].data01 # h.toggle => Accepts(h) = h
  BY DEF Accepts, Offer, I, InOdd, Host
<1>7. I.data0 \in Bit
  BY <1>3 DEF GoodEp, Endpoint
<1>8. CASE h.toggle = I.data0
  <2>1. h.received = I.transferDone
    BY <1>5, <1>7, <1>8, Flipping DEF Progress
  <2> QED BY <1>5, <1>6, <1>8, <2>1
<1>9. CASE h.toggle # I.data0
  BY <1>5, <1>6, <1>9
<1> QED BY <1>8, <1>9

(* The host, in the data stage of an answer, takes what is offered to it.       *)
LEMMA ToldMore ==
  ASSUME IInv, AnswerInv, Offered, host.stage = "dataIn", NEW h \in Host,
         h.stage = host.stage, h.request = host.request, h.toggle = host.toggle, h.received = host.received,
         h.address = host.address, h.configuration = host.configuration, h.stored = host.stored,
         h.got = host.got, host' = Accepts(h)
  PROVE  Told' /\ Want' = Want /\ host'.request = host.request
<1>1. Types /\ TurnInv /\ HaltInv /\ SetupInv /\ OutInv /\ InInv
  BY DEF IInv, PipeInv
<1>2. /\ Offers(I, InOdd) /\ ~InPending /\ ~SetupPending /\ deviceSetup = host.request
      /\ host'.request = host.request /\ host' \in Host
      /\ host'.configuration = host.configuration /\ host'.stored = host.stored
      /\ host'.stage = IF Ends(host.request.length) THEN "statusOut" ELSE "dataIn"
  BY OfferAccepted
<1>3. Want' = Want
  <2>1. Expected(host') = Expected(host)
    BY <1>2, ExpectedSame
  <2>2. Want' = Expected(host')
    BY DEF Want
  <2> QED BY <2>1, <2>2 DEF Want
<1>4. I \in GoodEp /\ InOdd \in Bit /\ I.transferring /\ I.bdtOdd = InOdd
  BY <1>1, <1>2, Parts DEF Offers
<1>5. /\ I.bd[InOdd].len = Chunk /\ Progress /\ I.transferDone <= I.transferLength
      /\ I.transferLength <= host.request.length /\ host.request \in Requests
  BY <1>1, <1>2, <1>4 DEF InInv
<1>6. /\ I.bd[InOdd] \in Descriptor /\ I.transferDone \in Nat /\ I.transferLength \in Nat
      /\ host.request.length \in Nat /\ MaxPacketSize \in Nat
  BY <1>4, <1>5, Constants DEF GoodEp, Endpoint, Request
<1>7. Chunk \in Nat /\ Chunk <= MaxPacketSize /\ I.transferDone + Chunk <= I.transferLength
  BY <1>5, <1>6 DEF Chunk, Least
<1>8. /\ I.transferBuffer = Want.from /\ I.transferLength = Least(Want.length, host.request.length)
      /\ Content(device, Want.from) \in Want.data
      /\ I.bd[InOdd].from = I.transferBuffer /\ I.bd[InOdd].off = I.transferDone
  BY <1>2, <1>4 DEF AnswerInv, UnderWay, NextIs
<1>9. /\ Chained(host.got) /\ \A i \in DOMAIN host.got : Right(host.got[i], Want)
      /\ Full(host.got) /\ host.received = End(host.got)
  BY DEF AnswerInv, Told
<1>10. /\ Offer.off = I.transferDone /\ Offer.len = Chunk /\ Right(Offer, Want)
       /\ Offer \in Packet
  <2>1. device.memory \in [Stored -> Nat]
    BY <1>1 DEF Types, Device
  <2>2. Offer \in Packet
    BY <1>6, <2>1 DEF Offer, Packet, Descriptor
  <2> QED BY <1>5, <1>8, <2>2 DEF Offer, Right, Content
<1>11. CASE host' = h
  <2>1. host'.stage = "dataIn" /\ host'.got = host.got /\ host'.received = host.received
    BY <1>11
  <2> QED BY <1>2, <1>3, <1>9, <2>1 DEF Told
<1>12. CASE /\ host'.got = Append(h.got, Offer) /\ h.received = I.transferDone
            /\ host'.received = I.transferDone + Chunk
  <2> DEFINE more == Append(host.got, Offer)
  <2>1. host.got \in Seq(Packet)
    BY <1>1 DEF Types, Host
  <2>2. Offer.off = End(host.got)
    BY <1>9, <1>10, <1>12
  <2>3. /\ more # << >> /\ Chained(more) /\ End(more) = I.transferDone + Chunk
        /\ Chunk = MaxPacketSize => Full(more)
    BY <1>9, <1>10, <2>1, <2>2, PacketFollows
  <2>4. \A i \in DOMAIN more : Right(more[i], Want)
    <3>1. DOMAIN more = 1 .. Len(host.got) + 1 /\ DOMAIN host.got = 1 .. Len(host.got) /\ Len(host.got) \in Nat
      BY <2>1
    <3>2. (\A i \in 1 .. Len(host.got) : more[i] = host.got[i]) /\ more[Len(host.got) + 1] = Offer
      BY <1>10, <2>1
    <3> HIDE DEF more
    <3>3. \A i \in 1 .. Len(host.got) + 1 : i \in 1 .. Len(host.got) \/ i = Len(host.got) + 1
      BY <3>1
    <3> QED BY <1>9, <1>10, <3>1, <3>2, <3>3
  <2>5. host'.got = more
    BY <1>12
  <2> HIDE DEF more
  <2>6. CASE Ends(host.request.length)
    <3>1. I.transferDone + Chunk = I.transferLength
      <4>1. CASE Chunk < MaxPacketSize
        BY <1>5, <1>6, <4>1 DEF Chunk, Least
      <4>2. CASE I.transferDone + Chunk >= host.request.length
        <5> HIDE DEF Chunk
        <5> QED BY <1>5, <1>6, <1>7, <4>2
      <4> QED BY <2>6, <4>1, <4>2 DEF Ends
    <3> QED BY <1>2, <1>3, <1>8, <2>3, <2>4, <2>5, <2>6, <3>1 DEF Told
  <2>7. CASE ~Ends(host.request.length)
    <3>1. Chunk = MaxPacketSize
      BY <1>6, <1>7, <2>7 DEF Ends
    <3> QED BY <1>2, <1>3, <1>12, <2>3, <2>4, <2>5, <2>7, <3>1 DEF Told
  <2> QED BY <2>6, <2>7
<1>13. \/ host' = h
       \/ /\ host'.got = Append(h.got, Offer) /\ h.received = I.transferDone
          /\ host'.received = I.transferDone + Chunk
  BY OfferTaken
<1> QED BY <1>2, <1>3, <1>11, <1>12, <1>13

(* Outside of the data stage of an answer and what follows it there is nothing to    *)
(* say.                                                                     *)
LEMMA NothingTold ==
  ASSUME host'.stage \notin {"dataIn", "statusOut"}
  PROVE  AnswerInv'
BY DEF AnswerInv, UnderWay, Told

LEMMA ToldKept ==
  ASSUME AnswerInv, host' = host
  PROVE  Told' /\ Want' = Want
BY DEF AnswerInv, Told, Want

LEMMA AnswerTransaction ==
  ASSUME IInv, AnswerInv, InToken \/ InTokenUnacknowledged
  PROVE  AnswerInv'
<1> DEFINE h == IF InToken THEN host ELSE [host EXCEPT !.lost = host.lost + 1]
<1>1. Types /\ host \in Host
  BY DEF IInv, Types
<1>2. /\ h \in Host /\ h.stage = host.stage /\ h.request = host.request /\ h.toggle = host.toggle
      /\ h.received = host.received /\ h.address = host.address /\ h.configuration = host.configuration
      /\ h.stored = host.stored /\ h.got = host.got
  <2>1. CASE InToken
    BY <1>1, <2>1
  <2>2. CASE ~InToken
    <3> DEFINE k == [host EXCEPT !.lost = host.lost + 1]
    <3>1. host.lost + 1 \in 0 .. MaxLost
      BY <1>1, <2>2, ControlAssumption DEF InTokenUnacknowledged, Host
    <3>2. k \in Host
      BY <1>1, <3>1, HostWith
    <3>3. h = k
      BY <2>2
    <3>4. /\ k.stage = host.stage /\ k.request = host.request /\ k.toggle = host.toggle
          /\ k.received = host.received /\ k.address = host.address /\ k.configuration = host.configuration
          /\ k.stored = host.stored /\ k.got = host.got
      BY <1>1 DEF Host
    <3> HIDE DEF h, k
    <3> QED BY <3>2, <3>3, <3>4
  <2> QED BY <2>1, <2>2
<1>3. host' = Accepts(h) /\ Offered
  <2>1. CASE InToken
    BY <2>1 DEF InToken
  <2>2. CASE ~InToken
    BY <2>2 DEF InTokenUnacknowledged
  <2> QED BY <2>1, <2>2
<1> HIDE DEF h
<1>4. /\ Offers(I, InOdd) /\ ~SetupPending /\ host.stage \in {"dataIn", "statusIn"}
      /\ host.stage = "statusIn" => host' = Finished(h)
  BY <1>2, <1>3, OfferAccepted
<1>5. CASE host.stage = "statusIn"
  <2>1. host'.stage = "idle"
    BY <1>2, <1>4, <1>5, HostFinished DEF IInv, PipeInv, SetupInv
  <2> QED BY <2>1, NothingTold
<1>6. CASE host.stage = "dataIn"
  <2>1. Told' /\ Want' = Want /\ host'.request = host.request
    BY <1>2, <1>3, <1>6, ToldMore
  <2>2. I.transferring
    BY <1>4 DEF Offers
  <2>3. /\ I.transferBuffer = Want.from /\ I.transferLength = Least(Want.length, host.request.length)
        /\ Content(device, Want.from) \in Want.data /\ NextIs(I, InOdd)
    BY <1>4, <1>6, <2>2 DEF AnswerInv, UnderWay
  <2>4. device' = device
    BY DEF InToken, InTokenUnacknowledged, driverVars
  <2>5. CASE InToken
    <3>1. Consumed("IN", FALSE, I.bd[InOdd].len)
      BY <2>5 DEF InToken, I, InOdd
    <3>2. Used(I', InOdd') /\ Same(I', I) /\ ep' \in Pipe /\ odd' \in [Dir -> Bit]
      BY <1>4, <3>1, InConsumed
    <3>3. ~Offers(I', InOdd')
      <4>1. I' \in GoodEp /\ InOdd' \in Bit
        BY <3>2, PipeParts DEF I, InOdd, Dir
      <4> QED BY <3>2, <4>1, Conditions
    <3> QED BY <2>1, <2>3, <2>4, <3>2, <3>3 DEF AnswerInv, UnderWay, Same
  <2>6. CASE InTokenUnacknowledged
    <3>1. I' = I /\ InOdd' = InOdd
      BY <2>6 DEF InTokenUnacknowledged, driverVars, controllerVars, I, InOdd
    <3> QED BY <2>1, <2>3, <2>4, <3>1 DEF AnswerInv, UnderWay
  <2> QED BY <2>5, <2>6
<1> QED BY <1>4, <1>5, <1>6

(* The host gives up, is refused, or is not in an answer.                     *)
LEMMA AnswerOver ==
  ASSUME IInv, OutToken \/ StatusOut \/ StallAnswer \/ BusReset
  PROVE  AnswerInv'
<1>1. host \in Host /\ SetupInv
  BY DEF IInv, Types, PipeInv
<1>2. CASE OutToken
  <2>1. host'.stage \in {"dataOut", "statusIn"}
    BY <1>1, <1>2 DEF OutToken, Host
  <2> QED BY <2>1, NothingTold
<1>3. CASE StatusOut
  <2>1. host'.stage = "idle"
    BY <1>1, <1>3, HostFinished DEF StatusOut, SetupInv
  <2> QED BY <2>1, NothingTold
<1>4. CASE StallAnswer
  <2>1. host'.stage = "idle"
    BY <1>1, <1>4, HostIdle DEF StallAnswer
  <2> QED BY <2>1, NothingTold
<1>5. CASE BusReset
  <2>1. host'.stage = "idle"
    BY <1>5, ResetFresh DEF Fresh
  <2> QED BY <2>1, NothingTold
<1> QED BY <1>2, <1>3, <1>4, <1>5

LEMMA AnswerAsked ==
  ASSUME IInv, Setup
  PROVE  AnswerInv'
<1>1. host \in Host
  BY DEF IInv, Types
<1>2. PICK r \in Requests :
        /\ Consumed("OUT", TRUE, SETUP_PACKET_SIZE)
        /\ host'.stage = Stage(r) /\ host'.got = << >> /\ host'.received = 0
  BY <1>1 DEF Setup, Stage, Host
<1>3. SetupPending'
  <2>1. SETUP_PACKET_SIZE \in Nat /\ SETUP_PACKET_SIZE <= MaxPacketSize
    BY Constants DEF SETUP_PACKET_SIZE
  <2>2. Offers(O, OutOdd)
    BY OutAnswers DEF Setup
  <2>3. tokens' = IF InPending THEN <<SentTok', SetupTok'>> ELSE <<SetupTok'>>
    BY <1>2, <2>1, <2>2, OutConsumed DEF SetupTok
  <2> QED BY <2>3 DEF SetupPending
<1>4. host'.stage # "statusOut"
  BY <1>2 DEF Stage
<1>5. Chained(<< >>) /\ Full(<< >>) /\ End(<< >>) = 0
  BY DEF Chained, Full, End
<1>6. \A i \in DOMAIN host'.got : Right(host'.got[i], Want')
  BY <1>2
<1> QED BY <1>2, <1>3, <1>4, <1>5, <1>6 DEF AnswerInv, UnderWay, Told

(* Once a STALL is sent, the answer is given up.                             *)
LEMMA AnswerStalled ==
  ASSUME IInv, AnswerInv, InterruptStall
  PROVE  AnswerInv'
<1>1. Types /\ HaltInv
  BY DEF IInv, PipeInv
<1>2. stallInterrupt /\ host' = host /\ ep' = IF Stalled(ep) THEN UnstallEndpoint(ep) ELSE ep
  BY DEF InterruptStall
<1>3. I \in GoodEp /\ ~I.transferring
  BY <1>1, <1>2, Parts DEF HaltInv, Halted
<1>4. ~I'.transferring
  <2>1. UnstallEndpoint(ep)["IN"] = EndpointUnstall(I)
    BY DEF UnstallEndpoint, PrimeNextSetup, Dir, I
  <2>2. ~EndpointUnstall(I).transferring
    BY <1>3 DEF EndpointUnstall, Cancel, GoodEp, Endpoint
  <2> QED BY <1>2, <1>3, <2>1, <2>2 DEF I
<1> QED BY <1>2, <1>4, ToldKept DEF AnswerInv, UnderWay

(* A packet has been sent: the next is primed, or the answer is over.          *)
LEMMA AnswerGoesOn ==
  ASSUME IInv, AnswerInv, TokenDone, InPending
  PROVE  AnswerInv'
<1>1. Types /\ TurnInv
  BY DEF IInv, PipeInv
<1>2. I \in GoodEp /\ InOdd \in Bit /\ I.transferring /\ device \in Device /\ ep \in Pipe
  BY <1>1, Parts DEF TurnInv, Used, Types
<1>3. /\ odd' = odd /\ host' = host /\ Head(tokens) = SentTok /\ InDone
      /\ tokens' = IF SetupPending THEN <<SetupTok>> ELSE << >>
  BY Oldest, Queues DEF QueueShapes
<1>4. InOdd' = InOdd /\ (SetupPending => SetupPending')
  BY <1>3 DEF InOdd, SetupPending, SetupTok, Tok
<1> DEFINE i == TokenCounted(I, Chunk)
           e == [ep EXCEPT !["IN"] = i]
<1>5. /\ I.bd[Flip(InOdd)].len = Chunk /\ Chunk \in Nat
      /\ i \in GoodEp /\ i.transferring /\ i.bdtOdd = InOdd
      /\ i.transferBuffer = I.transferBuffer /\ i.transferLength = I.transferLength
      /\ i.transferDone \in Nat /\ Remaining(i) = i.transferLength - i.transferDone
      /\ i.transferDone <= i.transferLength /\ i.transferLength \in Nat /\ i.transferBuffer \in Buffers
      /\ Free(i)
  BY InCounted DEF GoodEp, Endpoint
<1>6. e = Counted(ep, "IN", Chunk)
  BY DEF Counted, I
<1>7. ep["IN"].bd[Head(tokens).odd].len = Chunk
  BY <1>3, <1>5 DEF SentTok, Tok, InOdd, I
<1> HIDE DEF i
<1>8. e \in Pipe /\ e["IN"] = i
  BY <1>2, <1>5, PipeWith
<1> HIDE DEF e
<1>9. \/ /\ ~TransferComplete(i, Chunk)
         /\ ep' = Send(e, i.transferBuffer, Remaining(i)) /\ device' = device
      \/ ep' = [e EXCEPT !["IN"] = EndpointTransfer(i, i.transferDone, 0)] /\ device' = device
      \/ /\ ep' = [e EXCEPT !["IN"] = Cancel(i)]
  <2> DEFINE Outcomes(f, len) ==
      IF ~TransferComplete(f["IN"], len)
        THEN ep' = Send(f, f["IN"].transferBuffer, Remaining(f["IN"])) /\ UNCHANGED device
      ELSE IF EndsShort(f["IN"], len)
        THEN ep' = [f EXCEPT !["IN"] = EndpointTransfer(@, f["IN"].transferDone, 0)] /\ UNCHANGED device
      ELSE /\ ep' = [f EXCEPT !["IN"] = Cancel(@)]
           /\ device' = IF device.state = "Addressing" /\ deviceSetup.name = "SET_ADDRESS"
                          THEN SetAddress(device, deviceSetup).device ELSE device
  <2>1. Outcomes(Counted(ep, "IN", ep["IN"].bd[Head(tokens).odd].len), ep["IN"].bd[Head(tokens).odd].len)
    BY <1>3 DEF InDone
  <2>2. Outcomes(e, Chunk)
    <3> HIDE DEF Outcomes
    <3> QED BY <1>6, <1>7, <2>1
  <2> QED BY <1>8, <2>2
<1>10. \/ ~I'.transferring
       \/ device' = device /\ Same(I', i) /\ NextIs(I', InOdd)
  <2>1. CASE /\ ~TransferComplete(i, Chunk)
             /\ ep' = Send(e, i.transferBuffer, Remaining(i)) /\ device' = device
    <3> DEFINE n == Remaining(i)
    <3>1. n \in Nat \ {0}
      BY <1>5, <2>1 DEF TransferComplete
    <3>2. ep' = Send(e, i.transferBuffer, n)
      BY <2>1
    <3> HIDE DEF n
    <3>3. I' = Transfer(i, i.transferBuffer, n)
      BY <1>5, <1>8, <3>1, <3>2, SendIs DEF I
    <3>4. Same(I', i)
      BY <1>5, <3>1, <3>3, TransferContinues
    <3>5. LET f == Transfer(i, i.transferBuffer, n)
          IN  f.bd[InOdd].from = i.transferBuffer /\ f.bd[InOdd].off = i.transferDone
      BY <1>5, <3>1, TransferAt
    <3> QED BY <2>1, <3>3, <3>4, <3>5 DEF NextIs, Same
  <2>2. CASE ep' = [e EXCEPT !["IN"] = EndpointTransfer(i, i.transferDone, 0)] /\ device' = device
    <3> DEFINE t == EndpointTransfer(i, i.transferDone, 0)
    <3>1. I' = t
      BY <1>8, <2>2 DEF I, Pipe, Dir
    <3>2. t.bd[InOdd].from = i.transferBuffer /\ t.bd[InOdd].off = i.transferDone
      BY <1>5, EndpointTransferAt
    <3>3. Same(t, i)
      BY <1>5 DEF EndpointTransfer, Same, GoodEp, Endpoint
    <3> HIDE DEF t
    <3> QED BY <2>2, <3>1, <3>2, <3>3 DEF NextIs, Same
  <2>3. CASE ep' = [e EXCEPT !["IN"] = Cancel(i)]
    <3>1. I' = Cancel(i)
      BY <1>8, <2>3 DEF I, Pipe, Dir
    <3> QED BY <1>5, <3>1, CancelDoes
  <2> QED BY <1>9, <2>1, <2>2, <2>3
<1>11. Told' /\ Want' = Want
  BY <1>3, ToldKept
<1>12. CASE ~I'.transferring \/ SetupPending'
  BY <1>11, <1>12 DEF AnswerInv, UnderWay
<1>13. CASE device' = device /\ Same(I', i) /\ NextIs(I', InOdd) /\ ~SetupPending'
  <2>1. ~SetupPending
    BY <1>4, <1>13
  <2> QED BY <1>2, <1>3, <1>4, <1>5, <1>11, <1>13, <2>1 DEF AnswerInv, UnderWay, Same
<1> QED BY <1>10, <1>12, <1>13

(* The data of a request is not an answer.                                  *)
LEMMA AnswerOutDone ==
  ASSUME IInv, TokenDone, DataPending
  PROVE  AnswerInv'
<1>1. host' = host
  BY Oldest
<1>2. host.stage \in {"dataOut", "statusIn"}
  BY DEF IInv, PipeInv, OutInv
<1> QED BY <1>1, <1>2, NothingTold

(* The request is handled, and the answer begins.                           *)
LEMMA AnswerBegins ==
  ASSUME IInv, AgreeInv, AnswerInv, TokenDone, ~InPending, SetupPending
  PROVE  AnswerInv'
<1> DEFINE r == host.request
           a == Handle(device, r).answer
           e == SetupCounted(ep)
<1>1. Types /\ TurnInv /\ HaltInv /\ InInv /\ SetupInv
  BY DEF IInv, PipeInv
<1>2. I \in GoodEp /\ O \in GoodEp /\ InOdd \in Bit /\ OutOdd \in Bit /\ ep \in Pipe /\ device \in Device
  BY <1>1, Parts DEF Types
<1>3. /\ odd' = odd /\ host' = host /\ Head(tokens) = SetupTok /\ SetupDone
  BY Oldest, Queues DEF QueueShapes
<1>4. /\ r \in Requests /\ host.stage = Stage(r) /\ device' = Handle(device, r).device /\ Agrees(r, a)
      /\ \/ Refuses(ep', InOdd, OutOdd)
         \/ ~Receives(r) /\ Final(a).error # "InvalidRequest"
         \/ Collects(ep', InOdd, OutOdd, r)
  BY SetupDoneDoes
<1>5. ep' = SetupStage(e, r, a)
  <2>1. setupPacketBuffer[Head(tokens).odd] = r
    BY <1>1, <1>3 DEF SetupInv, SetupTok, Tok, OutOdd
  <2> QED BY <1>3, <2>1 DEF SetupDone
<1>6. e \in Pipe /\ Empty(e["IN"], InOdd) /\ Empty(e["OUT"], OutOdd)
  <2>1. Used(O, OutOdd) /\ ~Halted(I, InOdd)
    BY <1>1, <1>2, Conditions DEF TurnInv, HaltInv
  <2>2. Empty(I, InOdd)
    <3>1. ~I.transferring
      BY <1>1 DEF InInv
    <3> QED BY <1>1, <2>1, <3>1 DEF TurnInv, Offers
  <2>3. LET f == SetupCounted(ep)
        IN  f \in Pipe /\ Empty(f["IN"], InOdd) /\ Empty(f["OUT"], OutOdd)
    BY <1>2, <2>1, <2>2, SetupCountedDoes DEF I, O
  <2> QED BY <2>3
<1>7. Told' /\ Want' = Want
  BY <1>3, ToldKept
<1>8. CASE ~I'.transferring \/ host.stage # "dataIn"
  BY <1>3, <1>7, <1>8 DEF AnswerInv, UnderWay
<1>9. CASE I'.transferring /\ host.stage = "dataIn"
  <2>1. r.name \in Reads /\ r.length # 0 /\ r \in Request /\ ~Receives(r)
    BY <1>4, <1>9, Constants DEF Stage, Receives, Reads, Writes
  <2>2. ~Refuses(ep', InOdd, OutOdd) /\ ~Collects(ep', InOdd, OutOdd, r)
    BY <1>9 DEF Refuses, Collects, Halted, Empty, I
  <2>3. Final(a).error # "InvalidRequest"
    BY <1>4, <2>2
  <2>4. device.currentConfiguration = host.configuration /\ \A b \in Settings : device.memory[b] \in host.stored[b]
    BY DEF AgreeInv, ConfigurationInv, MemoryInv, Done
  <2>5. Truth(Final(a), device', Want)
    BY <1>2, <1>4, <2>1, <2>4, ReadTruth DEF Want
  <2>6. /\ Final(a).error = "Success" /\ Final(a).buffer = Want.from /\ Final(a).length = Want.length
        /\ Content(device', Want.from) \in Want.data
    BY <2>3, <2>5 DEF Truth
  <2>7. Final(a) \in Answer
    BY <1>4, InvalidAnswers DEF Agrees, Final
  <2>8. ep' = Feedback(e, r, Final(a))
    BY <1>5, <2>1 DEF SetupStage, Final
  <2> HIDE DEF a, e
  <2>9. LET f == Feedback(e, r, Final(a))["IN"]
        IN  /\ f.transferBuffer = Final(a).buffer /\ f.transferLength = Least(Final(a).length, r.length)
            /\ f.transferDone = 0 /\ NextIs(f, InOdd)
    BY <1>2, <1>6, <2>1, <2>6, <2>7, FeedbackSends
  <2>10. /\ I'.transferBuffer = Want.from /\ I'.transferLength = Least(Want.length, r.length)
         /\ NextIs(I', InOdd)
    BY <2>6, <2>8, <2>9 DEF I
  <2>11. InOdd' = InOdd
    BY <1>3 DEF InOdd
  <2> QED BY <1>3, <1>7, <2>6, <2>10, <2>11 DEF AnswerInv, UnderWay
<1> QED BY <1>8, <1>9

LEMMA AnswerInitially ==
  ASSUME Init
  PROVE  AnswerInv
<1>1. host.stage = "idle"
  BY InitFresh DEF Fresh
<1> QED BY <1>1 DEF AnswerInv, UnderWay, Told

LEMMA AnswerNext ==
  ASSUME IInv, AgreeInv, AnswerInv, [Next]_vars
  PROVE  AnswerInv'
<1>1. CASE TokenDone
  BY <1>1, Oldest, AnswerGoesOn, AnswerOutDone, AnswerBegins
<1>2. CASE InterruptStall
  BY <1>2, AnswerStalled
<1>3. CASE InToken \/ InTokenUnacknowledged
  BY <1>3, AnswerTransaction
<1>4. CASE OutToken \/ StatusOut \/ StallAnswer \/ BusReset
  BY <1>4, AnswerOver
<1>5. CASE Setup
  BY <1>5, AnswerAsked
<1>6. CASE UNCHANGED vars
  BY <1>6 DEF vars, driverVars, controllerVars, AnswerInv, UnderWay, Told, Want, SetupPending, SentTok, SetupTok,
              Tok, I, InOdd
<1> QED BY <1>1, <1>2, <1>3, <1>4, <1>5, <1>6 DEF Next, Interrupts, Transaction

(* AnswerIsRight: what the host has read, once it has it all, is the buffer that it  *)
(* asked for, from its first byte up to what there is or was asked for, with the     *)
(* contents that it believes in; through lost handshakes, and with the empty packet  *)
(* that ends an answer of full ones.                                        *)
THEOREM AnswersAreRight ==
  ASSUME Chooses
  PROVE  Spec => []AnswerIsRight
<1>1. Init => AgreeInv /\ AnswerInv
  BY AgreeInitially, AnswerInitially
<1>2. IInv /\ AgreeInv /\ AnswerInv /\ [Next]_vars => AgreeInv' /\ AnswerInv'
  BY AgreeNext, AnswerNext
<1>3. AnswerInv => AnswerIsRight
  <2> SUFFICES ASSUME AnswerInv, host.stage = "statusOut"
               PROVE  AnswerIsRight
    BY DEF AnswerIsRight
  <2>1. /\ Chained(host.got) /\ \A i \in DOMAIN host.got : Right(host.got[i], Want)
        /\ host.got # << >> /\ End(host.got) = Least(Want.length, host.request.length)
    BY DEF AnswerInv, Told
  <2> QED BY <2>1 DEF AnswerIsRight, Chained, Right, End, Want
<1> QED BY <1>1, <1>2, <1>3, Inductive, PTL DEF Spec
=============================================================================
