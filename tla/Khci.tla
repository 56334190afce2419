-------------------------------- MODULE Khci --------------------------------
(***************************************************************************)
(* One direction of one endpoint in src/vendor/usb/device/usb_device_khci.c: *)
(* the driver's endpointState and the endpoint's two buffer descriptors,      *)
(* which the driver and the controller each walk with an ODD bit of their     *)
(* own. Operators only: BulkIn and ControlPipe give them a host.             *)
(***************************************************************************)
EXTENDS Integers, Sequences

CONSTANTS
  WORD,      \* 2^32: a length is a uint32_t
  Buffer,    \* where a transfer's bytes are
  NULL

ASSUME WordAssumption == WORD \in Nat \ {0} /\ NULL \in Buffer

Least(m, n) == IF m < n THEN m ELSE n

Bit == 0 .. 1
Flip(bit) == 1 - bit

(* A descriptor: the controller's while own is set. data01 is the toggle it    *)
(* sends or expects, [from, off, len] the bytes.                             *)
Descriptor == [own : BOOLEAN, stall : BOOLEAN, data01 : Bit, from : Buffer, off : Nat, len : Nat]

NoDescriptor == [own |-> FALSE, stall |-> FALSE, data01 |-> 0, from |-> NULL, off |-> 0, len |-> 0]

Endpoint ==
  [transferring : BOOLEAN, maxPacketSize : Nat, data0 : Bit, bdtOdd : Bit,
   transferBuffer : Buffer, transferLength : Nat, transferDone : Nat,
   bd : [Bit -> Descriptor]]

NewEndpoint ==
  [transferring |-> FALSE, maxPacketSize |-> 0, data0 |-> 0, bdtOdd |-> 0,
   transferBuffer |-> NULL, transferLength |-> 0, transferDone |-> 0,
   bd |-> [i \in Bit |-> NoDescriptor]]

(* USB_DeviceKhciSetDefaultState; the controller's own ODD bits are cleared    *)
(* with it.                                                                  *)
SetDefaultState(e) ==
  [e EXCEPT !.transferring = FALSE, !.maxPacketSize = 0, !.data0 = 0, !.bdtOdd = 0,
            !.bd = [i \in Bit |-> NoDescriptor]]

EndpointTransfer(e, off, len) ==
  [e EXCEPT !.transferring = TRUE,
            !.bd[e.bdtOdd] = [own |-> TRUE, stall |-> FALSE, data01 |-> e.data0,
                              from |-> e.transferBuffer, off |-> off, len |-> len]]

(* What Send and Recv note down, unless a transfer is under way.            *)
SaveTransfer(e, buffer, length) ==
  IF e.transferring THEN e
  ELSE [e EXCEPT !.transferDone = 0, !.transferBuffer = buffer, !.transferLength = length]

(* Mutant of Transfer: a packet may be longer than the endpoint's.          *)
TransferWhole(e, buffer, length) ==
  LET f == SaveTransfer(e, buffer, length)
  IN  EndpointTransfer(f, f.transferDone, length)

(* Send, and Recv with a length: the next packet of the transfer.           *)
Transfer(e, buffer, length) ==
  LET f == SaveTransfer(e, buffer, length)
  IN  EndpointTransfer(f, f.transferDone, Least(length, f.maxPacketSize))

(* The descriptor it had primed stays with the controller.                  *)
Cancel(e) == [e EXCEPT !.transferring = FALSE]

(* The descriptors and bdtOdd are those the endpoint was left with.         *)
EndpointInit(e, maxPacketSize) ==
  [e EXCEPT !.transferring = FALSE, !.maxPacketSize = maxPacketSize, !.data0 = 0]

EndpointDeinit(e) == [Cancel(e) EXCEPT !.maxPacketSize = 0]

EndpointStall(e) ==
  [Cancel(e) EXCEPT !.bd[e.bdtOdd] = [NoDescriptor EXCEPT !.own = TRUE, !.stall = TRUE]]

(* Mutant of EndpointUnstall: only the descriptor in turn is taken back, as   *)
(* EndpointStall has written only that one.                                  *)
EndpointUnstallTogglesOnly(e) == [Cancel(e) EXCEPT !.bd[e.bdtOdd] = NoDescriptor]

EndpointUnstall(e) ==
  [Cancel(e) EXCEPT !.data0 = 0, !.bd = [i \in Bit |-> NoDescriptor]]

(* The controller holds a packet to send, or the room for one.              *)
Primed(e) == \E i \in Bit : e.bd[i].own /\ ~e.bd[i].stall
------------------------------------------------------------------------------
(* USB_DeviceKhciInterruptTokenDone for a packet of len bytes.              *)

(* Mutant of TokenCounted: the ODD bit is only turned for full packets.     *)
TokenCountedFull(e, len) ==
  [e EXCEPT !.transferDone = (@ + len) % WORD, !.data0 = Flip(@),
            !.bdtOdd = IF len = e.maxPacketSize THEN Flip(@) ELSE @]

TokenCounted(e, len) ==
  [e EXCEPT !.transferDone = (@ + len) % WORD, !.data0 = Flip(@), !.bdtOdd = Flip(@)]

Remaining(e) == (e.transferLength - e.transferDone) % WORD

TransferComplete(e, len) == Remaining(e) = 0 \/ len < e.maxPacketSize

Continued(e) == Transfer(e, e.transferBuffer, Remaining(e))
==============================================================================
