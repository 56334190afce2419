------------------------------- MODULE BulkIn -------------------------------
(***************************************************************************)
(* A bulk IN endpoint from USB_DeviceTransfer in the main loop down to the    *)
(* packets the host takes: the driver's endpoint (Khci), the controller that  *)
(* walks its descriptors, the tokens it has done and the interrupt has not    *)
(* yet seen, and a host that polls, loses handshakes, resets, configures and  *)
(* halts at any moment.                                                      *)
(***************************************************************************)
EXTENDS Khci, SequencesExt

CONSTANTS
  PacketSize,        \* 64
  Lengths,           \* of the transfers; 0 is an empty packet
  MaxTransfers,      \* bound: transfers
  MaxEvents,         \* bound: resets, configurations, halts
  MaxLost            \* bound: handshakes of the host that do not arrive

ASSUME BulkAssumption ==
  /\ PacketSize \in Nat \ {0}
  /\ Lengths \subseteq 0 .. WORD - 1
  /\ 1 .. MaxTransfers \subseteq Buffer
  /\ MaxTransfers \in Nat /\ MaxEvents \in Nat /\ MaxLost \in Nat

VARIABLES
  ep,            \* endpointState and the descriptors
  odd,           \* the controller: the descriptor it uses next
  ENDPT,         \* the controller: the endpoint is enabled, as long as the
                 \* class's configuration is 1
  tokens,        \* done, and waiting for the interrupt: their STAT's ODD bits
  isBusy,        \* the device layer's flag
  pipeStall,     \* the class's, which backs up what is sent meanwhile
  pc,            \* main: "idle", or "send" within USB_DeviceKhciSend
  length,        \* of each transfer asked for; their number is their buffer
  toggle,        \* the host: the DATA0/1 it expects
  got, completed, \* history since the last reset: the packets the host accepted,
                 \* the transfers reported sent,
  forgotten,     \* whether the driver gave up a transfer whose descriptor the
                 \* controller holds, or primed one that nobody waits for, and
  unsynced,      \* whether a repeated configuration reset the host's toggle only
  events, lost   \* budgets spent

controllerVars == <<odd, ENDPT, tokens>>
hostVars    == <<toggle, got>>
historyVars == <<forgotten, unsynced>>
budgetVars  == <<events, lost>>
vars == <<ep, controllerVars, isBusy, pipeStall, pc, length, hostVars, completed, historyVars, budgetVars>>

STAT_FIFO == 4    \* tokens that the controller can hold for the interrupt

Packet == [from : Buffer, off : Nat, len : Nat]

TypeOK ==
  /\ ep \in Endpoint /\ \A i \in Bit : ep.bd[i].len <= PacketSize
  /\ odd \in Bit /\ ENDPT \in BOOLEAN
  /\ tokens \in Seq(Bit) /\ Len(tokens) <= STAT_FIFO
  /\ isBusy \in BOOLEAN /\ pipeStall \in BOOLEAN /\ pc \in {"idle", "send"}
  /\ length \in Seq(Lengths) /\ Len(length) <= MaxTransfers
  /\ toggle \in Bit /\ got \in Seq(Packet)
  /\ completed \subseteq 1 .. Len(length)
  /\ forgotten \in BOOLEAN /\ unsynced \in BOOLEAN
  /\ events \in 0 .. MaxEvents /\ lost \in 0 .. MaxLost

Init ==
  /\ ep = NewEndpoint
  /\ odd = 0 /\ ENDPT = FALSE /\ tokens = << >>
  /\ isBusy = FALSE /\ pipeStall = FALSE /\ pc = "idle" /\ length = << >>
  /\ toggle = 0 /\ got = << >>
  /\ completed = {} /\ forgotten = FALSE /\ unsynced = FALSE
  /\ events = 0 /\ lost = 0
------------------------------------------------------------------------------
(* The main loop. An interrupt may come between the two steps.              *)

(* USB_DeviceTransfer up to what USB_DeviceKhciSend notes down.             *)
Claim(n) ==
  /\ pc = "idle" /\ ~isBusy /\ ENDPT /\ ~pipeStall /\ Len(length) < MaxTransfers
  /\ pc' = "send" /\ isBusy' = TRUE
  /\ length' = Append(length, n)
  /\ ep' = SaveTransfer(ep, Len(length'), n)
  /\ UNCHANGED <<controllerVars, pipeStall, hostVars, completed, historyVars, budgetVars>>

(* The packet size may have been read before or after the endpoint was closed. *)
Prime ==
  /\ pc = "send" /\ pc' = "idle"
  /\ \E max \in {PacketSize, ep.maxPacketSize} :
       ep' = EndpointTransfer(ep, ep.transferDone, Least(Last(length), max))
  /\ forgotten' = (forgotten \/ ~isBusy)
  /\ UNCHANGED <<controllerVars, isBusy, pipeStall, length, hostVars, completed, unsynced, budgetVars>>
------------------------------------------------------------------------------
(* An IN token finds the endpoint enabled and a descriptor with a packet. The  *)
(* host accepts the packet if its toggle is the expected one; it acknowledges  *)
(* it in either case, and takes it for a repetition otherwise.               *)

Offered == ENDPT /\ Len(tokens) < STAT_FIFO /\ ep.bd[odd].own /\ ~ep.bd[odd].stall

HostAccepts ==
  LET d == ep.bd[odd]
  IN  IF d.data01 = toggle
        THEN /\ got' = Append(got, [from |-> d.from, off |-> d.off, len |-> d.len])
             /\ toggle' = Flip(toggle)
        ELSE UNCHANGED <<got, toggle>>

InToken ==
  /\ Offered /\ HostAccepts
  /\ tokens' = Append(tokens, odd)
  /\ ep' = [ep EXCEPT !.bd[odd].own = FALSE]
  /\ odd' = Flip(odd)
  /\ UNCHANGED <<ENDPT, isBusy, pipeStall, pc, length, completed, historyVars, budgetVars>>

(* The handshake is lost: the controller keeps the packet for the next token. *)
InTokenUnacknowledged ==
  /\ Offered /\ lost < MaxLost
  /\ lost' = lost + 1
  /\ HostAccepts
  /\ UNCHANGED <<ep, controllerVars, isBusy, pipeStall, pc, length, completed, historyVars, events>>

(* USB_DeviceKhciInterruptTokenDone. A token of a transfer that was given up   *)
(* is ignored, its descriptor's turn included.                               *)
TokenDone ==
  /\ tokens # << >>
  /\ tokens' = Tail(tokens)
  /\ LET len == ep.bd[Head(tokens)].len
         e   == TokenCounted(ep, len)
     IN  IF ~ep.transferring
           THEN UNCHANGED <<ep, isBusy, completed>>
         ELSE IF TransferComplete(e, len)
           THEN /\ ep' = Cancel(e)
                /\ isBusy' = FALSE
                /\ completed' = completed \cup {ep.transferBuffer}
           ELSE ep' = Continued(e) /\ UNCHANGED <<isBusy, completed>>
  /\ UNCHANGED <<odd, ENDPT, pipeStall, pc, length, hostVars, historyVars, budgetVars>>
------------------------------------------------------------------------------
(* What the host does to the endpoint. A request is handled after the tokens   *)
(* that came before it, and the controller answers no other until then.      *)

Event == events < MaxEvents /\ events' = events + 1

(* Mutant of BusReset: the driver's bdtOdd survives.                        *)
BusResetKeepsOdd ==
  /\ Event
  /\ ep' = [SetDefaultState(ep) EXCEPT !.bdtOdd = ep.bdtOdd]
  /\ odd' = 0 /\ ENDPT' = FALSE /\ tokens' = << >>
  /\ isBusy' = FALSE
  /\ forgotten' = FALSE /\ unsynced' = FALSE /\ got' = << >> /\ completed' = {}
  /\ UNCHANGED <<pipeStall, pc, length, toggle, lost>>

BusReset ==
  /\ Event
  /\ ep' = SetDefaultState(ep)
  /\ odd' = 0 /\ ENDPT' = FALSE /\ tokens' = << >>
  /\ isBusy' = FALSE
  /\ forgotten' = FALSE /\ unsynced' = FALSE /\ got' = << >> /\ completed' = {}
  /\ UNCHANGED <<pipeStall, pc, length, toggle, lost>>

(* SET_CONFIGURATION(0): EndpointsDeinit.                                   *)
Unconfigure ==
  /\ ENDPT /\ tokens = << >> /\ Event
  /\ ep' = EndpointDeinit(ep)
  /\ ENDPT' = FALSE /\ isBusy' = FALSE
  /\ forgotten' = (forgotten \/ Primed(ep))
  /\ UNCHANGED <<odd, tokens, pipeStall, pc, length, hostVars, completed, unsynced, lost>>

(* SET_CONFIGURATION(1): EndpointsInit.                                     *)
Configure ==
  /\ ~ENDPT /\ tokens = << >> /\ Event
  /\ ep' = EndpointInit(ep, PacketSize)
  /\ ENDPT' = TRUE /\ isBusy' = FALSE /\ pipeStall' = FALSE
  /\ toggle' = 0
  /\ forgotten' = (forgotten \/ Primed(ep))
  /\ UNCHANGED <<odd, tokens, pc, length, got, completed, unsynced, lost>>

(* SET_CONFIGURATION(1) once more, or SET_INTERFACE: the class finds nothing to  *)
(* change, while the host starts again with DATA0.                          *)
Reconfigure ==
  /\ ENDPT /\ tokens = << >> /\ Event
  /\ toggle' = 0
  /\ unsynced' = (unsynced \/ toggle # 0)
  /\ UNCHANGED <<ep, controllerVars, isBusy, pipeStall, pc, length, got, completed,
                 forgotten, lost>>

SetHalt ==
  /\ ENDPT /\ tokens = << >> /\ Event
  /\ pipeStall' = TRUE
  /\ ep' = EndpointStall(ep)
  /\ isBusy' = IF ep.transferring THEN FALSE ELSE isBusy
  /\ UNCHANGED <<controllerVars, pc, length, hostVars, completed, historyVars, lost>>

ClearHalt ==
  /\ ENDPT /\ tokens = << >> /\ Event
  /\ pipeStall' = FALSE
  /\ ep' = EndpointUnstall(ep)
  /\ isBusy' = IF ep.transferring THEN FALSE ELSE isBusy
  /\ toggle' = 0
  /\ UNCHANGED <<controllerVars, pc, length, got, completed, historyVars, lost>>
------------------------------------------------------------------------------
Main == (\E n \in Lengths : Claim(n)) \/ Prime
Host == BusReset \/ Unconfigure \/ Configure \/ Reconfigure \/ SetHalt \/ ClearHalt
Next == Main \/ InToken \/ InTokenUnacknowledged \/ TokenDone \/ Host

(* Main leaves the driver, the host polls, the interrupt comes.             *)
Fairness == WF_vars(Prime) /\ WF_vars(InToken) /\ WF_vars(TokenDone)

Spec == Init /\ [][Next]_vars /\ Fairness
------------------------------------------------------------------------------
(* Properties.                                                              *)

(* The driver and the controller agree which descriptor is next, or the          *)
(* interrupt that will make them agree is pending: if not, the controller looks  *)
(* at an empty descriptor for ever. Only a forgotten descriptor breaks this, and *)
(* a bus reset mends it.                                                     *)
InStep ==
  ~forgotten => ep.bdtOdd = (odd + Len(tokens)) % 2

(* The packets of transfer k that the host has are those from first to last:   *)
(* none but the last short, each beginning where the one before it ends.     *)
Consecutive(k, first, last) ==
  /\ \A i \in DOMAIN got : got[i].from = k <=> i \in first .. last
  /\ got[first].off = 0
  /\ \A i \in first .. last : got[i].len = Least(length[k] - got[i].off, PacketSize)
  /\ \A i \in first + 1 .. last :
       got[i].off = got[i - 1].off + got[i - 1].len /\ got[i].off < length[k]

Received(k) ==
  \E first, last \in DOMAIN got :
    first <= last /\ Consecutive(k, first, last) /\ got[last].off + got[last].len = length[k]

(* A transfer that is reported sent has reached the host: all of it, each      *)
(* packet once, in order, although handshakes are lost and the pipe is halted, *)
(* reset and configured between packets. The first packet after a repeated      *)
(* configuration may be taken for a repetition.                              *)
SentMeansReceived ==
  ~forgotten /\ ~unsynced => \A k \in completed : Received(k)

(* A transfer does not keep the pipe busy for ever, so that the next can start,*)
(* unless the host has halted the pipe, taken it away, or the driver forgotten *)
(* a descriptor.                                                             *)
PipeDrains ==
  isBusy ~> ~isBusy \/ forgotten \/ ep.bd[ep.bdtOdd].stall

(* "Cancel the pending transfer": no packet of a transfer that was cancelled     *)
(* goes out after the endpoint has been closed and opened again.             *)
CancelledStaysCancelled ==
  [][InToken => ep.transferring \/ tokens # << >>]_vars
==============================================================================
