------------------------------- MODULE CdcPipe -------------------------------
(***************************************************************************)
(* One USB endpoint as the device stack keeps it, in three layers that each *)
(* hold a busy flag of their own:                                           *)
(*   - the CDC class's usb_device_cdc_acm_pipe_t (isBusy, pipeStall and the  *)
(*     transfer that is backed up while the pipe is stalled),               *)
(*   - the device layer's epCallback entry (epBusy; open: callbackFn set),   *)
(*   - the KHCI controller's endpoint state (transferring, transferLength,   *)
(*     transferDone), and what became of its buffer descriptors: forgotten,  *)
(*     that the controller still owns the descriptor of a transfer which the *)
(*     driver gave up, and behind, that the driver's bdtOdd has missed a turn *)
(*     of the controller's, which then looks where the driver never primes.  *)
(* The operators below are the calls that move a pipe from one value to the  *)
(* next. All of them run to completion inside one interrupt; the calls the   *)
(* main loop makes are cut into steps by VcomBridge.                        *)
(***************************************************************************)
EXTENDS Naturals

CONSTANT MaxPacketSize      \* of the bulk endpoints; 64 in the descriptors

ASSUME MaxPacketSizeAssumption == MaxPacketSize \in Nat \ {0}

Pipe == [isBusy : BOOLEAN, pipeStall : BOOLEAN, queued : BOOLEAN,
         pipeDataLen : Nat, epBusy : BOOLEAN, open : BOOLEAN,
         transferring : BOOLEAN, transferLength : Nat, transferDone : Nat,
         forgotten : BOOLEAN, behind : BOOLEAN]

OpenedPipe == [isBusy |-> FALSE, pipeStall |-> FALSE, queued |-> FALSE,
               pipeDataLen |-> 0, epBusy |-> FALSE, open |-> TRUE,
               transferring |-> FALSE, transferLength |-> 0, transferDone |-> 0,
               forgotten |-> FALSE, behind |-> FALSE]

ClosedPipe == [OpenedPipe EXCEPT !.open = FALSE]

(* USB_DeviceCdcAcmEndpointsInit + USB_DeviceInitEndpoint +                  *)
(* USB_DeviceKhciEndpointInit: every layer starts idle, but nobody touches    *)
(* the descriptors.                                                          *)
Opened(p) ==
  [OpenedPipe EXCEPT !.forgotten = p.forgotten \/ p.transferring, !.behind = p.behind]
------------------------------------------------------------------------------
(* USB_DeviceKhciSend / Recv: the transfer is recorded only if the endpoint  *)
(* is not transferring already; the descriptor in turn is written either     *)
(* way, over one that was forgotten.                                        *)
Prime(p, n) ==
  IF p.transferring
    THEN p
    ELSE [p EXCEPT !.transferring = TRUE, !.transferLength = n, !.transferDone = 0,
                   !.forgotten = FALSE]

(* USB_DeviceTransfer called from an interrupt.                             *)
DciTransfer(p, n) ==
  IF p.epBusy THEN p ELSE Prime([p EXCEPT !.epBusy = TRUE], n)

(* The pipe has its transfer backed up until the halt is cleared.           *)
Backup(p, n) == [p EXCEPT !.queued = TRUE, !.pipeDataLen = n]

(* USB_DeviceCdcAcmSend / Recv called from an interrupt. A busy pipe, and an *)
(* endpoint the device layer holds busy, leave everything as it was.        *)
Submit(p, n) ==
  IF p.isBusy \/ (~p.pipeStall /\ p.epBusy)
    THEN p
    ELSE LET q == [p EXCEPT !.isBusy = TRUE]
         IN  IF p.pipeStall THEN Backup(q, n) ELSE DciTransfer(q, n)

(* Mutants of Released: one layer does not hear of the end of the transfer.  *)
ReleasedButBusy(p) == [p EXCEPT !.transferring = FALSE, !.epBusy = FALSE]
ReleasedButClaimed(p) == [p EXCEPT !.transferring = FALSE, !.isBusy = FALSE]

(* A notification reaches the endpoint callback: the device layer and the    *)
(* class forget the transfer before the application sees it.                *)
Released(p) ==
  [p EXCEPT !.transferring = FALSE, !.epBusy = FALSE, !.isBusy = FALSE]

(* USB_DeviceKhciCancel, and what it reports: a closed endpoint has no        *)
(* callback to notify. It leaves the descriptor alone; its callers say what   *)
(* becomes of that.                                                          *)
Cancelled(p) ==
  IF ~p.transferring THEN p
  ELSE IF p.open THEN Released(p)
  ELSE [p EXCEPT !.transferring = FALSE]

(* USB_DeviceDeinitEndpoint: a descriptor that was primed is forgotten.     *)
Deinit(p) ==
  [Cancelled(p) EXCEPT !.open = FALSE, !.epBusy = FALSE,
                       !.forgotten = p.forgotten \/ p.transferring]

(* A bus reset closes the endpoint, too, and then clears all descriptors and  *)
(* both sides' ODD bits (USB_DeviceKhciSetDefaultState).                     *)
BusResetPipe(p) == [Deinit(p) EXCEPT !.forgotten = FALSE, !.behind = FALSE]

(* kUSB_DeviceClassEventSetEndpointHalt; the descriptor in turn is overwritten *)
(* with a STALL.                                                             *)
Stalled(p) == [Cancelled([p EXCEPT !.pipeStall = TRUE]) EXCEPT !.forgotten = FALSE]

(* kUSB_DeviceClassEventClearEndpointHalt up to the resubmission: the        *)
(* current transfer is cancelled whether or not the pipe was halted, and both *)
(* descriptors are taken back.                                              *)
Unstalled(p) == [Cancelled(p) EXCEPT !.pipeStall = FALSE, !.forgotten = FALSE]

MustResubmit(p) == p.pipeStall /\ p.queued

(* The backed-up transfer is handed to the device layer once more; if that   *)
(* refuses it the class callback is run, which releases the class's flag.   *)
Resubmitted(p) ==
  LET q == [Unstalled(p) EXCEPT !.queued = FALSE, !.pipeDataLen = 0]
  IN  IF q.epBusy THEN [q EXCEPT !.isBusy = FALSE]
                  ELSE DciTransfer(q, p.pipeDataLen)
------------------------------------------------------------------------------
(* The packet of a forgotten descriptor goes out, and its token returns before *)
(* bdtOdd is turned, since no transfer is under way.                         *)
CanSkip(p) == p.open /\ p.forgotten /\ ~p.behind
Skipped(p) == [p EXCEPT !.forgotten = FALSE, !.behind = TRUE]

(* One IN token: the next packet of the transfer.                           *)
Chunk(p) ==
  LET left == p.transferLength - p.transferDone
  IN  IF left < MaxPacketSize THEN left ELSE MaxPacketSize

Sent(p) == [p EXCEPT !.transferDone = @ + Chunk(p)]

(* Mutant of SendComplete: every packet is taken for the last one.          *)
SendCompleteAtOnce(p) == Chunk(p) <= MaxPacketSize

(* USB_DeviceKhciInterruptTokenDone: nothing left, or a short packet.       *)
SendComplete(p) ==
  \/ p.transferDone + Chunk(p) = p.transferLength
  \/ Chunk(p) < MaxPacketSize
==============================================================================
