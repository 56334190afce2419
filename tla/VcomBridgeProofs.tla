-------------------------- MODULE VcomBridgeProofs --------------------------
(***************************************************************************)
(* Proofs about VcomBridge for every value of its constants.                *)
(***************************************************************************)
EXTENDS VcomBridge, SequenceTheorems, TLAPS
------------------------------------------------------------------------------
(* What the operations of CdcPipe do to a pipe, for every packet size.      *)

(* A pipe whose controller has not sent more than the transfer holds: what    *)
(* keeps the length of the next packet from being negative.                 *)
GoodPipe == { p \in Pipe : p.transferDone <= p.transferLength }

(* A good pipe with some of its fields replaced is a good pipe.             *)
LEMMA PipeFields ==
  ASSUME NEW p \in GoodPipe, NEW x \in BOOLEAN, NEW n \in Nat
  PROVE  /\ [p EXCEPT !.isBusy = x] \in GoodPipe
         /\ [p EXCEPT !.pipeStall = x] \in GoodPipe
         /\ [p EXCEPT !.queued = x] \in GoodPipe
         /\ [p EXCEPT !.pipeDataLen = n] \in GoodPipe
         /\ [p EXCEPT !.epBusy = x] \in GoodPipe
         /\ [p EXCEPT !.open = x] \in GoodPipe
         /\ [p EXCEPT !.transferring = x] \in GoodPipe
         /\ [p EXCEPT !.forgotten = x] \in GoodPipe
         /\ [p EXCEPT !.behind = x] \in GoodPipe
<1>1. [p EXCEPT !.isBusy = x] \in GoodPipe
  BY DEF GoodPipe, Pipe
<1>2. [p EXCEPT !.pipeStall = x] \in GoodPipe
  BY DEF GoodPipe, Pipe
<1>3. [p EXCEPT !.queued = x] \in GoodPipe
  BY DEF GoodPipe, Pipe
<1>4. [p EXCEPT !.pipeDataLen = n] \in GoodPipe
  BY DEF GoodPipe, Pipe
<1>5. [p EXCEPT !.epBusy = x] \in GoodPipe
  BY DEF GoodPipe, Pipe
<1>6. [p EXCEPT !.open = x] \in GoodPipe
  BY DEF GoodPipe, Pipe
<1>7. [p EXCEPT !.transferring = x] \in GoodPipe
  BY DEF GoodPipe, Pipe
<1>8. [p EXCEPT !.forgotten = x] \in GoodPipe
  BY DEF GoodPipe, Pipe
<1>9. [p EXCEPT !.behind = x] \in GoodPipe
  BY DEF GoodPipe, Pipe
<1> QED BY <1>1, <1>2, <1>3, <1>4, <1>5, <1>6, <1>7, <1>8, <1>9

LEMMA PrimeGood ==
  ASSUME NEW p \in GoodPipe, NEW n \in Nat
  PROVE  Prime(p, n) \in GoodPipe
<1> DEFINE q == [p EXCEPT !.transferring = TRUE, !.transferLength = n, !.transferDone = 0,
                          !.forgotten = FALSE]
<1> DEFINE t == [p EXCEPT !.transferring = TRUE, !.transferLength = n, !.transferDone = 0]
<1> DEFINE r == [p EXCEPT !.transferLength = n, !.transferDone = 0]
<1>1. r \in GoodPipe
  <2>1. r \in Pipe
    BY DEF GoodPipe, Pipe
  <2>2. r.transferDone <= r.transferLength
    BY DEF GoodPipe, Pipe
  <2> HIDE DEF r
  <2> QED BY <2>1, <2>2 DEF GoodPipe
<1>2. q \in GoodPipe
  <2>1. t = [r EXCEPT !.transferring = TRUE]
    BY DEF GoodPipe, Pipe
  <2>2. t \in GoodPipe
    BY <1>1, <2>1, PipeFields
  <2>3. q = [t EXCEPT !.forgotten = FALSE]
    BY DEF GoodPipe, Pipe
  <2> HIDE DEF t
  <2> QED BY <2>2, <2>3, PipeFields
<1> QED BY <1>2 DEF Prime

LEMMA SubmitGood ==
  ASSUME NEW p \in GoodPipe, NEW n \in Nat
  PROVE  DciTransfer(p, n) \in GoodPipe /\ Backup(p, n) \in GoodPipe /\ Submit(p, n) \in GoodPipe
<1>1. ASSUME NEW q \in GoodPipe
      PROVE  DciTransfer(q, n) \in GoodPipe
  <2>1. [q EXCEPT !.epBusy = TRUE] \in GoodPipe
    BY PipeFields
  <2> QED BY <1>1, <2>1, PrimeGood DEF DciTransfer
<1>2. ASSUME NEW q \in GoodPipe
      PROVE  Backup(q, n) \in GoodPipe
  BY <1>2 DEF Backup, GoodPipe, Pipe
<1>3. [p EXCEPT !.isBusy = TRUE] \in GoodPipe
  BY PipeFields
<1> QED BY <1>1, <1>2, <1>3 DEF Submit

LEMMA CancelGood ==
  ASSUME NEW p \in GoodPipe
  PROVE  Released(p) \in GoodPipe /\ Cancelled(p) \in GoodPipe
<1>1. Released(p) \in GoodPipe
  BY DEF GoodPipe, Pipe, Released
<1>2. [p EXCEPT !.transferring = FALSE] \in GoodPipe
  BY PipeFields
<1> QED BY <1>1, <1>2 DEF Cancelled

LEMMA DeinitGood ==
  ASSUME NEW p \in GoodPipe
  PROVE  Deinit(p) \in GoodPipe /\ BusResetPipe(p) \in GoodPipe
<1> DEFINE d == [Cancelled(p) EXCEPT !.open = FALSE, !.epBusy = FALSE]
           f == p.forgotten \/ p.transferring
<1>1. Cancelled(p) \in GoodPipe
  BY CancelGood
<1>2. d \in GoodPipe /\ f \in BOOLEAN
  BY <1>1 DEF GoodPipe, Pipe
<1>3. Deinit(p) = [d EXCEPT !.forgotten = f]
  BY <1>1 DEF Deinit, GoodPipe, Pipe
<1> HIDE DEF d, f
<1>4. Deinit(p) \in GoodPipe
  BY <1>2, <1>3, PipeFields
<1>5. BusResetPipe(p) = [[Deinit(p) EXCEPT !.forgotten = FALSE] EXCEPT !.behind = FALSE]
  BY DEF BusResetPipe
<1>6. [Deinit(p) EXCEPT !.forgotten = FALSE] \in GoodPipe
  BY <1>4, PipeFields
<1> QED BY <1>4, <1>5, <1>6, PipeFields

(* The ignored token of a forgotten packet.                                 *)
LEMMA SkippedGood ==
  ASSUME NEW p \in GoodPipe
  PROVE  Skipped(p) \in GoodPipe
<1>1. [p EXCEPT !.forgotten = FALSE] \in GoodPipe
  BY PipeFields
<1>2. Skipped(p) = [[p EXCEPT !.forgotten = FALSE] EXCEPT !.behind = TRUE]
  BY DEF Skipped
<1> QED BY <1>1, <1>2, PipeFields

LEMMA HaltGood ==
  ASSUME NEW p \in GoodPipe
  PROVE  /\ Stalled(p) \in GoodPipe
         /\ Unstalled(p) \in GoodPipe
         /\ Resubmitted(p) \in GoodPipe
<1>1. [p EXCEPT !.pipeStall = TRUE] \in GoodPipe
  BY PipeFields
<1>2. Stalled(p) \in GoodPipe
  BY <1>1, CancelGood, PipeFields DEF Stalled
<1>3. Unstalled(p) \in GoodPipe
  <2>1. [Cancelled(p) EXCEPT !.pipeStall = FALSE] \in GoodPipe
    BY CancelGood, PipeFields
  <2>2. Unstalled(p) = [[Cancelled(p) EXCEPT !.pipeStall = FALSE] EXCEPT !.forgotten = FALSE]
    BY DEF Unstalled
  <2> QED BY <2>1, <2>2, PipeFields
<1> DEFINE q == [Unstalled(p) EXCEPT !.queued = FALSE, !.pipeDataLen = 0]
<1>4. q \in GoodPipe
  BY <1>3 DEF GoodPipe, Pipe
<1>5. [q EXCEPT !.isBusy = FALSE] \in GoodPipe
  BY <1>4, PipeFields
<1>6. p.pipeDataLen \in Nat
  BY DEF GoodPipe, Pipe
<1>7. DciTransfer(q, p.pipeDataLen) \in GoodPipe
  BY <1>4, <1>6, SubmitGood
<1>8. Resubmitted(p) \in GoodPipe
  BY <1>5, <1>7 DEF Resubmitted
<1> QED BY <1>2, <1>3, <1>8

(* The next packet is no longer than what is left of the transfer.          *)
LEMMA ChunkFits ==
  ASSUME NEW p \in GoodPipe
  PROVE  /\ Chunk(p) \in Nat
         /\ Chunk(p) <= p.transferLength - p.transferDone
         /\ Sent(p) \in GoodPipe
<1>1. Chunk(p) \in Nat /\ Chunk(p) <= p.transferLength - p.transferDone
  BY MaxPacketSizeAssumption DEF GoodPipe, Pipe, Chunk
<1>2. Sent(p) \in GoodPipe
  BY <1>1 DEF Sent, GoodPipe, Pipe
<1> QED BY <1>1, <1>2

LEMMA FreshGood == OpenedPipe \in GoodPipe /\ ClosedPipe \in GoodPipe
<1>1. OpenedPipe \in Pipe /\ OpenedPipe.transferDone = 0 /\ OpenedPipe.transferLength = 0
  BY DEF Pipe, OpenedPipe
<1>2. OpenedPipe \in GoodPipe
  BY <1>1 DEF GoodPipe
<1> QED BY <1>2, PipeFields DEF ClosedPipe

(* A pipe that is opened keeps nothing of what it was but its descriptors.   *)
LEMMA OpenedGood ==
  ASSUME NEW p \in GoodPipe
  PROVE  Opened(p) \in GoodPipe
<1>1. (p.forgotten \/ p.transferring) \in BOOLEAN /\ p.behind \in BOOLEAN
  BY DEF GoodPipe, Pipe
<1> DEFINE f == p.forgotten \/ p.transferring
<1>2. Opened(p) = [[OpenedPipe EXCEPT !.forgotten = f] EXCEPT !.behind = p.behind]
  BY DEF Opened
<1>3. f \in BOOLEAN
  BY <1>1
<1> HIDE DEF f
<1>4. [OpenedPipe EXCEPT !.forgotten = f] \in GoodPipe
  BY <1>3, FreshGood, PipeFields
<1> QED BY <1>1, <1>2, <1>4, PipeFields
------------------------------------------------------------------------------
(* What each operation does to the fields of a pipe.                        *)
LEMMA ReleasedFields ==
  ASSUME NEW p \in Pipe
  PROVE  LET q == Released(p)
         IN  /\ q \in Pipe /\ ~q.isBusy /\ ~q.epBusy /\ ~q.transferring
             /\ q.open = p.open /\ q.pipeStall = p.pipeStall
             /\ q.queued = p.queued /\ q.pipeDataLen = p.pipeDataLen
             /\ q.transferLength = p.transferLength /\ q.transferDone = p.transferDone
BY DEF Released, Pipe

LEMMA CancelledFields ==
  ASSUME NEW p \in Pipe
  PROVE  LET q == Cancelled(p)
         IN  /\ q \in Pipe /\ ~q.transferring
             /\ q.isBusy = (p.isBusy /\ ~(p.transferring /\ p.open))
             /\ q.epBusy = (p.epBusy /\ ~(p.transferring /\ p.open))
             /\ q.open = p.open /\ q.pipeStall = p.pipeStall
             /\ q.queued = p.queued /\ q.pipeDataLen = p.pipeDataLen
BY DEF Cancelled, Released, Pipe

LEMMA DeinitFields ==
  ASSUME NEW p \in Pipe
  PROVE  \A q \in {Deinit(p), BusResetPipe(p)} :
           /\ q \in Pipe /\ ~q.transferring /\ ~q.epBusy /\ ~q.open
           /\ q.isBusy = (p.isBusy /\ ~(p.transferring /\ p.open))
           /\ q.pipeStall = p.pipeStall
           /\ q.queued = p.queued /\ q.pipeDataLen = p.pipeDataLen
<1> DEFINE c == Cancelled(p)
           d == Deinit(p)
           f == p.forgotten \/ p.transferring
<1>1. /\ c \in Pipe /\ ~c.transferring
      /\ c.isBusy = (p.isBusy /\ ~(p.transferring /\ p.open))
      /\ c.pipeStall = p.pipeStall
      /\ c.queued = p.queued /\ c.pipeDataLen = p.pipeDataLen
  BY CancelledFields
<1>2. f \in BOOLEAN
  BY DEF Pipe
<1>3. d = [c EXCEPT !.open = FALSE, !.epBusy = FALSE, !.forgotten = f]
  BY DEF Deinit
<1> HIDE DEF c, d, f
<1>4. /\ d \in Pipe /\ ~d.transferring /\ ~d.epBusy /\ ~d.open
      /\ d.isBusy = (p.isBusy /\ ~(p.transferring /\ p.open))
      /\ d.pipeStall = p.pipeStall
      /\ d.queued = p.queued /\ d.pipeDataLen = p.pipeDataLen
  BY <1>1, <1>2, <1>3 DEF Pipe
<1>5. BusResetPipe(p) = [d EXCEPT !.forgotten = FALSE, !.behind = FALSE]
  BY DEF BusResetPipe, d
<1>6. LET q == BusResetPipe(p)
      IN  /\ q \in Pipe /\ ~q.transferring /\ ~q.epBusy /\ ~q.open
          /\ q.isBusy = (p.isBusy /\ ~(p.transferring /\ p.open))
          /\ q.pipeStall = p.pipeStall
          /\ q.queued = p.queued /\ q.pipeDataLen = p.pipeDataLen
  BY <1>4, <1>5 DEF Pipe
<1> QED BY <1>4, <1>6 DEF d

LEMMA SkippedFields ==
  ASSUME NEW p \in Pipe
  PROVE  LET q == Skipped(p)
         IN  /\ q \in Pipe /\ q.isBusy = p.isBusy /\ q.epBusy = p.epBusy
             /\ q.transferring = p.transferring /\ q.open = p.open /\ q.pipeStall = p.pipeStall
             /\ q.queued = p.queued /\ q.pipeDataLen = p.pipeDataLen
             /\ q.transferLength = p.transferLength /\ q.transferDone = p.transferDone
BY DEF Skipped, Pipe

LEMMA OpenedFields ==
  ASSUME NEW p \in Pipe
  PROVE  LET q == Opened(p)
         IN  /\ q \in Pipe /\ q.open /\ ~q.isBusy /\ ~q.epBusy /\ ~q.transferring
             /\ ~q.queued /\ ~q.pipeStall
<1> DEFINE f == p.forgotten \/ p.transferring
<1>1. f \in BOOLEAN /\ p.behind \in BOOLEAN
  BY DEF Pipe
<1>2. /\ OpenedPipe \in Pipe /\ OpenedPipe.open /\ ~OpenedPipe.isBusy /\ ~OpenedPipe.epBusy
      /\ ~OpenedPipe.transferring /\ ~OpenedPipe.queued /\ ~OpenedPipe.pipeStall
  BY DEF OpenedPipe, Pipe
<1>3. Opened(p) = [OpenedPipe EXCEPT !.forgotten = f, !.behind = p.behind]
  BY DEF Opened
<1> HIDE DEF f
<1> QED BY <1>1, <1>2, <1>3 DEF Pipe

LEMMA PrimeFields ==
  ASSUME NEW p \in Pipe, NEW n \in Nat, ~p.transferring
  PROVE  LET q == Prime(p, n)
         IN  /\ q \in Pipe /\ q.transferring /\ q.transferLength = n /\ q.transferDone = 0
             /\ q.isBusy = p.isBusy /\ q.epBusy = p.epBusy /\ q.open = p.open
             /\ q.pipeStall = p.pipeStall
             /\ q.queued = p.queued /\ q.pipeDataLen = p.pipeDataLen
BY DEF Prime, Pipe

LEMMA SubmitFields ==
  ASSUME NEW p \in Pipe, NEW n \in Nat
  PROVE  LET q == Submit(p, n)
         IN  /\ q \in Pipe /\ q.open = p.open /\ q.pipeStall = p.pipeStall
             /\ p.isBusy \/ (~p.pipeStall /\ p.epBusy) => q = p
             /\ ~p.isBusy /\ p.pipeStall =>
                  /\ q.isBusy /\ q.queued /\ q.pipeDataLen = n
                  /\ q.epBusy = p.epBusy /\ q.transferring = p.transferring
                  /\ q.transferLength = p.transferLength /\ q.transferDone = p.transferDone
             /\ ~p.isBusy /\ ~p.pipeStall /\ ~p.epBusy =>
                  /\ q.isBusy /\ q.epBusy /\ q.transferring
                  /\ q.queued = p.queued /\ q.pipeDataLen = p.pipeDataLen
                  /\ ~p.transferring => q.transferLength = n /\ q.transferDone = 0
<1> DEFINE q == Submit(p, n)
<1>1. CASE p.isBusy \/ (~p.pipeStall /\ p.epBusy)
  BY <1>1 DEF Submit
<1>2. CASE ~p.isBusy /\ p.pipeStall
  <2>1. q = [p EXCEPT !.isBusy = TRUE, !.queued = TRUE, !.pipeDataLen = n]
    BY <1>2 DEF Submit, Backup, Pipe
  <2> QED BY <1>2, <2>1 DEF Pipe
<1>3. CASE ~p.isBusy /\ ~p.pipeStall /\ ~p.epBusy
  <2> DEFINE b == [p EXCEPT !.isBusy = TRUE, !.epBusy = TRUE]
  <2>1. b \in Pipe /\ b.transferring = p.transferring
    BY DEF Pipe
  <2>2. q = Prime(b, n)
    BY <1>3 DEF Submit, DciTransfer, Pipe
  <2>3. CASE p.transferring
    BY <1>3, <2>1, <2>2, <2>3 DEF Prime, Pipe
  <2>4. CASE ~p.transferring
    <3>1. b.isBusy /\ b.epBusy /\ b.open = p.open /\ b.pipeStall = p.pipeStall
          /\ b.queued = p.queued /\ b.pipeDataLen = p.pipeDataLen
      BY DEF Pipe
    <3> HIDE DEF b, q
    <3>2. /\ q \in Pipe /\ q.transferring /\ q.transferLength = n /\ q.transferDone = 0
          /\ q.isBusy = b.isBusy /\ q.epBusy = b.epBusy /\ q.open = b.open
          /\ q.pipeStall = b.pipeStall
          /\ q.queued = b.queued /\ q.pipeDataLen = b.pipeDataLen
      BY <2>1, <2>2, <2>4, PrimeFields
    <3> QED BY <1>3, <2>4, <3>1, <3>2 DEF q
  <2> QED BY <2>3, <2>4
<1> QED BY <1>1, <1>2, <1>3

LEMMA HaltFields ==
  ASSUME NEW p \in Pipe
  PROVE  /\ LET q == Stalled(p)
            IN  /\ q \in Pipe /\ ~q.transferring
                /\ q.isBusy = (p.isBusy /\ ~(p.transferring /\ p.open))
                /\ q.epBusy = (p.epBusy /\ ~(p.transferring /\ p.open))
                /\ q.open = p.open /\ q.pipeStall
                /\ q.queued = p.queued /\ q.pipeDataLen = p.pipeDataLen
         /\ LET q == Unstalled(p)
            IN  /\ q \in Pipe /\ ~q.transferring
                /\ q.isBusy = (p.isBusy /\ ~(p.transferring /\ p.open))
                /\ q.epBusy = (p.epBusy /\ ~(p.transferring /\ p.open))
                /\ q.open = p.open /\ ~q.pipeStall
                /\ q.queued = p.queued /\ q.pipeDataLen = p.pipeDataLen
<1> DEFINE s == [p EXCEPT !.pipeStall = TRUE]
<1>1. s \in Pipe
  BY DEF Pipe
<1>2. Stalled(p) = [Cancelled(s) EXCEPT !.forgotten = FALSE]
  BY DEF Stalled
<1>3. /\ s.isBusy = p.isBusy /\ s.epBusy = p.epBusy /\ s.open = p.open /\ s.pipeStall
      /\ s.queued = p.queued /\ s.pipeDataLen = p.pipeDataLen /\ s.transferring = p.transferring
  BY DEF Pipe
<1> HIDE DEF s
<1>4. LET q == Unstalled(p)
            IN  /\ q \in Pipe /\ ~q.transferring
                /\ q.isBusy = (p.isBusy /\ ~(p.transferring /\ p.open))
                /\ q.epBusy = (p.epBusy /\ ~(p.transferring /\ p.open))
                /\ q.open = p.open /\ ~q.pipeStall
                /\ q.queued = p.queued /\ q.pipeDataLen = p.pipeDataLen
  BY CancelledFields DEF Unstalled, Pipe
<1> DEFINE c == Cancelled(s)
<1>5. /\ c \in Pipe /\ ~c.transferring
      /\ c.isBusy = (p.isBusy /\ ~(p.transferring /\ p.open))
      /\ c.epBusy = (p.epBusy /\ ~(p.transferring /\ p.open))
      /\ c.open = p.open /\ c.pipeStall
      /\ c.queued = p.queued /\ c.pipeDataLen = p.pipeDataLen
  BY <1>1, <1>3, CancelledFields
<1> HIDE DEF c
<1>6. LET q == Stalled(p)
      IN  /\ q \in Pipe /\ ~q.transferring
          /\ q.isBusy = (p.isBusy /\ ~(p.transferring /\ p.open))
          /\ q.epBusy = (p.epBusy /\ ~(p.transferring /\ p.open))
          /\ q.open = p.open /\ q.pipeStall
          /\ q.queued = p.queued /\ q.pipeDataLen = p.pipeDataLen
  <2>1. Stalled(p) = [c EXCEPT !.forgotten = FALSE]
    BY <1>2 DEF c
  <2> QED BY <1>5, <2>1 DEF Pipe
<1> QED BY <1>4, <1>6

LEMMA ResubmittedFields ==
  ASSUME NEW p \in Pipe, ~p.transferring
  PROVE  LET q == Resubmitted(p)
         IN  /\ q \in Pipe /\ q.open = p.open /\ ~q.pipeStall /\ ~q.queued /\ q.epBusy
             /\ p.epBusy => ~q.isBusy /\ ~q.transferring
             /\ ~p.epBusy => /\ q.isBusy = p.isBusy /\ q.transferring
                             /\ q.transferLength = p.pipeDataLen /\ q.transferDone = 0
<1> DEFINE u == [p EXCEPT !.pipeStall = FALSE, !.forgotten = FALSE, !.queued = FALSE,
                          !.pipeDataLen = 0]
<1>1. Resubmitted(p) = IF u.epBusy THEN [u EXCEPT !.isBusy = FALSE] ELSE DciTransfer(u, p.pipeDataLen)
  <2>1. Unstalled(p) = [p EXCEPT !.pipeStall = FALSE, !.forgotten = FALSE]
    BY DEF Unstalled, Cancelled
  <2>2. u = [Unstalled(p) EXCEPT !.queued = FALSE, !.pipeDataLen = 0]
    BY <2>1 DEF Pipe
  <2> QED BY <2>2 DEF Resubmitted
<1>2. /\ u \in Pipe /\ u.isBusy = p.isBusy /\ u.epBusy = p.epBusy /\ u.open = p.open
      /\ ~u.pipeStall /\ ~u.queued /\ ~u.transferring /\ p.pipeDataLen \in Nat
  BY DEF Pipe
<1> HIDE DEF u
<1>3. CASE p.epBusy
  BY <1>1, <1>2, <1>3 DEF Pipe
<1>4. CASE ~p.epBusy
  <2> DEFINE b == [u EXCEPT !.epBusy = TRUE]
  <2>1. /\ b \in Pipe /\ b.isBusy = u.isBusy /\ b.epBusy /\ b.open = u.open
        /\ ~b.pipeStall /\ ~b.queued /\ ~b.transferring
    BY <1>2 DEF Pipe
  <2>2. Resubmitted(p) = Prime(b, p.pipeDataLen)
    BY <1>1, <1>2, <1>4 DEF DciTransfer
  <2> HIDE DEF b
  <2> QED BY <1>2, <1>4, <2>1, <2>2, PrimeFields
<1> QED BY <1>3, <1>4
------------------------------------------------------------------------------
(* A pipe that only interrupts use: the controller and the device layer agree, *)
(* the class's flag is a transfer in the controller or one backed up, and what *)
(* is backed up waits for the end of a halt.                                 *)
InterruptPipe(p) ==
  /\ p.epBusy <=> p.transferring
  /\ p.transferring => p.open
  /\ p.isBusy <=> p.transferring \/ p.queued
  /\ p.queued => p.pipeStall /\ ~p.transferring

(* Every operation that an interrupt runs on such a pipe keeps it so.         *)
LEMMA InterruptPipeKept ==
  ASSUME NEW p \in Pipe, InterruptPipe(p), NEW n \in Nat
  PROVE  /\ InterruptPipe(Deinit(p)) /\ InterruptPipe(BusResetPipe(p))
         /\ InterruptPipe(Stalled(p)) /\ InterruptPipe(Opened(p)) /\ InterruptPipe(Skipped(p))
         /\ p.transferring => InterruptPipe(Released(p))
         /\ ~MustResubmit(p) => InterruptPipe(Unstalled(p))
         /\ p.open => InterruptPipe(Submit(p, n))
         /\ p.open /\ MustResubmit(p) => InterruptPipe(Resubmitted(p))
<1> USE DEF InterruptPipe
<1>1. /\ InterruptPipe(Deinit(p)) /\ InterruptPipe(BusResetPipe(p))
      /\ InterruptPipe(Stalled(p)) /\ InterruptPipe(Opened(p)) /\ InterruptPipe(Skipped(p))
  <2>1. \A q \in {Deinit(p), BusResetPipe(p)} :
          /\ ~q.transferring /\ ~q.epBusy
          /\ q.isBusy = (p.isBusy /\ ~(p.transferring /\ p.open))
          /\ q.pipeStall = p.pipeStall /\ q.queued = p.queued
    BY DeinitFields
  <2>2. InterruptPipe(Deinit(p)) /\ InterruptPipe(BusResetPipe(p))
    BY <2>1
  <2>3. InterruptPipe(Stalled(p))
    BY HaltFields
  <2>4. InterruptPipe(Opened(p))
    BY OpenedFields
  <2>5. InterruptPipe(Skipped(p))
    BY SkippedFields
  <2> QED BY <2>2, <2>3, <2>4, <2>5
<1>2. p.transferring => InterruptPipe(Released(p))
  BY ReleasedFields
<1>3. ~MustResubmit(p) => InterruptPipe(Unstalled(p))
  BY HaltFields DEF MustResubmit
<1>4. p.open => InterruptPipe(Submit(p, n))
  BY SubmitFields
<1>5. p.open /\ MustResubmit(p) => InterruptPipe(Resubmitted(p))
  BY ResubmittedFields DEF MustResubmit
<1> QED BY <1>1, <1>2, <1>3, <1>4, <1>5
------------------------------------------------------------------------------
(* The bridge.                                                              *)

TypeInv ==
  /\ TypeOK
  /\ pipe \in [Endpoints -> GoodPipe]
  /\ Terminated

USE DEF deviceVars, lineVars, mainVars, hostVars, budgets

(* In a set of functions, a good pipe may stand for a pipe.                 *)
LEMMA GoodPipesArePipes == [Endpoints -> GoodPipe] \subseteq [Endpoints -> Pipe]
  BY DEF GoodPipe

LEMMA TypeInit == Init => TypeInv
<1> SUFFICES ASSUME Init PROVE TypeInv
  OBVIOUS
<1>1. pipe \in [Endpoints -> GoodPipe]
  BY FreshGood DEF Init
<1>2. pipe \in [Endpoints -> Pipe]
  BY <1>1 DEF GoodPipe
<1>3. lineBuf \in [Slots -> Chars \cup {NUL}] /\ lineLen \in Slots /\ Terminated
  BY BridgeAssumption DEF Init, Slots, Terminated
<1>4. /\ cmd \in Seq(Chars) /\ sendBuf \in Seq(Chars) /\ replies \in Seq(Reply)
      /\ outbox \in Seq(Seq(Bytes)) /\ typed \in Seq(Lines) /\ got \in Seq(Reply)
  BY DEF Init
<1> QED BY <1>1, <1>2, <1>3, <1>4, BridgeAssumption
        DEF Init, TypeInv, TypeOK, DevStates, MainSteps

LEMMA TypeMain == TypeInv /\ AppTask => TypeInv'
<1> SUFFICES ASSUME TypeInv, AppTask PROVE TypeInv'
  OBVIOUS
<1> USE DEF TypeInv, TypeOK, MainSteps, Terminated
<1>1. CASE StartCommand
  BY <1>1 DEF StartCommand
<1>2. CASE ParseCommand
  <2>1. PICK n \in Slots : /\ \A i \in 0 .. n - 1 : lineBuf[i] # NUL
                           /\ cmd' = [i \in 1 .. n |-> lineBuf[i - 1]]
    BY <1>2 DEF ParseCommand
  <2>2. n \in Nat
    BY BridgeAssumption DEF Slots
  <2>3. ASSUME NEW i \in 1 .. n
        PROVE  lineBuf[i - 1] \in Chars
    <3>1. i - 1 \in 0 .. n - 1 /\ i - 1 \in Slots
      BY <2>2, BridgeAssumption DEF Slots
    <3> QED BY <2>1, <3>1
  <2>4. cmd' \in Seq(Chars)
    BY <2>1, <2>2, <2>3
  <2> QED BY <1>2, <2>4 DEF ParseCommand
<1>3. CASE BuildReply
  <2>1. PICK n \in ReplyLens :
          size' = n /\ replies' = Append(replies, [cmd |-> cmd, len |-> n])
    BY <1>3 DEF BuildReply
  <2>2. n \in Nat
    BY BridgeAssumption
  <2>3. replies' \in Seq(Reply)
    BY <2>1, <2>2 DEF Reply
  <2> QED BY <1>3, <2>1, <2>2, <2>3 DEF BuildReply
<1>4. CASE ClearLine
  <2>1. 0 \in Slots
    BY BridgeAssumption DEF Slots
  <2> QED BY <1>4, <2>1 DEF ClearLine
<1>5. CASE SetSendSize
  BY <1>5 DEF SetSendSize
<1>6. CASE TakeSendSize
  BY <1>6 DEF TakeSendSize
<1>7. CASE ClaimPipe
  <2>1. [pipe["BulkIn"] EXCEPT !.isBusy = TRUE] \in GoodPipe
    BY PipeFields DEF Endpoints
  <2>2. pipe' \in [Endpoints -> GoodPipe]
    BY <1>7, <2>1 DEF ClaimPipe
  <2> QED BY <1>7, <2>2, GoodPipesArePipes DEF ClaimPipe
<1>8. CASE CheckStall
  BY <1>8 DEF CheckStall
<1>9. CASE BackupReply
  <2>1. Backup(pipe["BulkIn"], size) \in GoodPipe
    BY SubmitGood DEF Endpoints
  <2>2. pipe' \in [Endpoints -> GoodPipe]
    BY <1>9, <2>1 DEF BackupReply
  <2> QED BY <1>9, <2>2, GoodPipesArePipes DEF BackupReply
<1>10. CASE ClaimEndpoint
  <2>1. /\ [pipe["BulkIn"] EXCEPT !.isBusy = FALSE] \in GoodPipe
        /\ [pipe["BulkIn"] EXCEPT !.epBusy = TRUE] \in GoodPipe
    BY PipeFields DEF Endpoints
  <2>2. pipe' \in [Endpoints -> GoodPipe]
    BY <1>10, <2>1 DEF ClaimEndpoint
  <2> QED BY <1>10, <2>2, GoodPipesArePipes DEF ClaimEndpoint
<1>11. CASE PrimeReply
  <2>1. Prime(pipe["BulkIn"], size) \in GoodPipe
    BY PrimeGood DEF Endpoints
  <2>2. pipe' \in [Endpoints -> GoodPipe]
    BY <1>11, <2>1 DEF PrimeReply
  <2> QED BY <1>11, <2>2, GoodPipesArePipes DEF PrimeReply
<1> QED BY <1>1, <1>2, <1>3, <1>4, <1>5, <1>6, <1>7, <1>8, <1>9, <1>10, <1>11 DEF AppTask

(* The application's reaction to a completed reply leaves good pipes.       *)
LEMMA SendResponseGood ==
  ASSUME NEW pipes \in [Endpoints -> GoodPipe], NEW n
  PROVE  SendResponse(pipes, n) \in [Endpoints -> GoodPipe]
<1>1. 0 \in Nat /\ MaxPacketSize \in Nat
  BY MaxPacketSizeAssumption
<1>2. /\ Submit(pipes["BulkIn"], 0) \in GoodPipe
      /\ Submit(pipes["BulkOut"], MaxPacketSize) \in GoodPipe
  BY <1>1, SubmitGood DEF Endpoints
<1> QED BY <1>2 DEF SendResponse

LEMMA NoWrites == << >> \in Seq(Seq(Bytes))
  OBVIOUS

LEMMA TypeControl ==
  ASSUME TypeInv,
         \/ BusReset \/ SetAddress \/ Configure \/ Unconfigure \/ SetControlLineState
         \/ \E e \in Endpoints : SetHalt(e) \/ ClearHalt(e)
         \/ NotificationSent
         \/ \E e \in {"InterruptIn", "BulkIn"} : IgnoreToken(e)
  PROVE  TypeInv'
<1> USE DEF TypeInv, TypeOK, DevStates, Terminated
<1> SUFFICES TypeOK' /\ Terminated' /\ pipe' \in [Endpoints -> GoodPipe]
  OBVIOUS
<1>1. CASE BusReset
  <2>1. pipe' \in [Endpoints -> GoodPipe]
    BY <1>1, DeinitGood DEF BusReset
  <2>2. resets' \in 0 .. MaxResets
    BY <1>1, BridgeAssumption DEF BusReset
  <2>3. outbox' \in Seq(Seq(Bytes)) /\ unanswered' \in Nat /\ portOpen' \in BOOLEAN
    BY <1>1, NoWrites DEF BusReset, HostLeaves
  <2> QED BY <1>1, <2>1, <2>2, <2>3, GoodPipesArePipes DEF BusReset, HostLeaves
<1>2. CASE SetAddress
  BY <1>2 DEF SetAddress
<1>3. CASE Configure
  <2>1. pipe' \in [Endpoints -> GoodPipe]
    <3>1. MaxPacketSize \in Nat
      BY MaxPacketSizeAssumption
    <3> DEFINE classPipes == IF cfg = 1 THEN pipe ELSE [e \in Endpoints |-> Opened(pipe[e])]
    <3>2. classPipes \in [Endpoints -> GoodPipe]
      BY OpenedGood
    <3>3. Submit(classPipes["BulkOut"], MaxPacketSize) \in GoodPipe
      BY <3>1, <3>2, SubmitGood DEF Endpoints
    <3> HIDE DEF classPipes
    <3>4. [classPipes EXCEPT !["BulkOut"] = Submit(@, MaxPacketSize)] \in [Endpoints -> GoodPipe]
      BY <3>2, <3>3
    <3> QED BY <1>3, <3>4 DEF Configure, classPipes
  <2>2. resets' \in 0 .. MaxResets
    BY <1>3, BridgeAssumption DEF Configure
  <2> QED BY <1>3, <2>1, <2>2, GoodPipesArePipes DEF Configure
<1>4. CASE Unconfigure
  <2>1. pipe' \in [Endpoints -> GoodPipe]
    BY <1>4, DeinitGood DEF Unconfigure
  <2>2. resets' \in 0 .. MaxResets
    BY <1>4, BridgeAssumption DEF Unconfigure
  <2>3. outbox' \in Seq(Seq(Bytes)) /\ unanswered' \in Nat /\ portOpen' \in BOOLEAN
    BY <1>4, NoWrites DEF Unconfigure, HostLeaves
  <2> QED BY <1>4, <2>1, <2>2, <2>3, GoodPipesArePipes DEF Unconfigure, HostLeaves
<1>5. CASE SetControlLineState
  <2>1. Submit(pipe["InterruptIn"], NOTIF_LEN) \in GoodPipe
    BY SubmitGood DEF Endpoints, NOTIF_LEN
  <2>2. pipe' \in [Endpoints -> GoodPipe]
    BY <1>5, <2>1 DEF SetControlLineState
  <2> QED BY <1>5, <2>2, GoodPipesArePipes DEF SetControlLineState
<1>6. ASSUME NEW e \in Endpoints, SetHalt(e)
      PROVE  TypeInv'
  <2>1. pipe' \in [Endpoints -> GoodPipe]
    BY <1>6, HaltGood DEF SetHalt
  <2>2. halts' \in 0 .. MaxHalts
    BY <1>6, BridgeAssumption DEF SetHalt
  <2> QED BY <1>6, <2>1, <2>2, GoodPipesArePipes DEF SetHalt
<1>7. ASSUME NEW e \in Endpoints, ClearHalt(e)
      PROVE  TypeInv'
  <2> DEFINE cleared == [pipe EXCEPT ![e] = IF MustResubmit(pipe[e]) THEN Resubmitted(pipe[e])
                                                                     ELSE Unstalled(pipe[e])]
  <2>1. cleared \in [Endpoints -> GoodPipe]
    BY HaltGood
  <2>2. SendResponse(cleared, pipe[e].pipeDataLen) \in [Endpoints -> GoodPipe]
    BY <2>1, SendResponseGood
  <2>3. pipe' = cleared \/ pipe' = SendResponse(cleared, pipe[e].pipeDataLen)
    BY <1>7 DEF ClearHalt
  <2>4. halts' \in 0 .. MaxHalts
    BY <1>7, BridgeAssumption DEF ClearHalt
  <2> HIDE DEF cleared
  <2>5. pipe' \in [Endpoints -> GoodPipe]
    BY <2>1, <2>2, <2>3
  <2> QED BY <1>7, <2>4, <2>5, GoodPipesArePipes DEF ClearHalt
<1>8. CASE NotificationSent
  <2>1. pipe' \in [Endpoints -> GoodPipe]
    BY <1>8, CancelGood DEF NotificationSent
  <2> QED BY <1>8, <2>1, GoodPipesArePipes DEF NotificationSent
<1>9. ASSUME NEW e \in {"InterruptIn", "BulkIn"}, IgnoreToken(e)
      PROVE  TypeInv'
  <2>1. e \in Endpoints
    BY DEF Endpoints
  <2>2. pipe' \in [Endpoints -> GoodPipe]
    BY <1>9, <2>1, SkippedGood DEF IgnoreToken
  <2> QED BY <1>9, <2>2, GoodPipesArePipes DEF IgnoreToken
<1> QED BY <1>1, <1>2, <1>3, <1>4, <1>5, <1>6, <1>7, <1>8, <1>9

(* The bytes that join the line are characters, and they stay below the slot  *)
(* kept for the terminator.                                                  *)
LEMMA JoiningBytesFit ==
  ASSUME TypeInv, NEW packet \in Seq(Bytes), NEW k \in 0 .. Len(packet), Joins(packet, k)
  PROVE  /\ \A i \in 1 .. k : packet[i] \in Chars
         /\ lineLen + k <= LINE_BUF_SIZE - 1
<1>1. lineLen \in 0 .. LINE_BUF_SIZE - 1 /\ LINE_BUF_SIZE \in Nat \ {0} /\ NUL \notin Chars
  BY BridgeAssumption DEF TypeInv, TypeOK, Slots
<1>2. Len(packet) \in Nat /\ k \in Nat
  OBVIOUS
<1>3. ASSUME NEW i \in 1 .. k
      PROVE  packet[i] \in Chars /\ lineLen + i <= LINE_BUF_SIZE - 1
  <2>1. i \in 1 .. Len(packet)
    BY <1>2
  <2>2. packet[i] \in Bytes
    BY <2>1
  <2>3. ~EndsLine(packet, i)
    BY DEF Joins
  <2> QED BY <1>1, <1>2, <2>2, <2>3 DEF EndsLine, Bytes
<1>4. lineLen + k <= LINE_BUF_SIZE - 1
  <2>1. CASE k = 0
    BY <1>1, <2>1
  <2>2. CASE k # 0
    <3>1. k \in 1 .. k
      BY <1>2, <2>2
    <3> QED BY <1>3, <3>1
  <2> QED BY <2>1, <2>2
<1> QED BY <1>3, <1>4

LEMMA TypeReceive == TypeInv /\ ReceivePacket => TypeInv'
<1> SUFFICES ASSUME TypeInv, ReceivePacket PROVE TypeInv'
  OBVIOUS
<1>1. PICK n \in 1 .. MaxPacketSize :
        /\ n <= Len(Head(outbox))
        /\ DeliverPacket(n)
        /\ DropPacket \/ TakePacket(SubSeq(Head(outbox), 1, n))
  BY DEF ReceivePacket
<1> DEFINE write == Head(outbox)
           packet == SubSeq(write, 1, n)
           rest == SubSeq(write, n + 1, Len(write))
<1>2. outbox \in Seq(Seq(Bytes)) /\ outbox # << >>
  BY DEF ReceivePacket, TypeInv, TypeOK
<1>3. write \in Seq(Bytes)
  BY <1>2
<1>4. n \in Nat /\ n >= 1 /\ MaxPacketSize \in Nat
  BY <1>1, MaxPacketSizeAssumption
<1>5. packet \in Seq(Bytes) /\ rest \in Seq(Bytes)
  <2> HIDE DEF write
  <2>1. \A i \in 1 .. Len(write) : write[i] \in Bytes
    BY <1>3
  <2>2. Len(write) \in Nat
    BY <1>3
  <2>3. packet = [i \in 1 .. n |-> write[i]] /\ n <= Len(write)
    BY <1>1, <1>4 DEF write
  <2>4. packet \in Seq(Bytes)
    BY <1>4, <2>1, <2>2, <2>3
  <2>5. rest \in Seq(Bytes)
    BY <1>3, <1>4, <2>2, SubSeqProperties
  <2> QED BY <2>4, <2>5
<1>6. outbox' \in Seq(Seq(Bytes))
  <2> HIDE DEF rest, write
  <2>1. Tail(outbox) \in Seq(Seq(Bytes))
    BY <1>2
  <2>2. <<rest>> \o Tail(outbox) \in Seq(Seq(Bytes))
    BY <1>5, <2>1
  <2>3. outbox' = Tail(outbox) \/ outbox' = <<rest>> \o Tail(outbox)
    BY <1>1 DEF DeliverPacket, rest, write
  <2> QED BY <2>1, <2>2, <2>3
<1> HIDE DEF packet, rest, write
<1>7. Released(pipe["BulkOut"]) \in GoodPipe
  BY CancelGood DEF TypeInv, Endpoints
<1>8. /\ lineBuf' \in [Slots -> Chars \cup {NUL}] /\ lineLen' \in Slots
      /\ lineReady' \in BOOLEAN /\ Terminated' /\ deafened' \in BOOLEAN
      /\ pipe' \in [Endpoints -> GoodPipe]
  <2>1. CASE DropPacket
    BY <1>7, <2>1 DEF DropPacket, TypeInv, TypeOK, Terminated
  <2>2. CASE TakePacket(packet)
    <3>1. PICK k \in 0 .. Len(packet) :
            /\ Joins(packet, k)
            /\ lineLen' = lineLen + k
            /\ lineBuf' = [i \in Slots |->
                 IF i \in lineLen .. lineLen + k - 1 THEN packet[i - lineLen + 1]
                 ELSE IF k < Len(packet) /\ i = lineLen + k THEN NUL
                 ELSE lineBuf[i]]
            /\ lineReady' = (lineReady \/ k < Len(packet))
            /\ LET released == [pipe EXCEPT !["BulkOut"] = Released(@)]
               IN  pipe' = IF k < Len(packet)
                             THEN released
                             ELSE [released EXCEPT !["BulkOut"] = Submit(@, MaxPacketSize)]
      BY <2>2 DEF TakePacket
    <3>2. /\ \A i \in 1 .. k : packet[i] \in Chars
          /\ lineLen + k <= LINE_BUF_SIZE - 1
      BY <1>5, <3>1, JoiningBytesFit
    <3>3. k \in Nat /\ Len(packet) \in Nat
      BY <1>5
    <3>4. lineLen \in Nat /\ LINE_BUF_SIZE \in Nat \ {0}
      BY BridgeAssumption DEF TypeInv, TypeOK, Slots
    <3>5. lineLen' \in Slots
      BY <3>1, <3>2, <3>3, <3>4 DEF Slots
    <3>6. ASSUME NEW i \in Slots
          PROVE  lineBuf'[i] \in Chars \cup {NUL} /\ (i = LINE_BUF_SIZE - 1 => lineBuf'[i] = NUL)
      <4>1. lineBuf[i] \in Chars \cup {NUL} /\ (i = LINE_BUF_SIZE - 1 => lineBuf[i] = NUL)
        BY DEF TypeInv, TypeOK, Terminated
      <4>2. i \in Nat
        BY <3>4 DEF Slots
      <4>3. CASE i \in lineLen .. lineLen + k - 1
        <5>1. i - lineLen + 1 \in 1 .. k /\ i # LINE_BUF_SIZE - 1
          BY <3>2, <3>3, <3>4, <4>2, <4>3
        <5> QED BY <3>1, <3>2, <4>3, <5>1
      <4>4. CASE ~(i \in lineLen .. lineLen + k - 1)
        BY <3>1, <4>1, <4>4
      <4> QED BY <4>3, <4>4
    <3>7. lineBuf' \in [Slots -> Chars \cup {NUL}]
      BY <3>1, <3>6
    <3>8. Terminated'
      <4>1. LINE_BUF_SIZE - 1 \in Slots
        BY <3>4 DEF Slots
      <4> QED BY <3>6, <4>1 DEF Terminated
    <3>9. pipe' \in [Endpoints -> GoodPipe]
      <4> DEFINE released == [pipe EXCEPT !["BulkOut"] = Released(@)]
      <4>1. released \in [Endpoints -> GoodPipe]
        BY <1>7 DEF TypeInv
      <4>2. Submit(released["BulkOut"], MaxPacketSize) \in GoodPipe
        BY <1>4, <4>1, SubmitGood DEF Endpoints
      <4> HIDE DEF released
      <4>3. [released EXCEPT !["BulkOut"] = Submit(@, MaxPacketSize)] \in [Endpoints -> GoodPipe]
        BY <4>1, <4>2
      <4> QED BY <3>1, <4>1, <4>3 DEF released
    <3>10. deafened' \in BOOLEAN
      BY <2>2 DEF TakePacket, TypeInv, TypeOK
    <3>11. lineReady' \in BOOLEAN
      BY <3>1
    <3> QED BY <3>5, <3>7, <3>8, <3>9, <3>10, <3>11
  <2> QED BY <1>1, <2>1, <2>2 DEF packet, write
<1> QED BY <1>1, <1>6, <1>8, GoodPipesArePipes
        DEF ReceivePacket, DeliverPacket, TypeInv, TypeOK
LEMMA TypeSend == TypeInv /\ SendChunk => TypeInv'
<1> SUFFICES ASSUME TypeInv, SendChunk PROVE TypeInv'
  OBVIOUS
<1> DEFINE p == pipe["BulkIn"]
           done == [pipe EXCEPT !["BulkIn"] = Released(Sent(p))]
           sent == [pipe EXCEPT !["BulkIn"] = Sent(p)]
           n == p.transferDone + Chunk(p)
<1>1. p \in GoodPipe
  BY DEF TypeInv, Endpoints
<1>2. Chunk(p) \in Nat /\ Sent(p) \in GoodPipe
  BY <1>1, ChunkFits
<1>3. pipe' \in [Endpoints -> GoodPipe]
  <2>1. Released(Sent(p)) \in GoodPipe
    BY <1>2, CancelGood
  <2>2. done \in [Endpoints -> GoodPipe] /\ sent \in [Endpoints -> GoodPipe]
    BY <1>2, <2>1 DEF TypeInv
  <2>3. SendResponse(done, n) \in [Endpoints -> GoodPipe]
    BY <2>2, SendResponseGood
  <2>4. pipe' = SendResponse(done, n) \/ pipe' = sent
    BY DEF SendChunk
  <2> HIDE DEF done, sent, n
  <2> QED BY <2>2, <2>3, <2>4
<1>4. HostCollects(p)
  BY DEF SendChunk
<1> HIDE DEF p, done, sent, n
<1>5. unanswered' \in Nat
  BY <1>4 DEF HostCollects, TypeInv, TypeOK
<1>6. got' \in Seq(Reply)
  <2>1. got \in Seq(Reply) /\ sendBuf \in Seq(Chars)
    BY DEF TypeInv, TypeOK
  <2>2. CASE got' = got
    BY <2>1, <2>2
  <2>3. CASE got' = Append(got, [cmd |-> sendBuf, len |-> Chunk(p)])
    <3>1. [cmd |-> sendBuf, len |-> Chunk(p)] \in Reply
      BY <1>2, <2>1 DEF Reply
    <3> QED BY <2>1, <2>3, <3>1
  <2>4. CASE got # << >> /\ got' = [got EXCEPT ![Len(got)].len = @ + Chunk(p)]
    <3> DEFINE last == got[Len(got)]
               grown == [last EXCEPT !.len = @ + Chunk(p)]
    <3>1. Len(got) \in 1 .. Len(got)
      BY <2>1, <2>4
    <3>2. last \in Reply
      BY <2>1, <3>1, ElementOfSeq
    <3>3. grown \in Reply
      BY <1>2, <3>2 DEF Reply
    <3>4. got' = [got EXCEPT ![Len(got)] = grown]
      BY <2>4
    <3> QED BY <2>1, <3>1, <3>3, <3>4, ExceptSeq
  <2> QED BY <1>4, <2>2, <2>3, <2>4 DEF HostCollects
<1> QED BY <1>3, <1>5, <1>6, GoodPipesArePipes DEF SendChunk, TypeInv, TypeOK, Terminated

LEMMA TypeWrites == TypeInv /\ HostWrites => TypeInv'
<1> SUFFICES ASSUME TypeInv, HostWrites PROVE TypeInv'
  OBVIOUS
<1>1. ASSUME NEW l \in Lines
      PROVE  Append(l, NL) \in Seq(Bytes)
  <2>1. l \in Seq(Bytes)
    BY BridgeAssumption, SeqMonotonic DEF Bytes
  <2> QED BY <2>1, AppendProperties DEF Bytes
<1>2. ASSUME NEW lines \in Seq(Lines), NEW bytes \in Seq(Bytes), WriteLines(lines, bytes)
      PROVE  TypeInv'
  <2>1. outbox' \in Seq(Seq(Bytes))
    BY <1>2, AppendProperties DEF WriteLines, TypeInv, TypeOK
  <2>2. typed' \in Seq(Lines)
    BY <1>2, ConcatProperties DEF WriteLines, TypeInv, TypeOK
  <2>3. unanswered' \in Nat
    BY <1>2 DEF WriteLines, TypeInv, TypeOK
  <2> QED BY <1>2, <2>1, <2>2, <2>3 DEF WriteLines, TypeInv, TypeOK, Terminated
<1>3. CASE \E l \in Lines : WriteLines(<<l>>, Append(l, NL))
  <2>1. PICK l \in Lines : WriteLines(<<l>>, Append(l, NL))
    BY <1>3
  <2>2. <<l>> \in Seq(Lines)
    OBVIOUS
  <2> QED BY <1>1, <1>2, <2>1, <2>2
<1>4. CASE \E l, m \in Lines : WriteLines(<<l, m>>, Append(l, NL) \o Append(m, NL))
  <2>1. PICK l \in Lines, m \in Lines : WriteLines(<<l, m>>, Append(l, NL) \o Append(m, NL))
    BY <1>4
  <2>2. Append(l, NL) \o Append(m, NL) \in Seq(Bytes)
    BY <1>1, ConcatProperties
  <2>3. <<l, m>> \in Seq(Lines)
    OBVIOUS
  <2> QED BY <1>2, <2>1, <2>2, <2>3
<1> QED BY <1>3, <1>4 DEF HostWrites

(* Every step of the bridge keeps the type invariant.                       *)
LEMMA TypeStep == TypeInv /\ [Next]_vars => TypeInv'
<1> SUFFICES ASSUME TypeInv, [Next]_vars PROVE TypeInv'
  OBVIOUS
<1>1. CASE UNCHANGED vars
  BY <1>1 DEF vars, TypeInv, TypeOK, Terminated
<1>2. CASE UsbInterrupt
  BY <1>2, TypeControl, TypeReceive, TypeSend DEF UsbInterrupt
<1>3. CASE AppTask
  BY <1>3, TypeMain
<1>4. CASE HostWrites
  BY <1>4, TypeWrites
<1> QED BY <1>1, <1>2, <1>3, <1>4 DEF Next

(* Every variable keeps its type: in particular s_lineLen stays an index of    *)
(* s_lineBuf whatever the host sends and whenever a reset cuts a line short,  *)
(* so RecvResponse never writes outside the buffer.                          *)
THEOREM TypeCorrect == Spec => []TypeOK
<1>1. TypeInv => TypeOK
  BY DEF TypeInv
<1> QED BY <1>1, TypeInit, TypeStep, PTL DEF Spec

(* The last slot of s_lineBuf always holds a terminator: process_command's     *)
(* parsers stop inside the buffer.                                           *)
THEOREM ParserStops == Spec => []Terminated
<1>1. TypeInv => Terminated
  BY DEF TypeInv
<1> QED BY <1>1, TypeInit, TypeStep, PTL DEF Spec
==============================================================================
