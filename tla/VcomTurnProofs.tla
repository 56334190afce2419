--------------------------- MODULE VcomTurnProofs ---------------------------
(***************************************************************************)
(* Proofs about who has the turn in VcomBridge: that the busy flags of the   *)
(* layers agree and are not left behind, that the bridge is never deaf, and   *)
(* that it does one thing at a time.                                         *)
(***************************************************************************)
EXTENDS VcomBridgeProofs

USE DEF deviceVars, lineVars, mainVars, hostVars, budgets

Pipes == [Endpoints -> Pipe]

(* A pipe is open as long as the class has a configuration.                  *)
OpenInv ==
  /\ devState = "Configured" <=> cfg = 1
  /\ attach <=> cfg = 1
  /\ \A e \in Endpoints : pipe[e].open <=> cfg = 1

LayerInv == OpenInv /\ \A e \in Endpoints \ {"BulkIn"} : InterruptPipe(pipe[e])

LEMMA PipeTypes ==
  TypeInv => /\ pipe \in Pipes /\ "BulkIn" \in Endpoints /\ "BulkOut" \in Endpoints
             /\ "InterruptIn" \in Endpoints
BY DEF TypeInv, TypeOK, Pipes, Endpoints

LEMMA PacketSizes == MaxPacketSize \in Nat \ {0} /\ NOTIF_LEN \in Nat \ {0} /\ 0 \in Nat
BY MaxPacketSizeAssumption DEF NOTIF_LEN

LEMMA FreshFields ==
  /\ OpenedPipe \in Pipe /\ ClosedPipe \in Pipe /\ OpenedPipe.open /\ ~ClosedPipe.open
  /\ \A p \in {OpenedPipe, ClosedPipe} :
       ~p.isBusy /\ ~p.epBusy /\ ~p.transferring /\ ~p.queued /\ ~p.pipeStall
<1>1. OpenedPipe \in Pipe /\ OpenedPipe.open
  BY DEF OpenedPipe, Pipe
<1>2. /\ ~OpenedPipe.isBusy /\ ~OpenedPipe.epBusy /\ ~OpenedPipe.transferring
      /\ ~OpenedPipe.queued /\ ~OpenedPipe.pipeStall
  BY DEF OpenedPipe
<1> QED BY <1>1, <1>2 DEF ClosedPipe, Pipe

(* The application's answer to a completed transfer touches the bulk pipes only: *)
(* one of them gets a transfer, or neither.                                  *)
LEMMA SendResponseFields ==
  ASSUME NEW pipes \in Pipes, NEW n \in Nat
  PROVE  LET r == SendResponse(pipes, n)
         IN  /\ r \in Pipes /\ r["InterruptIn"] = pipes["InterruptIn"]
             /\ \/ /\ n # 0 /\ n % MaxPacketSize = 0
                   /\ r["BulkIn"] = Submit(pipes["BulkIn"], 0) /\ r["BulkOut"] = pipes["BulkOut"]
                \/ /\ attach /\ startTransactions
                   /\ r["BulkOut"] = Submit(pipes["BulkOut"], MaxPacketSize)
                   /\ r["BulkIn"] = pipes["BulkIn"]
                \/ ~(attach /\ startTransactions) /\ r = pipes
<1>1. /\ Submit(pipes["BulkIn"], 0) \in Pipe
      /\ Submit(pipes["BulkOut"], MaxPacketSize) \in Pipe
  BY PacketSizes, SubmitFields DEF Pipes, Endpoints
<1> QED BY <1>1 DEF SendResponse, Pipes, Endpoints

(* The main loop uses the bulk IN pipe only, and does not close it.           *)
LEMMA MainPipes ==
  ASSUME TypeInv, AppTask
  PROVE  /\ UNCHANGED <<deviceVars, hostVars, budgets>>
         /\ pipe' \in Pipes /\ pipe'["BulkIn"].open = pipe["BulkIn"].open
         /\ pipe'["InterruptIn"] = pipe["InterruptIn"] /\ pipe'["BulkOut"] = pipe["BulkOut"]
<1>1. pipe["BulkIn"] \in Pipe /\ pipe \in Pipes /\ size \in Nat
  BY PipeTypes DEF Pipes, TypeInv, TypeOK
<1>2. CASE StartCommand \/ ParseCommand \/ BuildReply \/ ClearLine \/ SetSendSize
            \/ TakeSendSize \/ CheckStall
  BY <1>1, <1>2 DEF StartCommand, ParseCommand, BuildReply, ClearLine, SetSendSize,
                    TakeSendSize, CheckStall
<1>3. CASE ClaimPipe
  <2> DEFINE q == [pipe["BulkIn"] EXCEPT !.isBusy = TRUE]
  <2>1. q \in Pipe /\ q.open = pipe["BulkIn"].open
    BY <1>1 DEF Pipe
  <2>2. pipe' = pipe \/ pipe' = [pipe EXCEPT !["BulkIn"] = q]
    BY <1>3 DEF ClaimPipe
  <2> HIDE DEF q
  <2> QED BY <1>1, <1>3, <2>1, <2>2 DEF ClaimPipe, Pipes, Endpoints
<1>4. CASE BackupReply
  <2>1. Backup(pipe["BulkIn"], size) \in Pipe /\ Backup(pipe["BulkIn"], size).open = pipe["BulkIn"].open
    BY <1>1 DEF Pipe, Backup
  <2> QED BY <1>1, <1>4, <2>1 DEF BackupReply, Pipes, Endpoints
<1>5. CASE ClaimEndpoint
  <2>1. ASSUME NEW q \in {[pipe["BulkIn"] EXCEPT !.isBusy = FALSE],
                          [pipe["BulkIn"] EXCEPT !.epBusy = TRUE]}
        PROVE  q \in Pipe /\ q.open = pipe["BulkIn"].open
    BY <1>1 DEF Pipe
  <2>2. \E q \in {[pipe["BulkIn"] EXCEPT !.isBusy = FALSE],
                  [pipe["BulkIn"] EXCEPT !.epBusy = TRUE]} :
          pipe' = [pipe EXCEPT !["BulkIn"] = q]
    BY <1>5 DEF ClaimEndpoint
  <2>3. PICK q : /\ q \in Pipe /\ q.open = pipe["BulkIn"].open
                 /\ pipe' = [pipe EXCEPT !["BulkIn"] = q]
    BY <2>1, <2>2
  <2> QED BY <1>1, <1>5, <2>3 DEF ClaimEndpoint, Pipes, Endpoints
<1>6. CASE PrimeReply
  <2>1. Prime(pipe["BulkIn"], size) \in Pipe /\ Prime(pipe["BulkIn"], size).open = pipe["BulkIn"].open
    BY <1>1 DEF Pipe, Prime
  <2> QED BY <1>1, <1>6, <2>1 DEF PrimeReply, Pipes, Endpoints
<1> QED BY <1>2, <1>3, <1>4, <1>5, <1>6 DEF AppTask

(* A packet received: it is forgotten, or it ends the line, or the line goes on  *)
(* and the next packet is asked for.                                         *)
LEMMA ReceiveEffect ==
  ASSUME TypeInv, ReceivePacket
  PROVE  LET released == Released(pipe["BulkOut"])
         IN  /\ UNCHANGED <<deviceVars, mainVars, budgets, portOpen, typed, got, unanswered>>
             /\ pipe["BulkOut"].open /\ pipe["BulkOut"].transferring
             /\ pipe' \in Pipes /\ released \in Pipe
             /\ pipe'["InterruptIn"] = pipe["InterruptIn"] /\ pipe'["BulkIn"] = pipe["BulkIn"]
             /\ \/ /\ ~(attach /\ startTransactions) /\ deafened' = TRUE
                   /\ UNCHANGED lineVars /\ pipe'["BulkOut"] = released
                \/ /\ attach /\ startTransactions /\ deafened' = deafened
                   /\ lineReady' /\ pipe'["BulkOut"] = released
                \/ /\ attach /\ startTransactions /\ deafened' = deafened
                   /\ lineReady' = lineReady
                   /\ pipe'["BulkOut"] = Submit(released, MaxPacketSize)
<1>1. PICK n \in 1 .. MaxPacketSize :
        /\ DeliverPacket(n)
        /\ DropPacket \/ TakePacket(SubSeq(Head(outbox), 1, n))
  BY DEF ReceivePacket
<1>2. pipe \in Pipes /\ pipe["BulkOut"] \in Pipe /\ lineReady \in BOOLEAN
  BY PipeTypes DEF Pipes, TypeInv, TypeOK
<1> DEFINE released == Released(pipe["BulkOut"])
           base     == [pipe EXCEPT !["BulkOut"] = released]
<1>3. released \in Pipe /\ Submit(released, MaxPacketSize) \in Pipe
  BY <1>2, ReleasedFields, SubmitFields, PacketSizes
<1> HIDE DEF released
<1>4. /\ base \in Pipes /\ base["BulkOut"] = released
      /\ base["InterruptIn"] = pipe["InterruptIn"] /\ base["BulkIn"] = pipe["BulkIn"]
  BY <1>2, <1>3 DEF Pipes, Endpoints
<1>5. CASE DropPacket
  <2>1. pipe' = base
    BY <1>5 DEF DropPacket, released
  <2> QED BY <1>1, <1>3, <1>4, <1>5, <2>1
          DEF DropPacket, DeliverPacket, ReceivePacket, Listening, released
<1>6. CASE TakePacket(SubSeq(Head(outbox), 1, n))
  <2> DEFINE packet == SubSeq(Head(outbox), 1, n)
  <2>1. PICK k \in 0 .. Len(packet) :
          /\ lineReady' = (lineReady \/ k < Len(packet))
          /\ pipe' = IF k < Len(packet)
                        THEN base
                        ELSE [base EXCEPT !["BulkOut"] = Submit(@, MaxPacketSize)]
    BY <1>6 DEF TakePacket, released
  <2> HIDE DEF packet, base
  <2>2. \/ lineReady' /\ pipe' = base
        \/ lineReady' = lineReady /\ pipe' = [base EXCEPT !["BulkOut"] = Submit(@, MaxPacketSize)]
    BY <1>2, <2>1
  <2>3. [base EXCEPT !["BulkOut"] = Submit(@, MaxPacketSize)] \in Pipes
    BY <1>3, <1>4 DEF Pipes, Endpoints
  <2>4. /\ pipe' \in Pipes
        /\ pipe'["InterruptIn"] = pipe["InterruptIn"] /\ pipe'["BulkIn"] = pipe["BulkIn"]
        /\ \/ lineReady' /\ pipe'["BulkOut"] = released
           \/ lineReady' = lineReady /\ pipe'["BulkOut"] = Submit(released, MaxPacketSize)
    BY <1>4, <2>2, <2>3 DEF Pipes, Endpoints
  <2> QED BY <1>1, <1>3, <1>6, <2>4
          DEF TakePacket, DeliverPacket, ReceivePacket, Listening, released
<1> QED BY <1>1, <1>5, <1>6

(* A packet sent: the transfer goes on, or it is complete and answered.       *)
LEMMA SendEffect ==
  ASSUME TypeInv, SendChunk
  PROVE  LET p    == pipe["BulkIn"]
             n    == p.transferDone + Chunk(p)
             done == [pipe EXCEPT !["BulkIn"] = Released(Sent(p))]
         IN  /\ UNCHANGED <<deviceVars, lineVars, mainVars, portOpen, outbox, typed, deafened, budgets>>
             /\ p \in Pipe /\ p.open /\ p.transferring /\ n \in Nat /\ HostCollects(p)
             /\ \/ ~SendComplete(p) /\ pipe' = [pipe EXCEPT !["BulkIn"] = Sent(p)]
                \/ SendComplete(p) /\ done \in Pipes /\ pipe' = SendResponse(done, n)
<1> DEFINE p == pipe["BulkIn"]
<1>1. p \in GoodPipe /\ p \in Pipe /\ pipe \in Pipes
  BY PipeTypes DEF TypeInv, Endpoints, GoodPipe
<1>2. Chunk(p) \in Nat /\ Sent(p) \in GoodPipe
  BY <1>1, ChunkFits
<1>3. Released(Sent(p)) \in Pipe /\ p.transferDone + Chunk(p) \in Nat
  BY <1>1, <1>2, ReleasedFields DEF GoodPipe, Pipe
<1>4. [pipe EXCEPT !["BulkIn"] = Released(Sent(p))] \in Pipes
  BY <1>1, <1>3 DEF Pipes, Endpoints
<1> QED BY <1>1, <1>3, <1>4 DEF SendChunk, Sending

LEMMA SentFields ==
  ASSUME NEW p \in GoodPipe
  PROVE  LET q == Sent(p)
         IN  /\ q \in Pipe /\ q.isBusy = p.isBusy /\ q.epBusy = p.epBusy
             /\ q.transferring = p.transferring /\ q.open = p.open /\ q.pipeStall = p.pipeStall
             /\ q.queued = p.queued /\ q.pipeDataLen = p.pipeDataLen
             /\ q.transferLength = p.transferLength /\ q.transferDone = p.transferDone + Chunk(p)
BY ChunkFits DEF Sent, GoodPipe, Pipe

(* A token ignored changes nothing but what became of the descriptors.        *)
LEMMA IgnoreEffect ==
  ASSUME TypeInv, NEW e \in {"InterruptIn", "BulkIn"}, IgnoreToken(e)
  PROVE  /\ UNCHANGED <<deviceVars, lineVars, mainVars, hostVars, budgets>>
         /\ pipe' \in Pipes
         /\ \A i \in Endpoints :
              /\ pipe'[i].isBusy = pipe[i].isBusy /\ pipe'[i].epBusy = pipe[i].epBusy
              /\ pipe'[i].transferring = pipe[i].transferring /\ pipe'[i].open = pipe[i].open
              /\ pipe'[i].pipeStall = pipe[i].pipeStall /\ pipe'[i].queued = pipe[i].queued
              /\ pipe'[i].pipeDataLen = pipe[i].pipeDataLen
              /\ pipe'[i].transferLength = pipe[i].transferLength
              /\ pipe'[i].transferDone = pipe[i].transferDone
<1> DEFINE q == Skipped(pipe[e])
<1>1. e \in Endpoints /\ pipe \in Pipes /\ pipe[e] \in Pipe
  BY PipeTypes DEF Endpoints, Pipes
<1>2. /\ UNCHANGED <<deviceVars, lineVars, mainVars, hostVars, budgets>>
      /\ pipe' = [pipe EXCEPT ![e] = q]
  BY DEF IgnoreToken
<1>3. LET p == pipe[e]
      IN  /\ q \in Pipe /\ q.isBusy = p.isBusy /\ q.epBusy = p.epBusy
          /\ q.transferring = p.transferring /\ q.open = p.open /\ q.pipeStall = p.pipeStall
          /\ q.queued = p.queued /\ q.pipeDataLen = p.pipeDataLen
          /\ q.transferLength = p.transferLength /\ q.transferDone = p.transferDone
  BY <1>1, SkippedFields
<1> HIDE DEF q
<1> QED BY <1>1, <1>2, <1>3 DEF Pipes

(* A halt is cleared: the pipe that was halted, or not, is unstalled or gets its  *)
(* backed-up transfer; if the device layer refuses the reply's, it is answered   *)
(* as one that was sent.                                                     *)
LEMMA ClearHaltEffect ==
  ASSUME TypeInv, NEW e \in Endpoints, ClearHalt(e)
  PROVE  LET p == pipe[e]
             q == IF MustResubmit(p) THEN Resubmitted(p) ELSE Unstalled(p)
             cleared == [pipe EXCEPT ![e] = q]
             refused == e = "BulkIn" /\ MustResubmit(p) /\ Unstalled(p).epBusy
         IN  /\ UNCHANGED <<devState, cfg, attach, startTransactions, lineVars, mainVars, hostVars, resets>>
             /\ devState = "Configured" /\ halts' = halts + 1
             /\ p \in Pipe /\ q \in Pipe /\ cleared \in Pipes /\ p.pipeDataLen \in Nat
             /\ \/ ~refused /\ pipe' = cleared
                \/ refused /\ pipe' = SendResponse(cleared, p.pipeDataLen)
             /\ hasSentState' = (hasSentState /\ ~(e = "InterruptIn" /\ NotificationCancelled))
<1> DEFINE p == pipe[e]
<1>1. p \in GoodPipe /\ p \in Pipe /\ pipe \in Pipes
  BY PipeTypes DEF TypeInv, GoodPipe
<1>2. Resubmitted(p) \in Pipe /\ Unstalled(p) \in Pipe /\ p.pipeDataLen \in Nat
  BY <1>1, HaltGood DEF GoodPipe, Pipe
<1> QED BY <1>1, <1>2 DEF ClearHalt, Pipes
------------------------------------------------------------------------------
(* The layers of the pipes that only interrupts use.                        *)

LEMMA LayerInit == Init => LayerInv
<1> SUFFICES ASSUME Init PROVE LayerInv
  OBVIOUS
<1>1. /\ \A e \in Endpoints : pipe[e] = ClosedPipe
      /\ devState = "Default" /\ cfg = 0 /\ attach = FALSE
  BY DEF Init
<1>2. OpenInv
  BY <1>1, FreshFields DEF OpenInv
<1>3. InterruptPipe(ClosedPipe)
  BY FreshFields DEF InterruptPipe
<1> QED BY <1>1, <1>2, <1>3 DEF LayerInv

(* What LayerInv says of the next state, pipe by pipe.                       *)
LEMMA LayerParts ==
  LayerInv <=> /\ OpenInv
               /\ InterruptPipe(pipe["InterruptIn"]) /\ InterruptPipe(pipe["BulkOut"])
BY DEF LayerInv, Endpoints

LEMMA LayerResponse ==
  ASSUME NEW pipes \in Pipes, NEW n \in Nat,
         InterruptPipe(pipes["InterruptIn"]), InterruptPipe(pipes["BulkOut"]),
         attach => pipes["BulkOut"].open
  PROVE  LET r == SendResponse(pipes, n)
         IN  /\ \A i \in Endpoints : r[i].open <=> pipes[i].open
             /\ InterruptPipe(r["InterruptIn"]) /\ InterruptPipe(r["BulkOut"])
<1> DEFINE r == SendResponse(pipes, n)
<1>1. pipes["BulkIn"] \in Pipe /\ pipes["BulkOut"] \in Pipe
  BY DEF Pipes, Endpoints
<1>2. /\ Submit(pipes["BulkIn"], 0).open = pipes["BulkIn"].open
      /\ Submit(pipes["BulkOut"], MaxPacketSize).open = pipes["BulkOut"].open
      /\ pipes["BulkOut"].open => InterruptPipe(Submit(pipes["BulkOut"], MaxPacketSize))
  BY <1>1, SubmitFields, InterruptPipeKept, PacketSizes
<1>3. /\ r["InterruptIn"] = pipes["InterruptIn"]
      /\ \/ r["BulkIn"] = Submit(pipes["BulkIn"], 0) /\ r["BulkOut"] = pipes["BulkOut"]
         \/ /\ attach /\ r["BulkOut"] = Submit(pipes["BulkOut"], MaxPacketSize)
            /\ r["BulkIn"] = pipes["BulkIn"]
         \/ r = pipes
  BY SendResponseFields
<1> HIDE DEF r
<1> QED BY <1>2, <1>3 DEF Endpoints, r

(* A reset and a change of configuration close every pipe.                   *)
LEMMA ResetEffect ==
  ASSUME TypeInv, BusReset \/ Unconfigure
  PROVE  /\ devState' # "Configured" /\ cfg' = 0 /\ attach' = FALSE
         /\ UNCHANGED <<pc, startTransactions>>
         /\ hasSentState' = (hasSentState /\ ~NotificationCancelled)
         /\ \A e \in Endpoints : pipe'[e] \in {Deinit(pipe[e]), BusResetPipe(pipe[e])}
BY DEF BusReset, Unconfigure

LEMMA LayerControl ==
  ASSUME TypeInv, LayerInv,
         BusReset \/ SetAddress \/ Configure \/ Unconfigure \/ SetControlLineState
  PROVE  LayerInv'
<1>0. pipe \in Pipes /\ \A e \in Endpoints : pipe[e] \in Pipe
  BY PipeTypes DEF Pipes
<1>1. CASE BusReset \/ Unconfigure
  <2>1. /\ \A e \in Endpoints : pipe'[e] \in {Deinit(pipe[e]), BusResetPipe(pipe[e])}
        /\ devState' # "Configured" /\ cfg' = 0 /\ attach' = FALSE
    BY <1>1, ResetEffect
  <2>2. OpenInv'
    <3>1. \A e \in Endpoints : ~pipe'[e].open
      BY <1>0, <2>1, DeinitFields
    <3> QED BY <2>1, <3>1 DEF OpenInv
  <2>3. \A e \in Endpoints \ {"BulkIn"} : InterruptPipe(pipe'[e])
    <3>1. \A e \in Endpoints \ {"BulkIn"} :
            InterruptPipe(Deinit(pipe[e])) /\ InterruptPipe(BusResetPipe(pipe[e]))
      BY <1>0, InterruptPipeKept, PacketSizes DEF LayerInv
    <3> QED BY <2>1, <3>1
  <2> QED BY <2>2, <2>3 DEF LayerInv
<1>2. CASE SetAddress
  <2>1. UNCHANGED <<cfg, attach, pipe>> /\ (devState' = "Configured" <=> devState = "Configured")
    BY <1>2 DEF SetAddress
  <2> QED BY <2>1 DEF LayerInv, OpenInv
<1>3. CASE Configure
  <2> DEFINE pipes == IF cfg = 1 THEN pipe ELSE [e \in Endpoints |-> Opened(pipe[e])]
  <2>1. /\ devState' = "Configured" /\ cfg' = 1 /\ attach' = TRUE
        /\ pipe' = [pipes EXCEPT !["BulkOut"] = Submit(@, MaxPacketSize)]
    BY <1>3 DEF Configure
  <2>2. \A e \in Endpoints : Opened(pipe[e]) \in Pipe /\ Opened(pipe[e]).open
                              /\ InterruptPipe(Opened(pipe[e]))
    BY <1>0, OpenedFields DEF InterruptPipe
  <2>3. /\ pipes \in Pipes /\ \A e \in Endpoints : pipes[e].open
        /\ InterruptPipe(pipes["InterruptIn"]) /\ InterruptPipe(pipes["BulkOut"])
    BY <1>0, <2>2, LayerParts, PipeTypes DEF OpenInv, Pipes
  <2> HIDE DEF pipes
  <2>4. /\ Submit(pipes["BulkOut"], MaxPacketSize).open
        /\ InterruptPipe(Submit(pipes["BulkOut"], MaxPacketSize))
    BY <2>3, InterruptPipeKept, SubmitFields, PacketSizes DEF Pipes, Endpoints
  <2>5. /\ \A e \in Endpoints : pipe'[e].open
        /\ InterruptPipe(pipe'["InterruptIn"]) /\ InterruptPipe(pipe'["BulkOut"])
    BY <2>1, <2>3, <2>4 DEF Pipes, Endpoints
  <2> QED BY <2>1, <2>5, LayerParts DEF OpenInv, LayerInv, Endpoints
<1>4. CASE SetControlLineState
  <2> DEFINE q == Submit(pipe["InterruptIn"], NOTIF_LEN)
  <2>1. /\ UNCHANGED <<devState, cfg, attach>> /\ pipe["InterruptIn"].open
        /\ pipe' = pipe \/ pipe' = [pipe EXCEPT !["InterruptIn"] = q]
    BY <1>4, PipeTypes DEF SetControlLineState, LayerInv, OpenInv
  <2>2. q.open /\ InterruptPipe(q)
    BY <1>0, <2>1, LayerParts, InterruptPipeKept, SubmitFields, PacketSizes DEF Endpoints
  <2> HIDE DEF q
  <2>3. /\ \A e \in Endpoints : pipe'[e].open <=> pipe[e].open
        /\ InterruptPipe(pipe'["InterruptIn"]) /\ InterruptPipe(pipe'["BulkOut"])
    BY <1>0, <2>1, <2>2, LayerParts DEF Pipes, Endpoints
  <2> QED BY <2>1, <2>3, LayerParts DEF OpenInv, LayerInv, Endpoints
<1> QED BY <1>1, <1>2, <1>3, <1>4

LEMMA LayerHalts ==
  ASSUME TypeInv, LayerInv, NEW e \in Endpoints, SetHalt(e) \/ ClearHalt(e)
  PROVE  LayerInv'
<1>0. pipe \in Pipes /\ \A i \in Endpoints : pipe[i] \in Pipe
  BY PipeTypes DEF Pipes
<1>1. CASE SetHalt(e)
  <2>1. UNCHANGED <<devState, cfg, attach>> /\ pipe' = [pipe EXCEPT ![e] = Stalled(pipe[e])]
    BY <1>1 DEF SetHalt
  <2>2. Stalled(pipe[e]).open = pipe[e].open
    BY <1>0, HaltFields
  <2>3. e # "BulkIn" => InterruptPipe(Stalled(pipe[e]))
    BY <1>0, InterruptPipeKept, PacketSizes DEF LayerInv
  <2>4. \A i \in Endpoints : /\ pipe'[i].open = pipe[i].open
                             /\ i # "BulkIn" => InterruptPipe(pipe'[i])
    BY <1>0, <2>1, <2>2, <2>3 DEF LayerInv, Pipes
  <2> QED BY <2>1, <2>4 DEF LayerInv, OpenInv
<1>2. CASE ClearHalt(e)
  <2> DEFINE q == IF MustResubmit(pipe[e]) THEN Resubmitted(pipe[e]) ELSE Unstalled(pipe[e])
             cleared == [pipe EXCEPT ![e] = q]
             n == pipe[e].pipeDataLen
  <2>1. /\ UNCHANGED <<devState, cfg, attach, startTransactions>> /\ devState = "Configured"
        /\ cleared \in Pipes /\ q \in Pipe /\ n \in Nat
        /\ pipe' = cleared \/ pipe' = SendResponse(cleared, n)
    BY <1>2, ClearHaltEffect, Zenon
  <2>2. \A i \in Endpoints : pipe[i].open
    BY <2>1 DEF LayerInv, OpenInv
  <2>3. q.open
    <3>1. CASE MustResubmit(pipe[e])
      <4>1. LET u == Unstalled(pipe[e])
            IN  u \in Pipe /\ u.open
        BY <1>0, <2>2, HaltFields
      <4> QED BY <3>1, <4>1 DEF Resubmitted, DciTransfer, Prime, Pipe
    <3>2. CASE ~MustResubmit(pipe[e])
      BY <1>0, <2>2, <3>2, HaltFields
    <3> QED BY <3>1, <3>2
  <2>4. e # "BulkIn" => InterruptPipe(q)
    BY <1>0, <2>2, InterruptPipeKept, PacketSizes DEF LayerInv
  <2> HIDE DEF q
  <2>5. \A i \in Endpoints : cleared[i].open /\ (i # "BulkIn" => InterruptPipe(cleared[i]))
    BY <1>0, <2>2, <2>3, <2>4 DEF LayerInv, Pipes
  <2> HIDE DEF cleared
  <2>6. CASE pipe' = cleared
    BY <2>1, <2>2, <2>5, <2>6 DEF LayerInv, OpenInv
  <2>7. CASE pipe' = SendResponse(cleared, n)
    <3>1. /\ \A i \in Endpoints : pipe'[i].open
          /\ InterruptPipe(pipe'["InterruptIn"]) /\ InterruptPipe(pipe'["BulkOut"])
      BY <2>1, <2>5, <2>7, LayerResponse DEF Endpoints
    <3> QED BY <2>1, <2>2, <3>1 DEF LayerInv, OpenInv, Endpoints
  <2> QED BY <2>1, <2>6, <2>7
<1> QED BY <1>1, <1>2

LEMMA LayerTransfers ==
  ASSUME TypeInv, LayerInv,
         \/ NotificationSent \/ ReceivePacket \/ SendChunk
         \/ \E e \in {"InterruptIn", "BulkIn"} : IgnoreToken(e)
  PROVE  LayerInv'
<1>0. pipe \in Pipes /\ \A i \in Endpoints : pipe[i] \in Pipe
  BY PipeTypes DEF Pipes
<1>1. CASE NotificationSent
  <2> DEFINE q == Released(pipe["InterruptIn"])
  <2>1. /\ UNCHANGED <<devState, cfg, attach>> /\ pipe["InterruptIn"].transferring
        /\ pipe' = [pipe EXCEPT !["InterruptIn"] = q]
    BY <1>1 DEF NotificationSent, NotificationCancelled
  <2>2. q.open = pipe["InterruptIn"].open /\ InterruptPipe(q)
    BY <1>0, <2>1, ReleasedFields, InterruptPipeKept, LayerParts, PacketSizes DEF Endpoints
  <2> HIDE DEF q
  <2> QED BY <1>0, <2>1, <2>2 DEF LayerInv, OpenInv, Pipes
<1>2. CASE ReceivePacket
  <2> DEFINE released == Released(pipe["BulkOut"])
  <2>1. /\ UNCHANGED <<devState, cfg, attach>> /\ pipe["BulkOut"].transferring
        /\ pipe["BulkOut"].open /\ released \in Pipe
        /\ pipe'["InterruptIn"] = pipe["InterruptIn"] /\ pipe'["BulkIn"] = pipe["BulkIn"]
        /\ pipe'["BulkOut"] = released \/ pipe'["BulkOut"] = Submit(released, MaxPacketSize)
    BY <1>2, ReceiveEffect
  <2>2. released.open /\ InterruptPipe(released)
    BY <1>0, <2>1, ReleasedFields, InterruptPipeKept, LayerParts, PacketSizes DEF Endpoints
  <2> HIDE DEF released
  <2>3. pipe'["BulkOut"].open /\ InterruptPipe(pipe'["BulkOut"])
    BY <2>1, <2>2, SubmitFields, InterruptPipeKept, PacketSizes
  <2> QED BY <2>1, <2>3, LayerParts DEF LayerInv, OpenInv, Endpoints
<1>3. CASE SendChunk
  <2> DEFINE p == pipe["BulkIn"]
             n == p.transferDone + Chunk(p)
             done == [pipe EXCEPT !["BulkIn"] = Released(Sent(p))]
  <2>1. /\ UNCHANGED <<devState, cfg, attach>> /\ p.open /\ n \in Nat
        /\ \/ pipe' = [pipe EXCEPT !["BulkIn"] = Sent(p)]
           \/ done \in Pipes /\ pipe' = SendResponse(done, n)
    BY <1>3, SendEffect
  <2>2. Sent(p).open /\ Sent(p) \in Pipe
    BY <2>1, SentFields, PipeTypes DEF TypeInv
  <2>3. Released(Sent(p)).open
    BY <2>2, ReleasedFields
  <2>4. \A i \in Endpoints : done[i].open <=> pipe[i].open
    BY <1>0, <2>1, <2>3 DEF Pipes
  <2>5. done["InterruptIn"] = pipe["InterruptIn"] /\ done["BulkOut"] = pipe["BulkOut"]
    BY <1>0 DEF Pipes, Endpoints
  <2>6. CASE pipe' = [pipe EXCEPT !["BulkIn"] = Sent(p)]
    BY <1>0, <2>1, <2>2, <2>6 DEF LayerInv, OpenInv, Pipes
  <2> HIDE DEF done, n
  <2>7. CASE done \in Pipes /\ pipe' = SendResponse(done, n)
    <3>1. done["BulkOut"].open
      BY <2>1, <2>5 DEF LayerInv, OpenInv, Endpoints
    <3>2. /\ \A i \in Endpoints : pipe'[i].open <=> done[i].open
          /\ InterruptPipe(pipe'["InterruptIn"]) /\ InterruptPipe(pipe'["BulkOut"])
      BY <2>1, <2>5, <2>7, <3>1, LayerParts, LayerResponse
    <3> QED BY <2>1, <2>4, <3>2 DEF LayerInv, OpenInv, Endpoints
  <2> QED BY <2>1, <2>6, <2>7
<1>4. ASSUME NEW e \in {"InterruptIn", "BulkIn"}, IgnoreToken(e)
      PROVE  LayerInv'
  <2>1. /\ UNCHANGED <<devState, cfg, attach>>
        /\ \A i \in Endpoints :
             /\ pipe'[i].isBusy = pipe[i].isBusy /\ pipe'[i].epBusy = pipe[i].epBusy
             /\ pipe'[i].transferring = pipe[i].transferring /\ pipe'[i].open = pipe[i].open
             /\ pipe'[i].pipeStall = pipe[i].pipeStall /\ pipe'[i].queued = pipe[i].queued
    BY <1>4, IgnoreEffect
  <2> QED BY <2>1 DEF LayerInv, OpenInv, InterruptPipe
<1> QED BY <1>1, <1>2, <1>3, <1>4

LEMMA LayerStep == TypeInv /\ LayerInv /\ [Next]_vars => LayerInv'
<1> SUFFICES ASSUME TypeInv, LayerInv, [Next]_vars PROVE LayerInv'
  OBVIOUS
<1>1. CASE UNCHANGED <<deviceVars, pipe>>
  BY <1>1 DEF LayerInv, OpenInv
<1>2. CASE UsbInterrupt
  BY <1>2, LayerControl, LayerHalts, LayerTransfers DEF UsbInterrupt
<1>3. CASE AppTask
  <2>1. /\ UNCHANGED <<devState, cfg, attach>> /\ pipe'["BulkIn"].open = pipe["BulkIn"].open
        /\ pipe'["InterruptIn"] = pipe["InterruptIn"] /\ pipe'["BulkOut"] = pipe["BulkOut"]
    BY <1>3, MainPipes
  <2> QED BY <2>1, LayerParts DEF LayerInv, OpenInv, Endpoints
<1> QED BY <1>1, <1>2, <1>3 DEF Next, HostWrites, WriteLines, vars

(* Everything TypeInv and LayerInv say, always.                             *)
LEMMA Layers == Spec => [](TypeInv /\ LayerInv)
BY TypeInit, TypeStep, LayerInit, LayerStep, PTL DEF Spec

(* On bulk OUT and the notification pipe, whatever the host resets, configures   *)
(* and halts: the device layer's busy flag is exactly the controller's, the       *)
(* class's is held for exactly one of a transfer in the controller and one backed *)
(* up, and what is backed up waits for the end of a halt. Nothing is said of the   *)
(* reply's pipe, on which the main loop works in steps.                      *)
THEOREM LayersInAgreement == Spec => []LayersAgree
<1>1. LayerInv => LayersAgree
  BY DEF LayerInv, LayersAgree, InterruptPipe
<1> QED BY <1>1, Layers, PTL
------------------------------------------------------------------------------
(* As long as the host halts nothing, a busy flag stands for a transfer or for   *)
(* the main loop about to start one, and somebody has the turn.              *)

(* APPTask between the class's flag and the controller.                      *)
Handing == pc \in {"stallCheck", "backup", "claim", "prime"}

(* A flag of an interrupt's pipe is a transfer; one of the reply's pipe may be   *)
(* the main loop's.                                                          *)
BusyForAReason ==
  /\ pc # "backup"
  /\ \A e \in Endpoints : ~pipe[e].pipeStall /\ ~pipe[e].queued
  /\ pipe["InterruptIn"].isBusy => pipe["InterruptIn"].transferring
  /\ pipe["BulkOut"].isBusy => pipe["BulkOut"].transferring
  /\ pipe["BulkIn"].open /\ pipe["BulkIn"].isBusy => pipe["BulkIn"].transferring \/ Handing
  /\ pipe["BulkIn"].open /\ pipe["BulkIn"].epBusy => pipe["BulkIn"].transferring \/ pc = "prime"

Awake ==
  /\ pc # "idle" \/ pipe["BulkIn"].transferring => startTransactions
  /\ attach /\ ~deafened => Listening \/ Answering \/ Sending

UnhaltedInv ==
  BusyForAReason /\ Awake /\ (hasSentState <=> pipe["InterruptIn"].isBusy)

LEMMA UnhaltedInit == Init => UnhaltedInv
<1> SUFFICES ASSUME Init PROVE UnhaltedInv
  OBVIOUS
<1>1. \A e \in Endpoints : pipe[e] = ClosedPipe
  BY DEF Init
<1> QED BY <1>1, FreshFields
        DEF Init, UnhaltedInv, BusyForAReason, Awake, Handing, Endpoints

LEMMA UnhaltedControl ==
  ASSUME TypeInv, LayerInv, UnhaltedInv,
         BusReset \/ SetAddress \/ Configure \/ Unconfigure \/ SetControlLineState
  PROVE  UnhaltedInv'
<1> USE DEF UnhaltedInv, BusyForAReason, Awake, Handing, Listening, Sending, Answering
<1>0. pipe \in Pipes /\ \A e \in Endpoints : pipe[e] \in Pipe
  BY PipeTypes DEF Pipes
<1>1. CASE BusReset \/ Unconfigure
  <2>1. /\ \A e \in Endpoints : pipe'[e] \in {Deinit(pipe[e]), BusResetPipe(pipe[e])}
        /\ attach' = FALSE /\ UNCHANGED <<pc, startTransactions>>
        /\ hasSentState' = (hasSentState /\ ~NotificationCancelled)
    BY <1>1, ResetEffect
  <2>2. \A e \in Endpoints :
          /\ ~pipe'[e].transferring /\ ~pipe'[e].epBusy /\ ~pipe'[e].open
          /\ pipe'[e].isBusy = (pipe[e].isBusy /\ ~(pipe[e].transferring /\ pipe[e].open))
          /\ ~pipe'[e].pipeStall /\ ~pipe'[e].queued
    <3> SUFFICES ASSUME NEW e \in Endpoints
                 PROVE  /\ ~pipe'[e].transferring /\ ~pipe'[e].epBusy /\ ~pipe'[e].open
                        /\ pipe'[e].isBusy = (pipe[e].isBusy /\ ~(pipe[e].transferring /\ pipe[e].open))
                        /\ ~pipe'[e].pipeStall /\ ~pipe'[e].queued
      OBVIOUS
    <3>1. \A q \in {Deinit(pipe[e]), BusResetPipe(pipe[e])} :
            /\ ~q.transferring /\ ~q.epBusy /\ ~q.open
            /\ q.isBusy = (pipe[e].isBusy /\ ~(pipe[e].transferring /\ pipe[e].open))
            /\ q.pipeStall = pipe[e].pipeStall /\ q.queued = pipe[e].queued
      BY <1>0, DeinitFields
    <3> QED BY <2>1, <3>1
  <2>3. /\ pipe["InterruptIn"].transferring => pipe["InterruptIn"].open
        /\ pipe["BulkOut"].transferring => pipe["BulkOut"].open
    BY LayerParts DEF InterruptPipe
  <2> QED BY <2>1, <2>2, <2>3 DEF NotificationCancelled, Endpoints
<1>2. CASE SetAddress
  BY <1>2 DEF SetAddress
<1>3. CASE Configure
  <2> DEFINE pipes == IF cfg = 1 THEN pipe ELSE [e \in Endpoints |-> Opened(pipe[e])]
             q == Submit(pipes["BulkOut"], MaxPacketSize)
  <2>1. /\ UNCHANGED <<pc, startTransactions, lineVars>>
        /\ pipe' = [pipes EXCEPT !["BulkOut"] = q]
        /\ hasSentState' = (hasSentState /\ (cfg = 1 \/ ~NotificationCancelled))
    BY <1>3 DEF Configure
  <2>2. /\ pipes \in Pipes /\ \A e \in Endpoints : ~pipes[e].pipeStall /\ ~pipes[e].queued
        /\ pipes["BulkOut"].open /\ InterruptPipe(pipes["BulkOut"])
        /\ pipes["BulkOut"].isBusy => pipes["BulkOut"].transferring
        /\ pipes["InterruptIn"].isBusy => pipes["InterruptIn"].transferring
        /\ pipes["BulkIn"].open /\ pipes["BulkIn"].isBusy => pipes["BulkIn"].transferring \/ Handing
        /\ pipes["BulkIn"].open /\ pipes["BulkIn"].epBusy => pipes["BulkIn"].transferring \/ pc = "prime"
        /\ pipes["BulkIn"].transferring => startTransactions
    <3>1. CASE cfg = 1
      BY <1>0, <3>1, LayerParts DEF Endpoints, OpenInv
    <3>2. CASE cfg # 1
      <4>1. \A e \in Endpoints : /\ pipes[e] \in Pipe /\ pipes[e].open
                                  /\ ~pipes[e].isBusy /\ ~pipes[e].epBusy
                                  /\ ~pipes[e].transferring /\ ~pipes[e].queued
                                  /\ ~pipes[e].pipeStall
        BY <1>0, <3>2, OpenedFields
      <4>2. pipes \in Pipes
        BY <1>0, <3>2, OpenedFields DEF Pipes
      <4> HIDE DEF pipes
      <4> QED BY <4>1, <4>2 DEF Endpoints, InterruptPipe
    <3> QED BY <3>1, <3>2
  <2>3. hasSentState' <=> pipes["InterruptIn"].isBusy
    <3>1. CASE cfg = 1
      BY <2>1, <3>1
    <3>2. CASE cfg # 1
      <4>1. ~pipes["InterruptIn"].isBusy
        BY <1>0, <3>2, OpenedFields DEF Endpoints
      <4> HIDE DEF pipes
      <4> QED BY <2>1, <3>2, <4>1, LayerParts DEF Endpoints, NotificationCancelled, InterruptPipe
    <3> QED BY <3>1, <3>2
  <2> HIDE DEF pipes
  <2>4. pipes["BulkOut"] \in Pipe
    BY <2>2 DEF Pipes, Endpoints
  <2>5. q.transferring /\ q.open /\ ~q.pipeStall /\ ~q.queued
    BY <2>2, <2>4, SubmitFields, PacketSizes DEF InterruptPipe, Endpoints
  <2> HIDE DEF q
  <2>6. /\ pipe'["BulkOut"] = q /\ pipe'["BulkIn"] = pipes["BulkIn"]
        /\ pipe'["InterruptIn"] = pipes["InterruptIn"]
    BY <2>1, <2>2 DEF Pipes, Endpoints
  <2> QED BY <2>1, <2>2, <2>3, <2>5, <2>6 DEF Endpoints
<1>4. CASE SetControlLineState
  <2> DEFINE q == Submit(pipe["InterruptIn"], NOTIF_LEN)
  <2>1. /\ UNCHANGED <<attach, pc, lineVars, deafened>> /\ hasSentState' = TRUE
        /\ startTransactions' = (startTransactions \/ attach)
        /\ pipe' = IF hasSentState THEN pipe ELSE [pipe EXCEPT !["InterruptIn"] = q]
    BY <1>4 DEF SetControlLineState
  <2>2. ~hasSentState => q.isBusy /\ q.transferring /\ ~q.pipeStall /\ ~q.queued
    BY <1>0, SubmitFields, PacketSizes, LayerParts DEF Endpoints, InterruptPipe
  <2> HIDE DEF q
  <2>3. /\ pipe'["BulkIn"] = pipe["BulkIn"] /\ pipe'["BulkOut"] = pipe["BulkOut"]
        /\ pipe'["InterruptIn"] = IF hasSentState THEN pipe["InterruptIn"] ELSE q
    BY <1>0, <2>1 DEF Pipes, Endpoints
  <2> QED BY <2>1, <2>2, <2>3 DEF Endpoints
<1> QED BY <1>1, <1>2, <1>3, <1>4

LEMMA UnhaltedTransfers ==
  ASSUME TypeInv, LayerInv, UnhaltedInv,
         \/ NotificationSent \/ ReceivePacket \/ SendChunk
         \/ \E e \in {"InterruptIn", "BulkIn"} : IgnoreToken(e)
  PROVE  UnhaltedInv'
<1> USE DEF UnhaltedInv, BusyForAReason, Awake, Handing, Listening, Sending, Answering
<1>0. pipe \in Pipes /\ \A e \in Endpoints : pipe[e] \in Pipe
  BY PipeTypes DEF Pipes
<1>1. CASE NotificationSent
  <2> DEFINE q == Released(pipe["InterruptIn"])
  <2>1. /\ UNCHANGED <<attach, startTransactions, pc, lineVars, deafened>> /\ hasSentState' = FALSE
        /\ pipe' = [pipe EXCEPT !["InterruptIn"] = q]
    BY <1>1 DEF NotificationSent
  <2>2. ~q.isBusy /\ ~q.pipeStall /\ ~q.queued
    BY <1>0, ReleasedFields DEF Endpoints
  <2> HIDE DEF q
  <2>3. /\ pipe'["BulkIn"] = pipe["BulkIn"] /\ pipe'["BulkOut"] = pipe["BulkOut"]
        /\ pipe'["InterruptIn"] = q
    BY <1>0, <2>1 DEF Pipes, Endpoints
  <2> QED BY <2>1, <2>2, <2>3 DEF Endpoints
<1>2. CASE ReceivePacket
  <2> DEFINE released == Released(pipe["BulkOut"])
             q == Submit(released, MaxPacketSize)
  <2>1. /\ UNCHANGED <<attach, startTransactions, hasSentState, pc>> /\ released \in Pipe
        /\ pipe["BulkOut"].open
        /\ pipe'["InterruptIn"] = pipe["InterruptIn"] /\ pipe'["BulkIn"] = pipe["BulkIn"]
    BY <1>2, ReceiveEffect
  <2>2. \/ deafened' = TRUE /\ pipe'["BulkOut"] = released
        \/ lineReady' /\ pipe'["BulkOut"] = released
        \/ lineReady' = lineReady /\ pipe'["BulkOut"] = q
    BY <1>2, ReceiveEffect
  <2>3. ~released.isBusy /\ ~released.epBusy /\ ~released.pipeStall /\ ~released.queued
        /\ released.open
    BY <1>0, <2>1, ReleasedFields DEF Endpoints
  <2> HIDE DEF released
  <2>4. q.transferring /\ q.open /\ ~q.pipeStall /\ ~q.queued
    BY <2>1, <2>3, SubmitFields, PacketSizes
  <2> HIDE DEF q
  <2>5. /\ ~pipe'["BulkOut"].pipeStall /\ ~pipe'["BulkOut"].queued
        /\ pipe'["BulkOut"].isBusy => pipe'["BulkOut"].transferring
    BY <2>2, <2>3, <2>4
  <2>6. deafened' = TRUE \/ lineReady' \/ (pipe'["BulkOut"].open /\ pipe'["BulkOut"].transferring)
    BY <2>2, <2>4
  <2> QED BY <2>1, <2>5, <2>6 DEF Endpoints
<1>3. CASE SendChunk
  <2> DEFINE p == pipe["BulkIn"]
             n == p.transferDone + Chunk(p)
             r == Released(Sent(p))
             done == [pipe EXCEPT !["BulkIn"] = r]
  <2>1. /\ UNCHANGED <<attach, startTransactions, hasSentState, pc, lineVars, deafened>>
        /\ p.open /\ p.transferring /\ n \in Nat
        /\ \/ pipe' = [pipe EXCEPT !["BulkIn"] = Sent(p)]
           \/ done \in Pipes /\ pipe' = SendResponse(done, n)
    BY <1>3, SendEffect
  <2>2. /\ Sent(p) \in Pipe /\ Sent(p).open /\ Sent(p).transferring
        /\ ~Sent(p).pipeStall /\ ~Sent(p).queued
    BY <2>1, SentFields, PipeTypes DEF TypeInv, Endpoints
  <2>3. CASE pipe' = [pipe EXCEPT !["BulkIn"] = Sent(p)]
    <3>1. /\ pipe'["BulkIn"] = Sent(p) /\ pipe'["BulkOut"] = pipe["BulkOut"]
          /\ pipe'["InterruptIn"] = pipe["InterruptIn"]
      BY <1>0, <2>3 DEF Pipes, Endpoints
    <3> QED BY <2>1, <2>2, <3>1 DEF Endpoints
  <2>4. CASE done \in Pipes /\ pipe' = SendResponse(done, n)
    <3>1. /\ r \in Pipe /\ ~r.isBusy /\ ~r.epBusy /\ ~r.transferring /\ ~r.pipeStall /\ ~r.queued
          /\ r.open
      BY <2>2, ReleasedFields
    <3>2. /\ done["BulkIn"] = r /\ done["BulkOut"] = pipe["BulkOut"]
          /\ done["InterruptIn"] = pipe["InterruptIn"]
      BY <1>0 DEF Pipes, Endpoints
    <3> HIDE DEF done, r, n
    <3>3. pipe'["InterruptIn"] = pipe["InterruptIn"]
      BY <2>1, <2>4, <3>2, SendResponseFields
    <3>4. CASE pipe'["BulkIn"] = Submit(r, 0) /\ pipe'["BulkOut"] = pipe["BulkOut"]
      <4>1. /\ Submit(r, 0).transferring /\ Submit(r, 0).open /\ ~Submit(r, 0).pipeStall
            /\ ~Submit(r, 0).queued
        BY <3>1, SubmitFields, PacketSizes
      <4> QED BY <2>1, <3>3, <3>4, <4>1 DEF Endpoints
    <3>5. CASE /\ attach /\ startTransactions /\ pipe'["BulkIn"] = r
               /\ pipe'["BulkOut"] = Submit(pipe["BulkOut"], MaxPacketSize)
      <4> DEFINE q == Submit(pipe["BulkOut"], MaxPacketSize)
      <4>1. pipe["BulkOut"].open /\ InterruptPipe(pipe["BulkOut"])
        BY <3>5, LayerParts DEF OpenInv, Endpoints
      <4>2. q.transferring /\ q.open /\ ~q.pipeStall /\ ~q.queued
        BY <1>0, <4>1, SubmitFields, PacketSizes DEF Endpoints, InterruptPipe
      <4> HIDE DEF q
      <4>3. pipe'["BulkOut"] = q
        BY <3>5 DEF q
      <4> QED BY <2>1, <3>1, <3>3, <3>5, <4>2, <4>3 DEF Endpoints
    <3>6. CASE ~(attach /\ startTransactions) /\ pipe' = done
      BY <2>1, <3>1, <3>2, <3>6 DEF Endpoints
    <3> QED BY <2>1, <2>4, <3>2, <3>4, <3>5, <3>6, SendResponseFields
  <2> QED BY <2>1, <2>3, <2>4
<1>4. ASSUME NEW e \in {"InterruptIn", "BulkIn"}, IgnoreToken(e)
      PROVE  UnhaltedInv'
  <2>1. /\ UNCHANGED <<attach, startTransactions, hasSentState, pc, lineReady, deafened>>
        /\ \A i \in Endpoints :
             /\ pipe'[i].isBusy = pipe[i].isBusy /\ pipe'[i].epBusy = pipe[i].epBusy
             /\ pipe'[i].transferring = pipe[i].transferring /\ pipe'[i].open = pipe[i].open
             /\ pipe'[i].pipeStall = pipe[i].pipeStall /\ pipe'[i].queued = pipe[i].queued
    BY <1>4, IgnoreEffect
  <2> QED BY <2>1 DEF Endpoints
<1> QED BY <1>1, <1>2, <1>3, <1>4

LEMMA UnhaltedMain ==
  ASSUME TypeInv, LayerInv, UnhaltedInv, AppTask
  PROVE  UnhaltedInv'
<1> USE DEF UnhaltedInv, BusyForAReason, Awake, Handing, Listening, Sending, Answering
<1> DEFINE p == pipe["BulkIn"]
<1>0. /\ pipe \in Pipes /\ p \in Pipe /\ size \in Nat
  BY PipeTypes DEF Pipes, TypeInv, TypeOK
<1>1. /\ UNCHANGED <<attach, startTransactions, hasSentState, deafened>>
      /\ pipe'["InterruptIn"] = pipe["InterruptIn"] /\ pipe'["BulkOut"] = pipe["BulkOut"]
  BY MainPipes
<1>2. CASE StartCommand \/ ParseCommand \/ BuildReply \/ ClearLine \/ SetSendSize
            \/ TakeSendSize
  <2>1. /\ pipe' = pipe /\ pc' \notin {"idle", "backup"}
        /\ startTransactions /\ ~Handing
    BY <1>2 DEF StartCommand, ParseCommand, BuildReply, ClearLine, SetSendSize, TakeSendSize
  <2> QED BY <1>1, <2>1
<1>3. CASE ClaimPipe
  <2>1. CASE p.isBusy
    <3>1. pipe' = pipe /\ pc' = "idle" /\ pc = "send"
      BY <1>3, <2>1 DEF ClaimPipe
    <3> QED BY <1>1, <2>1, <3>1, LayerParts DEF OpenInv, Endpoints
  <2>2. CASE ~p.isBusy
    <3> DEFINE q == [p EXCEPT !.isBusy = TRUE]
    <3>1. pipe'["BulkIn"] = q /\ pc' = "stallCheck" /\ pc = "send"
      BY <1>0, <1>3, <2>2 DEF ClaimPipe, Pipes, Endpoints
    <3>2. /\ q.open = p.open /\ q.transferring = p.transferring /\ q.epBusy = p.epBusy
          /\ ~q.pipeStall /\ ~q.queued
      BY <1>0 DEF Pipe, Endpoints
    <3> HIDE DEF q
    <3> QED BY <1>1, <3>1, <3>2 DEF Endpoints
  <2> QED BY <2>1, <2>2
<1>4. CASE CheckStall
  <2>1. pipe' = pipe /\ pc = "stallCheck" /\ pc' = "claim"
    BY <1>4 DEF CheckStall, Endpoints
  <2> QED BY <1>1, <2>1
<1>5. CASE BackupReply
  BY <1>5 DEF BackupReply
<1>6. CASE ClaimEndpoint
  <2>1. CASE p.epBusy
    <3> DEFINE q == [p EXCEPT !.isBusy = FALSE]
    <3>1. pipe'["BulkIn"] = q /\ pc' = "idle" /\ pc = "claim"
      BY <1>0, <1>6, <2>1 DEF ClaimEndpoint, Pipes, Endpoints
    <3>2. /\ q.open = p.open /\ q.transferring = p.transferring /\ q.epBusy = p.epBusy
          /\ ~q.pipeStall /\ ~q.queued /\ ~q.isBusy
      BY <1>0 DEF Pipe, Endpoints
    <3> HIDE DEF q
    <3> QED BY <1>1, <2>1, <3>1, <3>2, LayerParts DEF OpenInv, Endpoints
  <2>2. CASE ~p.epBusy
    <3> DEFINE q == [p EXCEPT !.epBusy = TRUE]
    <3>1. pipe'["BulkIn"] = q /\ pc' = "prime" /\ pc = "claim"
      BY <1>0, <1>6, <2>2 DEF ClaimEndpoint, Pipes, Endpoints
    <3>2. /\ q.open = p.open /\ q.transferring = p.transferring
          /\ ~q.pipeStall /\ ~q.queued
      BY <1>0 DEF Pipe, Endpoints
    <3> HIDE DEF q
    <3> QED BY <1>1, <3>1, <3>2 DEF Endpoints
  <2> QED BY <2>1, <2>2
<1>7. CASE PrimeReply
  <2> DEFINE q == Prime(p, size)
  <2>1. pipe'["BulkIn"] = q /\ pc' = "idle" /\ pc = "prime"
    BY <1>0, <1>7 DEF PrimeReply, Pipes, Endpoints
  <2>2. q.transferring /\ q.open = p.open /\ ~q.pipeStall /\ ~q.queued
    BY <1>0 DEF Prime, Pipe, Endpoints
  <2> HIDE DEF q
  <2> QED BY <1>1, <2>1, <2>2, LayerParts DEF OpenInv, Endpoints
<1> QED BY <1>2, <1>3, <1>4, <1>5, <1>6, <1>7 DEF AppTask

LEMMA UnhaltedStep ==
  TypeInv /\ LayerInv /\ (halts = 0 => UnhaltedInv) /\ [Next]_vars => (halts = 0 => UnhaltedInv)'
<1> SUFFICES ASSUME TypeInv, LayerInv, halts = 0 => UnhaltedInv, [Next]_vars, halts' = 0
             PROVE  UnhaltedInv'
  OBVIOUS
<1>1. \A e \in Endpoints : ~SetHalt(e) /\ ~ClearHalt(e)
  BY DEF SetHalt, ClearHalt, TypeInv, TypeOK
<1>2. CASE UsbInterrupt
  <2>1. halts = 0
    BY <1>1, <1>2 DEF UsbInterrupt, BusReset, SetAddress, Configure, Unconfigure,
                      SetControlLineState, NotificationSent, ReceivePacket, SendChunk,
                      IgnoreToken
  <2> QED BY <1>1, <1>2, <2>1, UnhaltedControl, UnhaltedTransfers DEF UsbInterrupt
<1>3. CASE AppTask
  <2>1. halts = 0
    BY <1>3, MainPipes
  <2> QED BY <1>3, <2>1, UnhaltedMain
<1>4. CASE HostWrites \/ UNCHANGED vars
  <2>1. UNCHANGED <<deviceVars, pipe, lineVars, pc, deafened, halts>>
    BY <1>4 DEF HostWrites, WriteLines, vars
  <2> QED BY <2>1 DEF UnhaltedInv, BusyForAReason, Awake, Handing, Listening, Sending, Answering
<1> QED BY <1>2, <1>3, <1>4 DEF Next

LEMMA Unhalted == Spec => [](TypeInv /\ LayerInv /\ (halts = 0 => UnhaltedInv))
<1>1. Init => (halts = 0 => UnhaltedInv)
  BY UnhaltedInit
<1> QED BY <1>1, TypeInit, TypeStep, LayerInit, LayerStep, UnhaltedStep, PTL DEF Spec

(* No busy flag is left behind by any number of resets and changes of            *)
(* configuration, wherever they find the main loop: a later transfer is not     *)
(* refused. Halts are excepted, whose race with the main loop leaves one.      *)
THEOREM FlagsReleased == Spec => [](halts = 0 => NoStuckBusy)
<1>1. UnhaltedInv => NoStuckBusy
  BY DEF UnhaltedInv, BusyForAReason, Handing, NoStuckBusy, Endpoints
<1> QED BY <1>1, Unhalted, PTL

(* The bridge is never deaf, whenever the host resets and configures it: it is    *)
(* never without a receive, a line or a transfer of its own in the driver's books. *)
THEOREM StaysAwake == Spec => [](halts = 0 => NeverDeaf)
<1>1. UnhaltedInv => NeverDeaf
  BY DEF UnhaltedInv, Awake, NeverDeaf
<1> QED BY <1>1, Unhalted, PTL

(* hasSentState is set exactly while a notification is on its way, through resets *)
(* and changes of configuration.                                             *)
THEOREM NotificationsCounted == Spec => [](halts = 0 => NotificationTracked)
<1>1. UnhaltedInv => NotificationTracked
  BY DEF UnhaltedInv, NotificationTracked
<1> QED BY <1>1, Unhalted, PTL
------------------------------------------------------------------------------
(* As long as the host neither resets nor reconfigures, the turn belongs to one  *)
(* of three: the host, whose packets come in; the main loop, which works on the   *)
(* line; the reply. Which one is told by the class's busy flags, that outlast a    *)
(* transfer backed up by a halt, and by where APPTask is.                        *)

Hearing == pipe["BulkOut"].isBusy
Working == \/ lineReady
           \/ pc \in {"parse", "reply", "clear", "clearLen", "clearReady", "setSize",
                      "takeSize", "send"}
Talking == pipe["BulkIn"].isBusy

OneHasTheTurn ==
  /\ ~(Hearing /\ Working) /\ ~(Hearing /\ Talking) /\ ~(Working /\ Talking)
  /\ cfg = 0 => ~Hearing /\ ~Working /\ ~Talking /\ pc = "idle"

(* s_lineReady is set from the end of the line until ClearLine resets it.      *)
ReadyWhileWorking ==
  /\ pc \in {"parse", "reply", "clear", "clearReady"} => lineReady
  /\ lineReady => pc \in {"idle", "parse", "reply", "clear", "clearReady"}

(* The reply's pipe: what the layers and the main loop say of it.             *)
ReplyPipe(p) ==
  /\ p.transferring => p.isBusy /\ p.epBusy
  /\ p.epBusy => p.transferring \/ pc = "prime"
  /\ p.queued => p.isBusy /\ ~p.epBusy /\ ~Handing
  /\ Handing => p.isBusy /\ ~p.transferring
  /\ pc = "prime" => p.epBusy

TurnInv == OneHasTheTurn /\ ReadyWhileWorking /\ ReplyPipe(pipe["BulkIn"])

LEMMA TurnInit == Init => TurnInv
<1> SUFFICES ASSUME Init PROVE TurnInv
  OBVIOUS
<1>1. \A e \in Endpoints : pipe[e] = ClosedPipe
  BY DEF Init
<1> QED BY <1>1, FreshFields
        DEF Init, TurnInv, OneHasTheTurn, ReadyWhileWorking, ReplyPipe, Handing, Hearing,
            Working, Talking, Endpoints

(* The step of an interrupt that leaves the line and the bulk pipes' flags as    *)
(* they were, or frees one of them.                                          *)
LEMMA TurnControl ==
  ASSUME TypeInv, LayerInv, TurnInv, resets = 0, resets' = 0,
         SetAddress \/ Configure \/ SetControlLineState \/ NotificationSent
  PROVE  TurnInv'
<1> USE DEF TurnInv, OneHasTheTurn, ReadyWhileWorking, ReplyPipe, Handing, Hearing, Working,
            Talking
<1>0. pipe \in Pipes /\ \A e \in Endpoints : pipe[e] \in Pipe
  BY PipeTypes DEF Pipes
<1>1. CASE SetAddress
  BY <1>1 DEF SetAddress
<1>2. CASE SetControlLineState \/ NotificationSent
  <2>1. /\ UNCHANGED <<pc, lineReady, cfg>> /\ pipe'["BulkIn"] = pipe["BulkIn"]
        /\ pipe'["BulkOut"] = pipe["BulkOut"]
    BY <1>0, <1>2 DEF SetControlLineState, NotificationSent, Pipes, Endpoints
  <2> QED BY <2>1
<1>3. CASE Configure
  <2> DEFINE fresh == [e \in Endpoints |-> Opened(pipe[e])]
  <2>1. devState # "Configured"
    BY <1>3 DEF Configure
  <2>2. cfg = 0 /\ cfg' = 1 /\ UNCHANGED <<pc, lineVars>>
    BY <1>3, <2>1 DEF Configure, LayerInv, OpenInv, TypeInv, TypeOK
  <2>3. pipe' = [fresh EXCEPT !["BulkOut"] = Submit(@, MaxPacketSize)]
    BY <1>3, <2>2 DEF Configure
  <2>4. pipe'["BulkIn"] = Opened(pipe["BulkIn"])
    BY <2>3 DEF Endpoints
  <2> QED BY <1>0, <2>2, <2>4, OpenedFields DEF Endpoints
<1> QED BY <1>1, <1>2, <1>3

(* A halt set or cleared while one has the turn: the pipe's transfer is cancelled, *)
(* or the one that was backed up starts; it is never refused.                 *)
LEMMA HaltEffect ==
  ASSUME TypeInv, LayerInv, TurnInv, NEW e \in Endpoints, SetHalt(e) \/ ClearHalt(e)
  PROVE  /\ UNCHANGED <<devState, cfg, attach, startTransactions, lineVars, mainVars, hostVars, resets>>
         /\ cfg = 1 /\ \A i \in Endpoints : i # e => pipe'[i] = pipe[i]
         /\ pipe'[e].isBusy = pipe[e].isBusy \/ (~pipe'[e].isBusy /\ pipe[e].transferring)
         /\ \/ /\ pipe[e].queued /\ pipe'[e].transferring /\ pipe'[e].isBusy
               /\ pipe'[e].epBusy /\ ~pipe'[e].queued
               /\ pipe'[e].transferLength = pipe[e].pipeDataLen /\ pipe'[e].transferDone = 0
            \/ /\ ~pipe'[e].transferring /\ pipe'[e].queued = pipe[e].queued
               /\ pipe'[e].epBusy = (pipe[e].epBusy /\ ~pipe[e].transferring)
               /\ pipe'[e].pipeDataLen = pipe[e].pipeDataLen
<1> DEFINE p == pipe[e]
           q == IF SetHalt(e) THEN Stalled(p)
                ELSE IF MustResubmit(p) THEN Resubmitted(p) ELSE Unstalled(p)
<1>0. pipe \in Pipes /\ p \in Pipe
  BY PipeTypes DEF Pipes
<1>1. /\ UNCHANGED <<devState, cfg, attach, startTransactions, lineVars, mainVars, hostVars, resets>>
      /\ cfg = 1 /\ p.open
  BY DEF SetHalt, ClearHalt, LayerInv, OpenInv
<1>2. p.transferring => p.isBusy /\ p.epBusy
  BY LayerParts DEF InterruptPipe, Endpoints, TurnInv, ReplyPipe
<1>3. p.queued => p.isBusy /\ ~p.epBusy /\ ~p.transferring
  BY <1>2, LayerParts DEF InterruptPipe, Endpoints, TurnInv, ReplyPipe
<1>4. pipe' = [pipe EXCEPT ![e] = q]
  <2>1. CASE SetHalt(e)
    BY <2>1 DEF SetHalt
  <2>2. CASE ClearHalt(e) /\ ~SetHalt(e)
    <3>1. MustResubmit(p) => ~Unstalled(p).epBusy
      BY <1>0, <1>3, HaltFields DEF MustResubmit
    <3> QED BY <2>2, <3>1, ClearHaltEffect
  <2> QED BY <2>1, <2>2
<1>5. /\ q.isBusy = p.isBusy \/ (~q.isBusy /\ p.transferring)
      /\ \/ /\ p.queued /\ q.transferring /\ q.isBusy /\ q.epBusy /\ ~q.queued
            /\ q.transferLength = p.pipeDataLen /\ q.transferDone = 0
         \/ /\ ~q.transferring /\ q.queued = p.queued
            /\ q.epBusy = (p.epBusy /\ ~p.transferring) /\ q.pipeDataLen = p.pipeDataLen
  <2>1. CASE ~SetHalt(e) /\ MustResubmit(p)
    BY <1>0, <1>3, <2>1, ResubmittedFields DEF MustResubmit
  <2>2. CASE SetHalt(e) \/ ~MustResubmit(p)
    <3>1. /\ ~q.transferring /\ q.isBusy = (p.isBusy /\ ~(p.transferring /\ p.open))
          /\ q.epBusy = (p.epBusy /\ ~(p.transferring /\ p.open)) /\ q.queued = p.queued
          /\ q.pipeDataLen = p.pipeDataLen
      BY <1>0, <2>2, HaltFields
    <3>2. p.isBusy \in BOOLEAN /\ p.epBusy \in BOOLEAN
      BY <1>0 DEF Pipe
    <3> HIDE DEF q
    <3> QED BY <1>1, <3>1, <3>2
  <2> QED BY <2>1, <2>2
<1> HIDE DEF q
<1>6. pipe'[e] = q /\ \A i \in Endpoints : i # e => pipe'[i] = pipe[i]
  BY <1>0, <1>4 DEF Pipes
<1> QED BY <1>1, <1>5, <1>6

LEMMA TurnHalts ==
  ASSUME TypeInv, LayerInv, TurnInv, NEW e \in Endpoints, SetHalt(e) \/ ClearHalt(e)
  PROVE  TurnInv'
<1> USE DEF TurnInv, OneHasTheTurn, ReadyWhileWorking, ReplyPipe, Handing, Hearing, Working,
            Talking
<1>1. UNCHANGED <<pc, lineReady, cfg>> /\ cfg = 1
  BY HaltEffect
<1>2. CASE e = "BulkIn"
  <2>1. pipe'["BulkOut"] = pipe["BulkOut"]
    BY <1>2, HaltEffect DEF Endpoints
  <2> QED BY <1>1, <1>2, <2>1, HaltEffect
<1>3. CASE e # "BulkIn"
  <2>1. pipe'["BulkIn"] = pipe["BulkIn"]
    BY <1>3, HaltEffect DEF Endpoints
  <2>2. Hearing' => Hearing
    BY <1>3, LayerParts, HaltEffect DEF Endpoints, InterruptPipe
  <2> QED BY <1>1, <2>1, <2>2
<1> QED BY <1>2, <1>3

LEMMA TurnTransfers ==
  ASSUME TypeInv, LayerInv, TurnInv,
         \/ ReceivePacket \/ SendChunk
         \/ \E e \in {"InterruptIn", "BulkIn"} : IgnoreToken(e)
  PROVE  TurnInv'
<1> USE DEF TurnInv, OneHasTheTurn, ReadyWhileWorking, ReplyPipe, Handing, Hearing, Working,
            Talking
<1>0. pipe \in Pipes /\ \A e \in Endpoints : pipe[e] \in Pipe
  BY PipeTypes DEF Pipes
<1>1. CASE ReceivePacket
  <2> DEFINE released == Released(pipe["BulkOut"])
  <2>1. /\ UNCHANGED <<pc, cfg>> /\ pipe["BulkOut"].transferring /\ pipe["BulkOut"].open
        /\ pipe'["BulkIn"] = pipe["BulkIn"]
        /\ \/ pipe'["BulkOut"] = released
           \/ lineReady' = lineReady
    BY <1>1, ReceiveEffect
  <2>2. ~released.isBusy
    BY <1>0, ReleasedFields DEF Endpoints
  <2>3. pipe["BulkOut"].isBusy /\ cfg # 0
    BY <2>1, LayerParts DEF InterruptPipe, LayerInv, OpenInv, Endpoints
  <2>4. pc = "idle" /\ ~pipe["BulkIn"].isBusy /\ ~lineReady
    BY <2>3 DEF TypeInv, TypeOK, MainSteps
  <2> HIDE DEF released
  <2> QED BY <2>1, <2>2, <2>3, <2>4
<1>2. CASE SendChunk
  <2> DEFINE p == pipe["BulkIn"]
             n == p.transferDone + Chunk(p)
             r == Released(Sent(p))
             done == [pipe EXCEPT !["BulkIn"] = r]
  <2>1. /\ UNCHANGED <<pc, lineReady, cfg>> /\ p.open /\ p.transferring /\ n \in Nat
        /\ \/ pipe' = [pipe EXCEPT !["BulkIn"] = Sent(p)]
           \/ done \in Pipes /\ pipe' = SendResponse(done, n)
    BY <1>2, SendEffect
  <2>2. cfg # 0 /\ pc = "idle" /\ ~lineReady /\ ~pipe["BulkOut"].isBusy /\ p.epBusy /\ ~p.queued
    BY <2>1 DEF LayerInv, OpenInv, Endpoints, TypeInv, TypeOK, MainSteps
  <2>3. /\ Sent(p) \in Pipe /\ Sent(p).isBusy = p.isBusy /\ Sent(p).epBusy = p.epBusy
        /\ Sent(p).transferring = p.transferring /\ Sent(p).queued = p.queued
    BY SentFields DEF TypeInv, Endpoints
  <2>4. CASE pipe' = [pipe EXCEPT !["BulkIn"] = Sent(p)]
    <3>1. pipe'["BulkIn"] = Sent(p) /\ pipe'["BulkOut"] = pipe["BulkOut"]
      BY <1>0, <2>4 DEF Pipes, Endpoints
    <3> QED BY <2>1, <2>2, <2>3, <3>1
  <2>5. CASE done \in Pipes /\ pipe' = SendResponse(done, n)
    <3>1. /\ r \in Pipe /\ ~r.isBusy /\ ~r.epBusy /\ ~r.transferring /\ ~r.queued
      BY <2>2, <2>3, ReleasedFields
    <3>2. done["BulkIn"] = r /\ done["BulkOut"] = pipe["BulkOut"]
      BY <1>0 DEF Pipes, Endpoints
    <3>3. LET z == Submit(r, 0)
          IN  /\ z.isBusy /\ (z.transferring <=> z.epBusy) /\ (z.queued => ~z.epBusy)
      BY <3>1, SubmitFields, PacketSizes
    <3> HIDE DEF done, r, n
    <3>4. CASE pipe'["BulkIn"] = Submit(r, 0) /\ pipe'["BulkOut"] = pipe["BulkOut"]
      BY <2>1, <2>2, <3>3, <3>4
    <3>5. CASE pipe'["BulkIn"] = r
      BY <2>1, <2>2, <3>1, <3>5
    <3> QED BY <2>1, <2>5, <3>2, <3>4, <3>5, SendResponseFields
  <2> QED BY <2>1, <2>4, <2>5
<1>3. ASSUME NEW e \in {"InterruptIn", "BulkIn"}, IgnoreToken(e)
      PROVE  TurnInv'
  <2>1. /\ UNCHANGED <<cfg, pc, lineReady>>
        /\ \A i \in Endpoints :
             /\ pipe'[i].isBusy = pipe[i].isBusy /\ pipe'[i].epBusy = pipe[i].epBusy
             /\ pipe'[i].transferring = pipe[i].transferring /\ pipe'[i].queued = pipe[i].queued
    BY <1>3, IgnoreEffect
  <2> QED BY <2>1 DEF Endpoints
<1> QED BY <1>1, <1>2, <1>3

LEMMA TurnMain ==
  ASSUME TypeInv, LayerInv, TurnInv, AppTask
  PROVE  TurnInv'
<1> USE DEF TurnInv, OneHasTheTurn, ReadyWhileWorking, ReplyPipe, Handing, Hearing, Working,
            Talking
<1> DEFINE p == pipe["BulkIn"]
<1>0. pipe \in Pipes /\ p \in Pipe /\ size \in Nat
  BY PipeTypes DEF Pipes, TypeInv, TypeOK
<1>1. UNCHANGED cfg /\ pipe'["BulkOut"] = pipe["BulkOut"]
  BY MainPipes
<1>2. CASE StartCommand \/ ParseCommand \/ BuildReply \/ SetSendSize \/ TakeSendSize
  <2>1. /\ UNCHANGED <<pipe, lineReady>>
        /\ \/ pc = "idle" /\ lineReady /\ pc' = "parse"
           \/ pc = "parse" /\ pc' = "reply"
           \/ pc = "reply" /\ pc' = "clear"
           \/ pc = "setSize" /\ pc' = "takeSize"
           \/ pc = "takeSize" /\ pc' = "send"
    BY <1>2 DEF StartCommand, ParseCommand, BuildReply, SetSendSize, TakeSendSize
  <2> QED BY <1>1, <2>1
<1>3. CASE ClearLine
  BY <1>1, <1>3 DEF ClearLine
<1>4. CASE ClaimPipe
  <2> DEFINE q == [p EXCEPT !.isBusy = TRUE]
  <2>1. pc = "send" /\ ~p.isBusy
    BY <1>4 DEF ClaimPipe
  <2>2. pipe'["BulkIn"] = q /\ pc' = "stallCheck" /\ lineReady' = lineReady
    BY <1>0, <1>4, <2>1 DEF ClaimPipe, Pipes, Endpoints
  <2>3. /\ q.isBusy /\ q.transferring = p.transferring /\ q.epBusy = p.epBusy
        /\ q.queued = p.queued
    BY <1>0 DEF Pipe
  <2> HIDE DEF q
  <2> QED BY <1>1, <2>1, <2>2, <2>3
<1>5. CASE CheckStall
  BY <1>1, <1>5 DEF CheckStall
<1>6. CASE BackupReply
  <2> DEFINE q == Backup(p, size)
  <2>1. pc = "backup" /\ pipe'["BulkIn"] = q /\ pc' = "idle" /\ lineReady' = lineReady
    BY <1>0, <1>6 DEF BackupReply, Pipes, Endpoints
  <2>2. /\ q.isBusy = p.isBusy /\ q.transferring = p.transferring /\ q.epBusy = p.epBusy
        /\ q.queued
    BY <1>0 DEF Backup, Pipe
  <2> HIDE DEF q
  <2> QED BY <1>1, <2>1, <2>2
<1>7. CASE ClaimEndpoint
  <2> DEFINE q == [p EXCEPT !.epBusy = TRUE]
  <2>1. pc = "claim" /\ ~p.epBusy
    BY <1>7 DEF ClaimEndpoint
  <2>2. pipe'["BulkIn"] = q /\ pc' = "prime" /\ lineReady' = lineReady
    BY <1>0, <1>7, <2>1 DEF ClaimEndpoint, Pipes, Endpoints
  <2>3. /\ q.isBusy = p.isBusy /\ q.transferring = p.transferring /\ q.epBusy
        /\ q.queued = p.queued
    BY <1>0 DEF Pipe
  <2> HIDE DEF q
  <2> QED BY <1>1, <2>1, <2>2, <2>3
<1>8. CASE PrimeReply
  <2> DEFINE q == Prime(p, size)
  <2>1. pc = "prime" /\ pipe'["BulkIn"] = q /\ pc' = "idle" /\ lineReady' = lineReady
    BY <1>0, <1>8 DEF PrimeReply, Pipes, Endpoints
  <2>2. /\ q.isBusy = p.isBusy /\ q.transferring /\ q.epBusy = p.epBusy /\ q.queued = p.queued
    BY <1>0, <2>1, PrimeFields
  <2> HIDE DEF q
  <2> QED BY <1>1, <2>1, <2>2
<1> QED BY <1>2, <1>3, <1>4, <1>5, <1>6, <1>7, <1>8 DEF AppTask

(* The interrupts of a host that has not reset and does not reset.            *)
LEMMA FirstReset ==
  ASSUME TypeInv, UsbInterrupt, resets' = 0
  PROVE  resets = 0 /\ ~BusReset /\ ~Unconfigure
<1>1. resets \in Nat
  BY BridgeAssumption DEF TypeInv, TypeOK
<1>2. ~BusReset /\ ~Unconfigure
  BY <1>1 DEF BusReset, Unconfigure
<1>3. CASE \E e \in Endpoints : SetHalt(e) \/ ClearHalt(e)
  BY <1>2, <1>3 DEF SetHalt, ClearHalt
<1>4. CASE ~\E e \in Endpoints : SetHalt(e) \/ ClearHalt(e)
  BY <1>1, <1>2, <1>4 DEF UsbInterrupt, SetAddress, Configure, SetControlLineState,
                          NotificationSent, ReceivePacket, SendChunk, IgnoreToken
<1> QED BY <1>2, <1>3, <1>4

LEMMA TurnStep ==
  TypeInv /\ LayerInv /\ (resets = 0 => TurnInv) /\ [Next]_vars => (resets = 0 => TurnInv)'
<1> SUFFICES ASSUME TypeInv, LayerInv, resets = 0 => TurnInv, [Next]_vars, resets' = 0
             PROVE  TurnInv'
  OBVIOUS
<1>1. CASE UsbInterrupt
  BY <1>1, FirstReset, TurnControl, TurnHalts, TurnTransfers DEF UsbInterrupt
<1>2. CASE AppTask
  BY <1>2, MainPipes, TurnMain
<1>3. CASE HostWrites \/ UNCHANGED vars
  <2>1. UNCHANGED <<cfg, pipe, lineVars, pc, resets>>
    BY <1>3 DEF HostWrites, WriteLines, vars
  <2> QED BY <2>1 DEF TurnInv, OneHasTheTurn, ReadyWhileWorking, ReplyPipe, Handing, Hearing,
                      Working, Talking
<1> QED BY <1>1, <1>2, <1>3 DEF Next

LEMMA Turns == Spec => [](TypeInv /\ LayerInv /\ (resets = 0 => TurnInv))
<1>1. Init => (resets = 0 => TurnInv)
  BY TurnInit
<1> QED BY <1>1, TypeInit, TypeStep, LayerInit, LayerStep, TurnStep, PTL DEF Spec

(* One turn at a time: the bridge listens, or works on a command, or sends the    *)
(* reply, whatever the lengths of lines, replies and packets and whenever an      *)
(* endpoint is halted or not.                                                *)
THEOREM OneTurnAtATime == Spec => [](resets = 0 => OneTurn)
<1>1. ASSUME TypeInv, LayerInv, TurnInv
      PROVE  OneTurn
  <2>1. Listening => Hearing
    BY <1>1, LayerParts DEF InterruptPipe, Listening, Hearing
  <2>2. Answering => Working \/ Talking
    BY <1>1 DEF Answering, Working, Talking, TurnInv, ReplyPipe, Handing, TypeInv, TypeOK, MainSteps
  <2> QED BY <1>1, <2>1, <2>2 DEF OneTurn, HalfDuplex, TurnInv, OneHasTheTurn, Working, Talking
<1> QED BY <1>1, Turns, PTL

(* s_currSendBuf is not rewritten while a reply is sent from it or is backed up.  *)
THEOREM ReplyBufferKept == Spec /\ [](resets = 0) => ReplyBufferStable
<1> DEFINE Held == (Sending /\ pipe["BulkIn"].transferLength # 0) \/ pipe["BulkIn"].queued
<1>1. ASSUME TypeInv, TurnInv, [Next]_vars, Held
      PROVE  sendBuf' = sendBuf
  <2>1. Talking
    BY <1>1 DEF Sending, Talking, TurnInv, ReplyPipe
  <2>2. ~BuildReply
    BY <1>1, <2>1 DEF BuildReply, TurnInv, OneHasTheTurn, Working
  <2> QED BY <1>1, <2>2
          DEF Next, UsbInterrupt, AppTask, HostWrites, WriteLines, vars, BusReset, SetAddress,
              Configure, Unconfigure, SetControlLineState, SetHalt, ClearHalt, NotificationSent,
              ReceivePacket, SendChunk, IgnoreToken, StartCommand, ParseCommand, ClearLine, SetSendSize,
              TakeSendSize, ClaimPipe, CheckStall, BackupReply, ClaimEndpoint, PrimeReply
<1>2. TypeInv /\ TurnInv /\ [Next]_vars => [Held => sendBuf' = sendBuf]_vars
  BY <1>1
<1> QED BY <1>2, Turns, PTL DEF Spec, ReplyBufferStable
==============================================================================
