-------------------------- MODULE VcomChannelProofs --------------------------
(***************************************************************************)
(* Proofs that VcomBridge is a command channel as long as the host does not   *)
(* reset: the commands are the lines, the replies arrive whole and in order,  *)
(* and the two together implement CommandChannel.                            *)
(***************************************************************************)
EXTENDS VcomTurnProofs

USE DEF deviceVars, lineVars, mainVars, hostVars, budgets

------------------------------------------------------------------------------
(* The replies: what the host holds of each, against what is built and sent.   *)

(* The host holds the first n replies whole, and nothing else.               *)
Whole(n) == Len(got) = n /\ \A i \in 1 .. n : got[i] = replies[i]

Current == replies[Len(replies)]

(* s_currSendBuf holds the current reply and n is its length.                 *)
Carries(n) == Len(replies) >= 1 /\ n # 0 /\ sendBuf = Current.cmd /\ n = Current.len

(* The host holds n bytes of the current reply, and those before it whole.     *)
Holds(n) ==
  IF n = 0 THEN Whole(Len(replies) - 1)
  ELSE /\ Len(got) = Len(replies)
       /\ \A i \in 1 .. Len(replies) - 1 : got[i] = replies[i]
       /\ got[Len(replies)] = [cmd |-> Current.cmd, len |-> n]

(* A reply is built and not yet in the hands of the controller.               *)
Pending == pc \in {"clear", "clearLen", "clearReady", "setSize", "takeSize", "send",
                   "stallCheck", "backup", "claim", "prime"}
PendingSize == IF pc = "takeSize" THEN sendSize ELSE size

(* A transfer of n bytes on the reply's pipe, of which m are sent: the empty     *)
(* packet that ends a reply, or the reply itself.                            *)
Carrying(n, m) ==
  IF n = 0 THEN Whole(Len(replies)) ELSE Carries(n) /\ m < n /\ Holds(m)

ReplyInv ==
  /\ cfg = 0 => got = << >> /\ replies = << >>
  /\ Pending => Carrying(PendingSize, 0) /\ PendingSize # 0
  /\ pipe["BulkIn"].queued => Carrying(pipe["BulkIn"].pipeDataLen, 0)
  /\ pipe["BulkIn"].transferring =>
       Carrying(pipe["BulkIn"].transferLength, pipe["BulkIn"].transferDone)
  /\ Hearing \/ (Working /\ ~Pending) => Whole(Len(replies))
  /\ RepliesIntact

(* RepliesIntact, of any two sequences of replies.                            *)
InOrder(g, rs) ==
  /\ Len(g) <= Len(rs)
  /\ \A i \in 1 .. Len(g) :
       /\ g[i].cmd = rs[i].cmd
       /\ g[i].len <= rs[i].len
       /\ i < Len(g) => g[i].len = rs[i].len

LEMMA WholeInOrder ==
  ASSUME NEW rs \in Seq(Reply), NEW g \in Seq(Reply), Len(g) <= Len(rs),
         \A i \in 1 .. Len(g) : g[i] = rs[i]
  PROVE  InOrder(g, rs)
<1>1. Len(rs) \in Nat /\ Len(g) \in Nat
  OBVIOUS
<1>2. ASSUME NEW i \in 1 .. Len(g)
      PROVE  /\ g[i].cmd = rs[i].cmd /\ g[i].len <= rs[i].len
             /\ i < Len(g) => g[i].len = rs[i].len
  <2>1. i \in 1 .. Len(rs)
    BY <1>1
  <2>2. rs[i] \in Reply
    BY <2>1, ElementOfSeq
  <2> QED BY <2>1, <2>2, SMTT(30) DEF Reply
<1> QED BY <1>2 DEF InOrder

(* The host that holds all of the last reply holds all replies whole; the host    *)
(* that holds some of it holds the replies in order.                          *)
LEMMA HoldingAll ==
  ASSUME NEW rs \in Seq(Reply), NEW g \in Seq(Reply), NEW n \in Nat,
         Len(rs) >= 1, Len(g) = Len(rs),
         \A i \in 1 .. Len(rs) - 1 : g[i] = rs[i],
         g[Len(rs)] = [cmd |-> rs[Len(rs)].cmd, len |-> n]
  PROVE  /\ n = rs[Len(rs)].len => \A i \in 1 .. Len(rs) : g[i] = rs[i]
         /\ n <= rs[Len(rs)].len => InOrder(g, rs)
<1>1. Len(rs) \in Nat /\ Len(rs) \in 1 .. Len(rs)
  OBVIOUS
<1>2. rs[Len(rs)] \in Reply
  BY <1>1, ElementOfSeq
<1>3. rs[Len(rs)] = [cmd |-> rs[Len(rs)].cmd, len |-> rs[Len(rs)].len]
  BY <1>2 DEF Reply
<1>4. ASSUME n = rs[Len(rs)].len, NEW i \in 1 .. Len(rs)
      PROVE  g[i] = rs[i]
  BY <1>1, <1>3, <1>4
<1>5. ASSUME n <= rs[Len(rs)].len, NEW i \in 1 .. Len(g)
      PROVE  /\ g[i].cmd = rs[i].cmd /\ g[i].len <= rs[i].len
             /\ i < Len(g) => g[i].len = rs[i].len
  <2>1. CASE i = Len(rs)
    BY <1>1, <1>5, <2>1
  <2>2. CASE i # Len(rs)
    <3>1. i \in 1 .. Len(rs) - 1 /\ i \in 1 .. Len(rs)
      BY <1>1, <2>2
    <3>2. rs[i] \in Reply /\ g[i] = rs[i]
      BY <3>1, ElementOfSeq
    <3>3. rs[i].len \in Nat
      BY <3>2 DEF Reply
    <3> QED BY <3>2, <3>3
  <2> QED BY <2>1, <2>2
<1> QED BY <1>4, <1>5 DEF InOrder

LEMMA IntactInOrder == RepliesIntact <=> InOrder(got, replies)
BY DEF RepliesIntact, InOrder

LEMMA ReplyInit == Init => ReplyInv
<1> SUFFICES ASSUME Init PROVE ReplyInv
  OBVIOUS
<1>1. \A e \in Endpoints : pipe[e] = ClosedPipe
  BY DEF Init
<1>2. /\ ~pipe["BulkIn"].queued /\ ~pipe["BulkIn"].transferring /\ ~Hearing /\ ~Working
      /\ ~Pending
  BY <1>1, FreshFields DEF Init, Endpoints, Hearing, Working, Pending
<1> QED BY <1>2 DEF Init, ReplyInv, RepliesIntact

(* A step that leaves the replies, their transfer and the main loop alone, and   *)
(* gives nobody the turn that had not the right to it.                        *)
LEMMA ReplyKept ==
  ASSUME ReplyInv, UNCHANGED <<got, replies, sendBuf, sendSize, size, pc>>,
         cfg' = 0 => cfg = 0,
         pipe'["BulkIn"] = pipe["BulkIn"] \/ (~pipe'["BulkIn"].queued /\ ~pipe'["BulkIn"].transferring),
         (Hearing \/ (Working /\ ~Pending))' => Hearing \/ (Working /\ ~Pending) \/ Whole(Len(replies))
  PROVE  ReplyInv'
BY DEF ReplyInv, Pending, PendingSize, Carrying, Carries, Holds, Whole, Current, RepliesIntact

LEMMA ReplyControl ==
  ASSUME TypeInv, LayerInv, TurnInv, ReplyInv, resets = 0, resets' = 0,
         SetAddress \/ Configure \/ SetControlLineState \/ NotificationSent
  PROVE  ReplyInv'
<1>0. pipe \in Pipes /\ \A e \in Endpoints : pipe[e] \in Pipe
  BY PipeTypes DEF Pipes
<1>1. UNCHANGED <<mainVars, lineVars, got>>
  BY DEF SetAddress, Configure, SetControlLineState, NotificationSent
<1>2. CASE SetAddress
  BY <1>1, <1>2, ReplyKept DEF SetAddress, Hearing, Working, Pending
<1>3. CASE SetControlLineState \/ NotificationSent
  <2>1. cfg' = cfg /\ pipe'["BulkIn"] = pipe["BulkIn"] /\ pipe'["BulkOut"] = pipe["BulkOut"]
    BY <1>0, <1>3 DEF SetControlLineState, NotificationSent, Pipes, Endpoints
  <2> QED BY <1>1, <2>1, ReplyKept DEF Hearing, Working, Pending
<1>4. CASE Configure
  <2> DEFINE fresh == [e \in Endpoints |-> Opened(pipe[e])]
  <2>1. devState # "Configured" /\ cfg' = 1
    BY <1>4 DEF Configure
  <2>2. cfg = 0
    BY <2>1 DEF LayerInv, OpenInv, TypeInv, TypeOK
  <2>3. pipe' = [fresh EXCEPT !["BulkOut"] = Submit(@, MaxPacketSize)]
    BY <1>4, <2>2 DEF Configure
  <2>4. pipe'["BulkIn"] = Opened(pipe["BulkIn"])
    BY <2>3 DEF Endpoints
  <2>5. Whole(Len(replies))
    BY <2>2 DEF ReplyInv, Whole
  <2>6. ~pipe'["BulkIn"].queued /\ ~pipe'["BulkIn"].transferring
    BY <1>0, <2>4, OpenedFields DEF Endpoints
  <2> QED BY <1>1, <2>1, <2>5, <2>6, ReplyKept
<1> QED BY <1>2, <1>3, <1>4

LEMMA ReplyHalts ==
  ASSUME TypeInv, LayerInv, TurnInv, ReplyInv, NEW e \in Endpoints, SetHalt(e) \/ ClearHalt(e)
  PROVE  ReplyInv'
<1>1. UNCHANGED <<mainVars, lineVars, got>> /\ cfg' = 1
  BY HaltEffect
<1>2. CASE e # "BulkIn"
  <2>1. pipe'["BulkIn"] = pipe["BulkIn"]
    BY <1>2, HaltEffect DEF Endpoints
  <2>2. Hearing' => Hearing
    BY <1>2, LayerParts, HaltEffect DEF Endpoints, InterruptPipe, Hearing
  <2> QED BY <1>1, <2>1, <2>2, ReplyKept DEF Working, Pending
<1>3. CASE e = "BulkIn"
  <2> DEFINE p == pipe["BulkIn"]
  <2>1. pipe'["BulkOut"] = pipe["BulkOut"]
    BY <1>3, HaltEffect DEF Endpoints
  <2>2. \/ /\ p.queued /\ pipe'["BulkIn"].transferring /\ ~pipe'["BulkIn"].queued
           /\ pipe'["BulkIn"].transferLength = p.pipeDataLen /\ pipe'["BulkIn"].transferDone = 0
        \/ /\ ~pipe'["BulkIn"].transferring /\ pipe'["BulkIn"].queued = p.queued
           /\ pipe'["BulkIn"].pipeDataLen = p.pipeDataLen
    BY <1>3, HaltEffect
  <2> QED BY <1>1, <2>1, <2>2
          DEF ReplyInv, Pending, PendingSize, Carrying, Carries, Holds, Whole, Current,
              RepliesIntact, Hearing, Working
<1> QED BY <1>2, <1>3

LEMMA ReplyIgnored ==
  ASSUME TypeInv, ReplyInv, NEW e \in {"InterruptIn", "BulkIn"}, IgnoreToken(e)
  PROVE  ReplyInv'
<1> DEFINE p == pipe["BulkIn"]
           o == pipe["BulkOut"]
<1>1. /\ UNCHANGED <<mainVars, lineVars, got, cfg>>
      /\ pipe'["BulkIn"].transferring = p.transferring /\ pipe'["BulkIn"].queued = p.queued
      /\ pipe'["BulkIn"].transferLength = p.transferLength
      /\ pipe'["BulkIn"].transferDone = p.transferDone
      /\ pipe'["BulkIn"].pipeDataLen = p.pipeDataLen
      /\ pipe'["BulkOut"].isBusy = o.isBusy
  BY IgnoreEffect DEF Endpoints
<1> QED BY <1>1
        DEF ReplyInv, Pending, PendingSize, Carrying, Carries, Holds, Whole, Current,
            RepliesIntact, Hearing, Working

LEMMA ReplyReceive ==
  ASSUME TypeInv, LayerInv, TurnInv, ReplyInv, ReceivePacket
  PROVE  ReplyInv'
<1>1. /\ UNCHANGED <<mainVars, cfg, got>> /\ pipe["BulkOut"].transferring
      /\ pipe'["BulkIn"] = pipe["BulkIn"]
  BY ReceiveEffect
<1>2. Hearing
  BY <1>1, LayerParts DEF InterruptPipe, Hearing
<1> QED BY <1>1, <1>2, ReplyKept

(* The packet the host collects: the empty one adds nothing, any other brings it   *)
(* as far as the controller is, and the last one to the end of the reply.      *)
LEMMA Collected ==
  ASSUME TypeInv, ReplyInv, SendChunk, NEW n, n = pipe["BulkIn"].transferDone + Chunk(pipe["BulkIn"])
  PROVE  LET p == pipe["BulkIn"]
         IN  IF p.transferLength = 0 THEN got' = got /\ Whole(Len(replies)) /\ SendComplete(p)
             ELSE /\ Carries(p.transferLength) /\ n \in Nat \ {0} /\ Holds(n)'
                  /\ SendComplete(p) => n = p.transferLength
                  /\ ~SendComplete(p) => n < p.transferLength
<1> DEFINE p == pipe["BulkIn"]
<1> HIDE DEF p
<1>1. p \in GoodPipe /\ p.transferring /\ HostCollects(p) /\ UNCHANGED <<replies, sendBuf>>
  BY SendEffect DEF TypeInv, Endpoints, p
<1>2. p.transferDone \in Nat /\ p.transferLength \in Nat /\ p.transferDone <= p.transferLength
  BY <1>1 DEF GoodPipe, Pipe
<1>3. CASE p.transferLength = 0
  <2>1. SendComplete(p)
    BY <1>2, <1>3, PacketSizes DEF SendComplete, Chunk
  <2> QED BY <1>1, <1>3, <2>1 DEF HostCollects, ReplyInv, Carrying, p
<1>4. CASE p.transferLength # 0
  <2> DEFINE c == Chunk(p)
  <2>1. Carries(p.transferLength) /\ p.transferDone < p.transferLength /\ Holds(p.transferDone)
    BY <1>1, <1>4 DEF ReplyInv, Carrying, p
  <2>2. /\ c \in Nat \ {0} /\ n = p.transferDone + c
        /\ SendComplete(p) => n = p.transferLength
        /\ ~SendComplete(p) => n < p.transferLength
    BY <1>2, <2>1, PacketSizes DEF Chunk, SendComplete, p
  <2>3. got \in Seq(Reply) /\ Len(replies) \in Nat \ {0}
    BY <2>1 DEF TypeInv, TypeOK, Carries
  <2> HIDE DEF c
  <2>4. /\ Len(got') = Len(replies)
        /\ got'[Len(replies)] = [cmd |-> Current.cmd, len |-> n]
        /\ \A i \in 1 .. Len(replies) - 1 : got'[i] = replies[i]
    <3>1. CASE p.transferDone = 0
      <4>1. got' = Append(got, [cmd |-> Current.cmd, len |-> c])
        BY <1>1, <1>4, <2>1, <3>1 DEF HostCollects, Carries, c
      <4>2. Len(got) = Len(replies) - 1 /\ \A i \in 1 .. Len(replies) - 1 : got[i] = replies[i]
        BY <2>1, <3>1 DEF Holds, Whole
      <4>3. n = c
        BY <2>2, <3>1
      <4> QED BY <2>3, <4>1, <4>2, <4>3
    <3>2. CASE p.transferDone # 0
      <4>1. /\ Len(got) = Len(replies) /\ \A i \in 1 .. Len(replies) - 1 : got[i] = replies[i]
            /\ got[Len(replies)] = [cmd |-> Current.cmd, len |-> p.transferDone]
        BY <2>1, <3>2 DEF Holds
      <4>2. got' = [got EXCEPT ![Len(replies)].len = @ + c]
        BY <1>1, <1>4, <2>3, <3>2, <4>1 DEF HostCollects, c
      <4> QED BY <2>2, <2>3, <4>1, <4>2
    <3> QED BY <3>1, <3>2
  <2>5. Holds(n)'
    BY <1>1, <1>2, <2>2, <2>4 DEF Holds, Current
  <2> QED BY <1>2, <1>4, <2>1, <2>2, <2>5 DEF p
<1> QED BY <1>3, <1>4

(* A packet sent while the reply has the turn.                                *)
LEMMA SendTurn ==
  ASSUME TypeInv, LayerInv, TurnInv, SendChunk
  PROVE  LET p == pipe["BulkIn"]
             q == pipe'["BulkIn"]
         IN  /\ pc = "idle" /\ ~lineReady /\ ~Hearing /\ cfg # 0
             /\ ~SendComplete(p) =>
                  /\ q.transferring /\ ~q.queued /\ ~Hearing'
                  /\ q.transferLength = p.transferLength
                  /\ q.transferDone = p.transferDone + Chunk(p)
             /\ SendComplete(p) =>
                  /\ q.transferring => q.transferLength = 0
                  /\ q.queued => q.pipeDataLen = 0
<1> DEFINE p == pipe["BulkIn"]
           n == p.transferDone + Chunk(p)
           r == Released(Sent(p))
           done == [pipe EXCEPT !["BulkIn"] = r]
<1>0. pipe \in Pipes /\ \A e \in Endpoints : pipe[e] \in Pipe
  BY PipeTypes DEF Pipes
<1>1. /\ p.open /\ p.transferring /\ n \in Nat
      /\ \/ ~SendComplete(p) /\ pipe' = [pipe EXCEPT !["BulkIn"] = Sent(p)]
         \/ SendComplete(p) /\ done \in Pipes /\ pipe' = SendResponse(done, n)
  BY SendEffect
<1>2. cfg # 0 /\ pc = "idle" /\ ~lineReady /\ ~Hearing /\ ~p.queued
  BY <1>1 DEF TurnInv, OneHasTheTurn, ReplyPipe, Working, Hearing, Talking, Handing, LayerInv,
              OpenInv, Endpoints, TypeInv, TypeOK, MainSteps
<1>3. /\ Sent(p) \in Pipe /\ Sent(p).transferring = p.transferring /\ Sent(p).queued = p.queued
      /\ Sent(p).transferLength = p.transferLength /\ Sent(p).transferDone = n
  BY SentFields DEF TypeInv, Endpoints
<1>4. CASE ~SendComplete(p) /\ pipe' = [pipe EXCEPT !["BulkIn"] = Sent(p)]
  <2>1. pipe'["BulkIn"] = Sent(p) /\ pipe'["BulkOut"] = pipe["BulkOut"]
    BY <1>0, <1>4 DEF Pipes, Endpoints
  <2> QED BY <1>1, <1>2, <1>3, <1>4, <2>1 DEF Hearing
<1>5. CASE SendComplete(p) /\ done \in Pipes /\ pipe' = SendResponse(done, n)
  <2>1. /\ r \in Pipe /\ ~r.isBusy /\ ~r.epBusy /\ ~r.transferring /\ ~r.queued
    BY <1>2, <1>3, ReleasedFields
  <2>2. done["BulkIn"] = r
    BY <1>0 DEF Pipes, Endpoints
  <2>3. LET z == Submit(r, 0)
        IN  /\ z.transferring => z.transferLength = 0
            /\ z.queued => z.pipeDataLen = 0
    BY <2>1, SubmitFields, PacketSizes
  <2> HIDE DEF done, r, n
  <2>4. pipe'["BulkIn"] = Submit(r, 0) \/ pipe'["BulkIn"] = r
    BY <1>1, <1>5, <2>2, SendResponseFields
  <2> QED BY <1>2, <1>5, <2>1, <2>3, <2>4
<1> QED BY <1>1, <1>4, <1>5

LEMMA ReplySend ==
  ASSUME TypeInv, LayerInv, TurnInv, ReplyInv, TypeInv', SendChunk
  PROVE  ReplyInv'
<1> DEFINE p == pipe["BulkIn"]
           q == pipe'["BulkIn"]
<1>1. UNCHANGED <<deviceVars, mainVars, lineVars>> /\ p \in Pipe /\ p.transferring
  BY SendEffect
<1>2. pc = "idle" /\ ~lineReady /\ cfg # 0
  BY SendTurn
<1>3. replies \in Seq(Reply) /\ got \in Seq(Reply) /\ got' \in Seq(Reply)
  BY DEF TypeInv, TypeOK
<1>4. PICK n : n = p.transferDone + Chunk(p)
  OBVIOUS
<1>5. CASE SendComplete(p)
  <2>1. Len(got') = Len(replies) /\ \A i \in 1 .. Len(replies) : got'[i] = replies[i]
    <3>1. CASE p.transferLength = 0
      BY <1>4, <3>1, Collected DEF Whole
    <3>2. CASE p.transferLength # 0
      <4>1. /\ n \in Nat \ {0} /\ Holds(n)' /\ n = p.transferLength /\ Carries(p.transferLength)
        BY <1>4, <1>5, <3>2, Collected
      <4> QED BY <1>1, <1>3, <4>1, HoldingAll DEF Carries, Holds, Current
    <3> QED BY <3>1, <3>2
  <2>2. Whole(Len(replies))'
    BY <1>1, <2>1 DEF Whole
  <2>3. RepliesIntact'
    <3>1. InOrder(got', replies)
      BY <1>3, <2>1, WholeInOrder
    <3> QED BY <1>1, <3>1 DEF InOrder, RepliesIntact
  <2>4. /\ q.queued => q.pipeDataLen = 0
        /\ q.transferring => q.transferLength = 0
    BY <1>5, SendTurn
  <2> QED BY <1>1, <1>2, <2>2, <2>3, <2>4 DEF ReplyInv, Pending, Carrying
<1>6. CASE ~SendComplete(p)
  <2>1. /\ q.transferring /\ ~q.queued /\ ~Hearing' /\ q.transferLength = p.transferLength
        /\ q.transferDone = n
    BY <1>4, <1>6, SendTurn
  <2>2. /\ p.transferLength # 0 /\ Carries(p.transferLength)
        /\ n \in Nat \ {0} /\ Holds(n)' /\ n < p.transferLength
    BY <1>4, <1>6, Collected
  <2>3. Carries(p.transferLength)' /\ p.transferLength \in Nat
    BY <1>1, <2>1, <2>2 DEF Carries, Current, Pipe
  <2>4. RepliesIntact'
    <3>1. InOrder(got', replies)
      BY <1>1, <1>3, <2>2, <2>3, HoldingAll DEF Carries, Holds, Current
    <3> QED BY <1>1, <3>1 DEF InOrder, RepliesIntact
  <2>5. Holds(p.transferDone)'
    BY <2>1, <2>2 DEF Holds, Current
  <2>6. Carrying(p.transferLength, p.transferDone)'
    BY <2>1, <2>2, <2>3, <2>5 DEF Carrying
  <2> QED BY <1>1, <1>2, <2>1, <2>4, <2>6 DEF ReplyInv, Pending, Working
<1> QED BY <1>5, <1>6

LEMMA ReplyMain ==
  ASSUME TypeInv, LayerInv, TurnInv, ReplyInv, AppTask
  PROVE  ReplyInv'
<1> DEFINE p == pipe["BulkIn"]
<1>0. /\ pipe \in Pipes /\ p \in Pipe /\ size \in Nat
      /\ replies \in Seq(Reply) /\ got \in Seq(Reply) /\ Len(replies) \in Nat
  BY PipeTypes DEF Pipes, TypeInv, TypeOK
<1>1. UNCHANGED <<cfg, got>> /\ pipe'["BulkOut"] = pipe["BulkOut"] /\ Hearing' = Hearing
  BY MainPipes DEF Hearing
<1> USE DEF ReplyInv, Pending, PendingSize, Working
<1>2. CASE StartCommand \/ ParseCommand
  <2>1. /\ UNCHANGED <<pipe, replies, sendBuf, lineReady, sendSize, size>>
        /\ \/ pc = "idle" /\ lineReady /\ pc' = "parse"
           \/ pc = "parse" /\ pc' = "reply"
    BY <1>2 DEF StartCommand, ParseCommand
  <2> QED BY <1>1, <2>1 DEF Carrying, Carries, Holds, Whole, Current, RepliesIntact
<1>3. CASE BuildReply
  <2>1. PICK n \in ReplyLens : /\ size' = n
                               /\ replies' = Append(replies, [cmd |-> cmd, len |-> n])
    BY <1>3 DEF BuildReply
  <2>2. n \in Nat \ {0} /\ cmd \in Seq(Chars)
    BY BridgeAssumption DEF TypeInv, TypeOK
  <2>3. /\ pc = "reply" /\ pc' = "clear" /\ sendBuf' = cmd /\ UNCHANGED <<pipe, lineReady>>
    BY <1>3 DEF BuildReply
  <2>4. Whole(Len(replies)) /\ Working /\ cfg # 0
    BY <2>3 DEF TurnInv, OneHasTheTurn
  <2>5. ~p.queued /\ ~p.transferring /\ ~Hearing
    BY <2>4 DEF TurnInv, OneHasTheTurn, Talking, Hearing, ReplyPipe
  <2>6. [cmd |-> cmd, len |-> n] \in Reply
    BY <2>2 DEF Reply
  <2>7. /\ Len(replies') = Len(replies) + 1 /\ replies'[Len(replies')] = [cmd |-> cmd, len |-> n]
        /\ \A i \in 1 .. Len(replies) : replies'[i] = replies[i]
    BY <1>0, <2>1, <2>6
  <2>8. Holds(0)'
    BY <1>0, <1>1, <2>4, <2>7 DEF Holds, Whole
  <2>9. /\ Len(replies') >= 1 /\ size' # 0 /\ sendBuf' = replies'[Len(replies')].cmd
        /\ size' = replies'[Len(replies')].len /\ 0 < size'
    BY <1>0, <2>1, <2>2, <2>3, <2>7
  <2>10. Carrying(size, 0)'
    BY <2>8, <2>9 DEF Carrying, Carries, Current
  <2>11. RepliesIntact'
    BY <1>0, <1>1, <2>4, <2>7 DEF RepliesIntact, Whole
  <2> QED BY <1>1, <2>3, <2>4, <2>5, <2>9, <2>10, <2>11
<1>4. CASE ClearLine \/ SetSendSize \/ TakeSendSize \/ CheckStall
  <2>1. /\ UNCHANGED <<pipe, replies, sendBuf>> /\ Pending /\ Pending'
        /\ PendingSize' = PendingSize
    BY <1>4 DEF ClearLine, SetSendSize, TakeSendSize, CheckStall
  <2> QED BY <1>1, <2>1 DEF Carrying, Carries, Holds, Whole, Current, RepliesIntact
<1>5. CASE ClaimPipe
  <2>1. pc = "send" /\ ~p.isBusy
    BY <1>5 DEF ClaimPipe, TurnInv, OneHasTheTurn, Talking
  <2>2. /\ pc' = "stallCheck" /\ pipe'["BulkIn"] = [p EXCEPT !.isBusy = TRUE]
        /\ UNCHANGED <<replies, sendBuf, sendSize, size>>
    BY <1>0, <1>5, <2>1 DEF ClaimPipe, Pipes, Endpoints
  <2>3. ~p.transferring /\ ~p.queued
    BY <2>1 DEF TurnInv, ReplyPipe
  <2>4. ~pipe'["BulkIn"].transferring /\ ~pipe'["BulkIn"].queued
    BY <1>0, <2>2, <2>3 DEF Pipe
  <2> QED BY <1>1, <2>1, <2>2, <2>4 DEF Carrying, Carries, Holds, Whole, Current, RepliesIntact
<1>6. CASE BackupReply
  <2>1. /\ pc = "backup" /\ pc' = "idle" /\ pipe'["BulkIn"] = Backup(p, size)
        /\ UNCHANGED <<replies, sendBuf, lineReady>>
    BY <1>0, <1>6 DEF BackupReply, Pipes, Endpoints
  <2>2. ~p.transferring /\ ~lineReady /\ ~Hearing
    BY <2>1 DEF TurnInv, ReplyPipe, ReadyWhileWorking, OneHasTheTurn, Talking, Hearing, Handing
  <2>3. ~pipe'["BulkIn"].transferring /\ pipe'["BulkIn"].pipeDataLen = size
    BY <1>0, <2>1, <2>2 DEF Backup, Pipe
  <2> QED BY <1>1, <2>1, <2>2, <2>3 DEF Carrying, Carries, Holds, Whole, Current, RepliesIntact
<1>7. CASE ClaimEndpoint
  <2>1. pc = "claim" /\ ~p.transferring /\ ~p.queued /\ ~p.epBusy
    BY <1>7 DEF ClaimEndpoint, TurnInv, ReplyPipe, Handing
  <2>2. /\ pc' = "prime" /\ pipe'["BulkIn"] = [p EXCEPT !.epBusy = TRUE]
        /\ UNCHANGED <<replies, sendBuf, sendSize, size>>
    BY <1>0, <1>7, <2>1 DEF ClaimEndpoint, Pipes, Endpoints
  <2>3. ~pipe'["BulkIn"].transferring /\ ~pipe'["BulkIn"].queued
    BY <1>0, <2>1, <2>2 DEF Pipe
  <2> QED BY <1>1, <2>1, <2>2, <2>3 DEF Carrying, Carries, Holds, Whole, Current, RepliesIntact
<1>8. CASE PrimeReply
  <2>1. /\ pc = "prime" /\ pc' = "idle" /\ pipe'["BulkIn"] = Prime(p, size)
        /\ UNCHANGED <<replies, sendBuf, lineReady>>
    BY <1>0, <1>8 DEF PrimeReply, Pipes, Endpoints
  <2>2. ~p.transferring /\ ~p.queued /\ ~lineReady /\ ~Hearing
    BY <2>1 DEF TurnInv, ReplyPipe, ReadyWhileWorking, OneHasTheTurn, Talking, Hearing, Handing
  <2>3. /\ ~pipe'["BulkIn"].queued /\ pipe'["BulkIn"].transferLength = size
        /\ pipe'["BulkIn"].transferDone = 0
    BY <1>0, <2>1, <2>2, PrimeFields
  <2> QED BY <1>1, <2>1, <2>2, <2>3 DEF Carrying, Carries, Holds, Whole, Current, RepliesIntact
<1> QED BY <1>2, <1>3, <1>4, <1>5, <1>6, <1>7, <1>8 DEF AppTask

LEMMA ReplyStep ==
  /\ TypeInv /\ LayerInv /\ TypeInv' /\ [Next]_vars
  /\ resets = 0 => TurnInv /\ ReplyInv
  => (resets = 0 => ReplyInv)'
<1> SUFFICES ASSUME TypeInv, LayerInv, TypeInv', [Next]_vars, resets = 0 => TurnInv /\ ReplyInv,
                    resets' = 0
             PROVE  ReplyInv'
  OBVIOUS
<1>1. CASE UsbInterrupt
  BY <1>1, FirstReset, ReplyControl, ReplyHalts, ReplyIgnored, ReplyReceive, ReplySend
     DEF UsbInterrupt
<1>2. CASE AppTask
  BY <1>2, MainPipes, ReplyMain
<1>3. CASE HostWrites \/ UNCHANGED vars
  <2>1. UNCHANGED <<cfg, pipe, lineVars, mainVars, got, resets>>
    BY <1>3 DEF HostWrites, WriteLines, vars
  <2> QED BY <2>1, ReplyKept DEF Hearing, Working, Pending
<1> QED BY <1>1, <1>2, <1>3 DEF Next

LEMMA Replied ==
  Spec => [](TypeInv /\ LayerInv /\ (resets = 0 => TurnInv /\ ReplyInv))
<1>1. Init => (resets = 0 => TurnInv /\ ReplyInv)
  BY TurnInit, ReplyInit
<1>2. /\ TypeInv /\ LayerInv /\ (resets = 0 => TurnInv /\ ReplyInv) /\ [Next]_vars
      => (TypeInv /\ LayerInv /\ (resets = 0 => TurnInv /\ ReplyInv))'
  BY TypeStep, LayerStep, TurnStep, ReplyStep
<1> QED BY <1>1, <1>2, TypeInit, LayerInit, PTL DEF Spec

(* What the host receives is the replies in order, each under its own text and    *)
(* whole before the next one begins, for all lengths of replies and packets and     *)
(* with halts wherever they come.                                            *)
THEOREM RepliesArriveIntact == Spec => [](resets = 0 => RepliesIntact)
<1>1. ReplyInv => RepliesIntact
  BY DEF ReplyInv
<1> QED BY <1>1, Replied, PTL

------------------------------------------------------------------------------
(* The lines: what is typed, what of it is delivered, collected, parsed and      *)
(* answered, when the host opens the port first and writes one line at a time.   *)

(* The lines delivered whole.                                                *)
Taken == Len(typed) - Len(outbox)

(* The bytes of the next line that s_lineBuf has; what it has of the line       *)
(* before is not counted.                                                    *)
Joined == IF lineReady \/ pc = "clearLen" THEN 0 ELSE lineLen

Typed(i) == Append(typed[i], NL)

PortInv ==
  /\ portOpen => attach /\ startTransactions
  /\ typed # << >> => portOpen

(* Of the writes not yet delivered, the first lacks what has joined the line.   *)
OutboxInv ==
  /\ Len(outbox) <= Len(typed)
  /\ \A i \in 2 .. Len(outbox) : outbox[i] = Typed(Taken + i)
  /\ outbox # << >> =>
       /\ Len(outbox[1]) >= 1 /\ Joined + Len(outbox[1]) = Len(typed[Taken + 1]) + 1
       /\ \A i \in 1 .. Joined : lineBuf[i - 1] = typed[Taken + 1][i]
       /\ \A i \in 1 .. Len(outbox[1]) : outbox[1][i] = Typed(Taken + 1)[Joined + i]
  /\ outbox = << >> => Joined = 0

(* The line taken last waits to be parsed, or its command to be answered.       *)
TakenInv ==
  /\ pc = "clearReady" => lineLen = 0
  /\ Taken = IF lineReady /\ pc \in {"idle", "parse", "reply"}
               THEN Len(replies) + 1 ELSE Len(replies)
  /\ lineReady /\ pc \in {"idle", "parse"} =>
       /\ lineLen = Len(typed[Taken]) /\ lineBuf[lineLen] = NUL
       /\ \A i \in 1 .. lineLen : lineBuf[i - 1] = typed[Taken][i]
  /\ pc = "reply" => cmd = typed[Taken]

LineInv == PortInv /\ OutboxInv /\ TakenInv /\ CommandsAreLines
(* The host that opens the port before it writes, one line at a time, and types   *)
(* no line that s_lineBuf cannot hold.                                       *)
TidyHost == OpenFirst /\ LinesPerWrite = {1} /\ \A l \in Lines : Len(l) < LINE_BUF_SIZE

LEMMA LineTypes ==
  TypeInv => /\ typed \in Seq(Lines) /\ outbox \in Seq(Seq(Bytes)) /\ replies \in Seq(Reply)
             /\ Len(typed) \in Nat /\ Len(outbox) \in Nat /\ Len(replies) \in Nat
             /\ lineLen \in Nat /\ lineLen \in Slots /\ lineBuf \in [Slots -> Chars \cup {NUL}]
             /\ LINE_BUF_SIZE \in Nat \ {0} /\ MaxPacketSize \in Nat \ {0}
BY BridgeAssumption, MaxPacketSizeAssumption DEF TypeInv, TypeOK, Slots

(* A line typed, as the host sends it.                                       *)
LEMMA TypedLine ==
  ASSUME NEW l \in Lines
  PROVE  /\ l \in Seq(Chars) /\ Len(l) \in Nat /\ Len(Append(l, NL)) = Len(l) + 1
         /\ \A i \in 1 .. Len(l) : /\ Append(l, NL)[i] = l[i]
                                   /\ l[i] \in Chars /\ l[i] # NL /\ l[i] # NUL
         /\ Append(l, NL)[Len(l) + 1] = NL
<1>1. l \in Seq(Chars) /\ NL \notin Chars /\ NUL \notin Chars
  BY BridgeAssumption
<1> QED BY <1>1

LEMMA LineInit == Init => LineInv
BY DEF Init, LineInv, PortInv, OutboxInv, TakenInv, CommandsAreLines, Taken, Joined

LEMMA LineKept ==
  ASSUME LineInv, UNCHANGED <<lineBuf, lineLen, typed, outbox, replies, portOpen>>,
         attach => attach', startTransactions => startTransactions',
         UNCHANGED <<lineReady, pc, cmd>>
  PROVE  LineInv'
BY DEF LineInv, PortInv, OutboxInv, TakenInv, CommandsAreLines, Taken, Joined, Typed

LEMMA LineControl ==
  ASSUME TypeInv, LayerInv, LineInv,
         SetAddress \/ Configure \/ SetControlLineState \/ NotificationSent
  PROVE  LineInv'
<1>1. CASE SetControlLineState
  <2>1. attach' /\ startTransactions' /\ portOpen' = TRUE
    BY <1>1 DEF SetControlLineState, LayerInv, OpenInv, TypeInv, TypeOK
  <2>2. UNCHANGED <<lineVars, typed, outbox, replies, pc, cmd>>
    BY <1>1 DEF SetControlLineState
  <2>3. PortInv'
    BY <2>1 DEF PortInv
  <2>4. OutboxInv' /\ TakenInv' /\ CommandsAreLines'
    BY <2>2 DEF LineInv, OutboxInv, TakenInv, CommandsAreLines, Taken, Joined, Typed
  <2> QED BY <2>3, <2>4 DEF LineInv
<1>2. CASE SetAddress \/ Configure \/ NotificationSent
  BY <1>2, LineKept DEF SetAddress, Configure, NotificationSent
<1> QED BY <1>1, <1>2

LEMMA LineHalts ==
  ASSUME LineInv, NEW e \in Endpoints, SetHalt(e) \/ ClearHalt(e)
  PROVE  LineInv'
BY LineKept DEF SetHalt, ClearHalt

LEMMA LineWrites ==
  ASSUME TypeInv, TidyHost, TurnInv, LineInv, HostWrites
  PROVE  LineInv'
<1>1. PICK l \in Lines : WriteLines(<<l>>, Append(l, NL))
  <2>1. ASSUME NEW l \in Lines, NEW m \in Lines, NEW bytes, WriteLines(<<l, m>>, bytes)
        PROVE  FALSE
    BY <2>1 DEF WriteLines, TidyHost
  <2> QED BY <2>1 DEF HostWrites
<1> DEFINE w == Append(l, NL)
<1>2. /\ typed' = typed \o <<l>> /\ outbox' = Append(outbox, w) /\ portOpen
      /\ UNCHANGED <<deviceVars, lineVars, mainVars, portOpen>>
  BY <1>1 DEF WriteLines, TidyHost
<1>3. w \in Seq(Bytes) /\ Len(w) = Len(l) + 1 /\ Len(l) \in Nat
  BY TypedLine, SeqMonotonic DEF Bytes
<1>4. /\ Len(typed') = Len(typed) + 1 /\ typed'[Len(typed')] = l
      /\ \A i \in 1 .. Len(typed) : typed'[i] = typed[i]
  BY <1>2, LineTypes
<1>5. /\ Len(outbox') = Len(outbox) + 1 /\ outbox'[Len(outbox')] = w
      /\ \A i \in 1 .. Len(outbox) : outbox'[i] = outbox[i]
  BY <1>2, <1>3, LineTypes
<1>6. Taken' = Taken /\ Joined' = Joined /\ Taken \in Nat /\ Taken + Len(outbox) = Len(typed)
  BY <1>2, <1>4, <1>5, LineTypes DEF Taken, Joined, LineInv, OutboxInv
<1> HIDE DEF w
<1>7. PortInv'
  BY <1>2 DEF LineInv, PortInv
<1>8. OutboxInv'
  <2>1. Len(outbox') <= Len(typed')
    BY <1>4, <1>5, <1>6, LineTypes
  <2>2. ASSUME NEW i \in 2 .. Len(outbox')
        PROVE  outbox'[i] = Append(typed'[Taken + i], NL)
    <3>1. CASE i = Len(outbox')
      <4>1. Taken + i = Len(typed')
        <5>1. i = Len(outbox) + 1 /\ Len(outbox) \in Nat
          BY <1>5, <3>1, LineTypes
        <5>2. Len(typed') = Taken + Len(outbox) + 1
          BY <1>4, <1>6
        <5> QED BY <1>6, <5>1, <5>2
      <4> QED BY <1>4, <1>5, <3>1, <4>1 DEF w
    <3>2. CASE i # Len(outbox')
      <4>1. i \in 2 .. Len(outbox) /\ i \in 1 .. Len(outbox) /\ Taken + i \in 1 .. Len(typed)
        BY <1>5, <1>6, <3>2, LineTypes
      <4> QED BY <1>4, <1>5, <4>1 DEF LineInv, OutboxInv, Typed
    <3> QED BY <3>1, <3>2
  <2>3. /\ Len(outbox'[1]) >= 1 /\ Joined + Len(outbox'[1]) = Len(typed'[Taken + 1]) + 1
        /\ \A i \in 1 .. Joined : lineBuf[i - 1] = typed'[Taken + 1][i]
        /\ \A i \in 1 .. Len(outbox'[1]) : outbox'[1][i] = Append(typed'[Taken + 1], NL)[Joined + i]
    <3>1. CASE outbox = << >>
      <4>1. Joined = 0 /\ outbox'[1] = w /\ typed'[Taken + 1] = l
        BY <1>4, <1>5, <1>6, <3>1 DEF LineInv, OutboxInv
      <4> QED BY <1>3, <4>1 DEF w
    <3>2. CASE outbox # << >>
      <4>1. outbox'[1] = outbox[1] /\ typed'[Taken + 1] = typed[Taken + 1]
        <5>1. Len(outbox) \in Nat \ {0}
          BY <3>2, LineTypes
        <5>2. 1 \in 1 .. Len(outbox) /\ Taken + 1 \in 1 .. Len(typed)
          BY <1>6, <5>1, LineTypes
        <5> QED BY <1>4, <1>5, <5>2
      <4> QED BY <3>2, <4>1 DEF LineInv, OutboxInv, Typed
    <3> QED BY <3>1, <3>2
  <2>4. outbox' # << >>
    BY <1>5, LineTypes
  <2> QED BY <1>2, <1>6, <2>1, <2>2, <2>3, <2>4 DEF OutboxInv, Typed
<1>9. TakenInv'
  <2>1. (lineReady /\ pc \in {"idle", "parse"}) \/ pc = "reply" => typed'[Taken] = typed[Taken]
    <3>1. (lineReady /\ pc \in {"idle", "parse"}) \/ pc = "reply" => Taken = Len(replies) + 1
      BY DEF LineInv, TakenInv, TurnInv, ReadyWhileWorking
    <3>2. Taken = Len(replies) + 1 => Taken \in 1 .. Len(typed)
      BY <1>6, LineTypes
    <3> QED BY <1>4, <3>1, <3>2
  <2> QED BY <1>2, <1>6, <2>1 DEF LineInv, TakenInv
<1>10. CommandsAreLines'
  BY <1>2, <1>4, LineTypes DEF LineInv, CommandsAreLines
<1> QED BY <1>7, <1>8, <1>9, <1>10 DEF LineInv

LEMMA LineMain ==
  ASSUME TypeInv, TurnInv, LineInv, AppTask
  PROVE  LineInv'
<1>0. /\ UNCHANGED <<deviceVars, hostVars>>
      /\ PortInv' /\ Taken' = Taken
  BY MainPipes DEF LineInv, PortInv, Taken
<1>1. CASE ParseCommand
  <2>1. PICK n \in Slots : /\ lineBuf[n] = NUL /\ \A i \in 0 .. n - 1 : lineBuf[i] # NUL
                           /\ cmd' = [i \in 1 .. n |-> lineBuf[i - 1]]
    BY <1>1 DEF ParseCommand
  <2>2. pc = "parse" /\ pc' = "reply" /\ UNCHANGED <<lineVars, replies>> /\ lineReady
    BY <1>1 DEF ParseCommand, TurnInv, ReadyWhileWorking
  <2> DEFINE l == typed[Taken]
  <2>3. Taken = Len(replies) + 1 /\ Taken \in 1 .. Len(typed)
    BY <2>2, LineTypes DEF LineInv, TakenInv, OutboxInv, Taken
  <2>4. l \in Seq(Chars) /\ Len(l) \in Nat /\ \A i \in 1 .. Len(l) : l[i] # NUL
    BY <2>3, LineTypes, ElementOfSeq, TypedLine
  <2>5. /\ lineLen = Len(l) /\ lineBuf[lineLen] = NUL
        /\ \A i \in 1 .. lineLen : lineBuf[i - 1] = l[i]
    BY <2>2 DEF LineInv, TakenInv
  <2> HIDE DEF l
  <2>6. n = Len(l)
    <3>1. n \in Nat
      BY LineTypes DEF Slots
    <3>2. CASE n < Len(l)
      <4>1. n + 1 \in 1 .. Len(l) /\ (n + 1) - 1 = n
        BY <2>4, <3>1, <3>2
      <4> QED BY <2>1, <2>4, <2>5, <4>1
    <3>3. CASE n > Len(l)
      BY <2>1, <2>4, <2>5, <3>1, <3>3
    <3> QED BY <2>4, <3>1, <3>2, <3>3
  <2>7. cmd' = l
    <3>1. cmd' = [i \in 1 .. Len(l) |-> l[i]]
      BY <2>1, <2>5, <2>6
    <3> QED BY <2>4, <3>1
  <2> QED BY <1>0, <2>2, <2>3, <2>7
          DEF LineInv, OutboxInv, TakenInv, CommandsAreLines, Joined, Typed, l
<1>2. CASE BuildReply
  <2>1. PICK n \in ReplyLens : replies' = Append(replies, [cmd |-> cmd, len |-> n])
    BY <1>2 DEF BuildReply
  <2>2. pc = "reply" /\ pc' = "clear" /\ UNCHANGED lineVars /\ lineReady
    BY <1>2 DEF BuildReply, TurnInv, ReadyWhileWorking
  <2>3. Taken = Len(replies) + 1 /\ Taken <= Len(typed) /\ cmd = typed[Taken]
    BY <2>2, LineTypes DEF LineInv, TakenInv, OutboxInv, Taken
  <2>4. [cmd |-> cmd, len |-> n] \in Reply
    BY BridgeAssumption DEF Reply, TypeInv, TypeOK
  <2>5. /\ Len(replies') = Len(replies) + 1 /\ replies'[Len(replies')] = [cmd |-> cmd, len |-> n]
        /\ \A i \in 1 .. Len(replies) : replies'[i] = replies[i]
    BY <2>1, <2>4, LineTypes
  <2>6. CommandsAreLines'
    <3>1. Len(replies') <= Len(typed)
      BY <2>3, <2>5
    <3>2. ASSUME NEW i \in 1 .. Len(replies')
          PROVE  replies'[i].cmd = typed[i]
      <4>1. CASE i = Len(replies')
        BY <2>3, <2>5, <4>1
      <4>2. CASE i # Len(replies')
        <5>1. i \in 1 .. Len(replies)
          BY <2>5, <4>2, LineTypes
        <5> QED BY <2>5, <5>1 DEF LineInv, CommandsAreLines
      <4> QED BY <4>1, <4>2
    <3> QED BY <1>0, <3>1, <3>2 DEF CommandsAreLines
  <2>7. TakenInv'
    BY <1>0, <2>2, <2>3, <2>5 DEF TakenInv
  <2>8. OutboxInv'
    BY <1>0, <2>2 DEF LineInv, OutboxInv, Joined, Typed
  <2> QED BY <1>0, <2>6, <2>7, <2>8 DEF LineInv
<1>3. CASE ~ParseCommand /\ ~BuildReply
  <2>1. /\ UNCHANGED <<lineBuf, replies, cmd>>
        /\ \/ UNCHANGED lineVars /\ pc = "idle" /\ lineReady /\ pc' = "parse"
           \/ /\ UNCHANGED lineVars
              /\ pc \in {"setSize", "takeSize", "send", "stallCheck", "backup", "claim", "prime"}
              /\ pc' \notin {"clearLen", "clearReady", "reply"}
           \/ pc = "clear" /\ pc' = "clearReady" /\ lineLen' = 0 /\ lineReady' = lineReady
           \/ pc = "clear" /\ pc' = "clearLen" /\ lineReady' = FALSE
           \/ /\ pc = "clearReady" /\ pc' = "setSize" /\ lineReady' = FALSE
              /\ lineLen' = lineLen
           \/ pc = "clearLen" /\ pc' = "setSize" /\ lineLen' = 0 /\ lineReady' = lineReady
    BY <1>3 DEF AppTask, StartCommand, ClearLine, SetSendSize, TakeSendSize, ClaimPipe, CheckStall,
                BackupReply, ClaimEndpoint, PrimeReply
  <2>2. Joined' = Joined
    BY <2>1 DEF Joined, TurnInv, ReadyWhileWorking, LineInv, TakenInv
  <2>3. TakenInv'
    BY <1>0, <2>1 DEF TurnInv, ReadyWhileWorking, LineInv, TakenInv
  <2> QED BY <1>0, <2>1, <2>2, <2>3 DEF LineInv, OutboxInv, CommandsAreLines, Typed
<1> QED BY <1>1, <1>2, <1>3
(* What a packet is to the line that is collected: its bytes are those of the next  *)
(* line typed, and only the last byte of the write ends it.                   *)
LEMMA NextPacket ==
  ASSUME TypeInv, LayerInv, TidyHost, TurnInv, LineInv, Listening, outbox # << >>,
         NEW n \in 1 .. MaxPacketSize, n <= Len(outbox[1])
  PROVE  LET w == outbox[1]
             l == typed[Taken + 1]
             packet == SubSeq(w, 1, n)
         IN  /\ pc = "idle" /\ ~lineReady /\ attach /\ startTransactions
             /\ Taken \in Nat /\ Taken + 1 \in 1 .. Len(typed) /\ l \in Lines
             /\ w \in Seq(Bytes) /\ n \in Nat /\ Len(w) \in Nat /\ Len(packet) = n
             /\ lineLen + Len(w) = Len(l) + 1 /\ Len(l) < LINE_BUF_SIZE
             /\ \A i \in 1 .. n : packet[i] = w[i]
             /\ \A i \in 1 .. Len(w) : w[i] = Append(l, NL)[lineLen + i]
             /\ \A i \in 1 .. n : EndsLine(packet, i) <=> i = Len(w)
<1> DEFINE w == outbox[1]
           l == typed[Taken + 1]
           packet == SubSeq(w, 1, n)
<1>1. Hearing
  BY LayerParts DEF Listening, Hearing, InterruptPipe
<1>2. pc = "idle" /\ ~lineReady
  BY <1>1 DEF TurnInv, OneHasTheTurn, ReplyPipe, Working, Hearing, Talking, Handing, TypeInv,
              TypeOK, MainSteps
<1>3. Len(outbox) \in Nat \ {0} /\ Len(outbox) <= Len(typed) /\ Len(typed) \in Nat
  BY LineTypes DEF LineInv, OutboxInv
<1>4. Taken \in Nat /\ Taken + 1 \in 1 .. Len(typed) /\ typed # << >>
  BY <1>3, LineTypes DEF Taken
<1>5. l \in Lines
  BY <1>4, LineTypes, ElementOfSeq
<1>6. w \in Seq(Bytes) /\ Len(w) \in Nat
  <2>1. 1 \in 1 .. Len(outbox)
    BY <1>3
  <2> QED BY <2>1, LineTypes, ElementOfSeq
<1>7. Joined = lineLen
  BY <1>2 DEF Joined
<1>8. /\ lineLen + Len(w) = Len(l) + 1 /\ \A i \in 1 .. Len(w) : w[i] = Append(l, NL)[lineLen + i]
  BY <1>7 DEF LineInv, OutboxInv, Typed
<1>9. attach /\ startTransactions
  BY <1>4 DEF LineInv, PortInv
<1>10. n \in Nat /\ 1 <= n /\ n <= Len(w) /\ Len(l) < LINE_BUF_SIZE
  BY <1>5, LineTypes DEF TidyHost
<1> HIDE DEF w, l
<1>11. Len(packet) = n /\ \A i \in 1 .. n : packet[i] = w[i]
  BY <1>6, <1>10
<1> HIDE DEF packet
<1>12. ASSUME NEW i \in 1 .. n
       PROVE  EndsLine(packet, i) <=> i = Len(w)
  <2>1. Len(l) \in Nat /\ lineLen \in Nat /\ LINE_BUF_SIZE \in Nat
    BY <1>5, LineTypes, TypedLine
  <2>2. packet[i] = Append(l, NL)[lineLen + i] /\ lineLen + i <= Len(l) + 1
    BY <1>6, <1>8, <1>10, <1>11, <2>1, SMTT(30)
  <2>3. CASE i = Len(w)
    BY <1>5, <1>8, <2>2, <2>3, TypedLine DEF EndsLine
  <2>4. CASE i # Len(w)
    <3>1. lineLen + i \in 1 .. Len(l)
      BY <1>6, <1>8, <1>10, <2>1, <2>4
    <3> QED BY <1>5, <1>10, <2>1, <2>2, <2>4, <3>1, TypedLine DEF EndsLine
  <2> QED BY <2>3, <2>4
<1> QED BY <1>2, <1>4, <1>5, <1>6, <1>8, <1>9, <1>10, <1>11, <1>12 DEF w, l, packet
LEMMA LineReceive ==
  ASSUME TypeInv, LayerInv, TidyHost, TurnInv, LineInv, ReceivePacket
  PROVE  LineInv'
<1> DEFINE w == outbox[1]
           l == typed[Taken + 1]
<1>1. PICK n \in 1 .. MaxPacketSize :
        /\ n <= Len(w) /\ DeliverPacket(n)
        /\ DropPacket \/ TakePacket(SubSeq(w, 1, n))
  BY LineTypes DEF ReceivePacket
<1> DEFINE packet == SubSeq(w, 1, n)
<1>2. /\ pc = "idle" /\ ~lineReady /\ attach /\ startTransactions
      /\ Taken \in Nat /\ Taken + 1 \in 1 .. Len(typed) /\ l \in Lines
      /\ w \in Seq(Bytes) /\ n \in Nat /\ Len(w) \in Nat /\ Len(packet) = n
      /\ lineLen + Len(w) = Len(l) + 1 /\ Len(l) < LINE_BUF_SIZE
      /\ \A i \in 1 .. n : packet[i] = w[i]
      /\ \A i \in 1 .. Len(w) : w[i] = Append(l, NL)[lineLen + i]
      /\ \A i \in 1 .. n : EndsLine(packet, i) <=> i = Len(w)
  BY <1>1, NextPacket DEF ReceivePacket
<1>3. /\ l \in Seq(Chars) /\ Len(l) \in Nat /\ \A i \in 1 .. Len(l) : Append(l, NL)[i] = l[i]
  BY <1>2, TypedLine
<1>4. /\ UNCHANGED <<attach, startTransactions, replies, pc, cmd, portOpen, typed>>
      /\ PortInv' /\ CommandsAreLines'
  BY ReceiveEffect DEF LineInv, PortInv, CommandsAreLines
<1>5. PICK k \in 0 .. n :
        /\ Joins(packet, k)
        /\ lineLen' = lineLen + k
        /\ lineBuf' = [i \in Slots |->
             IF i \in lineLen .. lineLen + k - 1 THEN packet[i - lineLen + 1]
             ELSE IF k < n /\ i = lineLen + k THEN NUL
             ELSE lineBuf[i]]
        /\ lineReady' = (lineReady \/ k < n)
  <2>1. TakePacket(packet)
    BY <1>1, <1>2 DEF DropPacket
  <2> QED BY <1>2, <2>1 DEF TakePacket
<1>6. /\ Taken = Len(replies) /\ Taken + Len(outbox) = Len(typed) /\ Len(outbox) \in Nat \ {0}
      /\ \A i \in 1 .. lineLen : lineBuf[i - 1] = l[i]
      /\ \A i \in 2 .. Len(outbox) : outbox[i] = Typed(Taken + i)
  BY <1>2, LineTypes DEF LineInv, OutboxInv, TakenInv, Joined, ReceivePacket, Taken
<1> DEFINE rest == SubSeq(w, n + 1, Len(w))
<1>7. outbox' = IF n = Len(w) THEN Tail(outbox) ELSE <<rest>> \o Tail(outbox)
  BY <1>1, LineTypes DEF DeliverPacket
<1>8. k \in Nat /\ n >= 1 /\ n <= Len(w) /\ lineLen \in Nat /\ LINE_BUF_SIZE \in Nat \ {0}
  BY <1>1, <1>2, LineTypes
<1> HIDE DEF packet, w, l, rest
(* What has joined the line is what was typed, up to the end of the packet or of   *)
(* the line.                                                                 *)
<1>9. ASSUME NEW i \in 1 .. lineLen', lineLen' <= Len(l)
      PROVE  lineBuf'[i - 1] = l[i]
  <2>1. i \in Nat /\ i <= lineLen + k /\ i - 1 \in Slots
    BY <1>2, <1>3, <1>5, <1>8, <1>9 DEF Slots
  <2>2. CASE i <= lineLen
    BY <1>5, <1>6, <1>8, <2>1, <2>2
  <2>3. CASE i > lineLen
    <3>1. /\ i - 1 \in lineLen .. lineLen + k - 1
          /\ i - 1 - lineLen + 1 = i - lineLen /\ i - lineLen \in 1 .. n /\ i - lineLen \in 1 .. Len(w)
          /\ lineLen + (i - lineLen) = i /\ i \in 1 .. Len(l)
      BY <1>2, <1>3, <1>5, <1>8, <1>9, <2>1, <2>3
    <3>2. lineBuf'[i - 1] = packet[i - lineLen]
      BY <1>5, <2>1, <3>1
    <3>3. packet[i - lineLen] = Append(l, NL)[lineLen + (i - lineLen)]
      BY <1>2, <3>1
    <3> QED BY <1>3, <3>1, <3>2, <3>3
  <2> QED BY <1>8, <2>1, <2>2, <2>3
<1>10. CASE k < n
  <2>1. n = Len(w) /\ k = n - 1
    <3>1. k + 1 \in 1 .. n /\ EndsLine(packet, k + 1)
      BY <1>2, <1>5, <1>8, <1>10 DEF Joins
    <3> QED BY <1>2, <1>8, <3>1
  <2>2. lineReady' /\ lineLen' = Len(l) /\ lineBuf'[lineLen'] = NUL
    <3>1. lineReady' /\ lineLen' = Len(l) /\ lineLen + k = Len(l)
      <4>1. lineReady'
        BY <1>5, <1>10
      <4>2. lineLen + k = Len(l)
        BY <1>2, <1>3, <1>8, <2>1
      <4> QED BY <1>5, <4>1, <4>2
    <3>2. Len(l) \in Slots /\ ~(Len(l) \in lineLen .. lineLen + k - 1)
      BY <1>2, <1>3, <1>8, <3>1 DEF Slots
    <3> QED BY <1>5, <1>10, <3>1, <3>2
  <2>3. /\ outbox' = Tail(outbox) /\ Len(outbox') = Len(outbox) - 1
        /\ \A i \in 1 .. Len(outbox') : outbox'[i] = outbox[i + 1]
    BY <1>6, <1>7, <2>1, LineTypes
  <2>4. Taken' = Taken + 1 /\ Joined' = 0
    BY <1>4, <1>6, <2>2, <2>3, LineTypes DEF Taken, Joined
  <2>5. ASSUME NEW i \in 1 .. Len(outbox')
        PROVE  outbox'[i] = Append(typed[Taken' + i], NL)
    <3>1. i + 1 \in 2 .. Len(outbox) /\ Taken + (i + 1) = Taken' + i
      BY <1>2, <1>6, <2>3, <2>4
    <3> QED BY <1>6, <2>3, <3>1 DEF Typed
  <2>6. OutboxInv'
    <3>1. Len(outbox') <= Len(typed)
      BY <1>2, <1>6, <2>3
    <3>2. ASSUME outbox' # << >>
          PROVE  /\ Len(outbox'[1]) >= 1 /\ 0 + Len(outbox'[1]) = Len(typed[Taken' + 1]) + 1
                 /\ \A i \in 1 .. Len(outbox'[1]) :
                      outbox'[1][i] = Append(typed[Taken' + 1], NL)[0 + i]
      <4>1. 1 \in 1 .. Len(outbox')
        BY <1>6, <2>3, <3>2, LineTypes
      <4>2. Taken' + 1 \in 1 .. Len(typed)
        <5>1. Taken \in Nat /\ Taken + Len(outbox) = Len(typed) /\ Len(outbox) >= 2
          BY <1>2, <1>6, <2>3, <4>1
        <5>2. Taken' + 1 = Taken + 2
          BY <2>4, <5>1
        <5> QED BY <5>1, <5>2
      <4>3. typed[Taken' + 1] \in Lines
        BY <4>2, LineTypes, ElementOfSeq
      <4>4. outbox'[1] = Append(typed[Taken' + 1], NL)
        BY <2>5, <4>1
      <4> QED BY <4>3, <4>4, TypedLine
    <3>3. \A i \in 2 .. Len(outbox') : outbox'[i] = Append(typed[Taken' + i], NL)
      BY <1>6, <2>3, <2>5
    <3>4. \A i \in 1 .. Joined' : lineBuf'[i - 1] = typed[Taken' + 1][i]
      BY <2>4
    <3> QED BY <1>4, <2>4, <3>1, <3>2, <3>3, <3>4 DEF OutboxInv, Typed
  <2>7. TakenInv'
    <3>1. \A i \in 1 .. lineLen' : lineBuf'[i - 1] = l[i]
      BY <1>3, <1>9, <2>2
    <3> QED BY <1>2, <1>4, <1>6, <2>2, <2>4, <3>1 DEF TakenInv, l
  <2> QED BY <1>4, <2>6, <2>7 DEF LineInv
<1>11. CASE k = n
  <2>1. n < Len(w)
    <3>1. ~EndsLine(packet, n)
      BY <1>5, <1>8, <1>11 DEF Joins
    <3>2. n \in 1 .. n
      BY <1>8
    <3> QED BY <1>2, <1>8, <3>1, <3>2
  <2>2. ~lineReady' /\ lineLen' = lineLen + n /\ lineLen' <= Len(l)
    <3>1. ~lineReady'
      <4>1. ~(k < n)
        BY <1>8, <1>11
      <4> QED BY <1>2, <1>5, <4>1, Zenon
    <3>2. lineLen + n <= Len(l)
      BY <1>2, <1>3, <1>8, <2>1
    <3> QED BY <1>5, <1>11, <3>1, <3>2
  <2>3. /\ rest \in Seq(Bytes) /\ Len(rest) = Len(w) - n
        /\ \A i \in 1 .. Len(rest) : rest[i] = w[n + i]
    <3>1. /\ n + 1 \in 1 .. Len(w) + 1 /\ Len(w) \in n + 1 - 1 .. Len(w)
      BY <1>2, <1>8, <2>1
    <3>2. /\ rest \in Seq(Bytes)
          /\ Len(rest) = IF n + 1 <= Len(w) THEN Len(w) - (n + 1) + 1 ELSE 0
          /\ \A i \in 1 .. Len(w) - (n + 1) + 1 : rest[i] = w[n + 1 + i - 1]
      BY <1>2, <3>1, SubSeqProperties DEF rest
    <3> QED BY <1>2, <1>8, <2>1, <3>2
  <2>4. /\ Len(outbox') = Len(outbox) /\ outbox'[1] = rest
        /\ \A i \in 2 .. Len(outbox') : outbox'[i] = outbox[i]
    <3>1. outbox' = <<rest>> \o Tail(outbox) /\ Tail(outbox) \in Seq(Seq(Bytes))
      BY <1>6, <1>7, <2>1, LineTypes
    <3>2. Len(Tail(outbox)) = Len(outbox) - 1 /\ \A i \in 1 .. Len(outbox) - 1 : Tail(outbox)[i] = outbox[i + 1]
      BY <1>6, LineTypes
    <3> QED BY <1>6, <2>3, <3>1, <3>2
  <2>5. Taken' = Taken /\ Joined' = lineLen + n
    BY <1>2, <1>4, <2>2, <2>4 DEF Taken, Joined
  <2>6. OutboxInv'
    <3>1. /\ Len(outbox'[1]) >= 1 /\ Joined' + Len(outbox'[1]) = Len(l) + 1 /\ outbox' # << >>
      <4>1. Len(outbox'[1]) = Len(w) - n /\ Len(outbox') # 0
        BY <1>6, <2>3, <2>4
      <4>2. lineLen + n + (Len(w) - n) = Len(l) + 1 /\ Len(w) - n >= 1
        BY <1>2, <1>3, <1>8, <2>1, SMTT(30)
      <4> QED BY <2>5, <4>1, <4>2
    <3>2. \A i \in 1 .. Joined' : lineBuf'[i - 1] = l[i]
      BY <1>9, <2>2, <2>5
    <3>3. ASSUME NEW i \in 1 .. Len(outbox'[1])
          PROVE  outbox'[1][i] = Append(l, NL)[Joined' + i]
      <4>1. n + i \in 1 .. Len(w) /\ lineLen + (n + i) = Joined' + i
        BY <1>2, <1>8, <2>3, <2>4, <2>5
      <4> QED BY <1>2, <2>3, <2>4, <4>1
    <3>4. \A i \in 2 .. Len(outbox') : outbox'[i] = Append(typed[Taken + i], NL)
      BY <1>6, <2>4 DEF Typed
    <3>5. Len(outbox') <= Len(typed)
      BY <2>4 DEF LineInv, OutboxInv
    <3> QED BY <1>4, <2>5, <3>1, <3>2, <3>3, <3>4, <3>5 DEF OutboxInv, Typed, l
  <2>7. TakenInv'
    BY <1>2, <1>4, <1>6, <2>2, <2>5 DEF TakenInv
  <2> QED BY <1>4, <2>6, <2>7 DEF LineInv
<1> QED BY <1>2, <1>8, <1>10, <1>11

LEMMA LineStep ==
  ASSUME TidyHost
  PROVE  TypeInv /\ LayerInv /\ [Next]_vars /\ (resets = 0 => TurnInv /\ LineInv)
           => (resets = 0 => LineInv)'
<1> SUFFICES ASSUME TypeInv, LayerInv, [Next]_vars, resets = 0 => TurnInv /\ LineInv, resets' = 0
             PROVE  LineInv'
  OBVIOUS
<1>1. CASE UsbInterrupt
  <2>1. CASE SendChunk
    BY <2>1, <1>1, FirstReset, SendEffect, LineKept
  <2>2. CASE \E e \in {"InterruptIn", "BulkIn"} : IgnoreToken(e)
    BY <2>2, <1>1, FirstReset, IgnoreEffect, LineKept
  <2> QED BY <1>1, <2>1, <2>2, FirstReset, LineControl, LineHalts, LineReceive DEF UsbInterrupt
<1>2. CASE AppTask
  BY <1>2, MainPipes, LineMain
<1>3. CASE HostWrites
  <2>1. resets = 0
    BY <1>3 DEF HostWrites, WriteLines
  <2> QED BY <1>3, <2>1, LineWrites
<1>4. CASE UNCHANGED vars
  BY <1>4, LineKept DEF vars
<1> QED BY <1>1, <1>2, <1>3, <1>4 DEF Next

LEMMA Channelled ==
  ASSUME TidyHost
  PROVE  Spec => [](TypeInv /\ LayerInv /\ (resets = 0 => TurnInv /\ ReplyInv /\ LineInv))
<1>1. Init => (resets = 0 => TurnInv /\ ReplyInv /\ LineInv)
  BY TurnInit, ReplyInit, LineInit
<1>2. /\ TypeInv /\ LayerInv /\ (resets = 0 => TurnInv /\ ReplyInv /\ LineInv) /\ [Next]_vars
      => (TypeInv /\ LayerInv /\ (resets = 0 => TurnInv /\ ReplyInv /\ LineInv))'
  BY TypeStep, LayerStep, TurnStep, ReplyStep, LineStep
<1> QED BY <1>1, <1>2, TypeInit, LayerInit, PTL DEF Spec

(* The commands executed are the lines typed, in order: none is merged with        *)
(* another, cut, executed twice or out of turn, however the host's packets slice    *)
(* what it writes.                                                           *)
THEOREM CommandsAreTheLines ==
  ASSUME TidyHost
  PROVE  Spec => [](resets = 0 => CommandsAreLines)
<1>1. LineInv => CommandsAreLines
  BY DEF LineInv
<1> QED BY <1>1, Channelled, PTL
------------------------------------------------------------------------------
(* The refinement: a line typed is an Ask, the packet that completes a reply an  *)
(* Answer, and every other step a stutter.                                   *)

(* How many replies the host has in full.                                    *)
CompleteCount(g, rs) ==
  IF Len(g) = 0 THEN 0
  ELSE IF Len(g) <= Len(rs) /\ g[Len(g)].len = rs[Len(g)].len THEN Len(g) ELSE Len(g) - 1

LEMMA AnsweredIs ==
  TypeInv => Answered = [i \in 1 .. CompleteCount(got, replies) |-> got[i].cmd]
<1> SUFFICES ASSUME TypeInv
             PROVE  Answered = [i \in 1 .. CompleteCount(got, replies) |-> got[i].cmd]
  OBVIOUS
<1>1. got \in Seq(Reply) /\ Len(got) \in Nat
  BY DEF TypeInv, TypeOK
<1>2. Len(got) \in Complete <=> Len(got) # 0 /\ Len(got) <= Len(replies)
                                /\ got[Len(got)].len = replies[Len(got)].len
  BY <1>1 DEF Complete
<1>3. got = << >> <=> Len(got) = 0
  BY <1>1
<1> QED BY <1>2, <1>3 DEF Answered, CompleteCount

(* The host that holds n bytes of the last reply, and those before it whole, has    *)
(* those before it in full, and the last one too if n is its length.           *)
LEMMA HoldingAnswers ==
  ASSUME NEW rs \in Seq(Reply), NEW g \in Seq(Reply), NEW n \in Nat,
         Len(rs) >= 1, rs[Len(rs)].len # 0,
         \/ n = 0 /\ Len(g) = Len(rs) - 1
         \/ n # 0 /\ Len(g) = Len(rs) /\ g[Len(rs)] = [cmd |-> rs[Len(rs)].cmd, len |-> n],
         \A i \in 1 .. Len(rs) - 1 : g[i] = rs[i]
  PROVE  [i \in 1 .. CompleteCount(g, rs) |-> g[i].cmd]
           = [i \in 1 .. (IF n = rs[Len(rs)].len THEN Len(rs) ELSE Len(rs) - 1) |-> rs[i].cmd]
<1>1. Len(rs) \in Nat \ {0}
  OBVIOUS
<1>2. CASE n = 0
  <2>1. CompleteCount(g, rs) = Len(rs) - 1
    <3>1. CASE Len(rs) = 1
      BY <1>1, <1>2, <3>1 DEF CompleteCount
    <3>2. CASE Len(rs) # 1
      BY <1>1, <1>2, <3>2 DEF CompleteCount
    <3> QED BY <3>1, <3>2
  <2> QED BY <1>1, <1>2, <2>1
<1>3. CASE n # 0
  <2>1. Len(g) = Len(rs) /\ g[Len(rs)].len = n /\ g[Len(rs)].cmd = rs[Len(rs)].cmd
    BY <1>3
  <2>2. CompleteCount(g, rs) = IF n = rs[Len(rs)].len THEN Len(rs) ELSE Len(rs) - 1
    BY <1>1, <2>1 DEF CompleteCount
  <2>3. \A i \in 1 .. Len(rs) : g[i].cmd = rs[i].cmd
    BY <1>1, <2>1
  <2> QED BY <1>1, <2>2, <2>3
<1> QED BY <1>2, <1>3

LEMMA BridgeInit == Init => Channel!ChannelInit
BY DEF Init, Channel!ChannelInit, Answered, Complete

(* A step that brings the host no packet of a reply answers nothing.           *)
LEMMA AnsweredKept ==
  ASSUME TypeInv, RepliesIntact, got' = got,
         replies' = replies \/ \E r : replies' = Append(replies, r)
  PROVE  Answered' = Answered
<1>1. replies \in Seq(Reply) /\ Len(replies) \in Nat /\ Len(got) <= Len(replies) /\ Len(got) \in Nat
  BY DEF TypeInv, TypeOK, RepliesIntact
<1>2. Len(replies') >= Len(replies) /\ \A i \in 1 .. Len(got) : replies'[i] = replies[i]
  BY <1>1
<1>3. Len(replies') \in Nat
  BY <1>1
<1>4. \A i \in 1 .. Len(got) : i <= Len(replies') <=> i <= Len(replies)
  BY <1>1, <1>2, <1>3
<1>5. Complete' = Complete
  BY <1>2, <1>4 DEF Complete
<1> QED BY <1>5 DEF Answered

(* The packet that completes a reply is the answer to the oldest open command.    *)
LEMMA SendAnswers ==
  ASSUME TypeInv, ReplyInv, CommandsAreLines, TypeInv', SendChunk
  PROVE  Channel!Answer \/ UNCHANGED Channel!channel
<1> DEFINE p == pipe["BulkIn"]
           r == Len(replies)
<1>1. PICK n : n = p.transferDone + Chunk(p)
  OBVIOUS
<1>2. /\ p \in Pipe /\ p.transferring /\ UNCHANGED <<typed, replies>>
      /\ replies \in Seq(Reply) /\ got \in Seq(Reply) /\ got' \in Seq(Reply) /\ r \in Nat
      /\ Len(typed) \in Nat
  BY SendEffect, SMTT(30) DEF TypeInv, TypeOK
<1>3. CASE p.transferLength = 0
  <2>1. Answered' = Answered
    BY <1>1, <1>2, <1>3, Collected, AnsweredKept DEF ReplyInv
  <2> QED BY <1>2, <2>1 DEF Channel!channel
<1>4. CASE p.transferLength # 0
  <2>1. /\ Holds(p.transferDone) /\ p.transferDone < p.transferLength
        /\ r >= 1 /\ Current.len = p.transferLength /\ p.transferDone \in Nat
    BY <1>2, <1>4 DEF ReplyInv, Carrying, Carries, Pipe
  <2>2. n \in Nat \ {0} /\ Holds(n)'
    BY <1>1, <1>4, Collected
  <2>3. Answered = [i \in 1 .. r - 1 |-> replies[i].cmd]
    <3>1. [i \in 1 .. CompleteCount(got, replies) |-> got[i].cmd] = [i \in 1 .. r - 1 |-> replies[i].cmd]
      <4>1. /\ \/ p.transferDone = 0 /\ Len(got) = r - 1
               \/ /\ p.transferDone # 0 /\ Len(got) = r
                  /\ got[r] = [cmd |-> replies[r].cmd, len |-> p.transferDone]
            /\ \A i \in 1 .. r - 1 : got[i] = replies[i]
        BY <2>1 DEF Holds, Whole, Current
      <4>2. replies[r].len # 0 /\ p.transferDone # replies[r].len
        BY <1>2, <1>4, <2>1 DEF Current, Pipe
      <4> QED BY <1>2, <2>1, <4>1, <4>2, HoldingAnswers
    <3> QED BY <3>1, AnsweredIs
  <2>4. Answered' = [i \in 1 .. (IF n = Current.len THEN r ELSE r - 1) |-> replies[i].cmd]
    <3>1. [i \in 1 .. CompleteCount(got', replies) |-> got'[i].cmd]
            = [i \in 1 .. (IF n = Current.len THEN r ELSE r - 1) |-> replies[i].cmd]
      BY <1>2, <1>4, <2>1, <2>2, HoldingAnswers DEF Holds, Current
    <3>2. Answered' = [i \in 1 .. CompleteCount(got', replies') |-> got'[i].cmd]
      <4>1. Len(got') \in Nat
        BY <1>2
      <4>2. Len(got') \in Complete' <=> Len(got') # 0 /\ Len(got') <= Len(replies')
                                        /\ got'[Len(got')].len = replies'[Len(got')].len
        BY <4>1 DEF Complete
      <4>3. got' = << >> <=> Len(got') = 0
        BY <1>2
      <4> QED BY <4>2, <4>3 DEF Answered, CompleteCount
    <3> QED BY <1>2, <3>1, <3>2
  <2>5. CASE n = Current.len
    <3>1. r <= Len(typed) /\ replies[r].cmd = typed[r]
      BY <1>2, <2>1 DEF CommandsAreLines
    <3>2. Len(Answered) = r - 1
      BY <1>2, <2>1, <2>3
    <3>3. Answered' = [i \in 1 .. r |-> replies[i].cmd]
      BY <2>4, <2>5
    <3>4. Answered' = Append(Answered, typed[r])
      BY <1>2, <2>1, <2>3, <3>1, <3>2, <3>3
    <3>5. Len(Answered) + 1 = r /\ Len(Answered) < Len(typed)
      BY <1>2, <2>1, <3>1, <3>2
    <3> HIDE DEF r
    <3> QED BY <1>2, <3>4, <3>5 DEF Channel!Answer
  <2>6. CASE n # Current.len
    BY <1>2, <2>3, <2>4, <2>6 DEF Channel!channel
  <2> QED BY <2>5, <2>6
<1> QED BY <1>3, <1>4

(* The lines a program writes.                                               *)
LEMMA WritesAsk ==
  ASSUME TypeInv, RepliesIntact, TypeInv', HostWrites
  PROVE  Channel!Ask
<1>1. PICK lines, bytes : lines \in Seq(Lines) /\ WriteLines(lines, bytes)
  <2>1. CASE \E l \in Lines : WriteLines(<<l>>, Append(l, NL))
    <3>1. \A l \in Lines : <<l>> \in Seq(Lines)
      OBVIOUS
    <3> QED BY <2>1, <3>1
  <2>2. CASE \E l, m \in Lines : WriteLines(<<l, m>>, Append(l, NL) \o Append(m, NL))
    <3>1. \A l, m \in Lines : <<l, m>> \in Seq(Lines)
      OBVIOUS
    <3> QED BY <2>2, <3>1
  <2> QED BY <2>1, <2>2 DEF HostWrites
<1>2. /\ typed' = typed \o lines /\ UNCHANGED <<got, replies>> /\ Len(lines) \in {1, 2}
  BY <1>1, BridgeAssumption DEF WriteLines
<1>3. typed \in Seq(Lines) /\ typed' \in Seq(Lines)
  BY DEF TypeInv, TypeOK
<1>4. /\ Len(typed') = Len(typed) + Len(lines) /\ Len(typed) \in Nat
      /\ \A i \in 1 .. Len(typed) : typed'[i] = typed[i]
  BY <1>2, <1>3
<1>5. SubSeq(typed, 1, Len(typed)) = SubSeq(typed', 1, Len(typed))
  <2>1. /\ SubSeq(typed, 1, Len(typed)) = [i \in 1 .. Len(typed) |-> typed[i]]
        /\ SubSeq(typed', 1, Len(typed)) = [i \in 1 .. Len(typed) |-> typed'[i]]
    BY <1>2, <1>3, <1>4
  <2> QED BY <1>4, <2>1
<1>6. typed # typed' /\ Len(typed) <= Len(typed')
  <2>1. Len(typed') = Len(typed) + Len(lines) /\ Len(typed) \in Nat
    BY <1>4
  <2>2. CASE Len(lines) = 1
    <3>1. Len(typed') = Len(typed) + 1
      BY <2>1, <2>2
    <3> QED BY <2>1, <3>1
  <2>3. CASE Len(lines) = 2
    <3>1. Len(typed') = Len(typed) + 2
      BY <2>1, <2>3
    <3> QED BY <2>1, <3>1
  <2> QED BY <1>2, <2>2, <2>3
<1>7. Channel!IsStrictPrefix(typed, typed')
  BY <1>5, <1>6 DEF Channel!IsStrictPrefix, Channel!IsPrefix
<1>8. Answered' = Answered
  BY <1>2, AnsweredKept
<1> QED BY <1>3, <1>7, <1>8 DEF Channel!Ask

LEMMA BridgeStep ==
  ASSUME TypeInv, TypeInv', ReplyInv, CommandsAreLines, [Next]_vars
  PROVE  [Channel!ChannelNext]_Channel!channel
<1>0. RepliesIntact
  BY DEF ReplyInv
<1>1. CASE HostWrites
  BY <1>0, <1>1, WritesAsk DEF Channel!ChannelNext
<1>2. CASE SendChunk
  BY <1>2, SendAnswers DEF Channel!ChannelNext
<1>3. CASE ~HostWrites /\ ~SendChunk
  <2>1. /\ UNCHANGED <<typed, got>>
        /\ replies' = replies \/ \E r : replies' = Append(replies, r)
    <3>1. CASE AppTask
      <4>1. UNCHANGED <<typed, got>>
        BY <3>1, MainPipes
      <4>2. replies' = replies \/ \E r : replies' = Append(replies, r)
        BY <3>1 DEF AppTask, StartCommand, ParseCommand, BuildReply, ClearLine, SetSendSize,
                    TakeSendSize, ClaimPipe, CheckStall, BackupReply, ClaimEndpoint, PrimeReply
      <4> QED BY <4>1, <4>2
    <3>2. CASE UsbInterrupt
      <4>1. CASE \E e \in Endpoints : SetHalt(e) \/ ClearHalt(e)
        BY <4>1 DEF SetHalt, ClearHalt
      <4>2. CASE ~\E e \in Endpoints : SetHalt(e) \/ ClearHalt(e)
        BY <1>3, <3>2, <4>2, ReceiveEffect
           DEF UsbInterrupt, BusReset, SetAddress, Configure, Unconfigure, SetControlLineState,
               NotificationSent, IgnoreToken, HostLeaves
      <4> QED BY <4>1, <4>2
    <3>3. CASE UNCHANGED vars
      BY <3>3 DEF vars
    <3> QED BY <1>3, <3>1, <3>2, <3>3 DEF Next
  <2> QED BY <1>0, <2>1, AnsweredKept DEF Channel!channel
<1> QED BY <1>1, <1>2, <1>3

(* The bridge of a tidy host that does not reset implements CommandChannel: a      *)
(* command is answered in its turn and no more than once, for all lengths of       *)
(* lines, replies, buffer and packets, and with halts wherever they come.        *)
THEOREM ImplementsChannel ==
  ASSUME TidyHost
  PROVE  Spec /\ [](resets = 0) => AnswersInOrder
<1>1. /\ TypeInv /\ TypeInv' /\ (resets = 0 => TurnInv /\ ReplyInv /\ LineInv) /\ resets = 0
      /\ [Next]_vars
      => [Channel!ChannelNext]_Channel!channel
  BY BridgeStep DEF LineInv
<1> QED BY <1>1, BridgeInit, Channelled, PTL DEF Spec, AnswersInOrder, Channel!ChannelSafety
==============================================================================
