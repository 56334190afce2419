------------------------ MODULE SlaveCaptureProofs ------------------------
(***************************************************************************)
(* Theorems about SlaveCapture, for every counter width, timeout, buffer size, *)
(* set of texts and number of transfers and waits.                           *)
(***************************************************************************)
EXTENDS SlaveCapture, SequenceTheorems, TLAPS

USE DEF Flags, NoStop

LEMMA Numbers ==
  /\ TICKS \in Nat \ {0} /\ timeoutTicks \in Nat /\ MaxLag \in Nat /\ bufMax \in Nat
  /\ timeoutTicks + MaxLag < TICKS
  /\ MaxTransfers \in Nat /\ MaxWaits \in Nat
BY CaptureAssumption
------------------------------------------------------------------------------
(* Type correctness, the truth values apart from the rest.                   *)

Truths ==
  /\ sawAddress \in BOOLEAN /\ gotStop \in BOOLEAN /\ heard \in BOOLEAN
  /\ SEN \in BOOLEAN /\ matched \in BOOLEAN

Values ==
  /\ pc \in {"idle", "test", "address", "data", "stop", "close"}
  /\ len \in 0 .. bufMax /\ Len(buf) = len /\ buf \in Seq(Nat)
  /\ status \subseteq Flags
  /\ reply \in {"none", "OK", "timeout"}
  /\ s_tickCount \in 0 .. TICKS - 1 /\ startTick \in 0 .. TICKS - 1
  /\ lag \in 0 .. MaxLag /\ elapsed \in 0 .. timeoutTicks + 1
  /\ SSR \subseteq Flags /\ SRDR \in Nat
  /\ bus \in {"idle", "write", "read"} /\ rest \in Seq(Nat)
  /\ transfers \in 0 .. MaxTransfers /\ waits \in 0 .. MaxWaits
  /\ received \in Seq(Nat) /\ stopAt \in Nat \cup {NoStop}

LEMMA TypesSplit == TypeOK <=> Truths /\ Values
BY Zenon DEF TypeOK, Truths, Values

LEMMA TypesInit == Init => TypeOK
<1> SUFFICES ASSUME Init PROVE Truths /\ Values
  BY TypesSplit
<1>1. Truths
  BY DEF Init, Truths
<1>2. Values
  BY Numbers DEF Init, Values
<1> QED BY <1>1, <1>2

LEMMA TruthsStep == Truths /\ Next => Truths'
<1> USE DEF localVars, slaveVars, tickVars, busVars, historyVars
<1>1. Truths /\ (Listen \/ Wait \/ SysTick) => Truths'
  BY Zenon DEF Listen, Wait, Test, Address, Data, Stop, Close, SysTick, Truths
<1>2. Truths /\ OtherMaster => Truths'
  BY Zenon DEF OtherMaster, MasterAddresses, MasterRestarts, MasterSends, MasterStops, Truths
<1> QED BY <1>1, <1>2 DEF Next

LEMMA ValuesStep == Values /\ Next => Values'
<1> SUFFICES ASSUME Values, Next PROVE Values'
  OBVIOUS
<1> USE Numbers DEF localVars, slaveVars, tickVars, busVars, historyVars
<1>1. CASE Listen
  BY <1>1 DEF Listen, Values
<1>2. CASE Test
  <2>1. /\ lag' = 0 /\ pc' \in {"address", "close"} /\ status' \in {status, SSR}
        /\ UNCHANGED <<len, buf, startTick, reply, s_tickCount, elapsed, SSR, SRDR, bus, rest,
                       transfers, waits, received, stopAt>>
    BY <1>2 DEF Test
  <2> QED BY <2>1 DEF Values
<1>3. CASE Address
  BY <1>3 DEF Address, Values
<1>4. CASE Data
  <2>1. len' \in 0 .. bufMax /\ Len(buf') = len' /\ buf' \in Seq(Nat)
    <3>1. \/ buf' = Append(buf, SRDR) /\ len' = len + 1 /\ len < bufMax
          \/ UNCHANGED <<buf, len>>
      BY <1>4 DEF Data, Room
    <3>2. Append(buf, SRDR) \in Seq(Nat) /\ Len(Append(buf, SRDR)) = Len(buf) + 1
      BY DEF Values
    <3>3. len \in 0 .. bufMax /\ Len(buf) = len /\ buf \in Seq(Nat)
      BY DEF Values
    <3> QED BY <3>1, <3>2, <3>3
  <2> QED BY <1>4, <2>1 DEF Data, Values
<1>5. CASE Stop
  BY <1>5 DEF Stop, Values
<1>6. CASE Close
  BY <1>6 DEF Close, Values
<1>7. CASE SysTick
  <2>1. s_tickCount' \in 0 .. TICKS - 1
    BY <1>7 DEF SysTick, Values
  <2>2. lag' \in 0 .. MaxLag /\ elapsed' \in 0 .. timeoutTicks + 1
    BY <1>7 DEF SysTick, Values, AtMost
  <2> QED BY <1>7, <2>1, <2>2 DEF SysTick, Values
<1>8. CASE OtherMaster
  <2>1. << >> \in Seq(Nat) /\ \A t \in Texts : t \in Seq(Nat)
    BY CaptureAssumption
  <2>2. ASSUME NEW kind \in {"write", "read"}, NEW t \in Seq(Nat), MasterAddresses(kind, t)
        PROVE  Values'
    BY <2>2 DEF MasterAddresses, Values
  <2>3. ASSUME NEW t \in Seq(Nat), MasterRestarts(t)
        PROVE  Values'
    <3>1. /\ bus' \in {bus, "idle"} /\ rest' \in {rest, t} /\ SSR' \in {SSR, SSR \cup {"AVF"}}
          /\ transfers' = transfers \/ (transfers < MaxTransfers /\ transfers' = transfers + 1)
          /\ UNCHANGED <<pc, len, buf, startTick, status, reply, s_tickCount, lag, elapsed, SRDR,
                         waits, received, stopAt>>
      BY <2>3 DEF MasterRestarts
    <3> QED BY <3>1 DEF Values
  <2>4. CASE MasterSends
    <3>1. /\ rest # << >> /\ SSR' \in {SSR, SSR \cup {"RDF"}}
          /\ UNCHANGED <<pc, len, buf, startTick, status, reply, s_tickCount, lag, elapsed,
                         transfers, waits, stopAt>>
      BY <2>4 DEF MasterSends
    <3>2. /\ SRDR' \in {SRDR, Head(rest)} /\ received' \in {received, Append(received, Head(rest))}
          /\ rest' \in {Tail(rest), << >>} /\ bus' \in {bus, "idle"}
      BY <2>4 DEF MasterSends
    <3>3. Head(rest) \in Nat /\ Tail(rest) \in Seq(Nat)
      BY <3>1 DEF Values
    <3>4. SRDR' \in Nat /\ received' \in Seq(Nat) /\ rest' \in Seq(Nat) /\ bus' \in {bus, "idle"}
      <4>1. SRDR \in Nat /\ received \in Seq(Nat) /\ rest \in Seq(Nat)
        BY DEF Values
      <4>2. Append(received, Head(rest)) \in Seq(Nat)
        BY <3>3, <4>1
      <4>3. << >> \in Seq(Nat)
        OBVIOUS
      <4>4. SRDR' \in Nat
        BY <3>2, <3>3, <4>1
      <4>5. received' \in Seq(Nat)
        BY <3>2, <4>1, <4>2
      <4>6. rest' \in Seq(Nat)
        BY <3>2, <3>3, <4>3
      <4> QED BY <3>2, <4>4, <4>5, <4>6
    <3> QED BY <3>1, <3>4 DEF Values
  <2>5. CASE MasterStops
    BY <2>5 DEF MasterStops, Values
  <2> QED BY <1>8, <2>1, <2>2, <2>3, <2>4, <2>5 DEF OtherMaster
<1> QED BY <1>1, <1>2, <1>3, <1>4, <1>5, <1>6, <1>7, <1>8 DEF Next, Wait

LEMMA TypesStep == TypeOK /\ [Next]_vars => TypeOK'
<1>1. TypeOK /\ UNCHANGED vars => TypeOK'
  BY DEF TypeOK, vars, localVars, tickVars, slaveVars, busVars, historyVars
<1>2. ASSUME TypeOK, Next
      PROVE  Truths' /\ Values'
  BY <1>2, TypesSplit, TruthsStep, ValuesStep
<1>3. Truths' /\ Values' => TypeOK'
  BY Zenon DEF TypeOK, Truths, Values
<1> QED BY <1>1, <1>2, <1>3

(* Every variable keeps its type: I2C_SlaveWaitForWrite never writes past the     *)
(* end of the buffer it was given, whatever arrives and however long it waits.   *)
THEOREM TypeCorrect == Spec => []TypeOK
BY TypesInit, TypesStep, PTL DEF Spec
------------------------------------------------------------------------------
(* The bytes that the loop has read: all that came but the one in SRDR.       *)
Full == "RDF" \in SSR

Read == IF Full THEN Len(received) - 1 ELSE Len(received)

Polling == pc \in {"test", "address", "data", "stop"}
InBody  == pc \in {"address", "data", "stop"}

(* Nothing is overwritten in SRDR: it holds the last byte that came, and the   *)
(* master that sent it waits. Without a wait the slave is disabled.          *)
RegisterInv ==
  /\ Full => received # << >> /\ SRDR = received[Len(received)]
  /\ pc # "idle" /\ Full => matched
  /\ pc = "idle" => ~matched /\ ~SEN

(* What has been read is in buf[], as far as there is room.                  *)
BufferInv ==
  /\ len = AtMost(Read, bufMax)
  /\ \A i \in 1 .. len : buf[i] = received[i]

(* A STOP that the slave has seen ended a transfer whose address it has seen,  *)
(* and the loop has seen it before the STOP, or sees it with it ...            *)
AddressInv ==
  /\ pc # "idle" /\ (matched \/ "SDF" \in SSR) => "AVF" \in SSR \/ sawAddress
  /\ InBody /\ "AVF" \in status => "AVF" \in SSR \/ sawAddress
  /\ pc = "address" /\ "SDF" \in status => "AVF" \in status \/ sawAddress
  /\ pc \in {"data", "stop"} /\ "SDF" \in status => sawAddress

(* ... so that the first STOP that it polls ends the loop, which has read at   *)
(* most one byte since.                                                      *)
StopInv ==
  /\ Polling => ("SDF" \in SSR <=> stopAt # NoStop)
  /\ InBody /\ "SDF" \in status => "SDF" \in SSR
  /\ pc \in {"address", "data"} /\ "RDF" \in status =>
       Full /\ ("SDF" \in SSR => "SDF" \in status)
  /\ Polling /\ stopAt # NoStop =>
       Read = stopAt \/ (Read = stopAt + 1 /\ pc = "stop" /\ "SDF" \in status)

(* What the reply will say, or says.                                         *)
ReplyInv ==
  /\ reply # "none" => pc = "idle"
  /\ gotStop => pc \in {"close", "idle"} /\ stopAt # NoStop /\ Read \in {stopAt, stopAt + 1}
  /\ reply = "OK" => gotStop

CaptureInv == RegisterInv /\ BufferInv /\ AddressInv /\ StopInv /\ ReplyInv

(* Up to the deadline the counter is where the ticks of the wait have brought    *)
(* it, once round at most; and the poll that hears a STOP is the last.         *)
LateInv ==
  /\ Polling /\ elapsed <= timeoutTicks =>
       s_tickCount = startTick + elapsed \/ s_tickCount = startTick + elapsed - TICKS
  /\ pc = "close" /\ ~gotStop => elapsed > timeoutTicks /\ ~heard
  /\ pc = "test" => ~heard
  /\ InBody /\ heard => "SDF" \in status
  /\ reply = "timeout" => elapsed > timeoutTicks /\ ~heard
------------------------------------------------------------------------------
(* The bytes read so far are no more than came.                             *)
LEMMA ReadBounds ==
  ASSUME TypeOK, RegisterInv
  PROVE  /\ Read \in Nat /\ Read <= Len(received) /\ Len(received) \in Nat
         /\ (Full => Read + 1 = Len(received)) /\ (~Full => Read = Len(received))
BY DEF TypeOK, RegisterInv, Read, Full

LEMMA SameFlag ==
  ASSUME NEW S, NEW T, NEW f, NEW g, f # g
  PROVE  f \in S \ (T \cap {g}) <=> f \in S
OBVIOUS

LEMMA CaptureInit == Init => CaptureInv /\ LateInv
BY Numbers DEF Init, CaptureInv, RegisterInv, BufferInv, AddressInv, StopInv, ReplyInv, LateInv, Read, Full, Polling, InBody, AtMost

LEMMA CaptureListen == TypeOK /\ CaptureInv /\ Listen => CaptureInv'
<1> SUFFICES ASSUME TypeOK, CaptureInv, Listen PROVE CaptureInv'
  OBVIOUS
<1> USE Numbers DEF CaptureInv
<1>1. RegisterInv'
  BY DEF Listen, RegisterInv, Full
<1>2. BufferInv'
  BY DEF Listen, BufferInv, Read, Full, AtMost
<1>3. AddressInv'
  BY DEF Listen, AddressInv, RegisterInv, InBody
<1>4. StopInv'
  BY DEF Listen, StopInv, InBody, Polling, Read, Full
<1>5. ReplyInv'
  BY DEF Listen, ReplyInv
<1> QED BY <1>1, <1>2, <1>3, <1>4, <1>5

LEMMA CaptureTest == TypeOK /\ CaptureInv /\ Test => CaptureInv'
<1> SUFFICES ASSUME TypeOK, CaptureInv, Test PROVE CaptureInv'
  OBVIOUS
<1> USE Numbers DEF CaptureInv
<1>0. UNCHANGED <<len, sawAddress, gotStop, buf, reply, SEN, SSR, SRDR, matched, received, stopAt>>
      /\ Read' = Read /\ Full' = Full /\ pc = "test"
      /\ ((pc' = "address" /\ status' = SSR) \/ pc' = "close")
  BY DEF Test, slaveVars, Read, Full
<1>1. RegisterInv'
  BY <1>0 DEF RegisterInv
<1>2. BufferInv'
  BY <1>0 DEF BufferInv
<1>3. AddressInv'
  BY <1>0 DEF AddressInv, InBody
<1>4. StopInv'
  BY <1>0 DEF StopInv, InBody, Polling, Full
<1>5. ReplyInv'
  BY <1>0 DEF ReplyInv
<1> QED BY <1>1, <1>2, <1>3, <1>4, <1>5

LEMMA CaptureAddress == TypeOK /\ CaptureInv /\ Address => CaptureInv'
<1> SUFFICES ASSUME TypeOK, CaptureInv, Address PROVE CaptureInv'
  OBVIOUS
<1> USE Numbers DEF CaptureInv
<1>0. /\ UNCHANGED <<len, gotStop, buf, status, reply, SEN, SRDR, matched, received, stopAt>>
      /\ SSR' = SSR \ (status \cap {"AVF"})
      /\ pc = "address" /\ pc' = "data" /\ (sawAddress' <=> sawAddress \/ "AVF" \in status)
  BY DEF Address, tickVars, busVars, historyVars
<1>6. (Full' <=> Full) /\ Read' = Read
  BY <1>0, SameFlag DEF Full, Read
<1>1. RegisterInv'
  BY <1>0, <1>6 DEF RegisterInv
<1>2. BufferInv'
  BY <1>0, <1>6 DEF BufferInv
<1>3. AddressInv'
  BY <1>0, <1>6 DEF AddressInv, InBody
<1>4. StopInv'
  BY <1>0, <1>6 DEF StopInv, InBody, Polling, Full
<1>5. ReplyInv'
  BY <1>0, <1>6 DEF ReplyInv
<1> QED BY <1>1, <1>2, <1>3, <1>4, <1>5

LEMMA CaptureData == TypeOK /\ CaptureInv /\ Data => CaptureInv'
<1> SUFFICES ASSUME TypeOK, CaptureInv, Data PROVE CaptureInv'
  OBVIOUS
<1> USE Numbers DEF CaptureInv
<1>0. /\ UNCHANGED <<sawAddress, gotStop, status, reply, SEN, SRDR, matched, received, stopAt>>
      /\ SSR' = SSR \ (status \cap {"RDF"}) /\ pc = "data" /\ pc' = "stop"
  BY DEF Data, tickVars, busVars, historyVars
<1>6. CASE "RDF" \in status
  <2>1. Full /\ ~Full' /\ Read' = Read + 1 /\ Read = Len(received) - 1 /\ Len(received) \in Nat \ {0}
    BY <1>0, <1>6 DEF StopInv, Full, Read, RegisterInv, TypeOK
  <2>2. SRDR = received[Read']
    BY <2>1 DEF RegisterInv
  <2>3. IF len < bufMax THEN buf' = Append(buf, SRDR) /\ len' = len + 1 ELSE UNCHANGED <<buf, len>>
    BY <1>6, <2>1 DEF Data, Room, Full
  <2>4. RegisterInv'
    BY <1>0, <2>1 DEF RegisterInv
  <2>5. BufferInv'
    <3>1. len = AtMost(Read, bufMax) /\ len \in Nat /\ Len(buf) = len /\ buf \in Seq(Nat)
      BY DEF BufferInv, TypeOK
    <3>2. len' = AtMost(Read', bufMax)
      BY <2>1, <2>3, <3>1 DEF AtMost
    <3>3. ASSUME NEW i \in 1 .. len' PROVE buf'[i] = received[i]
      <4>1. CASE i <= len
        <5>1. i \in 1 .. len /\ buf'[i] = buf[i]
          BY <2>3, <3>1, <4>1, SMTT(30)
        <5> QED BY <5>1 DEF BufferInv
      <4>2. CASE i > len
        <5>1. i = len + 1 /\ buf' = Append(buf, SRDR) /\ len < bufMax
          BY <2>3, <3>1, <4>2
        <5>2. len = Read
          BY <2>1, <3>1, <5>1 DEF AtMost
        <5> QED BY <2>1, <2>2, <3>1, <5>1, <5>2
      <4> QED BY <2>3, <3>1, <4>1, <4>2
    <3> QED BY <1>0, <3>2, <3>3 DEF BufferInv
  <2>6. AddressInv'
    BY <1>0 DEF AddressInv, InBody
  <2>7. StopInv'
    <3>1. "SDF" \in SSR' <=> "SDF" \in SSR
      BY <1>0
    <3>2. stopAt # NoStop => Read' = stopAt + 1 /\ "SDF" \in status
      BY <1>0, <1>6, <2>1 DEF StopInv, Polling
    <3> QED BY <1>0, <3>1, <3>2 DEF StopInv, InBody, Polling
  <2>8. ReplyInv'
    BY <1>0 DEF ReplyInv
  <2> QED BY <2>4, <2>5, <2>6, <2>7, <2>8
<1>7. CASE "RDF" \notin status
  <2>1. SSR' = SSR /\ Full' = Full /\ Read' = Read /\ UNCHANGED <<buf, len>>
    BY <1>0, <1>7 DEF Data, Full, Read
  <2>2. RegisterInv'
    BY <1>0, <2>1 DEF RegisterInv
  <2>3. BufferInv'
    BY <1>0, <2>1 DEF BufferInv
  <2>4. AddressInv'
    BY <1>0, <2>1 DEF AddressInv, InBody
  <2>5. StopInv'
    BY <1>0, <2>1 DEF StopInv, InBody, Polling
  <2>6. ReplyInv'
    BY <1>0 DEF ReplyInv
  <2> QED BY <2>2, <2>3, <2>4, <2>5, <2>6
<1> QED BY <1>6, <1>7

LEMMA CaptureStop == TypeOK /\ CaptureInv /\ Stop => CaptureInv'
<1> SUFFICES ASSUME TypeOK, CaptureInv, Stop PROVE CaptureInv'
  OBVIOUS
<1> USE Numbers DEF CaptureInv
<1>0. /\ UNCHANGED <<len, sawAddress, buf, status, reply, SEN, SRDR, matched, received, stopAt>>
      /\ SSR' = SSR \ (status \cap {"SDF"})
      /\ pc = "stop" /\ (gotStop' <=> "SDF" \in status /\ sawAddress)
      /\ pc' = IF gotStop' THEN "close" ELSE "test"
  BY DEF Stop, tickVars, busVars, historyVars
<1>6. (Full' <=> Full) /\ Read' = Read
  BY <1>0, SameFlag DEF Full, Read
<1>1. RegisterInv'
  BY <1>0, <1>6 DEF RegisterInv
<1>2. BufferInv'
  BY <1>0, <1>6 DEF BufferInv
<1>3. AddressInv'
  BY <1>0, <1>6 DEF AddressInv, InBody
<1>4. StopInv'
  BY <1>0, <1>6 DEF StopInv, AddressInv, InBody, Polling, Full
<1>5. ReplyInv'
  BY <1>0, <1>6 DEF ReplyInv, StopInv, Polling, InBody
<1> QED BY <1>1, <1>2, <1>3, <1>4, <1>5

LEMMA CaptureClose == TypeOK /\ CaptureInv /\ Close => CaptureInv'
<1> SUFFICES ASSUME TypeOK, CaptureInv, Close PROVE CaptureInv'
  OBVIOUS
<1> USE Numbers DEF CaptureInv
<1>0. /\ UNCHANGED <<len, sawAddress, gotStop, buf, status, SSR, SRDR, received, stopAt>>
      /\ Read' = Read /\ Full' = Full /\ ~SEN' /\ ~matched'
      /\ pc = "close" /\ pc' = "idle" /\ reply' = IF gotStop THEN "OK" ELSE "timeout"
  BY DEF Close, localVars, tickVars, busVars, historyVars, Read, Full
<1>1. RegisterInv'
  BY <1>0 DEF RegisterInv
<1>2. BufferInv'
  BY <1>0 DEF BufferInv
<1>3. AddressInv'
  BY <1>0 DEF AddressInv, InBody
<1>4. StopInv'
  BY <1>0 DEF StopInv, InBody, Polling, Full
<1>5. ReplyInv'
  BY <1>0 DEF ReplyInv
<1> QED BY <1>1, <1>2, <1>3, <1>4, <1>5

LEMMA CaptureSysTick == TypeOK /\ CaptureInv /\ SysTick => CaptureInv'
<1> SUFFICES ASSUME TypeOK, CaptureInv, SysTick PROVE CaptureInv'
  OBVIOUS
<1>1. UNCHANGED <<pc, len, sawAddress, gotStop, buf, status, reply, SEN, SSR, SRDR, matched,
                  received, stopAt>>
  BY DEF SysTick, localVars, slaveVars, historyVars
<1> QED BY <1>1 DEF CaptureInv, RegisterInv, BufferInv, AddressInv, StopInv, ReplyInv, InBody,
                    Polling, Full, Read

(* An address that is matched.                                              *)
LEMMA CaptureAddressed ==
  ASSUME TypeOK, CaptureInv, SEN, SSR' = SSR \cup {"AVF"}, matched',
         UNCHANGED <<pc, len, sawAddress, gotStop, buf, status, reply, SEN, SRDR, received, stopAt>>
  PROVE  CaptureInv'
<1> USE DEF CaptureInv
<1>1. pc # "idle"
  BY DEF RegisterInv
<1>2. (Full' <=> Full) /\ Read' = Read /\ ("SDF" \in SSR' <=> "SDF" \in SSR)
  BY DEF Full, Read
<1>3. RegisterInv' /\ BufferInv'
  BY <1>1, <1>2 DEF RegisterInv, BufferInv
<1>4. AddressInv'
  BY <1>1, <1>2 DEF AddressInv, InBody
<1>5. StopInv' /\ ReplyInv'
  BY <1>2 DEF StopInv, ReplyInv, InBody, Polling
<1> QED BY <1>3, <1>4, <1>5

LEMMA CaptureSends == TypeOK /\ CaptureInv /\ MasterSends => CaptureInv'
<1> SUFFICES ASSUME TypeOK, CaptureInv, MasterSends PROVE CaptureInv'
  OBVIOUS
<1> USE DEF CaptureInv
<1>1. UNCHANGED <<pc, len, sawAddress, gotStop, buf, status, reply, SEN, matched, stopAt>>
  BY DEF MasterSends, localVars, historyVars
<1>2. CASE matched
  <2>1. pc # "idle" /\ ~Full /\ bus = "write"
    BY <1>2 DEF MasterSends, Stalls, RegisterInv, Full
  <2>2. /\ SSR' = SSR \cup {"RDF"} /\ SRDR' = Head(rest) /\ received' = Append(received, Head(rest))
        /\ rest # << >>
    BY <1>2, <2>1 DEF MasterSends, Full
  <2>3. Full' /\ ("SDF" \in SSR' <=> "SDF" \in SSR) /\ ("AVF" \in SSR' <=> "AVF" \in SSR)
    BY <2>2 DEF Full
  <2>4. /\ received \in Seq(Nat) /\ Len(received) \in Nat /\ Len(received') = Len(received) + 1
        /\ received'[Len(received')] = SRDR'
        /\ \A i \in 1 .. Len(received) : received'[i] = received[i]
    BY <2>2 DEF TypeOK
  <2>5. Read' = Read /\ Read = Len(received)
    BY <2>1, <2>3, <2>4 DEF Read
  <2>6. RegisterInv'
    BY <1>1, <1>2, <2>1, <2>3, <2>4 DEF RegisterInv
  <2>7. BufferInv'
    <3>1. len \in 0 .. Len(received)
      BY <2>4, <2>5, Numbers DEF BufferInv, AtMost
    <3> QED BY <1>1, <2>4, <2>5, <3>1 DEF BufferInv
  <2>8. AddressInv'
    BY <1>1, <2>3 DEF AddressInv, InBody
  <2>9. StopInv' /\ ReplyInv'
    BY <1>1, <2>1, <2>3, <2>5 DEF StopInv, ReplyInv, InBody, Polling
  <2> QED BY <2>6, <2>7, <2>8, <2>9
<1>3. CASE ~matched
  <2>1. UNCHANGED <<SSR, SRDR, received>>
    BY <1>3 DEF MasterSends
  <2> QED BY <1>1, <2>1 DEF RegisterInv, BufferInv, AddressInv, StopInv, ReplyInv, InBody, Polling,
                            Full, Read
<1> QED BY <1>2, <1>3

LEMMA CaptureStops == TypeOK /\ CaptureInv /\ MasterStops => CaptureInv'
<1> SUFFICES ASSUME TypeOK, CaptureInv, MasterStops PROVE CaptureInv'
  OBVIOUS
<1> USE DEF CaptureInv
<1>1. UNCHANGED <<pc, len, sawAddress, gotStop, buf, status, reply, SEN, SRDR, received>> /\ ~matched'
  BY DEF MasterStops, localVars
<1>2. CASE matched
  <2>1. pc # "idle" /\ ~Full
    BY <1>2 DEF MasterStops, Stalls, RegisterInv, Full
  <2>2. /\ SSR' = SSR \cup {"SDF"}
        /\ stopAt' = IF stopAt = NoStop THEN Len(received) ELSE stopAt
    BY <1>2 DEF MasterStops
  <2>3. ~Full' /\ ("AVF" \in SSR' <=> "AVF" \in SSR) /\ "SDF" \in SSR'
    BY <2>1, <2>2 DEF Full
  <2>4. Read' = Read /\ Read = Len(received) /\ Len(received) \in Nat
    BY <1>1, <2>1, <2>3 DEF Read, TypeOK
  <2>5. stopAt' # NoStop /\ (stopAt # NoStop => stopAt' = stopAt)
    BY <2>2, <2>4
  <2>6. RegisterInv' /\ BufferInv'
    BY <1>1, <2>1, <2>3, <2>4 DEF RegisterInv, BufferInv
  <2>7. AddressInv'
    BY <1>1, <1>2, <2>1, <2>3 DEF AddressInv, InBody
  <2>8. StopInv' /\ ReplyInv'
    BY <1>1, <2>1, <2>2, <2>3, <2>4, <2>5 DEF StopInv, ReplyInv, InBody, Polling
  <2> QED BY <2>6, <2>7, <2>8
<1>3. CASE ~matched
  <2>1. UNCHANGED <<SSR, stopAt, matched>>
    BY <1>1, <1>3 DEF MasterStops, TypeOK
  <2> QED BY <1>1, <2>1 DEF RegisterInv, BufferInv, AddressInv, StopInv, ReplyInv, InBody, Polling,
                            Full, Read
<1> QED BY <1>2, <1>3

LEMMA CaptureRestarts ==
  ASSUME TypeOK, CaptureInv, NEW t, MasterRestarts(t)
  PROVE  CaptureInv'
<1>1. UNCHANGED <<pc, len, sawAddress, gotStop, buf, status, reply, SEN, SRDR, received, stopAt>>
  BY DEF MasterRestarts, localVars, historyVars
<1>2. CASE SEN /\ SSR' = SSR \cup {"AVF"} /\ matched'
  BY <1>1, <1>2, CaptureAddressed
<1>3. CASE SSR' = SSR /\ ~matched'
  <2>1. Full => ~matched
    BY DEF MasterRestarts, Stalls, Full
  <2>2. (Full' <=> Full) /\ Read' = Read
    BY <1>1, <1>3 DEF Full, Read
  <2>3. RegisterInv' /\ BufferInv'
    BY <1>1, <1>3, <2>1, <2>2 DEF CaptureInv, RegisterInv, BufferInv
  <2>4. AddressInv' /\ StopInv' /\ ReplyInv'
    BY <1>1, <1>3, <2>2 DEF CaptureInv, AddressInv, StopInv, ReplyInv, InBody, Polling
  <2> QED BY <2>3, <2>4 DEF CaptureInv
<1> QED BY <1>2, <1>3 DEF MasterRestarts

LEMMA CaptureMaster == TypeOK /\ CaptureInv /\ OtherMaster => CaptureInv'
<1> SUFFICES ASSUME TypeOK, CaptureInv, OtherMaster PROVE CaptureInv'
  OBVIOUS
<1>1. ASSUME NEW kind, NEW t, MasterAddresses(kind, t)
      PROVE  CaptureInv'
  BY <1>1, CaptureAddressed DEF MasterAddresses, localVars, historyVars
<1> QED BY <1>1, CaptureSends, CaptureStops, CaptureRestarts DEF OtherMaster

LEMMA CaptureStep == TypeOK /\ CaptureInv /\ [Next]_vars => CaptureInv'
<1>1. TypeOK /\ CaptureInv /\ UNCHANGED vars => CaptureInv'
  BY DEF CaptureInv, RegisterInv, BufferInv, AddressInv, StopInv, ReplyInv, InBody, Polling,
         Full, Read, vars, localVars, slaveVars, busVars, historyVars
<1> QED BY <1>1, CaptureListen, CaptureTest, CaptureAddress, CaptureData, CaptureStop, CaptureClose,
           CaptureSysTick, CaptureMaster DEF Next, Wait

(* OK lists what the master wrote, up to its STOP, as far as there is room: no    *)
(* byte is left out, taken twice or taken from an earlier wait, wherever the      *)
(* other master's bytes and its STOP fall between the statements of the loop.    *)
THEOREM CaptureCorrect == Spec => []CapturesTheWrite
<1>1. TypeOK /\ CaptureInv => CapturesTheWrite
  <2> SUFFICES ASSUME TypeOK, CaptureInv, reply = "OK"
               PROVE  stopAt # NoStop /\ buf = Prefix(received, AtMost(Read, bufMax))
                      /\ Read \in {stopAt, stopAt + 1}
    BY DEF CapturesTheWrite
  <2>1. stopAt # NoStop /\ Read \in {stopAt, stopAt + 1}
    BY DEF CaptureInv, ReplyInv
  <2>2. /\ Read \in Nat /\ Read <= Len(received) /\ Len(received) \in Nat
    BY ReadBounds DEF CaptureInv
  <2>3. /\ len = AtMost(Read, bufMax) /\ len \in Nat /\ Len(buf) = len /\ buf \in Seq(Nat)
        /\ received \in Seq(Nat) /\ \A i \in 1 .. len : buf[i] = received[i]
    BY DEF CaptureInv, BufferInv, TypeOK
  <2>4. len <= Len(received) /\ AtMost(len, Len(received)) = len
    BY <2>2, <2>3, Numbers DEF AtMost
  <2>5. Prefix(received, len) = [i \in 1 .. len |-> received[i]]
    BY <2>3, <2>4 DEF Prefix
  <2>6. buf = [i \in 1 .. len |-> buf[i]]
    BY <2>3
  <2> QED BY <2>1, <2>3, <2>5, <2>6
<1> QED BY <1>1, TypesInit, TypesStep, CaptureInit, CaptureStep, PTL DEF Spec
------------------------------------------------------------------------------
(* The timeout.                                                             *)

(* Within one turn of the counter its difference is the number of ticks.       *)
LEMMA Difference ==
  ASSUME NEW s \in 0 .. TICKS - 1, NEW t \in 0 .. TICKS - 1, NEW e \in 0 .. TICKS - 1,
         s = t + e \/ s = t + e - TICKS
  PROVE  (s - t) % TICKS = e
<1>1. s - t = e \/ s - t = e - TICKS
  BY Numbers
<1>2. e % TICKS = e /\ (e - TICKS) % TICKS = e
  BY Numbers
<1> QED BY <1>1, <1>2

LEMMA NextTick ==
  ASSUME NEW s \in 0 .. TICKS - 1
  PROVE  (s + 1) % TICKS = s + 1 \/ (s + 1) % TICKS = s + 1 - TICKS
<1>1. CASE s + 1 = TICKS
  BY <1>1, Numbers
<1>2. CASE s + 1 < TICKS
  BY <1>2, Numbers
<1> QED BY <1>1, <1>2, Numbers

LEMMA LateListen == TypeOK /\ CaptureInv /\ LateInv /\ Listen => LateInv'
BY Numbers DEF Listen, LateInv, Polling, InBody, TypeOK

LEMMA LateTest == TypeOK /\ CaptureInv /\ LateInv /\ Test => LateInv'
<1> SUFFICES ASSUME TypeOK, CaptureInv, LateInv, Test PROVE LateInv'
  OBVIOUS
<1>1. /\ UNCHANGED <<gotStop, startTick, reply, s_tickCount, elapsed>> /\ pc = "test"
      /\ ~heard /\ Polling /\ reply = "none"
  BY DEF Test, LateInv, Polling, CaptureInv, ReplyInv, TypeOK
<1>2. CASE InTime
  <2>1. pc' = "address" /\ status' = SSR /\ (heard' <=> stopAt # NoStop)
    BY <1>2 DEF Test
  <2>2. heard' => "SDF" \in status'
    BY <1>1, <2>1 DEF CaptureInv, StopInv
  <2> QED BY <1>1, <2>1, <2>2 DEF LateInv, Polling, InBody
<1>3. CASE ~InTime
  <2>1. pc' = "close" /\ heard' = heard
    BY <1>3 DEF Test
  <2>2. elapsed > timeoutTicks
    <3>1. SUFFICES ASSUME elapsed <= timeoutTicks PROVE FALSE
      BY Numbers DEF TypeOK
    <3>2. elapsed \in 0 .. TICKS - 1
      BY <3>1, Numbers DEF TypeOK
    <3>3. (s_tickCount - startTick) % TICKS = elapsed
      BY <1>1, <3>1, <3>2, Difference DEF LateInv, TypeOK
    <3> QED BY <1>3, <3>1, <3>3 DEF InTime
  <2> QED BY <1>1, <2>1, <2>2 DEF LateInv, Polling, InBody
<1> QED BY <1>2, <1>3

LEMMA LateWait == TypeOK /\ CaptureInv /\ LateInv /\ Wait => LateInv'
<1> SUFFICES ASSUME TypeOK, CaptureInv, LateInv, Wait PROVE LateInv'
  OBVIOUS
<1> USE DEF localVars, tickVars, historyVars
<1>1. CASE Address
  <2>1. /\ UNCHANGED <<gotStop, startTick, status, reply, s_tickCount, elapsed, heard>>
        /\ pc = "address" /\ pc' = "data"
    BY <1>1 DEF Address
  <2> QED BY <2>1 DEF LateInv, Polling, InBody
<1>2. CASE Data
  <2>1. /\ UNCHANGED <<gotStop, startTick, status, reply, s_tickCount, elapsed, heard>>
        /\ pc = "data" /\ pc' = "stop"
    BY <1>2 DEF Data
  <2> QED BY <2>1 DEF LateInv, Polling, InBody
<1>3. CASE Stop
  <2>1. /\ UNCHANGED <<startTick, status, reply, s_tickCount, elapsed, heard>> /\ pc = "stop"
        /\ (gotStop' <=> "SDF" \in status /\ sawAddress)
        /\ pc' = IF gotStop' THEN "close" ELSE "test"
    BY <1>3 DEF Stop
  <2>2. heard => gotStop'
    BY <2>1 DEF LateInv, InBody, CaptureInv, AddressInv
  <2> QED BY <2>1, <2>2 DEF LateInv, Polling, InBody
<1>4. CASE Close
  <2>1. /\ UNCHANGED <<gotStop, elapsed, heard>> /\ pc = "close" /\ pc' = "idle"
        /\ reply' = IF gotStop THEN "OK" ELSE "timeout"
    BY <1>4 DEF Close
  <2> QED BY <2>1 DEF LateInv, Polling, InBody
<1> QED BY <1>1, <1>2, <1>3, <1>4, LateTest DEF Wait

LEMMA LateSysTick == TypeOK /\ CaptureInv /\ LateInv /\ SysTick => LateInv'
<1> SUFFICES ASSUME TypeOK, CaptureInv, LateInv, SysTick PROVE LateInv'
  OBVIOUS
<1>1. /\ UNCHANGED <<pc, gotStop, startTick, status, reply, heard>>
      /\ s_tickCount' = (s_tickCount + 1) % TICKS
  BY DEF SysTick, localVars, historyVars
<1>2. CASE Polling
  <2>1. elapsed' = AtMost(elapsed + 1, timeoutTicks + 1)
    BY <1>2 DEF SysTick, Polling
  <2>2. s_tickCount' = s_tickCount + 1 \/ s_tickCount' = s_tickCount + 1 - TICKS
    BY <1>1, NextTick DEF TypeOK
  <2>3. ASSUME elapsed' <= timeoutTicks
        PROVE  s_tickCount' = startTick + elapsed' \/ s_tickCount' = startTick + elapsed' - TICKS
    <3>1. elapsed' = elapsed + 1 /\ elapsed <= timeoutTicks /\ elapsed \in Nat
      BY <2>1, <2>3, Numbers DEF AtMost, TypeOK
    <3>2. s_tickCount = startTick + elapsed \/ s_tickCount = startTick + elapsed - TICKS
      BY <1>2, <3>1 DEF LateInv
    <3>3. /\ s_tickCount \in 0 .. TICKS - 1 /\ startTick \in 0 .. TICKS - 1
          /\ s_tickCount' \in 0 .. TICKS - 1
      BY TypesStep DEF TypeOK, Next
    <3> QED BY <2>2, <3>1, <3>2, <3>3, Numbers
  <2> QED BY <1>1, <1>2, <2>3 DEF LateInv, Polling, InBody, CaptureInv, ReplyInv
<1>3. CASE ~Polling
  <2>1. elapsed' = elapsed
    BY <1>3 DEF SysTick, Polling, TypeOK
  <2> QED BY <1>1, <1>3, <2>1 DEF LateInv, Polling, InBody
<1> QED BY <1>2, <1>3

LEMMA LateMaster == LateInv /\ OtherMaster => LateInv'
<1> SUFFICES ASSUME LateInv, OtherMaster PROVE LateInv'
  OBVIOUS
<1>1. UNCHANGED <<pc, gotStop, startTick, status, reply, s_tickCount, elapsed, heard>>
  BY DEF OtherMaster, MasterAddresses, MasterRestarts, MasterSends, MasterStops, localVars, tickVars,
         historyVars
<1> QED BY <1>1 DEF LateInv, Polling, InBody

LEMMA LateStep == TypeOK /\ CaptureInv /\ LateInv /\ [Next]_vars => LateInv'
<1>1. LateInv /\ UNCHANGED vars => LateInv'
  BY DEF LateInv, Polling, InBody, vars, localVars, tickVars, historyVars
<1> QED BY <1>1, LateListen, LateWait, LateSysTick, LateMaster DEF Next

(* A timeout is never early, wherever the counter starts and however it wraps,    *)
(* and never passes over a STOP that the last poll could see.                 *)
THEOREM TimeoutCorrect == Spec => []TimeoutIsLate
<1>1. LateInv => TimeoutIsLate
  BY DEF LateInv, TimeoutIsLate
<1> QED BY <1>1, TypesInit, TypesStep, CaptureInit, CaptureStep, LateStep, PTL DEF Spec
==============================================================================
