--------------------------- MODULE RttRingProofs ---------------------------
(***************************************************************************)
(* Theorems about RttRing, for every size of the ring, every message and any   *)
(* number of calls: its types, and the stream that a probe reads when calls    *)
(* of rtt_write do not overlap.                                              *)
(***************************************************************************)
EXTENDS RttRing, SequenceTheorems, TLAPS

N == RTT_UP_BUF_SIZE

LEMMA Size == N \in Nat \ {0} /\ Slots = 0 .. N - 1 /\ MaxMessages \in Nat
BY RttAssumption DEF N, Slots

(* The bytes from slot a to slot b, and the slot i after a.                   *)
Gap(a, b) == (b - a) % N
Ahead(a, i) == (a + i) % N

LEMMA GapValue ==
  ASSUME NEW a \in Slots, NEW b \in Slots
  PROVE  Gap(a, b) = IF a <= b THEN b - a ELSE b - a + N
<1>1. CASE a <= b
  BY <1>1, Size DEF Gap
<1>2. CASE ~(a <= b)
  <2>1. b - a + N \in 0 .. N - 1 /\ b - a = (b - a + N) - N
    BY <1>2, Size
  <2>2. \A e \in 0 .. N - 1 : (e - N) % N = e
    BY Size
  <2> QED BY <1>2, <2>1, <2>2 DEF Gap
<1> QED BY <1>1, <1>2

LEMMA AheadValue ==
  ASSUME NEW a \in Slots, NEW i \in 0 .. N
  PROVE  Ahead(a, i) = IF a + i < N THEN a + i ELSE a + i - N
<1>1. CASE a + i < N
  BY <1>1, Size DEF Ahead
<1>2. CASE ~(a + i < N)
  <2>1. a + i - N \in 0 .. N - 1 /\ a + i = (a + i - N) + N
    BY <1>2, Size
  <2>2. \A e \in 0 .. N - 1 : (e + N) % N = e
    BY Size
  <2> QED BY <1>2, <2>1, <2>2 DEF Ahead
<1> QED BY <1>1, <1>2

LEMMA AheadInRing ==
  ASSUME NEW a \in Slots, NEW i \in 0 .. N
  PROVE  Ahead(a, i) \in Slots
BY AheadValue, Size
------------------------------------------------------------------------------
(* Types, and what is left of a message: its end, from the byte that comes next. *)

TextInv ==
  \A w \in Writers : pc[w] # "idle" =>
    /\ left[w] # << >>
    /\ done[w] + Len(left[w]) = Len(message[w])
    /\ \A i \in 1 .. Len(left[w]) : left[w][i] = message[w][done[w] + i]

TypeInv == TypeOK /\ TextInv

LEMMA TypesInit == Init => TypeInv
<1> SUFFICES ASSUME Init PROVE TypeInv
  OBVIOUS
<1>1. 0 \in Slots /\ << >> \in Seq(Chars) /\ << >> \in Seq(Chars \cup {"0"}) /\ 0 \in 0 .. MaxMessages
  BY Size
<1>2. TypeOK
  BY <1>1 DEF Init, TypeOK, WriteSteps
<1>3. TextInv
  BY DEF Init, TextInv
<1> QED BY <1>2, <1>3 DEF TypeInv

LEMMA NextInRing == \A s \in Slots : NextOffset(s) \in Slots
BY Size DEF NextOffset, N

LEMMA TypesCall ==
  ASSUME TypeInv, NEW w \in Writers, NEW m \in Seq(Chars), m # << >>, Call(w, m)
  PROVE  TypeInv'
<1>1. TypeOK'
  <2>1. left' \in [Writers -> Seq(Chars)] /\ message' \in [Writers -> Seq(Chars)]
        /\ done' \in [Writers -> Nat] /\ pc' \in [Writers -> WriteSteps]
    BY DEF Call, TypeInv, TypeOK, WriteSteps
  <2>2. calls' \in 0 .. MaxMessages
    BY Size DEF Call, TypeInv, TypeOK
  <2> QED BY <2>1, <2>2 DEF Call, TypeInv, TypeOK, channelVars, probeVars
<1>2. TextInv'
  <2> SUFFICES ASSUME NEW v \in Writers, pc'[v] # "idle"
               PROVE  /\ left'[v] # << >> /\ done'[v] + Len(left'[v]) = Len(message'[v])
                      /\ \A i \in 1 .. Len(left'[v]) : left'[v][i] = message'[v][done'[v] + i]
    BY DEF TextInv
  <2>1. CASE v = w
    BY <2>1 DEF Call, TypeInv, TypeOK
  <2>2. CASE v # w
    BY <2>2 DEF Call, TypeInv, TypeOK, TextInv
  <2> QED BY <2>1, <2>2
<1> QED BY <1>1, <1>2 DEF TypeInv

LEMMA MoreThanOne == \A n \in Nat : n > 0 /\ n # 1 => n > 1
OBVIOUS

(* A byte is taken: the rest of the message is what is left.                 *)
LEMMA TextAdvance ==
  ASSUME TypeInv, NEW w \in Writers, Advance(w)
  PROVE  /\ left[w] # << >> /\ Head(left[w]) = message[w][done[w] + 1] /\ Head(left[w]) \in Chars
         /\ TypeInv'
<1>1. /\ pc[w] = "advance" /\ left' = [left EXCEPT ![w] = Tail(@)]
      /\ done' = [done EXCEPT ![w] = @ + 1] /\ taken' = Append(taken, message[w][done[w] + 1])
      /\ pc' = [pc EXCEPT ![w] = IF Len(left[w]) = 1 THEN "idle" ELSE "load"]
      /\ wrOff' = next[w]
      /\ UNCHANGED <<buffer, rdOff, next, index, message, calls, probeVars>>
  BY DEF Advance
<1>2. /\ left[w] # << >> /\ left[w] \in Seq(Chars) /\ done[w] \in Nat
      /\ message[w] \in Seq(Chars) /\ done[w] + Len(left[w]) = Len(message[w])
      /\ \A i \in 1 .. Len(left[w]) : left[w][i] = message[w][done[w] + i]
  BY <1>1 DEF TypeInv, TextInv, TypeOK
<1>3. Head(left[w]) = message[w][done[w] + 1] /\ Head(left[w]) \in Chars
  BY <1>2
<1>4. TypeOK'
  <2>1. /\ left' \in [Writers -> Seq(Chars)] /\ done' \in [Writers -> Nat]
        /\ pc' \in [Writers -> WriteSteps]
    BY <1>1, <1>2 DEF TypeInv, TypeOK, WriteSteps
  <2>2. taken' \in Seq(Chars) /\ wrOff' \in Slots
    BY <1>1, <1>3 DEF TypeInv, TypeOK
  <2> QED BY <1>1, <2>1, <2>2 DEF TypeInv, TypeOK, probeVars
<1>5. TextInv'
  <2> SUFFICES ASSUME NEW v \in Writers, pc'[v] # "idle"
               PROVE  /\ left'[v] # << >> /\ done'[v] + Len(left'[v]) = Len(message'[v])
                      /\ \A i \in 1 .. Len(left'[v]) : left'[v][i] = message'[v][done'[v] + i]
    BY DEF TextInv
  <2>1. CASE v = w
    <3>0. left'[v] = Tail(left[w])
      BY <1>1, <2>1 DEF TypeInv, TypeOK
    <3>5. Len(left[w]) # 1
      BY <1>1, <2>1 DEF TypeInv, TypeOK
    <3>1. left'[v] = Tail(left[w]) /\ done'[v] = done[w] + 1 /\ message'[v] = message[w]
      BY <1>1, <2>1 DEF TypeInv, TypeOK
    <3>2. Len(left'[v]) = Len(left[w]) - 1 /\ Len(left[w]) \in Nat /\ Len(left[w]) > 1
      <4>1. Len(left[w]) \in Nat /\ Len(left[w]) > 0
        BY <1>2
      <4>2. Len(Tail(left[w])) = Len(left[w]) - 1
        BY <1>2
      <4>3. Len(left'[v]) = Len(left[w]) - 1
        BY <3>0, <4>2
      <4>4. Len(left[w]) > 1
        BY <3>5, <4>1, MoreThanOne
      <4> QED BY <4>1, <4>3, <4>4
    <3>3. ASSUME NEW i \in 1 .. Len(left'[v])
          PROVE  left'[v][i] = message'[v][done'[v] + i]
      <4>1. left'[v][i] = left[w][i + 1] /\ i + 1 \in 1 .. Len(left[w])
        BY <1>2, <3>1, <3>2
      <4>2. done'[v] + i = done[w] + (i + 1)
        BY <1>2, <3>1
      <4> QED BY <1>2, <3>1, <4>1, <4>2
    <3>4. done'[v] + Len(left'[v]) = Len(message'[v]) /\ left'[v] # << >>
      <4>0. Len(left'[v]) > 0
        BY <3>2
      <4>1. done'[v] = done[w] + 1 /\ Len(message'[v]) = Len(message[w])
        BY <3>1
      <4>2. done[w] \in Nat /\ done[w] + Len(left[w]) = Len(message[w])
        BY <1>2
      <4>3. done'[v] + Len(left'[v]) = Len(message'[v])
        BY <3>2, <4>1, <4>2
      <4>4. Len(<< >>) = 0
        OBVIOUS
      <4> QED BY <4>0, <4>3, <4>4
    <3> QED BY <3>3, <3>4
  <2>2. CASE v # w
    BY <1>1, <2>2 DEF TypeInv, TypeOK, TextInv
  <2> QED BY <2>1, <2>2
<1> QED BY <1>2, <1>3, <1>4, <1>5 DEF TypeInv

LEMMA TypesWrite ==
  ASSUME TypeInv, NEW w \in Writers, Write(w)
  PROVE  TypeInv'
<1> USE DEF TypeInv
<1>1. CASE Load(w)
  <2>1. TypeOK'
    <3>1. NextOffset(wrOff) \in Slots
      BY NextInRing DEF TypeOK
    <3> QED BY <1>1, <3>1 DEF Load, TypeOK, WriteSteps, channelVars, probeVars
  <2> QED BY <1>1, <2>1 DEF Load, TypeOK, TextInv
<1>2. CASE Check(w)
  <2>1. UNCHANGED <<channelVars, next, index, message, done, taken, calls, probeVars>>
    BY <1>2 DEF Check
  <2>2. CASE next[w] = rdOff
    <3>1. pc' = [pc EXCEPT ![w] = "idle"] /\ left' = [left EXCEPT ![w] = << >>]
      BY <1>2, <2>2 DEF Check
    <3>2. << >> \in Seq(Chars)
      OBVIOUS
    <3>3. TypeOK'
      BY <2>1, <3>1, <3>2 DEF TypeOK, WriteSteps, channelVars, probeVars
    <3> QED BY <2>1, <3>1, <3>3 DEF TypeOK, TextInv
  <2>3. CASE next[w] # rdOff
    <3>1. pc[w] = "check" /\ pc' = [pc EXCEPT ![w] = "index"] /\ left' = left
      BY <1>2, <2>3 DEF Check
    <3>2. TypeOK'
      BY <2>1, <3>1 DEF TypeOK, WriteSteps, channelVars, probeVars
    <3> QED BY <2>1, <3>1, <3>2 DEF TypeOK, TextInv
  <2> QED BY <2>2, <2>3
<1>3. CASE Index(w)
  <2>1. TypeOK'
    BY <1>3 DEF Index, TypeOK, WriteSteps, channelVars, probeVars
  <2> QED BY <1>3, <2>1 DEF Index, TypeOK, TextInv
<1>4. CASE Store(w)
  <2>1. Head(left[w]) \in Chars
    BY <1>4 DEF Store, TextInv, TypeOK
  <2>2. TypeOK'
    BY <1>4, <2>1 DEF Store, TypeOK, WriteSteps, probeVars
  <2> QED BY <1>4, <2>2 DEF Store, TypeOK, TextInv
<1>5. CASE Advance(w)
  BY <1>5, TextAdvance
<1> QED BY <1>1, <1>2, <1>3, <1>4, <1>5 DEF Write

LEMMA TypesProbe == TypeInv /\ Probe => TypeInv'
<1> SUFFICES ASSUME TypeInv, Probe PROVE TypeInv'
  OBVIOUS
<1> USE DEF TypeInv, writerVars, channelVars
<1>1. TextInv'
  BY DEF Probe, Look, TakeByte, GiveBack, TextInv
<1>2. TypeOK'
  <2>1. CASE Look
    BY <2>1 DEF Look, TypeOK
  <2>2. CASE TakeByte
    <3>1. (cursor + 1) % RTT_UP_BUF_SIZE \in Slots
      BY NextInRing DEF TypeOK, NextOffset
    <3> QED BY <2>2, <3>1 DEF TakeByte, TypeOK
  <2>3. CASE GiveBack
    BY <2>3 DEF GiveBack, TypeOK
  <2> QED BY <2>1, <2>2, <2>3 DEF Probe
<1> QED BY <1>1, <1>2

LEMMA TypesStep == TypeInv /\ [Next]_vars => TypeInv'
<1> SUFFICES ASSUME TypeInv, [Next]_vars PROVE TypeInv'
  OBVIOUS
<1>1. ASSUME NEW m \in MainMessages, Call("main", m)
      PROVE  TypeInv'
  BY <1>1, TypesCall, RttAssumption DEF Writers
<1>2. ASSUME NEW m \in IsrMessages, Call("isr", m)
      PROVE  TypeInv'
  BY <1>2, TypesCall, RttAssumption DEF Writers
<1>3. CASE UNCHANGED vars
  BY <1>3 DEF vars, channelVars, writerVars, probeVars, TypeInv, TypeOK, TextInv
<1> QED BY <1>1, <1>2, <1>3, TypesWrite, TypesProbe DEF Next

(* Every variable keeps its type, the offsets and the slot that is written         *)
(* included, also when the interrupt logs in the middle of main's message.       *)
THEOREM TypeCorrect == Spec => []TypeOK
<1>1. TypeInv => TypeOK
  BY DEF TypeInv
<1> QED BY <1>1, TypesInit, TypesStep, PTL DEF Spec
------------------------------------------------------------------------------
(* The stream. Calls do not overlap, so that one writer at a time has a call    *)
(* under way.                                                                *)
Exclusive == \A v, w \in Writers : pc[v] = "idle" \/ pc[w] = "idle" \/ v = w

(* The writer knows the offset, and from the check on that there is room: the  *)
(* probe only makes more.                                                    *)
WriteInv ==
  \A w \in Writers :
    /\ pc[w] \in {"check", "index", "store", "advance"} => next[w] = Ahead(wrOff, 1)
    /\ pc[w] \in {"index", "store", "advance"} => Gap(rdOff, wrOff) + 1 < N
    /\ pc[w] \in {"store", "advance"} => index[w] = wrOff
    /\ pc[w] = "advance" => buffer[wrOff] = Head(left[w])

(* Around the ring the probe's offsets lie in this order: rdOff, cursor, seen, *)
(* wrOff.                                                                    *)
ProbeInv ==
  /\ ~reading => cursor = rdOff
  /\ reading => Gap(rdOff, cursor) + Gap(cursor, seen) + Gap(seen, wrOff) = Gap(rdOff, wrOff)

(* What was taken is what was received, and then the bytes from cursor on.    *)
StreamInv ==
  /\ Len(taken) = Len(received) + Gap(cursor, wrOff)
  /\ \A i \in 1 .. Len(received) : received[i] = taken[i]
  /\ \A i \in 0 .. Gap(cursor, wrOff) - 1 :
       buffer[Ahead(cursor, i)] = taken[Len(received) + i + 1]

RingInv == TypeInv /\ Exclusive /\ WriteInv /\ ProbeInv /\ StreamInv
------------------------------------------------------------------------------
(* Distances around the ring.                                                *)

LEMMA GapInRing ==
  ASSUME NEW a \in Slots, NEW b \in Slots
  PROVE  Gap(a, b) \in Slots
<1>1. Gap(a, b) = IF a <= b THEN b - a ELSE b - a + N
  BY GapValue
<1> QED BY <1>1, Size

(* The slot after b is one further away, unless it is a itself.               *)
LEMMA GapGrows ==
  ASSUME NEW a \in Slots, NEW b \in Slots, Ahead(b, 1) # a
  PROVE  Gap(a, b) + 1 < N
<1>1. 1 \in 0 .. N
  BY Size
<1>2. Ahead(b, 1) = IF b + 1 < N THEN b + 1 ELSE b + 1 - N
  BY <1>1, AheadValue
<1>3. Gap(a, b) = IF a <= b THEN b - a ELSE b - a + N
  BY GapValue
<1> QED BY <1>2, <1>3, Size

LEMMA GapOfNext ==
  ASSUME NEW a \in Slots, NEW b \in Slots, Gap(a, b) + 1 < N
  PROVE  Gap(a, Ahead(b, 1)) = Gap(a, b) + 1
<1>1. 1 \in 0 .. N
  BY Size
<1>2. Ahead(b, 1) = (IF b + 1 < N THEN b + 1 ELSE b + 1 - N) /\ Ahead(b, 1) \in Slots
  BY <1>1, AheadValue, AheadInRing
<1>3. Gap(a, b) = IF a <= b THEN b - a ELSE b - a + N
  BY GapValue
<1>4. Gap(a, Ahead(b, 1)) = IF a <= Ahead(b, 1) THEN Ahead(b, 1) - a ELSE Ahead(b, 1) - a + N
  BY <1>2, GapValue
<1> QED BY <1>2, <1>3, <1>4, Size

LEMMA GapFromNext ==
  ASSUME NEW a \in Slots, NEW b \in Slots, a # b
  PROVE  Gap(Ahead(a, 1), b) = Gap(a, b) - 1 /\ Gap(a, b) > 0
<1>1. 1 \in 0 .. N
  BY Size
<1>2. Ahead(a, 1) = (IF a + 1 < N THEN a + 1 ELSE a + 1 - N) /\ Ahead(a, 1) \in Slots
  BY <1>1, AheadValue, AheadInRing
<1>3. Gap(a, b) = IF a <= b THEN b - a ELSE b - a + N
  BY GapValue
<1>4. Gap(Ahead(a, 1), b) = IF Ahead(a, 1) <= b THEN b - Ahead(a, 1) ELSE b - Ahead(a, 1) + N
  BY <1>2, GapValue
<1> QED BY <1>2, <1>3, <1>4, Size

LEMMA AheadZero == \A a \in Slots : Ahead(a, 0) = a
BY Size DEF Ahead

(* The distance leads from a to b, and nothing shorter does.                  *)
LEMMA AheadByGap ==
  ASSUME NEW a \in Slots, NEW b \in Slots
  PROVE  /\ Ahead(a, Gap(a, b)) = b
         /\ \A i \in 0 .. Gap(a, b) - 1 : Ahead(a, i) # b
<1>0. Gap(a, b) = IF a <= b THEN b - a ELSE b - a + N
  BY GapValue
<1>1. Gap(a, b) = (IF a <= b THEN b - a ELSE b - a + N) /\ Gap(a, b) \in 0 .. N
  BY <1>0, Size
<1>2. Ahead(a, Gap(a, b)) = IF a + Gap(a, b) < N THEN a + Gap(a, b) ELSE a + Gap(a, b) - N
  BY <1>1, AheadValue
<1>3. ASSUME NEW i \in 0 .. Gap(a, b) - 1
      PROVE  Ahead(a, i) # b
  <2>1. i \in 0 .. N
    BY <1>1, Size
  <2>2. Ahead(a, i) = IF a + i < N THEN a + i ELSE a + i - N
    BY <2>1, AheadValue
  <2> QED BY <1>1, <2>1, <2>2, Size
<1> QED BY <1>1, <1>2, <1>3, Size

LEMMA AheadAhead ==
  ASSUME NEW a \in Slots, NEW i \in 0 .. N - 1
  PROVE  Ahead(Ahead(a, 1), i) = Ahead(a, i + 1)
<1>1. 1 \in 0 .. N /\ i \in 0 .. N /\ i + 1 \in 0 .. N
  BY Size
<1>2. Ahead(a, 1) = (IF a + 1 < N THEN a + 1 ELSE a + 1 - N) /\ Ahead(a, 1) \in Slots
  BY <1>1, AheadValue, AheadInRing
<1>3. Ahead(a, i + 1) = IF a + (i + 1) < N THEN a + (i + 1) ELSE a + (i + 1) - N
  BY <1>1, AheadValue
<1>4. Ahead(Ahead(a, 1), i) = IF Ahead(a, 1) + i < N THEN Ahead(a, 1) + i ELSE Ahead(a, 1) + i - N
  BY <1>1, <1>2, AheadValue
<1> QED BY <1>1, <1>2, <1>3, <1>4, Size
------------------------------------------------------------------------------
(* Each step keeps the stream.                                               *)

LEMMA RingInit == Init => RingInv
<1> SUFFICES ASSUME Init PROVE RingInv
  OBVIOUS
<1>1. 0 \in Slots /\ Gap(0, 0) = 0
  BY Size DEF Gap
<1>2. TypeInv
  BY TypesInit
<1>3. Exclusive /\ WriteInv
  BY DEF Init, Exclusive, WriteInv
<1>4. ProbeInv
  BY DEF Init, ProbeInv
<1>5. StreamInv
  BY <1>1 DEF Init, StreamInv
<1> QED BY <1>2, <1>3, <1>4, <1>5 DEF RingInv

(* No call is under way when one begins.                                     *)
LEMMA RingCall ==
  ASSUME RingInv, ~IsrPreempts, NEW w \in Writers, NEW m \in Seq(Chars), m # << >>, Call(w, m)
  PROVE  RingInv'
<1>1. TypeInv'
  BY TypesCall DEF RingInv
<1>2. /\ pc \in [Writers -> WriteSteps] /\ pc' = [pc EXCEPT ![w] = "load"]
      /\ \A v \in Writers : pc[v] = "idle"
  BY DEF RingInv, TypeInv, TypeOK, Call, MayStep, Writers
<1>3. UNCHANGED <<buffer, wrOff, rdOff, next, index, taken, reading, seen, cursor, received>>
  BY DEF Call, channelVars, probeVars
<1>4. Exclusive'
  BY <1>2 DEF Exclusive
<1>5. WriteInv'
  BY <1>2 DEF WriteInv
<1>6. ProbeInv' /\ StreamInv'
  BY <1>3 DEF RingInv, ProbeInv, StreamInv
<1> QED BY <1>1, <1>4, <1>5, <1>6 DEF RingInv

(* A writer that has a call under way is alone.                              *)
LEMMA Alone ==
  ASSUME RingInv, NEW w \in Writers, pc[w] # "idle"
  PROVE  \A v \in Writers : v # w => pc[v] = "idle"
BY DEF RingInv, Exclusive

LEMMA RingLoad ==
  ASSUME RingInv, NEW w \in Writers, Load(w)
  PROVE  RingInv'
<1>1. TypeInv'
  BY TypesWrite DEF RingInv, Write
<1>2. /\ pc[w] = "load" /\ pc' = [pc EXCEPT ![w] = "check"] /\ pc \in [Writers -> WriteSteps]
      /\ next' = [next EXCEPT ![w] = Ahead(wrOff, 1)] /\ next \in [Writers -> Slots]
  BY DEF Load, RingInv, TypeInv, TypeOK, NextOffset, Ahead, N
<1>3. UNCHANGED <<buffer, wrOff, rdOff, left, index, taken, reading, seen, cursor, received>>
  BY DEF Load, channelVars, probeVars
<1>4. \A v \in Writers : v # w => pc[v] = "idle"
  BY <1>2, Alone
<1>5. Exclusive'
  BY <1>2, <1>4 DEF Exclusive
<1>6. WriteInv'
  <2> SUFFICES ASSUME NEW v \in Writers
               PROVE  /\ pc'[v] \in {"check", "index", "store", "advance"} => next'[v] = Ahead(wrOff', 1)
                      /\ pc'[v] \notin {"index", "store", "advance"}
    BY DEF WriteInv
  <2>1. CASE v = w
    BY <1>2, <1>3, <2>1
  <2>2. CASE v # w
    BY <1>2, <1>4, <2>2
  <2> QED BY <2>1, <2>2
<1>7. ProbeInv' /\ StreamInv'
  BY <1>3 DEF RingInv, ProbeInv, StreamInv
<1> QED BY <1>1, <1>5, <1>6, <1>7 DEF RingInv

(* The check: an offset that is not the probe's leaves room for a byte.       *)
LEMMA RingCheck ==
  ASSUME RingInv, NEW w \in Writers, Check(w)
  PROVE  RingInv'
<1>1. TypeInv'
  BY TypesWrite DEF RingInv, Write
<1>2. /\ pc[w] = "check" /\ pc \in [Writers -> WriteSteps]
      /\ next[w] = Ahead(wrOff, 1) /\ wrOff \in Slots /\ rdOff \in Slots
  BY DEF Check, RingInv, TypeInv, TypeOK, WriteInv
<1>3. UNCHANGED <<buffer, wrOff, rdOff, next, index, taken, reading, seen, cursor, received>>
  BY DEF Check, channelVars, probeVars
<1>4. \A v \in Writers : v # w => pc[v] = "idle"
  BY <1>2, Alone
<1>5. \/ pc' = [pc EXCEPT ![w] = "idle"]
      \/ pc' = [pc EXCEPT ![w] = "index"] /\ next[w] # rdOff
  BY DEF Check
<1>6. Exclusive'
  BY <1>2, <1>4, <1>5 DEF Exclusive
<1>7. WriteInv'
  <2>1. CASE pc' = [pc EXCEPT ![w] = "idle"]
    BY <1>2, <1>4, <2>1 DEF WriteInv
  <2>2. CASE pc' = [pc EXCEPT ![w] = "index"] /\ next[w] # rdOff
    <3>1. Gap(rdOff, wrOff) + 1 < N
      BY <1>2, <2>2, GapGrows
    <3> QED BY <1>2, <1>3, <1>4, <2>2, <3>1 DEF WriteInv
  <2> QED BY <1>5, <2>1, <2>2
<1>8. ProbeInv' /\ StreamInv'
  BY <1>3 DEF RingInv, ProbeInv, StreamInv
<1> QED BY <1>1, <1>6, <1>7, <1>8 DEF RingInv

LEMMA RingIndex ==
  ASSUME RingInv, NEW w \in Writers, Index(w)
  PROVE  RingInv'
<1>1. TypeInv'
  BY TypesWrite DEF RingInv, Write
<1>2. /\ pc[w] = "index" /\ pc \in [Writers -> WriteSteps] /\ pc' = [pc EXCEPT ![w] = "store"]
      /\ index' = [index EXCEPT ![w] = wrOff] /\ index \in [Writers -> Slots]
  BY DEF Index, RingInv, TypeInv, TypeOK
<1>3. UNCHANGED <<buffer, wrOff, rdOff, next, taken, reading, seen, cursor, received>>
  BY DEF Index, channelVars, probeVars
<1>4. \A v \in Writers : v # w => pc[v] = "idle"
  BY <1>2, Alone
<1>5. Exclusive'
  BY <1>2, <1>4 DEF Exclusive
<1>6. next[w] = Ahead(wrOff, 1) /\ Gap(rdOff, wrOff) + 1 < N
  BY <1>2 DEF RingInv, WriteInv
<1>7. WriteInv'
  BY <1>2, <1>3, <1>4, <1>6 DEF WriteInv
<1>8. ProbeInv' /\ StreamInv'
  BY <1>3 DEF RingInv, ProbeInv, StreamInv
<1> QED BY <1>1, <1>5, <1>7, <1>8 DEF RingInv

(* The byte is stored in the one slot that the probe does not read yet.        *)
LEMMA RingStore ==
  ASSUME RingInv, NEW w \in Writers, Store(w)
  PROVE  RingInv'
<1>1. TypeInv'
  BY TypesWrite DEF RingInv, Write
<1>2. /\ pc[w] = "store" /\ pc \in [Writers -> WriteSteps] /\ pc' = [pc EXCEPT ![w] = "advance"]
      /\ index[w] = wrOff /\ wrOff \in Slots /\ cursor \in Slots
  BY DEF Store, RingInv, TypeInv, TypeOK, WriteInv
<1>3. buffer' = [buffer EXCEPT ![wrOff] = Head(left[w])] /\ DOMAIN buffer = Slots
  BY <1>2 DEF Store, RingInv, TypeInv, TypeOK
<1>4. UNCHANGED <<wrOff, rdOff, left, next, index, taken, reading, seen, cursor, received>>
  BY DEF Store, probeVars
<1>5. \A v \in Writers : v # w => pc[v] = "idle"
  BY <1>2, Alone
<1>6. Exclusive'
  BY <1>2, <1>5 DEF Exclusive
<1>7. next[w] = Ahead(wrOff, 1) /\ Gap(rdOff, wrOff) + 1 < N
  BY <1>2 DEF RingInv, WriteInv
<1>8. buffer'[wrOff] = Head(left[w])
  BY <1>2, <1>3
<1>9. WriteInv'
  BY <1>2, <1>4, <1>5, <1>7, <1>8 DEF WriteInv
<1>10. ProbeInv'
  BY <1>4 DEF RingInv, ProbeInv
<1>11. \A i \in 0 .. Gap(cursor, wrOff) - 1 : buffer'[Ahead(cursor, i)] = buffer[Ahead(cursor, i)]
  <2>1. \A s : s # wrOff => buffer'[s] = buffer[s]
    BY <1>3
  <2> QED BY <1>2, <2>1, AheadByGap
<1>12. StreamInv'
  BY <1>4, <1>11 DEF RingInv, StreamInv
<1> QED BY <1>1, <1>6, <1>9, <1>10, <1>12 DEF RingInv

LEMMA GapSum ==
  ASSUME NEW a \in Slots, NEW b \in Slots, NEW c \in Slots, Gap(a, b) + Gap(b, c) < N
  PROVE  Gap(a, c) = Gap(a, b) + Gap(b, c)
<1>1. Gap(a, b) = IF a <= b THEN b - a ELSE b - a + N
  BY GapValue
<1>2. Gap(b, c) = IF b <= c THEN c - b ELSE c - b + N
  BY GapValue
<1>3. Gap(a, c) = IF a <= c THEN c - a ELSE c - a + N
  BY GapValue
<1> QED BY <1>1, <1>2, <1>3, Size

LEMMA GapToItself == \A a \in Slots : Gap(a, a) = 0
BY Size DEF Gap

(* What the probe has not read is no more than what the writer counts as held. *)
LEMMA Behind ==
  ASSUME TypeInv, ProbeInv
  PROVE  /\ Gap(cursor, wrOff) \in Nat /\ Gap(rdOff, wrOff) \in 0 .. N - 1
         /\ Gap(cursor, wrOff) <= Gap(rdOff, wrOff)
         /\ reading => /\ Gap(cursor, wrOff) = Gap(cursor, seen) + Gap(seen, wrOff)
                       /\ Gap(rdOff, cursor) \in Nat /\ Gap(cursor, seen) \in Nat
                       /\ Gap(seen, wrOff) \in Nat /\ Gap(seen, wrOff) <= Gap(rdOff, wrOff)
<1>1. rdOff \in Slots /\ cursor \in Slots /\ seen \in Slots /\ wrOff \in Slots
  BY DEF TypeInv, TypeOK
<1>2. /\ Gap(rdOff, wrOff) \in 0 .. N - 1 /\ Gap(cursor, wrOff) \in 0 .. N - 1
      /\ Gap(rdOff, cursor) \in 0 .. N - 1 /\ Gap(cursor, seen) \in 0 .. N - 1
      /\ Gap(seen, wrOff) \in 0 .. N - 1
  BY <1>1, GapInRing, Size
<1>3. CASE ~reading
  BY <1>2, <1>3, Size DEF ProbeInv
<1>4. CASE reading
  <2>1. Gap(rdOff, cursor) + Gap(cursor, seen) + Gap(seen, wrOff) = Gap(rdOff, wrOff)
    BY <1>4 DEF ProbeInv
  <2>2. Gap(cursor, seen) + Gap(seen, wrOff) < N
    BY <1>2, <2>1, Size
  <2>3. Gap(cursor, wrOff) = Gap(cursor, seen) + Gap(seen, wrOff)
    BY <1>1, <2>2, GapSum
  <2> QED BY <1>2, <2>1, <2>3, Size
<1> QED BY <1>3, <1>4

(* The byte is published: one more is taken, and one more lies ahead of cursor. *)
LEMMA RingAdvance ==
  ASSUME RingInv, NEW w \in Writers, Advance(w)
  PROVE  RingInv'
<1>1. TypeInv' /\ Head(left[w]) = message[w][done[w] + 1]
  BY TextAdvance DEF RingInv
<1>2. /\ pc[w] = "advance" /\ pc \in [Writers -> WriteSteps]
      /\ wrOff \in Slots /\ rdOff \in Slots /\ cursor \in Slots /\ seen \in Slots
      /\ next[w] = Ahead(wrOff, 1) /\ Gap(rdOff, wrOff) + 1 < N /\ buffer[wrOff] = Head(left[w])
  BY DEF Advance, RingInv, TypeInv, TypeOK, WriteInv
<1>3. /\ wrOff' = Ahead(wrOff, 1) /\ taken' = Append(taken, Head(left[w]))
      /\ pc' = [pc EXCEPT ![w] = "idle"] \/ pc' = [pc EXCEPT ![w] = "load"]
      /\ UNCHANGED <<buffer, rdOff, reading, seen, cursor, received>>
  BY <1>1, <1>2 DEF Advance, probeVars
<1>4. \A v \in Writers : v # w => pc[v] = "idle"
  BY <1>2, Alone
<1>5. Exclusive'
  BY <1>2, <1>3, <1>4 DEF Exclusive
<1>6. \A v \in Writers : pc'[v] \in {"idle", "load"}
  BY <1>2, <1>3, <1>4
<1>7. WriteInv'
  BY <1>6 DEF WriteInv
<1>8. /\ Gap(cursor, wrOff) \in Nat /\ Gap(rdOff, wrOff) \in 0 .. N - 1
      /\ Gap(cursor, wrOff) <= Gap(rdOff, wrOff)
      /\ reading => Gap(seen, wrOff) \in Nat /\ Gap(seen, wrOff) <= Gap(rdOff, wrOff)
  BY Behind DEF RingInv
<1>9. Gap(rdOff, wrOff') = Gap(rdOff, wrOff) + 1
  BY <1>2, <1>3, GapOfNext
<1>10. ProbeInv'
  <2>1. CASE ~reading
    BY <1>3, <2>1 DEF RingInv, ProbeInv
  <2>2. CASE reading
    <3>1. Gap(seen, wrOff) + 1 < N
      BY <1>2, <1>8, <2>2, Size
    <3>2. Gap(seen, wrOff') = Gap(seen, wrOff) + 1
      BY <1>2, <1>3, <3>1, GapOfNext
    <3>3. Gap(rdOff, cursor) + Gap(cursor, seen) + Gap(seen, wrOff) = Gap(rdOff, wrOff)
      BY <2>2 DEF RingInv, ProbeInv
    <3>4. Gap(rdOff, cursor) \in Nat /\ Gap(cursor, seen) \in Nat /\ Gap(seen, wrOff) \in Nat
      BY <2>2, Behind DEF RingInv
    <3>5. Gap(rdOff, cursor) + Gap(cursor, seen) + Gap(seen, wrOff') = Gap(rdOff, wrOff')
      BY <1>8, <1>9, <3>2, <3>3, <3>4
    <3> QED BY <1>3, <2>2, <3>5 DEF ProbeInv
  <2> QED BY <2>1, <2>2
<1>11. Gap(cursor, wrOff') = Gap(cursor, wrOff) + 1
  <2>1. Gap(cursor, wrOff) + 1 < N
    BY <1>2, <1>8, Size
  <2> QED BY <1>2, <1>3, <2>1, GapOfNext
<1>12. StreamInv'
  <2> DEFINE n == Gap(cursor, wrOff)
  <2>1. /\ taken \in Seq(Chars) /\ received \in Seq(Chars \cup {"0"}) /\ n \in Nat
        /\ Len(taken) \in Nat /\ Len(received) \in Nat /\ Len(taken) = Len(received) + n
    BY <1>8 DEF RingInv, TypeInv, TypeOK, StreamInv
  <2>2. /\ Len(taken') = Len(taken) + 1 /\ taken'[Len(taken) + 1] = Head(left[w])
        /\ \A i \in 1 .. Len(taken) : taken'[i] = taken[i]
    BY <1>3, <2>1
  <2>3. Len(taken') = Len(received') + Gap(cursor', wrOff')
    BY <1>3, <1>11, <2>1, <2>2
  <2>4. \A i \in 1 .. Len(received') : received'[i] = taken'[i]
    <3>1. \A i \in 1 .. Len(received) : received[i] = taken[i] /\ i \in 1 .. Len(taken)
      BY <2>1 DEF RingInv, StreamInv
    <3> QED BY <1>3, <2>2, <3>1
  <2>5. ASSUME NEW i \in 0 .. Gap(cursor', wrOff') - 1
        PROVE  buffer'[Ahead(cursor', i)] = taken'[Len(received') + i + 1]
    <3>1. i \in 0 .. n /\ buffer' = buffer /\ cursor' = cursor /\ received' = received
      BY <1>3, <1>11, <2>1, <2>5
    <3>2. CASE i = n
      <4>1. Ahead(cursor, n) = wrOff
        BY <1>2, AheadByGap
      <4>2. Len(received) + i + 1 = Len(taken) + 1
        BY <2>1, <3>2
      <4> QED BY <1>2, <2>2, <3>1, <3>2, <4>1, <4>2
    <3>3. CASE i # n
      <4>1. i \in 0 .. n - 1
        BY <2>1, <3>1, <3>3
      <4>2. buffer[Ahead(cursor, i)] = taken[Len(received) + i + 1]
        BY <4>1 DEF RingInv, StreamInv
      <4>3. Len(received) + i + 1 \in 1 .. Len(taken)
        BY <2>1, <4>1
      <4> QED BY <2>2, <3>1, <4>2, <4>3
    <3> QED BY <3>2, <3>3
  <2> QED BY <2>3, <2>4, <2>5 DEF StreamInv
<1> QED BY <1>1, <1>5, <1>7, <1>10, <1>12 DEF RingInv

LEMMA RingWrite ==
  ASSUME RingInv, NEW w \in Writers, Write(w)
  PROVE  RingInv'
BY RingLoad, RingCheck, RingIndex, RingStore, RingAdvance DEF Write

(* The probe: writers see no more than the offset it gives back.              *)
LEMMA RingProbe == RingInv /\ Probe => RingInv'
<1> SUFFICES ASSUME RingInv, Probe PROVE RingInv'
  OBVIOUS
<1>1. TypeInv'
  BY TypesProbe DEF RingInv
<1>2. UNCHANGED <<buffer, wrOff, pc, left, next, index, taken>>
  BY DEF Probe, Look, TakeByte, GiveBack, channelVars, writerVars
<1>3. /\ wrOff \in Slots /\ rdOff \in Slots /\ cursor \in Slots /\ seen \in Slots
  BY DEF RingInv, TypeInv, TypeOK
<1>4. Exclusive'
  BY <1>2 DEF RingInv, Exclusive
<1>5. /\ Gap(cursor, wrOff) \in Nat /\ Gap(rdOff, wrOff) \in 0 .. N - 1
      /\ Gap(cursor, wrOff) <= Gap(rdOff, wrOff)
      /\ reading => /\ Gap(cursor, wrOff) = Gap(cursor, seen) + Gap(seen, wrOff)
                    /\ Gap(rdOff, cursor) \in Nat /\ Gap(cursor, seen) \in Nat
                    /\ Gap(seen, wrOff) \in Nat /\ Gap(seen, wrOff) <= Gap(rdOff, wrOff)
  BY Behind DEF RingInv
<1>6. CASE Look
  <2>1. /\ ~reading /\ cursor = rdOff /\ reading' = TRUE /\ seen' = wrOff /\ cursor' = rdOff
        /\ UNCHANGED <<rdOff, received>>
    BY <1>6 DEF Look, RingInv, ProbeInv, channelVars
  <2>2. WriteInv' /\ StreamInv'
    BY <1>2, <2>1 DEF RingInv, WriteInv, StreamInv
  <2>3. ProbeInv'
    BY <1>2, <1>3, <1>5, <2>1, GapToItself DEF ProbeInv
  <2> QED BY <1>1, <1>4, <2>2, <2>3 DEF RingInv
<1>7. CASE TakeByte
  <2>1. /\ reading /\ cursor # seen /\ cursor' = Ahead(cursor, 1)
        /\ received' = Append(received, buffer[cursor])
        /\ UNCHANGED <<rdOff, reading, seen>>
    BY <1>7 DEF TakeByte, channelVars, Ahead, N
  <2>2. WriteInv'
    BY <1>2, <2>1 DEF RingInv, WriteInv
  <2>3. Gap(cursor', seen) = Gap(cursor, seen) - 1 /\ Gap(cursor, seen) > 0
    BY <1>3, <2>1, GapFromNext
  <2>4. /\ Gap(rdOff, cursor) + Gap(cursor, seen) + Gap(seen, wrOff) = Gap(rdOff, wrOff)
        /\ Gap(cursor, wrOff) > 0 /\ cursor # wrOff
    <3>1. Gap(rdOff, cursor) + Gap(cursor, seen) + Gap(seen, wrOff) = Gap(rdOff, wrOff)
      BY <2>1 DEF RingInv, ProbeInv
    <3>2. Gap(cursor, wrOff) > 0
      BY <1>5, <2>1, <2>3
    <3> QED BY <1>3, <3>1, <3>2, GapToItself
  <2>5. Gap(rdOff, cursor') = Gap(rdOff, cursor) + 1
    <3>1. Gap(rdOff, cursor) + 1 < N
      BY <1>5, <2>1, <2>3, <2>4, Size
    <3> QED BY <1>3, <2>1, <3>1, GapOfNext
  <2>6. ProbeInv'
    <3>1. Gap(rdOff, cursor') + Gap(cursor', seen) + Gap(seen, wrOff) = Gap(rdOff, wrOff)
      BY <1>5, <2>1, <2>3, <2>4, <2>5
    <3> QED BY <1>2, <2>1, <3>1 DEF ProbeInv
  <2>7. Gap(cursor', wrOff) = Gap(cursor, wrOff) - 1
    BY <1>3, <2>1, <2>4, GapFromNext
  <2>8. StreamInv'
    <3> DEFINE n == Gap(cursor, wrOff)
    <3>1. /\ received \in Seq(Chars \cup {"0"}) /\ buffer[cursor] \in Chars \cup {"0"}
          /\ Len(received) \in Nat /\ n \in Nat /\ Len(taken) = Len(received) + n
          /\ n \in 0 .. N - 1
      BY <1>3, <1>5, Size DEF RingInv, TypeInv, TypeOK, StreamInv
    <3>2. /\ Len(received') = Len(received) + 1 /\ received'[Len(received) + 1] = buffer[cursor]
          /\ \A i \in 1 .. Len(received) : received'[i] = received[i]
      BY <2>1, <3>1
    <3>3. buffer[cursor] = taken[Len(received) + 1]
      <4>1. 0 \in 0 .. n - 1 /\ Len(received) + 0 + 1 = Len(received) + 1
        BY <2>4, <3>1
      <4>2. buffer[Ahead(cursor, 0)] = taken[Len(received) + 0 + 1]
        BY <4>1 DEF RingInv, StreamInv
      <4> QED BY <1>3, <4>1, <4>2, AheadZero
    <3>4. Len(taken') = Len(received') + Gap(cursor', wrOff')
      BY <1>2, <2>7, <3>1, <3>2
    <3>5. \A i \in 1 .. Len(received') : received'[i] = taken'[i]
      <4>1. \A i \in 1 .. Len(received) : received[i] = taken[i]
        BY DEF RingInv, StreamInv
      <4> QED BY <1>2, <3>1, <3>2, <3>3, <4>1
    <3>6. ASSUME NEW i \in 0 .. Gap(cursor', wrOff') - 1
          PROVE  buffer'[Ahead(cursor', i)] = taken'[Len(received') + i + 1]
      <4>1. i \in 0 .. N - 1 /\ i + 1 \in 0 .. n - 1
        BY <1>2, <2>7, <3>1, Size
      <4>2. buffer[Ahead(cursor, i + 1)] = taken[Len(received) + (i + 1) + 1]
        BY <4>1 DEF RingInv, StreamInv
      <4>3. Ahead(cursor', i) = Ahead(cursor, i + 1)
        BY <1>3, <2>1, <4>1, AheadAhead
      <4>4. Len(received') + i + 1 = Len(received) + (i + 1) + 1
        BY <3>1, <3>2
      <4> QED BY <1>2, <4>2, <4>3, <4>4
    <3> QED BY <3>4, <3>5, <3>6 DEF StreamInv
  <2> QED BY <1>1, <1>4, <2>2, <2>6, <2>8 DEF RingInv
<1>8. CASE GiveBack
  <2>1. /\ reading /\ cursor = seen /\ reading' = FALSE /\ rdOff' = cursor
        /\ UNCHANGED <<seen, cursor, received>>
    BY <1>8 DEF GiveBack
  <2>2. StreamInv' /\ ProbeInv'
    BY <1>2, <2>1 DEF RingInv, StreamInv, ProbeInv
  <2>3. Gap(rdOff, wrOff) + 1 < N => Gap(rdOff', wrOff') + 1 < N
    BY <1>2, <1>5, <2>1, Size
  <2>4. WriteInv'
    BY <1>2, <2>3 DEF RingInv, WriteInv
  <2> QED BY <1>1, <1>4, <2>2, <2>4 DEF RingInv
<1> QED BY <1>6, <1>7, <1>8 DEF Probe

LEMMA RingStep == RingInv /\ ~IsrPreempts /\ [Next]_vars => RingInv'
<1> SUFFICES ASSUME RingInv, ~IsrPreempts, [Next]_vars PROVE RingInv'
  OBVIOUS
<1>1. ASSUME NEW m \in MainMessages, Call("main", m)
      PROVE  RingInv'
  BY <1>1, RingCall, RttAssumption DEF Writers
<1>2. ASSUME NEW m \in IsrMessages, Call("isr", m)
      PROVE  RingInv'
  BY <1>2, RingCall, RttAssumption DEF Writers
<1>3. CASE UNCHANGED vars
  <2>1. UNCHANGED <<buffer, wrOff, rdOff, pc, left, next, index, taken, reading, seen, cursor, received>>
    BY <1>3 DEF vars, channelVars, writerVars, probeVars
  <2>2. TypeInv'
    BY <1>3, TypesStep DEF RingInv
  <2>3. Exclusive' /\ WriteInv'
    BY <2>1 DEF RingInv, Exclusive, WriteInv
  <2>4. ProbeInv' /\ StreamInv'
    BY <2>1 DEF RingInv, ProbeInv, StreamInv
  <2> QED BY <2>2, <2>3, <2>4 DEF RingInv
<1> QED BY <1>1, <1>2, <1>3, RingWrite, RingProbe DEF Next

LEMMA RingIsIntact == RingInv => StreamIntact
<1> SUFFICES ASSUME RingInv PROVE received \o Unread = taken
  BY DEF StreamIntact
<1> DEFINE n == Gap(cursor, wrOff)
<1>1. /\ received \in Seq(Chars \cup {"0"}) /\ taken \in Seq(Chars) /\ cursor \in Slots
      /\ n \in Nat /\ n \in 0 .. N - 1 /\ buffer \in [Slots -> Chars \cup {"0"}]
  BY Behind, Size DEF RingInv, TypeInv, TypeOK
<1>2. \A i \in 1 .. n : (cursor + i - 1) % RTT_UP_BUF_SIZE = Ahead(cursor, i - 1)
  BY <1>1, Size DEF Ahead, N
<1>3. Unread = [i \in 1 .. n |-> buffer[Ahead(cursor, i - 1)]]
  BY <1>2 DEF Unread, Gap, N
<1>4. \A i \in 1 .. n : buffer[Ahead(cursor, i - 1)] \in Chars \cup {"0"}
  <2>1. \A i \in 1 .. n : i - 1 \in 0 .. N
    BY <1>1, Size
  <2> QED BY <1>1, <2>1, AheadInRing
<1>5. Unread \in Seq(Chars \cup {"0"}) /\ Len(Unread) = n
  BY <1>1, <1>3, <1>4
<1>6. \A i \in 1 .. n : Unread[i] = taken[Len(received) + i]
  <2> SUFFICES ASSUME NEW i \in 1 .. n PROVE Unread[i] = taken[Len(received) + i]
    OBVIOUS
  <2>1. i - 1 \in 0 .. n - 1 /\ Len(received) + (i - 1) + 1 = Len(received) + i
    BY <1>1
  <2>2. buffer[Ahead(cursor, i - 1)] = taken[Len(received) + (i - 1) + 1]
    BY <2>1 DEF RingInv, StreamInv
  <2> QED BY <1>3, <2>1, <2>2
<1>7. Len(received \o Unread) = Len(taken)
  <2>1. Len(received \o Unread) = Len(received) + Len(Unread)
    BY <1>1, <1>5
  <2>2. Len(taken) = Len(received) + n
    BY DEF RingInv, StreamInv
  <2> QED BY <1>5, <2>1, <2>2
<1>8. \A i \in 1 .. Len(taken) : (received \o Unread)[i] = taken[i]
  <2> SUFFICES ASSUME NEW i \in 1 .. Len(taken) PROVE (received \o Unread)[i] = taken[i]
    OBVIOUS
  <2>1. Len(taken) = Len(received) + n /\ Len(received) \in Nat
    BY <1>1 DEF RingInv, StreamInv
  <2>2. CASE i <= Len(received)
    BY <1>1, <1>5, <2>1, <2>2 DEF RingInv, StreamInv
  <2>3. CASE i > Len(received)
    <3>1. i - Len(received) \in 1 .. n /\ Len(received) + (i - Len(received)) = i
      BY <1>1, <2>1, <2>3
    <3>2. (received \o Unread)[i] = Unread[i - Len(received)]
      BY <1>1, <1>5, <2>1, <2>3, <3>1
    <3>3. Unread[i - Len(received)] = taken[Len(received) + (i - Len(received))]
      BY <1>6, <3>1
    <3> QED BY <3>1, <3>2, <3>3
  <2>4. i \in Nat /\ (i <= Len(received) \/ i > Len(received))
    <3>1. \A j, k \in Nat : j <= k \/ j > k
      OBVIOUS
    <3> QED BY <1>1, <2>1, <3>1
  <2> QED BY <2>2, <2>3, <2>4
<1>9. received \o Unread \in Seq(Chars \cup {"0"}) /\ taken \in Seq(Chars \cup {"0"})
  BY <1>1, <1>5
<1> QED BY <1>7, <1>8, <1>9, SeqEqual

(* As long as the interrupt does not log in the middle of main's message, a       *)
(* probe reads what rtt_write took, byte for byte: for every size of the ring,    *)
(* through every wrap, every full ring and every pace of the probe.             *)
THEOREM StreamKept == ~IsrPreempts => (Spec => []StreamIntact)
<1> SUFFICES ASSUME ~IsrPreempts PROVE Spec => []StreamIntact
  OBVIOUS
<1>1. RingInv /\ [Next]_vars => RingInv'
  BY RingStep
<1> QED BY <1>1, RingInit, RingIsIntact, PTL DEF Spec
==============================================================================
