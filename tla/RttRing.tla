------------------------------- MODULE RttRing -------------------------------
(***************************************************************************)
(* The log of src/rtt.c: a ring in memory that rtt_write fills, byte by byte,*)
(* and a debug probe empties over SWD while the processor runs. The main loop *)
(* logs, and so does the USB interrupt, which may preempt it inside rtt_write.*)
(***************************************************************************)
EXTENDS Integers, SequencesExt

CONSTANTS
  RTT_UP_BUF_SIZE,      \* 256
  Chars,                \* the bytes of a message
  MainMessages, IsrMessages,
  IsrPreempts,          \* may the interrupt log while main is in rtt_write?
  MaxMessages           \* bound: calls of rtt_write

ASSUME RttAssumption ==
  /\ RTT_UP_BUF_SIZE \in Nat \ {0}
  /\ MainMessages \subseteq Seq(Chars) \ {<< >>}
  /\ IsrMessages \subseteq Seq(Chars) \ {<< >>}
  /\ IsrPreempts \in BOOLEAN
  /\ MaxMessages \in Nat

VARIABLES
  buffer, wrOff, rdOff,     \* the channel: s_up_buffer, wr_off, rd_off
  pc, left, next, index,    \* per writer: where it is, the bytes left, its locals
  message, done,            \* history: its message, and how much of it was taken
  taken, calls,             \* history: all that was taken; calls made
  reading, seen, cursor,    \* the probe: the wr_off it saw, where it reads
  received                  \* history: what the probe read

channelVars == <<buffer, wrOff, rdOff>>
writerVars  == <<pc, left, next, index, message, done, taken, calls>>
probeVars   == <<reading, seen, cursor, received>>
vars == <<channelVars, writerVars, probeVars>>

Writers == {"main", "isr"}
Slots   == 0 .. RTT_UP_BUF_SIZE - 1
WriteSteps == {"idle", "load", "check", "index", "store", "advance"}

TypeOK ==
  /\ buffer \in [Slots -> Chars \cup {"0"}]
  /\ wrOff \in Slots /\ rdOff \in Slots
  /\ pc \in [Writers -> WriteSteps]
  /\ left \in [Writers -> Seq(Chars)]
  /\ next \in [Writers -> Slots] /\ index \in [Writers -> Slots]
  /\ message \in [Writers -> Seq(Chars)] /\ done \in [Writers -> Nat]
  /\ taken \in Seq(Chars) /\ calls \in 0 .. MaxMessages
  /\ reading \in BOOLEAN /\ seen \in Slots /\ cursor \in Slots
  /\ received \in Seq(Chars \cup {"0"})

(* The initialized control block, and rtt_init.                             *)
Init ==
  /\ buffer = [i \in Slots |-> "0"]
  /\ wrOff = 0 /\ rdOff = 0
  /\ pc = [w \in Writers |-> "idle"]
  /\ left = [w \in Writers |-> << >>]
  /\ next = [w \in Writers |-> 0] /\ index = [w \in Writers |-> 0]
  /\ message = [w \in Writers |-> << >>] /\ done = [w \in Writers |-> 0]
  /\ taken = << >> /\ calls = 0
  /\ reading = FALSE /\ seen = 0 /\ cursor = 0
  /\ received = << >>
------------------------------------------------------------------------------
(* rtt_write. The offsets are volatile, and the store of a byte cannot be     *)
(* moved past that of the offset, which a char may alias: each access is one  *)
(* step, in the order of the program.                                        *)

(* The interrupt is not interrupted by the main loop.                       *)
MayStep(w) == w = "main" => pc["isr"] = "idle"

Call(w, text) ==
  /\ MayStep(w) /\ pc[w] = "idle"
  /\ w = "isr" => IsrPreempts \/ pc["main"] = "idle"
  /\ calls < MaxMessages /\ calls' = calls + 1
  /\ left' = [left EXCEPT ![w] = text]
  /\ message' = [message EXCEPT ![w] = text] /\ done' = [done EXCEPT ![w] = 0]
  /\ pc' = [pc EXCEPT ![w] = "load"]
  /\ UNCHANGED <<channelVars, next, index, taken, probeVars>>

(* Mutant of NextOffset: the ring has a slot too many.                      *)
NextOffsetTooFar(off) == (off + 1) % (RTT_UP_BUF_SIZE + 1)

NextOffset(off) == (off + 1) % RTT_UP_BUF_SIZE

Load(w) ==
  /\ MayStep(w) /\ pc[w] = "load"
  /\ next' = [next EXCEPT ![w] = NextOffset(wrOff)]
  /\ pc' = [pc EXCEPT ![w] = "check"]
  /\ UNCHANGED <<channelVars, left, index, message, done, taken, calls, probeVars>>

(* Mutant of Check: a byte that finds the ring full is skipped, and those     *)
(* after it are not.                                                         *)
CheckSkipsByte(w) ==
  /\ MayStep(w) /\ pc[w] = "check"
  /\ IF next[w] # rdOff
       THEN pc' = [pc EXCEPT ![w] = "index"] /\ UNCHANGED left
       ELSE /\ left' = [left EXCEPT ![w] = Tail(@)]
            /\ pc' = [pc EXCEPT ![w] = IF Len(left[w]) = 1 THEN "idle" ELSE "load"]
  /\ UNCHANGED <<channelVars, next, index, message, done, taken, calls, probeVars>>

(* A full ring drops the rest of the message.                               *)
Check(w) ==
  /\ MayStep(w) /\ pc[w] = "check"
  /\ IF next[w] = rdOff
       THEN /\ pc' = [pc EXCEPT ![w] = "idle"]
            /\ left' = [left EXCEPT ![w] = << >>]
       ELSE pc' = [pc EXCEPT ![w] = "index"] /\ UNCHANGED left
  /\ UNCHANGED <<channelVars, next, index, message, done, taken, calls, probeVars>>

Index(w) ==
  /\ MayStep(w) /\ pc[w] = "index"
  /\ index' = [index EXCEPT ![w] = wrOff]
  /\ pc' = [pc EXCEPT ![w] = "store"]
  /\ UNCHANGED <<channelVars, left, next, message, done, taken, calls, probeVars>>

Store(w) ==
  /\ MayStep(w) /\ pc[w] = "store"
  /\ buffer' = [buffer EXCEPT ![index[w]] = Head(left[w])]
  /\ pc' = [pc EXCEPT ![w] = "advance"]
  /\ UNCHANGED <<wrOff, rdOff, left, next, index, message, done, taken, calls, probeVars>>

(* Mutant of Advance: the last byte of a message is not published.          *)
AdvanceButLast(w) ==
  /\ MayStep(w) /\ pc[w] = "advance"
  /\ wrOff' = IF Len(left[w]) = 1 THEN wrOff ELSE next[w]
  /\ left' = [left EXCEPT ![w] = Tail(@)]
  /\ taken' = Append(taken, message[w][done[w] + 1])
  /\ done' = [done EXCEPT ![w] = @ + 1]
  /\ pc' = [pc EXCEPT ![w] = IF Len(left[w]) = 1 THEN "idle" ELSE "load"]
  /\ UNCHANGED <<buffer, rdOff, next, index, message, calls, probeVars>>

Advance(w) ==
  /\ MayStep(w) /\ pc[w] = "advance"
  /\ wrOff' = next[w]
  /\ left' = [left EXCEPT ![w] = Tail(@)]
  /\ taken' = Append(taken, message[w][done[w] + 1])
  /\ done' = [done EXCEPT ![w] = @ + 1]
  /\ pc' = [pc EXCEPT ![w] = IF Len(left[w]) = 1 THEN "idle" ELSE "load"]
  /\ UNCHANGED <<buffer, rdOff, next, index, message, calls, probeVars>>

Write(w) == Load(w) \/ Check(w) \/ Index(w) \/ Store(w) \/ Advance(w)
------------------------------------------------------------------------------
(* The probe: it reads both offsets, then the bytes between them, then gives  *)
(* their slots back.                                                         *)

Look ==
  /\ ~reading /\ reading' = TRUE
  /\ seen' = wrOff /\ cursor' = rdOff
  /\ UNCHANGED <<channelVars, writerVars, received>>

TakeByte ==
  /\ reading /\ cursor # seen
  /\ received' = Append(received, buffer[cursor])
  /\ cursor' = (cursor + 1) % RTT_UP_BUF_SIZE
  /\ UNCHANGED <<channelVars, writerVars, reading, seen>>

GiveBack ==
  /\ reading /\ cursor = seen
  /\ reading' = FALSE
  /\ rdOff' = cursor
  /\ UNCHANGED <<buffer, wrOff, writerVars, seen, cursor, received>>

Probe == Look \/ TakeByte \/ GiveBack
------------------------------------------------------------------------------
Next ==
  \/ \E m \in MainMessages : Call("main", m)
  \/ \E m \in IsrMessages : Call("isr", m)
  \/ \E w \in Writers : Write(w)
  \/ Probe

(* The processor runs, and an attached probe polls for ever.                *)
Fairness == (\A w \in Writers : WF_vars(Write(w))) /\ WF_vars(Probe)

Spec == Init /\ [][Next]_vars /\ Fairness
------------------------------------------------------------------------------
(* Properties.                                                              *)

(* What the ring holds for the probe, from where it reads.                  *)
Unread ==
  [i \in 1 .. (wrOff - cursor) % RTT_UP_BUF_SIZE |->
     buffer[(cursor + i - 1) % RTT_UP_BUF_SIZE]]

(* The probe reads what rtt_write took, each byte once, in order, without      *)
(* holes, through every wrap and every full ring, as long as calls do not       *)
(* overlap: of each message the bytes from its first on, as many as were taken *)
(* before it met a full ring.                                                *)
StreamIntact == received \o Unread = taken

TotalTaken == Len(taken)

(* "stream text back over SWD": a byte that rtt_write took is read or still     *)
(* in the ring, and nothing else is.                                         *)
BytesAccounted ==
  Len(received) + Len(Unread) = TotalTaken

(* What was taken is eventually read: no byte stays in the ring for lack of    *)
(* a later one.                                                              *)
EverythingRead ==
  \A n \in 1 .. MaxMessages * Max({Len(m) : m \in MainMessages \cup IsrMessages}) :
    TotalTaken >= n ~> Len(received) >= n
==============================================================================
