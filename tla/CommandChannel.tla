--------------------------- MODULE CommandChannel ---------------------------
(***************************************************************************)
(* What the bridge promises a program on the host, seen from the outside:   *)
(* every line it writes is one command, and the commands are answered one by *)
(* one, in the order they were written, each exactly once.                  *)
(***************************************************************************)
EXTENDS Naturals, SequencesExt

CONSTANT Lines

VARIABLES
  asked,      \* the lines written so far
  answered    \* the commands whose reply the program has, in order of arrival

channel == <<asked, answered>>

ChannelInit == asked = << >> /\ answered = << >>

(* A program writes one or more lines.                                      *)
Ask ==
  /\ asked' \in Seq(Lines)
  /\ IsStrictPrefix(asked, asked')
  /\ UNCHANGED answered

(* The reply to the oldest unanswered command is complete.                  *)
Answer ==
  /\ Len(answered) < Len(asked)
  /\ answered' = Append(answered, asked[Len(answered) + 1])
  /\ UNCHANGED asked

ChannelNext == Ask \/ Answer

ChannelSafety == ChannelInit /\ [][ChannelNext]_channel

(* No command is left unanswered.                                           *)
ChannelLiveness == WF_channel(Answer)
==============================================================================
