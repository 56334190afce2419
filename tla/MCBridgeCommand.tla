-------------------------- MODULE MCBridgeCommand --------------------------
(* Values of BridgeCommand's constants for TLC: four addresses, one of them   *)
(* outside the scanned range, and buffers of two bytes.                     *)
EXTENDS BridgeCommand

MCTargets == {1, 3}

\* Every command, with every count and amount of data around the buffer sizes,
\* to a target that is there, to one that is not, and to a bad address.
MCCommands ==
  [cmd : {"W"}, smbusPec : BOOLEAN, addr : {1, 2, 4}, ourAddr : {0}, count : {0}, data : 0 .. 3]
  \cup [cmd : {"R"}, smbusPec : BOOLEAN, addr : {1, 2, 4}, ourAddr : {0}, count : 0 .. 3, data : {0}]
  \cup [cmd : {"X"}, smbusPec : BOOLEAN, addr : {1, 2}, ourAddr : {0}, count : 0 .. 3, data : {0, 2, 3}]
  \cup [cmd : {"I"}, smbusPec : BOOLEAN, addr : {1, 2}, ourAddr : {0, 4}, count : {0}, data : {2, 3}]
  \cup [cmd : {"S", "L", "other"}, smbusPec : {FALSE}, addr : {0}, ourAddr : {0, 4},
        count : {0}, data : {0}]
=============================================================================
