--------------------------- MODULE MCControlPipe ---------------------------
(* The requests of an enumeration and of a terminal program, in packets that are  *)
(* smaller than the 64 bytes of the code, so that the answers take several: the   *)
(* second string fills two and needs an empty one, the configuration is cut after *)
(* three.                                                                   *)
EXTENDS ControlPipe

Ask(name, value, index, length) == [name |-> name, value |-> value, index |-> index, length |-> length]

MCRequests ==
  {Ask("GET_DEVICE_DESCRIPTOR", 0, 0, 18),
   Ask("GET_CONFIGURATION_DESCRIPTOR", 0, 0, 63),
   Ask("GET_STRING_DESCRIPTOR", 2, 1033, 255),
   Ask("SET_ADDRESS", 1, 0, 0),
   Ask("SET_ADDRESS", 2, 0, 0),
   Ask("SET_CONFIGURATION", 0, 0, 0),
   Ask("SET_CONFIGURATION", 1, 0, 0),
   Ask("GET_CONFIGURATION", 0, 0, 1),
   Ask("SET_INTERFACE", 0, 1, 0),
   Ask("GET_LINE_CODING", 0, 0, 7),
   Ask("GET_LINE_CODING", 0, 1, 7),
   Ask("SET_CONTROL_LINE_STATE", 1, 1, 0),
   Ask("SET_LINE_CODING", 0, 0, 7),
   Ask("GET_COMM_FEATURE", 1, 0, 2)}
==============================================================================
