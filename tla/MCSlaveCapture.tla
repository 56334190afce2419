-------------------------- MODULE MCSlaveCapture --------------------------
(* Values of SlaveCapture's constants for TLC: transfers without data, that   *)
(* fit buf[] and that do not.                                               *)
EXTENDS SlaveCapture

MCTexts == {<< >>, <<1, 2>>, <<3, 4, 5>>}
=============================================================================
