---------------------------- MODULE MCVcomBridge ----------------------------
(* Values of VcomBridge's constants for TLC.                                *)
EXTENDS VcomBridge

CONSTANTS a, b, eol, nul

MCChars == {a, b}

\* A line of one byte, and one that fills a 4-slot buffer up to its terminator.
ShortLines == {<<a>>, <<b, a, b>>}

\* One line more than the buffer holds.
LongLines == {<<a, b, a, b>>}
==============================================================================
