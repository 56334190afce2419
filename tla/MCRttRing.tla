----------------------------- MODULE MCRttRing -----------------------------
(* Values of RttRing's constants for TLC: messages shorter than a ring of     *)
(* three slots, and one that is longer.                                     *)
EXTENDS RttRing

MCChars == {"a", "b", "c", "d", "x", "y"}
MCMainMessages == {<<"a", "b", "c", "d">>, <<"b">>}
MCIsrMessages == {<<"x", "y">>}
=============================================================================
