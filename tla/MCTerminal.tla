------------------------------ MODULE MCTerminal ------------------------------
(* Three of the eight time frames: the next and the previous one differ.   *)
EXTENDS Terminal

MCTimeframes == <<"1h", "Day", "Wk">>
=============================================================================
