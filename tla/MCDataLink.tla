------------------------------ MODULE MCDataLink ------------------------------
(* A small instance of DataLink for TLC: two numbers, then a string. *)
EXTENDS DataLink

\* The second number is the trim indicator, the string takes two words.
MCWordsOf == <<1, 1, 2>>

=============================================================================
