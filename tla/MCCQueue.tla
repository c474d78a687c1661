----------------------------- MODULE MCCQueue -----------------------------
(* Values for the constants of CQueue in its TLC runs. *)
EXTENDS CQueue

GetOnly == {"getbuffer"}
PopOnly == {"pop"}
BothCalls == {"getbuffer", "pop"}
=============================================================================
