--------------------------- MODULE LossyChannel ---------------------------
(***************************************************************************)
(* What CQueue promises its two threads.  Frames are numbered in the order *)
(* of the pushes.  Until the ring first covers old data the receiver gets  *)
(* 1, 2, 3, ... with nothing skipped, repeated or reordered; data is       *)
(* covered only when maxFrames frames were still waiting.  From then on    *)
(* all that is promised is that a frame handed out is one of the last      *)
(* maxFrames that were pushed.                                             *)
(***************************************************************************)
EXTENDS Integers

CONSTANT maxFrames

VARIABLES pushed, last, overflowed
vars == <<pushed, last, overflowed>>

Init == pushed = 0 /\ last = 0 /\ overflowed = FALSE

Push == pushed' = pushed + 1 /\ UNCHANGED <<last, overflowed>>

Overflow ==
  /\ overflowed \/ pushed - last > maxFrames
  /\ overflowed' = TRUE
  /\ UNCHANGED <<pushed, last>>

\* The frames that are still somewhere in the ring.
Recent == {f \in 1 .. pushed : f > pushed - maxFrames}

Deliver ==
  /\ \E f \in Recent :
       /\ ~overflowed => f = last + 1
       /\ last' = f
  /\ UNCHANGED <<pushed, overflowed>>

Next == Push \/ Overflow \/ Deliver

Spec == Init /\ [][Next]_vars
=============================================================================
