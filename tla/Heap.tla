------------------------------- MODULE Heap -------------------------------
(* What a heap promises its caller, whatever it does to detect mistakes:     *)
(* live blocks are apart, only the block that is freed goes away, a free of  *)
(* anything else changes nothing, and a call that fails leaves every block.  *)
(* A block is named by its address and takes Units(size) from there.         *)
EXTENDS Integers

CONSTANTS Addresses,  \* where a block may begin: numbers other than 0, the null pointer
          Sizes,      \* the sizes a caller asks for
          Units(_)    \* the memory a block of a size takes

VARIABLES live,   \* the blocks the caller may use
          answer  \* the last call: what was asked, about which pointer, what came back

NULL == 0

Blocks == [at : Addresses, size : Sizes]
Span(b) == b.at .. b.at + Units(b.size) - 1
Without(p) == {b \in live : b.at # p}

HeapInit == live = {} /\ answer = [op |-> "other", of |-> NULL, len |-> 0, ptr |-> NULL]

\* A new block is apart from every block that was there before the call.
Gives(kept) ==
    \E b \in Blocks :
        /\ b.at = answer'.ptr /\ b.size = answer'.len
        /\ \A other \in live : Span(b) \cap Span(other) = {}
        /\ live' = kept \cup {b}

Refuses == answer'.ptr = NULL /\ live' = live

Malloc == answer'.op = "malloc" /\ (Refuses \/ Gives(live))

Free == answer'.op = "free" /\ answer'.ptr = NULL /\ live' = Without(answer'.of)

Realloc ==
    /\ answer'.op = "realloc"
    /\ \/ Refuses
       \/ Gives(Without(answer'.of))
       \/ answer'.len = 0 /\ answer'.ptr = NULL /\ live' = Without(answer'.of)

Release == answer'.op = "abort" /\ live' = {}

Other == answer'.op = "other" /\ live' = live

HeapNext == Malloc \/ Free \/ Realloc \/ Release \/ Other

HeapSpec == HeapInit /\ [][HeapNext]_<<live, answer>>
=============================================================================
