--------------------------- MODULE MCCrashHandler ---------------------------
(* Stacks and debug tables for the model checker. *)
EXTENDS CrashHandler

CONSTANTS main, w1

Frame(next, ret, words) == [next |-> next, ret |-> ret, words |-> words]

\* A chain that ends in half a frame, one that turns back, and one that is
\* longer than the limit.
SmallMemories ==
    { <<Frame(2, 5, 2), Frame(3, 6, 1), Frame(0, 0, 0)>>,
      <<Frame(2, 2, 2), Frame(1, 3, 2), Frame(0, 0, 0)>>,
      <<Frame(2, 5, 2), Frame(3, 4, 2), Frame(4, 2, 2)>> }

Function(start, end, name) == [start |-> start, end |-> end, name |-> name]
Location(address, name) == [address |-> address, name |-> name]

\* Code addresses 1..5; the functions f = 1..2 and g = 3..4 are adjacent, 5 is
\* outside.  The tables need not be sorted and may repeat an address.
SmallImages ==
    { [ functions |-> <<Function(3, 5, "g"), Function(1, 3, "f")>>,
        locations |-> <<Location(4, "g:2"), Location(4, "g:3"), Location(3, "g:1"), Location(2, "f:2")>> ] }
=============================================================================
