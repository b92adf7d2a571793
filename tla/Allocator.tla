----------------------------- MODULE Allocator -----------------------------
(***************************************************************************)
(* What the pool of handler buffers promises (the comments of buffer.h): a *)
(* reservation hands out a buffer nobody holds, and hands out none only    *)
(* when all of them are held; a returned buffer can be handed out again.   *)
(***************************************************************************)
CONSTANTS Ids, Null

VARIABLES taken,    \* the buffers that are handed out
          last      \* what the last reservation returned

Init == taken = {} /\ last = Null

Reserve ==
    \/ \E id \in Ids \ taken : taken' = taken \cup {id} /\ last' = id
    \/ taken = Ids /\ last' = Null /\ UNCHANGED taken

Return == \E id \in taken : taken' = taken \ {id} /\ UNCHANGED last

Next == Reserve \/ Return

Spec == Init /\ [][Next]_<<taken, last>>
=============================================================================
