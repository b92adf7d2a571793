----------------------------- MODULE Dictionary -----------------------------
(***************************************************************************)
(* What the dictionaries of chirp promise: a set of elements, looked up by *)
(* the key the comparator compares.  Connections uses them this way; the   *)
(* module RBTree shows that the red-black trees of sglib.h keep it.        *)
(***************************************************************************)
CONSTANTS Nodes,      \* the elements, by their addresses
          Key,        \* what the comparator compares: a function on Nodes
          NULL

VARIABLES members,    \* the elements in the dictionary
          answer      \* the element the last call found or deleted

Init == members = {} /\ answer = NULL

\* The elements a lookup of e may return, or only NULL.
Found(e) == LET same == {n \in members : Key[n] = Key[e]}
            IN  IF same = {} THEN {NULL} ELSE same

Add(e) ==
    /\ e \notin members
    /\ members' = members \cup {e}
    /\ answer' = NULL

AddIfNotMember(e) ==
    /\ e \notin members
    /\ answer' \in Found(e)
    /\ members' = IF answer' = NULL THEN members \cup {e} ELSE members

Delete(e) ==
    /\ e \in members
    /\ members' = members \ {e}
    /\ answer' = NULL

DeleteIfMember(e) ==
    /\ answer' \in Found(e)
    /\ members' = members \ {answer'}

\* The elements are given up together.
Drop == members' = {} /\ answer' = NULL

Next == \/ \E e \in Nodes : \/ Add(e) \/ AddIfNotMember(e)
                            \/ Delete(e) \/ DeleteIfMember(e)
        \/ Drop

Spec == Init /\ [][Next]_<<members, answer>>
=============================================================================
