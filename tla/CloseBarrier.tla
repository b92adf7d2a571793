---------------------------- MODULE CloseBarrier ----------------------------
(***************************************************************************)
(* What closing promises, in the words of the comment at chirp.c:231: a    *)
(* semaphore waits until all callbacks are done, and the memory of the     *)
(* instance is freed after that.  The semaphore itself is hidden; what is  *)
(* left is the set of the callbacks that are still to come, which changes  *)
(* freely as long as the owner of the callbacks exists and is empty when   *)
(* the owner is freed.                                                     *)
(***************************************************************************)
CONSTANT Callbacks

VARIABLES owner,      \* "open", "closing" or "freed"
          pending     \* the callbacks that are scheduled and not yet called

Init == owner = "open" /\ pending = {}

\* Callbacks are scheduled and called.
Work ==
    /\ owner # "freed"
    /\ pending' \in SUBSET Callbacks
    /\ UNCHANGED owner

Request == owner = "open" /\ owner' = "closing" /\ UNCHANGED pending

Free ==
    /\ owner = "closing"
    /\ pending = {}
    /\ owner' = "freed"
    /\ UNCHANGED pending

Next == Work \/ Request \/ Free

Spec == Init /\ [][Next]_<<owner, pending>>
=============================================================================
