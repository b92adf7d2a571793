----------------------------- MODULE BufferPool -----------------------------
(***************************************************************************)
(* The pool of preallocated handler buffers (buffer.h): a counter, a word  *)
(* whose set bits are the free buffers, the most significant bit for the   *)
(* first buffer, and a flag in each buffer.  The three must agree after    *)
(* any sequence of reservations and returns.                               *)
(***************************************************************************)
EXTENDS Word, FiniteSets

CONSTANTS MaxBuffers,   \* pool->max_buffers
          Null          \* what ch_bf_reserve() returns without a free buffer

\* ch_bf_init() asserts the upper bound, _ch_chirp_verify_cfg() the lower one.
ASSUME MaxBuffersAssumption == MaxBuffers \in 1 .. 32

Ids == 0 .. MaxBuffers - 1

ASSUME NullAssumption == Null \notin Ids

VARIABLES used_buffers,
          free_buffers,
          used,         \* handlers[id].used
          held,         \* the buffers the callers have not yet returned
          last          \* what the last ch_bf_reserve() returned

vars == <<used_buffers, free_buffers, used, held, last>>

TypeOK ==
    /\ used_buffers \in 0 .. MaxBuffers
    /\ free_buffers \subseteq Bits
    /\ used \in [Ids -> 0 .. 1]
    /\ held \subseteq Ids
    /\ last \in Ids \cup {Null}

\* ch_bf_init(): all ones, shifted left by 32 - max_buffers.
AllFree == {b \in Bits : b >= 32 - MaxBuffers}

Init ==
    /\ used_buffers = 0
    /\ free_buffers = AllFree
    /\ used = [id \in Ids |-> 0]
    /\ held = {}
    /\ last = Null

\* The most significant bit is the first buffer.
IdOf(free)    == 32 - free
BitOfNext(id) == 32 - id
BitOf(id)     == 31 - id

\* The counter, not the word, decides whether there is a free buffer.
HasFreeLate == used_buffers <= MaxBuffers
HasFree     == used_buffers < MaxBuffers

\* ch_bf_reserve()
Reserve ==
    LET free == ch_msb32(free_buffers)
        id   == IdOf(free)
    IN  IF HasFree
        THEN /\ used_buffers' = used_buffers + 1
             /\ free_buffers' = free_buffers \ {free - 1}
             /\ used' = [used EXCEPT ![id] = 1]
             /\ held' = held \cup {id}
             /\ last' = id
        ELSE /\ last' = Null
             /\ UNCHANGED <<used_buffers, free_buffers, used, held>>

\* ch_bf_return() of a buffer that is held.
Return(id) ==
    /\ id \in held
    /\ used' = [used EXCEPT ![id] = 0]
    /\ used_buffers' = used_buffers - 1
    /\ free_buffers' = free_buffers \cup {BitOf(id)}
    /\ held' = held \ {id}
    /\ UNCHANGED last

Next == Reserve \/ \E id \in Ids : Return(id)

Spec == Init /\ [][Next]_vars

-----------------------------------------------------------------------------

\* The counter, the word and the flags agree with the buffers that are held,
\* so neither assertion of ch_bf_reserve() and ch_bf_return() can fail.
PoolConsistent ==
    /\ used_buffers = Cardinality(held)
    /\ free_buffers = {b \in Bits : b >= 32 - MaxBuffers /\ 31 - b \notin held}
    /\ \A id \in Ids : used[id] = 1 <=> id \in held

\* The pool is an allocator: it never hands out a buffer that is held, and it
\* refuses only when all of them are.
Abstract == INSTANCE Allocator WITH taken <- held

AllocatorSpec == Abstract!Spec
=============================================================================
