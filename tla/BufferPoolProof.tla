-------------------------- MODULE BufferPoolProof --------------------------
(***************************************************************************)
(* Proofs about the buffer pool, for every number of buffers the pool can  *)
(* be initialised with.                                                    *)
(***************************************************************************)
EXTENDS BufferPool, FiniteSetTheorems, TLAPS

(* b is the most significant bit of the word x.                            *)
Highest(x, b) == b \in x /\ \A d \in x : d <= b

(* One halving step: what is the highest bit after it tells what it was    *)
(* before.                                                                 *)
LEMMA HalvingStep ==
    ASSUME NEW n \in 1 .. 16,
           NEW x, x \subseteq 0 .. 2 * n - 1, x # {}
    PROVE  /\ Halved(x, n) \subseteq 0 .. n - 1
           /\ Halved(x, n) # {}
           /\ Gained(x, n) \in Int
           /\ \A b : Highest(Halved(x, n), b) => Highest(x, b + Gained(x, n))
  <1>1. CASE UpperHalf(x, n)
    <2>1. Halved(x, n) = ShiftRight(x, n) /\ Gained(x, n) = n
      BY <1>1 DEF Halved, Gained
    <2>2. ShiftRight(x, n) \subseteq 0 .. n - 1
      BY DEF ShiftRight, Bits
    <2>3. ShiftRight(x, n) # {}
      <3>1. PICK b \in x : n <= b /\ b < 2 * n
        BY <1>1 DEF UpperHalf
      <3>2. b - n \in Bits /\ (b - n) + n \in x
        BY <3>1 DEF Bits
      <3>3. QED
        BY <3>2 DEF ShiftRight
    <2>4. ASSUME NEW b, Highest(ShiftRight(x, n), b)
          PROVE  Highest(x, b + n)
      <3>1. b \in Bits /\ b + n \in x
        BY <2>4 DEF Highest, ShiftRight
      <3>2. ASSUME NEW d \in x, d > b + n PROVE FALSE
        <4>1. d - n \in Bits /\ (d - n) + n \in x
          BY <3>1, <3>2 DEF Bits
        <4>2. d - n <= b
          BY <2>4, <4>1 DEF Highest, ShiftRight
        <4>3. QED
          BY <3>1, <3>2, <4>2 DEF Bits
      <3>3. QED
        BY <3>1, <3>2 DEF Highest, Bits
    <2>5. QED
      BY <2>1, <2>2, <2>3, <2>4
  <1>2. CASE ~UpperHalf(x, n)
    <2>1. Halved(x, n) = x /\ Gained(x, n) = 0
      BY <1>2 DEF Halved, Gained
    <2>2. x \subseteq 0 .. n - 1
      BY <1>2 DEF UpperHalf
    <2>3. ASSUME NEW b, Highest(x, b) PROVE Highest(x, b + 0)
      <3>1. b + 0 = b
        BY <2>3 DEF Highest
      <3>2. QED
        BY <2>3, <3>1
    <2>4. QED
      BY <2>1, <2>2, <2>3
  <1>3. QED
    BY <1>1, <1>2

(* The table finds the highest of the last four bits.                      *)
LEMMA TableStep ==
    ASSUME NEW x, x \subseteq 0 .. 3, x # {}
    PROVE  /\ bval[Nibble(x)] \in Int
           /\ Highest(x, bval[Nibble(x)] - 1)
  <1>1. Nibble(x) \in 0 .. 15
    BY DEF Nibble
  <1>2. CASE 3 \in x
    BY <1>1, <1>2 DEF Nibble, bval, Highest
  <1>3. CASE 3 \notin x /\ 2 \in x
    BY <1>1, <1>3 DEF Nibble, bval, Highest
  <1>4. CASE 3 \notin x /\ 2 \notin x /\ 1 \in x
    BY <1>1, <1>4 DEF Nibble, bval, Highest
  <1>5. CASE 3 \notin x /\ 2 \notin x /\ 1 \notin x
    <2>1. \A d \in x : d \in 0 .. 3 /\ d # 1 /\ d # 2 /\ d # 3
      BY <1>5
    <2>2. \A d \in x : d = 0
      BY <2>1
    <2>3. 0 \in x
      BY <2>2
    <2>4. QED
      BY <1>1, <1>5, <2>2, <2>3 DEF Nibble, bval, Highest
  <1>6. QED
    BY <1>2, <1>3, <1>4, <1>5

(* ch_msb32() returns one more than the number of the highest bit that is  *)
(* set, for every word but zero.                                           *)
THEOREM MsbCorrect ==
    ASSUME NEW x, x \subseteq Bits, x # {}
    PROVE  ch_msb32(x) \in Int /\ Highest(x, ch_msb32(x) - 1)
  <1> DEFINE y == Halved(x, 16)
             z == Halved(y, 8)
             w == Halved(z, 4)
  <1>1. x \subseteq 0 .. 2 * 16 - 1
    BY DEF Bits
  <1>2. /\ y \subseteq 0 .. 2 * 8 - 1 /\ y # {} /\ Gained(x, 16) \in Int
        /\ \A b : Highest(y, b) => Highest(x, b + Gained(x, 16))
    <2>1. 16 \in 1 .. 16
      OBVIOUS
    <2>2. /\ y \subseteq 0 .. 16 - 1 /\ y # {} /\ Gained(x, 16) \in Int
          /\ \A b : Highest(y, b) => Highest(x, b + Gained(x, 16))
      BY ONLY <1>1, <2>1, x # {}, HalvingStep DEF y
    <2>3. QED
      BY <2>2
  <1> HIDE DEF y
  <1>3. /\ z \subseteq 0 .. 2 * 4 - 1 /\ z # {} /\ Gained(y, 8) \in Int
        /\ \A b : Highest(z, b) => Highest(y, b + Gained(y, 8))
    <2>1. 8 \in 1 .. 16
      OBVIOUS
    <2>2. /\ z \subseteq 0 .. 8 - 1 /\ z # {} /\ Gained(y, 8) \in Int
          /\ \A b : Highest(z, b) => Highest(y, b + Gained(y, 8))
      BY ONLY <1>2, <2>1, HalvingStep DEF z
    <2>3. QED
      BY <2>2
  <1> HIDE DEF z
  <1>4. /\ w \subseteq 0 .. 3 /\ w # {} /\ Gained(z, 4) \in Int
        /\ \A b : Highest(w, b) => Highest(z, b + Gained(z, 4))
    <2>1. 4 \in 1 .. 16
      OBVIOUS
    <2>2. /\ w \subseteq 0 .. 4 - 1 /\ w # {} /\ Gained(z, 4) \in Int
          /\ \A b : Highest(w, b) => Highest(z, b + Gained(z, 4))
      BY ONLY <1>3, <2>1, HalvingStep DEF w
    <2>3. QED
      BY <2>2
  <1> HIDE DEF w
  <1>5. bval[Nibble(w)] \in Int /\ Highest(w, bval[Nibble(w)] - 1)
    BY <1>4, TableStep
  <1>6. ch_msb32(x) = Gained(x, 16) + Gained(y, 8) + Gained(z, 4)
                      + bval[Nibble(w)]
    BY DEF ch_msb32, y, z, w
  <1>7. Highest(x, bval[Nibble(w)] - 1 + Gained(z, 4) + Gained(y, 8)
                   + Gained(x, 16))
    BY <1>2, <1>3, <1>4, <1>5
  <1>8. bval[Nibble(w)] - 1 + Gained(z, 4) + Gained(y, 8) + Gained(x, 16)
        = ch_msb32(x) - 1
    BY <1>2, <1>3, <1>4, <1>5, <1>6
  <1>9. QED
    BY <1>2, <1>3, <1>4, <1>5, <1>6, <1>7, <1>8

-----------------------------------------------------------------------------

IInv == TypeOK /\ PoolConsistent

LEMMA IdsFinite == IsFiniteSet(Ids) /\ Cardinality(Ids) = MaxBuffers
  BY MaxBuffersAssumption, FS_Interval DEF Ids

LEMMA HeldFinite ==
    ASSUME NEW S \in SUBSET Ids
    PROVE  IsFiniteSet(S) /\ Cardinality(S) \in 0 .. MaxBuffers
           /\ (Cardinality(S) = MaxBuffers => S = Ids)
  BY IdsFinite, FS_Subset, FS_CardinalityType, MaxBuffersAssumption

(* As long as the counter is below the size of the pool, the word names a  *)
(* buffer that nobody holds.                                               *)
LEMMA ReserveFindsFree ==
    ASSUME IInv, HasFree
    PROVE  /\ IdOf(ch_msb32(free_buffers)) \in Ids \ held
           /\ BitOf(IdOf(ch_msb32(free_buffers))) = ch_msb32(free_buffers) - 1
  <1>1. held # Ids
    BY IdsFinite, MaxBuffersAssumption DEF IInv, PoolConsistent, HasFree
  <1>2. PICK id \in Ids : id \notin held
    BY <1>1 DEF IInv, TypeOK
  <1>3. 31 - id \in free_buffers
    BY <1>2, MaxBuffersAssumption DEF IInv, PoolConsistent, Ids, Bits
  <1>4. /\ ch_msb32(free_buffers) \in Int
        /\ ch_msb32(free_buffers) - 1 \in free_buffers
    BY <1>3, MsbCorrect DEF Highest, IInv, TypeOK
  <1>5. QED
    BY <1>4, MaxBuffersAssumption
       DEF IInv, PoolConsistent, IdOf, BitOf, Ids, Bits

LEMMA ReserveIInv ==
    ASSUME IInv, Reserve
    PROVE  IInv'
  <1> DEFINE free == ch_msb32(free_buffers)
             id   == IdOf(free)
  <1>1. CASE HasFree
    <2>1. /\ used_buffers' = used_buffers + 1
          /\ free_buffers' = free_buffers \ {free - 1}
          /\ used' = [used EXCEPT ![id] = 1]
          /\ held' = held \cup {id}
          /\ last' = id
      BY <1>1 DEF Reserve
    <2>2. id \in Ids \ held /\ BitOf(id) = free - 1
      BY <1>1, ReserveFindsFree
    <2> HIDE DEF free, id
    <2>3. held' \subseteq Ids /\ held \subseteq Ids
      BY <2>1, <2>2 DEF IInv, TypeOK
    <2>4. used_buffers' = Cardinality(held')
      BY <2>1, <2>2, <2>3, HeldFinite, FS_AddElement
         DEF IInv, PoolConsistent
    <2>5. TypeOK'
      BY <2>1, <2>2, <2>3, <2>4, HeldFinite DEF IInv, TypeOK
    <2>6. free_buffers' = {b \in Bits : b >= 32 - MaxBuffers
                                        /\ 31 - b \notin held'}
      BY <2>1, <2>2, MaxBuffersAssumption
         DEF IInv, PoolConsistent, BitOf, Ids, Bits
    <2>7. \A i \in Ids : used'[i] = 1 <=> i \in held'
      BY <2>1, <2>2 DEF IInv, TypeOK, PoolConsistent
    <2>8. QED
      BY <2>4, <2>5, <2>6, <2>7 DEF IInv, PoolConsistent
  <1>2. CASE ~HasFree
    BY <1>2 DEF Reserve, IInv, TypeOK, PoolConsistent
  <1>3. QED
    BY <1>1, <1>2

LEMMA ReturnIInv ==
    ASSUME IInv, NEW id \in Ids, Return(id)
    PROVE  IInv'
  <1>1. held' \subseteq Ids /\ held \subseteq Ids /\ id \in held
    BY DEF IInv, TypeOK, Return
  <1>2. used_buffers' = Cardinality(held')
    BY <1>1, HeldFinite, FS_RemoveElement DEF IInv, PoolConsistent, Return
  <1>3. TypeOK'
    BY <1>1, <1>2, HeldFinite, MaxBuffersAssumption
       DEF IInv, TypeOK, Return, BitOf, Ids, Bits
  <1>4. free_buffers' = {b \in Bits : b >= 32 - MaxBuffers
                                      /\ 31 - b \notin held'}
    BY <1>1, MaxBuffersAssumption
       DEF IInv, PoolConsistent, Return, BitOf, Ids, Bits
  <1>5. \A i \in Ids : used'[i] = 1 <=> i \in held'
    BY <1>1 DEF IInv, TypeOK, PoolConsistent, Return
  <1>6. QED
    BY <1>2, <1>3, <1>4, <1>5 DEF IInv, PoolConsistent

LEMMA InitIInv == Init => IInv
  <1> SUFFICES ASSUME Init PROVE IInv
    OBVIOUS
  <1>1. TypeOK
    BY MaxBuffersAssumption DEF Init, TypeOK, AllFree, Bits, Ids
  <1>2. PoolConsistent
    BY FS_EmptySet DEF Init, PoolConsistent, AllFree, Ids
  <1>3. QED
    BY <1>1, <1>2 DEF IInv

\* Reserving and returning buffers keep the strengthened invariant.
THEOREM PoolInvariance == Spec => []IInv
  <1>1. Init => IInv
    BY InitIInv
  <1>2. IInv /\ [Next]_vars => IInv'
    <2> SUFFICES ASSUME IInv, [Next]_vars PROVE IInv'
      OBVIOUS
    <2>1. CASE UNCHANGED vars
      BY <2>1 DEF vars, IInv, TypeOK, PoolConsistent
    <2>2. QED
      BY <2>1, ReserveIInv, ReturnIInv DEF Next
  <1>3. QED
    BY <1>1, <1>2, PTL DEF Spec

(* Every variable keeps its type: the word never holds a bit outside of 32, *)
(* and the buffers handed out are those of the array.                      *)
THEOREM PoolTypeCorrect == Spec => []TypeOK
  <1>1. IInv => TypeOK
    BY DEF IInv
  <1>2. QED
    BY <1>1, PoolInvariance, PTL

(* The counter, the word and the flags always agree with the buffers that  *)
(* are held.                                                               *)
THEOREM PoolAgrees == Spec => []PoolConsistent
  <1>1. IInv => PoolConsistent
    BY DEF IInv
  <1>2. QED
    BY <1>1, PoolInvariance, PTL

(* The pool is an allocator: no buffer is handed out twice, and none is    *)
(* refused while one is free.                                              *)
THEOREM PoolImplementsAllocator == Spec => AllocatorSpec
  <1>1. Init => Abstract!Init
    BY DEF Init, Abstract!Init
  <1>2. IInv /\ [Next]_vars => [Abstract!Next]_<<held, last>>
    <2> SUFFICES ASSUME IInv, [Next]_vars
                 PROVE  [Abstract!Next]_<<held, last>>
      OBVIOUS
    <2>1. CASE Reserve /\ HasFree
      BY <2>1, ReserveFindsFree DEF Reserve, Abstract!Next, Abstract!Reserve
    <2>2. CASE Reserve /\ ~HasFree
      <3>1. Cardinality(held) = MaxBuffers
        BY <2>2, MaxBuffersAssumption DEF IInv, TypeOK, PoolConsistent, HasFree
      <3>2. held = Ids
        BY <3>1, HeldFinite DEF IInv, TypeOK
      <3>3. QED
        BY <2>2, <3>2 DEF Reserve, Abstract!Next, Abstract!Reserve
    <2>3. CASE \E id \in Ids : Return(id)
      BY <2>3 DEF Return, Abstract!Next, Abstract!Return
    <2>4. CASE UNCHANGED vars
      BY <2>4 DEF vars
    <2>5. QED
      BY <2>1, <2>2, <2>3, <2>4 DEF Next
  <1>3. QED
    BY <1>1, <1>2, PoolInvariance, PTL DEF Spec, AllocatorSpec, Abstract!Spec
=============================================================================
