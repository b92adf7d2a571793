----------------------------- MODULE ReaderProof -----------------------------
(***************************************************************************)
(* Theorems about Reader, for a handshake, headers and records of any      *)
(* size, any number of messages and any BIO that holds a record.           *)
(*                                                                         *)
(* The proof follows the module: the types first, then what the reader     *)
(* takes from any remote, then the exchange with a remote that does what   *)
(* the code expects, in which the buffers and the records keep step.       *)
(***************************************************************************)
EXTENDS Reader, TLAPS

Extents == {r \in Nat \X Nat : r[1] <= r[2]}
Units   == [what : {"handshake", "header"}, at : Nat,
            late : BOOLEAN, behind : BOOLEAN, whole : BOOLEAN]
Chunks  == [from : Nat, read : Nat, handled : Nat, active : BOOLEAN]

\* OpenSSL takes whole records.
IInv == TypeOK /\ \E k \in Nat : used = 2 * k

-----------------------------------------------------------------------------
(* Types.                                                                  *)

LEMMA Amounts ==
    ASSUME IInv
    PROVE  /\ delivered \in Nat /\ rest \in Nat /\ put \in Nat /\ used \in Nat
           /\ used <= put /\ put + rest <= delivered /\ delivered <= 2 * Len(wire)
           /\ put - used <= BioSize /\ BioSize \in Nat /\ Len(wire) \in Nat
  BY SizesAssumption DEF IInv, TypeOK

\* OpenSSL takes a record of two units.
LEMMA TakenRecord ==
    ASSUME NEW a \in Nat, NEW b \in Nat, NEW s \in Nat, a + 2 <= b, b - a <= s
    PROVE  a + 2 \in Nat /\ b - (a + 2) <= s
  OBVIOUS

LEMMA ShutdownTypes ==
    ASSUME IInv, NEW why \in {"ended", "refused"}, Shutdown(why)
    PROVE  /\ flight' \in {"none", "tls", "greeting", "alert"}
           /\ shut' \in {"no", "ended", "refused"}
           /\ fault' \in {"none", "overlap", "endless"}
  BY DEF Shutdown, endVars, IInv, TypeOK

LEMMA WriteTypes ==
    ASSUME IInv, NEW what \in {"tls", "greeting"}, Write(what)
    PROVE  /\ flight' \in {"none", "tls", "greeting", "alert"}
           /\ shut' \in {"no", "ended", "refused"}
           /\ fault' \in {"none", "overlap", "endless"}
  BY DEF Write, IInv, TypeOK

LEMMA HandledTypes ==
    ASSUME chunk \in Chunks, NEW n \in Nat, Handled(n)
    PROVE  chunk' \in Chunks
  <1>1. CASE chunk.handled + n < chunk.read
    <2> DEFINE h == chunk.handled + n
    <2>1. h \in Nat
      BY DEF Chunks
    <2>2. chunk' = [chunk EXCEPT !.handled = h]
      BY <1>1 DEF Handled
    <2> HIDE DEF h
    <2>3. QED
      BY <2>1, <2>2 DEF Chunks
  <1>2. CASE ~(chunk.handled + n < chunk.read)
    BY <1>2 DEF Handled, NoChunk, Chunks
  <1>3. QED
    BY <1>1, <1>2

LEMMA TakeTypes ==
    ASSUME IInv, NEW what \in {"handshake", "header"}, NEW size \in Nat,
           Take(what, size)
    PROVE  taken' \in Seq(Units)
  <1> DEFINE whole == chunk.handled + size <= chunk.read
             behind == chunk.handled > 0
             late == shut # "no"
             unit == [what |-> what, at |-> Here, late |-> late,
                      behind |-> behind, whole |-> whole]
  <1>1. Here \in Nat
    BY DEF IInv, TypeOK, Here
  <1>2. whole \in BOOLEAN /\ behind \in BOOLEAN /\ late \in BOOLEAN
    OBVIOUS
  <1>3. taken' = Append(taken, unit)
    BY DEF Take
  <1> HIDE DEF whole, behind, late
  <1>4. unit \in Units
    BY <1>1, <1>2 DEF Units
  <1>5. taken \in Seq(Units)
    BY DEF IInv, TypeOK, Units
  <1>6. QED
    BY <1>3, <1>4, <1>5

\* What the BIO takes.
LEMMA BioWriteTypes ==
    ASSUME IInv, rest > 0, BioWrite
    PROVE  /\ put' \in Nat /\ rest' \in Nat /\ put' + rest' <= delivered
           /\ used <= put' /\ put' - used <= BioSize
  BY SizesAssumption DEF IInv, TypeOK, BioWrite, Fits, Room

LEMMA InitTypes == Init => IInv
  <1> SUFFICES ASSUME Init PROVE IInv
    OBVIOUS
  <1>1. chunk \in Chunks
    BY DEF Init, NoChunk, Chunks
  <1>2. used = 2 * 0 /\ 0 \in Nat
    BY DEF Init
  <1>3. parts \in {"wait"} \cup PartStates /\ odd \subseteq Oddities
    BY SizesAssumption DEF Init, Oddities
  <1>4. wire \in Seq(Extents) /\ Len(wire) = 0 /\ taken \in Seq(Units)
    BY DEF Init
  <1>5. /\ delivered = 0 /\ rest = 0 /\ put = 0 /\ used = 0 /\ full = FALSE
        /\ BioSize \in Nat /\ tls = "hello" /\ flight = "none" /\ state \in States
        /\ shut = "no" /\ fault = "none"
    BY SizesAssumption DEF Init, States
  <1>6. /\ used <= put /\ put + rest <= delivered /\ delivered <= 2 * Len(wire)
        /\ put - used <= BioSize
    BY <1>4, <1>5
  <1>7. TypeOK
    BY <1>1, <1>3, <1>4, <1>5, <1>6 DEF TypeOK, Chunks, Extents, Units
  <1>8. QED
    BY <1>2, <1>7 DEF IInv

LEMMA RemoteTypes ==
    ASSUME IInv, RemoteFlight \/ \E n \in Lengths : RemoteData(n)
    PROVE  IInv'
  <1>1. wire \in Seq(Extents)
    BY DEF IInv, TypeOK, Extents
  <1>2. \E r \in Extents : wire' = Append(wire, r)
    <2>1. CASE RemoteFlight
      <3>1. <<0, 0>> \in Extents
        BY DEF Extents
      <3>2. QED
        BY <2>1, <3>1 DEF RemoteFlight
    <2>2. ASSUME NEW n \in Lengths, RemoteData(n)
          PROVE  \E r \in Extents : wire' = Append(wire, r)
      <3>1. n \in Nat
        BY SizesAssumption
      <3>2. Sent \in Nat
        <4>1. CASE Len(wire) <= 2
          BY <4>1 DEF Sent
        <4>2. CASE ~(Len(wire) <= 2)
          <5>1. Len(wire) \in DOMAIN wire
            BY <1>1, <4>2
          <5>2. wire[Len(wire)] \in Extents
            BY <1>1, <5>1
          <5>3. QED
            BY <4>2, <5>2 DEF Sent, Extents
        <4>3. QED
          BY <4>1, <4>2
      <3>3. <<Sent, Sent + n>> \in Extents
        BY <3>1, <3>2 DEF Extents
      <3>4. wire' = Append(wire, <<Sent, Sent + n>>)
        BY <2>2 DEF RemoteData
      <3>5. QED
        BY <3>3, <3>4
    <2>3. QED
      BY <2>1, <2>2
  <1>3. wire' \in Seq(Extents) /\ Len(wire') = Len(wire) + 1 /\ Len(wire) \in Nat
    BY <1>1, <1>2
  <1>4. odd' \subseteq Oddities
    BY DEF RemoteFlight, RemoteData, IInv, TypeOK, Oddities
  <1>5. UNCHANGED <<parts, delivered, rest, put, used, full, tls, state, chunk, taken,
                    shut, flight, fault>>
    BY DEF RemoteFlight, RemoteData, bioVars, endVars
  <1>6. delivered' <= 2 * Len(wire')
    BY <1>3, <1>5 DEF IInv, TypeOK
  <1>7. taken' \in Seq(Units) /\ chunk' \in Chunks
    BY <1>5 DEF IInv, TypeOK, Units, Chunks
  <1>8. QED
    BY <1>3, <1>4, <1>5, <1>6, <1>7 DEF IInv, TypeOK, Extents, Units, Chunks

LEMMA CallbackTypes ==
    ASSUME IInv, Callback
    PROVE  IInv'
  <1>1. CASE BioFull
    <2>1. /\ flight' \in {"none", "tls", "greeting", "alert"}
          /\ shut' \in {"no", "ended", "refused"}
          /\ fault' \in {"none", "overlap", "endless"}
      BY <1>1, ShutdownTypes DEF BioFull
    <2>2. /\ rest' = 0
          /\ UNCHANGED <<parts, wire, odd, delivered, put, used, full, tls, state, chunk,
                         taken>>
      BY <1>1 DEF BioFull, remoteVars
    <2>3. put' + rest' <= delivered'
      BY <2>2, Amounts
    <2>4. QED
      BY <2>1, <2>2, <2>3 DEF IInv, TypeOK
  <1>2. CASE DoHandshake
    <2>1. /\ put' \in Nat /\ rest' \in Nat /\ put' + rest' <= delivered
          /\ used <= put' /\ put' - used <= BioSize
      BY <1>2, BioWriteTypes DEF DoHandshake, InReadCb
    <2>2. /\ used' \in Nat /\ used' <= put' /\ put' - used' <= BioSize
          /\ \E k \in Nat : used' = 2 * k
      <3>1. CASE used' = used
        BY <2>1, <3>1 DEF IInv, TypeOK
      <3>2. CASE used' # used
        <4>1. used' = used + 2 /\ used + 2 <= put'
          BY <1>2, <3>2 DEF DoHandshake, WholeRecord
        <4>2. PICK k \in Nat : used = 2 * k
          BY DEF IInv
        <4>3. used' = 2 * (k + 1) /\ k + 1 \in Nat
          BY <4>1, <4>2
        <4>4. used' \in Nat /\ used' <= put' /\ put' - used' <= BioSize
          <5>1. used \in Nat /\ put' \in Nat /\ BioSize \in Nat
            BY <2>1, Amounts
          <5>2. put' - used <= BioSize
            BY <2>1
          <5>3. used + 2 \in Nat /\ put' - (used + 2) <= BioSize
            BY ONLY <4>1, <5>1, <5>2, TakenRecord
          <5>4. QED
            BY ONLY <4>1, <5>3
        <4>5. QED
          BY <4>3, <4>4
      <3>3. QED
        BY <3>1, <3>2
    <2>3. /\ flight' \in {"none", "tls", "greeting", "alert"}
          /\ shut' \in {"no", "ended", "refused"}
          /\ fault' \in {"none", "overlap", "endless"}
      <3>1. CASE WholeRecord(used, put') /\ tls # "refused"
        BY <1>2, <3>1, WriteTypes DEF DoHandshake
      <3>2. CASE ~(WholeRecord(used, put') /\ tls # "refused")
        BY <1>2, <3>2 DEF DoHandshake, IInv, TypeOK
      <3>3. QED
        BY <3>1, <3>2
    <2>4. tls' \in {"hello", "finish", "done", "refused"} /\ odd' \subseteq Oddities
      BY <1>2 DEF DoHandshake, IInv, TypeOK, Oddities
    <2>5. UNCHANGED <<parts, wire, delivered, full, state, chunk, taken>>
      BY <1>2 DEF DoHandshake, remoteVars
    <2>6. QED
      BY <2>1, <2>2, <2>3, <2>4, <2>5 DEF IInv, TypeOK
  <1>3. CASE Read
    <2>1. /\ put' \in Nat /\ rest' \in Nat /\ put' + rest' <= delivered
          /\ used <= put' /\ put' - used <= BioSize
      BY <1>3, BioWriteTypes DEF Read, InReadCb
    <2>2. UNCHANGED <<parts, wire, odd, delivered, full, tls, state, taken>>
      BY <1>3 DEF Read, remoteVars
    <2>3. CASE WholeRecord(used, put')
      <3> DEFINE i == (used \div 2) + 1
      <3>1. PICK k \in Nat : used = 2 * k
        BY DEF IInv
      <3>2. i = k + 1
        BY <3>1
      <3>3. used + 2 <= put' /\ put' <= delivered /\ delivered <= 2 * Len(wire)
        BY <2>1, <2>3, Amounts DEF WholeRecord
      <3>4. wire \in Seq(Extents)
        BY DEF IInv, TypeOK, Extents
      <3>5. i \in DOMAIN wire
        BY <2>1, <3>1, <3>2, <3>3, <3>4 DEF IInv, TypeOK
      <3>6. used' = used + 2 /\ chunk' = Chunk(wire[i][1], wire[i][2] - wire[i][1])
            /\ UNCHANGED endVars
        BY <1>3, <2>3 DEF Read
      <3> HIDE DEF i
      <3>7. wire[i] \in Extents
        BY <3>4, <3>5
      <3>8. wire[i][1] \in Nat /\ wire[i][2] - wire[i][1] \in Nat
        BY <3>7 DEF Extents
      <3>9. chunk' \in Chunks
        BY <3>6, <3>8 DEF Chunk, Chunks
      <3>10. used' = 2 * (k + 1) /\ k + 1 \in Nat
        BY <3>1, <3>6
      <3>11. used' \in Nat /\ used' <= put' /\ put' - used' <= BioSize
        <4>1. used' = used + 2
          BY <3>6
        <4>2. used \in Nat /\ put' \in Nat /\ BioSize \in Nat
          BY <2>1, Amounts
        <4>3. put' - used <= BioSize /\ used + 2 <= put'
          BY <2>1, <3>3
        <4>4. used + 2 \in Nat /\ put' - (used + 2) <= BioSize
          BY ONLY <4>2, <4>3, TakenRecord
        <4>5. QED
          BY ONLY <4>1, <4>3, <4>4
      <3>12. QED
        BY <2>1, <2>2, <3>6, <3>9, <3>10, <3>11 DEF IInv, TypeOK, Chunks, endVars
    <2>4. CASE ~WholeRecord(used, put')
      <3>1. UNCHANGED <<used, chunk>> /\ Shutdown("refused")
        BY <1>3, <2>4 DEF Read
      <3>2. /\ flight' \in {"none", "tls", "greeting", "alert"}
            /\ shut' \in {"no", "ended", "refused"}
            /\ fault' \in {"none", "overlap", "endless"}
        BY <3>1, ShutdownTypes
      <3>3. QED
        BY <2>1, <2>2, <3>1, <3>2 DEF IInv, TypeOK
    <2>5. QED
      BY <2>3, <2>4
  <1>4. CASE ReaderStep
    <2>1. chunk \in Chunks /\ HandshakeSize \in Nat /\ HeaderSize \in Nat
      BY SizesAssumption DEF IInv, TypeOK, Chunks
    <2>2. /\ flight' \in {"none", "tls", "greeting", "alert"}
          /\ shut' \in {"no", "ended", "refused"}
          /\ fault' \in {"none", "overlap", "endless"}
      <3>1. CASE RdStart
        BY <3>1, WriteTypes DEF RdStart
      <3>2. CASE UNCHANGED endVars
        BY <3>2 DEF endVars, IInv, TypeOK
      <3>3. CASE Shutdown("refused")
        BY <3>3, ShutdownTypes
      <3>4. CASE RdParts
        BY <3>4 DEF RdParts, IInv, TypeOK
      <3>5. QED
        BY <1>4, <3>1, <3>2, <3>3, <3>4 DEF ReaderStep, RdHandshake, RdWait, Refuse
    <2>3. chunk' \in Chunks
      <3>1. CASE chunk' = NoChunk \/ chunk' = chunk
        <4>1. NoChunk \in Chunks
          BY DEF NoChunk, Chunks
        <4>2. QED
          BY <2>1, <3>1, <4>1
      <3>2. CASE Handled(0)
        BY <2>1, <3>2, HandledTypes
      <3>3. CASE Handled(HandshakeSize)
        BY <2>1, <3>3, HandledTypes
      <3>4. CASE Handled(HeaderSize)
        BY <2>1, <3>4, HandledTypes
      <3>5. QED
        BY <1>4, <3>1, <3>2, <3>3, <3>4 DEF ReaderStep, RdStart, RdHandshake, RdWait,
                                           RdParts
    <2>4. taken' \in Seq(Units)
      <3>1. CASE taken' = taken
        BY <3>1 DEF IInv, TypeOK, Units
      <3>2. CASE Take("handshake", HandshakeSize)
        BY <2>1, <3>2, TakeTypes
      <3>3. CASE Take("header", HeaderSize)
        BY <2>1, <3>3, TakeTypes
      <3>4. QED
        BY <1>4, <3>1, <3>2, <3>3 DEF ReaderStep, RdStart, RdHandshake, RdWait, RdParts
    <2>5. state' \in States
      <3>1. parts \in {"wait"} \cup PartStates
        BY DEF IInv, TypeOK
      <3>2. QED
        BY <1>4, <3>1 DEF ReaderStep, RdStart, RdHandshake, RdWait, RdParts, Asked,
                          IInv, TypeOK, States
    <2>6. odd' \subseteq Oddities
      BY <1>4 DEF ReaderStep, RdStart, RdHandshake, RdWait, RdParts, IInv, TypeOK,
                  Oddities
    <2>7. UNCHANGED <<parts, wire, bioVars, full, tls>>
      BY <1>4 DEF ReaderStep, RdStart, RdHandshake, RdWait, RdParts, remoteVars
    <2>8. QED
      BY <2>2, <2>3, <2>4, <2>5, <2>6, <2>7 DEF IInv, TypeOK, bioVars, Chunks, Units
  <1>5. QED
    BY <1>1, <1>2, <1>3, <1>4 DEF Callback

LEMMA NextTypes == IInv /\ [Next]_vars => IInv'
  <1> SUFFICES ASSUME IInv, [Next]_vars PROVE IInv'
    OBVIOUS
  <1>1. CASE RemoteFlight \/ \E n \in Lengths : RemoteData(n)
    BY <1>1, RemoteTypes
  <1>2. ASSUME NEW n \in 1 .. ReadSize, ReadCb(n) PROVE IInv'
    <2>1. UNCHANGED <<parts, wire, put, used, tls, state, chunk, taken, endVars>>
      BY <1>2 DEF ReadCb, remoteVars
    <2>2. /\ delivered' = delivered + n /\ rest' = n /\ rest = 0 /\ n \in Nat
          /\ delivered + n <= 2 * Len(wire)
      BY <1>2, SizesAssumption DEF ReadCb, Idle
    <2>3. /\ delivered' \in Nat /\ rest' \in Nat
          /\ put + rest' <= delivered'
      BY <2>2 DEF IInv, TypeOK
    <2>4. odd' \subseteq Oddities /\ full' \in BOOLEAN
      BY <1>2 DEF ReadCb, IInv, TypeOK, Oddities
    <2>5. QED
      BY <2>1, <2>2, <2>3, <2>4 DEF IInv, TypeOK, endVars
  <1>3. CASE Eof \/ NothingRead
    <2>1. /\ flight' \in {"none", "tls", "greeting", "alert"}
          /\ shut' \in {"no", "ended", "refused"}
          /\ fault' \in {"none", "overlap", "endless"}
      BY <1>3, ShutdownTypes DEF Eof, NothingRead
    <2>2. odd' \subseteq Oddities /\ full' = FALSE
      BY <1>3 DEF Eof, NothingRead, IInv, TypeOK, Oddities
    <2>3. UNCHANGED <<parts, wire, delivered, rest, put, used, tls, state, chunk, taken>>
      BY <1>3 DEF Eof, NothingRead, remoteVars, bioVars
    <2>4. QED
      BY <2>1, <2>2, <2>3 DEF IInv, TypeOK
  <1>4. CASE WriteCb
    <2>1. chunk' \in Chunks /\ full' = FALSE
      BY <1>4 DEF WriteCb, Chunk, Chunks, IInv, TypeOK
    <2>2. QED
      BY <1>4, <2>1 DEF WriteCb, remoteVars, bioVars, IInv, TypeOK, Chunks
  <1>5. CASE Callback
    BY <1>5, CallbackTypes
  <1>6. CASE UNCHANGED vars
    <2>1. UNCHANGED <<parts, wire, odd, delivered, rest, put, used, full, tls, state,
                      chunk, taken, shut, flight, fault>>
      BY <1>6 DEF vars, remoteVars, bioVars, endVars
    <2>2. wire' \in Seq(Extents) /\ taken' \in Seq(Units) /\ chunk' \in Chunks
      BY <2>1 DEF IInv, TypeOK, Extents, Units, Chunks
    <2>3. QED
      BY <2>1, <2>2 DEF IInv, TypeOK, Extents, Units, Chunks
  <1>7. QED
    BY <1>1, <1>2, <1>3, <1>4, <1>5, <1>6 DEF Next

\* Every round of the read callback keeps the types.
THEOREM TypeInvariance == Spec => []IInv
  BY InitTypes, NextTypes, PTL DEF Spec

(* The state of the buffers, of the reader and of the network keeps its    *)
(* type, and the BIO never holds more than it can.                         *)
THEOREM TypeCorrect == Spec => []TypeOK
  <1>1. IInv => TypeOK
    BY DEF IInv
  <1>2. QED
    BY <1>1, TypeInvariance, PTL

-----------------------------------------------------------------------------
(* What is taken from any remote.                                          *)

(* A reader that waits for headers has taken a handshake first, or the     *)
(* connection is being shut down.                                          *)
Greeted ==
    /\ state \in {"start", "handshake"} => taken = <<>>
    /\ state \notin {"start", "handshake"} =>
          shut # "no" \/ (Len(taken) > 0 /\ taken[1].what = "handshake")

TakenInv == IInv /\ Greeted /\ TakenSoundly

(* Taking a unit: what it appends, and that the others stay.               *)
LEMMA Taking ==
    ASSUME IInv, NEW what \in {"handshake", "header"}, NEW size \in Nat,
           Take(what, size)
    PROVE  LET n == Len(taken) + 1
           IN  /\ n \in Nat \ {0} /\ DOMAIN taken' = 1 .. n /\ Len(taken') = n
               /\ DOMAIN taken = 1 .. n - 1
               /\ \A i \in 1 .. n - 1 : taken'[i] = taken[i]
               /\ taken'[n].what = what
               /\ taken'[n].late <=> shut # "no"
               /\ taken'[n].behind <=> chunk.handled > 0
               /\ taken'[n].whole <=> (chunk.handled + size <= chunk.read)
  <1> DEFINE unit == [what   |-> what,
                      at     |-> Here,
                      late   |-> shut # "no",
                      behind |-> chunk.handled > 0,
                      whole  |-> chunk.handled + size <= chunk.read]
  <1>1. taken' = Append(taken, unit)
    BY DEF Take
  <1>2. /\ unit.what = what /\ (unit.late <=> shut # "no")
        /\ unit.behind <=> chunk.handled > 0
        /\ unit.whole <=> (chunk.handled + size <= chunk.read)
    OBVIOUS
  <1>3. taken \in Seq(Units)
    BY DEF IInv, TypeOK, Units
  <1> HIDE DEF unit
  <1>4. /\ Len(taken) \in Nat /\ Len(taken') = Len(taken) + 1
        /\ DOMAIN taken' = 1 .. Len(taken) + 1 /\ DOMAIN taken = 1 .. Len(taken)
        /\ \A i \in 1 .. Len(taken) : taken'[i] = taken[i]
        /\ taken'[Len(taken) + 1] = unit
    BY <1>1, <1>3
  <1>5. QED
    BY <1>2, <1>4

(* The units that were there stay in order when another is taken.          *)
LEMMA TakingSoundly ==
    ASSUME IInv, TakenSoundly, NEW what \in {"handshake", "header"}, NEW size \in Nat,
           Take(what, size),
           chunk.handled + size <= chunk.read \/ chunk.handled > 0,
           \/ what = "handshake"
           \/ shut # "no"
           \/ Len(taken) > 0 /\ taken[1].what = "handshake"
    PROVE  TakenSoundly'
  <1> DEFINE n == Len(taken) + 1
  <1>1. /\ n \in Nat \ {0} /\ DOMAIN taken' = 1 .. n /\ DOMAIN taken = 1 .. n - 1
        /\ \A i \in 1 .. n - 1 : taken'[i] = taken[i]
        /\ taken'[n].what = what
        /\ taken'[n].late <=> shut # "no"
        /\ taken'[n].behind <=> chunk.handled > 0
        /\ taken'[n].whole <=> (chunk.handled + size <= chunk.read)
    BY Taking
  <1>2. Len(taken) > 0 => n > 1
    BY <1>1
  <1> SUFFICES ASSUME NEW i \in 1 .. n
               PROVE  /\ taken'[i].whole \/ taken'[i].behind
                      /\ taken'[i].what = "header" /\ taken'[1].what # "handshake"
                            => taken'[i].late
    BY <1>1 DEF TakenSoundly
  <1> HIDE DEF n
  <1>3. CASE i = n
    <2>1. taken'[n].whole \/ taken'[n].behind
      BY <1>1
    <2>2. Len(taken) > 0 => taken'[1] = taken[1]
      BY <1>1, <1>2
    <2>3. what = "header" /\ taken'[1].what # "handshake" => taken'[n].late
      BY <1>1, <2>2
    <2>4. QED
      BY <1>1, <1>3, <2>1, <2>3
  <1>4. CASE i # n
    <2>1. i \in DOMAIN taken /\ 1 \in 1 .. n - 1 /\ taken'[i] = taken[i]
          /\ taken'[1] = taken[1]
      BY <1>1, <1>4
    <2>2. QED
      BY <2>1 DEF TakenSoundly
  <1>5. QED
    BY <1>3, <1>4

LEMMA TakenStep ==
    ASSUME TakenInv, [Next]_vars
    PROVE  Greeted' /\ TakenSoundly'
  <1>1. ASSUME UNCHANGED <<state, taken>>, shut # "no" => shut' # "no"
        PROVE  Greeted' /\ TakenSoundly'
    BY <1>1 DEF TakenInv, Greeted, TakenSoundly
  <1>2. ASSUME NEW why \in {"refused", "ended"}, Shutdown(why)
        PROVE  shut' # "no"
    BY <1>2 DEF Shutdown, endVars
  <1>3. IInv /\ chunk \in Chunks /\ state \in States
        /\ HandshakeSize \in Nat \ {0} /\ HeaderSize \in Nat \ {0}
    BY SizesAssumption DEF TakenInv, IInv, TypeOK, Chunks
  <1>4. CASE RdStart
    BY <1>3, <1>4 DEF RdStart, InReader, Write, Greeted, TakenInv, TakenSoundly
  <1>5. CASE RdHandshake
    <2>1. state = "handshake" /\ state' = "wait" /\ taken = <<>> /\ Len(taken) = 0
      BY <1>3, <1>5 DEF RdHandshake, InReader, Greeted, TakenInv
    <2>2. CASE Take("handshake", HandshakeSize)
               /\ GreetingFits(chunk.read - chunk.handled)
      <3>1. chunk.handled + HandshakeSize <= chunk.read
        BY <1>3, <2>2 DEF GreetingFits, Chunks
      <3>2. TakenSoundly'
        BY <1>3, <2>2, <3>1, TakingSoundly DEF TakenInv
      <3>3. Len(taken') > 0 /\ taken'[1].what = "handshake"
        BY <1>3, <2>1, <2>2, Taking
      <3>4. QED
        BY <2>1, <3>2, <3>3 DEF Greeted
    <2>3. CASE Refuse /\ UNCHANGED taken
      <3>1. shut' # "no"
        BY <1>2, <2>3 DEF Refuse
      <3>2. QED
        BY <2>1, <2>3, <3>1 DEF Greeted, TakenInv, TakenSoundly
    <2>4. QED
      BY <1>5, <2>2, <2>3 DEF RdHandshake
  <1>6. CASE RdWait
    <2>1. /\ state = "wait"
          /\ shut # "no" \/ (Len(taken) > 0 /\ taken[1].what = "handshake")
      <3>1. state = "wait" /\ Greeted
        BY <1>6 DEF RdWait, InReader, TakenInv
      <3>2. QED
        BY <3>1 DEF Greeted
    <2>2. CASE HeaderFits(chunk)
      <3>1. Take("header", HeaderSize) /\ state' \in Asked /\ UNCHANGED endVars
        BY <1>6, <2>2 DEF RdWait
      <3>2. chunk.handled + HeaderSize <= chunk.read \/ chunk.handled > 0
        BY <1>3, <2>2 DEF HeaderFits, Chunks
      <3>3. TakenSoundly'
        BY <1>3, <2>1, <3>1, <3>2, TakingSoundly DEF TakenInv
      <3>4. state' \notin {"start", "handshake"}
        BY <3>1, <1>3 DEF Asked, PartStates, TakenInv, IInv, TypeOK
      <3>5. Len(taken) > 0 /\ taken[1].what = "handshake"
                => Len(taken') > 0 /\ taken'[1].what = "handshake"
        BY <1>3, <3>1, Taking
      <3>6. QED
        BY <2>1, <3>1, <3>3, <3>4, <3>5 DEF Greeted, endVars
    <2>3. CASE ~HeaderFits(chunk)
      BY <1>1, <1>2, <1>6, <2>3 DEF RdWait
    <2>4. QED
      BY <2>2, <2>3
  <1>7. CASE RdParts
    BY <1>1, <1>7 DEF RdParts
  <1>8. CASE BioFull \/ DoHandshake \/ Read \/ Eof \/ NothingRead
    <2>1. UNCHANGED <<state, taken>>
      BY <1>8 DEF BioFull, DoHandshake, Read, Eof, NothingRead
    <2>2. shut # "no" => shut' # "no"
      BY <1>2, <1>8 DEF BioFull, DoHandshake, Read, Eof, NothingRead, Write, endVars
    <2>3. QED
      BY <1>1, <2>1, <2>2
  <1>9. CASE RemoteFlight \/ \E n \in Lengths : RemoteData(n)
    BY <1>1, <1>9 DEF RemoteFlight, RemoteData, endVars
  <1>10. ASSUME NEW n \in 1 .. ReadSize, ReadCb(n)
         PROVE  Greeted' /\ TakenSoundly'
    BY <1>1, <1>10 DEF ReadCb, endVars
  <1>11. CASE WriteCb
    BY <1>1, <1>11 DEF WriteCb
  <1>12. CASE UNCHANGED vars
    BY <1>1, <1>12 DEF vars, endVars
  <1>13. QED
    BY <1>4, <1>5, <1>6, <1>7, <1>8, <1>9, <1>10, <1>11, <1>12 DEF Next, Callback,
                                                                 ReaderStep

(* Whatever the remote sends, a handshake and a header that begins a read  *)
(* are never taken out of bytes that did not arrive, and no header is      *)
(* taken from a remote whose handshake was not, unless the connection is   *)
(* already being shut down.                                                *)
THEOREM UnitsAreSound == Spec => []TakenSoundly
  <1>1. Init => Greeted /\ TakenSoundly
    BY DEF Init, Greeted, TakenSoundly
  <1>2. IInv /\ Greeted /\ TakenSoundly /\ [Next]_vars => Greeted' /\ TakenSoundly'
    BY TakenStep DEF TakenInv
  <1>3. QED
    BY <1>1, <1>2, TypeInvariance, PTL DEF Spec

-----------------------------------------------------------------------------
(* The exchange with a remote that does what the code expects.             *)

Unit(k) == HandshakeSize + k * HeaderSize

(* Each read brings one record, which the BIO and OpenSSL take at once.    *)
Lockstep ==
    /\ parts = "wait"
    /\ rest \in {0, 2} /\ put = used /\ delivered = put + rest
    /\ chunk.active => rest = 0

(* The connection is fine, or the remote has ended it after all was read.  *)
Served ==
    /\ fault = "none" /\ shut \in {"no", "ended"}
    /\ shut = "ended" => delivered = 2 * Len(wire) /\ rest = 0
    /\ flight = "alert" => shut = "ended"

(* The records of data follow each other and end where units end.          *)
RecordsOK ==
    \A i \in 3 .. Len(wire) :
        /\ wire[i][1] = IF i = 3 THEN 0 ELSE wire[i - 1][2]
        /\ wire[i][1] < wire[i][2] /\ Aligned(wire[i][2])

(* The stages of the two handshakes: who has sent what.                    *)
HelloStage ==
    tls = "hello" => used = 0 /\ flight = "none" /\ Len(wire) <= 1
FinishStage ==
    tls = "finish" => /\ used = 2 /\ Len(wire) <= 2
                      /\ flight = "tls" \/ flight = "none"
                      /\ Len(wire) = 2 => flight = "none"
Stages ==
    /\ tls # "refused" /\ state \in {"start", "handshake", "wait"}
    /\ HelloStage
    /\ FinishStage
    /\ tls = "done" => used >= 4
    /\ tls # "done" => state = "start" /\ ~chunk.active
    /\ tls = "done" /\ state = "start" =>
          /\ used = 4 /\ Len(wire) = 2
          /\ IF chunk.active THEN flight = "none" ELSE flight = "tls"
    /\ flight = "tls" => state = "start"
    /\ state = "handshake" /\ ~chunk.active => used = 4 \/ shut = "ended"
    /\ state = "wait" => used >= 6 \/ shut = "ended"

(* What the reader works at: nothing, when it is called behind the alert,  *)
(* or whole units.                                                         *)
Nothing == chunk.read = 0 /\ chunk.handled = 0 /\ shut = "ended"

WholeUnits ==
    LET end == chunk.from + chunk.read
    IN  /\ Aligned(end) /\ chunk.handled < chunk.read /\ used >= 6
        /\ IF state = "handshake"
           THEN chunk.handled = 0 /\ chunk.from = 0
           ELSE Aligned(Here) /\ HandshakeSize <= Here

ChunkOK ==
    chunk.active =>
        IF state = "start"
        THEN chunk.read = 0 /\ chunk.handled = 0
        ELSE Nothing \/ WholeUnits

Orderly == Lockstep /\ Served /\ RecordsOK /\ Stages /\ ChunkOK

OrderInv == IInv /\ (odd = {} => Orderly)

LEMMA Multiples ==
    ASSUME NEW j \in Nat, NEW k \in Nat, j < k
    PROVE  /\ Unit(j) \in Nat /\ HandshakeSize <= Unit(j)
           /\ Unit(j) + HeaderSize = Unit(j + 1)
           /\ Unit(j) + HeaderSize <= Unit(k)
  <1> DEFINE H == HeaderSize
             a == j * H
             d == k - j - 1
             b == d * H
  <1>1. H \in Nat /\ HandshakeSize \in Nat
    BY SizesAssumption
  <1>2. d \in Nat /\ k = (j + 1) + d
    OBVIOUS
  <1>3. a \in Nat /\ b \in Nat
    BY <1>1, <1>2
  <1>4. (j + 1) * H = a + H
    BY <1>1
  <1>5. k * H = (j + 1) * H + b
    BY <1>1, <1>2
  <1> HIDE DEF a, b
  <1>6. Unit(j) = HandshakeSize + a /\ Unit(j + 1) = HandshakeSize + (a + H)
        /\ Unit(k) = HandshakeSize + ((a + H) + b)
    BY <1>4, <1>5 DEF Unit, a, b
  <1>7. QED
    BY <1>1, <1>3, <1>6

LEMMA UnitTypes ==
    ASSUME NEW k \in Nat
    PROVE  Unit(k) \in Nat /\ HandshakeSize <= Unit(k)
  <1> DEFINE a == k * HeaderSize
  <1>1. HandshakeSize \in Nat /\ HeaderSize \in Nat
    BY SizesAssumption
  <1>2. a \in Nat
    BY <1>1
  <1> HIDE DEF a
  <1>3. Unit(k) = HandshakeSize + a
    BY DEF Unit, a
  <1>4. QED
    BY <1>1, <1>2, <1>3

LEMMA AlignedIsUnit ==
    ASSUME parts = "wait", NEW p \in Nat
    PROVE  Aligned(p) <=> p = 0 \/ \E k \in 0 .. Messages : p = Unit(k)
  <1>1. HandshakeSize \in Nat /\ HeaderSize \in Nat /\ Messages \in Nat
    BY SizesAssumption
  <1>2. Bytes = Unit(Messages)
    <2> DEFINE a == Messages * HeaderSize
    <2>1. a \in Nat
      BY <1>1
    <2>2. Bytes = HandshakeSize + a + 0 /\ Unit(Messages) = HandshakeSize + a
      BY DEF Bytes, Unit
    <2> HIDE DEF a
    <2>3. QED
      BY <1>1, <2>1, <2>2
  <1>3. Aligned(p) <=> \/ p = 0 \/ p = Bytes
                       \/ \E k \in 0 .. Messages : p = Unit(k)
    BY DEF Aligned, Unit
  <1>4. Messages \in 0 .. Messages
    BY <1>1
  <1>5. QED
    BY <1>2, <1>3, <1>4

LEMMA AlignedStart ==
    ASSUME parts = "wait", NEW p \in Nat, Aligned(p), 0 < p
    PROVE  HandshakeSize <= p
  <1>1. PICK k \in 0 .. Messages : p = Unit(k)
    BY AlignedIsUnit
  <1>2. k \in Nat
    BY SizesAssumption
  <1>3. QED
    BY <1>1, <1>2, UnitTypes

LEMMA AlignedFirst == Aligned(HandshakeSize)
  <1>1. HandshakeSize = HandshakeSize + 0 * HeaderSize /\ 0 \in 0 .. Messages
    BY SizesAssumption
  <1>2. QED
    BY <1>1 DEF Aligned

(* Between two places where units end there is room for a header.          *)
LEMMA AlignedStep ==
    ASSUME parts = "wait", NEW p \in Nat, NEW q \in Nat, Aligned(p), Aligned(q),
           HandshakeSize <= p, p < q
    PROVE  Aligned(p + HeaderSize) /\ p + HeaderSize <= q
  <1>1. HandshakeSize \in Nat \ {0} /\ HeaderSize \in Nat /\ Messages \in Nat
    BY SizesAssumption
  <1>2. PICK j \in 0 .. Messages : p = Unit(j)
    BY <1>1, AlignedIsUnit
  <1>3. PICK k \in 0 .. Messages : q = Unit(k)
    BY <1>1, AlignedIsUnit
  <1>4. j \in Nat /\ k \in Nat /\ j <= Messages /\ k <= Messages
    BY <1>1, <1>2, <1>3
  <1>5. j < k
    <2>1. CASE k < j
      <3>1. Unit(k) + HeaderSize <= Unit(j) /\ Unit(k) \in Nat
        BY <1>4, <2>1, Multiples
      <3>2. QED
        BY <1>1, <1>2, <1>3, <3>1
    <2>2. CASE k = j
      BY <1>2, <1>3, <2>2
    <2>3. QED
      BY <1>4, <2>1, <2>2
  <1>6. p + HeaderSize = Unit(j + 1) /\ p + HeaderSize <= q
    BY <1>2, <1>3, <1>4, <1>5, Multiples
  <1>7. j + 1 \in 0 .. Messages
    BY <1>1, <1>4, <1>5
  <1>8. p + HeaderSize \in Nat
    BY <1>1
  <1>9. QED
    BY <1>6, <1>7, <1>8, AlignedIsUnit

(* The parts of the invariant that speak of the records stay when nothing  *)
(* but the rest changes.                                                   *)
LEMMA SameRecords ==
    ASSUME RecordsOK, UNCHANGED <<parts, wire>>
    PROVE  RecordsOK'
  BY DEF RecordsOK, Aligned, Bytes

(* The network and the remote.                                             *)

LEMMA RemoteFlightOrderly ==
    ASSUME IInv, Orderly, odd = {}, RemoteFlight
    PROVE  Orderly'
  <1>1. /\ rest = 0 /\ fault = "none" /\ ~chunk.active /\ shut # "ended"
        /\ wire' = Append(wire, <<0, 0>>)
        /\ wire = <<>> \/ (Len(wire) = 1 /\ tls = "finish" /\ flight = "none")
        /\ UNCHANGED <<parts, odd, delivered, rest, put, used, tls, state, chunk, taken,
                       shut, flight, fault>>
    BY DEF RemoteFlight, Idle, Running, Open, bioVars, endVars
  <1>2. Len(wire) \in {0, 1} /\ Len(wire') = Len(wire) + 1
    BY <1>1 DEF IInv, TypeOK
  <1>3. wire = <<>> => Len(wire) = 0
    OBVIOUS
  <1>4. tls = "hello" \/ tls = "finish"
    <2>1. used <= 2
      <3>1. ASSUME NEW l \in {0, 1}, NEW u \in Nat, u <= 2 * l
            PROVE  u <= 2
        BY <3>1
      <3>2. used \in Nat /\ used <= 2 * Len(wire)
        BY Amounts
      <3>3. QED
        BY <1>2, <3>1, <3>2
    <2>2. QED
      BY <2>1, Amounts DEF Orderly, Stages, IInv, TypeOK
  <1>5. tls = "finish" => Len(wire) = 1 /\ flight = "none"
    <2>1. Len(wire) = 0 => used = 0
      BY Amounts
    <2>2. QED
      BY <1>1, <1>2, <1>3, <2>1 DEF Orderly, Stages, FinishStage
  <1>6. tls = "hello" => Len(wire) = 0
    BY <1>1, <1>3
  <1>7. Stages'
    BY <1>1, <1>2, <1>4, <1>5, <1>6 DEF Orderly, Stages, HelloStage, FinishStage
  <1>8. RecordsOK'
    <2>1. ASSUME NEW l \in {0, 1}
          PROVE  3 .. l + 1 = {}
      BY <2>1
    <2>2. 3 .. Len(wire') = {}
      BY <1>2, <2>1
    <2>3. QED
      BY <2>2 DEF RecordsOK
  <1>9. Lockstep' /\ Served'
    BY <1>1 DEF Orderly, Lockstep, Served
  <1>10. ChunkOK'
    BY <1>1 DEF ChunkOK
  <1>11. QED
    BY <1>7, <1>8, <1>9, <1>10 DEF Orderly

LEMMA RemoteDataOrderly ==
    ASSUME IInv, Orderly, odd' = {}, NEW n \in Lengths, RemoteData(n)
    PROVE  Orderly'
  <1>1. /\ rest = 0 /\ fault = "none" /\ ~chunk.active /\ Open
        /\ Len(wire) \in 2 .. Records + 1
        /\ wire' = Append(wire, <<Sent, Sent + n>>)
        /\ UNCHANGED <<parts, delivered, rest, put, used, tls, state, chunk, taken,
                       shut, flight, fault>>
    BY DEF RemoteData, Idle, Running, bioVars, endVars
  <1>2. Aligned(Sent + n) /\ tls = "done" /\ flight # "tls" /\ odd = {}
    BY DEF RemoteData
  <1>3. shut # "ended"
    BY <1>1, <1>2 DEF Open
  <1>4. n \in Nat /\ n > 0
    BY SizesAssumption
  <1>5. wire \in Seq(Extents) /\ Len(wire) \in Nat
    BY DEF IInv, TypeOK, Extents
  <1>6. Sent \in Nat
    <2>1. CASE Len(wire) <= 2
      BY <2>1 DEF Sent
    <2>2. CASE ~(Len(wire) <= 2)
      <3>1. Len(wire) \in DOMAIN wire
        BY <1>5, <2>2
      <3>2. wire[Len(wire)] \in Extents
        BY <1>5, <3>1
      <3>3. QED
        BY <2>2, <3>2 DEF Sent, Extents
    <2>3. QED
      BY <2>1, <2>2
  <1> DEFINE r == <<Sent, Sent + n>>
             l == Len(wire) + 1
  <1>7. r[1] = Sent /\ r[2] = Sent + n /\ r[1] < r[2]
    BY <1>4, <1>6
  <1>8. /\ Len(wire') = l /\ wire'[l] = r /\ l >= 3 /\ l \in Nat
        /\ \A i \in 1 .. l - 1 : wire'[i] = wire[i]
    <2>1. wire' = Append(wire, r)
      BY <1>1
    <2>2. r \in Extents
      BY <1>4, <1>6 DEF Extents
    <2>3. Len(wire) >= 2
      BY <1>1, <1>5
    <2> HIDE DEF r
    <2>4. QED
      BY <1>5, <2>1, <2>2, <2>3
  <1>9. RecordsOK'
    <2> SUFFICES ASSUME NEW i \in 3 .. l
                 PROVE  /\ wire'[i][1] = IF i = 3 THEN 0 ELSE wire'[i - 1][2]
                        /\ wire'[i][1] < wire'[i][2]
                        /\ Aligned(wire'[i][2])
      BY <1>1, <1>8 DEF RecordsOK, Aligned, Bytes
    <2>1. CASE i = l
      <3>1. Sent = IF l = 3 THEN 0 ELSE wire[l - 1][2]
        BY <1>1, <1>5 DEF Sent
      <3>2. l # 3 => wire'[l - 1] = wire[l - 1]
        BY <1>5, <1>8
      <3>3. wire'[l] = r
        BY <1>8
      <3> HIDE DEF l
      <3>4. QED
        BY <1>2, <1>7, <2>1, <3>1, <3>2, <3>3
    <2>2. CASE i # l
      <3>1. i \in 3 .. Len(wire) /\ wire'[i] = wire[i]
            /\ (i # 3 => wire'[i - 1] = wire[i - 1])
        BY <1>5, <1>8, <2>2
      <3>2. QED
        BY <3>1 DEF Orderly, RecordsOK
    <2>3. QED
      BY <2>1, <2>2
  <1>10. state # "start"
    BY <1>1, <1>2 DEF Orderly, Stages
  <1>11. Stages'
    BY <1>1, <1>2, <1>10 DEF Orderly, Stages, HelloStage, FinishStage
  <1>12. Lockstep' /\ Served'
    BY <1>1, <1>3 DEF Orderly, Lockstep, Served
  <1>13. ChunkOK'
    BY <1>1 DEF ChunkOK
  <1>14. QED
    BY <1>9, <1>11, <1>12, <1>13 DEF Orderly

LEMMA ReadCbOrderly ==
    ASSUME IInv, Orderly, odd' = {}, NEW n \in 1 .. ReadSize, ReadCb(n)
    PROVE  Orderly'
  <1>1. /\ rest = 0 /\ fault = "none" /\ ~chunk.active
        /\ delivered + n <= 2 * Len(wire)
        /\ delivered' = delivered + n /\ rest' = n
        /\ UNCHANGED <<parts, wire, put, used, tls, state, chunk, taken, shut, flight,
                       fault>>
    BY DEF ReadCb, Idle, Running, remoteVars, endVars
  <1>2. n = 2
    <2>1. n % 2 = 0 /\ n <= 2
      BY DEF ReadCb
    <2>2. n \in {1, 2}
      BY <2>1, SizesAssumption
    <2>3. QED
      BY <2>1, <2>2
  <1>3. shut # "ended"
    BY <1>1, <1>2, Amounts DEF Orderly, Served
  <1>4. Lockstep'
    BY <1>1, <1>2, Amounts DEF Orderly, Lockstep
  <1>5. Served'
    BY <1>1, <1>3 DEF Orderly, Served
  <1>6. RecordsOK'
    BY <1>1, SameRecords DEF Orderly
  <1>7. Stages'
    BY <1>1 DEF Orderly, Stages, HelloStage, FinishStage
  <1>8. ChunkOK'
    BY <1>1 DEF ChunkOK
  <1>9. QED
    BY <1>4, <1>5, <1>6, <1>7, <1>8 DEF Orderly

LEMMA EofOrderly ==
    ASSUME IInv, Orderly, odd' = {}, Eof
    PROVE  Orderly'
  <1>1. /\ rest = 0 /\ fault = "none" /\ ~chunk.active /\ shut = "no"
        /\ flight = "none" /\ delivered = 2 * Len(wire)
        /\ UNCHANGED <<parts, wire, delivered, rest, put, used, tls, state, chunk, taken>>
    BY DEF Eof, Idle, Running, remoteVars, bioVars
  <1>2. /\ shut' = "ended" /\ fault' = "none"
        /\ IF tls = "done" THEN flight' = "alert" ELSE flight' = "none"
    BY <1>1 DEF Eof, Shutdown
  <1>3. tls = "done" => state # "start"
    BY <1>1 DEF Orderly, Stages
  <1>4. Lockstep' /\ Served'
    BY <1>1, <1>2 DEF Orderly, Lockstep, Served
  <1>5. Stages'
    BY <1>1, <1>2, <1>3 DEF Orderly, Stages, HelloStage, FinishStage
  <1>6. ChunkOK'
    BY <1>1 DEF ChunkOK
  <1>7. QED
    BY <1>1, <1>4, <1>5, <1>6, SameRecords DEF Orderly

LEMMA WriteCbOrderly ==
    ASSUME IInv, Orderly, WriteCb
    PROVE  Orderly'
  <1>1. /\ rest = 0 /\ fault = "none" /\ ~chunk.active
        /\ flight # "none" /\ flight' = "none"
        /\ UNCHANGED <<parts, wire, delivered, rest, put, used, tls, state, taken, shut,
                       fault>>
    BY DEF WriteCb, Idle, Running, remoteVars, bioVars
  <1>2. Lockstep' /\ Served'
    BY <1>1 DEF Orderly, Lockstep, Served
  <1>3. CASE flight # "greeting" /\ tls = "done"
    <2>1. chunk' = [from |-> 0, read |-> 0, handled |-> 0, active |-> TRUE]
      BY <1>3 DEF WriteCb, Chunk
    <2>2. chunk'.active /\ chunk'.read = 0 /\ chunk'.handled = 0
      BY <2>1
    <2>3. flight = "tls" \/ (flight = "alert" /\ shut = "ended")
      BY <1>1, <1>3 DEF IInv, TypeOK, Orderly, Served
    <2>4. state = "start" \/ shut = "ended"
      BY <1>1, <1>3, <2>3 DEF Orderly, Stages
    <2>5. ChunkOK'
      BY <1>1, <2>2, <2>4 DEF ChunkOK, Nothing
    <2>6. Stages'
      BY <1>1, <1>3, <2>2 DEF Orderly, Stages, HelloStage, FinishStage
    <2>7. QED
      BY <1>1, <1>2, <2>5, <2>6, SameRecords DEF Orderly
  <1>4. CASE ~(flight # "greeting" /\ tls = "done")
    <2>1. chunk' = chunk
      BY <1>4 DEF WriteCb
    <2>2. flight = "greeting" => state # "start"
      BY <1>1 DEF Orderly, Stages, HelloStage, FinishStage, IInv, TypeOK
    <2>3. Stages'
      BY <1>1, <1>4, <2>1, <2>2 DEF Orderly, Stages, HelloStage, FinishStage
    <2>4. ChunkOK'
      BY <1>1, <2>1 DEF ChunkOK
    <2>5. QED
      BY <1>1, <1>2, <2>3, <2>4, SameRecords DEF Orderly
  <1>5. QED
    BY <1>3, <1>4

(* The read callback.                                                      *)

\* A record fits the BIO, which is empty.
LEMMA RecordFits ==
    ASSUME IInv, Orderly, InReadCb
    PROVE  /\ rest = 2 /\ Fits = 2 /\ delivered = used + 2 /\ used + 2 <= 2 * Len(wire)
           /\ shut = "no" /\ ~chunk.active
  <1>1. rest = 2 /\ put = used /\ delivered = put + rest /\ ~chunk.active
    BY DEF Orderly, Lockstep, InReadCb
  <1>2. shut = "no"
    BY <1>1 DEF Orderly, Served
  <1>3. Fits = 2
    BY <1>1, Amounts, SizesAssumption DEF Fits, Room
  <1>4. delivered = used + 2 /\ used + 2 <= 2 * Len(wire)
    BY <1>1, Amounts
  <1>5. QED
    BY <1>1, <1>2, <1>3, <1>4

\* What a round of the read callback does to the buffers.
LEMMA RecordTaken ==
    ASSUME IInv, Orderly, InReadCb, BioWrite
    PROVE  /\ put' = used + 2 /\ rest' = 0 /\ WholeRecord(used, put')
  <1>1. rest = 2 /\ Fits = 2
    BY RecordFits
  <1>2. put = used /\ used \in Nat
    BY Amounts DEF Orderly, Lockstep
  <1>3. put' = used + 2 /\ rest' = 0
    BY <1>1, <1>2 DEF BioWrite
  <1>4. QED
    BY <1>2, <1>3 DEF WholeRecord

LEMMA DoHandshakeOrderly ==
    ASSUME IInv, Orderly, odd' = {}, DoHandshake
    PROVE  Orderly'
  <1>1. InReadCb /\ tls # "done" /\ fault = "none"
        /\ UNCHANGED <<parts, wire, delivered, state, chunk, taken>>
    BY DEF DoHandshake, InReadCb, Running, remoteVars
  <1>2. /\ delivered = used + 2 /\ used + 2 <= 2 * Len(wire)
        /\ shut = "no" /\ ~chunk.active
    BY <1>1, RecordFits
  <1>3. put' = used + 2 /\ rest' = 0 /\ WholeRecord(used, put')
    BY <1>1, RecordTaken DEF DoHandshake
  <1>4. tls \in {"hello", "finish"} /\ tls # "refused" /\ state = "start"
    BY <1>1 DEF Orderly, Stages, IInv, TypeOK
  <1>5. used' = used + 2 /\ Write("tls") /\ (odd' = odd \cup {"refused"}
            \/ tls' = IF tls = "hello" THEN "finish" ELSE "done")
    BY <1>3, <1>4 DEF DoHandshake
  <1>6. tls' = IF tls = "hello" THEN "finish" ELSE "done"
    BY <1>5
  <1>7. CASE tls = "hello"
    <2>1. used = 0 /\ flight = "none" /\ Len(wire) <= 1
      BY <1>7 DEF Orderly, Stages, HelloStage
    <2>2. flight' = "tls" /\ fault' = "none" /\ shut' = "no"
      BY <1>1, <1>2, <1>5, <2>1 DEF Write
    <2>3. Len(wire) = 1
      <3>1. ASSUME NEW l \in Nat, 0 + 2 <= 2 * l, l <= 1
            PROVE  l = 1
        BY <3>1
      <3>2. Len(wire) \in Nat /\ 0 + 2 <= 2 * Len(wire)
        BY <1>2, <2>1, Amounts
      <3>3. QED
        BY <2>1, <3>1, <3>2
    <2>4. tls' = "finish" /\ used' = 2 /\ Len(wire') = 1
      BY <1>1, <1>5, <1>6, <1>7, <2>1, <2>3
    <2>5. Stages'
      BY <1>1, <1>2, <1>4, <2>2, <2>4 DEF Stages, HelloStage, FinishStage
    <2>6. Lockstep' /\ Served'
      BY <1>1, <1>2, <1>3, <1>5, <2>2, Amounts DEF Orderly, Lockstep, Served
    <2>7. ChunkOK'
      BY <1>1, <1>2 DEF ChunkOK
    <2>8. QED
      BY <1>1, <2>5, <2>6, <2>7, SameRecords DEF Orderly
  <1>8. CASE tls = "finish"
    <2>1. used = 2 /\ Len(wire) <= 2 /\ (Len(wire) = 2 => flight = "none")
      BY <1>8 DEF Orderly, Stages, FinishStage
    <2>2. Len(wire) = 2
      <3>1. ASSUME NEW l \in Nat, 2 + 2 <= 2 * l, l <= 2
            PROVE  l = 2
        BY <3>1
      <3>2. Len(wire) \in Nat /\ 2 + 2 <= 2 * Len(wire)
        BY <1>2, <2>1, Amounts
      <3>3. QED
        BY <2>1, <3>1, <3>2
    <2>3. flight' = "tls" /\ fault' = "none" /\ shut' = "no"
      BY <1>1, <1>2, <1>5, <2>1, <2>2 DEF Write
    <2>4. tls' = "done" /\ used' = 4 /\ Len(wire') = 2
      BY <1>1, <1>5, <1>6, <1>8, <2>1, <2>2
    <2>5. Stages'
      BY <1>1, <1>2, <1>4, <2>3, <2>4 DEF Stages, HelloStage, FinishStage
    <2>6. Lockstep' /\ Served'
      BY <1>1, <1>2, <1>3, <1>5, <2>3, Amounts DEF Orderly, Lockstep, Served
    <2>7. ChunkOK'
      BY <1>1, <1>2 DEF ChunkOK
    <2>8. QED
      BY <1>1, <2>5, <2>6, <2>7, SameRecords DEF Orderly
  <1>9. QED
    BY <1>4, <1>7, <1>8

\* The record that is read: it begins where the one before ended.
LEMMA RecordRead ==
    ASSUME IInv, Orderly, InReadCb, NEW k \in Nat, used = 2 * k, k >= 2
    PROVE  LET r == wire[k + 1]
           IN  /\ r[1] \in Nat /\ r[2] \in Nat /\ r[1] < r[2] /\ Aligned(r[2])
               /\ k = 2 => r[1] = 0
               /\ k > 2 => Aligned(r[1]) /\ HandshakeSize <= r[1]
  <1>1. wire \in Seq(Extents) /\ Len(wire) \in Nat
    BY DEF IInv, TypeOK, Extents
  <1>2. k + 1 <= Len(wire) /\ k + 1 \in 3 .. Len(wire)
    BY <1>1, RecordFits
  <1>3. wire[k + 1] \in Extents
    BY <1>1, <1>2
  <1>4. /\ wire[k + 1][1] = IF k + 1 = 3 THEN 0 ELSE wire[k + 1 - 1][2]
        /\ wire[k + 1][1] < wire[k + 1][2] /\ Aligned(wire[k + 1][2])
    BY <1>2 DEF Orderly, RecordsOK
  <1>5. k > 2 => Aligned(wire[k + 1][1]) /\ HandshakeSize <= wire[k + 1][1]
    <2> SUFFICES ASSUME k > 2 PROVE Aligned(wire[k + 1][1]) /\ HandshakeSize <= wire[k + 1][1]
      OBVIOUS
    <2>1. k \in 3 .. Len(wire) /\ k \in DOMAIN wire
      BY <1>1, <1>2
    <2>2. wire[k] \in Extents
      BY <1>1, <2>1
    <2>3. wire[k][1] < wire[k][2] /\ Aligned(wire[k][2])
      BY <2>1 DEF Orderly, RecordsOK
    <2>4. wire[k][1] \in Nat /\ wire[k][2] \in Nat
      BY <2>2 DEF Extents
    <2>5. HandshakeSize <= wire[k][2]
      <3>1. 0 < wire[k][2]
        BY <2>3, <2>4
      <3>2. QED
        BY <2>3, <2>4, <3>1, AlignedStart DEF Orderly, Lockstep
    <2>6. wire[k + 1][1] = wire[k][2]
      <3>1. k + 1 # 3 /\ k + 1 - 1 = k
        OBVIOUS
      <3>2. QED
        BY <1>4, <3>1
    <2>7. QED
      BY <2>3, <2>5, <2>6
  <1>6. k = 2 => wire[k + 1][1] = 0
    BY <1>4
  <1>7. wire[k + 1][1] \in Nat /\ wire[k + 1][2] \in Nat
    BY <1>3 DEF Extents
  <1>8. QED
    BY <1>4, <1>5, <1>6, <1>7

LEMMA ReadOrderly ==
    ASSUME IInv, Orderly, Read
    PROVE  Orderly'
  <1>1. InReadCb /\ tls = "done" /\ fault = "none"
        /\ UNCHANGED <<parts, wire, odd, delivered, tls, state, taken>>
    BY DEF Read, InReadCb, Running, remoteVars
  <1>2. /\ delivered = used + 2 /\ used + 2 <= 2 * Len(wire)
        /\ shut = "no" /\ ~chunk.active
    BY <1>1, RecordFits
  <1>3. put' = used + 2 /\ rest' = 0 /\ WholeRecord(used, put')
    BY <1>1, RecordTaken DEF Read
  <1>4. PICK k \in Nat : used = 2 * k
    BY DEF IInv
  <1>5. used >= 4 /\ k >= 2 /\ (used \div 2) + 1 = k + 1
    BY <1>1, <1>4 DEF Orderly, Stages
  <1> DEFINE r == wire[k + 1]
  <1>6. used' = used + 2 /\ chunk' = Chunk(r[1], r[2] - r[1]) /\ UNCHANGED endVars
    BY <1>3, <1>5 DEF Read
  <1>7. /\ r[1] \in Nat /\ r[2] \in Nat /\ r[1] < r[2] /\ Aligned(r[2])
        /\ k = 2 => r[1] = 0
        /\ k > 2 => Aligned(r[1]) /\ HandshakeSize <= r[1]
    BY <1>1, <1>4, <1>5, RecordRead
  <1> HIDE DEF r
  <1>8. /\ chunk'.active /\ chunk'.from = r[1] /\ chunk'.read = r[2] - r[1]
        /\ chunk'.handled = 0
    BY <1>6 DEF Chunk
  <1>9. state # "start" /\ state \in {"handshake", "wait"}
    <2>1. state = "start" => Len(wire) = 2 /\ used = 4
      BY <1>1 DEF Orderly, Stages
    <2>2. ~(Len(wire) = 2 /\ used = 4)
      <3>1. ~(4 + 2 <= 2 * 2)
        OBVIOUS
      <3>2. QED
        BY <1>2, <3>1
    <2>3. QED
      BY <2>1, <2>2 DEF Orderly, Stages
  <1>10. /\ state = "handshake" => k = 2
         /\ state = "wait" => k > 2
    <2>1. /\ state = "handshake" => used = 4
          /\ state = "wait" => used >= 6
      BY <1>2 DEF Orderly, Stages
    <2>2. QED
      BY <1>4, <2>1
  <1>11. used' >= 6 /\ used' = used + 2 /\ used \in Nat
    BY <1>5, <1>6, Amounts
  <1>12. ChunkOK'
    <2>1. chunk'.from + chunk'.read = r[2] /\ 0 < chunk'.read
      BY <1>7, <1>8
    <2>2. Aligned(r[2])' <=> Aligned(r[2])
      BY <1>1 DEF Aligned, Bytes, r
    <2>3. Here' = r[1]
      BY <1>7, <1>8 DEF Here
    <2>4. (Aligned(Here))' <=> Aligned(r[1])
      BY <1>1, <2>3 DEF Aligned, Bytes
    <2>5. (Aligned(chunk.from + chunk.read))' <=> Aligned(r[2])
      BY <1>1, <2>1 DEF Aligned, Bytes
    <2>6. state = "handshake" => WholeUnits'
      BY <1>1, <1>7, <1>8, <1>10, <1>11, <2>1, <2>5 DEF WholeUnits
    <2>7. state = "wait" => WholeUnits'
      BY <1>1, <1>7, <1>8, <1>10, <1>11, <2>1, <2>3, <2>4, <2>5 DEF WholeUnits
    <2>8. QED
      BY <1>1, <1>9, <2>6, <2>7 DEF ChunkOK
  <1>13. UNCHANGED <<shut, flight, fault>>
    BY <1>6 DEF endVars
  <1>14. Lockstep' /\ Served'
    BY <1>1, <1>2, <1>3, <1>11, <1>13, Amounts DEF Orderly, Lockstep, Served
  <1>15. Stages'
    BY <1>1, <1>8, <1>9, <1>11, <1>13 DEF Orderly, Stages, HelloStage, FinishStage
  <1>16. QED
    BY <1>1, <1>12, <1>14, <1>15, SameRecords DEF Orderly

(* The reader.                                                             *)

LEMMA RdStartOrderly ==
    ASSUME IInv, Orderly, RdStart
    PROVE  Orderly'
  <1>1. /\ chunk.active /\ state = "start" /\ fault = "none" /\ state' = "handshake"
        /\ Write("greeting") /\ Handled(0)
        /\ UNCHANGED <<parts, wire, odd, delivered, rest, put, used, tls, taken>>
    BY DEF RdStart, InReader, Running, remoteVars, bioVars
  <1>2. tls = "done" /\ flight = "none" /\ used = 4
    BY <1>1 DEF Orderly, Stages, IInv, TypeOK
  <1>3. flight' = "greeting" /\ fault' = "none" /\ shut' = shut
    BY <1>1, <1>2 DEF Write
  <1>4. chunk.read = 0 /\ chunk.handled = 0
    BY <1>1 DEF Orderly, ChunkOK
  <1>5. ~chunk'.active
    BY <1>1, <1>4 DEF Handled, NoChunk
  <1>6. Lockstep' /\ Served'
    BY <1>1, <1>3, <1>5 DEF Orderly, Lockstep, Served
  <1>7. Stages'
    BY <1>1, <1>2, <1>3, <1>5 DEF Orderly, Stages, HelloStage, FinishStage
  <1>8. ChunkOK'
    BY <1>5 DEF ChunkOK
  <1>9. QED
    BY <1>1, <1>6, <1>7, <1>8, SameRecords DEF Orderly

\* What the condition of the loop makes of a unit that was handled.
LEMMA HandledOrderly ==
    ASSUME IInv, Orderly, chunk.active, NEW n \in Nat, Handled(n),
           UNCHANGED <<parts, wire, used>>, state' = "wait", used >= 6,
           LET here == chunk.from + chunk.handled + n
               end  == chunk.from + chunk.read
           IN  chunk.handled + n < chunk.read =>
                   Aligned(here) /\ HandshakeSize <= here /\ Aligned(end)
    PROVE  ChunkOK'
  <1>1. CASE chunk.handled + n < chunk.read
    <2> DEFINE h == chunk.handled + n
    <2>1. chunk \in Chunks
      BY DEF IInv, TypeOK, Chunks
    <2>2. chunk' = [chunk EXCEPT !.handled = h]
      BY <1>1 DEF Handled
    <2>3. /\ chunk'.from = chunk.from /\ chunk'.read = chunk.read
          /\ chunk'.handled = h
      BY <2>1, <2>2 DEF Chunks
    <2>4. chunk.from + h = chunk.from + chunk.handled + n
      BY <2>1 DEF Chunks
    <2>5. Here' = chunk.from + chunk.handled + n
      BY <2>3, <2>4 DEF Here
    <2>6. /\ Aligned(chunk.from + chunk.handled + n)
          /\ HandshakeSize <= chunk.from + chunk.handled + n
          /\ Aligned(chunk.from + chunk.read)
      BY <1>1
    <2>7. (Aligned(Here))' /\ HandshakeSize <= Here'
          /\ (Aligned(chunk.from + chunk.read))'
      BY <2>3, <2>5, <2>6 DEF Aligned, Bytes
    <2>8. chunk'.handled < chunk'.read
      BY <1>1, <2>3
    <2>9. WholeUnits'
      BY <2>7, <2>8 DEF WholeUnits
    <2>10. QED
      BY <2>9 DEF ChunkOK
  <1>2. CASE ~(chunk.handled + n < chunk.read)
    BY <1>2 DEF Handled, NoChunk, ChunkOK
  <1>3. QED
    BY <1>1, <1>2

\* A step of the reader that ends in the state wait and starts no write.
LEMMA WaitOrderly ==
    ASSUME IInv, Orderly, state \in {"handshake", "wait"}, state' = "wait",
           chunk.active, ChunkOK', used >= 6 \/ shut = "ended",
           UNCHANGED <<parts, wire, delivered, rest, put, used, tls, shut, flight, fault>>
    PROVE  Orderly'
  <1>1. Lockstep' /\ Served'
    BY DEF Orderly, Lockstep, Served
  <1>2. tls = "done" /\ flight # "tls"
    BY DEF Orderly, Stages
  <1>3. Stages'
    BY <1>2 DEF Orderly, Stages, HelloStage, FinishStage
  <1>4. QED
    BY <1>1, <1>3, SameRecords DEF Orderly

LEMMA RdHandshakeOrderly ==
    ASSUME IInv, Orderly, odd' = {}, RdHandshake
    PROVE  Orderly'
  <1>1. /\ chunk.active /\ state = "handshake" /\ state' = "wait"
        /\ Handled(HandshakeSize)
        /\ UNCHANGED <<parts, wire, delivered, rest, put, used, tls>>
    BY DEF RdHandshake, InReader, remoteVars, bioVars
  <1>2. HandshakeSize \in Nat \ {0} /\ chunk \in Chunks
    BY SizesAssumption DEF IInv, TypeOK, Chunks
  <1>3. CASE Nothing
    <2>1. shut = "ended" /\ chunk.read = 0 /\ chunk.handled = 0
      BY <1>3 DEF Nothing
    <2>2. ~GreetingFits(chunk.read - chunk.handled)
      BY <1>2, <2>1 DEF GreetingFits
    <2>3. UNCHANGED <<shut, flight, fault>>
      BY <2>1, <2>2 DEF RdHandshake, Refuse, Shutdown, endVars
    <2>4. ~chunk'.active
      BY <1>1, <1>2, <2>1 DEF Handled, NoChunk
    <2>5. ChunkOK'
      BY <2>4 DEF ChunkOK
    <2>6. QED
      BY <1>1, <2>1, <2>3, <2>5, WaitOrderly
  <1>4. CASE WholeUnits
    <2>1. /\ chunk.handled = 0 /\ chunk.from = 0 /\ 0 < chunk.read /\ used >= 6
          /\ Aligned(chunk.from + chunk.read)
      BY <1>1, <1>4 DEF WholeUnits
    <2>2. chunk.read \in Nat /\ chunk.from + chunk.read = chunk.read
      BY <1>2, <2>1 DEF Chunks
    <2>3. HandshakeSize <= chunk.read
      BY <2>1, <2>2, AlignedStart DEF Orderly, Lockstep
    <2>4. GreetingFits(chunk.read - chunk.handled)
      BY <1>2, <2>1, <2>2, <2>3 DEF GreetingFits
    <2>5. UNCHANGED endVars
      BY <2>4 DEF RdHandshake
    <2>6. chunk.from + chunk.handled + HandshakeSize = HandshakeSize
      BY <1>2, <2>1
    <2>7. ChunkOK'
      BY <1>1, <1>2, <2>1, <2>6, AlignedFirst, HandledOrderly
    <2>8. QED
      BY <1>1, <2>1, <2>5, <2>7, WaitOrderly DEF endVars
  <1>5. QED
    BY <1>1, <1>3, <1>4 DEF Orderly, ChunkOK

LEMMA RdWaitOrderly ==
    ASSUME IInv, Orderly, RdWait
    PROVE  Orderly'
  <1>1. /\ chunk.active /\ state = "wait"
        /\ UNCHANGED <<parts, wire, delivered, rest, put, used, tls>>
    BY DEF RdWait, InReader, remoteVars, bioVars
  <1>2. HeaderSize \in Nat \ {0} /\ HandshakeSize \in Nat /\ chunk \in Chunks
    BY SizesAssumption DEF IInv, TypeOK, Chunks
  <1>3. CASE Nothing
    <2>1. shut = "ended" /\ chunk.read = 0 /\ chunk.handled = 0
      BY <1>3 DEF Nothing
    <2>2. ~HeaderFits(chunk)
      BY <1>2, <2>1 DEF HeaderFits
    <2>3. UNCHANGED <<shut, flight, fault>> /\ chunk' = NoChunk /\ state' = state
      BY <2>1, <2>2 DEF RdWait, Shutdown, endVars
    <2>4. ChunkOK'
      BY <2>3 DEF ChunkOK, NoChunk
    <2>5. QED
      BY <1>1, <2>1, <2>3, <2>4, WaitOrderly
  <1>4. CASE WholeUnits
    <2> DEFINE end == chunk.from + chunk.read
    <2>1. /\ chunk.handled < chunk.read /\ used >= 6 /\ Aligned(end)
          /\ Aligned(Here) /\ HandshakeSize <= Here
      BY <1>1, <1>4 DEF WholeUnits
    <2>2. Here = chunk.from + chunk.handled /\ Here \in Nat /\ end \in Nat /\ Here < end
      BY <1>2, <2>1 DEF Here, Chunks
    <2>3. parts = "wait"
      BY DEF Orderly, Lockstep
    <2>4. Aligned(Here + HeaderSize) /\ Here + HeaderSize <= end
      BY <2>1, <2>2, <2>3, AlignedStep
    <2>5. chunk.handled + HeaderSize <= chunk.read
      BY <1>2, <2>2, <2>4 DEF Chunks
    <2>6. HeaderFits(chunk)
      BY <1>2, <2>5 DEF HeaderFits, Chunks
    <2>7. state' \in Asked /\ Handled(HeaderSize) /\ UNCHANGED endVars
      BY <2>6 DEF RdWait
    <2>8. state' = "wait"
      BY <2>1, <2>3, <2>5, <2>7 DEF Asked
    <2>9. HandshakeSize <= Here + HeaderSize
      BY <1>2, <2>1, <2>2
    <2>10. ChunkOK'
      BY <1>1, <1>2, <2>1, <2>2, <2>4, <2>7, <2>8, <2>9, HandledOrderly
    <2>11. QED
      BY <1>1, <2>1, <2>7, <2>8, <2>10, WaitOrderly DEF endVars
  <1>5. QED
    BY <1>1, <1>3, <1>4 DEF Orderly, ChunkOK

-----------------------------------------------------------------------------

LEMMA NextOrderly ==
    ASSUME IInv, odd = {} => Orderly, [Next]_vars, odd' = {}
    PROVE  Orderly'
  <1>1. odd = {}
    BY DEF Next, vars, RemoteFlight, RemoteData, ReadCb, NothingRead, Eof, WriteCb,
           Callback, BioFull, DoHandshake, Read, ReaderStep, RdStart, RdHandshake,
           RdWait, RdParts
  <1>2. Orderly
    BY <1>1
  <1>3. CASE RemoteFlight
    BY <1>1, <1>2, <1>3, RemoteFlightOrderly
  <1>4. ASSUME NEW n \in Lengths, RemoteData(n) PROVE Orderly'
    BY <1>2, <1>4, RemoteDataOrderly
  <1>5. ASSUME NEW n \in 1 .. ReadSize, ReadCb(n) PROVE Orderly'
    BY <1>2, <1>5, ReadCbOrderly
  <1>6. CASE Eof
    BY <1>2, <1>6, EofOrderly
  <1>7. CASE WriteCb
    BY <1>2, <1>7, WriteCbOrderly
  <1>8. CASE BioFull
    BY <1>2, <1>8, RecordFits DEF BioFull
  <1>9. CASE DoHandshake
    BY <1>2, <1>9, DoHandshakeOrderly
  <1>10. CASE Read
    BY <1>2, <1>10, ReadOrderly
  <1>11. CASE RdStart
    BY <1>2, <1>11, RdStartOrderly
  <1>12. CASE RdHandshake
    BY <1>2, <1>12, RdHandshakeOrderly
  <1>13. CASE RdWait
    BY <1>2, <1>13, RdWaitOrderly
  <1>14. CASE RdParts
    BY <1>2, <1>14 DEF RdParts, InReader, PartStates, Orderly, Stages
  <1>15. CASE UNCHANGED vars
    <2>1. UNCHANGED <<parts, wire, delivered, rest, put, used, tls, state, chunk, taken,
                      shut, flight, fault>>
      BY <1>15 DEF vars, remoteVars, bioVars, endVars
    <2>2. Lockstep' /\ Served' /\ RecordsOK' /\ Stages' /\ ChunkOK'
      BY <1>2, <2>1 DEF Orderly, Lockstep, Served, RecordsOK, Aligned, Bytes, Stages,
                        HelloStage, FinishStage, ChunkOK, Nothing, WholeUnits, Here
    <2>3. QED
      BY <2>2 DEF Orderly
  <1>16. CASE NothingRead
    BY <1>1, <1>16 DEF NothingRead
  <1>17. QED
    BY <1>3, <1>4, <1>5, <1>6, <1>7, <1>8, <1>9, <1>10, <1>11, <1>12, <1>13, <1>14, <1>15,
       <1>16 DEF Next, Callback, ReaderStep

LEMMA InitOrderly ==
    ASSUME Init
    PROVE  odd = {} => Orderly
  <1>1. odd = {} => parts = "wait"
    BY DEF Init
  <1>2. Len(wire) = 0 /\ 3 .. Len(wire) = {}
    BY DEF Init
  <1>3. ~chunk.active
    BY DEF Init, NoChunk
  <1>4. RecordsOK
    BY <1>2 DEF RecordsOK
  <1>5. Stages
    BY <1>2, <1>3 DEF Init, Stages, HelloStage, FinishStage
  <1>6. QED
    BY <1>1, <1>3, <1>4, <1>5 DEF Init, Orderly, Lockstep, Served, ChunkOK

(* A remote that does what the code expects is never shut down by this     *)
(* side, the single write request is not used twice, and the reader does   *)
(* not get stuck, however its messages are cut into records.  What it      *)
(* expects of TCP is a record per read callback, and that no callback gets *)
(* nothing after a read that filled its buffer.                            *)
THEOREM OrderlyRemotesAreServed == Spec => []OrderlyIsServed
  <1>1. OrderInv => OrderlyIsServed
    BY DEF OrderInv, Orderly, Served, OrderlyIsServed
  <1>2. Init => OrderInv
    BY InitTypes, InitOrderly DEF OrderInv
  <1>3. OrderInv /\ [Next]_vars => OrderInv'
    BY NextTypes, NextOrderly DEF OrderInv
  <1>4. QED
    BY <1>1, <1>2, <1>3, PTL DEF Spec

-----------------------------------------------------------------------------
(* The reader takes the units of the stream in their order, each as a      *)
(* whole and once, from any remote whose records end where units end, in   *)
(* whatever pieces TCP delivers them and whatever else happens.            *)

\* No record ends inside a unit and the name of the remote is known.
Plain == {"split", "unnamed"} \cap odd = {}

\* Nobody has begun to shut down, and nothing undefined has happened.
Live == shut = "no" /\ fault = "none"

\* The reader is in the middle of a record.
Reading == chunk.active /\ chunk.read > 0

\* Before the handshake is taken, at most its record has been read.
AtStart ==
    /\ taken = <<>>
    /\ IF Reading
       THEN /\ used = 6 /\ chunk.from = 0 /\ chunk.handled = 0
            /\ chunk.read = wire[3][2]
       ELSE used <= 4

\* After it and j headers the reader is behind the j-th unit.
Behind(j) ==
    /\ Len(taken) = j + 1
    /\ j = Messages => parts = "wait"
    /\ \E k \in Nat :
          /\ used = 2 * k /\ k >= 3
          /\ IF Reading
             THEN /\ Here = Unit(j) /\ chunk.handled < chunk.read
                  /\ chunk.from + chunk.read = wire[k][2]
             ELSE wire[k][2] = Unit(j)

Position ==
    /\ state \in {"start", "handshake"} => AtStart
    /\ state = "wait" => \E j \in 0 .. Messages : Behind(j)

TlsStage ==
    /\ tls = "hello" => used = 0
    /\ tls = "finish" => used = 2
    /\ tls = "done" => used >= 4
    /\ tls # "done" => state = "start" /\ ~chunk.active

FlightStage ==
    /\ flight # "alert"
    /\ flight = "tls" => state = "start"
    /\ chunk.active /\ chunk.read = 0 => state = "start"

LiveInv == Live => Position /\ TlsStage /\ FlightStage

PlainInv == RecordsOK /\ LiveInv

-----------------------------------------------------------------------------
(* The end of a record lies behind the units before it.                    *)
LEMMA RoomForHeader ==
    ASSUME IInv, NEW j \in 0 .. Messages, j = Messages => parts = "wait",
           NEW end \in Nat, Aligned(end), Unit(j) < end
    PROVE  j < Messages /\ Unit(j) + HeaderSize <= end
  <1>1. HandshakeSize \in Nat \ {0} /\ HeaderSize \in Nat \ {0} /\ Messages \in Nat
        /\ PartSize \in Nat
    BY SizesAssumption
  <1>2. j \in Nat /\ j <= Messages /\ Unit(j) \in Nat /\ HandshakeSize <= Unit(j)
    BY <1>1, UnitTypes
  <1>3. ASSUME NEW k \in 0 .. Messages, end = Unit(k)
        PROVE  j < Messages /\ Unit(j) + HeaderSize <= end
    <2>1. k \in Nat /\ k <= Messages
      BY <1>1, <1>3
    <2>2. j < k
      <3>1. CASE k < j
        <4>1. Unit(k) + HeaderSize <= Unit(j) /\ Unit(k) \in Nat
          BY <1>2, <2>1, <3>1, Multiples
        <4>2. QED
          BY <1>1, <1>2, <1>3, <4>1
      <3>2. CASE k = j
        BY <1>2, <1>3, <3>2
      <3>3. QED
        BY <1>2, <2>1, <3>1, <3>2
    <2>3. Unit(j) + HeaderSize <= Unit(k)
      BY <1>2, <2>1, <2>2, Multiples
    <2>4. QED
      BY <1>1, <1>2, <1>3, <2>1, <2>2, <2>3
  <1>4. CASE parts = "wait"
    <2>1. end # 0
      BY <1>2
    <2>2. PICK k \in 0 .. Messages : end = Unit(k)
      BY <1>4, <2>1, AlignedIsUnit
    <2>3. QED
      BY <1>3, <2>2
  <1>5. CASE parts # "wait" /\ end = Bytes
    <2>1. j < Messages
      BY <1>1, <1>2, <1>5
    <2>2. Unit(j) + HeaderSize <= Unit(Messages) /\ Unit(Messages) \in Nat
      BY <1>1, <1>2, <2>1, Multiples, UnitTypes
    <2>3. Bytes = Unit(Messages) + PartSize
      BY <1>5 DEF Bytes, Unit
    <2>4. QED
      BY <1>1, <1>2, <1>5, <2>1, <2>2, <2>3
  <1>6. CASE parts # "wait" /\ end # Bytes
    <2>1. end # 0
      BY <1>2
    <2>2. PICK k \in 0 .. Messages : end = Unit(k)
      BY <1>6, <2>1 DEF Aligned, Unit
    <2>3. QED
      BY <1>3, <2>2
  <1>7. QED
    BY <1>4, <1>5, <1>6

LEMMA FirstRecord ==
    ASSUME IInv, NEW p \in Nat, Aligned(p), 0 < p
    PROVE  HandshakeSize <= p
  <1>1. HandshakeSize \in Nat /\ Messages \in Nat /\ PartSize \in Nat
    BY SizesAssumption
  <1>2. CASE p = Bytes
    <2>1. Unit(Messages) \in Nat /\ HandshakeSize <= Unit(Messages)
      BY <1>1, UnitTypes
    <2>2. Bytes = Unit(Messages) + (IF parts = "wait" THEN 0 ELSE PartSize)
      BY DEF Bytes, Unit
    <2>3. QED
      BY <1>1, <1>2, <2>1, <2>2
  <1>3. CASE p # Bytes
    <2>1. PICK k \in 0 .. Messages : p = Unit(k)
      BY <1>3 DEF Aligned, Unit
    <2>2. k \in Nat
      BY <1>1
    <2>3. QED
      BY <2>1, <2>2, UnitTypes
  <1>4. QED
    BY <1>2, <1>3

-----------------------------------------------------------------------------
(* Steps that leave the reader where it is.                                *)

\* The records that were there stay.
LEMMA SamePosition ==
    ASSUME IInv, Position, ~Reading, ~Reading',
           UNCHANGED <<parts, used, state, taken>>,
           \A i \in 1 .. Len(wire) : wire'[i] = wire[i]
    PROVE  Position'
  <1>1. ASSUME NEW j \in 0 .. Messages, Behind(j)
        PROVE  Behind(j)'
    <2>1. PICK k \in Nat : used = 2 * k /\ k >= 3 /\ wire[k][2] = Unit(j)
      BY <1>1 DEF Behind
    <2>2. k \in 1 .. Len(wire)
      <3>1. ASSUME NEW l \in Nat, 2 * k <= 2 * l
            PROVE  k \in 1 .. l
        BY <2>1, <3>1
      <3>2. 2 * k <= 2 * Len(wire)
        BY <2>1, Amounts
      <3>3. QED
        BY <3>1, <3>2, Amounts
    <2>3. wire'[k] = wire[k] /\ used' = 2 * k
      BY <2>1, <2>2
    <2>4. Unit(j)' = Unit(j)
      BY DEF Unit
    <2>5. QED
      BY <1>1, <2>1, <2>3, <2>4 DEF Behind
  <1>2. AtStart => AtStart'
    BY DEF AtStart
  <1>3. QED
    BY <1>1, <1>2 DEF Position

LEMMA RemoteFlightPlain ==
    ASSUME IInv, PlainInv, RemoteFlight
    PROVE  PlainInv'
  <1>1. /\ wire' = Append(wire, <<0, 0>>) /\ ~chunk.active
        /\ wire = <<>> \/ Len(wire) = 1
        /\ UNCHANGED <<parts, used, tls, state, chunk, taken, shut, flight, fault>>
    BY DEF RemoteFlight, Idle, bioVars, endVars
  <1>2. wire \in Seq(Extents) /\ Len(wire) \in {0, 1} /\ <<0, 0>> \in Extents
    BY <1>1 DEF IInv, TypeOK, Extents
  <1>3. Len(wire') = Len(wire) + 1 /\ \A i \in 1 .. Len(wire) : wire'[i] = wire[i]
    BY <1>1, <1>2
  <1>4. RecordsOK'
    <2>1. ASSUME NEW l \in {0, 1}
          PROVE  3 .. l + 1 = {}
      BY <2>1
    <2>2. 3 .. Len(wire') = {}
      BY <1>2, <1>3, <2>1
    <2>3. QED
      BY <2>2 DEF RecordsOK
  <1>5. Live' => Position'
    BY <1>1, <1>3, SamePosition DEF Live, LiveInv, PlainInv, Reading
  <1>6. Live' => TlsStage' /\ FlightStage'
    BY <1>1 DEF Live, LiveInv, PlainInv, TlsStage, FlightStage
  <1>7. QED
    BY <1>4, <1>5, <1>6 DEF PlainInv, LiveInv

LEMMA RemoteDataPlain ==
    ASSUME IInv, PlainInv, Plain', NEW n \in Lengths, RemoteData(n)
    PROVE  PlainInv'
  <1>1. /\ ~chunk.active /\ Len(wire) \in 2 .. Records + 1
        /\ wire' = Append(wire, <<Sent, Sent + n>>)
        /\ UNCHANGED <<parts, used, tls, state, chunk, taken, shut, flight, fault>>
    BY DEF RemoteData, Idle, bioVars, endVars
  <1>2. Aligned(Sent + n)
    BY DEF RemoteData, Plain
  <1>3. n \in Nat /\ n > 0
    BY SizesAssumption
  <1>4. wire \in Seq(Extents) /\ Len(wire) \in Nat
    BY DEF IInv, TypeOK, Extents
  <1>5. Sent \in Nat
    <2>1. CASE Len(wire) <= 2
      BY <2>1 DEF Sent
    <2>2. CASE ~(Len(wire) <= 2)
      <3>1. Len(wire) \in DOMAIN wire
        BY <1>4, <2>2
      <3>2. wire[Len(wire)] \in Extents
        BY <1>4, <3>1
      <3>3. QED
        BY <2>2, <3>2 DEF Sent, Extents
    <2>3. QED
      BY <2>1, <2>2
  <1> DEFINE r == <<Sent, Sent + n>>
             l == Len(wire) + 1
  <1>6. r[1] = Sent /\ r[2] = Sent + n /\ r[1] < r[2]
    BY <1>3, <1>5
  <1>7. /\ Len(wire') = l /\ wire'[l] = r /\ l >= 3 /\ l \in Nat
        /\ \A i \in 1 .. l - 1 : wire'[i] = wire[i]
    <2>1. wire' = Append(wire, r)
      BY <1>1
    <2>2. r \in Extents
      BY <1>3, <1>5 DEF Extents
    <2>3. Len(wire) >= 2
      BY <1>1, <1>4
    <2> HIDE DEF r
    <2>4. QED
      BY <1>4, <2>1, <2>2, <2>3
  <1>8. RecordsOK'
    <2> SUFFICES ASSUME NEW i \in 3 .. l
                 PROVE  /\ wire'[i][1] = IF i = 3 THEN 0 ELSE wire'[i - 1][2]
                        /\ wire'[i][1] < wire'[i][2]
                        /\ Aligned(wire'[i][2])
      BY <1>1, <1>7 DEF RecordsOK, Aligned, Bytes
    <2>1. CASE i = l
      <3>1. Sent = IF l = 3 THEN 0 ELSE wire[l - 1][2]
        BY <1>1, <1>4 DEF Sent
      <3>2. l # 3 => wire'[l - 1] = wire[l - 1]
        BY <1>4, <1>7
      <3>3. wire'[l] = r
        BY <1>7
      <3> HIDE DEF l
      <3>4. QED
        BY <1>2, <1>6, <2>1, <3>1, <3>2, <3>3
    <2>2. CASE i # l
      <3>1. i \in 3 .. Len(wire) /\ wire'[i] = wire[i]
            /\ (i # 3 => wire'[i - 1] = wire[i - 1])
        BY <1>4, <1>7, <2>2
      <3>2. QED
        BY <3>1 DEF PlainInv, RecordsOK
    <2>3. QED
      BY <2>1, <2>2
  <1>9. \A i \in 1 .. Len(wire) : wire'[i] = wire[i]
    BY <1>4, <1>7
  <1>10. Live' => Position'
    BY <1>1, <1>9, SamePosition DEF Live, LiveInv, PlainInv, Reading
  <1>11. Live' => TlsStage' /\ FlightStage'
    BY <1>1 DEF Live, LiveInv, PlainInv, TlsStage, FlightStage
  <1>12. QED
    BY <1>8, <1>10, <1>11 DEF PlainInv, LiveInv

LEMMA WriteCbPlain ==
    ASSUME IInv, PlainInv, WriteCb
    PROVE  PlainInv'
  <1>1. /\ ~chunk.active /\ flight' = "none" /\ flight # "none"
        /\ UNCHANGED <<parts, wire, used, tls, state, taken, shut, fault>>
    BY DEF WriteCb, Idle, remoteVars, bioVars
  <1>2. RecordsOK'
    BY <1>1, SameRecords DEF PlainInv
  <1>3. /\ chunk' = chunk
        \/ (chunk' = Chunk(0, 0) /\ flight # "greeting" /\ tls = "done")
    BY DEF WriteCb
  <1>4. chunk' = Chunk(0, 0) => chunk'.active /\ chunk'.read = 0
    BY DEF Chunk
  <1>5. ~Reading /\ ~Reading'
    BY <1>1, <1>3, <1>4 DEF Reading
  <1>6. Live' => Position'
    BY <1>1, <1>5, SamePosition DEF Live, LiveInv, PlainInv
  <1>7. Live' => TlsStage'
    BY <1>1, <1>3 DEF Live, LiveInv, PlainInv, TlsStage
  <1>8. Live' /\ chunk' # chunk => state = "start"
    BY <1>1, <1>3 DEF Live, LiveInv, PlainInv, FlightStage, IInv, TypeOK
  <1>9. Live' => FlightStage'
    BY <1>1, <1>8 DEF Live, LiveInv, PlainInv, FlightStage
  <1>10. QED
    BY <1>2, <1>6, <1>7, <1>9 DEF PlainInv, LiveInv

LEMMA DoHandshakePlain ==
    ASSUME IInv, PlainInv, DoHandshake
    PROVE  PlainInv'
  <1>1. tls # "done" /\ fault = "none"
        /\ UNCHANGED <<parts, wire, state, chunk, taken, shut>>
    BY DEF DoHandshake, InReadCb, Running, remoteVars, Write
  <1>2. RecordsOK'
    BY <1>1, SameRecords DEF PlainInv
  <1> SUFFICES ASSUME Live' PROVE Position' /\ TlsStage' /\ FlightStage'
    BY <1>2 DEF PlainInv, LiveInv
  <1>3. Live /\ Position /\ TlsStage /\ FlightStage
    BY <1>1 DEF Live, LiveInv, PlainInv
  <1>4. state = "start" /\ ~chunk.active /\ used <= 4 /\ taken = <<>>
    BY <1>1, <1>3 DEF TlsStage, Position, AtStart, Reading
  <1>5. CASE WholeRecord(used, put') /\ tls # "refused"
    <2>1. used' = used + 2 /\ Write("tls")
          /\ (tls' = "refused" \/ tls' = IF tls = "hello" THEN "finish" ELSE "done")
      BY <1>5 DEF DoHandshake
    <2>2. flight' = "tls"
      BY <2>1 DEF Write, Live
    <2>3. (tls = "hello" /\ used = 0) \/ (tls = "finish" /\ used = 2)
      BY <1>1, <1>3, <1>5 DEF TlsStage, IInv, TypeOK
    <2>4. used' <= 4
      BY <2>1, <2>3
    <2>5. Position'
      BY <1>1, <1>4, <2>4 DEF Position, AtStart, Reading
    <2>6. TlsStage'
      BY <1>1, <1>4, <2>1, <2>3 DEF TlsStage
    <2>7. FlightStage'
      BY <1>1, <1>4, <2>2 DEF FlightStage
    <2>8. QED
      BY <2>5, <2>6, <2>7
  <1>6. CASE ~(WholeRecord(used, put') /\ tls # "refused")
    <2>1. UNCHANGED <<used, tls, flight>>
      BY <1>6 DEF DoHandshake
    <2>2. Position'
      BY <1>1, <1>4, <2>1 DEF Position, AtStart, Reading
    <2>3. QED
      BY <1>1, <1>3, <2>1, <2>2 DEF TlsStage, FlightStage
  <1>7. QED
    BY <1>5, <1>6

-----------------------------------------------------------------------------
(* Reading a record and what is in it.                                     *)

LEMMA ReadPlain ==
    ASSUME IInv, PlainInv, Read
    PROVE  PlainInv'
  <1>1. InReadCb /\ tls = "done" /\ ~chunk.active /\ rest > 0
        /\ UNCHANGED <<parts, wire, tls, state, taken>>
    BY DEF Read, InReadCb, remoteVars
  <1>2. RecordsOK'
    BY <1>1, SameRecords DEF PlainInv
  <1> SUFFICES ASSUME Live' PROVE Position' /\ TlsStage' /\ FlightStage'
    BY <1>2 DEF PlainInv, LiveInv
  <1>3. WholeRecord(used, put')
    <2> SUFFICES ASSUME ~WholeRecord(used, put') PROVE FALSE
      OBVIOUS
    <2>1. Shutdown("refused")
      BY DEF Read
    <2>2. QED
      BY <2>1 DEF Shutdown, endVars, Live
  <1>4. PICK k \in Nat : used = 2 * k
    BY DEF IInv
  <1>5. (used \div 2) + 1 = k + 1
    BY <1>4
  <1> DEFINE r == wire[k + 1]
  <1>6. used' = used + 2 /\ chunk' = Chunk(r[1], r[2] - r[1]) /\ UNCHANGED endVars
    BY <1>3, <1>5 DEF Read
  <1>7. Live /\ Position /\ TlsStage /\ FlightStage
    BY <1>6 DEF endVars, Live, LiveInv, PlainInv
  <1>8. k >= 2
    BY <1>1, <1>4, <1>7 DEF TlsStage
  <1>9. wire \in Seq(Extents) /\ Len(wire) \in Nat
    BY DEF IInv, TypeOK, Extents
  <1>10. k + 1 \in 3 .. Len(wire)
    <2>1. put' <= delivered
      <3>1. put' \in Nat /\ rest' \in Nat /\ put' + rest' <= delivered
        BY <1>1, BioWriteTypes DEF Read
      <3>2. QED
        BY <3>1, Amounts
    <2>2. used + 2 <= put' /\ put' \in Nat
      BY <1>1, <1>3, BioWriteTypes DEF WholeRecord, Read
    <2>3. used + 2 <= 2 * Len(wire)
      BY <2>1, <2>2, Amounts
    <2>4. ASSUME NEW l \in Nat, 2 * k + 2 <= 2 * l
          PROVE  k + 1 \in 3 .. l
      BY <1>8, <2>4
    <2>5. 2 * k + 2 <= 2 * Len(wire)
      BY <1>4, <2>3
    <2>6. QED
      BY <1>9, <2>4, <2>5
  <1>11. r \in Extents
    BY <1>9, <1>10
  <1>12. /\ r[1] = IF k + 1 = 3 THEN 0 ELSE wire[k + 1 - 1][2]
         /\ r[1] < r[2]
    BY <1>10 DEF PlainInv, RecordsOK
  <1>13. k # 2 => r[1] = wire[k][2]
    <2>1. k # 2 => k + 1 # 3 /\ k + 1 - 1 = k
      OBVIOUS
    <2>2. QED
      BY <1>12, <2>1
  <1>14. k = 2 => r[1] = 0
    BY <1>12
  <1>15. r[1] \in Nat /\ r[2] \in Nat
    BY <1>11 DEF Extents
  <1>16. r[2] = wire[k + 1][2]
    OBVIOUS
  <1> HIDE DEF r
  <1>17. /\ chunk'.active /\ chunk'.from = r[1] /\ chunk'.read = r[2] - r[1]
         /\ chunk'.handled = 0
    BY <1>6 DEF Chunk
  <1>18. 0 < chunk'.read /\ chunk'.read \in Nat /\ chunk'.from + chunk'.read = r[2]
         /\ Here' = r[1]
    BY <1>12, <1>15, <1>17 DEF Here
  <1>19. Reading' /\ ~Reading /\ used' = 2 * (k + 1)
    BY <1>1, <1>4, <1>6, <1>17, <1>18 DEF Reading
  <1>20. ASSUME AtStart
         PROVE  AtStart'
    <2>1. used <= 4
      BY <1>19, <1>20 DEF AtStart
    <2>2. k = 2
      BY <1>4, <1>8, <2>1
    <2>3. r[1] = 0 /\ r[2] = wire[3][2] /\ used' = 6
      BY <1>14, <1>16, <1>19, <2>2
    <2>4. chunk'.read = r[2]
      BY <1>15, <1>17, <2>3
    <2>5. QED
      BY <1>1, <1>17, <1>19, <1>20, <2>3, <2>4 DEF AtStart
  <1>21. ASSUME NEW j \in 0 .. Messages, Behind(j)
         PROVE  Behind(j)'
    <2>1. PICK i \in Nat : used = 2 * i /\ i >= 3 /\ wire[i][2] = Unit(j)
      BY <1>19, <1>21 DEF Behind
    <2>2. i = k
      BY <1>4, <2>1
    <2>3. r[1] = Unit(j) /\ k + 1 >= 3 /\ k + 1 \in Nat
      BY <1>13, <2>1, <2>2
    <2>4. Unit(j)' = Unit(j)
      BY DEF Unit
    <2>5. Here' = Unit(j)' /\ chunk'.handled < chunk'.read
          /\ chunk'.from + chunk'.read = wire'[k + 1][2]
      BY <1>1, <1>16, <1>17, <1>18, <2>3, <2>4
    <2>6. QED
      BY <1>1, <1>19, <1>21, <2>3, <2>5 DEF Behind
  <1>22. Position'
    BY <1>1, <1>7, <1>20, <1>21 DEF Position
  <1>23. TlsStage'
    BY <1>1, <1>6, <1>4, <1>8, <1>7 DEF TlsStage
  <1>24. FlightStage'
    BY <1>1, <1>6, <1>7, <1>18 DEF FlightStage, endVars
  <1>25. QED
    BY <1>22, <1>23, <1>24

\* What the reader works at while it waits for a unit.
LEMMA UnitAhead ==
    ASSUME IInv, PlainInv, Live, chunk.active, state \in {"handshake", "wait"}
    PROVE  Reading
  BY DEF PlainInv, LiveInv, FlightStage, Reading, IInv, TypeOK

LEMMA RdStartPlain ==
    ASSUME IInv, PlainInv, RdStart
    PROVE  PlainInv'
  <1>1. /\ chunk.active /\ state = "start" /\ state' = "handshake"
        /\ Write("greeting") /\ Handled(0)
        /\ UNCHANGED <<parts, wire, used, tls, taken>>
    BY DEF RdStart, InReader, remoteVars, bioVars
  <1>2. RecordsOK'
    BY <1>1, SameRecords DEF PlainInv
  <1> SUFFICES ASSUME Live' PROVE Position' /\ TlsStage' /\ FlightStage'
    BY <1>2 DEF PlainInv, LiveInv
  <1>3. flight' = "greeting" /\ Live
    <2>1. flight = "none"
      BY <1>1 DEF Write, Live
    <2>2. QED
      BY <1>1, <2>1 DEF Write, Live
  <1>4. AtStart /\ TlsStage
    BY <1>1, <1>3 DEF PlainInv, LiveInv, Position
  <1>5. tls = "done"
    BY <1>1, <1>4 DEF TlsStage, IInv, TypeOK
  <1>6. chunk \in Chunks
    BY DEF IInv, TypeOK, Chunks
  <1>7. /\ chunk'.active => chunk'.read # 0
        /\ AtStart'
    <2>1. CASE chunk.handled + 0 < chunk.read
      <3>1. chunk' = [chunk EXCEPT !.handled = chunk.handled + 0]
        BY <1>1, <2>1 DEF Handled
      <3>2. chunk.handled + 0 = chunk.handled
        BY <1>6 DEF Chunks
      <3>3. /\ chunk'.from = chunk.from /\ chunk'.read = chunk.read
            /\ chunk'.handled = chunk.handled /\ chunk'.active = chunk.active
        BY <1>6, <3>1, <3>2 DEF Chunks
      <3>4. chunk.read > 0
        BY <1>6, <2>1 DEF Chunks
      <3>5. QED
        BY <1>1, <1>4, <1>6, <3>3, <3>4 DEF AtStart, Reading, Chunks
    <2>2. CASE ~(chunk.handled + 0 < chunk.read)
      <3>1. chunk' = NoChunk
        BY <1>1, <2>2 DEF Handled
      <3>2. ~chunk'.active
        BY <3>1 DEF NoChunk
      <3>3. ~Reading
        <4>1. Reading => chunk.handled = 0
          BY <1>4 DEF AtStart
        <4>2. QED
          BY <1>6, <2>2, <4>1 DEF Reading, Chunks
      <3>4. QED
        BY <1>1, <1>4, <3>2, <3>3 DEF AtStart, Reading
    <2>3. QED
      BY <2>1, <2>2
  <1>8. Position' /\ TlsStage' /\ FlightStage'
    BY <1>1, <1>3, <1>4, <1>5, <1>7 DEF Position, TlsStage, FlightStage
  <1>9. QED
    BY <1>8

\* The reader is behind unit j once it has handled it.
LEMMA HandledBehind ==
    ASSUME IInv, Reading, NEW n \in Nat, Handled(n), UNCHANGED <<parts, wire, used>>,
           NEW k \in Nat, used = 2 * k, k >= 3, chunk.from + chunk.read = wire[k][2],
           chunk.handled + n <= chunk.read,
           NEW j \in 0 .. Messages, chunk.from + chunk.handled + n = Unit(j),
           Len(taken') = j + 1, j = Messages => parts = "wait"
    PROVE  Behind(j)' /\ (chunk'.active => chunk'.read # 0)
  <1>1. chunk \in Chunks
    BY DEF IInv, TypeOK, Chunks
  <1>2. Unit(j)' = Unit(j)
    BY DEF Unit
  <1>3. CASE chunk.handled + n < chunk.read
    <2> DEFINE h == chunk.handled + n
    <2>1. chunk' = [chunk EXCEPT !.handled = h]
      BY <1>3 DEF Handled
    <2>2. /\ chunk'.from = chunk.from /\ chunk'.read = chunk.read
          /\ chunk'.handled = h /\ chunk'.active = chunk.active
      BY <1>1, <2>1 DEF Chunks
    <2>3. chunk.from + h = chunk.from + chunk.handled + n
      BY <1>1 DEF Chunks
    <2>4. Here' = Unit(j)
      BY <2>2, <2>3 DEF Here
    <2>5. Reading' /\ chunk'.handled < chunk'.read
      BY <1>3, <2>2 DEF Reading
    <2>6. chunk'.read # 0
      BY <1>1, <2>2 DEF Reading, Chunks
    <2>7. chunk'.from + chunk'.read = wire'[k][2] /\ used' = 2 * k
      BY <2>2
    <2>8. Behind(j)'
      BY <1>2, <2>4, <2>5, <2>7 DEF Behind
    <2>9. QED
      BY <2>6, <2>8
  <1>4. CASE ~(chunk.handled + n < chunk.read)
    <2>1. chunk' = NoChunk
      BY <1>4 DEF Handled
    <2>2. ~chunk'.active /\ ~Reading'
      BY <2>1 DEF NoChunk, Reading
    <2>3. wire[k][2] = Unit(j)
      BY <1>1, <1>4 DEF Chunks
    <2>4. wire'[k][2] = Unit(j)' /\ used' = 2 * k
      BY <1>2, <2>3
    <2>5. QED
      BY <2>2, <2>4 DEF Behind
  <1>5. QED
    BY <1>3, <1>4

\* On a connection that is fine the reader takes its handshake as a whole.
LEMMA HandshakeAhead ==
    ASSUME IInv, PlainInv, Live, chunk.active, state = "handshake"
    PROVE  /\ taken = <<>> /\ chunk.from = 0 /\ chunk.handled = 0 /\ used = 6
           /\ chunk.read = wire[3][2] /\ HandshakeSize <= chunk.read /\ Reading
  <1>1. Reading
    BY UnitAhead
  <1>2. /\ taken = <<>> /\ chunk.from = 0 /\ chunk.handled = 0 /\ used = 6
        /\ chunk.read = wire[3][2]
    BY <1>1 DEF PlainInv, LiveInv, Position, AtStart
  <1>3. chunk.read \in Nat /\ 0 < chunk.read
    BY <1>1 DEF IInv, TypeOK, Reading
  <1>4. 3 \in 3 .. Len(wire)
    <2>1. ASSUME NEW l \in Nat, 6 <= 2 * l
          PROVE  3 \in 3 .. l
      BY <2>1
    <2>2. 6 <= 2 * Len(wire)
      BY <1>2, Amounts
    <2>3. QED
      BY <2>1, <2>2, Amounts
  <1>5. Aligned(wire[3][2])
    BY <1>4 DEF PlainInv, RecordsOK
  <1>6. HandshakeSize <= chunk.read
    BY <1>2, <1>3, <1>5, FirstRecord
  <1>7. QED
    BY <1>1, <1>2, <1>6

\* And the header that is next.
LEMMA HeaderAhead ==
    ASSUME IInv, PlainInv, Live, chunk.active, state = "wait"
    PROVE  \E j \in 0 .. Messages, k \in Nat :
              /\ j < Messages /\ Len(taken) = j + 1 /\ Reading
              /\ used = 2 * k /\ k >= 3 /\ Here = Unit(j)
              /\ chunk.from + chunk.read = wire[k][2]
              /\ chunk.handled + HeaderSize <= chunk.read
  <1>1. Reading
    BY UnitAhead
  <1>2. PICK j \in 0 .. Messages : Behind(j)
    BY DEF PlainInv, LiveInv, Position
  <1>3. PICK k \in Nat : /\ used = 2 * k /\ k >= 3
                         /\ Here = Unit(j) /\ chunk.handled < chunk.read
                         /\ chunk.from + chunk.read = wire[k][2]
    BY <1>1, <1>2 DEF Behind
  <1> DEFINE end == chunk.from + chunk.read
  <1>4. chunk \in Chunks /\ HeaderSize \in Nat
    BY SizesAssumption DEF IInv, TypeOK, Chunks
  <1>5. end \in Nat /\ Here < end /\ Here = chunk.from + chunk.handled
    BY <1>3, <1>4 DEF Here, Chunks
  <1>6. k \in 3 .. Len(wire)
    <2>1. ASSUME NEW l \in Nat, 2 * k <= 2 * l
          PROVE  k \in 3 .. l
      BY <1>3, <2>1
    <2>2. 2 * k <= 2 * Len(wire)
      BY <1>3, Amounts
    <2>3. QED
      BY <2>1, <2>2, Amounts
  <1>7. Aligned(end)
    BY <1>3, <1>6 DEF PlainInv, RecordsOK
  <1>8. j < Messages /\ Unit(j) + HeaderSize <= end
    BY <1>2, <1>3, <1>5, <1>7, RoomForHeader DEF Behind
  <1>9. chunk.handled + HeaderSize <= chunk.read
    BY <1>3, <1>4, <1>5, <1>8 DEF Chunks
  <1>10. QED
    BY <1>1, <1>2, <1>3, <1>8, <1>9 DEF Behind

LEMMA RdHandshakePlain ==
    ASSUME IInv, PlainInv, Plain', RdHandshake
    PROVE  PlainInv'
  <1>1. /\ chunk.active /\ state = "handshake" /\ state' = "wait"
        /\ Handled(HandshakeSize) /\ UNCHANGED <<parts, wire, used, tls>>
    BY DEF RdHandshake, InReader, remoteVars, bioVars
  <1>2. RecordsOK'
    BY <1>1, SameRecords DEF PlainInv
  <1>3. Live' => Live
    BY <1>1 DEF RdHandshake, InReader, Running, Refuse, Shutdown, endVars, Live
  <1> SUFFICES ASSUME Live' PROVE Position' /\ TlsStage' /\ FlightStage'
    BY <1>2 DEF PlainInv, LiveInv
  <1>4. /\ taken = <<>> /\ chunk.from = 0 /\ chunk.handled = 0 /\ used = 6
        /\ chunk.read = wire[3][2] /\ HandshakeSize <= chunk.read /\ Reading
    BY <1>1, <1>3, HandshakeAhead
  <1>5. HandshakeSize \in Nat /\ chunk.read \in Nat /\ Messages \in Nat \ {0}
    BY SizesAssumption DEF IInv, TypeOK
  <1>6. GreetingFits(chunk.read - chunk.handled)
    BY <1>4, <1>5 DEF GreetingFits
  <1>7. Take("handshake", HandshakeSize) /\ UNCHANGED endVars
    BY <1>6 DEF RdHandshake, Plain
  <1>8. Len(taken') = 0 + 1
    <2>1. Len(taken) = 0
      BY <1>4
    <2>2. QED
      BY <1>5, <1>7, <2>1, Taking
  <1>9. chunk.from + chunk.handled + HandshakeSize = Unit(0)
    <2>1. Unit(0) = HandshakeSize
      BY SizesAssumption DEF Unit
    <2>2. QED
      BY <1>4, <1>5, <2>1
  <1>10. /\ used = 2 * 3 /\ chunk.from + chunk.read = wire[3][2]
         /\ chunk.handled + HandshakeSize <= chunk.read
         /\ 0 \in 0 .. Messages /\ 0 # Messages
    BY <1>4, <1>5
  <1>11. Behind(0)' /\ (chunk'.active => chunk'.read # 0)
    BY <1>1, <1>4, <1>5, <1>8, <1>9, <1>10, HandledBehind
  <1>12. Position'
    BY <1>1, <1>10, <1>11 DEF Position
  <1>13. TlsStage' /\ FlightStage'
    BY <1>1, <1>3, <1>7, <1>11 DEF TlsStage, FlightStage, PlainInv, LiveInv, endVars
  <1>14. QED
    BY <1>12, <1>13

LEMMA RdWaitPlain ==
    ASSUME IInv, PlainInv, RdWait
    PROVE  PlainInv'
  <1>1. /\ chunk.active /\ state = "wait" /\ UNCHANGED <<parts, wire, used, tls>>
    BY DEF RdWait, InReader, remoteVars, bioVars
  <1>2. RecordsOK'
    BY <1>1, SameRecords DEF PlainInv
  <1>3. Live' => Live
    BY <1>1 DEF RdWait, InReader, Running, Shutdown, endVars, Live
  <1> SUFFICES ASSUME Live' PROVE Position' /\ TlsStage' /\ FlightStage'
    BY <1>2 DEF PlainInv, LiveInv
  <1>4. PICK j \in 0 .. Messages, k \in Nat :
              /\ j < Messages /\ Len(taken) = j + 1 /\ Reading
              /\ used = 2 * k /\ k >= 3 /\ Here = Unit(j)
              /\ chunk.from + chunk.read = wire[k][2]
              /\ chunk.handled + HeaderSize <= chunk.read
    BY <1>1, <1>3, HeaderAhead
  <1>5. HeaderSize \in Nat \ {0} /\ Messages \in Nat /\ chunk \in Chunks /\ j \in Nat
    BY SizesAssumption DEF IInv, TypeOK, Chunks
  <1>6. HeaderFits(chunk)
    BY <1>4, <1>5 DEF HeaderFits, Chunks
  <1>7. Take("header", HeaderSize) /\ state' \in Asked /\ Handled(HeaderSize)
        /\ UNCHANGED endVars
    BY <1>6 DEF RdWait
  <1>8. Len(taken') = (j + 1) + 1
    BY <1>4, <1>5, <1>7, Taking
  <1>9. Unit(j) + HeaderSize = Unit(j + 1) /\ HandshakeSize <= Unit(j)
    BY <1>4, <1>5, Multiples
  <1>10. chunk.from + chunk.handled + HeaderSize = Unit(j + 1)
    BY <1>4, <1>5, <1>9 DEF Here, Chunks
  <1>11. Aligned(Here)
    BY <1>4 DEF Aligned, Unit
  <1>12. state' = IF Unit(j + 1) = Unit(Messages) THEN parts ELSE "wait"
    BY <1>4, <1>7, <1>9, <1>11 DEF Asked, Unit
  <1>13. j + 1 = Messages => (state' = "wait" => parts = "wait")
    BY <1>12
  <1>14. state' = "wait" => Behind(j + 1)' /\ (chunk'.active => chunk'.read # 0)
    <2> SUFFICES ASSUME state' = "wait"
                 PROVE  Behind(j + 1)' /\ (chunk'.active => chunk'.read # 0)
      OBVIOUS
    <2>1. j + 1 \in 0 .. Messages
      BY <1>4, <1>5
    <2>2. QED
      BY <1>1, <1>4, <1>5, <1>7, <1>8, <1>10, <1>13, <2>1, HandledBehind
  <1>15. state' \notin {"start", "handshake"}
    BY <1>12 DEF IInv, TypeOK, PartStates
  <1>16. Position'
    <2>1. state' = "wait" => j + 1 \in 0 .. Messages
      BY <1>4, <1>5
    <2>2. QED
      BY <1>14, <1>15, <2>1 DEF Position
  <1>17. chunk'.active => chunk'.read # 0
    <2>1. CASE chunk.handled + HeaderSize < chunk.read
      <3>1. chunk'.read = chunk.read
        BY <1>5, <1>7, <2>1 DEF Handled, Chunks
      <3>2. QED
        BY <1>4, <1>5, <3>1 DEF Reading, Chunks
    <2>2. CASE ~(chunk.handled + HeaderSize < chunk.read)
      BY <1>7, <2>2 DEF Handled, NoChunk
    <2>3. QED
      BY <2>1, <2>2
  <1>18. TlsStage' /\ FlightStage'
    <2>1. tls = "done" /\ flight # "tls" /\ flight # "alert" /\ used >= 4
      BY <1>1, <1>3 DEF TlsStage, FlightStage, PlainInv, LiveInv, IInv, TypeOK
    <2>2. QED
      BY <1>1, <1>7, <1>17, <2>1 DEF TlsStage, FlightStage, endVars
  <1>19. QED
    BY <1>16, <1>18

LEMMA RdPartsPlain ==
    ASSUME IInv, PlainInv, RdParts
    PROVE  PlainInv'
  <1>1. /\ state \in PartStates /\ chunk.active
        /\ chunk' = chunk \/ chunk' = NoChunk
        /\ UNCHANGED <<parts, wire, used, tls, state, taken, shut, flight>>
        /\ fault = "none"
    BY DEF RdParts, InReader, Running, remoteVars, bioVars
  <1>2. RecordsOK'
    BY <1>1, SameRecords DEF PlainInv
  <1>3. Live' => TlsStage /\ FlightStage
    BY <1>1 DEF Live, PlainInv, LiveInv
  <1>4. Position'
    BY <1>1 DEF Position, PartStates
  <1>5. Live' => TlsStage' /\ FlightStage'
    BY <1>1, <1>3 DEF TlsStage, FlightStage, NoChunk
  <1>6. QED
    BY <1>2, <1>4, <1>5 DEF PlainInv, LiveInv

-----------------------------------------------------------------------------

OddGrows == odd \subseteq odd'

LEMMA NextPlain ==
    ASSUME IInv, PlainInv, Plain', [Next]_vars
    PROVE  PlainInv'
  <1>1. CASE RemoteFlight
    BY <1>1, RemoteFlightPlain
  <1>2. ASSUME NEW n \in Lengths, RemoteData(n) PROVE PlainInv'
    BY <1>2, RemoteDataPlain
  <1>3. ASSUME NEW n \in 1 .. ReadSize, ReadCb(n) PROVE PlainInv'
    <2>1. UNCHANGED <<parts, wire, used, tls, state, chunk, taken, shut, flight, fault>>
          /\ ~chunk.active
      BY <1>3 DEF ReadCb, Idle, remoteVars, endVars
    <2>2. RecordsOK'
      BY <2>1, SameRecords DEF PlainInv
    <2>3. Live' => Position'
      BY <2>1, SamePosition DEF Live, LiveInv, PlainInv, Reading
    <2>4. Live' => TlsStage' /\ FlightStage'
      BY <2>1 DEF Live, LiveInv, PlainInv, TlsStage, FlightStage
    <2>5. QED
      BY <2>2, <2>3, <2>4 DEF PlainInv, LiveInv
  <1>4. CASE WriteCb
    BY <1>4, WriteCbPlain
  <1>5. CASE Eof \/ BioFull \/ NothingRead
    <2>1. UNCHANGED <<parts, wire>> /\ shut' # "no"
      BY <1>5 DEF Eof, BioFull, NothingRead, Shutdown, remoteVars, endVars
    <2>2. QED
      BY <2>1, SameRecords DEF PlainInv, LiveInv, Live
  <1>6. CASE DoHandshake
    BY <1>6, DoHandshakePlain
  <1>7. CASE Read
    BY <1>7, ReadPlain
  <1>8. CASE RdStart
    BY <1>8, RdStartPlain
  <1>9. CASE RdHandshake
    BY <1>9, RdHandshakePlain
  <1>10. CASE RdWait
    BY <1>10, RdWaitPlain
  <1>11. CASE RdParts
    BY <1>11, RdPartsPlain
  <1>12. CASE UNCHANGED vars
    <2>1. UNCHANGED <<parts, wire, used, tls, state, chunk, taken, shut, flight, fault>>
      BY <1>12 DEF vars, remoteVars, bioVars, endVars
    <2>2. RecordsOK' /\ (LiveInv => LiveInv')
      BY <2>1, SameRecords DEF PlainInv, LiveInv, Live, Position, AtStart, Behind, Unit,
                               Here, Reading, TlsStage, FlightStage
    <2>3. QED
      BY <2>2 DEF PlainInv
  <1>13. QED
    BY <1>1, <1>2, <1>3, <1>4, <1>5, <1>6, <1>7, <1>8, <1>9, <1>10, <1>11, <1>12
       DEF Next, Callback, ReaderStep

\* A unit that is taken before the end of the connection is the next one.
LEMMA TakenNext ==
    ASSUME IInv, PlainInv, Plain', [Next]_vars, TakenInOrder, Plain
    PROVE  TakenInOrder'
  <1> DEFINE Good(u, i) ==
                 ~u.late => /\ u.what = IF i = 1 THEN "handshake" ELSE "header"
                            /\ u.at = UnitAt(i)
                            /\ u.whole
  <1>1. TakenInOrder' <=> \A i \in DOMAIN taken' : Good(taken'[i], i)
    BY DEF TakenInOrder, Plain, UnitAt
  <1>2. \A i \in DOMAIN taken : Good(taken[i], i)
    BY DEF TakenInOrder, Plain
  <1>3. CASE taken' = taken
    BY <1>1, <1>2, <1>3
  <1> HIDE DEF Good
  <1>4. ASSUME NEW what \in {"handshake", "header"}, NEW size \in Nat, Take(what, size),
               LET u == [what |-> what, at |-> Here, late |-> shut # "no",
                         behind |-> chunk.handled > 0,
                         whole |-> chunk.handled + size <= chunk.read]
               IN  Good(u, Len(taken) + 1)
        PROVE  TakenInOrder'
    <2> DEFINE u == [what |-> what, at |-> Here, late |-> shut # "no",
                     behind |-> chunk.handled > 0,
                     whole |-> chunk.handled + size <= chunk.read]
    <2>1. taken' = Append(taken, u) /\ Good(u, Len(taken) + 1)
      BY <1>4 DEF Take
    <2> HIDE DEF u
    <2>2. taken \in Seq(Units)
      BY DEF IInv, TypeOK, Units
    <2>3. /\ DOMAIN taken' = 1 .. Len(taken) + 1 /\ DOMAIN taken = 1 .. Len(taken)
          /\ \A i \in 1 .. Len(taken) : taken'[i] = taken[i]
          /\ taken'[Len(taken) + 1] = u /\ Len(taken) \in Nat
      BY <2>1, <2>2
    <2>4. QED
      BY <1>1, <1>2, <2>1, <2>3
  <1>5. HandshakeSize \in Nat /\ HeaderSize \in Nat
    BY SizesAssumption
  <1>6. CASE RdHandshake /\ taken' # taken
    <2>1. Take("handshake", HandshakeSize) /\ GreetingFits(chunk.read - chunk.handled)
          /\ fault = "none" /\ chunk.active /\ state = "handshake"
      BY <1>6 DEF RdHandshake, InReader, Running
    <2> DEFINE u == [what |-> "handshake", at |-> Here, late |-> shut # "no",
                     behind |-> chunk.handled > 0,
                     whole |-> chunk.handled + HandshakeSize <= chunk.read]
    <2>2. Good(u, Len(taken) + 1)
      <3>1. CASE shut # "no"
        BY <3>1 DEF Good
      <3>2. CASE shut = "no"
        <4>1. /\ taken = <<>> /\ chunk.from = 0 /\ chunk.handled = 0
              /\ HandshakeSize <= chunk.read
          BY <2>1, <3>2, HandshakeAhead DEF Live
        <4>2. Len(taken) + 1 = 1 /\ Here = 0 /\ UnitAt(1) = 0
          BY <4>1 DEF Here, UnitAt
        <4>3. chunk.handled + HandshakeSize <= chunk.read
          BY <1>5, <4>1
        <4>4. QED
          BY <4>2, <4>3 DEF Good
      <3>3. QED
        BY <3>1, <3>2
    <2>3. QED
      BY <1>4, <1>5, <2>1, <2>2
  <1>7. CASE RdWait /\ taken' # taken
    <2>1. Take("header", HeaderSize) /\ fault = "none" /\ chunk.active /\ state = "wait"
      BY <1>7 DEF RdWait, InReader, Running
    <2> DEFINE u == [what |-> "header", at |-> Here, late |-> shut # "no",
                     behind |-> chunk.handled > 0,
                     whole |-> chunk.handled + HeaderSize <= chunk.read]
    <2>2. Good(u, Len(taken) + 1)
      <3>1. CASE shut # "no"
        BY <3>1 DEF Good
      <3>2. CASE shut = "no"
        <4>1. PICK j \in 0 .. Messages : /\ Len(taken) = j + 1 /\ Here = Unit(j)
                                         /\ chunk.handled + HeaderSize <= chunk.read
          BY <2>1, <3>2, HeaderAhead DEF Live
        <4>2. j \in Nat
          BY SizesAssumption
        <4>3. Len(taken) + 1 = j + 2 /\ j + 2 # 1 /\ (j + 2) - 2 = j
          BY <4>1, <4>2
        <4>4. UnitAt(j + 2) = Unit(j)
          BY <4>3 DEF UnitAt, Unit
        <4>5. QED
          BY <4>1, <4>3, <4>4 DEF Good
      <3>3. QED
        BY <3>1, <3>2
    <2>3. QED
      BY <1>4, <1>5, <2>1, <2>2
  <1>8. taken' = taken \/ RdHandshake \/ RdWait
    BY DEF Next, vars, RemoteFlight, RemoteData, ReadCb, NothingRead, Eof, WriteCb,
           Callback, BioFull, DoHandshake, Read, ReaderStep, RdStart, RdParts
  <1>9. QED
    BY <1>3, <1>6, <1>7, <1>8

(* As long as no record ends inside a unit, the handshake and the headers  *)
(* of a remote are taken in the order of the stream, each as a whole and   *)
(* once, however TCP delivers them, until the connection is shut down.     *)
THEOREM UnitsInOrder == Spec => []TakenInOrder
  <1> DEFINE Inv == IInv /\ (Plain => PlainInv) /\ TakenInOrder
  <1>1. Init => Inv
    <2> SUFFICES ASSUME Init PROVE Inv
      OBVIOUS
    <2>1. Len(wire) = 0 /\ 3 .. Len(wire) = {} /\ ~chunk.active
      BY DEF Init, NoChunk
    <2>2. RecordsOK
      BY <2>1 DEF RecordsOK
    <2>3. Position /\ TlsStage /\ FlightStage
      BY <2>1 DEF Init, Position, AtStart, Reading, TlsStage, FlightStage
    <2>4. TakenInOrder
      BY DEF Init, TakenInOrder
    <2>5. QED
      BY <2>2, <2>3, <2>4, InitTypes DEF PlainInv, LiveInv
  <1>2. Inv /\ [Next]_vars => Inv'
    <2> SUFFICES ASSUME Inv, [Next]_vars PROVE Inv'
      OBVIOUS
    <2>1. OddGrows
      BY DEF OddGrows, Next, vars, RemoteFlight, RemoteData, ReadCb, NothingRead, Eof,
             WriteCb, Callback, BioFull, DoHandshake, Read, ReaderStep, RdStart, RdHandshake,
             RdWait, RdParts
    <2>2. Plain' => Plain
      BY <2>1 DEF OddGrows, Plain
    <2>3. Plain' => PlainInv' /\ TakenInOrder'
      BY <2>2, NextPlain, TakenNext
    <2>4. ~Plain' => TakenInOrder'
      BY DEF Plain, TakenInOrder
    <2>5. QED
      BY <2>3, <2>4, NextTypes
  <1>3. Inv => TakenInOrder
    OBVIOUS
  <1> HIDE DEF Inv
  <1>4. QED
    BY <1>1, <1>2, <1>3, PTL DEF Spec
=============================================================================
