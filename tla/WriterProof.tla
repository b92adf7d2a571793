----------------------------- MODULE WriterProof -----------------------------
(***************************************************************************)
(* Theorems about Writer, for any messages with parts of any size, any     *)
(* buffer and record size and every environment.                           *)
(*                                                                         *)
(* The handlers are operators on the record conn, so the proof has a lemma *)
(* for each of them: what it makes of a connection in order is in order,   *)
(* and it either leaves the message alone or answers it.                   *)
(***************************************************************************)
EXTENDS Writer, TLAPS

Reports  == [message : Messages, status : {"error", "timeout"}]
Writings == [message : Messages, part : PartNames, units : Nat]

Connections ==
    [acknowledge : BOOLEAN, memory : {"alive", "freed"}, handshake : BOOLEAN,
     reader : {"start", "handshake", "wait"}, known : BOOLEAN,
     shutting : BOOLEAN, notified : BOOLEAN,
     flight : {"none", "pending", "write"}, bio : Nat, size : Nat,
     written : Nat, callback : PartNames \cup {"NULL"}, locked : BOOLEAN,
     timer : BOOLEAN, message : Messages \cup {NoMessage},
     reported : Seq(Reports), wire : Seq(Writings),
     fault : {"none", "overlap", "callback", "timer"}]

(* A write of the writer or of the handshake is only in flight on a        *)
(* connection that nobody has begun to shut down, and a part is only       *)
(* written under the lock.                                                 *)
Working(s) ==
    /\ s.known => ~s.handshake /\ ~s.shutting
    /\ s.notified <=> s.shutting /\ ~s.handshake
    /\ s.locked => s.message \in Messages
    /\ s.flight = "write" =>
          /\ ~s.handshake /\ ~s.shutting /\ s.written <= s.size
          /\ s.callback # "NULL" => s.locked

Good(s) == s \in Connections /\ (s.fault = "none" => Working(s))

(* The message is left alone.                                              *)
Kept(s, t) ==
    /\ t.locked = s.locked /\ t.timer = s.timer /\ t.message = s.message
    /\ t.reported = s.reported

(* The handshake is as far as it was and nobody has begun to shut down.    *)
Same(s, t) == t.handshake = s.handshake /\ t.shutting = s.shutting

(* The message is over and its answer is given.                            *)
Over(s, t) ==
    /\ s.locked /\ ~t.locked /\ ~t.timer
    /\ \E status \in {"error", "timeout"} :
          t.reported = Append(s.reported, [message |-> s.message, status |-> status])

-----------------------------------------------------------------------------
(* Amounts.                                                                *)

LEMMA MinOfTwo ==
    ASSUME NEW a \in Int, NEW b \in Int
    PROVE  /\ Min({a, b}) \in {a, b} /\ Min({a, b}) <= a /\ Min({a, b}) <= b
           /\ Min({a, b}) \in Int
  <1>1. \E m \in {a, b} : \A y \in {a, b} : m <= y
    <2>1. CASE a <= b
      BY <2>1
    <2>2. CASE b <= a
      BY <2>2
    <2>3. QED
      BY <2>1, <2>2
  <1>2. Min({a, b}) \in {a, b} /\ \A y \in {a, b} : Min({a, b}) <= y
    BY <1>1, Zenon DEF Min
  <1>3. QED
    BY <1>2

LEMMA EncryptedAmount ==
    ASSUME NEW n \in Nat
    PROVE  Encrypted(n) \in 0 .. n
  <1> DEFINE a == Min({n, BufferSize})
             k == (a + RecordSize - 1) \div RecordSize
  <1>1. a \in Nat /\ RecordSize \in Nat \ {0}
    BY MinOfTwo, BufferAssumption
  <1>2. a + RecordSize - 1 \in Nat
    BY <1>1
  <1>3. k \in Nat
    BY <1>1, <1>2
  <1> HIDE DEF k, a
  <1> DEFINE p == RecordSize * k
  <1>4. p \in Nat
    BY <1>1, <1>3
  <1>5. Encrypted(n) = Min({n, p})
    BY DEF Encrypted, p, k, a
  <1> HIDE DEF p
  <1>6. Min({n, p}) \in {n, p} /\ Min({n, p}) <= n
    BY <1>4, MinOfTwo
  <1>7. QED
    BY <1>4, <1>5, <1>6

-----------------------------------------------------------------------------
(* The write path.                                                         *)

LEMMA UvWriteFields ==
    ASSUME NEW s \in Connections, NEW owner \in {"pending", "write"}
    PROVE  LET t == UvWrite(s, owner)
           IN  /\ t \in Connections /\ Kept(s, t)
               /\ s.flight = "none" => t.flight = owner /\ t.fault = s.fault
               /\ s.flight # "none" => t.fault = "overlap"
               /\ t.known = s.known /\ t.handshake = s.handshake
               /\ t.shutting = s.shutting /\ t.notified = s.notified
               /\ t.written = s.written /\ t.size = s.size
               /\ t.callback = s.callback /\ t.reader = s.reader
               /\ t.memory = s.memory /\ t.wire = s.wire
  <1> DEFINE m == Min({s.bio, BufferSize})
  <1>1. s.bio \in Nat /\ s.bio - m \in Nat
    <2>1. s.bio \in Nat /\ BufferSize \in Nat
      BY BufferAssumption DEF Connections
    <2>2. ASSUME NEW a \in Nat, NEW b \in Nat
          PROVE  Min({a, b}) \in Int /\ Min({a, b}) <= a
      BY MinOfTwo
    <2>3. m \in Int /\ m <= s.bio
      BY <2>1, <2>2
    <2>4. QED
      BY <2>1, <2>3
  <1>2. UvWrite(s, owner) = IF s.flight # "none"
                            THEN [s EXCEPT !.fault = "overlap"]
                            ELSE [s EXCEPT !.flight = owner, !.bio = s.bio - m]
    BY DEF UvWrite, Connections
  <1> HIDE DEF m
  <1>3. CASE s.flight # "none"
    BY <1>2, <1>3 DEF Connections, Kept
  <1>4. CASE s.flight = "none"
    <2> DEFINE k == s.bio - m  q == [s EXCEPT !.flight = owner]
    <2>1. UvWrite(s, owner) = [q EXCEPT !.bio = k]
      BY <1>2, <1>4 DEF Connections
    <2>2. /\ q \in Connections /\ q.flight = owner /\ Kept(s, q)
          /\ q.fault = s.fault /\ q.known = s.known /\ q.handshake = s.handshake
          /\ q.shutting = s.shutting /\ q.notified = s.notified
          /\ q.written = s.written /\ q.size = s.size
          /\ q.callback = s.callback /\ q.reader = s.reader
          /\ q.memory = s.memory /\ q.wire = s.wire
      BY ONLY s \in Connections, owner \in {"pending", "write"} DEF Connections, Kept
    <2>3. k \in Nat
      BY <1>1
    <2> DEFINE t == UvWrite(s, owner)
    <2> HIDE DEF k, q, t
    <2>4. t = [q EXCEPT !.bio = k]
      BY <2>1 DEF t
    <2>5. /\ t \in Connections /\ t.flight = q.flight /\ Kept(q, t)
          /\ t.fault = q.fault /\ t.known = q.known /\ t.handshake = q.handshake
          /\ t.shutting = q.shutting /\ t.notified = q.notified
          /\ t.written = q.written /\ t.size = q.size
          /\ t.callback = q.callback /\ t.reader = q.reader
          /\ t.memory = q.memory /\ t.wire = q.wire
      BY ONLY <2>2, <2>3, <2>4 DEF Connections, Kept
    <2>6. Kept(s, t)
      BY ONLY <2>2, <2>5 DEF Kept
    <2>7. QED
      BY <1>4, <2>2, <2>5, <2>6 DEF t
  <1>5. QED
    BY <1>3, <1>4

LEMMA PartialWriteGood ==
    ASSUME NEW s \in Connections, Working(s), ~s.handshake,
           s.written <= s.size, s.callback # "NULL" => s.locked
    PROVE  /\ Good(PartialWrite(s)) /\ Kept(s, PartialWrite(s))
           /\ Same(s, PartialWrite(s))
  <1> DEFINE n == Encrypted(s.size - s.written)
             r == [s EXCEPT !.bio = s.bio + n, !.written = s.written + n]
  <1>1. CASE s.notified
    BY <1>1 DEF PartialWrite, Good, Kept, Same
  <1>2. CASE ~s.notified
    <2>1. /\ s.size \in Nat /\ s.written \in Nat /\ s.bio \in Nat
          /\ s.size - s.written \in Nat
      BY DEF Connections
    <2>2. n \in 0 .. s.size - s.written
      BY <2>1, EncryptedAmount
    <2>3. PartialWrite(s) = UvWrite(r, "write")
      BY <1>2 DEF PartialWrite, Connections
    <2> HIDE DEF n
    <2> DEFINE bio == s.bio + n
               written == s.written + n
    <2>4. bio \in Nat /\ written \in Nat /\ written <= s.size
      BY <2>1, <2>2
    <2>5. r = [s EXCEPT !.bio = bio, !.written = written]
      OBVIOUS
    <2> HIDE DEF r, bio, written
    <2>6. r \in Connections /\ r.written = written /\ r.size = s.size
      BY <2>4, <2>5 DEF Connections
    <2>7. /\ Kept(s, r)
          /\ r.known = s.known /\ r.handshake = s.handshake
          /\ r.shutting = s.shutting /\ r.notified = s.notified
          /\ r.callback = s.callback /\ r.flight = s.flight
      BY <2>5 DEF Connections, Kept
    <2>8. QED
      BY <1>2, <2>3, <2>4, <2>6, <2>7, UvWriteFields DEF Working, Good, Kept, Same
  <1>3. QED
    BY <1>1, <1>2

LEMMA WriteGood ==
    ASSUME NEW s \in Connections, Working(s), ~s.handshake,
           NEW callback \in PartNames \cup {"NULL"}, NEW n \in Nat,
           callback # "NULL" => s.locked
    PROVE  /\ Good(Write(s, callback, n)) /\ Kept(s, Write(s, callback, n))
           /\ Same(s, Write(s, callback, n))
  <1> DEFINE r == [s EXCEPT !.callback = callback, !.size = n, !.written = 0]
  <1>1. r \in Connections /\ Kept(s, r) /\ Same(s, r) /\ r.written <= r.size
        /\ ~r.handshake /\ r.callback = callback
        /\ r.known = s.known /\ r.shutting = s.shutting
        /\ r.notified = s.notified /\ r.flight = s.flight
    <2>1. r \in Connections
      BY DEF Connections
    <2>2. r.written = 0 /\ r.size = n /\ r.callback = callback
      BY DEF Connections
    <2>3. /\ Kept(s, r) /\ Same(s, r) /\ ~r.handshake
          /\ r.known = s.known /\ r.shutting = s.shutting
          /\ r.notified = s.notified /\ r.flight = s.flight
      BY DEF Connections, Kept, Same
    <2> HIDE DEF r
    <2>4. QED
      BY <2>1, <2>2, <2>3
  <1>2. Write(s, callback, n) = PartialWrite(r)
    BY DEF Write
  <1> HIDE DEF r
  <1>3. Working(r)
    BY <1>1 DEF Working, Kept
  <1>4. Good(PartialWrite(r)) /\ Kept(r, PartialWrite(r)) /\ Same(r, PartialWrite(r))
    BY <1>1, <1>3, PartialWriteGood DEF Kept
  <1>5. QED
    BY <1>1, <1>2, <1>4 DEF Kept, Same

LEMMA ShutdownGood ==
    ASSUME NEW s \in Connections, Working(s)
    PROVE  /\ Good(Shutdown(s)) /\ Kept(s, Shutdown(s))
           /\ Shutdown(s).shutting
  <1> DEFINE q == [s EXCEPT !.known = FALSE, !.shutting = TRUE]
             r == [q EXCEPT !.notified = TRUE, !.bio = q.bio + 1]
  <1>1. CASE s.shutting
    BY <1>1 DEF Shutdown, Good, Kept
  <1>2. CASE ~s.shutting /\ s.handshake
    <2>1. Shutdown(s) = q
      BY <1>2 DEF Shutdown
    <2>2. /\ q \in Connections /\ Kept(s, q) /\ q.shutting /\ ~q.known
          /\ q.handshake = s.handshake /\ q.notified = s.notified
          /\ q.locked = s.locked /\ q.message = s.message /\ q.flight = s.flight
      BY ONLY s \in Connections DEF Connections, Kept
    <2> HIDE DEF q
    <2>3. Working(q)
      BY ONLY <1>2, <2>2, Working(s) DEF Working
    <2>4. QED
      BY ONLY <2>1, <2>2, <2>3 DEF Good
  <1>3. CASE ~s.shutting /\ ~s.handshake
    <2>1. Shutdown(s) = UvWrite(r, "pending")
      BY <1>3 DEF Shutdown, Connections
    <2>2. r \in Connections /\ Kept(s, r) /\ ~r.known /\ r.shutting /\ r.notified
          /\ ~r.handshake /\ r.flight = s.flight
      <3>1. s.bio + 1 \in Nat
        BY DEF Connections
      <3>2. r = [s EXCEPT !.known = FALSE, !.shutting = TRUE, !.notified = TRUE,
                          !.bio = s.bio + 1]
        BY DEF Connections
      <3>3. r \in Connections
        BY <3>1, <3>2 DEF Connections
      <3>4. QED
        BY <1>3, <3>2, <3>3 DEF Connections, Kept
    <2> HIDE DEF r, q
    <2> DEFINE t == UvWrite(r, "pending")
    <2>3. /\ t \in Connections /\ Kept(r, t)
          /\ r.flight = "none" => t.flight = "pending"
          /\ r.flight # "none" => t.fault = "overlap"
          /\ t.known = r.known /\ t.handshake = r.handshake
          /\ t.shutting = r.shutting /\ t.notified = r.notified
      BY <2>2, UvWriteFields
    <2> HIDE DEF t
    <2>4. Kept(s, t) /\ t.shutting
      BY <2>2, <2>3 DEF Kept
    <2>5. t.flight = "write" => t.fault = "overlap"
      BY <2>2, <2>3
    <2>6. t.fault = "none" => Working(t)
      BY <2>2, <2>3, <2>5 DEF Working, Kept
    <2>7. QED
      BY <2>1, <2>2, <2>3, <2>4, <2>5, <2>6 DEF Good, t
  <1>4. QED
    BY <1>1, <1>2, <1>3

LEMMA GreetGood ==
    ASSUME NEW s \in Connections, Working(s), ~s.handshake
    PROVE  Good(Greet(s)) /\ Kept(s, Greet(s)) /\ Same(s, Greet(s))
  <1> DEFINE r == Write(s, "NULL", 1)
  <1>1. Good(r) /\ Kept(s, r) /\ Same(s, r)
    BY WriteGood
  <1>2. Greet(s) = [r EXCEPT !.reader = "handshake"]
    BY DEF Greet
  <1> HIDE DEF r
  <1>3. Greet(s) \in Connections
    BY <1>1, <1>2 DEF Good, Connections
  <1>4. Kept(s, Greet(s)) /\ Same(s, Greet(s))
    BY <1>1, <1>2 DEF Good, Connections, Kept, Same
  <1>5. Greet(s).fault = r.fault /\ (Working(r) => Working(Greet(s)))
    BY <1>1, <1>2 DEF Good, Connections, Working
  <1>6. QED
    BY <1>1, <1>3, <1>4, <1>5 DEF Good

LEMMA StartReaderGood ==
    ASSUME NEW s \in Connections, Working(s), ~s.handshake
    PROVE  Good(StartReader(s)) /\ Kept(s, StartReader(s))
  <1>1. CASE s.reader = "start"
    BY <1>1, GreetGood DEF StartReader
  <1>2. CASE s.reader = "wait"
    BY <1>2, ShutdownGood DEF StartReader
  <1>3. CASE s.reader = "handshake"
    <2> DEFINE r == Shutdown(s)
               t == [r EXCEPT !.reader = "wait"]
    <2>1. Good(r) /\ Kept(s, r)
      BY ShutdownGood
    <2>2. StartReader(s) = t
      BY <1>3 DEF StartReader
    <2> HIDE DEF r
    <2>3. t \in Connections /\ t.fault = r.fault
      BY <2>1 DEF Good, Connections
    <2>4. Kept(s, t) /\ (Working(r) => Working(t))
      BY <2>1 DEF Good, Connections, Kept, Working
    <2>5. QED
      BY <2>1, <2>2, <2>3, <2>4 DEF Good
  <1>4. QED
    BY <1>1, <1>2, <1>3 DEF Connections

LEMMA SendIfPendingGood ==
    ASSUME NEW s \in Connections, Working(s), s.flight # "write" \/ s.bio > 0
    PROVE  Good(SendIfPending(s)) /\ Kept(s, SendIfPending(s))
  <1>1. CASE s.bio > 0
    <2> DEFINE t == UvWrite(s, "pending")
    <2>1. /\ t \in Connections /\ Kept(s, t)
          /\ s.flight = "none" => t.flight = "pending"
          /\ s.flight # "none" => t.fault = "overlap"
          /\ t.known = s.known /\ t.handshake = s.handshake
          /\ t.shutting = s.shutting /\ t.notified = s.notified
      BY UvWriteFields
    <2>2. SendIfPending(s) = t
      BY <1>1 DEF SendIfPending
    <2> HIDE DEF t
    <2>3. t.fault = "none" => Working(t)
      BY <2>1 DEF Working, Kept
    <2>4. QED
      BY <2>1, <2>2, <2>3 DEF Good
  <1>2. CASE ~(s.bio > 0) /\ s.handshake
    BY <1>2 DEF SendIfPending, Good, Kept
  <1>3. CASE ~(s.bio > 0) /\ ~s.handshake
    BY <1>3, StartReaderGood DEF SendIfPending
  <1>4. QED
    BY <1>1, <1>2, <1>3

-----------------------------------------------------------------------------
(* The writer.                                                             *)

LEMMA AnswerGood ==
    ASSUME NEW s \in Connections, s.fault = "none" => Working(s) /\ s.flight # "write",
           s.locked, s.message \in Messages, NEW status \in {"error", "timeout"}
    PROVE  Good(Answer(s, status)) /\ Over(s, Answer(s, status))
  <1> DEFINE report == [message |-> s.message, status |-> status]
             t == Answer(s, status)
  <1>1. Append(s.reported, report) \in Seq(Reports)
    BY DEF Connections, Reports
  <1>2. t = [s EXCEPT !.timer = FALSE, !.locked = FALSE,
                      !.reported = Append(s.reported, report)]
    BY DEF Answer, Connections
  <1>3. t.reported = Append(s.reported, report)
    BY <1>2 DEF Connections
  <1> HIDE DEF report
  <1>4. t \in Connections
    <2> DEFINE q == [s EXCEPT !.timer = FALSE, !.locked = FALSE]
               reports == Append(s.reported, report)
    <2>1. q \in Connections
      BY ONLY s \in Connections DEF Connections
    <2>2. t = [q EXCEPT !.reported = reports]
      BY <1>2 DEF Connections
    <2>3. reports \in Seq(Reports)
      BY <1>1
    <2> HIDE DEF q, reports, t
    <2>4. QED
      BY ONLY <2>1, <2>2, <2>3 DEF Connections
  <1>5. /\ ~t.locked /\ ~t.timer /\ t.fault = s.fault /\ t.known = s.known
        /\ t.handshake = s.handshake /\ t.shutting = s.shutting
        /\ t.notified = s.notified /\ t.flight = s.flight
    BY <1>2 DEF Connections
  <1>6. t.fault = "none" => Working(t)
    BY <1>5 DEF Working
  <1>7. QED
    BY <1>3, <1>4, <1>5, <1>6 DEF Good, Over, report

LEMMA FinishGood ==
    ASSUME NEW s \in Connections, Working(s), s.flight # "write", s.locked
    PROVE  Good(Finish(s)) /\ (Kept(s, Finish(s)) \/ Over(s, Finish(s)))
  <1>1. CASE s.acknowledge
    BY <1>1 DEF Finish, Good, Kept
  <1>2. CASE ~s.acknowledge
    BY <1>2, AnswerGood DEF Finish, Working
  <1>3. QED
    BY <1>1, <1>2

LEMMA NextPart ==
    ASSUME NEW m \in Messages, NEW p \in PartNames, Rest(m, p) # {}
    PROVE  /\ Parts[Min(Rest(m, p))] \in PartNames
           /\ Size[m][Parts[Min(Rest(m, p))]] \in Nat
  <1> DEFINE R == Rest(m, p)
  <1>1. R \subseteq 1 .. 4
    BY DEF Rest
  <1> HIDE DEF R
  <1>2. \E x \in R : \A y \in R : x <= y
    <2>1. PICK z \in R : TRUE
      BY DEF R
    <2>2. CASE 1 \in R
      BY <1>1, <2>2
    <2>3. CASE 1 \notin R /\ 2 \in R
      BY <1>1, <2>3
    <2>4. CASE 1 \notin R /\ 2 \notin R /\ 3 \in R
      BY <1>1, <2>4
    <2>5. CASE 1 \notin R /\ 2 \notin R /\ 3 \notin R
      BY <1>1, <2>1, <2>5
    <2>6. QED
      BY <2>2, <2>3, <2>4, <2>5
  <1>3. Min(R) \in R
    BY <1>2, Zenon DEF Min
  <1>4. Min(R) \in 1 .. 4
    BY <1>1, <1>3
  <1>5. \A i \in 1 .. 4 : Parts[i] \in PartNames
    BY DEF Parts, PartNames
  <1>6. QED
    BY <1>4, <1>5, SizeAssumption DEF R

LEMMA PartWrittenGood ==
    ASSUME NEW s \in Connections, Working(s), s.flight = "none", ~s.handshake,
           s.locked, s.callback \in PartNames
    PROVE  Good(PartWritten(s)) /\ (Kept(s, PartWritten(s)) \/ Over(s, PartWritten(s)))
  <1> DEFINE m == s.message
             w == [message |-> m, part |-> s.callback, units |-> s.written]
             t == [s EXCEPT !.wire = Append(s.wire, w)]
             next == Parts[Min(Rest(m, s.callback))]
  <1>1. m \in Messages
    BY DEF Working
  <1>2. Append(s.wire, w) \in Seq(Writings)
    BY <1>1 DEF Connections, Writings
  <1>3. PartWritten(s) = IF Rest(m, s.callback) = {} THEN Finish(t)
                         ELSE Write(t, next, Size[m][next])
    BY DEF PartWritten, Connections
  <1> HIDE DEF w
  <1>4. t \in Connections
    BY <1>2 DEF Connections
  <1>5. /\ Kept(s, t) /\ t.flight = "none" /\ ~t.handshake /\ t.locked
        /\ t.known = s.known /\ t.shutting = s.shutting /\ t.notified = s.notified
    BY DEF Connections, Kept
  <1>6. Working(t)
    BY <1>5 DEF Working, Kept
  <1> HIDE DEF t
  <1>7. CASE Rest(m, s.callback) = {}
    <2>1. Good(Finish(t)) /\ (Kept(t, Finish(t)) \/ Over(t, Finish(t)))
      BY <1>4, <1>5, <1>6, FinishGood
    <2>2. QED
      BY <1>3, <1>5, <1>7, <2>1 DEF Kept, Over
  <1>8. CASE Rest(m, s.callback) # {}
    <2>1. next \in PartNames /\ Size[m][next] \in Nat
      BY <1>1, <1>8, NextPart
    <2> HIDE DEF next
    <2>2. Good(Write(t, next, Size[m][next])) /\ Kept(t, Write(t, next, Size[m][next]))
      BY <1>4, <1>5, <1>6, <2>1, WriteGood
    <2>3. QED
      BY <1>3, <1>5, <1>8, <2>2 DEF Kept
  <1>9. QED
    BY <1>7, <1>8

LEMMA WriteFailedGood ==
    ASSUME NEW s \in Connections, Working(s), s.flight = "none",
           s.callback # "NULL" => s.locked
    PROVE  Good(WriteFailed(s)) /\ (Kept(s, WriteFailed(s)) \/ Over(s, WriteFailed(s)))
  <1>1. CASE s.callback = "NULL"
    <2>1. WriteFailed(s) = [s EXCEPT !.fault = "callback"]
      BY <1>1 DEF WriteFailed
    <2>2. QED
      BY <2>1 DEF Good, Kept, Connections
  <1>2. CASE s.callback # "NULL"
    <2> DEFINE t == Shutdown(s)
    <2>1. Good(t) /\ Kept(s, t) /\ t.shutting
      BY ShutdownGood
    <2>2. WriteFailed(s) = Answer(t, "error")
      BY <1>2 DEF WriteFailed
    <2> HIDE DEF t
    <2>3. t.locked /\ t.message \in Messages
      BY <1>2, <2>1 DEF Kept, Working
    <2>4. t.fault = "none" => Working(t) /\ t.flight # "write"
      BY <2>1 DEF Good, Working
    <2>5. Good(Answer(t, "error")) /\ Over(t, Answer(t, "error"))
      BY <2>1, <2>3, <2>4, AnswerGood DEF Good
    <2>6. QED
      BY <2>1, <2>2, <2>5 DEF Kept, Over
  <1>3. QED
    BY <1>1, <1>2

LEMMA WriteOKGood ==
    ASSUME NEW s \in Connections, Working(s), s.flight = "none", ~s.handshake,
           ~s.shutting, s.written <= s.size, s.callback # "NULL" => s.locked
    PROVE  Good(WriteOK(s)) /\ (Kept(s, WriteOK(s)) \/ Over(s, WriteOK(s)))
  <1> DEFINE r == [s EXCEPT !.size = 0]
  <1>1. ~NotEncrypted(s)
    BY DEF NotEncrypted, Connections
  <1>2. r \in Connections
    BY DEF Connections
  <1>3. /\ Kept(s, r) /\ Same(s, r) /\ r.flight = "none" /\ r.callback = s.callback
        /\ r.known = s.known /\ r.notified = s.notified
    BY DEF Connections, Kept, Same
  <1> HIDE DEF r
  <1>4. Working(r)
    BY <1>3 DEF Working, Kept, Same
  <1>5. CASE s.bio > 0
    <2> DEFINE t == UvWrite(s, "write")
    <2>1. /\ t \in Connections /\ Kept(s, t) /\ t.known = s.known
          /\ t.handshake = s.handshake /\ t.shutting = s.shutting
          /\ t.notified = s.notified /\ t.written = s.written /\ t.size = s.size
          /\ t.callback = s.callback
      BY UvWriteFields
    <2>2. WriteOK(s) = t
      BY <1>1, <1>5 DEF WriteOK
    <2> HIDE DEF t
    <2>3. Working(t)
      BY <2>1 DEF Working, Kept
    <2>4. QED
      BY <2>1, <2>2, <2>3 DEF Good
  <1>6. CASE ~(s.bio > 0) /\ s.callback = "NULL"
    <2>1. WriteOK(s) = r
      BY <1>1, <1>6 DEF WriteOK, r
    <2>2. QED
      BY <1>2, <1>3, <1>4, <2>1 DEF Good
  <1>7. CASE ~(s.bio > 0) /\ s.callback # "NULL"
    <2>1. WriteOK(s) = PartWritten(r)
      BY <1>1, <1>7 DEF WriteOK, r
    <2>2. s.callback \in PartNames
      BY <1>7 DEF Connections
    <2>3. Good(PartWritten(r)) /\ (Kept(r, PartWritten(r)) \/ Over(r, PartWritten(r)))
      BY <1>2, <1>3, <1>4, <1>7, <2>2, PartWrittenGood DEF Kept, Same
    <2>4. QED
      BY <1>3, <2>1, <2>3 DEF Kept, Over
  <1>8. QED
    BY <1>5, <1>6, <1>7

LEMMA CalledGood ==
    ASSUME NEW s \in Connections, Working(s), s.flight # "none", NEW ok \in BOOLEAN
    PROVE  Good(Called(s, ok)) /\ (Kept(s, Called(s, ok)) \/ Over(s, Called(s, ok)))
  <1> DEFINE t == [s EXCEPT !.flight = "none"]
  <1>1. t \in Connections
    BY DEF Connections
  <1>2. /\ Kept(s, t) /\ Same(s, t) /\ t.flight = "none" /\ t.callback = s.callback
        /\ t.known = s.known /\ t.notified = s.notified
        /\ t.written = s.written /\ t.size = s.size
    BY DEF Connections, Kept, Same
  <1>3. Called(s, ok) = IF s.flight = "write"
                        THEN IF ok THEN WriteOK(t) ELSE WriteFailed(t)
                        ELSE IF ok THEN SendIfPending(t) ELSE Shutdown(t)
    BY DEF Called
  <1> HIDE DEF t
  <1>4. Working(t)
    BY <1>2 DEF Working, Kept, Same
  <1>5. s.flight = "write" => /\ ~t.handshake /\ ~t.shutting /\ t.written <= t.size
                              /\ t.callback # "NULL" => t.locked
    BY <1>2 DEF Working, Kept, Same
  <1> DEFINE u == Called(s, ok)
  <1>6. CASE s.flight = "write" /\ ok
    BY <1>1, <1>2, <1>3, <1>4, <1>5, <1>6, WriteOKGood DEF Kept, Over
  <1>7. CASE s.flight = "write" /\ ~ok
    BY <1>1, <1>2, <1>3, <1>4, <1>5, <1>7, WriteFailedGood DEF Kept, Over
  <1>8. CASE s.flight # "write" /\ ok
    BY <1>1, <1>2, <1>3, <1>4, <1>8, SendIfPendingGood DEF Kept
  <1>9. CASE s.flight # "write" /\ ~ok
    BY <1>1, <1>2, <1>3, <1>4, <1>9, ShutdownGood DEF Kept
  <1>10. QED
    BY <1>6, <1>7, <1>8, <1>9

-----------------------------------------------------------------------------
(* The events.  The messages that are answered were being sent, and at most *)
(* one, the one that holds the lock, has no answer yet.                    *)

IInv ==
    /\ Good(conn)
    /\ sent \in [Messages -> {"new", "sending", "blocked", "lost"}]
    /\ Answered \subseteq {m \in Messages : sent[m] = "sending"}
    /\ AnsweredOnce
    /\ OneAtATime

LEMMA InitIInv == Init => IInv
  <1> SUFFICES ASSUME Init PROVE IInv
    OBVIOUS
  <1>1. conn \in Connections
    BY DEF Init, Connections
  <1>2. /\ conn.known = FALSE /\ conn.notified = FALSE /\ conn.shutting = FALSE
        /\ conn.handshake = TRUE /\ conn.locked = FALSE /\ conn.timer = FALSE
        /\ conn.flight = "none" /\ conn.reported = <<>>
    BY DEF Init
  <1>3. Working(conn)
    BY <1>2 DEF Working
  <1>4. Answered = {} /\ AnsweredOnce
    BY <1>2 DEF Answered, AnsweredOnce
  <1>5. sent = [m \in Messages |-> "new"]
    BY DEF Init
  <1>6. QED
    BY <1>1, <1>2, <1>3, <1>4, <1>5 DEF IInv, Good, OneAtATime, Unanswered

(* A step that leaves the message alone.                                   *)
LEMMA KeptStep ==
    ASSUME IInv, conn.fault = "none", Good(conn'), Kept(conn, conn'), UNCHANGED sent
    PROVE  IInv'
  <1>1. conn'.locked = conn.locked /\ conn'.timer = conn.timer
        /\ conn'.message = conn.message /\ conn'.reported = conn.reported
    BY DEF Kept
  <1>2. Answered' = Answered /\ Unanswered' = Unanswered
    BY <1>1 DEF Answered, Unanswered
  <1>3. AnsweredOnce'
    BY <1>1 DEF AnsweredOnce, IInv
  <1>4. OneAtATime'
    BY <1>1, <1>2 DEF OneAtATime, IInv
  <1>5. QED
    BY <1>2, <1>3, <1>4 DEF IInv

(* A step that answers the message: it was the one without an answer.      *)
LEMMA OverStep ==
    ASSUME IInv, conn.fault = "none", Good(conn'), Over(conn, conn'), UNCHANGED sent
    PROVE  IInv'
  <1> DEFINE m == conn.message
             r == conn.reported
  <1>1. PICK status \in {"error", "timeout"} :
            conn'.reported = Append(r, [message |-> m, status |-> status])
    BY DEF Over
  <1> DEFINE last == [message |-> m, status |-> status]
  <1>2. Unanswered = {m}
    BY DEF IInv, OneAtATime, Over
  <1>3. m \in Messages /\ sent[m] = "sending" /\ m \notin Answered
    BY <1>2 DEF Unanswered
  <1>4. r \in Seq(Reports) /\ last \in Reports
    BY <1>3 DEF IInv, Good, Connections, Reports
  <1>5. /\ DOMAIN conn'.reported = 1 .. Len(r) + 1
        /\ \A i \in 1 .. Len(r) : conn'.reported[i] = r[i]
        /\ conn'.reported[Len(r) + 1] = last
        /\ DOMAIN r = 1 .. Len(r) /\ Len(r) \in Nat
    BY <1>1, <1>4
  <1> HIDE DEF last
  <1>6. last.message = m
    BY DEF last
  <1>7. \A i \in DOMAIN r : r[i].message \in Answered
    BY DEF Answered
  <1>8. AnsweredOnce'
    <2> SUFFICES ASSUME NEW i \in DOMAIN conn'.reported, NEW j \in DOMAIN conn'.reported,
                        conn'.reported[i].message = conn'.reported[j].message
                 PROVE  i = j
      BY DEF AnsweredOnce
    <2>1. CASE i = Len(r) + 1 /\ j = Len(r) + 1
      BY <2>1
    <2>2. CASE i = Len(r) + 1 /\ j # Len(r) + 1
      BY <1>3, <1>5, <1>6, <1>7, <2>2
    <2>3. CASE i # Len(r) + 1 /\ j = Len(r) + 1
      BY <1>3, <1>5, <1>6, <1>7, <2>3
    <2>4. CASE i # Len(r) + 1 /\ j # Len(r) + 1
      BY <1>5, <2>4 DEF IInv, AnsweredOnce
    <2>5. QED
      BY <2>1, <2>2, <2>3, <2>4
  <1>9. Answered' = Answered \cup {m}
    <2>1. Answered' = {conn'.reported[i].message : i \in DOMAIN conn'.reported}
      BY DEF Answered
    <2>2. \A i \in DOMAIN conn'.reported : conn'.reported[i].message \in Answered \cup {m}
      BY <1>5, <1>6, <1>7
    <2>3. \A x \in Answered \cup {m} :
             \E i \in DOMAIN conn'.reported : conn'.reported[i].message = x
      <3>1. Len(r) + 1 \in DOMAIN conn'.reported
        BY <1>5
      <3>2. conn'.reported[Len(r) + 1].message = m
        BY <1>5, <1>6
      <3>3. \A i \in DOMAIN r : i \in DOMAIN conn'.reported
                                 /\ conn'.reported[i].message = r[i].message
        BY <1>5
      <3>4. QED
        BY <3>1, <3>2, <3>3 DEF Answered
    <2>4. QED
      BY <2>1, <2>2, <2>3
  <1>10. Unanswered' = {} /\ ~conn'.locked /\ ~conn'.timer
    <2>1. Unanswered' = {x \in Messages : sent[x] = "sending"} \ Answered'
      BY DEF Unanswered
    <2>2. QED
      BY <1>2, <1>9, <2>1 DEF Unanswered, Over
  <1>11. OneAtATime'
    <2>1. conn'.locked \in BOOLEAN /\ conn'.timer \in BOOLEAN
      BY DEF Good, Connections
    <2>2. QED
      BY <1>10, <2>1 DEF OneAtATime
  <1>12. Answered' \subseteq {x \in Messages : sent'[x] = "sending"}
    BY <1>3, <1>9 DEF IInv
  <1>13. QED
    BY <1>8, <1>11, <1>12 DEF IInv

(* A step in which ch_chirp_send() takes a message.                        *)
LEMMA SendStep ==
    ASSUME IInv, NEW m \in Messages, Send(m)
    PROVE  IInv'
  <1> DEFINE s == Begin(conn, m)
             n == Size[m]["net"]
  <1>1. /\ conn \in Connections /\ Working(conn) /\ conn.known /\ ~conn.locked
        /\ sent[m] = "new"
    BY DEF IInv, Good, Send, Running
  <1>2. conn' = Write(s, "net", n)
    BY DEF Send
  <1>3. n \in Nat /\ "net" \in PartNames
    BY SizeAssumption DEF PartNames
  <1>4. s \in Connections
    BY <1>1 DEF Begin, Connections
  <1>5. /\ s.locked /\ s.timer /\ s.message = m /\ s.reported = conn.reported
        /\ Same(conn, s) /\ s.flight = conn.flight /\ s.callback = conn.callback
        /\ s.known = conn.known /\ s.notified = conn.notified
        /\ s.written = conn.written /\ s.size = conn.size
    BY <1>1 DEF Begin, Connections, Same
  <1> HIDE DEF s, n
  <1>6. Working(s) /\ ~s.handshake
    BY <1>1, <1>5 DEF Working, Same
  <1>7. Good(conn') /\ Kept(s, conn')
    BY <1>2, <1>3, <1>4, <1>5, <1>6, WriteGood
  <1>8. /\ conn'.locked = TRUE /\ conn'.timer = TRUE /\ conn'.message = m
        /\ conn'.reported = conn.reported
    BY <1>4, <1>5, <1>7 DEF Kept, Connections
  <1>9. sent' = [sent EXCEPT ![m] = "sending"] /\ sent \in [Messages -> {"new", "sending", "blocked", "lost"}]
    BY DEF Send, IInv
  <1>10. Answered' = Answered
    BY <1>8 DEF Answered
  <1>11. Unanswered = {}
    BY <1>1 DEF IInv, OneAtATime, Send, Running
  <1>12. m \notin Answered
    BY <1>1 DEF IInv
  <1>13. Unanswered' = {m}
    <2>1. Unanswered' = {x \in Messages : sent'[x] = "sending"} \ Answered'
      BY DEF Unanswered
    <2>2. QED
      BY <1>9, <1>10, <1>11, <1>12, <2>1 DEF Unanswered
  <1>14. OneAtATime'
    BY <1>8, <1>13 DEF OneAtATime
  <1>15. AnsweredOnce'
    BY <1>8 DEF AnsweredOnce, IInv
  <1>16. Answered' \subseteq {x \in Messages : sent'[x] = "sending"}
    BY <1>9, <1>10 DEF IInv
  <1>17. QED
    BY <1>7, <1>9, <1>14, <1>15, <1>16 DEF IInv

(* A message that is blocked or lost does not touch the connection.        *)
LEMMA NotSentStep ==
    ASSUME IInv, NEW m \in Messages, NEW state \in {"blocked", "lost"},
           sent[m] = "new", sent' = [sent EXCEPT ![m] = state], UNCHANGED conn
    PROVE  IInv'
  <1>1. \A x \in Messages : sent'[x] = "sending" <=> sent[x] = "sending"
    BY DEF IInv
  <1>2. Answered' = Answered /\ Unanswered' = Unanswered
    BY <1>1 DEF Answered, Unanswered
  <1>3. QED
    BY <1>1, <1>2 DEF IInv, Good, AnsweredOnce, OneAtATime

LEMMA TlsFlightStep == IInv /\ TlsFlight => IInv'
  <1> SUFFICES ASSUME IInv, TlsFlight PROVE IInv'
    OBVIOUS
  <1>1. PICK answer \in 0 .. 1, finished \in BOOLEAN :
            conn' = SendIfPending([conn EXCEPT !.bio = @ + answer,
                                               !.handshake = ~finished])
    BY DEF TlsFlight
  <1>2. /\ conn \in Connections /\ Working(conn) /\ conn.fault = "none"
        /\ conn.handshake /\ ~conn.shutting /\ UNCHANGED sent
    BY DEF TlsFlight, Running, IInv, Good
  <1> DEFINE bio == conn.bio + answer
             handshake == ~finished
             s == [conn EXCEPT !.bio = bio, !.handshake = handshake]
  <1>3. conn' = SendIfPending(s)
    BY <1>1
  <1>4. bio \in Nat /\ handshake \in BOOLEAN
    BY <1>2 DEF Connections
  <1> HIDE DEF bio, handshake
  <1>5. s \in Connections
    BY <1>2, <1>4 DEF Connections
  <1>6. /\ Kept(conn, s) /\ s.known = conn.known /\ s.shutting = conn.shutting
        /\ s.notified = conn.notified /\ s.flight = conn.flight
    BY <1>2 DEF Connections, Kept
  <1> HIDE DEF s
  <1>7. Working(s) /\ s.flight # "write"
    BY <1>2, <1>6 DEF Working, Kept
  <1>8. Good(conn') /\ Kept(s, conn')
    BY <1>3, <1>5, <1>7, SendIfPendingGood
  <1>9. QED
    BY <1>2, <1>6, <1>8, KeptStep DEF Kept

LEMMA ReadHandshakeStep == IInv /\ ReadHandshake => IInv'
  <1> SUFFICES ASSUME IInv, ReadHandshake PROVE IInv'
    OBVIOUS
  <1> DEFINE s == IF conn.reader = "start" THEN Greet(conn) ELSE conn
  <1>1. /\ conn \in Connections /\ Working(conn) /\ conn.fault = "none"
        /\ ~conn.handshake /\ ~conn.shutting /\ UNCHANGED sent
        /\ conn' = [s EXCEPT !.known = TRUE, !.reader = "wait"]
    BY DEF ReadHandshake, Running, IInv, Good
  <1>2. Good(s) /\ Kept(conn, s) /\ Same(conn, s)
    <2>1. CASE conn.reader = "start"
      BY <1>1, <2>1, GreetGood
    <2>2. CASE conn.reader # "start"
      BY <1>1, <2>2 DEF Good, Kept, Same
    <2>3. QED
      BY <2>1, <2>2
  <1> HIDE DEF s
  <1>3. conn' \in Connections
    BY <1>1, <1>2 DEF Good, Connections
  <1>4. /\ Kept(s, conn') /\ Same(s, conn') /\ conn'.fault = s.fault
        /\ conn'.notified = s.notified /\ conn'.flight = s.flight
        /\ conn'.written = s.written /\ conn'.size = s.size
        /\ conn'.callback = s.callback
    BY <1>1, <1>2 DEF Good, Connections, Kept, Same
  <1>5. Working(s) => Working(conn')
    BY <1>1, <1>2, <1>4 DEF Working, Kept, Same
  <1>6. Good(conn') /\ Kept(conn, conn')
    BY <1>2, <1>3, <1>4, <1>5 DEF Good, Kept
  <1>7. QED
    BY <1>1, <1>6, KeptStep

LEMMA CloseStep == IInv /\ Close => IInv'
  <1> SUFFICES ASSUME IInv, Close PROVE IInv'
    OBVIOUS
  <1> DEFINE s == IF Idle THEN conn ELSE Called(conn, FALSE)
  <1>1. /\ conn \in Connections /\ Working(conn) /\ conn.fault = "none"
        /\ UNCHANGED sent /\ conn' = [s EXCEPT !.memory = "freed"]
    BY DEF Close, Running, IInv, Good
  <1>2. Good(s) /\ (Kept(conn, s) \/ Over(conn, s))
    <2>1. CASE Idle
      BY <1>1, <2>1 DEF Good, Kept
    <2>2. CASE ~Idle
      BY <1>1, <2>2, CalledGood DEF Idle
    <2>3. QED
      BY <2>1, <2>2
  <1> HIDE DEF s
  <1>3. conn' \in Connections
    BY <1>1, <1>2 DEF Good, Connections
  <1>4. /\ Kept(s, conn') /\ Same(s, conn') /\ conn'.fault = s.fault
        /\ conn'.known = s.known /\ conn'.notified = s.notified
        /\ conn'.flight = s.flight /\ conn'.written = s.written
        /\ conn'.size = s.size /\ conn'.callback = s.callback
    BY <1>1, <1>2 DEF Good, Connections, Kept, Same
  <1>5. Working(s) => Working(conn')
    BY <1>4 DEF Working, Kept, Same
  <1>6. Good(conn')
    BY <1>2, <1>3, <1>4, <1>5 DEF Good
  <1>7. CASE Kept(conn, s)
    BY <1>1, <1>4, <1>6, <1>7, KeptStep DEF Kept
  <1>8. CASE Over(conn, s)
    <2>1. Over(conn, conn')
      BY <1>4, <1>8 DEF Over, Kept
    <2>2. QED
      BY <1>1, <1>6, <2>1, OverStep
  <1>9. QED
    BY <1>2, <1>7, <1>8

LEMMA SendTimeoutStep == IInv /\ SendTimeout => IInv'
  <1> SUFFICES ASSUME IInv, SendTimeout PROVE IInv'
    OBVIOUS
  <1>1. /\ conn \in Connections /\ Working(conn) /\ conn.fault = "none"
        /\ conn.timer /\ conn.locked /\ UNCHANGED sent
    BY DEF SendTimeout, Running, IInv, Good, OneAtATime
  <1>2. CASE conn.memory = "freed"
    <2>1. conn' = [conn EXCEPT !.fault = "timer"]
      BY <1>2 DEF SendTimeout
    <2>2. Good(conn') /\ Kept(conn, conn')
      BY <1>1, <2>1 DEF Good, Kept, Connections
    <2>3. QED
      BY <1>1, <2>2, KeptStep
  <1>3. CASE conn.memory # "freed"
    <2> DEFINE s == Shutdown(conn)
    <2>1. conn' = Answer(s, "timeout")
      BY <1>3 DEF SendTimeout
    <2>2. Good(s) /\ Kept(conn, s) /\ s.shutting
      BY <1>1, ShutdownGood
    <2> HIDE DEF s
    <2>3. s.locked /\ s.message \in Messages
      BY <1>1, <2>2 DEF Kept, Working
    <2>4. s.fault = "none" => Working(s) /\ s.flight # "write"
      BY <2>2 DEF Good, Working
    <2>5. Good(conn') /\ Over(s, conn')
      BY <2>1, <2>2, <2>3, <2>4, AnswerGood DEF Good
    <2>6. Over(conn, conn')
      BY <2>2, <2>5 DEF Over, Kept
    <2>7. QED
      BY <1>1, <2>5, <2>6, OverStep
  <1>4. QED
    BY <1>2, <1>3

LEMMA NextIInv == IInv /\ [Next]_vars => IInv'
  <1> SUFFICES ASSUME IInv, [Next]_vars PROVE IInv'
    OBVIOUS
  <1>1. CASE TlsFlight
    BY <1>1, TlsFlightStep
  <1>2. CASE ReadHandshake
    BY <1>2, ReadHandshakeStep
  <1>3. CASE Disconnect
    <2>1. conn \in Connections /\ Working(conn) /\ conn.fault = "none"
      BY <1>3 DEF Disconnect, Running, IInv, Good
    <2>2. Good(Shutdown(conn)) /\ Kept(conn, Shutdown(conn))
      BY <2>1, ShutdownGood
    <2>3. QED
      BY <1>3, <2>1, <2>2, KeptStep DEF Disconnect
  <1>4. CASE WriteDone
    <2>1. /\ conn \in Connections /\ Working(conn) /\ conn.fault = "none"
          /\ conn.flight # "none" /\ UNCHANGED sent
      BY <1>4 DEF WriteDone, Running, Idle, IInv, Good
    <2>2. PICK ok \in BOOLEAN : conn' = Called(conn, ok)
      BY <1>4 DEF WriteDone
    <2>3. Good(conn') /\ (Kept(conn, conn') \/ Over(conn, conn'))
      BY <2>1, <2>2, CalledGood
    <2>4. QED
      BY <2>1, <2>3, KeptStep, OverStep
  <1>5. CASE Close
    BY <1>5, CloseStep
  <1>6. CASE SendTimeout
    BY <1>6, SendTimeoutStep
  <1>7. ASSUME NEW m \in Messages, Send(m) \/ SendBlocked(m) \/ SendLost(m)
        PROVE  IInv'
    <2>1. CASE Send(m)
      BY <2>1, SendStep
    <2>2. CASE SendBlocked(m)
      BY <2>2, NotSentStep DEF SendBlocked
    <2>3. CASE SendLost(m)
      BY <2>3, NotSentStep DEF SendLost
    <2>4. QED
      BY <1>7, <2>1, <2>2, <2>3
  <1>8. CASE UNCHANGED vars
    <2>1. UNCHANGED conn /\ UNCHANGED sent
      BY <1>8 DEF vars
    <2>2. Answered' = Answered /\ Unanswered' = Unanswered
      BY <2>1 DEF Answered, Unanswered
    <2>3. QED
      BY <2>1, <2>2 DEF IInv, Good, AnsweredOnce, OneAtATime
  <1>9. QED
    BY <1>1, <1>2, <1>3, <1>4, <1>5, <1>6, <1>7, <1>8 DEF Next

\* Every handler of the write path keeps the connection good and answers a message once.
THEOREM Invariance == Spec => []IInv
  BY InitIInv, NextIInv, PTL DEF Spec

(* Every field of the connection keeps its type in every environment.      *)
THEOREM TypeCorrect == Spec => []TypeOK
  <1>1. IInv => TypeOK
    <2> SUFFICES ASSUME IInv PROVE TypeOK
      OBVIOUS
    <2>1. conn \in Connections
      BY DEF IInv, Good
    <2>2. /\ \A i \in DOMAIN conn.reported : conn.reported[i] \in Reports
          /\ \A i \in DOMAIN conn.wire : conn.wire[i] \in Writings
      BY <2>1 DEF Connections
    <2>3. QED
      BY <2>1, <2>2 DEF TypeOK, IInv, Connections, Reports, Writings
  <1>2. QED
    BY <1>1, Invariance, PTL

(* The user is called back at most once for each message, whatever comes   *)
(* first: the last part, a failed or cancelled write, or the timeout.      *)
THEOREM AnswersOnce == Spec => []AnsweredOnce
  <1>1. IInv => AnsweredOnce
    BY DEF IInv
  <1>2. QED
    BY <1>1, Invariance, PTL

(* As long as nothing undefined has happened, the lock is held exactly     *)
(* while one message waits for its callback and the timer runs.            *)
THEOREM OneMessageAtATime == Spec => []OneAtATime
  <1>1. IInv => OneAtATime
    BY DEF IInv
  <1>2. QED
    BY <1>1, Invariance, PTL

-----------------------------------------------------------------------------
(* The wire.  On top of the invariant IInv more theorems are proved: the   *)
(* parts of a message reach the wire in their order and as much of each as *)
(* one call encrypts, a message that is given up half sent closes its      *)
(* connection, and a connection nobody disturbs does nothing undefined.    *)
(*                                                                         *)
(* Again every function of the code has a lemma of its own.                *)
(* Most of them only have to say that the wire is left alone.              *)

(* The parts of message m on the wire of s.                                *)
OnWireOf(s, m) ==
    {s.wire[i].part : i \in {k \in DOMAIN s.wire : s.wire[k].message = m}}

(* Place k of the wire: the parts of its message that come before its own  *)
(* are on the wire before it, and nothing else is in between.              *)
InPlace(s, k) ==
    LET m == s.wire[k].message
        p == s.wire[k].part
    IN  /\ p \in Filled(m)
        /\ \A q \in Filled(m) : Before(q, p) =>
              \E i \in 1 .. k - 1 : s.wire[i].message = m /\ s.wire[i].part = q
        /\ \A i \in 1 .. k - 1 : s.wire[i].message = m =>
              /\ Before(s.wire[i].part, p)
              /\ \A j \in i .. k : s.wire[j].message = m

InOrder(s) == \A k \in DOMAIN s.wire : InPlace(s, k)

(* A part that is called back as written was written as far as one call of *)
(* _ch_cn_partial_write() encrypts.                                        *)
InUnits(s) ==
    \A i \in DOMAIN s.wire :
        s.wire[i].units = Encrypted(Size[s.wire[i].message][s.wire[i].part])

HalfIsClosed(s) ==
    \A i \in DOMAIN s.reported :
        Filled(s.reported[i].message) \subseteq OnWireOf(s, s.reported[i].message)
        \/ s.shutting

(* The message in hand is the last one on the wire.                        *)
InHand(s) ==
    \A i \in DOMAIN s.wire : s.wire[i].message = s.message =>
        \A j \in DOMAIN s.wire : i <= j => s.wire[j].message = s.message

(* A part of the message in hand is being written: the parts before it are *)
(* on the wire, and as much of it as one call encrypts is in the buffer.   *)
InPart(s) ==
    /\ s.callback \in Filled(s.message)
    /\ OnWireOf(s, s.message) = {p \in Filled(s.message) : Before(p, s.callback)}
    /\ s.written = Encrypted(Size[s.message][s.callback])

PartInFlight(s) == s.fault = "none" /\ s.flight = "write" /\ s.callback # "NULL"

Progress(s) ==
    /\ InOrder(s) /\ InUnits(s) /\ HalfIsClosed(s) /\ InHand(s)
    /\ PartInFlight(s) => InPart(s)

(* What the functions of the write path leave alone, and what they do to   *)
(* the connection.                                                         *)
Still(s, t) ==
    /\ t.wire = s.wire /\ t.message = s.message /\ t.memory = s.memory
    /\ s.shutting => t.shutting
    /\ s.flight = "none" => t.fault = s.fault

-----------------------------------------------------------------------------
(* The order of the parts.                                                 *)

LEMMA BeforeOrder ==
    /\ \A p, q \in PartNames : p = q \/ Before(p, q) \/ Before(q, p)
    /\ \A p \in PartNames : ~Before(p, p) /\ ~Before(p, "net")
    /\ \A p, q, r \in PartNames : Before(p, q) /\ Before(q, r) => Before(p, r)
    /\ \A i, j \in 1 .. 4 : Before(Parts[i], Parts[j]) <=> i < j
    /\ \A p \in PartNames : \E i \in 1 .. 4 : Parts[i] = p
    /\ \A i \in 1 .. 4 : Parts[i] \in PartNames
  <1>1. /\ Parts[1] = "net" /\ Parts[2] = "header" /\ Parts[3] = "actor"
        /\ Parts[4] = "data"
    BY DEF Parts
  <1>2. \A i, j \in 1 .. 4 : Parts[i] = Parts[j] => i = j
    BY <1>1
  <1>3. /\ \A p \in PartNames : \E i \in 1 .. 4 : Parts[i] = p
        /\ \A i \in 1 .. 4 : Parts[i] \in PartNames
    BY <1>1 DEF PartNames
  <1>4. \A i, j \in 1 .. 4 : Before(Parts[i], Parts[j]) <=> i < j
    BY <1>2 DEF Before
  <1>5. \A p, q \in PartNames : p = q \/ Before(p, q) \/ Before(q, p)
    BY <1>3, <1>4
  <1>6. \A p \in PartNames : ~Before(p, p) /\ ~Before(p, "net")
    <2> TAKE p \in PartNames
    <2>1. PICK i \in 1 .. 4 : Parts[i] = p
      BY <1>3
    <2>2. ~Before(Parts[i], Parts[i]) /\ ~Before(Parts[i], Parts[1])
      BY <1>4
    <2>3. QED
      BY <1>1, <2>1, <2>2
  <1>7. \A p, q, r \in PartNames : Before(p, q) /\ Before(q, r) => Before(p, r)
    <2> TAKE p, q, r \in PartNames
    <2>1. PICK i \in 1 .. 4, j \in 1 .. 4, k \in 1 .. 4 :
              Parts[i] = p /\ Parts[j] = q /\ Parts[k] = r
      BY <1>3
    <2>2. i < j /\ j < k => i < k
      OBVIOUS
    <2>3. QED
      BY <1>4, <2>1, <2>2
  <1>8. QED
    BY <1>3, <1>4, <1>5, <1>6, <1>7

(* The part that the writer takes next is the first one that is filled     *)
(* after part p; without one every filled part comes up to p.              *)
LEMMA NextIsFirst ==
    ASSUME NEW m \in Messages, NEW p \in PartNames
    PROVE  /\ Rest(m, p) = {} => \A q \in Filled(m) : q = p \/ Before(q, p)
           /\ Rest(m, p) # {} =>
                 LET next == Parts[Min(Rest(m, p))]
                 IN  /\ next \in Filled(m)
                     /\ \A q \in Filled(m) :
                           Before(q, next) <=> q = p \/ Before(q, p)
  <1> DEFINE R == Rest(m, p)
  <1>1. PICK a \in 1 .. 4 : Parts[a] = p
    BY BeforeOrder
  <1>2. R = {i \in 1 .. 4 : Parts[i] \in Filled(m) /\ a < i}
    <2>1. \A i \in 1 .. 4 : (\E j \in 1 .. i - 1 : Parts[j] = p) <=> a < i
      <3> TAKE i \in 1 .. 4
      <3>1. a < i => a \in 1 .. i - 1
        BY <1>1
      <3>2. ASSUME NEW j \in 1 .. i - 1, Parts[j] = p PROVE a < i
        BY <1>1, <3>2, BeforeOrder
      <3>3. QED
        BY <1>1, <3>1, <3>2
    <2>2. \A i \in 1 .. 4 : Parts[i] \in Filled(m) <=> Size[m][Parts[i]] > 0
      BY BeforeOrder DEF Filled
    <2>3. QED
      BY <2>1, <2>2 DEF Rest
  <1> HIDE DEF R
  <1>3. ASSUME R = {} PROVE \A q \in Filled(m) : q = p \/ Before(q, p)
    <2> TAKE q \in Filled(m)
    <2>1. PICK i \in 1 .. 4 : Parts[i] = q
      BY BeforeOrder DEF Filled
    <2>2. ~(a < i)
      BY <1>2, <1>3, <2>1
    <2>3. i = a \/ i < a
      BY <2>2
    <2>4. QED
      BY <1>1, <2>1, <2>3, BeforeOrder
  <1>4. ASSUME R # {}
        PROVE  /\ Parts[Min(R)] \in Filled(m)
               /\ \A q \in Filled(m) :
                     Before(q, Parts[Min(R)]) <=> q = p \/ Before(q, p)
    <2>1. \E x \in R : \A y \in R : x <= y
      <3>1. PICK z \in R : TRUE
        BY <1>4
      <3>2. CASE 1 \in R
        BY <1>2, <3>2
      <3>3. CASE 1 \notin R /\ 2 \in R
        BY <1>2, <3>3
      <3>4. CASE 1 \notin R /\ 2 \notin R /\ 3 \in R
        BY <1>2, <3>4
      <3>5. CASE 1 \notin R /\ 2 \notin R /\ 3 \notin R
        BY <1>2, <3>1, <3>5
      <3>6. QED
        BY <3>2, <3>3, <3>4, <3>5
    <2>2. Min(R) \in R /\ \A y \in R : Min(R) <= y
      BY <2>1, Zenon DEF Min
    <2> DEFINE n == Min(R)
    <2> HIDE DEF n
    <2>3. n \in 1 .. 4 /\ Parts[n] \in Filled(m) /\ a < n
      BY <1>2, <2>2 DEF n
    <2>4. ASSUME NEW q \in Filled(m)
          PROVE  Before(q, Parts[n]) <=> q = p \/ Before(q, p)
      <3>1. PICK i \in 1 .. 4 : Parts[i] = q
        BY <2>4, BeforeOrder DEF Filled
      <3>2. a < i => n <= i
        BY <1>2, <2>2, <2>4, <3>1 DEF n
      <3>3. i < n <=> i = a \/ i < a
        BY <2>3, <3>2
      <3>4. (Before(q, Parts[n]) <=> i < n) /\ (Before(q, p) <=> i < a)
        BY <1>1, <2>3, <3>1, BeforeOrder
      <3>5. q = p <=> i = a
        BY <1>1, <3>1, BeforeOrder
      <3>6. QED
        BY <3>3, <3>4, <3>5
    <2>5. QED
      BY <2>3, <2>4 DEF n
  <1>5. QED
    BY <1>3, <1>4 DEF R

-----------------------------------------------------------------------------
(* The write path.                                                         *)

LEMMA PartialWriteStill ==
    ASSUME NEW s \in Connections, s.written <= s.size
    PROVE  LET t == PartialWrite(s)
           IN  /\ Still(s, t) /\ t.callback = s.callback
               /\ t.flight = "write" \/ t.flight = s.flight \/ t.fault = "overlap"
               /\ s.notified => t = s
               /\ ~s.notified => t.written = s.written + Encrypted(s.size - s.written)
  <1> DEFINE n == Encrypted(s.size - s.written)
             r == [s EXCEPT !.bio = s.bio + n, !.written = s.written + n]
  <1>1. CASE s.notified
    BY <1>1 DEF PartialWrite, Still
  <1>2. CASE ~s.notified
    <2>1. /\ s.size \in Nat /\ s.written \in Nat /\ s.bio \in Nat
          /\ s.size - s.written \in Nat
      BY DEF Connections
    <2>2. n \in 0 .. s.size - s.written
      BY <2>1, EncryptedAmount
    <2>3. PartialWrite(s) = UvWrite(r, "write")
      BY <1>2 DEF PartialWrite, Connections
    <2> HIDE DEF n
    <2> DEFINE bio == s.bio + n
               written == s.written + n
    <2>4. bio \in Nat /\ written \in Nat
      BY <2>1, <2>2
    <2>5. r = [s EXCEPT !.bio = bio, !.written = written]
      OBVIOUS
    <2> HIDE DEF r, bio, written
    <2>6. /\ r \in Connections /\ r.written = written /\ Still(s, r)
          /\ r.callback = s.callback /\ r.flight = s.flight /\ r.fault = s.fault
      BY <2>4, <2>5 DEF Connections, Still
    <2> DEFINE t == UvWrite(r, "write")
    <2>7. /\ t.wire = r.wire /\ t.message = r.message /\ t.memory = r.memory
          /\ t.shutting = r.shutting /\ t.callback = r.callback
          /\ t.written = r.written
          /\ r.flight = "none" => t.flight = "write" /\ t.fault = r.fault
          /\ r.flight # "none" => t.fault = "overlap"
      BY <2>6, UvWriteFields DEF Kept
    <2> HIDE DEF t
    <2>8. /\ Still(s, t) /\ t.callback = s.callback /\ t.written = written
          /\ t.flight = "write" \/ t.fault = "overlap"
      BY <2>6, <2>7 DEF Still
    <2>9. QED
      BY <1>2, <2>3, <2>8 DEF t, n, written
  <1>3. QED
    BY <1>1, <1>2

(* A write of the writer sends what one call encrypts.                     *)
LEMMA WriteStill ==
    ASSUME NEW s \in Connections, Working(s), ~s.handshake,
           NEW callback \in PartNames \cup {"NULL"}, NEW n \in Nat
    PROVE  LET t == Write(s, callback, n)
           IN  /\ Still(s, t) /\ t.callback = callback
               /\ t.flight = "write" \/ t.flight = s.flight \/ t.fault = "overlap"
               /\ PartInFlight(t) => t.written = Encrypted(n)
  <1> DEFINE r == [s EXCEPT !.callback = callback, !.size = n, !.written = 0]
  <1>1. /\ r.written = 0 /\ r.size = n /\ r.callback = callback
        /\ Still(s, r) /\ r.flight = s.flight /\ r.fault = s.fault
        /\ r.known = s.known /\ r.handshake = s.handshake
        /\ r.shutting = s.shutting /\ r.notified = s.notified
        /\ r.locked = s.locked /\ r.message = s.message
    BY DEF Connections, Still
  <1>2. r \in Connections
    BY DEF Connections
  <1>3. Write(s, callback, n) = PartialWrite(r)
    BY DEF Write
  <1> HIDE DEF r
  <1> DEFINE t == PartialWrite(r)
  <1>4. /\ Still(r, t) /\ t.callback = r.callback
        /\ t.flight = "write" \/ t.flight = r.flight \/ t.fault = "overlap"
        /\ s.notified => t = r
        /\ ~s.notified => t.written = r.written + Encrypted(r.size - r.written)
    <2>1. r.written <= r.size
      BY <1>1
    <2>2. QED
      BY <1>1, <1>2, <2>1, PartialWriteStill
  <1>5. ~s.notified => t.written = Encrypted(n)
    <2>1. n - 0 = n /\ Encrypted(n) \in Nat
      BY EncryptedAmount
    <2>2. QED
      BY <1>1, <1>4, <2>1
  <1>6. s.notified => t.flight # "write"
    BY <1>1, <1>4 DEF Working
  <1> HIDE DEF t
  <1>7. Still(s, t)
    BY <1>1, <1>4 DEF Still
  <1>8. QED
    BY <1>1, <1>3, <1>4, <1>5, <1>6, <1>7 DEF PartInFlight, t

LEMMA UvWriteStill ==
    ASSUME NEW s \in Connections
    PROVE  LET t == UvWrite(s, "pending")
           IN  Still(s, t) /\ ~PartInFlight(t)
  <1> DEFINE t == UvWrite(s, "pending")
  <1>1. /\ t.wire = s.wire /\ t.message = s.message /\ t.memory = s.memory
        /\ t.shutting = s.shutting
        /\ s.flight = "none" => t.flight = "pending" /\ t.fault = s.fault
        /\ s.flight # "none" => t.fault = "overlap"
    BY UvWriteFields DEF Kept
  <1> HIDE DEF t
  <1>2. QED
    BY <1>1 DEF Still, PartInFlight, t

(* A shutdown writes the alert of TLS, never a part.                       *)
LEMMA ShutdownStill ==
    ASSUME NEW s \in Connections, Working(s)
    PROVE  Still(s, Shutdown(s)) /\ ~PartInFlight(Shutdown(s))
  <1> DEFINE q == [s EXCEPT !.known = FALSE, !.shutting = TRUE]
             r == [q EXCEPT !.notified = TRUE, !.bio = q.bio + 1]
  <1>1. CASE s.shutting
    <2>1. Shutdown(s) = s
      BY <1>1 DEF Shutdown
    <2>2. QED
      BY <1>1, <2>1 DEF Working, Still, PartInFlight
  <1>2. CASE ~s.shutting /\ s.handshake
    <2>1. Shutdown(s) = q
      BY <1>2 DEF Shutdown
    <2>2. Still(s, q) /\ q.flight = s.flight
      BY DEF Connections, Still
    <2>3. QED
      BY <1>2, <2>1, <2>2 DEF Working, PartInFlight
  <1>3. CASE ~s.shutting /\ ~s.handshake
    <2>1. Shutdown(s) = UvWrite(r, "pending")
      BY <1>3 DEF Shutdown, Connections
    <2>2. r \in Connections
      <3>1. s.bio + 1 \in Nat
        BY DEF Connections
      <3>2. r = [s EXCEPT !.known = FALSE, !.shutting = TRUE, !.notified = TRUE,
                          !.bio = s.bio + 1]
        BY DEF Connections
      <3>3. QED
        BY <3>1, <3>2 DEF Connections
    <2>3. Still(s, r) /\ r.flight = s.flight /\ r.fault = s.fault
      BY DEF Connections, Still
    <2> HIDE DEF r, q
    <2>4. Still(r, UvWrite(r, "pending")) /\ ~PartInFlight(UvWrite(r, "pending"))
      BY <2>2, UvWriteStill
    <2>5. QED
      BY <2>1, <2>3, <2>4 DEF Still
  <1>4. QED
    BY <1>1, <1>2, <1>3

(* The chirp handshake has no callback, so it is not a part.               *)
LEMMA GreetStill ==
    ASSUME NEW s \in Connections, Working(s), ~s.handshake
    PROVE  Still(s, Greet(s)) /\ ~PartInFlight(Greet(s))
  <1> DEFINE r == Write(s, "NULL", 1)
  <1>1. Good(r) /\ Still(s, r) /\ r.callback = "NULL"
    BY WriteGood, WriteStill
  <1>2. Greet(s) = [r EXCEPT !.reader = "handshake"]
    BY DEF Greet
  <1> HIDE DEF r
  <1>3. QED
    BY <1>1, <1>2 DEF Good, Connections, Still, PartInFlight

LEMMA StartReaderStill ==
    ASSUME NEW s \in Connections, Working(s), ~s.handshake
    PROVE  Still(s, StartReader(s)) /\ ~PartInFlight(StartReader(s))
  <1>1. CASE s.reader = "start"
    BY <1>1, GreetStill DEF StartReader
  <1>2. CASE s.reader = "wait"
    BY <1>2, ShutdownStill DEF StartReader
  <1>3. CASE s.reader = "handshake"
    <2> DEFINE r == Shutdown(s)
    <2>1. Good(r) /\ Still(s, r) /\ ~PartInFlight(r)
      BY ShutdownGood, ShutdownStill
    <2>2. StartReader(s) = [r EXCEPT !.reader = "wait"]
      BY <1>3 DEF StartReader
    <2> HIDE DEF r
    <2>3. QED
      BY <2>1, <2>2 DEF Good, Connections, Still, PartInFlight
  <1>4. QED
    BY <1>1, <1>2, <1>3 DEF Connections

LEMMA SendIfPendingStill ==
    ASSUME NEW s \in Connections, Working(s), s.flight # "write"
    PROVE  Still(s, SendIfPending(s)) /\ ~PartInFlight(SendIfPending(s))
  <1>1. CASE s.bio > 0
    BY <1>1, UvWriteStill DEF SendIfPending
  <1>2. CASE ~(s.bio > 0) /\ s.handshake
    <2>1. SendIfPending(s) = s
      BY <1>2 DEF SendIfPending
    <2>2. QED
      BY <2>1 DEF Still, PartInFlight
  <1>3. CASE ~(s.bio > 0) /\ ~s.handshake
    BY <1>3, StartReaderStill DEF SendIfPending
  <1>4. QED
    BY <1>1, <1>2, <1>3

-----------------------------------------------------------------------------
(* The writer.                                                             *)

(* The message that was in hand is answered: it is on the wire, or the     *)
(* connection is shutting down.                                            *)
Settled(s, t) ==
    /\ Over(s, t)
    /\ t.shutting \/ Filled(s.message) \subseteq OnWireOf(t, s.message)

LEMMA AnswerStill ==
    ASSUME NEW s \in Connections, NEW status \in {"error", "timeout"}
    PROVE  LET t == Answer(s, status)
           IN  /\ Still(s, t) /\ t.flight = s.flight /\ t.fault = s.fault
               /\ t.shutting = s.shutting
  BY DEF Answer, Connections, Still

(* What is in order stays in order as long as the wire is left alone.      *)
LEMMA SameWire ==
    ASSUME NEW s, NEW t, t.wire = s.wire, t.message = s.message,
           t.reported = s.reported, s.shutting => t.shutting
    PROVE  /\ InOrder(s) => InOrder(t)
           /\ InUnits(s) => InUnits(t)
           /\ HalfIsClosed(s) => HalfIsClosed(t)
           /\ InHand(s) => InHand(t)
           /\ \A m : OnWireOf(t, m) = OnWireOf(s, m)
  <1>1. InOrder(s) => InOrder(t)
    BY DEF InOrder, InPlace
  <1>2. \A m : OnWireOf(t, m) = OnWireOf(s, m)
    BY DEF OnWireOf
  <1>3. HalfIsClosed(s) => HalfIsClosed(t)
    BY <1>2 DEF HalfIsClosed
  <1>4. (InUnits(s) => InUnits(t)) /\ (InHand(s) => InHand(t))
    BY DEF InUnits, InHand
  <1>5. QED
    BY <1>1, <1>2, <1>3, <1>4

LEMMA StillProgress ==
    ASSUME NEW s, NEW t, Progress(s), Still(s, t), t.reported = s.reported,
           PartInFlight(t) => InPart(s) /\ t.callback = s.callback
                                        /\ t.written = s.written
    PROVE  Progress(t)
  BY SameWire DEF Progress, Still, InPart

LEMMA SettledProgress ==
    ASSUME NEW s \in Connections, NEW t, Progress(s), Still(s, t), Settled(s, t),
           s.message \in Messages, ~PartInFlight(t)
    PROVE  Progress(t)
  <1>1. PICK status \in {"error", "timeout"} :
            t.reported = Append(s.reported, [message |-> s.message, status |-> status])
    BY DEF Settled, Over
  <1> DEFINE last == [message |-> s.message, status |-> status]
             r == s.reported
  <1>2. r \in Seq(Reports) /\ last \in Reports
    BY DEF Connections, Reports
  <1>3. /\ DOMAIN t.reported = 1 .. Len(r) + 1
        /\ \A i \in 1 .. Len(r) : t.reported[i] = r[i]
        /\ t.reported[Len(r) + 1] = last
        /\ DOMAIN r = 1 .. Len(r) /\ Len(r) \in Nat
    BY <1>1, <1>2
  <1>4. last.message = s.message
    OBVIOUS
  <1> HIDE DEF last
  <1>5. \A m : OnWireOf(t, m) = OnWireOf(s, m)
    BY DEF Still, OnWireOf
  <1>6. HalfIsClosed(t)
    <2> SUFFICES ASSUME NEW i \in DOMAIN t.reported
                 PROVE  \/ Filled(t.reported[i].message)
                              \subseteq OnWireOf(t, t.reported[i].message)
                        \/ t.shutting
      BY DEF HalfIsClosed
    <2>1. CASE i = Len(r) + 1
      BY <1>3, <1>4, <2>1 DEF Settled
    <2>2. CASE i # Len(r) + 1
      <3>1. i \in DOMAIN r /\ t.reported[i] = r[i]
        BY <1>3, <2>2
      <3>2. QED
        BY <1>5, <3>1 DEF Progress, HalfIsClosed, Still
    <2>3. QED
      BY <2>1, <2>2
  <1>7. InOrder(t) /\ InUnits(t) /\ InHand(t)
    BY DEF Progress, Still, InOrder, InPlace, InUnits, InHand
  <1>8. QED
    BY <1>6, <1>7 DEF Progress

(* A part has been written: it goes to the wire behind the ones before it. *)
LEMMA PartOnWire ==
    ASSUME NEW s, NEW t, NEW m, NEW n \in Nat, Progress(s), InPart(s),
           m = s.message, t.message = m,
           t.reported = s.reported, t.shutting = s.shutting,
           DOMAIN s.wire = 1 .. n, DOMAIN t.wire = 1 .. n + 1,
           \A i \in 1 .. n : t.wire[i] = s.wire[i],
           t.wire[n + 1].message = m, t.wire[n + 1].part = s.callback,
           t.wire[n + 1].units = s.written
    PROVE  /\ InOrder(t) /\ InUnits(t) /\ HalfIsClosed(t) /\ InHand(t)
           /\ OnWireOf(t, m) = OnWireOf(s, m) \cup {s.callback}
  <1>1. \A i \in 1 .. n + 1 : i \in 1 .. n \/ i = n + 1
    OBVIOUS
  <1>2. n + 1 \in 1 .. n + 1 /\ \A i \in 1 .. n : i \in 1 .. n + 1
    OBVIOUS
  <1>5. \A i \in 1 .. n : s.wire[i].message = m => s.wire[i].part \in OnWireOf(s, m)
    BY DEF OnWireOf
  <1>6. \A p \in OnWireOf(s, m) :
           \E i \in 1 .. n : s.wire[i].message = m /\ s.wire[i].part = p
    BY DEF OnWireOf
  <1>7. OnWireOf(s, m) = {p \in Filled(m) : Before(p, s.callback)}
        /\ s.callback \in Filled(m)
    BY DEF InPart
  <1>8. InOrder(t)
    <2> SUFFICES ASSUME NEW k \in 1 .. n + 1 PROVE InPlace(t, k)
      BY DEF InOrder
    <2>1. CASE k \in 1 .. n
      <3>1. \A i \in 1 .. k : t.wire[i] = s.wire[i]
        BY <2>1
      <3>2. /\ \A i \in 1 .. k - 1 : t.wire[i] = s.wire[i]
            /\ \A i \in 1 .. k - 1 : \A j \in i .. k : t.wire[j] = s.wire[j]
            /\ t.wire[k] = s.wire[k]
        BY <2>1, <3>1
      <3>3. InPlace(s, k)
        BY <2>1 DEF Progress, InOrder
      <3> DEFINE w == s.wire[k]
      <3>4. /\ w.part \in Filled(w.message)
            /\ \A q \in Filled(w.message) : Before(q, w.part) =>
                  \E i \in 1 .. k - 1 : s.wire[i].message = w.message /\ s.wire[i].part = q
            /\ \A i \in 1 .. k - 1 : s.wire[i].message = w.message =>
                  /\ Before(s.wire[i].part, w.part)
                  /\ \A j \in i .. k : s.wire[j].message = w.message
        BY ONLY <3>3 DEF InPlace
      <3>5. t.wire[k] = w
        BY <3>2
      <3> HIDE DEF w
      <3>6. \A q \in Filled(w.message) : Before(q, w.part) =>
               \E i \in 1 .. k - 1 : t.wire[i].message = w.message /\ t.wire[i].part = q
        BY ONLY <3>2, <3>4
      <3>7. \A i \in 1 .. k - 1 : t.wire[i].message = w.message =>
               /\ Before(t.wire[i].part, w.part)
               /\ \A j \in i .. k : t.wire[j].message = w.message
        BY ONLY <3>2, <3>4
      <3>8. QED
        BY ONLY <3>4, <3>5, <3>6, <3>7 DEF InPlace
    <2>2. CASE k = n + 1
      <3>1. 1 .. k - 1 = 1 .. n
        BY <2>2
      <3>2. \A p \in Filled(m) : Before(p, s.callback) =>
               \E i \in 1 .. k - 1 : t.wire[i].message = m /\ t.wire[i].part = p
        BY <1>6, <1>7, <3>1
      <3>3. ASSUME NEW i \in 1 .. k - 1, t.wire[i].message = m
            PROVE  /\ Before(t.wire[i].part, s.callback)
                   /\ \A j \in i .. k : t.wire[j].message = m
        <4>1. i \in 1 .. n /\ s.wire[i].message = m
          BY <3>1, <3>3
        <4>2. Before(t.wire[i].part, s.callback)
          BY <1>5, <1>7, <4>1
        <4>3. ASSUME NEW j \in i .. k PROVE t.wire[j].message = m
          <5>1. CASE j = n + 1
            BY <5>1
          <5>2. CASE j # n + 1
            <6>1. j \in 1 .. n /\ i <= j
              BY <2>2, <4>1, <5>2
            <6>2. QED
              BY <4>1, <6>1 DEF Progress, InHand
          <5>3. QED
            BY <5>1, <5>2
        <4>4. QED
          BY <4>2, <4>3
      <3>4. QED
        BY <1>7, <2>2, <3>2, <3>3 DEF InPlace
    <2>3. k \in 1 .. n \/ k = n + 1
      BY <1>1
    <2>4. QED
      BY <2>1, <2>2, <2>3
  <1>9. InUnits(t)
    <2> SUFFICES ASSUME NEW i \in 1 .. n + 1
                 PROVE  t.wire[i].units
                           = Encrypted(Size[t.wire[i].message][t.wire[i].part])
      BY DEF InUnits
    <2>1. CASE i \in 1 .. n
      BY <2>1 DEF Progress, InUnits
    <2>2. CASE i = n + 1
      BY <2>2 DEF InPart
    <2>3. QED
      BY <1>1, <2>1, <2>2
  <1>10. OnWireOf(t, m) = OnWireOf(s, m) \cup {s.callback}
    <2>1. \A p \in OnWireOf(t, m) : p \in OnWireOf(s, m) \cup {s.callback}
      <3> SUFFICES ASSUME NEW i \in 1 .. n + 1, t.wire[i].message = m
                   PROVE  t.wire[i].part \in OnWireOf(s, m) \cup {s.callback}
        BY DEF OnWireOf
      <3>1. CASE i \in 1 .. n
        BY <1>5, <3>1
      <3>2. CASE i = n + 1
        BY <3>2
      <3>3. QED
        BY <1>1, <3>1, <3>2
    <2>2. \A p \in OnWireOf(s, m) : p \in OnWireOf(t, m)
      <3>1. \A i \in 1 .. n : i \in 1 .. n + 1
        BY <1>1
      <3>2. QED
        BY <1>6, <3>1 DEF OnWireOf
    <2>3. s.callback \in OnWireOf(t, m)
      <3>1. n + 1 \in 1 .. n + 1
        BY <1>1
      <3>2. QED
        BY <3>1 DEF OnWireOf
    <2>4. QED
      BY <2>1, <2>2, <2>3
  <1>11. \A x : OnWireOf(s, x) \subseteq OnWireOf(t, x)
    <2>1. \A i \in 1 .. n : i \in 1 .. n + 1
      BY <1>1
    <2>2. QED
      BY <2>1 DEF OnWireOf
  <1>12. HalfIsClosed(t)
    BY <1>11 DEF Progress, HalfIsClosed
  <1>13. InHand(t)
    <2> SUFFICES ASSUME NEW i \in 1 .. n + 1, t.wire[i].message = m,
                        NEW j \in 1 .. n + 1, i <= j
                 PROVE  t.wire[j].message = m
      BY DEF InHand
    <2>1. CASE j = n + 1
      BY <2>1
    <2>2. CASE j # n + 1
      <3>1. j \in 1 .. n /\ i \in 1 .. n
        BY <1>1, <2>2
      <3>2. QED
        BY <3>1 DEF Progress, InHand
    <2>3. QED
      BY <2>1, <2>2
  <1>14. QED
    BY <1>8, <1>9, <1>10, <1>12, <1>13

(* While a message is in hand nobody shuts the connection down and nothing *)
(* but its parts is written.                                               *)
Calm(s) == s.locked => ~s.handshake /\ ~s.shutting /\ s.flight # "pending"

(* Only the message in hand comes to the wire.                             *)
Grown(s, t) ==
    \A i \in DOMAIN t.wire :
        \/ \E k \in DOMAIN s.wire : t.wire[i].message = s.wire[k].message
        \/ s.locked /\ t.wire[i].message = s.message

(* A part is called back: the next one is written, or the message is over. *)
LEMMA PartWrittenProgress ==
    ASSUME NEW s \in Connections, Working(s), Progress(s), InPart(s),
           s.fault = "none", s.flight = "none", ~s.handshake, ~s.shutting,
           s.locked, s.callback \in PartNames
    PROVE  LET u == PartWritten(s)
           IN  /\ Progress(u) /\ Calm(u) /\ Grown(s, u)
               /\ u.memory = s.memory /\ u.fault = "none"
  <1> DEFINE m == s.message
             w == [message |-> m, part |-> s.callback, units |-> s.written]
             t == [s EXCEPT !.wire = Append(s.wire, w)]
             next == Parts[Min(Rest(m, s.callback))]
             n == Len(s.wire)
  <1>1. m \in Messages
    BY DEF Working
  <1>2. w \in Writings /\ s.wire \in Seq(Writings) /\ Append(s.wire, w) \in Seq(Writings)
    BY <1>1 DEF Connections, Writings
  <1>3. PartWritten(s) = IF Rest(m, s.callback) = {} THEN Finish(t)
                         ELSE Write(t, next, Size[m][next])
    BY DEF PartWritten, Connections
  <1>4. w.message = m /\ w.part = s.callback /\ w.units = s.written
    OBVIOUS
  <1> HIDE DEF w
  <1>5. t \in Connections /\ t.wire = Append(s.wire, w)
    BY <1>2 DEF Connections
  <1>6. /\ t.flight = "none" /\ ~t.handshake /\ ~t.shutting /\ t.locked
        /\ t.message = m /\ t.reported = s.reported /\ t.shutting = s.shutting
        /\ t.known = s.known /\ t.notified = s.notified /\ t.fault = "none"
        /\ t.memory = s.memory
    BY DEF Connections
  <1>7. Working(t)
    BY <1>6 DEF Working
  <1> HIDE DEF t
  <1>8. /\ n \in Nat /\ DOMAIN s.wire = 1 .. n /\ DOMAIN t.wire = 1 .. n + 1
        /\ \A i \in 1 .. n : t.wire[i] = s.wire[i]
        /\ t.wire[n + 1] = w
    BY <1>2, <1>5
  <1>9. /\ InOrder(t) /\ InUnits(t) /\ HalfIsClosed(t) /\ InHand(t)
        /\ OnWireOf(t, m) = OnWireOf(s, m) \cup {s.callback}
    <2>1. Progress(s) /\ InPart(s) /\ m = s.message
      OBVIOUS
    <2> HIDE DEF m, n
    <2>2. QED
      BY ONLY <1>4, <1>6, <1>8, <2>1, PartOnWire
  <1>10. Progress(t)
    BY <1>6, <1>9 DEF Progress, PartInFlight
  <1>11. OnWireOf(t, m) = {p \in Filled(m) : Before(p, s.callback)} \cup {s.callback}
         /\ s.callback \in Filled(m)
    BY <1>9 DEF InPart
  <1>12. ASSUME NEW u, u.wire = t.wire PROVE Grown(s, u)
    <2> SUFFICES ASSUME NEW i \in 1 .. n + 1
                 PROVE  \/ \E k \in DOMAIN s.wire :
                                 u.wire[i].message = s.wire[k].message
                        \/ s.locked /\ u.wire[i].message = s.message
      BY <1>8, <1>12 DEF Grown
    <2>1. CASE i \in 1 .. n
      BY <1>8, <1>12, <2>1
    <2>2. CASE i = n + 1
      BY <1>4, <1>8, <1>12, <2>2
    <2>3. QED
      BY <1>8, <2>1, <2>2
  <1>13. CASE Rest(m, s.callback) = {}
    <2>1. Filled(m) \subseteq OnWireOf(t, m)
      BY <1>1, <1>11, <1>13, NextIsFirst
    <2>2. CASE s.acknowledge
      <3>1. Finish(t) = t
        BY <2>2 DEF Finish, t, Connections
      <3>2. QED
        BY <1>3, <1>6, <1>10, <1>13, <1>12, <3>1 DEF Calm
    <2>3. CASE ~s.acknowledge
      <3> DEFINE u == Answer(t, "error")
      <3>1. Finish(t) = u
        BY <2>3 DEF Finish, t, Connections
      <3>2. /\ Still(t, u) /\ u.flight = t.flight /\ u.fault = t.fault
            /\ Over(t, u)
        BY <1>1, <1>5, <1>6, <1>7, AnswerStill, AnswerGood
      <3> HIDE DEF u
      <3>3. Settled(t, u)
        BY <1>6, <2>1, <3>2 DEF Settled, Still, OnWireOf
      <3>4. ~PartInFlight(u) /\ Calm(u)
        BY <1>6, <3>2 DEF PartInFlight, Calm, Over
      <3>5. Progress(u)
        BY <1>1, <1>5, <1>6, <1>10, <3>2, <3>3, <3>4, SettledProgress
      <3>6. QED
        BY <1>3, <1>6, <1>13, <1>12, <3>1, <3>2, <3>4, <3>5 DEF Still
    <2>4. QED
      BY <2>2, <2>3 DEF Connections
  <1>14. CASE Rest(m, s.callback) # {}
    <2> DEFINE u == Write(t, next, Size[m][next])
    <2>1. /\ next \in Filled(m)
          /\ \A q \in Filled(m) :
                Before(q, next) <=> q = s.callback \/ Before(q, s.callback)
      BY <1>1, <1>14, NextIsFirst
    <2> HIDE DEF next
    <2>2. next \in PartNames /\ Size[m][next] \in Nat
      BY <1>1, <2>1, SizeAssumption DEF Filled
    <2>3. /\ Still(t, u) /\ u.callback = next
          /\ u.flight = "write" \/ u.flight = t.flight \/ u.fault = "overlap"
          /\ PartInFlight(u) => u.written = Encrypted(Size[m][next])
          /\ Kept(t, u) /\ Same(t, u)
      BY <1>5, <1>6, <1>7, <2>2, WriteStill, WriteGood
    <2> HIDE DEF u
    <2>4. OnWireOf(u, m) = {q \in Filled(m) : Before(q, next)}
      BY <1>11, <2>1, <2>3 DEF Still, OnWireOf
    <2>5. PartInFlight(u) => InPart(u)
      BY <1>6, <2>1, <2>3, <2>4 DEF InPart, Still
    <2>6. InOrder(u) /\ InUnits(u) /\ HalfIsClosed(u) /\ InHand(u)
      BY <1>9, <2>3, SameWire DEF Still, Kept
    <2>7. Calm(u) /\ u.fault = "none" /\ u.memory = t.memory
      BY <1>6, <2>3 DEF Calm, Still, Same
    <2>8. Grown(s, u)
      BY <1>12, <2>3 DEF Still
    <2>9. QED
      BY <1>3, <1>6, <1>14, <2>5, <2>6, <2>7, <2>8 DEF Progress, u
  <1>15. QED
    BY <1>13, <1>14

(* A failed write answers the message on a connection that closes.         *)
LEMMA WriteFailedProgress ==
    ASSUME NEW s \in Connections, Working(s), Progress(s), s.flight = "none",
           s.fault = "none", s.callback # "NULL" => s.locked
    PROVE  LET u == WriteFailed(s)
           IN  /\ Progress(u) /\ u.wire = s.wire
               /\ s.callback # "NULL" => u.fault = "none" /\ Calm(u)
               /\ u.memory = s.memory /\ (s.shutting => u.shutting)
  <1>1. CASE s.callback = "NULL"
    <2> DEFINE u == [s EXCEPT !.fault = "callback"]
    <2>1. WriteFailed(s) = u
      BY <1>1 DEF WriteFailed
    <2>2. /\ u.wire = s.wire /\ u.message = s.message /\ u.shutting = s.shutting
          /\ u.reported = s.reported /\ u.fault = "callback" /\ u.memory = s.memory
      BY DEF Connections
    <2> HIDE DEF u
    <2>3. Progress(u)
      BY <2>2, SameWire DEF Progress, PartInFlight
    <2>4. QED
      BY <1>1, <2>1, <2>2, <2>3
  <1>2. CASE s.callback # "NULL"
    <2> DEFINE t == Shutdown(s)
               u == Answer(t, "error")
    <2>1. /\ Good(t) /\ Kept(s, t) /\ t.shutting
          /\ Still(s, t) /\ ~PartInFlight(t)
      BY ShutdownGood, ShutdownStill
    <2>2. WriteFailed(s) = u
      BY <1>2 DEF WriteFailed
    <2> HIDE DEF t
    <2>3. Progress(t)
      BY <2>1, StillProgress DEF Kept
    <2>4. t \in Connections /\ t.locked /\ t.message \in Messages
      BY <1>2, <2>1 DEF Kept, Working, Good
    <2>5. t.fault = "none" => Working(t) /\ t.flight # "write"
      BY <2>1 DEF Good, Working
    <2>6. /\ Still(t, u) /\ u.flight = t.flight /\ u.fault = t.fault
          /\ u.shutting = t.shutting /\ Over(t, u)
      BY <2>4, <2>5, AnswerStill, AnswerGood
    <2> HIDE DEF u
    <2>7. Settled(t, u) /\ ~PartInFlight(u) /\ Calm(u)
      BY <2>1, <2>5, <2>6 DEF Settled, PartInFlight, Over, Calm
    <2>8. Progress(u)
      BY <2>3, <2>4, <2>6, <2>7, SettledProgress
    <2>9. QED
      BY <2>1, <2>2, <2>6, <2>7, <2>8 DEF Still
  <1>3. QED
    BY <1>1, <1>2

LEMMA WriteOKProgress ==
    ASSUME NEW s \in Connections, Working(s), Progress(s), s.flight = "none",
           s.fault = "none", ~s.handshake, ~s.shutting, s.written <= s.size,
           s.callback # "NULL" => s.locked /\ InPart(s)
    PROVE  LET u == WriteOK(s)
           IN  /\ Progress(u) /\ u.fault = "none" /\ Calm(u)
               /\ u.memory = s.memory /\ Grown(s, u)
  <1> DEFINE r == [s EXCEPT !.size = 0]
  <1>1. ~NotEncrypted(s)
    BY DEF NotEncrypted, Connections
  <1>2. r \in Connections
    BY DEF Connections
  <1>3. /\ Still(s, r) /\ r.flight = "none" /\ r.callback = s.callback
        /\ r.known = s.known /\ r.notified = s.notified /\ r.locked = s.locked
        /\ r.fault = "none" /\ r.reported = s.reported /\ r.written = s.written
        /\ r.handshake = s.handshake /\ r.shutting = s.shutting
    BY DEF Connections, Still
  <1> HIDE DEF r
  <1>4. Working(r) /\ ~PartInFlight(r) /\ Calm(r)
    BY <1>3 DEF Working, Still, PartInFlight, Calm
  <1>5. Progress(r)
    BY <1>3, <1>4, StillProgress
  <1>6. CASE s.bio > 0
    <2> DEFINE t == UvWrite(s, "write")
    <2>1. /\ t.wire = s.wire /\ t.message = s.message /\ t.memory = s.memory
          /\ t.shutting = s.shutting /\ t.fault = s.fault /\ t.flight = "write"
          /\ t.written = s.written /\ t.callback = s.callback
          /\ t.handshake = s.handshake /\ t.reported = s.reported
      BY UvWriteFields DEF Kept
    <2>2. WriteOK(s) = t
      BY <1>1, <1>6 DEF WriteOK
    <2> HIDE DEF t
    <2>3. Progress(t)
      BY <2>1, StillProgress DEF Still, PartInFlight
    <2>4. QED
      BY <2>1, <2>2, <2>3 DEF Calm, Grown
  <1>7. CASE ~(s.bio > 0) /\ s.callback = "NULL"
    <2>1. WriteOK(s) = r
      BY <1>1, <1>7 DEF WriteOK, r
    <2>2. QED
      BY <1>3, <1>4, <1>5, <2>1 DEF Still, Grown
  <1>8. CASE ~(s.bio > 0) /\ s.callback # "NULL"
    <2>1. WriteOK(s) = PartWritten(r)
      BY <1>1, <1>8 DEF WriteOK, r
    <2>2. r.callback \in PartNames
      BY <1>3, <1>8 DEF Connections
    <2>3. InPart(r)
      BY <1>3, <1>8 DEF InPart, Still, OnWireOf
    <2> DEFINE u == PartWritten(r)
    <2>4. Progress(u) /\ Calm(u) /\ Grown(r, u) /\ u.memory = r.memory
          /\ u.fault = "none"
      BY <1>2, <1>3, <1>4, <1>5, <1>8, <2>2, <2>3, PartWrittenProgress
    <2> HIDE DEF u
    <2>5. Grown(s, u)
      BY <1>3, <2>4 DEF Grown, Still
    <2>6. QED
      BY <1>3, <2>1, <2>4, <2>5 DEF Still, u
  <1>9. QED
    BY <1>6, <1>7, <1>8

(* A write is called back.  It only ends in something undefined if it was  *)
(* the chirp handshake and has failed.                                     *)
LEMMA CalledProgress ==
    ASSUME NEW s \in Connections, Working(s), Progress(s), s.flight # "none",
           s.fault = "none", NEW ok \in BOOLEAN
    PROVE  LET u == Called(s, ok)
           IN  /\ Progress(u) /\ u.memory = s.memory
               /\ s.shutting => u.shutting
               /\ \/ ok \/ s.callback # "NULL" \/ s.flight # "write"
                  => u.fault = "none"
               /\ Calm(s) /\ u.fault = "none" => Calm(u)
               /\ Grown(s, u)
  <1> DEFINE t == [s EXCEPT !.flight = "none"]
  <1>1. t \in Connections
    BY DEF Connections
  <1>2. /\ t.wire = s.wire /\ t.message = s.message /\ t.memory = s.memory
        /\ t.shutting = s.shutting /\ t.handshake = s.handshake
        /\ t.fault = "none" /\ t.reported = s.reported
        /\ t.flight = "none" /\ t.callback = s.callback /\ t.locked = s.locked
        /\ t.known = s.known /\ t.notified = s.notified
        /\ t.written = s.written /\ t.size = s.size
    BY DEF Connections
  <1>3. Called(s, ok) = IF s.flight = "write"
                        THEN IF ok THEN WriteOK(t) ELSE WriteFailed(t)
                        ELSE IF ok THEN SendIfPending(t) ELSE Shutdown(t)
    BY DEF Called
  <1> HIDE DEF t
  <1>4. Working(t) /\ ~PartInFlight(t)
    BY <1>2 DEF Working, PartInFlight
  <1>5. Progress(t)
    BY <1>2, <1>4, StillProgress DEF Still
  <1>6. s.flight = "write" => /\ ~t.handshake /\ ~t.shutting /\ t.written <= t.size
                              /\ t.callback # "NULL" => t.locked
                              /\ t.callback # "NULL" => InPart(t)
    BY <1>2 DEF Working, Progress, PartInFlight, InPart, OnWireOf
  <1>7. CASE s.flight = "write" /\ ok
    <2> DEFINE u == WriteOK(t)
    <2>1. /\ Progress(u) /\ u.fault = "none" /\ Calm(u)
          /\ u.memory = t.memory /\ Grown(t, u)
      BY <1>1, <1>2, <1>4, <1>5, <1>6, <1>7, WriteOKProgress
    <2> HIDE DEF u
    <2>2. Grown(s, u) /\ ~s.shutting
      BY <1>2, <1>6, <1>7, <2>1 DEF Grown
    <2>3. QED
      BY <1>2, <1>3, <1>7, <2>1, <2>2 DEF u
  <1>8. CASE s.flight = "write" /\ ~ok
    <2> DEFINE u == WriteFailed(t)
    <2>1. /\ Progress(u) /\ u.wire = t.wire
          /\ t.callback # "NULL" => u.fault = "none" /\ Calm(u)
          /\ u.memory = t.memory /\ (t.shutting => u.shutting)
      BY <1>1, <1>2, <1>4, <1>5, <1>6, <1>8, WriteFailedProgress
    <2>2. t.callback = "NULL" => u.fault = "callback"
      BY <1>1 DEF WriteFailed, Connections
    <2> HIDE DEF u
    <2>3. QED
      BY <1>2, <1>3, <1>8, <2>1, <2>2 DEF u, Grown
  <1>9. ASSUME NEW u \in Connections, Called(s, ok) = u, s.flight # "write",
               Still(t, u), ~PartInFlight(u), Kept(t, u)
        PROVE  /\ Progress(u) /\ u.memory = s.memory /\ u.fault = "none"
               /\ s.shutting => u.shutting
               /\ Calm(s) => Calm(u)
               /\ Grown(s, u)
    <2>1. Progress(u)
      BY <1>5, <1>9, StillProgress DEF Kept
    <2>2. s.flight = "pending"
      BY <1>9 DEF Connections
    <2>3. QED
      BY <1>2, <1>9, <2>1, <2>2 DEF Still, Kept, Calm, Grown
  <1>10. CASE s.flight # "write" /\ ok
    <2>1. /\ Good(SendIfPending(t)) /\ Kept(t, SendIfPending(t))
          /\ Still(t, SendIfPending(t)) /\ ~PartInFlight(SendIfPending(t))
      BY <1>1, <1>2, <1>4, SendIfPendingGood, SendIfPendingStill
    <2>2. QED
      BY <1>3, <1>9, <1>10, <2>1 DEF Good
  <1>11. CASE s.flight # "write" /\ ~ok
    <2>1. /\ Good(Shutdown(t)) /\ Kept(t, Shutdown(t))
          /\ Still(t, Shutdown(t)) /\ ~PartInFlight(Shutdown(t))
      BY <1>1, <1>4, ShutdownGood, ShutdownStill
    <2>2. QED
      BY <1>3, <1>9, <1>11, <2>1 DEF Good
  <1>12. QED
    BY <1>7, <1>8, <1>10, <1>11

-----------------------------------------------------------------------------
(* The events.                                                             *)

(* Nothing comes while a handshake is written, the handshake and the parts *)
(* are written in time, and the remote does not end the connection.  The   *)
(* write of a part may fail, uv_shutdown() may stall, and the user may do  *)
(* what he likes.                                                          *)
Undisturbed == Env \cap {"greetfail", "slow", "end", "cut", "eager"} = {}

Ordered ==
    /\ Progress(conn)
    /\ \A i \in DOMAIN conn.wire : sent[conn.wire[i].message] = "sending"
    /\ Undisturbed => /\ conn.fault = "none"
                      /\ Calm(conn)
                      /\ conn.memory = "freed" => conn.shutting

LEMMA InitOrdered == Init => Ordered
  <1> SUFFICES ASSUME Init PROVE Ordered
    OBVIOUS
  <1>1. /\ conn.wire = <<>> /\ conn.reported = <<>> /\ conn.flight = "none"
        /\ conn.fault = "none" /\ conn.memory = "alive" /\ ~conn.locked
    BY DEF Init
  <1>2. Progress(conn)
    BY <1>1 DEF Progress, InOrder, InUnits, HalfIsClosed, InHand, PartInFlight
  <1>3. QED
    BY <1>1, <1>2 DEF Ordered, Calm

(* A step of the loop that takes no message from the user.                 *)
LEMMA LoopStep ==
    ASSUME IInv, Ordered, conn.fault = "none", UNCHANGED sent,
           Progress(conn'), Grown(conn, conn'),
           Undisturbed => /\ conn'.fault = "none"
                          /\ Calm(conn')
                          /\ conn'.memory = "freed" => conn'.shutting
    PROVE  Ordered'
  <1>1. conn.locked => sent[conn.message] = "sending"
    BY DEF IInv, OneAtATime, Unanswered
  <1>2. \A i \in DOMAIN conn'.wire : sent[conn'.wire[i].message] = "sending"
    BY <1>1 DEF Grown, Ordered
  <1>3. QED
    BY <1>2 DEF Ordered

(* One that leaves the message and the wire alone.                         *)
LEMMA StillStep ==
    ASSUME IInv, Ordered, conn.fault = "none", UNCHANGED sent,
           Still(conn, conn'), Kept(conn, conn'),
           PartInFlight(conn') => PartInFlight(conn) /\ conn'.callback = conn.callback
                                  /\ conn'.written = conn.written,
           Undisturbed => conn'.fault = "none" /\ Calm(conn')
    PROVE  Ordered'
  <1>1. Progress(conn')
    BY StillProgress DEF Ordered, Progress, Kept
  <1>2. Grown(conn, conn')
    BY DEF Still, Grown
  <1>3. Undisturbed => (conn'.memory = "freed" => conn'.shutting)
    BY DEF Ordered, Still
  <1>4. QED
    BY <1>1, <1>2, <1>3, LoopStep

LEMMA TlsFlightOrdered == IInv /\ Ordered /\ TlsFlight => Ordered'
  <1> SUFFICES ASSUME IInv, Ordered, TlsFlight PROVE Ordered'
    OBVIOUS
  <1>1. PICK answer \in 0 .. 1, finished \in BOOLEAN :
            conn' = SendIfPending([conn EXCEPT !.bio = @ + answer,
                                               !.handshake = ~finished])
    BY DEF TlsFlight
  <1>2. /\ conn \in Connections /\ Working(conn) /\ conn.fault = "none"
        /\ conn.handshake /\ ~conn.shutting /\ UNCHANGED sent
        /\ conn.flight = "none" \/ "eager" \in Env
    BY DEF TlsFlight, Running, Idle, IInv, Good
  <1> DEFINE bio == conn.bio + answer
             handshake == ~finished
             s == [conn EXCEPT !.bio = bio, !.handshake = handshake]
  <1>3. conn' = SendIfPending(s)
    BY <1>1
  <1>4. bio \in Nat /\ handshake \in BOOLEAN
    BY <1>2 DEF Connections
  <1> HIDE DEF bio, handshake
  <1>5. s \in Connections
    BY <1>2, <1>4 DEF Connections
  <1>6. /\ Kept(conn, s) /\ s.known = conn.known /\ s.shutting = conn.shutting
        /\ s.notified = conn.notified /\ s.flight = conn.flight
        /\ Still(conn, s) /\ s.fault = conn.fault
    BY <1>2 DEF Connections, Kept, Still
  <1> HIDE DEF s
  <1>7. Working(s) /\ s.flight # "write"
    BY <1>2, <1>6 DEF Working, Kept
  <1>8. Kept(s, conn') /\ Still(s, conn') /\ ~PartInFlight(conn')
    BY <1>3, <1>5, <1>7, SendIfPendingGood, SendIfPendingStill
  <1>9. Kept(conn, conn') /\ Still(conn, conn')
    BY <1>6, <1>8 DEF Kept, Still
  <1>10. Undisturbed => conn'.fault = "none" /\ Calm(conn')
    BY <1>2, <1>9 DEF Undisturbed, Still, Kept, Calm, Ordered
  <1>11. QED
    BY <1>2, <1>8, <1>9, <1>10, StillStep

LEMMA ReadHandshakeOrdered == IInv /\ Ordered /\ ReadHandshake => Ordered'
  <1> SUFFICES ASSUME IInv, Ordered, ReadHandshake PROVE Ordered'
    OBVIOUS
  <1> DEFINE s == IF conn.reader = "start" THEN Greet(conn) ELSE conn
  <1>1. /\ conn \in Connections /\ Working(conn) /\ conn.fault = "none"
        /\ ~conn.handshake /\ ~conn.shutting /\ UNCHANGED sent
        /\ conn' = [s EXCEPT !.known = TRUE, !.reader = "wait"]
        /\ conn.reader = "start" => "eager" \in Env
    BY DEF ReadHandshake, Running, IInv, Good
  <1>2. /\ Good(s) /\ Kept(conn, s) /\ Still(conn, s)
        /\ s = conn \/ ("eager" \in Env /\ ~PartInFlight(s))
    <2>1. CASE conn.reader = "start"
      BY <1>1, <2>1, GreetGood, GreetStill
    <2>2. CASE conn.reader # "start"
      BY <1>1, <2>2 DEF Good, Kept, Still
    <2>3. QED
      BY <2>1, <2>2
  <1> HIDE DEF s
  <1>3. /\ Kept(s, conn') /\ conn'.fault = s.fault /\ conn'.wire = s.wire
        /\ conn'.memory = s.memory /\ conn'.shutting = s.shutting
        /\ conn'.flight = s.flight /\ conn'.handshake = s.handshake
        /\ conn'.written = s.written /\ conn'.callback = s.callback
    BY <1>1, <1>2 DEF Good, Connections, Kept
  <1>4. Kept(conn, conn') /\ Still(conn, conn')
    BY <1>2, <1>3 DEF Kept, Still
  <1>5. PartInFlight(conn') => PartInFlight(conn) /\ conn'.callback = conn.callback
                               /\ conn'.written = conn.written
    BY <1>2, <1>3 DEF PartInFlight
  <1>6. Undisturbed => conn'.fault = "none" /\ Calm(conn')
    BY <1>1, <1>2, <1>3, <1>4 DEF Undisturbed, Kept, Calm, Ordered
  <1>7. QED
    BY <1>1, <1>4, <1>5, <1>6, StillStep

LEMMA DisconnectOrdered == IInv /\ Ordered /\ Disconnect => Ordered'
  <1> SUFFICES ASSUME IInv, Ordered, Disconnect PROVE Ordered'
    OBVIOUS
  <1>1. /\ conn \in Connections /\ Working(conn) /\ conn.fault = "none"
        /\ UNCHANGED sent /\ conn' = Shutdown(conn) /\ ~Undisturbed
    BY DEF Disconnect, Running, Idle, IInv, Good, Undisturbed
  <1>2. Kept(conn, conn') /\ Still(conn, conn') /\ ~PartInFlight(conn')
    BY <1>1, ShutdownGood, ShutdownStill
  <1>3. QED
    BY <1>1, <1>2, StillStep

LEMMA WriteDoneOrdered == IInv /\ Ordered /\ WriteDone => Ordered'
  <1> SUFFICES ASSUME IInv, Ordered, WriteDone PROVE Ordered'
    OBVIOUS
  <1>1. /\ conn \in Connections /\ Working(conn) /\ conn.fault = "none"
        /\ conn.flight # "none" /\ UNCHANGED sent /\ conn.memory = "alive"
    BY DEF WriteDone, Running, Idle, IInv, Good
  <1>2. PICK ok \in BOOLEAN : conn' = Called(conn, ok) /\ (ok \/ MayFail)
    BY DEF WriteDone
  <1>3. /\ Progress(conn') /\ conn'.memory = conn.memory /\ Grown(conn, conn')
        /\ \/ ok \/ conn.callback # "NULL" \/ conn.flight # "write"
           => conn'.fault = "none"
        /\ Calm(conn) /\ conn'.fault = "none" => Calm(conn')
    BY <1>1, <1>2, CalledProgress DEF Ordered
  <1>4. Undisturbed => ok \/ conn.callback # "NULL" \/ conn.flight # "write"
    BY <1>2 DEF MayFail, Undisturbed
  <1>5. QED
    BY <1>1, <1>3, <1>4, LoopStep DEF Ordered

LEMMA CloseOrdered == IInv /\ Ordered /\ Close => Ordered'
  <1> SUFFICES ASSUME IInv, Ordered, Close PROVE Ordered'
    OBVIOUS
  <1> DEFINE s == IF Idle THEN conn ELSE Called(conn, FALSE)
  <1>1. /\ conn \in Connections /\ Working(conn) /\ conn.fault = "none"
        /\ UNCHANGED sent /\ conn' = [s EXCEPT !.memory = "freed"]
        /\ conn.shutting
    BY DEF Close, Running, IInv, Good
  <1>2. /\ Good(s) /\ Progress(s) /\ Grown(conn, s) /\ s.shutting
        /\ s.fault = "none"
        /\ Calm(conn) => Calm(s)
    <2>1. CASE Idle
      BY <1>1, <2>1 DEF Good, Ordered, Grown
    <2>2. CASE ~Idle
      <3>1. conn.flight # "none" /\ conn.flight # "write"
        BY <1>1, <2>2 DEF Idle, Working
      <3>2. QED
        BY <1>1, <2>2, <3>1, CalledGood, CalledProgress DEF Ordered
    <2>3. QED
      BY <2>1, <2>2
  <1> HIDE DEF s
  <1>3. /\ conn'.wire = s.wire /\ conn'.message = s.message
        /\ conn'.reported = s.reported /\ conn'.shutting = s.shutting
        /\ conn'.fault = s.fault /\ conn'.flight = s.flight
        /\ conn'.callback = s.callback /\ conn'.written = s.written
        /\ conn'.locked = s.locked /\ conn'.handshake = s.handshake
    BY <1>1, <1>2 DEF Good, Connections
  <1>4. InPart(s) => InPart(conn')
    BY <1>3, SameWire DEF InPart
  <1>5. Progress(conn')
    BY <1>2, <1>3, <1>4, SameWire DEF Progress, PartInFlight
  <1>6. Grown(conn, conn') /\ (Calm(s) => Calm(conn'))
    BY <1>2, <1>3 DEF Grown, Calm
  <1>7. QED
    BY <1>1, <1>2, <1>3, <1>5, <1>6, LoopStep DEF Ordered

LEMMA SendTimeoutOrdered == IInv /\ Ordered /\ SendTimeout => Ordered'
  <1> SUFFICES ASSUME IInv, Ordered, SendTimeout PROVE Ordered'
    OBVIOUS
  <1>1. /\ conn \in Connections /\ Working(conn) /\ conn.fault = "none"
        /\ conn.locked /\ UNCHANGED sent
        /\ conn.flight = "write" => "slow" \in Env
    BY DEF SendTimeout, Running, IInv, Good, OneAtATime
  <1>2. Undisturbed => /\ conn.flight = "none" /\ conn.memory # "freed"
                       /\ conn.memory = "freed" => conn.shutting
    BY <1>1 DEF Ordered, Calm, Undisturbed, Connections
  <1>3. CASE conn.memory = "freed"
    <2>1. conn' = [conn EXCEPT !.fault = "timer"]
      BY <1>3 DEF SendTimeout
    <2>2. Kept(conn, conn') /\ conn'.fault = "timer" /\ conn'.wire = conn.wire
          /\ conn'.shutting = conn.shutting
      BY <1>1, <2>1 DEF Kept, Connections
    <2>3. Progress(conn')
      BY <2>2, SameWire DEF Ordered, Progress, Kept, PartInFlight
    <2>4. Grown(conn, conn')
      BY <2>2 DEF Grown
    <2>5. QED
      BY <1>1, <1>2, <1>3, <2>3, <2>4, LoopStep
  <1>4. CASE conn.memory # "freed"
    <2> DEFINE s == Shutdown(conn)
    <2>1. conn' = Answer(s, "timeout")
      BY <1>4 DEF SendTimeout
    <2>2. /\ Good(s) /\ Kept(conn, s) /\ s.shutting
          /\ Still(conn, s) /\ ~PartInFlight(s)
      BY <1>1, ShutdownGood, ShutdownStill
    <2> HIDE DEF s
    <2>3. s \in Connections /\ s.locked /\ s.message \in Messages
      BY <1>1, <2>2 DEF Kept, Working, Good
    <2>4. s.fault = "none" => Working(s) /\ s.flight # "write"
      BY <2>2 DEF Good, Working
    <2>5. /\ Still(s, conn') /\ conn'.flight = s.flight /\ conn'.fault = s.fault
          /\ conn'.shutting = s.shutting /\ Over(s, conn')
      BY <2>1, <2>3, <2>4, AnswerStill, AnswerGood
    <2>6. Progress(s)
      BY <2>2, StillProgress DEF Ordered, Kept
    <2>7. Progress(conn')
      BY <2>2, <2>3, <2>4, <2>5, <2>6, SettledProgress DEF Settled, PartInFlight
    <2>8. Grown(conn, conn')
      BY <2>2, <2>5 DEF Grown, Still
    <2>9. Undisturbed => conn'.fault = "none" /\ Calm(conn') /\ conn'.shutting
      BY <1>1, <1>2, <2>2, <2>5 DEF Still, Over, Calm
    <2>10. QED
      BY <1>1, <2>7, <2>8, <2>9, LoopStep
  <1>5. QED
    BY <1>3, <1>4

(* A message that the user sends is not on the wire yet, and its first     *)
(* part is written.                                                        *)
LEMMA SendOrdered ==
    ASSUME IInv, Ordered, NEW m \in Messages, Send(m)
    PROVE  Ordered'
  <1> DEFINE s == Begin(conn, m)
             n == Size[m]["net"]
  <1>1. /\ conn \in Connections /\ Working(conn) /\ conn.known /\ ~conn.locked
        /\ sent[m] = "new" /\ conn.fault = "none" /\ conn.memory = "alive"
        /\ conn.flight = "none" \/ "eager" \in Env
    BY DEF IInv, Good, Send, Running, Idle
  <1>2. conn' = Write(s, "net", n)
    BY DEF Send
  <1>3. n \in Nat /\ n > 0 /\ "net" \in PartNames
    BY SizeAssumption DEF PartNames
  <1>4. s \in Connections
    BY <1>1 DEF Begin, Connections
  <1>5. /\ s.message = m /\ s.reported = conn.reported /\ s.wire = conn.wire
        /\ s.handshake = conn.handshake /\ s.shutting = conn.shutting
        /\ s.flight = conn.flight /\ s.callback = conn.callback
        /\ s.known = conn.known /\ s.notified = conn.notified
        /\ s.written = conn.written /\ s.size = conn.size /\ s.locked
        /\ s.fault = conn.fault /\ s.memory = conn.memory
    BY <1>1 DEF Begin, Connections
  <1> HIDE DEF s, n
  <1>6. Working(s) /\ ~s.handshake /\ ~s.shutting
    BY <1>1, <1>5 DEF Working
  <1>7. /\ Still(s, conn') /\ conn'.callback = "net"
        /\ \/ conn'.flight = "write" \/ conn'.flight = s.flight
           \/ conn'.fault = "overlap"
        /\ PartInFlight(conn') => conn'.written = Encrypted(n)
        /\ Kept(s, conn') /\ Same(s, conn')
    <2>1. /\ Still(s, conn') /\ conn'.callback = "net"
          /\ \/ conn'.flight = "write" \/ conn'.flight = s.flight
             \/ conn'.fault = "overlap"
          /\ PartInFlight(conn') => conn'.written = Encrypted(n)
      BY <1>2, <1>3, <1>4, <1>6, WriteStill
    <2>2. Kept(s, conn') /\ Same(s, conn')
      BY <1>2, <1>3, <1>4, <1>5, <1>6, WriteGood
    <2>3. QED
      BY <2>1, <2>2
  <1>8. \A i \in DOMAIN conn.wire : conn.wire[i].message # m
    BY <1>1 DEF Ordered
  <1>9. conn'.wire = conn.wire /\ conn'.message = m
        /\ conn'.reported = conn.reported /\ conn'.memory = conn.memory
    BY <1>5, <1>7 DEF Still, Kept
  <1>10. OnWireOf(conn', m) = {}
    BY <1>8, <1>9 DEF OnWireOf
  <1>11. InPart(conn')
         \/ ~PartInFlight(conn')
    <2>1. "net" \in Filled(m)
      BY <1>3 DEF n, Filled
    <2>2. {p \in Filled(m) : Before(p, "net")} = {}
      BY BeforeOrder DEF Filled
    <2>3. QED
      BY <1>7, <1>9, <1>10, <2>1, <2>2 DEF InPart, n
  <1>12. InOrder(conn') /\ InUnits(conn')
    BY <1>9 DEF Ordered, Progress, InOrder, InPlace, InUnits
  <1>13. HalfIsClosed(conn') /\ InHand(conn')
    <2>1. \A x : OnWireOf(conn', x) = OnWireOf(conn, x)
      BY <1>9 DEF OnWireOf
    <2>2. conn.shutting => conn'.shutting
      BY <1>5, <1>7 DEF Same
    <2>3. HalfIsClosed(conn')
      BY <1>9, <2>1, <2>2 DEF Ordered, Progress, HalfIsClosed
    <2>4. InHand(conn')
      BY <1>8, <1>9 DEF InHand
    <2>5. QED
      BY <2>3, <2>4
  <1>14. \A i \in DOMAIN conn'.wire : sent'[conn'.wire[i].message] = "sending"
    BY <1>9 DEF Ordered, Send, IInv
  <1>15. Undisturbed => conn'.fault = "none" /\ Calm(conn')
    BY <1>1, <1>5, <1>6, <1>7 DEF Undisturbed, Still, Same, Calm
  <1>16. QED
    BY <1>1, <1>9, <1>11, <1>12, <1>13, <1>14, <1>15 DEF Ordered, Progress

LEMMA WireTyped ==
    ASSUME IInv, NEW i \in DOMAIN conn.wire
    PROVE  conn.wire[i].message \in Messages /\ conn.wire[i].part \in PartNames
  <1>1. conn \in Connections
    BY DEF IInv, Good
  <1>2. conn.wire \in Seq(Writings)
    BY <1>1 DEF Connections
  <1>3. conn.wire[i] \in Writings
    BY <1>2
  <1>4. QED
    BY <1>3 DEF Writings

LEMMA NextOrdered == IInv /\ Ordered /\ [Next]_vars => Ordered'
  <1> SUFFICES ASSUME IInv, Ordered, [Next]_vars PROVE Ordered'
    OBVIOUS
  <1>1. CASE TlsFlight \/ ReadHandshake \/ Disconnect \/ WriteDone \/ Close
             \/ SendTimeout
    BY <1>1, TlsFlightOrdered, ReadHandshakeOrdered, DisconnectOrdered,
       WriteDoneOrdered, CloseOrdered, SendTimeoutOrdered
  <1>2. CASE \E m \in Messages : Send(m)
    BY <1>2, SendOrdered
  <1>3. ASSUME NEW m \in Messages, SendBlocked(m) \/ SendLost(m) PROVE Ordered'
    <2>1. /\ UNCHANGED conn /\ sent[m] = "new"
          /\ sent' = [sent EXCEPT ![m] = "blocked"]
             \/ sent' = [sent EXCEPT ![m] = "lost"]
      BY <1>3 DEF SendBlocked, SendLost
    <2>2. \A i \in DOMAIN conn.wire : sent'[conn.wire[i].message] = "sending"
      <3> TAKE i \in DOMAIN conn.wire
      <3>1. sent[conn.wire[i].message] = "sending"
        BY DEF Ordered
      <3>2. conn.wire[i].message # m
        BY <2>1, <3>1
      <3>3. conn.wire[i].message \in Messages
        BY WireTyped
      <3>4. sent \in [Messages -> {"new", "sending", "blocked", "lost"}]
        BY DEF IInv
      <3>5. QED
        BY <2>1, <3>1, <3>2, <3>3, <3>4
    <2>3. QED
      BY <2>1, <2>2 DEF Ordered
  <1>4. CASE UNCHANGED vars
    <2>1. UNCHANGED conn /\ UNCHANGED sent
      BY <1>4 DEF vars
    <2>2. QED
      BY <2>1 DEF Ordered
  <1>5. QED
    BY <1>1, <1>2, <1>3, <1>4 DEF Next

LEMMA OrderInvariance == Spec => []Ordered
  <1>1. Init => Ordered
    BY InitOrdered
  <1>2. IInv /\ Ordered /\ [Next]_vars => Ordered'
    BY NextOrdered
  <1>3. QED
    BY <1>1, <1>2, Invariance, PTL DEF Spec

(* The parts of a message reach the wire in their order, none is left out  *)
(* or written twice, and no two messages mix.                              *)
THEOREM PartsAreInOrder == Spec => []PartsInOrder
  <1>1. Ordered => PartsInOrder
    BY DEF Ordered, Progress, InOrder, InPlace, PartsInOrder
  <1>2. QED
    BY <1>1, OrderInvariance, PTL

(* A message that was given up half sent never stays on an open            *)
(* connection.                                                             *)
THEOREM GivenUpIsClosed == Spec => []HalfSentIsClosed
  <1>1. Ordered => HalfSentIsClosed
    BY DEF Ordered, Progress, HalfIsClosed, HalfSentIsClosed, Answered, FullySent,
           OnWire, OnWireOf
  <1>2. QED
    BY <1>1, OrderInvariance, PTL

(* A part is called back as written when one call of                       *)
(* _ch_cn_partial_write() has encrypted what it could, whatever is left:   *)
(* so it is complete if, and in general only if, that call encrypts all.   *)
THEOREM OneCallIsWritten ==
    Spec => [](\A i \in DOMAIN conn.wire :
                  conn.wire[i].units
                     = Encrypted(Size[conn.wire[i].message][conn.wire[i].part]))
  <1>1. Ordered => \A i \in DOMAIN conn.wire :
                      conn.wire[i].units
                         = Encrypted(Size[conn.wire[i].message][conn.wire[i].part])
    BY DEF Ordered, Progress, InUnits
  <1>2. QED
    BY <1>1, OrderInvariance, PTL

(* A part no larger than the buffer for encrypted data is encrypted by one *)
(* call.                                                                   *)
LEMMA SmallIsEncrypted ==
    ASSUME NEW n \in Nat, n <= BufferSize
    PROVE  Encrypted(n) = n
  <1>1. /\ RecordSize \in Nat \ {0} /\ BufferSize \in Nat
        /\ Min({n, BufferSize}) = n
    BY BufferAssumption, MinOfTwo
  <1> DEFINE a == n + RecordSize - 1
             k == a \div RecordSize
             p == RecordSize * k
  <1>2. a \in Nat /\ k \in Nat
    BY <1>1
  <1>3. a = RecordSize * k + (a % RecordSize) /\ a % RecordSize \in 0 .. RecordSize - 1
    BY <1>1, <1>2
  <1>4. p \in Nat
    BY <1>1, <1>2
  <1>5. n <= p
    BY <1>1, <1>3, <1>4
  <1>6. Encrypted(n) = Min({n, p})
    BY <1>1 DEF Encrypted
  <1> HIDE DEF p
  <1>7. QED
    BY <1>4, <1>5, <1>6, MinOfTwo

(* A part that is called back as written was written to its last unit, as  *)
(* long as the buffer for encrypted data holds every part of every         *)
(* message.  A larger part may lose its end.                               *)
THEOREM SmallPartsAreComplete ==
    ASSUME \A m \in Messages, p \in PartNames : Size[m][p] <= BufferSize
    PROVE  Spec => []Complete
  <1>1. \A m \in Messages, p \in PartNames : Encrypted(Size[m][p]) = Size[m][p]
    BY SizeAssumption, SmallIsEncrypted
  <1>2. IInv /\ Ordered => Complete
    <2> SUFFICES ASSUME IInv, Ordered, NEW i \in DOMAIN conn.wire
                 PROVE  conn.wire[i].units
                           = Size[conn.wire[i].message][conn.wire[i].part]
      BY DEF Complete
    <2>1. conn.wire[i].message \in Messages /\ conn.wire[i].part \in PartNames
      BY WireTyped
    <2>2. QED
      BY <1>1, <2>1 DEF Ordered, Progress, InUnits
  <1>3. QED
    BY <1>2, OrderInvariance, Invariance, PTL

(* No write is started while one is in flight, no callback that is not     *)
(* there is called, and no timer finds its connection freed, as long as    *)
(* nobody disturbs the connection.                                         *)
THEOREM UndisturbedIsSafe ==
    ASSUME Undisturbed
    PROVE  Spec => []NoFault
  <1>1. Ordered => NoFault
    BY DEF Ordered, NoFault
  <1>2. QED
    BY <1>1, OrderInvariance, PTL
=============================================================================
