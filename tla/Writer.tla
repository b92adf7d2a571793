------------------------------- MODULE Writer -------------------------------
(***************************************************************************)
(* Writing to one accepted connection: the TLS handshake and the chirp     *)
(* handshake, the write path with its two buffers (connection.c), and the  *)
(* writer that sends a message part by part and calls the user back        *)
(* (writer.c).                                                             *)
(*                                                                         *)
(* libuv owns a write request from uv_write() to the callback, and a       *)
(* connection has only one request and one buffer for it.  The functions   *)
(* call each other, so the state of the connection is one record and each  *)
(* function of the code is an operator from such records to such records;  *)
(* an action is what one event of the loop makes of the record.            *)
(*                                                                         *)
(* Data is counted in units.  SSL_write() encrypts at most RecordSize      *)
(* units at once, and the buffer for encrypted data holds BufferSize.      *)
(***************************************************************************)
EXTENDS Integers, Sequences, FiniteSetsExt

CONSTANTS
    Messages,      \* the messages the user may send, each once
    Size,          \* Size[m][p]: the units of part p of message m, zero if absent
    RecordSize,
    BufferSize,
    NoMessage,
    Env            \* the environment behaviours that may happen

(***************************************************************************)
(*   fail       the write of a part of a message or of TLS data fails        *)
(*   greetfail  the write of the chirp handshake fails                     *)
(*   slow       a part is not written before the send times out            *)
(*   end        the connection ends, or the remote breaks the protocol,    *)
(*              while nothing is being written                             *)
(*   cut        the same while a write is in flight                        *)
(*   eager      data of the remote, or a message of the user, comes while  *)
(*              a handshake is still being written                         *)
(*   impatient  the user sends a message before the last one is called back*)
(*   offline    the user sends a message without a connection              *)
(*   stall      the remote does not let uv_shutdown finish within TIMEOUT  *)
(***************************************************************************)
Behaviours == {"fail", "greetfail", "slow", "end", "cut", "eager", "impatient",
               "offline", "stall"}

\* The parts of a message in the order in which the writer sends them.
Parts == <<"net", "header", "actor", "data">>
PartNames == {"net", "header", "actor", "data"}

ASSUME SizeAssumption ==
    /\ Size \in [Messages -> [PartNames -> Nat]]
    /\ \A m \in Messages : Size[m]["net"] > 0
ASSUME BufferAssumption == RecordSize \in Nat \ {0} /\ BufferSize \in Nat \ {0}
ASSUME WriterEnvAssumption ==
    /\ NoMessage \notin Messages
    /\ Env \subseteq Behaviours

VARIABLES
    conn,       \* the connection, its reader and its writer
    sent        \* of each message: "new", "sending", "blocked" or "lost"

vars == <<conn, sent>>

Init ==
    /\ \E acknowledge \in BOOLEAN :
       conn = [acknowledge |-> acknowledge,   \* config.ACKNOWLEDGE
               memory    |-> "alive",
               handshake |-> TRUE,      \* CH_CN_TLS_HANDSHAKE
               reader    |-> "start",
               known     |-> FALSE,     \* in protocol->connections
               shutting  |-> FALSE,     \* CH_CN_SHUTTING_DOWN
               notified  |-> FALSE,     \* SSL_shutdown() was called
               flight    |-> "none",    \* whose callback write_req waits for
               bio       |-> 0,         \* BIO_pending(conn->bio_app)
               size      |-> 0,         \* write_size
               written   |-> 0,         \* write_written
               callback  |-> "NULL",    \* write_callback
               locked    |-> FALSE,     \* writer.lock
               timer     |-> FALSE,     \* writer.send_timeout is running
               message   |-> NoMessage, \* writer.msg
               reported  |-> <<>>,      \* the calls of send_cb
               wire      |-> <<>>,      \* the parts called back as written
               fault     |-> "none"]
    /\ sent = [m \in Messages |-> "new"]

Answered == {conn.reported[i].message : i \in DOMAIN conn.reported}
Unanswered == {m \in Messages : sent[m] = "sending"} \ Answered

TypeOK ==
    /\ conn.memory \in {"alive", "freed"}
    /\ conn.reader \in {"start", "handshake", "wait"}
    /\ {conn.handshake, conn.known, conn.shutting, conn.notified, conn.locked,
        conn.timer, conn.acknowledge} \subseteq BOOLEAN
    /\ conn.flight \in {"none", "pending", "write"}
    /\ conn.bio \in Nat /\ conn.size \in Nat /\ conn.written \in Nat
    /\ conn.callback \in PartNames \cup {"NULL"}
    /\ conn.message \in Messages \cup {NoMessage}
    /\ \A i \in DOMAIN conn.reported :
          conn.reported[i] \in [message : Messages, status : {"error", "timeout"}]
    /\ \A i \in DOMAIN conn.wire :
          conn.wire[i] \in [message : Messages, part : PartNames, units : Nat]
    /\ conn.fault \in {"none", "overlap", "callback", "timer"}
    /\ sent \in [Messages -> {"new", "sending", "blocked", "lost"}]

-----------------------------------------------------------------------------
(* The write path.  s is the record conn in the middle of a handler.       *)

\* uv_write() of what the buffer takes from the BIO, to be called back by owner.
UvWriteBuffer(s, owner) == [s EXCEPT !.flight = owner, !.bio = @ - BufferSize]
UvWrite(s, owner) ==
    IF s.flight # "none"
    THEN [s EXCEPT !.fault = "overlap"]
    ELSE [s EXCEPT !.flight = owner, !.bio = @ - Min({@, BufferSize})]

\* What one call of _ch_cn_partial_write() encrypts of n units: records, until
\* the data ends or the buffer is full.
EncryptedOnce(n) == Min({n, RecordSize})
Encrypted(n) ==
    Min({n, RecordSize * ((Min({n, BufferSize}) + RecordSize - 1) \div RecordSize)})

\* _ch_cn_partial_write().  SSL_write() fails after SSL_shutdown(), and the
\* shutdown that follows finds the connection shutting down.
PartialWrite(s) ==
    LET n == Encrypted(s.size - s.written)
    IN  IF s.notified
        THEN s
        ELSE UvWrite([s EXCEPT !.bio = @ + n, !.written = @ + n], "write")

\* ch_cn_write() on an encrypted connection.
Write(s, callback, n) ==
    PartialWrite([s EXCEPT !.callback = callback, !.size = n, !.written = 0])

\* ch_cn_shutdown().  SSL_shutdown() leaves the alert in the BIO, and
\* ch_cn_send_if_pending() writes it whether or not a write is in flight.
Shutdown(s) ==
    LET t == [s EXCEPT !.known = FALSE, !.shutting = TRUE]
    IN  IF s.shutting THEN s
        ELSE IF s.handshake THEN t
        ELSE UvWrite([t EXCEPT !.notified = TRUE, !.bio = @ + 1], "pending")

\* ch_rd_read() without data: at the start the reader writes the chirp
\* handshake, later it finds the data too short.
Greet(s) == [Write(s, "NULL", 1) EXCEPT !.reader = "handshake"]
StartReader(s) ==
    CASE s.reader = "start"     -> Greet(s)
      [] s.reader = "handshake" -> [Shutdown(s) EXCEPT !.reader = "wait"]
      [] s.reader = "wait"      -> Shutdown(s)

\* ch_cn_send_if_pending().
SendIfPending(s) ==
    IF s.bio > 0 THEN UvWrite(s, "pending")
    ELSE IF s.handshake THEN s
    ELSE StartReader(s)

-----------------------------------------------------------------------------
(* The writer.                                                             *)

\* The message is over: the timer stops, the lock is free, the user is told.
AnswerTimed(s, status) ==
    [s EXCEPT !.locked = FALSE,
              !.reported = Append(@, [message |-> s.message, status |-> status])]
AnswerLocked(s, status) ==
    [s EXCEPT !.timer = FALSE,
              !.reported = Append(@, [message |-> s.message, status |-> status])]
Answer(s, status) ==
    [s EXCEPT !.timer = FALSE,
              !.locked = FALSE,
              !.reported = Append(@, [message |-> s.message, status |-> status])]

\* _ch_wr_send_finish(): the acknowledge would end the message, but nothing
\* reads it yet.
Finish(s) == IF s.acknowledge THEN s ELSE Answer(s, "error")

\* The places of the parts of message m that follow part p and are not empty.
RestUnordered(m, p) == {i \in 1 .. 4 : Parts[i] # p /\ Size[m][Parts[i]] > 0}
Rest(m, p) ==
    {i \in 1 .. 4 : Size[m][Parts[i]] > 0 /\ \E j \in 1 .. i - 1 : Parts[j] = p}

\* The callback of each part of the message: write the next one.
PartWritten(s) ==
    LET m    == s.message
        rest == Rest(m, s.callback)
        next == Parts[Min(rest)]
        t    == [s EXCEPT !.wire = Append(@, [message |-> m, part |-> s.callback,
                                              units |-> s.written])]
    IN  IF rest = {} THEN Finish(t) ELSE Write(t, next, Size[m][next])

\* What _ch_wr_send() sets before it writes the first part.
Begin(s, m) == [s EXCEPT !.locked = TRUE, !.timer = TRUE, !.message = m]

\* _ch_cn_write_cb() with an error.  The chirp handshake has no callback, and
\* here the code does not look whether there is one.
WriteFailedOpen(s) ==
    IF s.callback = "NULL"
    THEN [s EXCEPT !.fault = "callback"]
    ELSE Answer(s, "error")
WriteFailedSilent(s) ==
    IF s.callback = "NULL"
    THEN [s EXCEPT !.fault = "callback"]
    ELSE Shutdown(s)
WriteFailed(s) ==
    IF s.callback = "NULL"
    THEN [s EXCEPT !.fault = "callback"]
    ELSE Answer(Shutdown(s), "error")

\* What _ch_cn_write_cb() takes for data that is not encrypted yet.
NotEncrypted(s) == s.size < s.written

\* _ch_cn_write_cb() without error.
WriteOK(s) ==
    IF NotEncrypted(s) THEN PartialWrite(s)
    ELSE IF s.bio > 0 THEN UvWrite(s, "write")
    ELSE IF s.callback = "NULL" THEN [s EXCEPT !.size = 0]
    ELSE PartWritten([s EXCEPT !.size = 0])

\* _ch_cn_write_cb() and _ch_cn_send_pending_cb(): the write in flight is done.
Called(s, ok) ==
    LET t == [s EXCEPT !.flight = "none"]
    IN  IF s.flight = "write"
        THEN IF ok THEN WriteOK(t) ELSE WriteFailed(t)
        ELSE IF ok THEN SendIfPending(t) ELSE Shutdown(t)

-----------------------------------------------------------------------------
(* The events.                                                             *)

Running == conn.fault = "none" /\ \A m \in Messages : sent[m] # "blocked"

Idle == conn.flight = "none"

\* _ch_pr_do_handshake(): data of the TLS handshake has come.  OpenSSL may
\* have an answer, and the handshake may be finished with it.
TlsFlight ==
    /\ Running /\ conn.memory = "alive"
    /\ conn.handshake /\ ~conn.shutting
    /\ Idle \/ "eager" \in Env
    /\ \E answer \in 0 .. 1, finished \in BOOLEAN :
          conn' = SendIfPending([conn EXCEPT !.bio = @ + answer,
                                             !.handshake = ~finished])
    /\ UNCHANGED sent

\* The chirp handshake of the remote has come: _ch_pr_read(), ch_rd_read() and
\* _ch_rd_handshake().
ReadHandshake ==
    LET s == IF conn.reader = "start" THEN Greet(conn) ELSE conn
    IN  /\ Running /\ conn.memory = "alive"
        /\ ~conn.handshake /\ ~conn.shutting
        /\ conn.reader # "wait"
        /\ conn.reader = "start" => "eager" \in Env
        /\ conn' = [s EXCEPT !.known = TRUE, !.reader = "wait"]
        /\ UNCHANGED sent

\* The connection ends or the data of the remote is refused.
Disconnect ==
    /\ Running /\ conn.memory = "alive"
    /\ IF Idle THEN "end" \in Env ELSE "cut" \in Env
    /\ ~conn.shutting
    /\ conn' = Shutdown(conn)
    /\ UNCHANGED sent

MayFail == IF conn.flight = "write" /\ conn.callback = "NULL"
           THEN "greetfail" \in Env ELSE "fail" \in Env

\* libuv calls back a write that has succeeded, or one that has failed.
WriteDone ==
    /\ Running /\ conn.memory = "alive" /\ ~Idle
    /\ \/ conn' = Called(conn, TRUE)
       \/ MayFail /\ conn' = Called(conn, FALSE)
    /\ UNCHANGED sent

\* The connection is closed and freed: after uv_shutdown() has waited for the
\* write in flight, or after the timeout, which cancels that write.
Close ==
    /\ Running /\ conn.memory = "alive" /\ conn.shutting
    /\ Idle \/ "stall" \in Env
    /\ LET s == IF Idle THEN conn ELSE Called(conn, FALSE)
       IN  conn' = [s EXCEPT !.memory = "freed"]
    /\ UNCHANGED sent

\* ch_chirp_send() finds the connection and its lock free.
Send(m) ==
    /\ Running /\ conn.memory = "alive"
    /\ sent[m] = "new" /\ conn.known /\ ~conn.locked
    /\ Idle \/ "eager" \in Env
    /\ conn' = Write(Begin(conn, m), "net", Size[m]["net"])
    /\ sent' = [sent EXCEPT ![m] = "sending"]

\* The lock is held by the message before: uv_mutex_lock() stops the loop that
\* would have to release it.
SendBlocked(m) ==
    /\ Running /\ conn.memory = "alive"
    /\ "impatient" \in Env
    /\ sent[m] = "new" /\ conn.known /\ conn.locked
    /\ sent' = [sent EXCEPT ![m] = "blocked"]
    /\ UNCHANGED conn

\* ch_chirp_send() finds no connection: it does nothing.
SendLost(m) ==
    /\ Running
    /\ "offline" \in Env
    /\ sent[m] = "new" /\ ~conn.known
    /\ sent' = [sent EXCEPT ![m] = "lost"]
    /\ UNCHANGED conn

\* _ch_wr_send_timeout_cb().  The timer is never closed: it may outlive the
\* connection it points to.
SendTimeout ==
    /\ Running /\ conn.timer
    /\ conn.flight = "write" => "slow" \in Env
    /\ IF conn.memory = "freed"
       THEN conn' = [conn EXCEPT !.fault = "timer"]
       ELSE conn' = Answer(Shutdown(conn), "timeout")
    /\ UNCHANGED sent

Next ==
    \/ TlsFlight \/ ReadHandshake \/ Disconnect \/ WriteDone \/ Close
    \/ SendTimeout
    \/ \E m \in Messages : Send(m) \/ SendBlocked(m) \/ SendLost(m)

Spec == Init /\ [][Next]_vars

\* libuv calls back every write, runs every timer that is due and closes what
\* is shut down.  The remote and the user owe nothing.
FairSpec == Spec /\ WF_vars(WriteDone) /\ WF_vars(SendTimeout) /\ WF_vars(Close)

-----------------------------------------------------------------------------
(* Properties.                                                             *)

\* Part p of a message comes before its part q.
Before(p, q) == \E j \in 1 .. 4 : \E i \in 1 .. j - 1 : Parts[i] = p /\ Parts[j] = q

\* The parts of message m that are not empty, and those that are on the wire.
Filled(m) == {p \in PartNames : Size[m][p] > 0}
OnWire(m) == {conn.wire[i].part : i \in {k \in DOMAIN conn.wire : conn.wire[k].message = m}}
FullySent(m) == Filled(m) \subseteq OnWire(m)

\* The user is called back at most once for each message, whatever comes first:
\* the last part, a failed or cancelled write, or the timeout (writer.c:119-147,
\* 261-279, 361-383).
AnsweredOnce ==
    \A i, j \in DOMAIN conn.reported :
        conn.reported[i].message = conn.reported[j].message => i = j

\* As long as nothing undefined has happened, the lock of the writer is held
\* exactly while one message waits for its callback, the timer runs as long, and
\* the writer works on that message (writer.c:153-208).
OneAtATime ==
    conn.fault = "none" =>
        /\ Unanswered = IF conn.locked THEN {conn.message} ELSE {}
        /\ conn.timer = conn.locked

\* The parts of a message reach the wire in their order, none is left out or
\* written twice, and no two messages mix (writer.c:213-356).
PartsInOrder ==
    \A k \in DOMAIN conn.wire :
        LET m == conn.wire[k].message
        IN  /\ conn.wire[k].part \in Filled(m)
            /\ \A p \in Filled(m) : Before(p, conn.wire[k].part) =>
                  \E i \in 1 .. k - 1 : conn.wire[i].message = m /\ conn.wire[i].part = p
            /\ \A i \in 1 .. k - 1 : conn.wire[i].message = m =>
                  /\ Before(conn.wire[i].part, conn.wire[k].part)
                  /\ \A j \in i .. k : conn.wire[j].message = m

\* A message that was given up half sent never stays on an open connection, where
\* the remote would take the next message for the rest of it (writer.c:126-145,
\* 361-383, connection.c:532-544).
HalfSentIsClosed ==
    \A m \in Answered : FullySent(m) \/ conn.shutting

\* A part that is called back as written was written to its last unit
\* (connection.c:186-225, 545-604).
Complete ==
    \A i \in DOMAIN conn.wire :
        conn.wire[i].units = Size[conn.wire[i].message][conn.wire[i].part]

\* No write is started while one is in flight, no callback that is not there is
\* called, and no timer finds its connection freed.
NoFault == conn.fault = "none"

\* The user gets an answer to every message that the writer accepts.
EverySendAnswered == \A m \in Messages : sent[m] = "sending" ~> m \in Answered

(* What comments and assertions of the code say, and what it does not keep.  *)

\* connection.c:825 and 892 assert that no other write is pending.
OneWrite == conn.fault # "overlap"

\* connection.h:247: the callback of a write can be NULL.
CallbackMayBeNull == conn.fault # "callback"

\* callbacks.h:74-80: the callback comes when the message is sent, and the status
\* is CH_SUCCESS, CH_TIMEOUT or an error.
SentIsSuccess ==
    \A i \in DOMAIN conn.reported :
        FullySent(conn.reported[i].message) => conn.reported[i].status # "error"

\* chirp_obj.h:254: a message to the same node blocks until the callback of the
\* one before.
BlockedIsReleased == \A m \in Messages : sent[m] = "blocked" ~> sent[m] # "blocked"
=============================================================================
