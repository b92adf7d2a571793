------------------------------- MODULE Reader -------------------------------
(***************************************************************************)
(* What an accepted connection does with the bytes it receives: the read   *)
(* callback, the BIO and the TLS handshake (protocol.c), and the reader    *)
(* that takes the handshake of chirp and the headers of messages out of    *)
(* the decrypted data (reader.c).                                          *)
(*                                                                         *)
(* The remote sends the flights of its TLS handshake and then records with *)
(* a handshake and the headers of Messages messages; parts may follow the  *)
(* last of them.  TCP delivers records in any pieces.  Encrypted data is   *)
(* counted in halves of records, so that a record can come in two pieces;  *)
(* decrypted data is counted in bytes.  Records are not larger than the    *)
(* buffers of the connection.                                              *)
(*                                                                         *)
(* Nothing else happens during a read callback, so it is cut into steps:   *)
(* one for each round of its loop and of the loop of ch_rd_read().  Only   *)
(* the writes that matter to reading are here: Writer has the write path,  *)
(* its failures included, and Connections has the end of the connection.   *)
(***************************************************************************)
EXTENDS Integers, Sequences

CONSTANTS
    HandshakeSize,    \* sizeof(ch_rd_handshake_t)
    HeaderSize,       \* sizeof(ch_ms_message_t)
    PartSize,         \* the bytes of parts
    Parts,            \* the parts the last message may have
    Messages,         \* bounds how many messages the remote sends
    Records,          \* bounds how many records it uses for them
    Lengths,          \* the lengths of these records
    BioSize,          \* the halves that fit the BIO: a record at least
    ReadSize          \* the halves that fit the buffer of the read callback

PartStates == {"header", "actor", "data"}
States     == {"start", "handshake", "wait"} \cup PartStates

ASSUME SizesAssumption ==
    /\ Parts \subseteq PartStates
    /\ HandshakeSize \in Nat \ {0} /\ HeaderSize \in Nat \ {0}
    /\ PartSize \in Nat \ {0} /\ Messages \in Nat \ {0} /\ Records \in Nat
    /\ Lengths \subseteq Nat \ {0}
    /\ BioSize \in Nat \ {0, 1} /\ ReadSize \in Nat \ {0}

VARIABLES
    \* The remote and the network
    parts,      \* the state of the reader that the last header asks for
    wire,       \* the records sent: of data, <<first byte, first byte behind>>
    odd,        \* what has happened beyond the exchange the code expects
    \* libuv, OpenSSL and the buffers
    delivered,  \* halves handed to the read callback
    rest,       \* those that are not in the BIO yet
    put,        \* halves written to the BIO
    used,       \* those that OpenSSL has taken out of it
    full,       \* the last read filled its buffer: libuv reads again at once
    tls,        \* what the TLS handshake waits for
    flight,     \* the write whose callback is due
    \* The connection
    state,      \* reader->state
    chunk,      \* what ch_rd_read() is working at
    taken,      \* the handshakes and headers that were accepted
    shut,       \* why ch_cn_shutdown() was called
    fault

remoteVars == <<parts, wire>>
bioVars    == <<delivered, rest, put, used>>
endVars    == <<shut, flight, fault>>
vars == <<remoteVars, odd, bioVars, full, tls, state, chunk, taken, endVars>>

(***************************************************************************)
(* The oddities:                                                           *)
(*   parts      the last message has parts                                 *)
(*   split      a record ends inside a handshake or a header               *)
(*   piece      a read callback gets a part of a record                    *)
(*   several    a read callback gets several records                       *)
(*   empty      a read callback gets nothing: the read before it has filled *)
(*              its buffer, and nothing more was there                      *)
(*   early      the remote sends data before it has the TLS handshake      *)
(*   refused    OpenSSL refuses the TLS handshake                          *)
(*   unnamed    uv_tcp_getpeername() fails: it is called with an           *)
(*              uninitialised length                                       *)
(*   cut        the connection ends while a write is in flight or before   *)
(*              everything the remote has sent is read                     *)
(***************************************************************************)
Oddities == {"parts", "split", "piece", "several", "empty", "early",
             "refused", "unnamed", "cut"}

NoChunk  == [from |-> 0, read |-> 0, handled |-> 0, active |-> FALSE]
Chunk(from, read) ==
    [from |-> from, read |-> read, handled |-> 0, active |-> TRUE]

\* The bytes the remote sends, and where its handshake and its headers end.
Bytes == HandshakeSize + Messages * HeaderSize
         + IF parts = "wait" THEN 0 ELSE PartSize

Aligned(p) ==
    \/ p \in {0, Bytes}
    \/ \E k \in 0 .. Messages : p = HandshakeSize + k * HeaderSize

Sent == IF Len(wire) <= 2 THEN 0 ELSE wire[Len(wire)][2]

Init ==
    /\ parts \in {"wait"} \cup Parts
    /\ odd = IF parts = "wait" THEN {} ELSE {"parts"}
    /\ wire = <<>>
    /\ delivered = 0 /\ rest = 0 /\ put = 0 /\ used = 0
    /\ full = FALSE /\ tls = "hello" /\ flight = "none"
    /\ state = "start" /\ chunk = NoChunk /\ taken = <<>>
    /\ shut = "no" /\ fault = "none"

Running == fault = "none"

\* The loop is not in a callback of the connection.
Idle == Running /\ rest = 0 /\ ~chunk.active

-----------------------------------------------------------------------------
(* The remote.                                                             *)

\* The remote has not ended the connection itself.
Open == shut = "ended" => "cut" \in odd

\* The flights of the TLS handshake: the second one answers the server's.
RemoteFlight ==
    /\ Idle /\ Open
    /\ \/ wire = <<>>
       \/ Len(wire) = 1 /\ tls = "finish" /\ flight = "none"
    /\ wire' = Append(wire, <<0, 0>>)
    /\ UNCHANGED <<parts, odd, bioVars, full, tls, state, chunk, taken, endVars>>

\* A record with n bytes.
RemoteData(n) ==
    /\ Idle /\ Open
    /\ Len(wire) \in 2 .. Records + 1
    /\ Sent + n <= Bytes
    /\ wire' = Append(wire, <<Sent, Sent + n>>)
    /\ odd' = odd \cup (IF Aligned(Sent + n) THEN {} ELSE {"split"})
                  \cup (IF tls = "done" /\ flight # "tls" THEN {} ELSE {"early"})
    /\ UNCHANGED <<parts, bioVars, full, tls, state, chunk, taken, endVars>>

-----------------------------------------------------------------------------
(* Functions that several handlers call.                                   *)

\* ch_cn_shutdown(): it sends an alert, unless the TLS handshake is not done.
\* A write that is in flight fails an assertion.
Shutdown(why) ==
    IF shut # "no"
    THEN UNCHANGED endVars
    ELSE /\ shut' = why
         /\ IF tls # "done" THEN UNCHANGED <<flight, fault>>
            ELSE IF flight = "none" THEN flight' = "alert" /\ UNCHANGED fault
            ELSE fault' = "overlap" /\ UNCHANGED flight

\* uv_write() asks for the only write request of the connection.
Write(what) ==
    /\ IF flight = "none" THEN flight' = what /\ UNCHANGED fault
       ELSE fault' = "overlap" /\ UNCHANGED flight
    /\ UNCHANGED shut

\* The record that starts at half u is in the BIO as a whole.
LaterRecord(u, p) == u + 2 < p
WholeRecord(u, p) == u + 2 <= p

-----------------------------------------------------------------------------
(* The read callback.                                                      *)

ReadCb(n) ==
    /\ Idle
    /\ delivered + n <= 2 * Len(wire)
    /\ delivered' = delivered + n
    /\ rest' = n
    /\ full' = (n = ReadSize)
    /\ odd' = odd \cup (IF delivered % 2 = 0 /\ n % 2 = 0 THEN {} ELSE {"piece"})
                  \cup (IF n <= 2 THEN {} ELSE {"several"})
    /\ UNCHANGED <<remoteVars, put, used, tls, state, chunk, taken, endVars>>

\* libuv reads again after a read that filled its buffer, and calls back even
\* if nothing is there.  Nothing can not be written to the BIO.
NothingRead ==
    /\ Idle /\ full
    /\ full' = FALSE
    /\ odd' = odd \cup {"empty"}
    /\ Shutdown("refused")
    /\ UNCHANGED <<remoteVars, bioVars, tls, state, chunk, taken>>

\* One round of its loop writes what fits to the BIO ...
Room == BioSize - (put - used)
FitsAll == rest
Fits == IF rest < Room THEN rest ELSE Room

InReadCb == Running /\ rest > 0 /\ ~chunk.active

BioWrite ==
    /\ Fits >= 1
    /\ put' = put + Fits
    /\ rest' = rest - Fits

\* ... and gives up if nothing does.
BioFull ==
    /\ InReadCb
    /\ Fits < 1
    /\ rest' = 0
    /\ Shutdown("refused")
    /\ UNCHANGED <<remoteVars, odd, delivered, put, used, full, tls, state, chunk,
                   taken>>

\* _ch_pr_do_handshake(): OpenSSL takes a flight and answers it.  It asserts
\* that no write is in flight even if there is nothing to answer.
DoHandshake ==
    /\ InReadCb /\ tls # "done"
    /\ BioWrite
    /\ IF WholeRecord(used, put') /\ tls # "refused"
       THEN /\ used' = used + 2
            /\ \/ /\ tls' = IF tls = "hello" THEN "finish" ELSE "done"
                  /\ UNCHANGED odd
               \/ /\ tls' = "refused"
                  /\ odd' = odd \cup {"refused"}
            /\ Write("tls")
       ELSE /\ UNCHANGED <<used, tls, odd, flight, shut>>
            /\ fault' = IF flight = "none" THEN fault ELSE "overlap"
    /\ UNCHANGED <<remoteVars, delivered, full, state, chunk, taken>>

\* _ch_pr_read(): one SSL_read(), so at most one record; without a whole record
\* it fails.
Read ==
    /\ InReadCb /\ tls = "done"
    /\ BioWrite
    /\ IF WholeRecord(used, put')
       THEN LET record == wire[(used \div 2) + 1]
            IN  /\ used' = used + 2
                /\ chunk' = Chunk(record[1], record[2] - record[1])
                /\ UNCHANGED endVars
       ELSE /\ Shutdown("refused")
            /\ UNCHANGED <<used, chunk>>
    /\ UNCHANGED <<remoteVars, odd, delivered, full, tls, state, taken>>

\* The end of the connection, or an error of the network.
Eof ==
    /\ Idle /\ shut = "no"
    /\ Shutdown("ended")
    /\ odd' = odd \cup (IF flight = "none" /\ delivered = 2 * Len(wire)
                       THEN {} ELSE {"cut"})
    /\ full' = FALSE
    /\ UNCHANGED <<remoteVars, bioVars, tls, state, chunk, taken>>

\* _ch_cn_send_pending_cb() starts the reader when the TLS handshake is done,
\* and calls it again behind the alert.  _ch_cn_write_cb() of the greeting
\* has nothing to do.
WriteCb ==
    /\ Idle /\ flight # "none"
    /\ flight' = "none"
    /\ chunk' = IF flight # "greeting" /\ tls = "done" THEN Chunk(0, 0) ELSE chunk
    /\ full' = FALSE
    /\ UNCHANGED <<remoteVars, odd, bioVars, tls, state, taken, shut, fault>>

-----------------------------------------------------------------------------
(* ch_rd_read(): a round of its loop per step.                             *)

InReader(s) == Running /\ chunk.active /\ state = s

HereFirst == chunk.from
Here      == chunk.from + chunk.handled

\* The condition of the loop.
Handled(n) ==
    chunk' = IF chunk.handled + n < chunk.read
             THEN [chunk EXCEPT !.handled = @ + n]
             ELSE NoChunk

Take(what, size) ==
    taken' = Append(taken,
        [what   |-> what,
         at     |-> Here,
         late   |-> shut # "no",
         behind |-> chunk.handled > 0,
         whole  |-> chunk.handled + size <= chunk.read])

RdStart ==
    /\ InReader("start")
    /\ Write("greeting")
    /\ state' = "handshake"
    /\ Handled(0)
    /\ UNCHANGED <<remoteVars, odd, bioVars, full, tls, taken>>

\* A handshake that is refused; the reader goes on.
RefuseSilently == UNCHANGED endVars
Refuse         == Shutdown("refused")

\* _ch_rd_handshake() refuses less than a handshake.
GreetingFits(n) == n >= HandshakeSize

RdHandshake ==
    /\ InReader("handshake")
    /\ \/ /\ GreetingFits(chunk.read - chunk.handled)
          /\ Take("handshake", HandshakeSize)
          /\ UNCHANGED <<odd, endVars>>
       \/ /\ GreetingFits(chunk.read - chunk.handled)
          /\ odd' = odd \cup {"unnamed"}
          /\ Refuse
          /\ UNCHANGED taken
       \/ /\ ~GreetingFits(chunk.read - chunk.handled)
          /\ Refuse
          /\ UNCHANGED <<taken, odd>>
    /\ state' = "wait"
    /\ Handled(HandshakeSize)
    /\ UNCHANGED <<remoteVars, bioVars, full, tls>>

\* As it is coded: it adds what is handled to what was read.
HeaderFitsLoosely(c) == c.read + c.handled > HeaderSize
HeaderFits(c)        == c.read + c.handled >= HeaderSize

\* The next state of the reader, by the lengths in the header.  Bytes that are
\* no header may ask for anything.
AskedHeader == {"header"}
Asked ==
    IF Aligned(Here) /\ Here >= HandshakeSize
                     /\ chunk.handled + HeaderSize <= chunk.read
    THEN {IF Here + HeaderSize = HandshakeSize + Messages * HeaderSize
          THEN parts ELSE "wait"}
    ELSE {"wait"} \cup PartStates

RdWait ==
    /\ InReader("wait")
    /\ IF HeaderFits(chunk)
       THEN /\ Take("header", HeaderSize)
            /\ state' \in Asked
            /\ Handled(HeaderSize)
            /\ UNCHANGED endVars
       ELSE /\ Shutdown("refused")
            /\ chunk' = NoChunk
            /\ UNCHANGED <<state, taken>>
    /\ UNCHANGED <<remoteVars, odd, bioVars, full, tls>>

\* _ch_rd_read_buffer() is a stub: nothing is handled, so the loop never ends
\* if there is anything to read.
RdParts ==
    /\ \E s \in PartStates : InReader(s)
    /\ IF chunk.handled < chunk.read
       THEN fault' = "endless" /\ UNCHANGED chunk
       ELSE chunk' = NoChunk /\ UNCHANGED fault
    /\ UNCHANGED <<remoteVars, odd, bioVars, full, tls, state, taken, shut, flight>>

-----------------------------------------------------------------------------

ReaderStep == RdStart \/ RdHandshake \/ RdWait \/ RdParts
Callback   == BioFull \/ DoHandshake \/ Read \/ ReaderStep

Next ==
    \/ RemoteFlight
    \/ \E n \in Lengths : RemoteData(n)
    \/ \E n \in 1 .. ReadSize : ReadCb(n)
    \/ NothingRead
    \/ Eof
    \/ WriteCb
    \/ Callback

Spec == Init /\ [][Next]_vars

\* What has arrived is read, writes are called back and callbacks return.
FairSpec ==
    /\ Spec
    /\ WF_vars(\E n \in 1 .. ReadSize : ReadCb(n))
    /\ WF_vars(WriteCb)
    /\ WF_vars(Callback)

-----------------------------------------------------------------------------
(* Properties.                                                             *)

TypeOK ==
    /\ parts \in {"wait"} \cup PartStates
    /\ wire \in Seq({r \in Nat \X Nat : r[1] <= r[2]})
    /\ odd \subseteq Oddities
    /\ delivered \in Nat /\ rest \in Nat /\ put \in Nat /\ used \in Nat
    /\ used <= put /\ put + rest <= delivered /\ delivered <= 2 * Len(wire)
    /\ put - used <= BioSize /\ full \in BOOLEAN
    /\ tls \in {"hello", "finish", "done", "refused"}
    /\ flight \in {"none", "tls", "greeting", "alert"}
    /\ state \in States
    /\ chunk \in [from : Nat, read : Nat, handled : Nat, active : BOOLEAN]
    /\ taken \in Seq([what : {"handshake", "header"}, at : Nat,
                      late : BOOLEAN, behind : BOOLEAN, whole : BOOLEAN])
    /\ shut \in {"no", "ended", "refused"}
    /\ fault \in {"none", "overlap", "endless"}

\* A remote that does what the code expects is served: its connection is not
\* shut down before it ends it, the single write request is never used twice,
\* and the reader does not get stuck.  The code expects more than a remote can
\* see to: that no read callback gets nothing (protocol.c:366), or a part of a
\* record.
OrderlyIsServed == odd = {} => shut # "refused" /\ fault = "none"

\* As long as no record ends inside a handshake or a header, the reader takes
\* the handshake of the remote and its headers, in the order of the stream,
\* each as a whole and once, however TCP delivers them and whatever else
\* happens.  This ends with the connection: data is still read while it is
\* shut down, and there a handshake may be taken for a header.
UnitAt(i) == IF i = 1 THEN 0 ELSE HandshakeSize + (i - 2) * HeaderSize

TakenInOrder ==
    {"split", "unnamed"} \cap odd = {} =>
        \A i \in DOMAIN taken : ~taken[i].late =>
            /\ taken[i].what = IF i = 1 THEN "handshake" ELSE "header"
            /\ taken[i].at = UnitAt(i)
            /\ taken[i].whole

\* Whatever the remote sends, a handshake and a header that begins a read are
\* never taken out of bytes that did not arrive, and a remote whose handshake
\* was not taken is shut down before a header of it is.  Behind something else
\* in the same read a header may be too short: its size check is wrong there.
TakenSoundly ==
    \A i \in DOMAIN taken :
        /\ taken[i].whole \/ taken[i].behind
        /\ taken[i].what = "header" /\ taken[1].what # "handshake" => taken[i].late

\* Everything the remote sends is read in the end, if each record comes in a
\* read of its own and nothing else is odd.
AllRead ==
    used < 2 * Len(wire) ~> \/ used = 2 * Len(wire) /\ ~chunk.active
                            \/ odd # {} \/ shut # "no"

\* A callback returns to the loop unless the remote sends parts, or the reader
\* takes something for a header with parts: bytes of a record that was split,
\* or the handshake on a connection that is shut down.
CallbackReturns ==
    ~Idle ~> \/ Idle \/ fault = "overlap"
             \/ {"parts", "split"} \cap odd # {} \/ shut # "no"

\* The remote of OrderlyIsServed is served however large its records are.  The
\* code breaks this: a read that is filled to the last half by one of them is
\* followed by a callback that gets nothing.
FilledIsServed == odd \subseteq {"empty"} => shut # "refused" /\ fault = "none"
=============================================================================
