------------------------------- MODULE Config -------------------------------
(***************************************************************************)
(* The configuration of an instance and its check (ch_config_t, and        *)
(* _ch_chirp_verify_cfg() of chirp.c).  Times are in tenths of a second; a *)
(* file name stands for what is behind it: NULL, no file, a file OpenSSL   *)
(* refuses, or one it loads.                                               *)
(***************************************************************************)
EXTENDS Integers

MinBuffer     == 1024    \* CH_LIB_UV_MIN_BUFFER
MessageSize   == 120     \* sizeof(ch_message_t)
HandshakeSize == 20      \* sizeof(ch_rd_handshake_t)
MaxPort       == 65535   \* UINT16_MAX
MaxReuse      == 36000   \* one hour

Files == {"NULL", "missing", "broken", "good"}

Configs ==
    [REUSE_TIME : Nat, TIMEOUT : Nat, PORT : 0 .. MaxPort, BACKLOG : 0 .. 255,
     RETRIES : 0 .. 255, MAX_HANDLERS : 0 .. 255,
     ACKNOWLEDGE : {0, 1}, FLOW_CONTROL : {0, 1}, CLOSE_ON_SIGINT : {0, 1},
     BUFFER_SIZE : Nat, CERT_CHAIN_PEM : Files, DH_PARAMS_PEM : Files]

\* ch_chirp_config_init(): the files have no default.
Defaults ==
    [REUSE_TIME |-> 300, TIMEOUT |-> 50, PORT |-> 2998, BACKLOG |-> 100,
     RETRIES |-> 1, MAX_HANDLERS |-> 16,
     ACKNOWLEDGE |-> 1, FLOW_CONTROL |-> 1, CLOSE_ON_SIGINT |-> 1,
     BUFFER_SIZE |-> 0, CERT_CHAIN_PEM |-> "NULL", DH_PARAMS_PEM |-> "NULL"]

FilesSet(c) ==
    /\ c.DH_PARAMS_PEM # "NULL"
    /\ c.CERT_CHAIN_PEM \notin {"NULL", "missing"}

TimesFit(c) ==
    /\ c.TIMEOUT \in 1 .. 600
    /\ c.REUSE_TIME \in 20 .. MaxReuse
    /\ c.TIMEOUT <= c.REUSE_TIME

\* Without the upper bound, which the code checks apart from the lower one.
HandlersUnbounded(c) == c.MAX_HANDLERS >= IF c.FLOW_CONTROL # 0 THEN 16 ELSE 1
HandlersFit(c)       == HandlersUnbounded(c) /\ c.MAX_HANDLERS <= 32

\* As it is coded: the messages of the code and the documentation want both to
\* be zero.
RetriesFit(c) ==
    c.ACKNOWLEDGE = 0 => c.RETRIES # 0 /\ c.FLOW_CONTROL # 0

BufferFits(c) ==
    \/ c.BUFFER_SIZE = 0
    \/ \A least \in {MinBuffer, MessageSize, HandshakeSize} :
          c.BUFFER_SIZE >= least

\* _ch_chirp_verify_cfg(): all of its errors are CH_VALUE_ERROR.
Accepted(c) ==
    /\ FilesSet(c)
    /\ c.PORT > 1024
    /\ c.BACKLOG < 128
    /\ TimesFit(c)
    /\ HandlersFit(c)
    /\ RetriesFit(c)
    /\ BufferFits(c)
=============================================================================
