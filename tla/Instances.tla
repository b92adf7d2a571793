----------------------------- MODULE Instances -----------------------------
(***************************************************************************)
(* The instances of a process from ch_chirp_init() to the end of their     *)
(* loops: the check of the configuration, the servers, the encryption      *)
(* context and the reference count of OpenSSL, the tree of instances, the  *)
(* signal handler that closes them, and the functions other threads may    *)
(* call (chirp.c, encryption.c, ch_pr_start() of protocol.c, and ChirpPool *)
(* of the Python bindings).                                                *)
(*                                                                         *)
(* Each instance has a loop and a thread of its own, as in ch_chirp_run()  *)
(* and in ChirpPool.  ch_chirp_init() and the way down are cut into the    *)
(* steps between which a signal or another thread can see something.  The  *)
(* steps themselves are atomic, so unlocked updates of the global counters *)
(* from two loops are not modelled.                                        *)
(*                                                                         *)
(* One connection per instance stands for all: it decides when the loop    *)
(* ends.  It can outlive its instance, in the middle of its handshake or   *)
(* when uv_shutdown() refuses it, and its send timer is never closed.  The *)
(* closing semaphore counts right here: ChirpClose has what makes it wrong *)
(* (a shutdown that is older than the close, or one that times out).       *)
(***************************************************************************)
EXTENDS Config, FiniteSets

CONSTANTS
    Chirps,       \* the ch_chirp_t objects
    Users,        \* threads that call the thread-safe functions
    Offered,      \* the configurations users try
    Outside,      \* <<port, version>> other programs listen on
    MaxStarts,    \* bounds how often ch_chirp_init() is called
    Env           \* what else may happen

(***************************************************************************)
(*   uv       a call of libuv or an allocation of OpenSSL fails            *)
(*   signal   SIGINT or SIGTERM arrives                                    *)
(*   window   a signal arrives while chirp->_ is NULL in the tree          *)
(*   race     calls for one instance overlap in time                       *)
(***************************************************************************)
ASSUME OfferedAssumption == Offered \subseteq Configs
ASSUME EnvAssumption == Env \subseteq {"uv", "signal", "window", "race"}

NoChirp == "no chirp"

ASSUME StartsAssumption == MaxStarts \in Nat
ASSUME NoChirpAssumption == NoChirp \notin Chirps

VARIABLES
    \* The build and the process
    asserts,      \* assert() is compiled in: a debug build, without NDEBUG
    manual,       \* _ch_en_manual_openssl: the user initialises OpenSSL
    ssl_refs,     \* _ch_en_openssl_ref_count
    ssl_up,       \* OpenSSL is initialised
    sig_init,     \* _ch_chirp_sig_init
    instances,    \* the tree _ch_chirp_instances
    ref_count,    \* _ch_chirp_ref_count
    lost_ports,   \* ports of servers nobody can close any more
    \* The instances
    stage,        \* how far ch_chirp_init() or closing has come
    config,
    error,        \* what the last ch_chirp_init() returned
    flags,
    ssl_ctx,      \* instances whose enc->ssl_ctx is allocated
    starts,
    \* The loops
    loop,         \* "none", "idle", "run", "stop", "returned" or "closed"
    handles,      \* open handles
    due,          \* handles whose close callback is due
    sent,         \* uv_async_send() was called
    listening,    \* versions of IP the instance listens for
    peer,         \* the connection of the instance
    timers,       \* instances with the send timer of a connection in their loop
    ret,          \* the result of ch_loop_close()
    \* The threads of the users
    call,         \* the thread-safe function that is being executed
    for,          \* its instance
    read,         \* the flags it has read
    fault

sslVars    == <<ssl_refs, ssl_up, ssl_ctx>>
buildVars  == <<asserts, manual>>
treeVars   == <<instances, ref_count, sig_init>>
startVars  == <<config, error, starts, lost_ports>>
peerVars   == <<peer, timers>>
loopVars   == <<handles, due, listening, peerVars>>
threadVars == <<call, for, read>>
vars == <<sslVars, buildVars, treeVars, startVars, loopVars, threadVars,
          stage, flags, loop, sent, ret, fault>>

Stages == {"none", "verified", "async", "served", "encrypted", "open", "down",
           "closed", "failed"}
Handles == {"close", "close_check", "serverv4", "serverv6"}
Errors == {"CH_SUCCESS", "CH_VALUE_ERROR", "CH_UV_ERROR", "CH_EADDRINUSE",
           "CH_TLS_ERROR"}

Init ==
    /\ asserts \in BOOLEAN
    /\ manual \in BOOLEAN
    /\ ssl_refs = 0 /\ ssl_up = manual /\ ssl_ctx = {}
    /\ sig_init = FALSE /\ instances = {} /\ ref_count = 0
    /\ lost_ports = {}
    /\ stage = [i \in Chirps |-> "none"]
    /\ config = [i \in Chirps |-> Defaults]
    /\ error = [i \in Chirps |-> "CH_SUCCESS"]
    /\ flags = [i \in Chirps |-> {}]
    /\ starts = 0
    /\ loop = [i \in Chirps |-> "none"]
    /\ handles = [i \in Chirps |-> {}]
    /\ due = [i \in Chirps |-> {}]
    /\ sent = [i \in Chirps |-> FALSE]
    /\ listening = [i \in Chirps |-> {}]
    /\ peer = [i \in Chirps |-> "none"] /\ timers = {}
    /\ ret = [i \in Chirps |-> 0]
    /\ call = [u \in Users |-> "none"]
    /\ for = [u \in Users |-> NoChirp]
    /\ read = [u \in Users |-> {}]
    /\ fault = "none"

-----------------------------------------------------------------------------
(* ch_chirp_init().                                                        *)

Running == fault = "none"

\* <<port, version>> that cannot be listened on.
Taken == Outside \cup lost_ports
         \cup UNION {{config[i].PORT} \X listening[i] : i \in Chirps}

\* ch_chirp_init() returns an error: ichirp is freed, but its handles stay in
\* the loop and its servers listen.
Fail(i, e) ==
    /\ stage' = [stage EXCEPT ![i] = "failed"]
    /\ error' = [error EXCEPT ![i] = e]

Reach(i, s) == stage' = [stage EXCEPT ![i] = s]

\* A new loop is initialised and the configuration checked.  What a failed
\* start has left behind, and a configuration that is refused, is out of reach.
Start(i, c) ==
    /\ Running
    /\ stage[i] \in {"none", "closed", "failed"}
    /\ loop[i] \in {"none", "idle", "closed"}
    /\ \A u \in Users : for[u] # i
    /\ starts < MaxStarts
    /\ starts' = starts + 1
    /\ loop' = [loop EXCEPT ![i] = "idle"]
    /\ config' = [config EXCEPT ![i] = IF Accepted(c) THEN c ELSE @]
    /\ lost_ports' = lost_ports \cup {config[i].PORT} \X listening[i]
    /\ handles' = [handles EXCEPT ![i] = {}]
    /\ listening' = [listening EXCEPT ![i] = {}]
    /\ peer' = [peer EXCEPT ![i] = "none"]
    /\ timers' = timers \ {i}
    /\ flags' = [flags EXCEPT ![i] = {}]
    /\ sent' = [sent EXCEPT ![i] = FALSE]
    /\ ssl_ctx' = ssl_ctx \ {i}
    /\ IF Accepted(c)
       THEN Reach(i, "verified") /\ UNCHANGED error
       ELSE Fail(i, "CH_VALUE_ERROR")
    /\ ret' = [ret EXCEPT ![i] = 0]
    /\ UNCHANGED <<buildVars, ssl_refs, ssl_up, treeVars, due, threadVars, fault>>

\* uv_async_init() for ichirp->close.
InitAsync(i) ==
    /\ Running /\ stage[i] = "verified"
    /\ \/ /\ handles' = [handles EXCEPT ![i] = {"close"}]
          /\ Reach(i, "async")
          /\ UNCHANGED error
       \/ /\ "uv" \in Env
          /\ Fail(i, "CH_UV_ERROR")
          /\ UNCHANGED handles
    /\ UNCHANGED <<buildVars, sslVars, treeVars, config, starts, lost_ports, due,
                   listening, peerVars, flags, loop, sent, ret, threadVars, fault>>

\* What the instance can listen on: version 6 only after version 4.
Served(i) ==
    LET port == config[i].PORT
    IN  CASE <<port, "v4">> \in Taken -> {}
          [] <<port, "v4">> \notin Taken /\ <<port, "v6">> \in Taken -> {"v4"}
          [] Taken \cap ({port} \X {"v4", "v6"}) = {} -> {"v4", "v6"}

\* ch_pr_start().
PrStart(i) ==
    /\ Running /\ stage[i] = "async"
    /\ \/ /\ listening' = [listening EXCEPT ![i] = Served(i)]
          /\ handles' = [handles EXCEPT ![i] = @ \cup {"serverv4"} \cup
                            (IF "v4" \in Served(i) THEN {"serverv6"} ELSE {})]
          /\ IF "v6" \in Served(i)
             THEN Reach(i, "served") /\ UNCHANGED error
             ELSE Fail(i, "CH_EADDRINUSE")
       \/ /\ "uv" \in Env
          /\ \E up \in {{}, Served(i) \cap {"v4"}} :
                /\ listening' = [listening EXCEPT ![i] = up]
                /\ handles' = [handles EXCEPT ![i] = @ \cup {"serverv4"} \cup
                                  (IF up = {} THEN {} ELSE {"serverv6"})]
          /\ Fail(i, "CH_UV_ERROR")
    /\ UNCHANGED <<buildVars, sslVars, treeVars, config, starts, lost_ports, due,
                   peerVars, flags, loop, sent, ret, threadVars, fault>>

\* ch_en_start().  The reference is taken before anything can fail.
EnStart(i) ==
    /\ Running /\ stage[i] = "served"
    /\ ssl_refs' = IF manual THEN ssl_refs ELSE ssl_refs + 1
    /\ ssl_up' = TRUE
    /\ \/ /\ ssl_ctx' = ssl_ctx \cup {i}
          /\ IF config[i].CERT_CHAIN_PEM = "good" /\ config[i].DH_PARAMS_PEM = "good"
             THEN Reach(i, "encrypted") /\ UNCHANGED error
             ELSE Fail(i, "CH_TLS_ERROR")
       \/ /\ "uv" \in Env
          /\ Fail(i, "CH_TLS_ERROR")
          /\ UNCHANGED ssl_ctx
    /\ UNCHANGED <<buildVars, treeVars, config, starts, lost_ports, loopVars,
                   flags, loop, sent, ret, threadVars, fault>>

\* The signal handlers, the reference count and the tree of instances.
Register(i) ==
    /\ Running /\ stage[i] = "encrypted"
    /\ sig_init' \in {TRUE} \cup (IF "uv" \in Env THEN {sig_init} ELSE {})
    /\ ref_count' = ref_count + 1
    /\ instances' = instances \cup {i}
    /\ Reach(i, "open")
    /\ error' = [error EXCEPT ![i] = "CH_SUCCESS"]
    /\ UNCHANGED <<buildVars, sslVars, config, starts, lost_ports, loopVars,
                   flags, loop, sent, ret, threadVars, fault>>

-----------------------------------------------------------------------------
(* The functions other threads may call, and the signal handler.           *)

\* Without the behaviour race, calls for one instance do not overlap.
Calling(i)   == \E u \in Users : for[u] = i
MayOverlap   == "race" \in Env
Unclosed(i)  == stage[i] = "open" /\ "CLOSING" \notin flags[i]

\* The first half of ch_chirp_close_ts() and of ch_chirp_set_auto_stop(): the
\* flags are read.  A second close is refused, so is one of a closed instance.
Call(u, i, what) ==
    /\ Running
    /\ call[u] = "none"
    /\ Unclosed(i) \/ (MayOverlap /\ what = "auto_stop" /\ stage[i] = "open")
    /\ Calling(i) => MayOverlap
    /\ call' = [call EXCEPT ![u] = what]
    /\ for' = [for EXCEPT ![u] = i]
    /\ read' = [read EXCEPT ![u] = flags[i]]
    /\ UNCHANGED <<sslVars, buildVars, treeVars, startVars, loopVars, stage,
                   flags, loop, sent, ret, fault>>

\* The internals of an instance are freed when it is down.
Alive(i) == stage[i] = "open"

Return(u) ==
    /\ call' = [call EXCEPT ![u] = "none"]
    /\ for' = [for EXCEPT ![u] = NoChirp]
    /\ read' = [read EXCEPT ![u] = {}]

\* The second half: one flag is added to what was read.
WithFlagOnly(fs, f) == {f}
WithFlag(fs, f)     == fs \cup {f}

CloseTs(u) ==
    LET i == for[u]
    IN  /\ Running /\ call[u] = "close"
        /\ IF Alive(i)
           THEN /\ flags' = [flags EXCEPT ![i] = WithFlag(read[u], "CLOSING")]
                /\ sent' = [sent EXCEPT ![i] = TRUE]
                /\ UNCHANGED fault
           ELSE fault' = "freed" /\ UNCHANGED <<flags, sent>>
        /\ Return(u)
        /\ UNCHANGED <<sslVars, buildVars, treeVars, startVars, loopVars, stage,
                       loop, ret>>

SetAutoStop(u) ==
    LET i == for[u]
    IN  /\ Running /\ call[u] = "auto_stop"
        /\ IF Alive(i)
           THEN /\ flags' = [flags EXCEPT ![i] = WithFlag(read[u], "AUTO_STOP")]
                /\ UNCHANGED fault
           ELSE fault' = "freed" /\ UNCHANGED flags
        /\ Return(u)
        /\ UNCHANGED <<sslVars, buildVars, treeVars, startVars, loopVars, stage,
                       loop, sent, ret>>

\* _ch_chirp_sig_handler(): it walks the tree and follows chirp->_ of each
\* instance, which is NULL in one that is going down.
Signal ==
    LET gone  == {i \in instances : ~Alive(i)}
        asked == {i \in instances :
                     config[i].CLOSE_ON_SIGINT # 0 /\ Unclosed(i)}
    IN  /\ Running /\ sig_init
        /\ "signal" \in Env
        /\ (\E i \in instances : Calling(i)) => MayOverlap
        /\ (\E i \in Chirps : stage[i] = "down") => "window" \in Env
        /\ IF gone = {}
           THEN /\ flags' = [i \in Chirps |->
                               IF i \in asked THEN flags[i] \cup {"CLOSING"}
                                              ELSE flags[i]]
                /\ sent' = [i \in Chirps |-> sent[i] \/ i \in asked]
                /\ UNCHANGED fault
           ELSE fault' = "null" /\ UNCHANGED <<flags, sent>>
        /\ UNCHANGED <<sslVars, buildVars, treeVars, startVars, loopVars,
                       threadVars, stage, loop, ret>>

-----------------------------------------------------------------------------
(* The loop of an instance.                                                *)

InLoop(i) == Running /\ loop[i] = "run"

\* ch_run() by the thread of the instance.
Run(i) ==
    /\ Running /\ loop[i] = "idle" /\ stage[i] = "open"
    /\ loop' = [loop EXCEPT ![i] = "run"]
    /\ UNCHANGED <<sslVars, buildVars, treeVars, startVars, loopVars, threadVars,
                   stage, flags, sent, ret, fault>>

\* _ch_pr_new_connection_cb(): until its handshake of chirp a connection is in
\* no dictionary.  Its send timer is initialised with it and never closed.
Connect(i) ==
    /\ InLoop(i) /\ stage[i] = "open"
    /\ "serverv4" \in handles[i] /\ peer[i] = "none"
    /\ peer' = [peer EXCEPT ![i] = "midway"]
    /\ timers' = timers \cup {i}
    /\ UNCHANGED <<sslVars, buildVars, treeVars, startVars, threadVars, handles,
                   due, listening, stage, flags, loop, sent, ret, fault>>

\* _ch_rd_handshake().
Greet(i) ==
    /\ InLoop(i) /\ stage[i] = "open" /\ peer[i] = "midway"
    /\ peer' = [peer EXCEPT ![i] = "open"]
    /\ UNCHANGED <<sslVars, buildVars, treeVars, startVars, threadVars, handles,
                   due, listening, timers, stage, flags, loop, sent, ret, fault>>

\* ch_cn_shutdown(): the semaphore counts a connection only while the flag is
\* set, and one that uv_shutdown() refuses is neither counted nor closed.
Shut(i) == {"refused", IF "CLOSING" \in flags[i] THEN "counted" ELSE "closing"}

\* The remote ends the connection, or something else does: its handler uses the
\* instance.  Before the close the connection is also freed in this step.
Disconnect(i) ==
    /\ Running /\ loop[i] \in {"run", "stop"}
    /\ peer[i] \in {"midway", "open"}
    /\ IF Alive(i)
       THEN /\ \E p \in Shut(i) :
                  peer' = [peer EXCEPT ![i] = IF p = "closing" THEN "none" ELSE p]
            /\ UNCHANGED fault
       ELSE fault' = "connection" /\ UNCHANGED peer
    /\ UNCHANGED <<sslVars, buildVars, treeVars, startVars, threadVars, handles,
                   due, listening, timers, stage, flags, loop, sent, ret>>

\* The callbacks of a connection that is shut down, up to where it is freed.
Freed(i) ==
    /\ Running /\ loop[i] \in {"run", "stop"}
    /\ peer[i] \in {"counted", "closing"}
    /\ peer' = [peer EXCEPT ![i] = "none"]
    /\ fault' = IF Alive(i) THEN fault ELSE "connection"
    /\ UNCHANGED <<sslVars, buildVars, treeVars, startVars, threadVars, handles,
                   due, listening, timers, stage, flags, loop, sent, ret>>

ClosedHandlesV4 == {"serverv4", "close"}
ClosedHandles   == {"serverv4", "serverv6", "close"}

\* What is still listened for when some handles are closed.
Server        == [v4 |-> "serverv4", v6 |-> "serverv6"]
Listens(i, H) == {v \in listening[i] : Server[v] \notin H}

\* ch_pr_stop() shuts the connections of the dictionaries down, and no other.
Found(i) == IF peer[i] = "open" THEN Shut(i) ELSE {peer[i]}

\* _ch_chirp_close_async_cb(): without assertions ch_pr_stop() and the start
\* of the prepare handle are not compiled.
CloseAsyncCb(i) ==
    LET closed == IF asserts THEN ClosedHandles ELSE {"close"}
        begun  == IF asserts THEN {"close_check"} ELSE {}
    IN  /\ InLoop(i) /\ stage[i] = "open"
        /\ sent[i] /\ "close" \in handles[i]
        /\ sent' = [sent EXCEPT ![i] = FALSE]
        /\ handles' = [handles EXCEPT ![i] = (@ \ closed) \cup begun]
        /\ due' = [due EXCEPT ![i] = @ \cup closed]
        /\ listening' = [listening EXCEPT ![i] = Listens(i, closed)]
        /\ \E p \in IF asserts THEN Found(i) ELSE {peer[i]} :
              peer' = [peer EXCEPT ![i] = p]
        /\ UNCHANGED <<sslVars, buildVars, treeVars, startVars, threadVars,
                       timers, stage, flags, loop, ret, fault>>

\* ch_chirp_close_cb().
CloseCb(i) ==
    \E h \in due[i] \ {"close_check"} :
        /\ InLoop(i)
        /\ due' = [due EXCEPT ![i] = @ \ {h}]
        /\ UNCHANGED <<sslVars, buildVars, treeVars, startVars, threadVars,
                       handles, listening, peerVars, stage, flags, loop, sent,
                       ret, fault>>

\* The reference that takes OpenSSL down.
LastReferenceEarly == ssl_refs - 1 <= 1
LastReference      == ssl_refs - 1 = 0

\* ch_en_stop(): the last instance does not free its SSL_CTX.
EnStop(i) ==
    /\ ssl_refs' = IF manual THEN ssl_refs ELSE ssl_refs - 1
    /\ IF ~manual /\ LastReference
       THEN ssl_up' = FALSE /\ UNCHANGED ssl_ctx
       ELSE ssl_ctx' = ssl_ctx \ {i} /\ UNCHANGED ssl_up

\* _ch_chirp_check_closing_cb() when the semaphore is clear.
CheckClosing(i) ==
    /\ InLoop(i)
    /\ "close_check" \in handles[i]
    /\ due[i] = {} /\ peer[i] # "counted"
    /\ EnStop(i)
    /\ handles' = [handles EXCEPT ![i] = @ \ {"close_check"}]
    /\ due' = [due EXCEPT ![i] = {"close_check"}]
    /\ UNCHANGED <<buildVars, treeVars, startVars, threadVars, listening,
                   peerVars, stage, flags, loop, sent, ret, fault>>

\* What AUTO_STOP does to the loop.
StopsLoop(i) == "AUTO_STOP" \in flags[i]

\* _ch_chirp_closing_down_cb(), up to where chirp->_ is NULL and ichirp freed.
ClosingDown(i) ==
    /\ InLoop(i) /\ stage[i] = "open"
    /\ "close_check" \in due[i]
    /\ Reach(i, "down")
    /\ loop' = [loop EXCEPT ![i] = IF StopsLoop(i) THEN "stop" ELSE @]
    /\ due' = [due EXCEPT ![i] = {}]
    /\ UNCHANGED <<sslVars, buildVars, treeVars, startVars, threadVars, handles,
                   listening, peerVars, flags, sent, ret, fault>>

\* Its rest: the instance leaves the tree.
RemovedNone(i) == instances
Removed(i)     == instances \ {i}

Unregister(i) ==
    /\ Running /\ stage[i] = "down"
    /\ Reach(i, "closed")
    /\ instances' = Removed(i)
    /\ ref_count' = ref_count - 1
    /\ UNCHANGED <<sslVars, buildVars, startVars, threadVars, loopVars, sig_init,
                   flags, loop, sent, ret, fault>>

\* What keeps uv_run() going.
LoopAlive(i) == handles[i] \cup due[i] # {} \/ peer[i] # "none"

\* ch_run(): when the loop was stopped with something left in it, it is run once
\* more, which waits for what is left.
RunEnds(i) ==
    /\ Running /\ stage[i] \in {"open", "closed"}
    /\ loop[i] \in {"run", "stop"} /\ ~LoopAlive(i)
    /\ loop' = [loop EXCEPT ![i] = "returned"]
    /\ UNCHANGED <<sslVars, buildVars, treeVars, startVars, loopVars, threadVars,
                   stage, flags, sent, ret, fault>>

\* What uv_loop_close() refuses to close: also handles that do not run.
LoopBusy(i) == LoopAlive(i) \/ i \in timers

LoopClose(i) ==
    /\ Running /\ loop[i] = "returned"
    /\ loop' = [loop EXCEPT ![i] = "closed"]
    /\ ret' = [ret EXCEPT ![i] = IF LoopBusy(i) THEN 1 ELSE 0]
    /\ UNCHANGED <<sslVars, buildVars, treeVars, startVars, loopVars, threadVars,
                   stage, flags, sent, fault>>

-----------------------------------------------------------------------------

InitStep(i) ==
    \/ \E c \in Offered : Start(i, c)
    \/ InitAsync(i) \/ PrStart(i) \/ EnStart(i) \/ Register(i)

PeerStep(i) == Connect(i) \/ Greet(i) \/ Disconnect(i)

LoopStep(i) ==
    \/ Freed(i) \/ CloseAsyncCb(i) \/ CloseCb(i) \/ CheckClosing(i)
    \/ ClosingDown(i) \/ Unregister(i) \/ RunEnds(i) \/ LoopClose(i)

UserStep(u) ==
    \/ \E i \in Chirps, what \in {"close", "auto_stop"} : Call(u, i, what)
    \/ CloseTs(u) \/ SetAutoStop(u)

Next ==
    \/ \E i \in Chirps : InitStep(i) \/ Run(i) \/ PeerStep(i) \/ LoopStep(i)
    \/ \E u \in Users : UserStep(u)
    \/ Signal

Spec == Init /\ [][Next]_vars

\* The loops and the calls that have begun make progress; nobody has to start,
\* run or close an instance, and no remote has to shake hands or to leave.
FairSpec ==
    /\ Spec
    /\ \A i \in Chirps : WF_vars(LoopStep(i)) /\ WF_vars(CloseAsyncCb(i))
    /\ \A u \in Users : WF_vars(CloseTs(u) \/ SetAutoStop(u))

-----------------------------------------------------------------------------
(* Properties.                                                             *)

\* What the rest of the code can work with: a pool of at most 32 buffers, a
\* buffer a handshake fits, and timers that run.
Usable(c) ==
    /\ c.MAX_HANDLERS \in 1 .. 32
    /\ c.BUFFER_SIZE = 0 \/ c.BUFFER_SIZE >= HandshakeSize
    /\ c.TIMEOUT > 0

\* An instance only ever gets such a configuration from ch_chirp_init().
TypeOK ==
    /\ asserts \in BOOLEAN /\ manual \in BOOLEAN
    /\ ssl_refs \in Nat /\ ssl_up \in BOOLEAN /\ ssl_ctx \subseteq Chirps
    /\ sig_init \in BOOLEAN /\ instances \subseteq Chirps /\ ref_count \in Nat
    /\ lost_ports \subseteq Nat \X {"v4", "v6"}
    /\ stage \in [Chirps -> Stages]
    /\ config \in [Chirps -> Configs] /\ \A i \in Chirps : Usable(config[i])
    /\ error \in [Chirps -> Errors]
    /\ flags \in [Chirps -> SUBSET {"AUTO_STOP", "CLOSING"}]
    /\ starts \in 0 .. MaxStarts
    /\ loop \in [Chirps -> {"none", "idle", "run", "stop", "returned", "closed"}]
    /\ handles \in [Chirps -> SUBSET Handles]
    /\ due \in [Chirps -> SUBSET Handles]
    /\ sent \in [Chirps -> BOOLEAN]
    /\ listening \in [Chirps -> SUBSET {"v4", "v6"}]
    /\ peer \in [Chirps -> {"none", "midway", "open", "counted", "closing",
                            "refused"}]
    /\ timers \subseteq Chirps
    /\ ret \in [Chirps -> 0 .. 1]
    /\ call \in [Users -> {"none", "close", "auto_stop"}]
    /\ for \in [Users -> Chirps \cup {NoChirp}]
    /\ read \in [Users -> SUBSET {"AUTO_STOP", "CLOSING"}]
    /\ fault \in {"none", "freed", "null", "connection"}

\* Whatever starts fail, and whenever a signal comes, the handler only meets
\* instances whose internals are there, and no thread writes to freed internals.
\* Handlers of connections do meet freed instances: see CallbacksRemoved in
\* ChirpClose.
AliveWhenUsed == fault \notin {"freed", "null"}

\* The instances that use OpenSSL: ch_en_start() succeeded, ch_en_stop() was
\* not called yet.
UsesOpenSSL == {i \in Chirps : \/ stage[i] = "encrypted"
                               \/ stage[i] = "open" /\ "close_check" \notin due[i]}

\* OpenSSL is initialised as long as an instance uses it, each of them has its
\* context, and it is taken down with the last reference: starts that fail
\* hold references for ever, but never take one away from the others.
OpenSSLInUse ==
    /\ UsesOpenSSL \subseteq ssl_ctx
    /\ UsesOpenSSL # {} => ssl_up
    /\ ~manual => /\ ssl_up <=> ssl_refs > 0
                  /\ ssl_refs >= Cardinality(UsesOpenSSL)

\* An instance listens for both versions of IP from the end of ch_chirp_init()
\* until its close begins, and not after: a port that cannot be had is that of
\* an instance that runs, of another program, or of a start that failed.
PortsGivenBack ==
    asserts => \A i \in Chirps : stage[i] \in {"open", "down", "closed"} =>
        listening[i] = IF "close" \in handles[i] THEN {"v4", "v6"} ELSE {}

\* ChirpPool asserts that ch_loop_close() did not fail, and ch_chirp_run() says
\* that only breaking things makes it fail.  It does after any connection, as
\* the send timer stays in the loop.
LoopsEndClean == \A i \in Chirps : loop[i] = "closed" => ret[i] = 0

\* A flag that is set stays set as long as the instance is open: the functions
\* that are documented as thread-safe do not undo each other's work.
FlagsKept ==
    [][\A i \in Chirps : stage[i] = "open" /\ stage'[i] = "open"
                            => flags[i] \subseteq flags'[i]]_vars

Ended(i)    == stage[i] = "closed" /\ loop[i] = "closed"
Outlived(i) == stage[i] = "closed" /\ peer[i] \in {"midway", "open", "refused"}
Asked(i)    == "CLOSING" \in flags[i] /\ loop[i] \notin {"none", "idle"}

\* The close of an instance, asked for by a user or by a signal, is never stuck:
\* until ch_run() has returned, with and without ch_chirp_set_auto_stop(), and
\* the loop is closed, the loop has something to do, unless a connection was
\* left open that only its remote can end.
CloseNeverStuck ==
    asserts /\ Running =>
        \A i \in Chirps :
            Asked(i) => Ended(i) \/ Outlived(i) \/ ENABLED LoopStep(i)

\* What is asked for happens, in every build.
CloseEndsInAnyBuild ==
    \A i \in Chirps :
        Asked(i) ~> Ended(i) \/ Outlived(i) \/ fault = "connection"
=============================================================================
