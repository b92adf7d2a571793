---------------------------- MODULE Connections ----------------------------
(***************************************************************************)
(* The connections of a chirp instance: how a connection is accepted, how  *)
(* it enters the dictionary of connections, how it is shut down, how its   *)
(* libuv handles are closed and when its memory is freed (connection.c,    *)
(* and the parts of protocol.c and reader.c that move a connection between *)
(* the dictionaries).                                                      *)
(*                                                                         *)
(* Every handler runs on the thread of the libuv loop, so a handler is one *)
(* action.  What TLS and the remote peer do is a nondeterministic choice;  *)
(* the constant Env names the kinds of environment behaviour that may      *)
(* happen, so that a configuration can show which of them a property       *)
(* depends on.                                                             *)
(*                                                                         *)
(* What a connection writes is left to Writer: the TLS alert with which a  *)
(* shutdown begins (SSL_shutdown() and ch_cn_send_if_pending()), the       *)
(* assertion it fails while a write is in flight (there the behaviour      *)
(* cut), and the send timer while it runs.  Here that timer is a handle    *)
(* that is opened with the connection and never closed.                    *)
(***************************************************************************)
EXTENDS Integers, FiniteSets

CONSTANTS
    Conns,     \* addresses of ch_connection_t objects, each allocated once
    Keys,      \* (ip_protocol, address, port) of the remotes that may connect
    NoKey,     \* the zeroed key of a connection before its handshake
    Env        \* the environment behaviours that may happen

(***************************************************************************)
(*   early      a connection is shut down before the close was requested   *)
(*   stall      the remote does not let uv_shutdown finish within TIMEOUT  *)
(*   reject     accepting or initialising a connection fails               *)
(*   midway     chirp is closed while a connection is still handshaking    *)
(*   reconnect  a remote connects although its old connection is alive     *)
(*   late       a handshake arrives on a connection that is shutting down  *)
(*   dead       uv_shutdown fails, the stream is no longer writable        *)
(***************************************************************************)
Behaviours == {"early", "stall", "reject", "midway", "reconnect", "late",
               "dead"}

ASSUME ConnsAssumption == IsFiniteSet(Conns)
ASSUME KeysAssumption  == NoKey \notin Keys
ASSUME EnvAssumption   == Env \subseteq Behaviours

VARIABLES
    \* The chirp instance (chirp->_)
    ichirp,            \* "open" or "freed" (chirp->_ == NULL)
    closing,           \* the flag CH_CHIRP_CLOSING
    closing_tasks,     \* the closing semaphore
    \* The dictionaries of ch_protocol_t
    connections,
    old_connections,
    \* The connection objects
    memory,            \* "none", "alive" or "freed"
    greeted,           \* connections whose reader left CH_RD_HANDSHAKE
    remote,            \* the key the dictionary compares
    shutting,          \* connections with CH_CN_SHUTTING_DOWN
    shutdown_tasks,
    \* libuv, as far as it concerns connections
    phase,             \* of the loop iteration
    opened,            \* handles that are initialised and not uv_close()d
    due,               \* handles that are uv_close()d, close_cb not yet called
    shutdown_req,      \* connections with an unfinished shutdown request
    armed,             \* connections whose shutdown_timeout is running
    \* Access to memory that has been freed stops the system
    fault

loopVars == <<phase>>
dictVars == <<connections, old_connections>>
connVars == <<memory, greeted, remote, shutting, shutdown_tasks>>
uvVars   == <<opened, due, shutdown_req, armed>>
cnVars   == <<dictVars, connVars, uvVars, closing_tasks>>

Client(c)  == <<"client", c>>
Timeout(c) == <<"shutdown_timeout", c>>
Sender(c)  == <<"send_timeout", c>>
Handles    == {"client", "shutdown_timeout", "send_timeout"} \X Conns

ConnTypeOK ==
    /\ ichirp \in {"open", "freed"}
    /\ closing \in BOOLEAN
    /\ closing_tasks \in Int
    /\ connections \subseteq Conns
    /\ old_connections \subseteq Conns
    /\ memory \in [Conns -> {"none", "alive", "freed"}]
    /\ greeted \subseteq Conns
    /\ remote \in [Conns -> Keys \cup {NoKey}]
    /\ shutting \subseteq Conns
    /\ shutdown_tasks \in [Conns -> 0 .. 2]
    /\ phase \in {"timers", "prepare", "poll", "closing"}
    /\ opened \subseteq Handles
    /\ due \subseteq Handles
    /\ shutdown_req \subseteq Conns
    /\ armed \subseteq Conns
    /\ fault \in {"none", "ichirp", "connection", "assertion"}

ConnInit ==
    /\ ichirp = "open"
    /\ closing = FALSE
    /\ closing_tasks = 0
    /\ connections = {}
    /\ old_connections = {}
    /\ memory = [c \in Conns |-> "none"]
    /\ greeted = {}
    /\ remote = [c \in Conns |-> NoKey]
    /\ shutting = {}
    /\ shutdown_tasks = [c \in Conns |-> 0]
    /\ phase = "timers"
    /\ opened = {}
    /\ due = {}
    /\ shutdown_req = {}
    /\ armed = {}
    /\ fault = "none"

-----------------------------------------------------------------------------
(* What the handlers share.                                                *)

\* The loop runs handlers only as long as nothing has touched freed memory.
Running == fault = "none" /\ ichirp = "open"

\* The semaphore only counts while chirp is closing.
Count(n) == closing_tasks' = closing_tasks + (IF closing THEN n ELSE 0)

\* A lookup in a dictionary compares the key with the keys of its members.
Dangling(S) == \E c \in S : memory[c] = "freed"

\* The members of the dictionary that a shutdown of S deletes: the blind delete
\* takes whatever connection has the same key.
ForgottenNone(S) == {}
Forgotten(S) == {d \in connections : \E c \in S \ shutting : remote[c] = remote[d]}

\* The connections whose shutdown request libuv accepts.  One that is already
\* shutting down is left alone, and for the members of dead uv_shutdown()
\* fails: the handler returns before it counts the task and starts the timeout.
Started(S, dead) == (S \ shutting) \ dead

\* The connections whose shutdown_timeout is started.
TimedNone(S, dead) == {}
Timed(S, dead) == Started(S, dead)

\* ch_cn_shutdown() on each member of S, but for the tasks it counts, one for
\* each connection that is Started, and for the alert it writes.
Shutdown(S, dead) ==
    /\ connections' = connections \ Forgotten(S)
    /\ shutting' = shutting \cup S
    /\ shutdown_req' = shutdown_req \cup Started(S, dead)
    /\ armed' = armed \cup Timed(S, dead)

\* The subsets of S for which uv_shutdown() may fail.
MayBeDead(S) == IF "dead" \in Env THEN SUBSET S ELSE {{}}

\* What _ch_cn_shutdown_gen_cb() adds to the two semaphores: one task for the
\* closing semaphore (the shutdown is done, two handles close), and the two
\* close callbacks for the shutdown semaphore of the connection.
ClosingTasksBoth == 2
ClosingTasksNone == 0
ClosingTasks     == 1
HandleTasksAll   == 3
HandleTasks      == 2

\* The first half of _ch_cn_shutdown_gen_cb(): both handles are closed.
\* spent is what the caller has already taken from the closing semaphore.
CloseHandles(c, spent) ==
    /\ armed' = armed \ {c}
    /\ opened' = opened \ {Client(c), Timeout(c)}
    /\ due' = due \cup {Client(c), Timeout(c)}
    /\ Count(ClosingTasks - spent)
    /\ shutdown_tasks' = [shutdown_tasks EXCEPT ![c] = @ + HandleTasks]

-----------------------------------------------------------------------------
(* Accepting a connection.                                                 *)

\* _ch_pr_new_connection_cb(): the connection waits for the TLS handshake.
NewConnection(c) ==
    /\ Running /\ phase = "poll"
    /\ memory[c] = "none"
    /\ memory' = [memory EXCEPT ![c] = "alive"]
    /\ opened' = opened \cup {Client(c), Timeout(c), Sender(c)}
    /\ UNCHANGED <<ichirp, closing, closing_tasks, dictVars, greeted, remote,
                   shutting, shutdown_tasks, phase, due, shutdown_req, armed,
                   fault>>

\* What the shutdown semaphore is set to when only the client is closed.
RejectTasksNone == 0
RejectTasks     == 1

\* uv_accept() fails: only the client handle is closed.
RejectConnection(c) ==
    /\ Running /\ phase = "poll"
    /\ "reject" \in Env
    /\ memory[c] = "none"
    /\ memory' = [memory EXCEPT ![c] = "alive"]
    /\ opened' = opened \cup {Timeout(c), Sender(c)}
    /\ due' = due \cup {Client(c)}
    /\ shutdown_tasks' = [shutdown_tasks EXCEPT ![c] = RejectTasks]
    /\ UNCHANGED <<ichirp, closing, closing_tasks, dictVars, greeted, remote,
                   shutting, phase, shutdown_req, armed, fault>>

\* ch_cn_init() fails: the object is freed although its timers are initialised.
FailInit(c) ==
    /\ Running /\ phase = "poll"
    /\ "reject" \in Env
    /\ memory[c] = "none"
    /\ memory' = [memory EXCEPT ![c] = "freed"]
    /\ opened' = opened \cup {Timeout(c), Sender(c)}
    /\ UNCHANGED <<ichirp, closing, closing_tasks, dictVars, greeted, remote,
                   shutting, shutdown_tasks, phase, due, shutdown_req, armed,
                   fault>>

\* The connection a handshake with key k replaces, if there is one.
ReplacedNone(k) == {}
Replaced(k) == {d \in connections : remote[d] = k}

\* _ch_rd_handshake(): the connection enters the dictionary, the one it
\* replaces is moved to old_connections.
Handshake(c, k) ==
    LET old == Replaced(k)
    IN  /\ Running /\ phase = "poll"
        /\ Client(c) \in opened
        /\ c \notin greeted
        /\ c \in shutting => "late" \in Env
        /\ old # {} => "reconnect" \in Env
        /\ ~Dangling(connections)
        /\ old # {} => ~Dangling(old_connections)
        /\ greeted' = greeted \cup {c}
        /\ remote' = [remote EXCEPT ![c] = k]
        /\ connections' = (connections \ old) \cup {c}
        /\ old_connections' = old_connections \cup old
        /\ UNCHANGED <<ichirp, closing, closing_tasks, memory, shutting,
                       shutdown_tasks, phase, uvVars, fault>>

\* _ch_rd_handshake() on an illegal size or without the address of the peer.
FailHandshake(c) ==
    /\ Running /\ phase = "poll"
    /\ Client(c) \in opened
    /\ c \notin greeted
    /\ c \in shutting => "late" \in Env
    /\ closing \/ "early" \in Env
    /\ ~Dangling(connections)
    /\ greeted' = greeted \cup {c}
    /\ \E dead \in MayBeDead({c}) :
           /\ Shutdown({c}, dead)
           /\ Count(Cardinality(Started({c}, dead)))
    /\ UNCHANGED <<ichirp, closing, old_connections, memory, remote,
                   shutdown_tasks, phase, opened, due, fault>>

-----------------------------------------------------------------------------
(* Shutting a connection down.                                             *)

\* Any of the handlers that shut a connection down: the end of the stream, an
\* error of TLS, of a read or of a write, or a message that timed out.
ShutdownConnection(c) ==
    /\ Running /\ phase \in {"timers", "poll"}
    /\ Client(c) \in opened
    /\ c \notin shutting
    /\ closing \/ "early" \in Env
    /\ ~Dangling(connections)
    /\ \E dead \in MayBeDead({c}) :
           /\ Shutdown({c}, dead)
           /\ Count(Cardinality(Started({c}, dead)))
    /\ UNCHANGED <<ichirp, closing, old_connections, memory, greeted, remote,
                   shutdown_tasks, phase, opened, due, fault>>

\* _ch_cn_shutdown_cb(), called by libuv when the write queue is drained.
ShutdownDone(c) ==
    /\ Running /\ phase \in {"timers", "poll"}
    /\ c \in shutdown_req
    /\ Client(c) \in opened
    /\ shutdown_req' = shutdown_req \ {c}
    /\ CloseHandles(c, 0)
    /\ UNCHANGED <<ichirp, closing, dictVars, memory, greeted, remote,
                   shutting, phase, fault>>

\* _ch_cn_shutdown_timeout_cb(): the handler calls the shutdown callback by
\* hand.  uv_cancel() does not work on a shutdown request, so the request
\* stays with libuv.
ShutdownTimedOut(c) ==
    /\ Running /\ phase = "timers"
    /\ "stall" \in Env
    /\ c \in armed
    /\ CloseHandles(c, 1)
    /\ UNCHANGED <<ichirp, closing, dictVars, memory, greeted, remote,
                   shutting, shutdown_req, phase, fault>>

-----------------------------------------------------------------------------
(* Closing the handles.                                                    *)

\* The close callback for which the shutdown semaphore of c reaches zero.
LastTaskEarly(c) == shutdown_tasks[c] - 1 < 2
LastTask(c)      == shutdown_tasks[c] - 1 < 1

\* ch_cn_close_cb() for a handle.  libuv finishes a shutdown request of a
\* closing stream first, with ECANCELED: the second half of
\* _ch_cn_shutdown_gen_cb(), for a connection that is already closing.
ConnCloseCb(c, h) ==
    LET canceled == h = Client(c) /\ c \in shutdown_req
    IN  /\ Running /\ phase = "closing"
        /\ h \in due
        /\ due' = due \ {h}
        /\ shutdown_req' = IF canceled THEN shutdown_req \ {c}
                                       ELSE shutdown_req
        /\ Count(IF canceled THEN -2 ELSE -1)
        /\ shutdown_tasks' = [shutdown_tasks EXCEPT ![c] = @ - 1]
        /\ memory' = IF LastTask(c)
                     THEN [memory EXCEPT ![c] = "freed"]
                     ELSE memory
        /\ UNCHANGED <<ichirp, closing, dictVars, greeted, remote, shutting,
                       phase, opened, armed, fault>>

CloseClientCb(c)  == ConnCloseCb(c, Client(c))
CloseTimeoutCb(c) == ConnCloseCb(c, Timeout(c))

-----------------------------------------------------------------------------
(* Access to freed memory.                                                 *)

Crash(what) ==
    /\ fault' = what
    /\ UNCHANGED <<ichirp, closing, closing_tasks, dictVars, connVars, phase,
                   uvVars>>

\* A shutdown or a handshake looks a key up, or a handshake retires an old
\* connection, in a dictionary with a member whose memory is freed.
LookupFreed(c) ==
    /\ Running /\ phase \in {"timers", "poll"}
    /\ Client(c) \in opened
    /\ c \notin shutting
    /\ \/ closing \/ "early" \in Env
       \/ phase = "poll" /\ c \notin greeted
    /\ \/ Dangling(connections)
       \/ /\ "reconnect" \in Env
          /\ phase = "poll" /\ c \notin greeted
          /\ connections # {}
          /\ Dangling(old_connections)
    /\ Crash("connection")

\* A handler of a connection runs when chirp->_ is already NULL.  Only a
\* second ch_cn_shutdown() returns before it uses chirp->_.
CallbackAfterFree(c) ==
    /\ fault = "none" /\ ichirp = "freed"
    /\ \/ phase = "closing" /\ {Client(c), Timeout(c)} \cap due # {}
       \/ phase \in {"timers", "poll"} /\ Client(c) \in opened
          /\ c \in shutdown_req
       \/ phase = "timers" /\ c \in armed /\ "stall" \in Env
       \/ phase = "poll" /\ Client(c) \in opened /\ c \notin shutting
    /\ Crash("ichirp")

\* What a listening server does for a new stream.
Accept(c) ==
    \/ NewConnection(c)
    \/ RejectConnection(c)
    \/ FailInit(c)

\* The handlers of an existing connection.
ConnStep(c) ==
    \/ \E k \in Keys : Handshake(c, k)
    \/ FailHandshake(c)
    \/ ShutdownConnection(c)
    \/ ShutdownDone(c)
    \/ ShutdownTimedOut(c)
    \/ CloseClientCb(c)
    \/ CloseTimeoutCb(c)
    \/ LookupFreed(c)
    \/ CallbackAfterFree(c)
=============================================================================
