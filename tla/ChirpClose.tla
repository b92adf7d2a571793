----------------------------- MODULE ChirpClose -----------------------------
(***************************************************************************)
(* Closing a chirp instance: ch_chirp_close_ts() asks for it from any      *)
(* thread, the loop runs the close callback, which shuts the connections   *)
(* and the servers down, and a prepare handle waits for the closing        *)
(* semaphore before it lets the memory of the instance be freed (chirp.c,  *)
(* and ch_pr_stop() of protocol.c).                                        *)
(*                                                                         *)
(* The loop is libuv's: each iteration runs the timers and the pending     *)
(* write callbacks, the prepare handles, the poll for i/o and the close    *)
(* callbacks, in this order.                                               *)
(*                                                                         *)
(* The build is the debug build.  In a release build the calls that stop   *)
(* the instance are compiled out with the assert() around them: Instances  *)
(* has both builds.                                                        *)
(***************************************************************************)
EXTENDS Connections

VARIABLES
    close_sent,     \* uv_async_send() has been called on ichirp->close
    ch_opened,      \* handles of the instance that are open
    ch_due          \* handles of the instance whose close_cb is due

ChirpHandles == {"serverv4", "serverv6", "close", "close_check"}

chVars == <<close_sent, ch_opened, ch_due>>
vars   == <<ichirp, closing, closing_tasks, dictVars, connVars, phase, uvVars,
            fault, chVars>>

TypeOK ==
    /\ ConnTypeOK
    /\ close_sent \in BOOLEAN
    /\ ch_opened \subseteq ChirpHandles
    /\ ch_due \subseteq ChirpHandles

\* The state ch_chirp_init() leaves: the servers listen.
Init ==
    /\ ConnInit
    /\ close_sent = FALSE
    /\ ch_opened = {"serverv4", "serverv6", "close"}
    /\ ch_due = {}

-----------------------------------------------------------------------------

\* ch_chirp_close_ts(), from any thread and at any time.
CloseTs ==
    /\ Running
    /\ ~closing
    /\ closing' = TRUE
    /\ close_sent' = TRUE
    /\ UNCHANGED <<ichirp, cnVars, phase, fault, ch_opened, ch_due>>

\* sglib's iterator survives the deletion of the members it returns in a tree
\* of at most three nodes.  In a larger tree it may miss some of them.
IteratorSafe == 3

Visited(S) == IF Cardinality(S) <= IteratorSafe THEN {S} ELSE SUBSET S

\* Without the behaviour midway, the user only closes chirp when no connection
\* is in the middle of its handshake.
MayStop == \/ "midway" \in Env
           \/ \A c \in Conns : Client(c) \in opened => c \in greeted \cup shutting

\* The handles that closing the instance closes, and the tasks it counts.
ClosedHandlesV4 == {"serverv4", "close"}
ClosedHandles   == {"serverv4", "serverv6", "close"}
StopTasksShort  == 2
StopTasksMore   == 4
StopTasks       == 3

\* _ch_chirp_close_async_cb() with ch_pr_stop(): shut down every connection of
\* the dictionaries, close the servers and the async handle, and start to
\* check the semaphore.
CloseAsyncCb ==
    /\ Running /\ phase = "poll"
    /\ close_sent
    /\ MayStop
    /\ ~Dangling(connections \cup old_connections)
    /\ \E visited \in Visited(connections) :
          LET all == visited \cup old_connections
          IN  \E dead \in MayBeDead(all) :
                 /\ Shutdown(all, dead)
                 /\ closing_tasks' = closing_tasks
                                     + Cardinality(Started(all, dead))
                                     + StopTasks
    /\ old_connections' = {}
    /\ close_sent' = FALSE
    /\ ch_opened' = (ch_opened \ ClosedHandles) \cup {"close_check"}
    /\ ch_due' = ch_due \cup ClosedHandles
    /\ UNCHANGED <<ichirp, closing, memory, greeted, remote, shutdown_tasks,
                   phase, opened, due, fault>>

\* ch_pr_stop() iterates over a connection whose memory is freed.
StopFreed ==
    /\ Running /\ phase = "poll"
    /\ close_sent
    /\ MayStop
    /\ Dangling(connections \cup old_connections)
    /\ Crash("connection")
    /\ UNCHANGED chVars

\* ch_chirp_close_cb() for the servers and the async handle.
ChirpCloseCb(h) ==
    /\ Running /\ phase = "closing"
    /\ h \in ch_due \ {"close_check"}
    /\ ch_due' = ch_due \ {h}
    /\ closing_tasks' = closing_tasks - 1
    /\ UNCHANGED <<ichirp, closing, dictVars, connVars, phase, uvVars, fault,
                   close_sent, ch_opened>>

\* The condition under which the instance is taken down.
SemaphoreClearEarly == closing_tasks < 2
SemaphoreClear      == closing_tasks < 1

\* The prepare phase: _ch_chirp_check_closing_cb(), if it is started, closes
\* its own handle as soon as the semaphore is below one.
Prepare ==
    /\ fault = "none" /\ phase = "prepare"
    /\ phase' = "poll"
    /\ "close_check" \in ch_opened => closing_tasks > -1
    /\ IF "close_check" \in ch_opened /\ SemaphoreClear
       THEN /\ ch_opened' = ch_opened \ {"close_check"}
            /\ ch_due' = ch_due \cup {"close_check"}
       ELSE UNCHANGED <<ch_opened, ch_due>>
    /\ UNCHANGED <<ichirp, closing, cnVars, fault, close_sent>>

\* The assertion of _ch_chirp_check_closing_cb() ends the process.
AssertionFails ==
    /\ fault = "none" /\ phase = "prepare"
    /\ "close_check" \in ch_opened
    /\ closing_tasks < 0
    /\ Crash("assertion")
    /\ UNCHANGED chVars

\* _ch_chirp_closing_down_cb(): chirp->_ is freed.
ClosingDownCb ==
    /\ Running /\ phase = "closing"
    /\ "close_check" \in ch_due
    /\ ch_due' = ch_due \ {"close_check"}
    /\ ichirp' = "freed"
    /\ UNCHANGED <<closing, cnVars, phase, fault, close_sent, ch_opened>>

\* The loop goes to its next phase.  It only leaves the closing phase when
\* every close callback has been called.
NextPhase ==
    /\ fault = "none"
    /\ \/ phase = "timers" /\ phase' = "prepare"
       \/ phase = "poll" /\ phase' = "closing"
       \/ /\ phase = "closing" /\ phase' = "timers"
          /\ due = {} /\ ch_due = {}
    /\ UNCHANGED <<ichirp, closing, cnVars, fault, chVars>>

\* Nothing is defined after an access to freed memory, and nothing happens
\* after a failed assertion.
Crashed == fault # "none" /\ UNCHANGED vars

AcceptStep(c) ==
    /\ {"serverv4", "serverv6"} \cap ch_opened # {}
    /\ Accept(c)
    /\ UNCHANGED chVars

HandlerStep(c) == ConnStep(c) /\ UNCHANGED chVars

Next ==
    \/ CloseTs
    \/ CloseAsyncCb
    \/ StopFreed
    \/ \E h \in ChirpHandles : ChirpCloseCb(h)
    \/ Prepare
    \/ AssertionFails
    \/ ClosingDownCb
    \/ NextPhase
    \/ \E c \in Conns : AcceptStep(c) \/ HandlerStep(c)
    \/ Crashed

-----------------------------------------------------------------------------
(* The loop runs: it goes through its phases, it calls the close callback  *)
(* it was asked for, and a running timeout fires unless it is stopped.     *)
(* Nothing is assumed of the users and of the remote peers, but for one    *)
(* thing: without the behaviour stall a shutdown request finishes.         *)

\* The close callbacks of c, even when they touch a freed instance.
Released(c) ==
    /\ phase = "closing"
    /\ CloseClientCb(c) \/ CloseTimeoutCb(c) \/ CallbackAfterFree(c)
    /\ UNCHANGED chVars

\* The end of the shutdown request of c, one way or the other.
Finished(c) ==
    /\ c \in shutdown_req
    /\ \/ "stall" \notin Env /\ ShutdownDone(c)
       \/ ShutdownTimedOut(c)
       \/ CallbackAfterFree(c)
    /\ UNCHANGED chVars

Fairness ==
    /\ WF_vars(Prepare \/ AssertionFails)
    /\ WF_vars(NextPhase)
    /\ SF_vars(CloseAsyncCb \/ StopFreed)
    /\ WF_vars(\E h \in ChirpHandles : ChirpCloseCb(h))
    /\ WF_vars(ClosingDownCb)
    /\ \A c \in Conns : WF_vars(Released(c)) /\ SF_vars(Finished(c))

Spec     == Init /\ [][Next]_vars
FairSpec == Spec /\ Fairness

-----------------------------------------------------------------------------
(* Safety, whatever the environment does.                                  *)

\* The number of handles of c whose close callback is still to come.
DueCount(c) == (IF Client(c) \in due THEN 1 ELSE 0)
               + (IF Timeout(c) \in due THEN 1 ELSE 0)

\* The shutdown semaphore of a connection counts exactly the close callbacks
\* that are still to come: ch_cn_close_cb() never drops it below zero
\* (connection.c:624) and frees the connection in the last of them.
ShutdownSemaphore ==
    \A c \in Conns : /\ memory[c] = "alive" => shutdown_tasks[c] = DueCount(c)
                     /\ memory[c] # "alive" => shutdown_tasks[c] = 0

\* ch_cn_close_cb() frees a connection only when no handler of the shutdown can
\* be called with it any more: no open stream, no close callback, no running
\* shutdown timeout and no shutdown request.  The send timer, which nothing
\* closes, is not among them: Writer has the one that fires on a freed
\* connection.
NoCallbackIntoFreed ==
    \A c \in Conns : memory[c] # "alive" =>
        /\ Client(c) \notin opened
        /\ {Client(c), Timeout(c)} \cap due = {}
        /\ c \notin armed
        /\ c \notin shutdown_req

\* The callbacks the closing semaphore is meant to wait for.
Outstanding == Cardinality(ch_due \ {"close_check"}) + Cardinality(due)
               + Cardinality(shutdown_req)

\* The closing semaphore never counts a callback that will not come, so
\* _ch_chirp_check_closing_cb() never waits for ever.
NoLostTask == closing_tasks <= Outstanding

\* The handles inside the instance are closed before ch_free(ichirp).
InstanceClosed == ichirp = "freed" => ch_opened = {} /\ ch_due = {}

\* The dictionary holds at most one connection for a remote: a handshake
\* replaces the old one before it adds the new one.
OneConnectionPerKey ==
    \A c, d \in connections : remote[c] = remote[d] => c = d

\* Unless a handshake arrives late, a connection of the dictionary can be used:
\* it is alive and nobody has begun to shut it down.
DictionaryUsable ==
    "late" \notin Env =>
        \A c \in connections : memory[c] = "alive" /\ c \notin shutting

-----------------------------------------------------------------------------
(* Safety of a quiet close.                                                *)

\* The rule in the comment of _ch_chirp_close_async_cb(): while chirp closes
\* the semaphore is exactly the number of callbacks that are still to come.
ExactSemaphore == "close_check" \in ch_opened => closing_tasks = Outstanding

\* No handler of a stream, of a shutdown request, of a shutdown timeout or of a
\* close callback uses memory that has been freed, in whatever order the loop
\* calls them, and the assertion on the semaphore holds.  Whether the callback
\* of the send timer does is a matter of Writer.
NoFault == fault = "none"

\* The same rule as a specification: to the users of the instance its callbacks
\* are behind the barrier of CloseBarrier.
Barrier == INSTANCE CloseBarrier WITH
    Callbacks <- Handles \cup ({"shutdown_req"} \X Conns)
                 \cup (ChirpHandles \X {"ichirp"}),
    owner <- IF ichirp = "freed" THEN "freed"
             ELSE IF closing THEN "closing" ELSE "open",
    pending <- due \cup ({"shutdown_req"} \X shutdown_req)
               \cup ((ch_due \ {"close_check"}) \X {"ichirp"})

BarrierSpec == Barrier!Spec

-----------------------------------------------------------------------------
(* Liveness, under the fairness of the loop.                               *)

\* A requested close ends: the instance is freed (or the process has died of
\* an access to freed memory or of an assertion).
CloseEnds == closing ~> (ichirp = "freed" \/ fault # "none")

\* uv_shutdown() refused the connection (connection.c:418): it is marked as
\* shutting down, and nothing is under way that would close it.
Refused(c) == Client(c) \in opened /\ c \in shutting /\ c \notin shutdown_req

\* A connection that begins to shut down is freed in the end, even if the peer
\* stalls, unless uv_shutdown() refused it.
ShutdownEnds ==
    \A c \in Conns :
        c \in shutting ~> (memory[c] = "freed" \/ Refused(c) \/ fault # "none")

-----------------------------------------------------------------------------
(* What the comments and assertions of the code say, and the code breaks.  *)

\* The assertion of _ch_chirp_check_closing_cb() (chirp.c:156).
SemaphoreNotNegative ==
    phase = "prepare" /\ "close_check" \in ch_opened => closing_tasks > -1

\* "if we reach 0 all callbacks are done and we continue freeing memory"
\* (chirp.c:237).
FreedWhenDone == ichirp = "freed" => Outstanding = 0

\* "Cleanup chirp object. Will remove all callbacks" (chirp_obj.h:153): no
\* handler of a connection runs after ch_free(ichirp).
CallbacksRemoved == fault # "ichirp"

\* "we replace the old connection and leave the old one for garbage
\* collection" (reader.c:143): the old connections stay valid until
\* ch_pr_stop() shuts them down.
OldConnectionsValid == \A c \in old_connections : memory[c] # "freed"

\* A connection that is shut down is deleted from the dictionary
\* (connection.c:379), so none of its members is ever freed.
DictionaryValid == \A c \in connections : memory[c] # "freed"

\* The test closes the loop after chirp (chirp_test.py:78), which libuv refuses
\* as long as one handle is open.
LoopCanClose ==
    ichirp = "freed" /\ phase = "timers" =>
        \A c \in Conns : memory[c] = "freed" =>
            {Client(c), Timeout(c), Sender(c)} \cap opened = {}
=============================================================================
