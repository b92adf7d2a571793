-------------------------- MODULE ChirpCloseProof --------------------------
(***************************************************************************)
(* Proofs about ChirpClose, for every set of connections, every set of     *)
(* remotes and every environment.                                          *)
(***************************************************************************)
EXTENDS ChirpClose, FiniteSetTheorems, TLAPS

(* The handles of a connection: what relates them to its memory, to its    *)
(* flags and to the requests libuv still holds.                            *)
HandlesOK ==
    \A c \in Conns :
        /\ Client(c) \in opened => /\ Timeout(c) \in opened
                                   /\ Client(c) \notin due
                                   /\ Timeout(c) \notin due
        /\ c \in armed => Client(c) \in opened
        /\ c \in shutdown_req => Client(c) \in opened \cup due
        /\ c \in armed \cup shutdown_req => c \in shutting
        /\ c \in greeted \ shutting => Client(c) \in opened
        /\ c \in connections \cup old_connections => c \in greeted

(* The inductive invariant: the semaphore of each connection is exact, a   *)
(* freed connection is out of reach, and the handles are in order.         *)
IInv == TypeOK /\ ShutdownSemaphore /\ NoCallbackIntoFreed /\ HandlesOK

-----------------------------------------------------------------------------
(* Different handles are different values.                                 *)
LEMMA HandlesDiffer ==
    ASSUME NEW c \in Conns, NEW d \in Conns
    PROVE  /\ Client(c) # Timeout(d)
           /\ Client(c) # Sender(d)
           /\ Timeout(c) # Sender(d)
           /\ Client(c) = Client(d) => c = d
           /\ Timeout(c) = Timeout(d) => c = d
           /\ Client(c) \in Handles
           /\ Timeout(c) \in Handles
           /\ Sender(c) \in Handles
  BY DEF Client, Timeout, Sender, Handles

LEMMA InitIInv == Init => IInv
  <1> SUFFICES ASSUME Init PROVE IInv
    OBVIOUS
  <1>1. TypeOK
    <2>1. /\ closing \in BOOLEAN /\ close_sent \in BOOLEAN
      BY Zenon DEF Init, ConnInit
    <2>2. ConnTypeOK
      BY <2>1 DEF Init, ConnInit, ConnTypeOK
    <2>3. ch_opened \subseteq ChirpHandles /\ ch_due \subseteq ChirpHandles
      BY DEF Init, ChirpHandles
    <2>4. QED
      BY <2>1, <2>2, <2>3 DEF TypeOK
  <1>2. ShutdownSemaphore
    BY DEF Init, ConnInit, ShutdownSemaphore
  <1>3. NoCallbackIntoFreed /\ HandlesOK
    BY DEF Init, ConnInit, NoCallbackIntoFreed, HandlesOK
  <1>4. QED
    BY <1>1, <1>2, <1>3 DEF IInv

(* Accepting a connection, or failing to.                                  *)
LEMMA AcceptIInv ==
    ASSUME IInv, NEW c \in Conns, AcceptStep(c)
    PROVE  IInv'
  <1> USE HandlesDiffer
  <1>1. CASE NewConnection(c)
    <2>1. TypeOK'
      BY <1>1 DEF IInv, AcceptStep, TypeOK, ConnTypeOK, NewConnection,
                  chVars, dictVars
    <2>2. ShutdownSemaphore'
      BY <1>1 DEF IInv, TypeOK, ConnTypeOK, NewConnection, ShutdownSemaphore,
                  NoCallbackIntoFreed, DueCount
    <2>3. NoCallbackIntoFreed' /\ HandlesOK'
      BY <1>1 DEF IInv, TypeOK, ConnTypeOK, NewConnection, dictVars,
                  NoCallbackIntoFreed, HandlesOK
    <2>4. QED
      BY <2>1, <2>2, <2>3 DEF IInv
  <1>2. CASE RejectConnection(c)
    <2>1. TypeOK'
      BY <1>2 DEF IInv, AcceptStep, TypeOK, ConnTypeOK, RejectConnection,
                  chVars, dictVars, RejectTasks
    <2>2. ShutdownSemaphore'
      BY <1>2 DEF IInv, TypeOK, ConnTypeOK, RejectConnection, RejectTasks,
                  ShutdownSemaphore, NoCallbackIntoFreed, DueCount
    <2>3. NoCallbackIntoFreed' /\ HandlesOK'
      BY <1>2 DEF IInv, TypeOK, ConnTypeOK, RejectConnection, dictVars,
                  NoCallbackIntoFreed, HandlesOK
    <2>4. QED
      BY <2>1, <2>2, <2>3 DEF IInv
  <1>3. CASE FailInit(c)
    <2>1. TypeOK'
      BY <1>3 DEF IInv, AcceptStep, TypeOK, ConnTypeOK, FailInit, chVars,
                  dictVars
    <2>2. ShutdownSemaphore'
      BY <1>3 DEF IInv, TypeOK, ConnTypeOK, FailInit, ShutdownSemaphore,
                  DueCount
    <2>3. NoCallbackIntoFreed' /\ HandlesOK'
      BY <1>3 DEF IInv, TypeOK, ConnTypeOK, FailInit, dictVars,
                  NoCallbackIntoFreed, HandlesOK
    <2>4. QED
      BY <2>1, <2>2, <2>3 DEF IInv
  <1>4. QED
    BY <1>1, <1>2, <1>3 DEF AcceptStep, Accept

-----------------------------------------------------------------------------
(* The connections a shutdown counts are finitely many.                    *)
LEMMA StartedFinite ==
    ASSUME NEW S \in SUBSET Conns, NEW dead
    PROVE  /\ IsFiniteSet(Started(S, dead))
           /\ Cardinality(Started(S, dead)) \in Nat
  <1>1. Started(S, dead) \subseteq Conns
    BY DEF Started
  <1>2. IsFiniteSet(Started(S, dead))
    BY <1>1, ConnsAssumption, FS_Subset
  <1>3. QED
    BY <1>2, FS_CardinalityType

(* Shutting down connections whose streams are open, in whatever handler it *)
(* happens.                                                                *)
LEMMA ShutdownKeeps ==
    ASSUME IInv,
           NEW S \in SUBSET Conns, NEW dead,
           \A c \in S \ shutting : Client(c) \in opened,
           Shutdown(S, dead),
           UNCHANGED <<memory, shutdown_tasks, opened, due>>,
           old_connections' \subseteq old_connections,
           greeted' \in SUBSET Conns, greeted \subseteq greeted',
           greeted' \subseteq greeted \cup S
    PROVE  /\ ShutdownSemaphore' /\ NoCallbackIntoFreed' /\ HandlesOK'
           /\ connections' \subseteq Conns
           /\ shutting' \subseteq Conns
           /\ shutdown_req' \subseteq Conns
           /\ armed' \subseteq Conns
  <1>1. ShutdownSemaphore'
    BY DEF IInv, ShutdownSemaphore, DueCount, Client, Timeout
  <1>2. NoCallbackIntoFreed'
    BY DEF IInv, Shutdown, Timed, Started, NoCallbackIntoFreed, Client, Timeout
  <1>3. HandlesOK'
    BY DEF IInv, Shutdown, Timed, Started, HandlesOK, Client, Timeout
  <1>4. QED
    BY <1>1, <1>2, <1>3 DEF IInv, TypeOK, ConnTypeOK, Shutdown, Timed, Started

(* One connection is shut down by a handler.                               *)
LEMMA ShutdownOneIInv ==
    ASSUME IInv, NEW c \in Conns,
           FailHandshake(c) \/ ShutdownConnection(c), UNCHANGED chVars
    PROVE  IInv'
  <1>1. PICK dead : /\ Shutdown({c}, dead)
                    /\ Count(Cardinality(Started({c}, dead)))
    BY Zenon DEF FailHandshake, ShutdownConnection
  <1>2. /\ Client(c) \in opened
        /\ UNCHANGED <<ichirp, closing, old_connections, memory, remote,
                       shutdown_tasks, phase, opened, due, fault>>
        /\ greeted' = greeted \/ greeted' = greeted \cup {c}
    BY DEF FailHandshake, ShutdownConnection
  <1>3. /\ ShutdownSemaphore' /\ NoCallbackIntoFreed' /\ HandlesOK'
        /\ connections' \subseteq Conns /\ shutting' \subseteq Conns
        /\ shutdown_req' \subseteq Conns /\ armed' \subseteq Conns
    <2>1. /\ {c} \in SUBSET Conns
          /\ greeted' \in SUBSET Conns /\ greeted \subseteq greeted'
          /\ greeted' \subseteq greeted \cup {c}
          /\ old_connections' \subseteq old_connections
      BY <1>2 DEF IInv, TypeOK, ConnTypeOK
    <2>2. \A d \in {c} \ shutting : Client(d) \in opened
      BY <1>2
    <2>3. QED
      BY <1>1, <1>2, <2>1, <2>2, ShutdownKeeps
  <1>4. closing_tasks' \in Int
    BY <1>1, StartedFinite DEF Count, IInv, TypeOK, ConnTypeOK
  <1>5. TypeOK'
    BY <1>2, <1>3, <1>4 DEF IInv, TypeOK, ConnTypeOK, chVars
  <1>6. QED
    BY <1>3, <1>5 DEF IInv

(* The handshake of a connection.                                          *)
LEMMA HandshakeIInv ==
    ASSUME IInv, NEW c \in Conns, NEW k \in Keys, Handshake(c, k),
           UNCHANGED chVars
    PROVE  IInv'
  <1>1. TypeOK'
    BY DEF IInv, TypeOK, ConnTypeOK, Handshake, Replaced, chVars, uvVars
  <1>2. ShutdownSemaphore'
    BY DEF IInv, Handshake, ShutdownSemaphore, DueCount, uvVars, Client, Timeout
  <1>3. NoCallbackIntoFreed'
    BY DEF IInv, Handshake, NoCallbackIntoFreed, uvVars, Client, Timeout
  <1>4. HandlesOK'
    BY DEF IInv, Handshake, Replaced, HandlesOK, uvVars, Client, Timeout
  <1>5. QED
    BY <1>1, <1>2, <1>3, <1>4 DEF IInv

(* A connection whose stream is open has no close callback to wait for, so *)
(* both its handles can be closed.                                         *)
LEMMA CloseHandlesIInv ==
    ASSUME IInv, NEW c \in Conns, NEW spent \in Int,
           Client(c) \in opened, CloseHandles(c, spent),
           c \in shutting,
           shutdown_req' = shutdown_req \/ shutdown_req' = shutdown_req \ {c},
           UNCHANGED <<ichirp, closing, dictVars, memory, greeted, remote,
                       shutting, phase, fault, chVars>>
    PROVE  IInv'
  <1> USE HandlesDiffer
  <1>1. /\ memory[c] = "alive" /\ shutdown_tasks[c] = 0
        /\ Client(c) \notin due /\ Timeout(c) \notin due
    BY DEF IInv, TypeOK, ConnTypeOK, HandlesOK, ShutdownSemaphore, DueCount,
           NoCallbackIntoFreed
  <1>2. TypeOK'
    BY <1>1 DEF IInv, TypeOK, ConnTypeOK, CloseHandles, Count, ClosingTasks,
                HandleTasks, dictVars, chVars
  <1>3. ShutdownSemaphore'
    BY <1>1 DEF IInv, TypeOK, ConnTypeOK, CloseHandles, HandleTasks,
                ShutdownSemaphore, DueCount
  <1>4. NoCallbackIntoFreed'
    BY <1>1 DEF IInv, TypeOK, ConnTypeOK, CloseHandles, NoCallbackIntoFreed
  <1>5. HandlesOK'
    BY <1>1 DEF IInv, TypeOK, ConnTypeOK, CloseHandles, HandlesOK, dictVars
  <1>6. QED
    BY <1>2, <1>3, <1>4, <1>5 DEF IInv

LEMMA ShutdownEndIInv ==
    ASSUME IInv, NEW c \in Conns, ShutdownDone(c) \/ ShutdownTimedOut(c),
           UNCHANGED chVars
    PROVE  IInv'
  <1>1. CASE ShutdownDone(c)
    <2>1. Client(c) \in opened /\ c \in shutting
      BY <1>1 DEF ShutdownDone, IInv, HandlesOK
    <2>2. QED
      BY <1>1, <2>1, CloseHandlesIInv DEF ShutdownDone
  <1>2. CASE ShutdownTimedOut(c)
    <2>1. Client(c) \in opened /\ c \in shutting
      BY <1>2 DEF ShutdownTimedOut, IInv, HandlesOK
    <2>2. QED
      BY <1>2, <2>1, CloseHandlesIInv DEF ShutdownTimedOut
  <1>3. QED
    BY <1>1, <1>2

(* A close callback, which may free the connection.                        *)
LEMMA CloseCbIInv ==
    ASSUME IInv, NEW c \in Conns,
           CloseClientCb(c) \/ CloseTimeoutCb(c), UNCHANGED chVars
    PROVE  IInv'
  <1> USE HandlesDiffer
  <1>1. PICK h \in {Client(c), Timeout(c)} : ConnCloseCb(c, h)
    BY DEF CloseClientCb, CloseTimeoutCb
  <1>2. /\ memory[c] = "alive" /\ h \in due
        /\ shutdown_tasks[c] = DueCount(c)
        /\ Client(c) \notin opened
    BY <1>1 DEF ConnCloseCb, IInv, TypeOK, ConnTypeOK, HandlesOK,
                ShutdownSemaphore, NoCallbackIntoFreed
  <1>3. TypeOK'
    BY <1>1, <1>2 DEF ConnCloseCb, Count, IInv, TypeOK, ConnTypeOK, DueCount,
                      dictVars, chVars
  <1>4. ShutdownSemaphore'
    BY <1>1, <1>2 DEF ConnCloseCb, IInv, TypeOK, ConnTypeOK, LastTask,
                      ShutdownSemaphore, DueCount
  <1>5. NoCallbackIntoFreed'
    BY <1>1, <1>2 DEF ConnCloseCb, IInv, TypeOK, ConnTypeOK, LastTask, DueCount,
                      HandlesOK, NoCallbackIntoFreed
  <1>6. HandlesOK'
    BY <1>1, <1>2 DEF ConnCloseCb, IInv, TypeOK, ConnTypeOK, HandlesOK, dictVars
  <1>7. QED
    BY <1>3, <1>4, <1>5, <1>6 DEF IInv

(* A crash changes nothing but the fault.                                  *)
LEMMA CrashIInv ==
    ASSUME IInv, NEW what \in {"ichirp", "connection", "assertion"}, Crash(what),
           UNCHANGED chVars
    PROVE  IInv'
  BY DEF Crash, IInv, TypeOK, ConnTypeOK, ShutdownSemaphore, DueCount,
         NoCallbackIntoFreed, HandlesOK, dictVars, connVars, uvVars, chVars,
         Client, Timeout

LEMMA HandlerIInv ==
    ASSUME IInv, NEW c \in Conns, HandlerStep(c)
    PROVE  IInv'
  <1>1. ConnStep(c) /\ UNCHANGED chVars
    BY DEF HandlerStep
  <1>2. CASE \E k \in Keys : Handshake(c, k)
    BY <1>1, <1>2, HandshakeIInv
  <1>3. CASE FailHandshake(c) \/ ShutdownConnection(c)
    BY <1>1, <1>3, ShutdownOneIInv
  <1>4. CASE ShutdownDone(c) \/ ShutdownTimedOut(c)
    BY <1>1, <1>4, ShutdownEndIInv
  <1>5. CASE CloseClientCb(c) \/ CloseTimeoutCb(c)
    BY <1>1, <1>5, CloseCbIInv
  <1>6. CASE LookupFreed(c) \/ CallbackAfterFree(c)
    <2>1. Crash("connection") \/ Crash("ichirp")
      BY <1>6 DEF LookupFreed, CallbackAfterFree
    <2>2. QED
      BY <1>1, <2>1, CrashIInv
  <1>7. QED
    BY <1>1, <1>2, <1>3, <1>4, <1>5, <1>6 DEF ConnStep

(* The close callback of the instance shuts its connections down.          *)
LEMMA CloseAsyncIInv ==
    ASSUME IInv, CloseAsyncCb
    PROVE  IInv'
  <1>1. PICK visited \in Visited(connections) :
            \E dead \in MayBeDead(visited \cup old_connections) :
               /\ Shutdown(visited \cup old_connections, dead)
               /\ closing_tasks' = closing_tasks + Cardinality(
                     Started(visited \cup old_connections, dead)) + StopTasks
    BY Zenon DEF CloseAsyncCb
  <1> DEFINE all == visited \cup old_connections
  <1>2. PICK dead : /\ Shutdown(all, dead)
                    /\ closing_tasks' = closing_tasks
                          + Cardinality(Started(all, dead)) + StopTasks
    BY <1>1
  <1>3. visited \subseteq connections
    BY DEF Visited
  <1>4. all \in SUBSET Conns
    BY <1>3 DEF IInv, TypeOK, ConnTypeOK
  <1>5. \A c \in all \ shutting : Client(c) \in opened
    BY <1>3, <1>4 DEF IInv, HandlesOK
  <1>6. /\ UNCHANGED <<ichirp, closing, memory, greeted, remote,
                       shutdown_tasks, phase, opened, due, fault>>
        /\ old_connections' = {}
        /\ ch_opened' = (ch_opened \ ClosedHandles) \cup {"close_check"}
        /\ ch_due' = ch_due \cup ClosedHandles
        /\ close_sent' = FALSE
    BY DEF CloseAsyncCb
  <1>7. /\ ShutdownSemaphore' /\ NoCallbackIntoFreed' /\ HandlesOK'
        /\ connections' \subseteq Conns /\ shutting' \subseteq Conns
        /\ shutdown_req' \subseteq Conns /\ armed' \subseteq Conns
    <2>1. /\ greeted' \in SUBSET Conns /\ greeted \subseteq greeted'
          /\ greeted' \subseteq greeted \cup all
          /\ old_connections' \subseteq old_connections
      BY <1>6 DEF IInv, TypeOK, ConnTypeOK
    <2> HIDE DEF all
    <2>2. QED
      BY <1>2, <1>4, <1>5, <1>6, <2>1, ShutdownKeeps
  <1>8. closing_tasks' \in Int
    <2> HIDE DEF all
    <2>1. QED
      BY <1>2, <1>4, StartedFinite DEF StopTasks, IInv, TypeOK, ConnTypeOK
  <1>9. TypeOK'
    <2>1. close_sent' \in BOOLEAN
      BY Zenon, <1>6
    <2>2. ch_opened' \subseteq ChirpHandles /\ ch_due' \subseteq ChirpHandles
      BY <1>6 DEF ClosedHandles, ChirpHandles, IInv, TypeOK
    <2>3. ConnTypeOK'
      BY <1>6, <1>7, <1>8 DEF IInv, TypeOK, ConnTypeOK
    <2>4. QED
      BY <2>1, <2>2, <2>3 DEF TypeOK
  <1>10. QED
    BY <1>7, <1>9 DEF IInv

(* The steps of the instance that leave its connections alone.             *)
LEMMA InstanceIInv ==
    ASSUME IInv,
           \/ CloseTs \/ Prepare \/ ClosingDownCb \/ NextPhase
           \/ \E h \in ChirpHandles : ChirpCloseCb(h)
           \/ UNCHANGED vars
    PROVE  IInv'
  <1>1. UNCHANGED <<dictVars, connVars, uvVars>>
    BY DEF CloseTs, Prepare, ClosingDownCb, NextPhase, ChirpCloseCb, cnVars,
           vars
  <1>2. ShutdownSemaphore' /\ NoCallbackIntoFreed' /\ HandlesOK'
    BY <1>1 DEF IInv, ShutdownSemaphore, DueCount, NoCallbackIntoFreed,
                HandlesOK, dictVars, connVars, uvVars, Client, Timeout
  <1>3. TypeOK'
    <2>1. CASE CloseTs
      <3>1. closing' \in BOOLEAN /\ close_sent' \in BOOLEAN
        BY Zenon, <2>1 DEF CloseTs
      <3>2. QED
        BY <1>1, <2>1, <3>1 DEF CloseTs, IInv, TypeOK, ConnTypeOK, cnVars,
                                dictVars, connVars, uvVars
    <2>2. CASE Prepare
      BY <1>1, <2>2 DEF Prepare, IInv, TypeOK, ConnTypeOK, cnVars,
                        dictVars, connVars, uvVars, ChirpHandles
    <2>3. CASE ClosingDownCb
      BY <1>1, <2>3 DEF ClosingDownCb, IInv, TypeOK, ConnTypeOK, cnVars,
                        dictVars, connVars, uvVars
    <2>4. CASE NextPhase
      BY <1>1, <2>4 DEF NextPhase, IInv, TypeOK, ConnTypeOK, cnVars,
                        dictVars, connVars, uvVars, chVars
    <2>5. CASE \E h \in ChirpHandles : ChirpCloseCb(h)
      BY <1>1, <2>5 DEF ChirpCloseCb, IInv, TypeOK, ConnTypeOK,
                        dictVars, connVars, uvVars
    <2>6. CASE UNCHANGED vars
      BY <1>1, <2>6 DEF vars, IInv, TypeOK, ConnTypeOK,
                        dictVars, connVars, uvVars, chVars
    <2>7. QED
      BY <2>1, <2>2, <2>3, <2>4, <2>5, <2>6
  <1>4. QED
    BY <1>2, <1>3 DEF IInv

LEMMA NextIInv == IInv /\ [Next]_vars => IInv'
  <1> SUFFICES ASSUME IInv, [Next]_vars PROVE IInv'
    OBVIOUS
  <1>1. CASE CloseAsyncCb
    BY <1>1, CloseAsyncIInv
  <1>2. CASE StopFreed \/ AssertionFails
    BY <1>2, CrashIInv DEF StopFreed, AssertionFails
  <1>3. CASE \E c \in Conns : AcceptStep(c) \/ HandlerStep(c)
    BY <1>3, AcceptIInv, HandlerIInv
  <1>4. CASE \/ CloseTs \/ Prepare \/ ClosingDownCb \/ NextPhase
             \/ \E h \in ChirpHandles : ChirpCloseCb(h)
             \/ UNCHANGED vars
    BY <1>4, InstanceIInv
  <1>5. CASE Crashed
    BY <1>5, InstanceIInv DEF Crashed
  <1>6. QED
    BY <1>1, <1>2, <1>3, <1>4, <1>5 DEF Next

\* Every handler of the loop keeps the types, the semaphores and the handles in step.
THEOREM Invariance == Spec => []IInv
  <1>1. Init => IInv
    BY InitIInv
  <1>2. IInv /\ [Next]_vars => IInv'
    BY NextIInv
  <1>3. QED
    BY <1>1, <1>2, PTL DEF Spec

(* Every variable has its type; in particular the shutdown semaphore, an   *)
(* int8_t, stays between zero and two.                                     *)
THEOREM TypeCorrect == Spec => []TypeOK
  <1>1. IInv => TypeOK
    BY DEF IInv
  <1>2. QED
    BY <1>1, Invariance, PTL

(* The semaphore of a connection counts exactly its close callbacks that   *)
(* are still to come, whatever the environment does.                       *)
THEOREM ShutdownSemaphoreExact == Spec => []ShutdownSemaphore
  <1>1. IInv => ShutdownSemaphore
    BY DEF IInv
  <1>2. QED
    BY <1>1, Invariance, PTL

(* When a connection is freed neither its stream, nor its shutdown request *)
(* or timeout, nor a close callback can call a handler with it.            *)
THEOREM FreedIsUnreachable == Spec => []NoCallbackIntoFreed
  <1>1. IInv => NoCallbackIntoFreed
    BY DEF IInv
  <1>2. QED
    BY <1>1, Invariance, PTL

-----------------------------------------------------------------------------
(* What rests on the invariant IInv: the order in which an instance takes  *)
(* itself down, what its dictionary holds, that the closing semaphore      *)
(* never counts a callback that will not come, when it counts every one    *)
(* that will, and that a quiet close frees nothing too early.              *)

(* The order of closing: the async message is sent once, after it the      *)
(* servers are closed for good, and close_check is the last open handle.   *)
StopOrder ==
    /\ close_sent => closing /\ ch_due = {}
    /\ ch_due # {} => closing /\ phase \in {"poll", "closing"}
    /\ "close_check" \in ch_opened =>
          /\ closing /\ ~close_sent
          /\ ch_opened = {"close_check"}
          /\ "close_check" \notin ch_due
    /\ "close_check" \in ch_due =>
          /\ closing /\ ~close_sent
          /\ ch_opened = {}
          /\ ch_due = {"close_check"}
    /\ ichirp = "freed" =>
          /\ closing /\ ~close_sent
          /\ ch_opened = {} /\ ch_due = {}

LEMMA InitStopOrder == Init => StopOrder
  BY DEF Init, ConnInit, StopOrder

LEMMA NextStopOrder == TypeOK /\ StopOrder /\ [Next]_vars => StopOrder'
  <1> SUFFICES ASSUME TypeOK, StopOrder, [Next]_vars PROVE StopOrder'
    OBVIOUS
  <1>1. CASE CloseTs
    BY <1>1 DEF CloseTs, Running, StopOrder
  <1>2. CASE CloseAsyncCb
    BY <1>2 DEF CloseAsyncCb, Running, ClosedHandles, ChirpHandles, TypeOK,
                StopOrder
  <1>3. CASE StopFreed \/ AssertionFails \/ Crashed
    BY <1>3 DEF StopFreed, AssertionFails, Crashed, Crash, vars, chVars, StopOrder
  <1>4. ASSUME NEW h \in ChirpHandles, ChirpCloseCb(h) PROVE StopOrder'
    BY <1>4 DEF ChirpCloseCb, Running, StopOrder
  <1>5. CASE Prepare
    BY <1>5 DEF Prepare, StopOrder
  <1>6. CASE ClosingDownCb
    BY <1>6 DEF ClosingDownCb, Running, StopOrder
  <1>7. CASE NextPhase
    BY <1>7 DEF NextPhase, chVars, StopOrder
  <1>8. ASSUME NEW c \in Conns, AcceptStep(c) \/ HandlerStep(c)
        PROVE  StopOrder'
    <2>1. UNCHANGED <<ichirp, closing, phase, chVars>>
      BY <1>8 DEF AcceptStep, HandlerStep, Accept, ConnStep, NewConnection,
                  RejectConnection, FailInit, Handshake, FailHandshake,
                  ShutdownConnection, ShutdownDone, ShutdownTimedOut,
                  CloseClientCb, CloseTimeoutCb, ConnCloseCb, LookupFreed,
                  CallbackAfterFree, Crash
    <2>2. QED
      BY <2>1 DEF chVars, StopOrder
  <1>9. CASE UNCHANGED vars
    BY <1>9 DEF vars, chVars, StopOrder
  <1>10. QED
    BY <1>1, <1>2, <1>3, <1>4, <1>5, <1>6, <1>7, <1>8, <1>9 DEF Next

(* The handles inside the instance are all closed before it is freed,      *)
(* because the prepare handle that takes it down is the last of them and   *)
(* is closed in an iteration in which no other close callback is due.      *)
THEOREM InstanceIsClosed == Spec => []InstanceClosed
  <1>1. Init => StopOrder
    BY InitStopOrder
  <1>2. TypeOK /\ StopOrder /\ [Next]_vars => StopOrder'
    BY NextStopOrder
  <1>3. StopOrder => InstanceClosed
    BY DEF StopOrder, InstanceClosed
  <1>4. QED
    BY <1>1, <1>2, <1>3, TypeCorrect, PTL DEF Spec

-----------------------------------------------------------------------------
(* The dictionary: its members have different remotes, and without late    *)
(* handshakes none of them is shutting down.                               *)
DictionaryOK ==
    /\ OneConnectionPerKey
    /\ "late" \notin Env => connections \cap shutting = {}

LEMMA InitDictionaryOK == Init => DictionaryOK
  BY DEF Init, ConnInit, DictionaryOK, OneConnectionPerKey

(* Shutting connections down keeps the dictionary in order: each of them   *)
(* is found under its own key and deleted.                                 *)
LEMMA ShutdownDictionary ==
    ASSUME DictionaryOK, NEW S, NEW dead, Shutdown(S, dead), UNCHANGED remote
    PROVE  DictionaryOK'
  BY DEF DictionaryOK, OneConnectionPerKey, Shutdown, Forgotten

LEMMA HandshakeDictionary ==
    ASSUME IInv, DictionaryOK, NEW c \in Conns, NEW k \in Keys, Handshake(c, k)
    PROVE  DictionaryOK'
  <1>1. c \notin connections /\ remote \in [Conns -> Keys \cup {NoKey}]
        /\ connections \subseteq Conns
    BY DEF Handshake, IInv, TypeOK, ConnTypeOK, HandlesOK
  <1>2. OneConnectionPerKey'
    BY <1>1 DEF Handshake, Replaced, DictionaryOK, OneConnectionPerKey
  <1>3. "late" \notin Env => (connections \cap shutting = {})'
    BY DEF Handshake, Replaced, DictionaryOK
  <1>4. QED
    BY <1>2, <1>3 DEF DictionaryOK

LEMMA NextDictionaryOK == IInv /\ DictionaryOK /\ [Next]_vars => DictionaryOK'
  <1> SUFFICES ASSUME IInv, DictionaryOK, [Next]_vars PROVE DictionaryOK'
    OBVIOUS
  <1>1. CASE CloseAsyncCb
    <2>1. PICK S, dead : Shutdown(S, dead)
      BY Zenon, <1>1 DEF CloseAsyncCb
    <2>2. UNCHANGED remote
      BY <1>1 DEF CloseAsyncCb
    <2>3. QED
      BY <2>1, <2>2, ShutdownDictionary
  <1>2. ASSUME NEW c \in Conns, FailHandshake(c) \/ ShutdownConnection(c)
        PROVE  DictionaryOK'
    <2>1. PICK dead : Shutdown({c}, dead)
      BY Zenon, <1>2 DEF FailHandshake, ShutdownConnection
    <2>2. UNCHANGED remote
      BY <1>2 DEF FailHandshake, ShutdownConnection
    <2>3. QED
      BY <2>1, <2>2, ShutdownDictionary
  <1>3. ASSUME NEW c \in Conns, NEW k \in Keys, Handshake(c, k)
        PROVE  DictionaryOK'
    BY <1>3, HandshakeDictionary
  <1>4. CASE UNCHANGED <<connections, remote, shutting>>
    BY <1>4 DEF DictionaryOK, OneConnectionPerKey
  <1>5. ASSUME NEW c \in Conns, AcceptStep(c) \/ HandlerStep(c)
        PROVE  DictionaryOK'
    <2>1. CASE AcceptStep(c)
      BY <1>4, <2>1 DEF AcceptStep, Accept, NewConnection, RejectConnection,
                        FailInit, dictVars
    <2>2. CASE /\ ConnStep(c)
               /\ ~FailHandshake(c) /\ ~ShutdownConnection(c)
               /\ ~(\E k \in Keys : Handshake(c, k))
      BY <1>4, <2>2 DEF ConnStep, ShutdownDone, ShutdownTimedOut, CloseClientCb,
                        CloseTimeoutCb, ConnCloseCb, LookupFreed,
                        CallbackAfterFree, Crash, dictVars, connVars
    <2>3. QED
      BY <1>2, <1>3, <1>5, <2>1, <2>2 DEF HandlerStep
  <1>6. CASE \/ CloseTs \/ StopFreed \/ Prepare
             \/ AssertionFails \/ ClosingDownCb \/ NextPhase \/ Crashed
             \/ \E h \in ChirpHandles : ChirpCloseCb(h)
             \/ UNCHANGED vars
    BY <1>4, <1>6 DEF CloseTs, StopFreed, Prepare, AssertionFails,
                      ClosingDownCb, NextPhase, Crashed, ChirpCloseCb, Crash,
                      vars, cnVars, dictVars, connVars
  <1>7. QED
    BY <1>1, <1>5, <1>6 DEF Next

LEMMA DictionaryInvariance == Spec => [](IInv /\ DictionaryOK)
  <1>1. Init => DictionaryOK
    BY InitDictionaryOK
  <1>2. IInv /\ DictionaryOK /\ [Next]_vars => DictionaryOK'
    BY NextDictionaryOK
  <1>3. QED
    BY <1>1, <1>2, Invariance, PTL DEF Spec

(* The dictionary never holds two connections of one remote, with any      *)
(* number of remotes that reconnect whenever they like.                    *)
THEOREM KeysAreUnique == Spec => []OneConnectionPerKey
  <1>1. DictionaryOK => OneConnectionPerKey
    BY DEF DictionaryOK
  <1>2. QED
    BY <1>1, DictionaryInvariance, PTL

(* Without late handshakes ch_chirp_send() only finds connections that are *)
(* alive and that nobody has begun to shut down.                           *)
THEOREM FoundIsUsable == Spec => []DictionaryUsable
  <1>1. IInv /\ DictionaryOK => DictionaryUsable
    BY DEF IInv, TypeOK, ConnTypeOK, HandlesOK, NoCallbackIntoFreed, DictionaryOK,
           DictionaryUsable
  <1>2. QED
    BY <1>1, DictionaryInvariance, PTL

-----------------------------------------------------------------------------
(* The closing semaphore.  What it may not exceed is a sum of three        *)
(* cardinalities, so each step is a matter of counting.                    *)

(* Every connection is initialised, none is shut down before the close is  *)
(* requested, and every shutdown request finishes by itself.               *)
Punctual == {"early", "stall", "reject"} \cap Env = {}

(* While chirp closes the semaphore is what it should count; before, there *)
(* is nothing to count.                                                    *)
Exact ==
    IF closing THEN closing_tasks = Outstanding
    ELSE shutdown_req = {} /\ due = {} /\ ch_due = {}

TasksOK ==
    /\ NoLostTask
    /\ ~closing => closing_tasks = 0
    /\ Punctual => Exact

LEMMA HandlesFinite == IsFiniteSet(Handles) /\ IsFiniteSet(ChirpHandles)
  <1> DEFINE A == {} \cup {"client"}
             B == A \cup {"shutdown_timeout"}
             C == B \cup {"send_timeout"}
             P == {} \cup {"serverv4"}
             Q == P \cup {"serverv6"}
             R == Q \cup {"close"}
             T == R \cup {"close_check"}
  <1>1. IsFiniteSet(A) /\ IsFiniteSet(P)
    BY FS_EmptySet, FS_AddElement
  <1>2. IsFiniteSet(C) /\ IsFiniteSet(T)
    <2>1. IsFiniteSet(B) /\ IsFiniteSet(Q)
      <3> HIDE DEF A, P
      <3>1. QED
        BY <1>1, FS_AddElement
    <2>2. IsFiniteSet(R)
      <3> HIDE DEF Q
      <3>1. QED
        BY <2>1, FS_AddElement
    <2> HIDE DEF B, R
    <2>3. QED
      BY <2>1, <2>2, FS_AddElement
  <1>3. /\ C = {"client", "shutdown_timeout", "send_timeout"}
        /\ T = ChirpHandles
    BY DEF ChirpHandles
  <1> HIDE DEF A, B, C, P, Q, R, T
  <1>4. IsFiniteSet(C \X Conns)
    BY <1>2, ConnsAssumption, FS_Product
  <1>5. QED
    BY <1>2, <1>3, <1>4 DEF Handles

(* Adding one element to a part of a finite set, and taking one away.      *)
LEMMA Counting ==
    ASSUME NEW U, IsFiniteSet(U), NEW D \in SUBSET U, NEW x
    PROVE  /\ Cardinality(D) \in Nat
           /\ x \notin D => Cardinality(D \cup {x}) = Cardinality(D) + 1
           /\ x \in D => Cardinality(D \ {x}) = Cardinality(D) - 1
  <1>1. IsFiniteSet(D)
    BY FS_Subset
  <1>2. QED
    BY <1>1, FS_CardinalityType, FS_AddElement, FS_RemoveElement

(* The three parts of Outstanding are natural numbers.                     *)
LEMMA OutstandingParts ==
    ASSUME NEW D \in SUBSET Handles, NEW R \in SUBSET Conns,
           NEW C \in SUBSET ChirpHandles
    PROVE  Cardinality(D) \in Nat /\ Cardinality(R) \in Nat /\ Cardinality(C) \in Nat
  BY HandlesFinite, ConnsAssumption, Counting

LEMMA InitTasksOK == Init => TasksOK
  <1> SUFFICES ASSUME Init PROVE TasksOK
    OBVIOUS
  <1>1. closing_tasks = 0 /\ ch_due \ {"close_check"} = {} /\ due = {}
        /\ shutdown_req = {}
    BY DEF Init, ConnInit
  <1>2. ch_due = {} /\ ~closing
    BY DEF Init, ConnInit
  <1>3. QED
    BY <1>1, <1>2, FS_EmptySet DEF TasksOK, NoLostTask, Outstanding, Exact

(* A shutdown counts each request that libuv accepts, while closing.       *)
LEMMA ShutdownTasks ==
    ASSUME IInv, NEW S \in SUBSET Conns, NEW dead, Shutdown(S, dead)
    PROVE  /\ Cardinality(shutdown_req')
                = Cardinality(shutdown_req) + Cardinality(Started(S, dead))
           /\ Cardinality(Started(S, dead)) \in Nat
  <1>1. shutdown_req' = shutdown_req \cup Started(S, dead)
    BY DEF Shutdown
  <1>2. shutdown_req \cap Started(S, dead) = {} /\ shutdown_req \subseteq Conns
    BY DEF IInv, HandlesOK, Started, TypeOK, ConnTypeOK
  <1>3. /\ IsFiniteSet(shutdown_req) /\ IsFiniteSet(Started(S, dead))
        /\ Cardinality(Started(S, dead)) \in Nat
    BY <1>2, StartedFinite, ConnsAssumption, FS_Subset
  <1>4. Cardinality(shutdown_req) \in Nat
    BY <1>3, FS_CardinalityType
  <1>5. Cardinality(shutdown_req \cup Started(S, dead))
           = Cardinality(shutdown_req) + Cardinality(Started(S, dead))
             - Cardinality(shutdown_req \cap Started(S, dead))
    BY <1>3, FS_Union
  <1>6. Cardinality(shutdown_req \cap Started(S, dead)) = 0
    BY <1>2, FS_EmptySet
  <1>7. QED
    BY <1>1, <1>3, <1>4, <1>5, <1>6

LEMMA ShutdownOneTasks ==
    ASSUME IInv, TasksOK, NEW c \in Conns,
           FailHandshake(c) \/ ShutdownConnection(c), UNCHANGED chVars
    PROVE  TasksOK'
  <1>1. PICK dead : /\ Shutdown({c}, dead)
                    /\ Count(Cardinality(Started({c}, dead)))
    BY Zenon DEF FailHandshake, ShutdownConnection
  <1>2. UNCHANGED <<closing, due, ch_due>>
    BY DEF FailHandshake, ShutdownConnection, chVars
  <1>3. /\ Cardinality(shutdown_req')
             = Cardinality(shutdown_req) + Cardinality(Started({c}, dead))
        /\ Cardinality(Started({c}, dead)) \in Nat
    BY <1>1, ShutdownTasks
  <1>4. /\ Cardinality(due) \in Nat /\ Cardinality(shutdown_req) \in Nat
        /\ Cardinality(ch_due \ {"close_check"}) \in Nat
        /\ closing_tasks \in Int
    BY OutstandingParts DEF IInv, TypeOK, ConnTypeOK
  <1>5. Punctual => closing
    BY DEF FailHandshake, ShutdownConnection, Punctual
  <1>6. QED
    BY <1>1, <1>2, <1>3, <1>4, <1>5 DEF Count, TasksOK, NoLostTask, Outstanding,
                                        Exact

(* Closing the handles of a connection takes the request, if it is done,   *)
(* and adds two close callbacks for the one task it counts.                *)
LEMMA CloseHandlesTasks ==
    ASSUME IInv, TasksOK, NEW c \in Conns, NEW spent \in {0, 1},
           Client(c) \in opened, CloseHandles(c, spent),
           \/ shutdown_req' = shutdown_req /\ spent = 1 /\ ~Punctual
           \/ /\ shutdown_req' = shutdown_req \ {c} /\ c \in shutdown_req
              /\ Punctual => spent = 0,
           UNCHANGED <<closing, chVars>>
    PROVE  TasksOK'
  <1> USE HandlesDiffer
  <1>1. /\ Client(c) \notin due /\ Timeout(c) \notin due
        /\ due \subseteq Handles /\ shutdown_req \subseteq Conns
        /\ ch_due \ {"close_check"} \subseteq ChirpHandles
        /\ closing_tasks \in Int
    BY DEF IInv, TypeOK, ConnTypeOK, HandlesOK
  <1>2. due' = (due \cup {Client(c)}) \cup {Timeout(c)}
    BY DEF CloseHandles
  <1>3. Cardinality(due') = Cardinality(due) + 2 /\ Cardinality(due) \in Nat
    <2> DEFINE D == due \cup {Client(c)}
    <2>1. /\ Cardinality(due) \in Nat
          /\ Cardinality(D) = Cardinality(due) + 1
      BY <1>1, HandlesFinite, Counting
    <2>2. D \in SUBSET Handles /\ Timeout(c) \notin D
      BY <1>1
    <2> HIDE DEF D
    <2>3. Cardinality(D \cup {Timeout(c)}) = Cardinality(D) + 1
      BY <2>2, HandlesFinite, Counting
    <2>4. QED
      BY <1>2, <2>1, <2>3 DEF D
  <1>4. /\ Cardinality(shutdown_req) \in Nat
        /\ Cardinality(ch_due \ {"close_check"}) \in Nat
    BY <1>1, OutstandingParts
  <1>5. \/ Cardinality(shutdown_req') = Cardinality(shutdown_req) /\ spent = 1
        \/ /\ Cardinality(shutdown_req') = Cardinality(shutdown_req) - 1
           /\ shutdown_req # {}
    BY <1>1, ConnsAssumption, Counting
  <1>6. closing_tasks' = closing_tasks + (IF closing THEN 1 - spent ELSE 0)
    BY DEF CloseHandles, Count, ClosingTasks
  <1>7. /\ Outstanding' >= Outstanding + 1 - spent
        /\ Punctual => /\ Outstanding' = Outstanding + 1 - spent
                       /\ shutdown_req # {}
    BY <1>3, <1>4, <1>5 DEF Outstanding, chVars
  <1>8. Outstanding \in Int /\ Outstanding' \in Int
    BY <1>3, <1>4, <1>5 DEF Outstanding, chVars
  <1>9. QED
    BY <1>1, <1>6, <1>7, <1>8 DEF TasksOK, NoLostTask, Exact

(* A close callback takes the task it stands for, and one more if it finds *)
(* the shutdown request unfinished.                                        *)
LEMMA CloseCbTasks ==
    ASSUME IInv, TasksOK, NEW c \in Conns,
           CloseClientCb(c) \/ CloseTimeoutCb(c), UNCHANGED chVars
    PROVE  TasksOK'
  <1> USE HandlesDiffer
  <1>1. PICK h \in {Client(c), Timeout(c)} : ConnCloseCb(c, h)
    BY DEF CloseClientCb, CloseTimeoutCb
  <1> DEFINE canceled == h = Client(c) /\ c \in shutdown_req
  <1>2. /\ due \subseteq Handles /\ shutdown_req \subseteq Conns
        /\ ch_due \ {"close_check"} \subseteq ChirpHandles
        /\ closing_tasks \in Int
    BY DEF IInv, TypeOK, ConnTypeOK
  <1>3. Cardinality(due') = Cardinality(due) - 1 /\ Cardinality(due) \in Nat
    BY <1>1, <1>2, HandlesFinite, Counting DEF ConnCloseCb
  <1>4. /\ Cardinality(shutdown_req')
             = Cardinality(shutdown_req) - (IF canceled THEN 1 ELSE 0)
        /\ Cardinality(shutdown_req) \in Nat
        /\ Cardinality(ch_due \ {"close_check"}) \in Nat
    <2>1. shutdown_req' = IF canceled THEN shutdown_req \ {c} ELSE shutdown_req
      BY <1>1 DEF ConnCloseCb
    <2>2. c \in shutdown_req =>
             Cardinality(shutdown_req \ {c}) = Cardinality(shutdown_req) - 1
      BY <1>2, ConnsAssumption, Counting
    <2>3. /\ Cardinality(shutdown_req) \in Nat
          /\ Cardinality(ch_due \ {"close_check"}) \in Nat
      BY <1>2, OutstandingParts
    <2>4. QED
      BY <2>1, <2>2, <2>3
  <1>5. /\ closing_tasks' = closing_tasks + (IF closing
                               THEN (IF canceled THEN -2 ELSE -1) ELSE 0)
        /\ closing' = closing
    BY <1>1 DEF ConnCloseCb, Count
  <1>6. /\ Outstanding' = Outstanding - 1 - (IF canceled THEN 1 ELSE 0)
        /\ Outstanding \in Int
    BY <1>3, <1>4 DEF Outstanding, chVars
  <1>7. Outstanding' >= 0
    <2>1. /\ due' \subseteq Handles /\ shutdown_req' \subseteq Conns
          /\ ch_due' \ {"close_check"} \subseteq ChirpHandles
      BY <1>1, <1>2 DEF ConnCloseCb, chVars
    <2>2. QED
      BY <2>1, OutstandingParts DEF Outstanding
  <1>8. due # {}
    BY <1>1 DEF ConnCloseCb
  <1> HIDE DEF canceled
  <1>9. QED
    BY <1>2, <1>5, <1>6, <1>7, <1>8 DEF TasksOK, NoLostTask, Exact

(* A rejected stream is closed without a task.                             *)
LEMMA AcceptTasks ==
    ASSUME IInv, TasksOK, NEW c \in Conns, AcceptStep(c)
    PROVE  TasksOK'
  <1> USE HandlesDiffer
  <1>1. /\ UNCHANGED <<closing, closing_tasks, shutdown_req, ch_due>>
        /\ \/ due' = due
           \/ due' = due \cup {Client(c)} /\ ~Punctual
    BY DEF AcceptStep, Accept, NewConnection, RejectConnection, FailInit, chVars,
           Punctual
  <1>2. /\ Cardinality(due) \in Nat /\ Cardinality(shutdown_req) \in Nat
        /\ Cardinality(ch_due \ {"close_check"}) \in Nat
        /\ closing_tasks \in Int
    BY OutstandingParts DEF IInv, TypeOK, ConnTypeOK
  <1>3. Cardinality(due') \in Nat /\ Cardinality(due') >= Cardinality(due)
    <2>1. due \in SUBSET Handles
      BY DEF IInv, TypeOK, ConnTypeOK
    <2>2. CASE Client(c) \in due
      <3>1. due' = due
        BY <1>1, <2>2
      <3>2. QED
        BY <1>2, <3>1
    <2>3. CASE Client(c) \notin due
      BY <1>1, <1>2, <2>1, <2>3, HandlesFinite, Counting
    <2>4. QED
      BY <2>2, <2>3
  <1>4. QED
    BY <1>1, <1>2, <1>3 DEF TasksOK, NoLostTask, Outstanding, Exact

LEMMA HandlerTasks ==
    ASSUME IInv, TasksOK, NEW c \in Conns, HandlerStep(c)
    PROVE  TasksOK'
  <1>1. ConnStep(c) /\ UNCHANGED chVars
    BY DEF HandlerStep
  <1>2. CASE UNCHANGED <<closing, closing_tasks, due, shutdown_req>>
    BY <1>1, <1>2 DEF TasksOK, NoLostTask, Outstanding, Exact, chVars
  <1>3. CASE \E k \in Keys : Handshake(c, k)
    BY <1>2, <1>3 DEF Handshake, uvVars
  <1>4. CASE FailHandshake(c) \/ ShutdownConnection(c)
    BY <1>1, <1>4, ShutdownOneTasks
  <1>5. CASE ShutdownDone(c)
    BY <1>1, <1>5, CloseHandlesTasks DEF ShutdownDone
  <1>6. CASE ShutdownTimedOut(c)
    <2>1. Client(c) \in opened /\ ~Punctual
      BY <1>6 DEF ShutdownTimedOut, IInv, HandlesOK, Punctual
    <2>2. QED
      BY <1>1, <1>6, <2>1, CloseHandlesTasks DEF ShutdownTimedOut
  <1>7. CASE CloseClientCb(c) \/ CloseTimeoutCb(c)
    BY <1>1, <1>7, CloseCbTasks
  <1>8. CASE LookupFreed(c) \/ CallbackAfterFree(c)
    BY <1>2, <1>8 DEF LookupFreed, CallbackAfterFree, Crash, uvVars
  <1>9. QED
    BY <1>1, <1>3, <1>4, <1>5, <1>6, <1>7, <1>8 DEF ConnStep

(* The close callback of the instance counts the connections and three     *)
(* handles of its own.                                                     *)
LEMMA CloseAsyncTasks ==
    ASSUME IInv, StopOrder, TasksOK, CloseAsyncCb
    PROVE  TasksOK'
  <1>1. PICK visited \in Visited(connections) :
            \E dead \in MayBeDead(visited \cup old_connections) :
               /\ Shutdown(visited \cup old_connections, dead)
               /\ closing_tasks' = closing_tasks + Cardinality(
                     Started(visited \cup old_connections, dead)) + StopTasks
    BY Zenon DEF CloseAsyncCb
  <1> DEFINE all == visited \cup old_connections
  <1>2. PICK dead : /\ Shutdown(all, dead)
                    /\ closing_tasks' = closing_tasks
                          + Cardinality(Started(all, dead)) + StopTasks
    BY <1>1
  <1>3. all \in SUBSET Conns
    BY DEF Visited, IInv, TypeOK, ConnTypeOK
  <1> HIDE DEF all
  <1>4. /\ Cardinality(shutdown_req')
             = Cardinality(shutdown_req) + Cardinality(Started(all, dead))
        /\ Cardinality(Started(all, dead)) \in Nat
    BY <1>2, <1>3, ShutdownTasks
  <1>5. closing /\ ch_due = {} /\ ch_due' = ch_due \cup ClosedHandles
        /\ UNCHANGED <<closing, due>>
    BY DEF CloseAsyncCb, StopOrder
  <1>6. /\ Cardinality(due) \in Nat /\ Cardinality(shutdown_req) \in Nat
        /\ closing_tasks \in Int
    BY OutstandingParts DEF IInv, TypeOK, ConnTypeOK
  <1>7. /\ Cardinality(ch_due \ {"close_check"}) = 0
        /\ Cardinality(ch_due' \ {"close_check"}) = 3
    <2> DEFINE A == {"serverv4"}
               B == A \cup {"serverv6"}
    <2>1. /\ ch_due \ {"close_check"} = {}
          /\ ch_due' \ {"close_check"} = B \cup {"close"}
      BY <1>5 DEF ClosedHandles
    <2>2. Cardinality(A) = 1 /\ A \in SUBSET ChirpHandles
      BY FS_Singleton DEF ChirpHandles
    <2>3. "serverv6" \notin A /\ B \in SUBSET ChirpHandles /\ "close" \notin B
      BY DEF ChirpHandles
    <2> HIDE DEF A
    <2>4. Cardinality(B) = 2
      BY <2>2, <2>3, HandlesFinite, Counting
    <2> HIDE DEF B
    <2>5. Cardinality(B \cup {"close"}) = 3
      BY <2>3, <2>4, HandlesFinite, Counting
    <2>6. QED
      BY <2>1, <2>5, FS_EmptySet
  <1>8. QED
    BY <1>2, <1>4, <1>5, <1>6, <1>7 DEF StopTasks, TasksOK, NoLostTask,
                                        Outstanding, Exact

LEMMA InstanceTasks ==
    ASSUME IInv, StopOrder, TasksOK,
           \/ CloseTs \/ Prepare \/ ClosingDownCb \/ NextPhase
           \/ \E h \in ChirpHandles : ChirpCloseCb(h)
           \/ UNCHANGED vars
    PROVE  TasksOK'
  <1>1. /\ Cardinality(due) \in Nat /\ Cardinality(shutdown_req) \in Nat
        /\ Cardinality(ch_due \ {"close_check"}) \in Nat
        /\ closing_tasks \in Int
        /\ ch_due \subseteq ChirpHandles
    BY OutstandingParts DEF IInv, TypeOK, ConnTypeOK
  <1>2. UNCHANGED <<due, shutdown_req>>
    BY DEF CloseTs, Prepare, ClosingDownCb, NextPhase, ChirpCloseCb,
           cnVars, uvVars, vars
  <1>3. CASE CloseTs
    <2>1. /\ ~closing /\ closing' /\ closing_tasks' = closing_tasks
          /\ UNCHANGED <<due, shutdown_req, ch_due>>
      BY <1>3 DEF CloseTs, cnVars, uvVars
    <2>2. Punctual => Outstanding' = 0 /\ closing_tasks = 0
      <3>1. Punctual => /\ ch_due' \ {"close_check"} = {} /\ due' = {}
                        /\ shutdown_req' = {} /\ closing_tasks = 0
        BY <2>1 DEF TasksOK, Exact
      <3>2. QED
        BY <3>1, FS_EmptySet DEF Outstanding
    <2>3. NoLostTask'
      BY <2>1 DEF TasksOK, NoLostTask, Outstanding
    <2>4. QED
      BY <2>1, <2>2, <2>3 DEF TasksOK, Exact
  <1>4. CASE Prepare \/ ClosingDownCb \/ NextPhase \/ UNCHANGED vars
    <2>1. /\ ch_due' \ {"close_check"} = ch_due \ {"close_check"}
          /\ UNCHANGED <<closing, closing_tasks>>
      BY <1>4 DEF Prepare, ClosingDownCb, NextPhase, cnVars, chVars, vars
    <2>2. Outstanding' = Outstanding
      BY <1>2, <2>1 DEF Outstanding
    <2>3. ~closing /\ ch_due = {} => ch_due' = {}
      BY <1>4 DEF Prepare, ClosingDownCb, NextPhase, StopOrder, chVars, vars
    <2>4. QED
      BY <1>2, <2>1, <2>2, <2>3 DEF TasksOK, NoLostTask, Exact
  <1>5. ASSUME NEW h \in ChirpHandles, ChirpCloseCb(h) PROVE TasksOK'
    <2> DEFINE D == ch_due \ {"close_check"}
    <2>1. h \in D /\ ch_due' \ {"close_check"} = D \ {h}
          /\ closing_tasks' = closing_tasks - 1 /\ closing' = closing /\ closing
      BY <1>5 DEF ChirpCloseCb, StopOrder
    <2>2. D \in SUBSET ChirpHandles
      BY <1>1
    <2>3. Outstanding = Cardinality(D) + Cardinality(due) + Cardinality(shutdown_req)
      BY DEF Outstanding
    <2>4. Outstanding' = Cardinality(D \ {h}) + Cardinality(due)
                         + Cardinality(shutdown_req)
      BY <1>2, <2>1 DEF Outstanding
    <2> HIDE DEF D
    <2>5. Cardinality(D \ {h}) = Cardinality(D) - 1 /\ Cardinality(D) \in Nat
      BY <2>1, <2>2, HandlesFinite, Counting
    <2>6. QED
      BY <1>1, <2>1, <2>3, <2>4, <2>5 DEF TasksOK, NoLostTask, Exact
  <1>6. QED
    BY <1>3, <1>4, <1>5

LEMMA NextTasksOK == IInv /\ StopOrder /\ TasksOK /\ [Next]_vars => TasksOK'
  <1> SUFFICES ASSUME IInv, StopOrder, TasksOK, [Next]_vars PROVE TasksOK'
    OBVIOUS
  <1>1. CASE CloseAsyncCb
    BY <1>1, CloseAsyncTasks
  <1>2. CASE StopFreed \/ AssertionFails \/ Crashed
    BY <1>2 DEF StopFreed, AssertionFails, Crashed, Crash, vars, chVars, uvVars,
                TasksOK, NoLostTask, Outstanding, Exact
  <1>3. CASE \E c \in Conns : AcceptStep(c) \/ HandlerStep(c)
    BY <1>3, AcceptTasks, HandlerTasks
  <1>4. CASE \/ CloseTs \/ Prepare \/ ClosingDownCb \/ NextPhase
             \/ \E h \in ChirpHandles : ChirpCloseCb(h)
             \/ UNCHANGED vars
    BY <1>4, InstanceTasks
  <1>5. QED
    BY <1>1, <1>2, <1>3, <1>4 DEF Next

LEMMA TasksInvariance == Spec => [](IInv /\ StopOrder /\ TasksOK)
  <1>1. Init => StopOrder /\ TasksOK
    BY InitStopOrder, InitTasksOK
  <1>2. TypeOK /\ StopOrder /\ [Next]_vars => StopOrder'
    BY NextStopOrder
  <1>3. IInv /\ StopOrder /\ TasksOK /\ [Next]_vars => TasksOK'
    BY NextTasksOK
  <1>4. QED
    BY <1>1, <1>2, <1>3, Invariance, TypeCorrect, PTL DEF Spec

(* The closing semaphore never counts a callback that will not come: when  *)
(* the last callback has been called it is zero or less, so the prepare    *)
(* handle never waits for ever.  This holds with stalled peers, shutdowns  *)
(* older than the close, and refused ones.                                 *)
THEOREM NoTaskIsLost == Spec => []NoLostTask
  <1>1. TasksOK => NoLostTask
    BY DEF TasksOK
  <1>2. QED
    BY <1>1, TasksInvariance, PTL

(* The rule in the comment of _ch_chirp_close_async_cb(): while chirp      *)
(* closes the semaphore is exactly the number of callbacks that are still  *)
(* to come.  Connections may be dead, reconnect and greet whenever they    *)
(* like; what breaks the count is a connection that is not initialised, a  *)
(* shutdown that begins before the close, and one that times out.          *)
THEOREM SemaphoreIsExact ==
    ASSUME Punctual
    PROVE  Spec => []ExactSemaphore
  <1>1. StopOrder /\ TasksOK => ExactSemaphore
    BY DEF StopOrder, TasksOK, Exact, ExactSemaphore
  <1>2. QED
    BY <1>1, TasksInvariance, PTL

-----------------------------------------------------------------------------
(* A quiet close: at most three remotes, each of them connected once, and  *)
(* nothing that the closing semaphore does not count.                      *)
Quiet ==
    /\ Env \subseteq {"dead", "late"}
    /\ IsFiniteSet(Keys)
    /\ Cardinality(Keys) <= IteratorSafe

(* Every connection that has greeted is found in the dictionary, under the *)
(* key of a remote, until somebody shuts it down.                          *)
Known ==
    /\ old_connections = {}
    /\ \A c \in connections : remote[c] \in Keys
    /\ \A c \in Conns \ greeted : remote[c] = NoKey
    /\ \A c \in greeted \ shutting : c \in connections

(* Once the close callback of the instance has run every open connection   *)
(* is shutting down, and once the prepare handle has seen the semaphore    *)
(* clear no callback is left.                                              *)
Stopped == "close_check" \in ch_opened \cup ch_due \/ ichirp = "freed"
Cleared == "close_check" \in ch_due \/ ichirp = "freed"

Down ==
    /\ Stopped => \A c \in Conns : Client(c) \in opened => c \in shutting
    /\ Cleared => due = {} /\ shutdown_req = {}

QuietInv == IInv /\ StopOrder /\ DictionaryOK /\ TasksOK /\ Known /\ Down

LEMMA QuietIsPunctual == Quiet => Punctual
  BY DEF Quiet, Punctual

LEMMA InitQuiet == Init => Known /\ Down
  BY DEF Init, ConnInit, Known, Down, Stopped, Cleared

(* The connections in the dictionary have different remotes, so there are  *)
(* few enough of them for sglib's iterator to return them all.             *)
LEMMA AllVisited ==
    ASSUME Quiet, QuietInv
    PROVE  Visited(connections) = {connections}
  <1> DEFINE f == [c \in connections |-> remote[c]]
  <1>1. f \in Injection(connections, Keys)
    BY DEF QuietInv, Known, DictionaryOK, OneConnectionPerKey, Injection, IsInjective
  <1>2. Cardinality(connections) <= Cardinality(Keys)
    BY <1>1, FS_Injection DEF Quiet
  <1>3. Cardinality(connections) \in Nat /\ Cardinality(Keys) \in Nat
    BY OutstandingParts, FS_CardinalityType DEF Quiet, QuietInv, IInv, TypeOK,
       ConnTypeOK
  <1>4. QED
    BY <1>2, <1>3 DEF Quiet, Visited, IteratorSafe

(* The blind delete of a shutdown finds nothing but the connection itself. *)
LEMMA ForgottenOwn ==
    ASSUME QuietInv, NEW c \in Conns
    PROVE  Forgotten({c}) \subseteq {c}
  BY KeysAssumption DEF QuietInv, Known, DictionaryOK, OneConnectionPerKey, Forgotten

LEMMA ShutdownOneKnown ==
    ASSUME QuietInv, NEW c \in Conns, FailHandshake(c) \/ ShutdownConnection(c)
    PROVE  Known'
  <1>1. PICK dead : Shutdown({c}, dead)
    BY Zenon DEF FailHandshake, ShutdownConnection
  <1>2. /\ UNCHANGED <<old_connections, remote>>
        /\ greeted' = greeted \/ greeted' = greeted \cup {c}
    BY DEF FailHandshake, ShutdownConnection
  <1>3. /\ connections' \subseteq connections
        /\ connections \ {c} \subseteq connections'
        /\ shutting' = shutting \cup {c}
    BY <1>1, ForgottenOwn DEF Shutdown
  <1>4. QED
    BY <1>2, <1>3 DEF QuietInv, Known

LEMMA CloseAsyncKnown ==
    ASSUME Quiet, QuietInv, CloseAsyncCb
    PROVE  /\ Known'
           /\ shutting' = shutting \cup connections
           /\ ch_due' = ClosedHandles
  <1>1. PICK visited \in Visited(connections) :
            \E dead \in MayBeDead(visited \cup old_connections) :
               Shutdown(visited \cup old_connections, dead)
    BY Zenon DEF CloseAsyncCb
  <1>2. visited \cup old_connections = connections
    BY AllVisited DEF QuietInv, Known
  <1>3. connections' \subseteq connections /\ shutting' = shutting \cup connections
    BY <1>1, <1>2 DEF Shutdown
  <1>4. old_connections' = {} /\ UNCHANGED <<greeted, remote>>
    BY DEF CloseAsyncCb
  <1>5. ch_due' = ClosedHandles
    BY DEF CloseAsyncCb, QuietInv, StopOrder
  <1>6. QED
    BY <1>3, <1>4, <1>5 DEF QuietInv, Known

LEMMA NextKnown == Quiet /\ QuietInv /\ [Next]_vars => Known'
  <1> SUFFICES ASSUME Quiet, QuietInv, [Next]_vars PROVE Known'
    OBVIOUS
  <1>1. CASE CloseAsyncCb
    BY <1>1, CloseAsyncKnown
  <1>2. CASE UNCHANGED <<dictVars, remote, greeted, shutting>>
    BY <1>2 DEF QuietInv, Known, dictVars
  <1>3. ASSUME NEW c \in Conns, AcceptStep(c) \/ HandlerStep(c)
        PROVE  Known'
    <2>1. CASE FailHandshake(c) \/ ShutdownConnection(c)
      BY <2>1, ShutdownOneKnown
    <2>2. ASSUME NEW k \in Keys, Handshake(c, k) PROVE Known'
      <3>1. Replaced(k) = {}
        BY <2>2 DEF Handshake, Quiet
      <3>2. /\ connections' = connections \cup {c} /\ old_connections' = {}
            /\ greeted' = greeted \cup {c} /\ shutting' = shutting
            /\ remote' = [remote EXCEPT ![c] = k]
        BY <2>2, <3>1 DEF Handshake, QuietInv, Known
      <3>3. remote \in [Conns -> Keys \cup {NoKey}] /\ connections \subseteq Conns
        BY DEF QuietInv, IInv, TypeOK, ConnTypeOK
      <3>4. QED
        BY <3>2, <3>3 DEF QuietInv, Known
    <2>3. CASE AcceptStep(c)
      BY <1>2, <2>3 DEF AcceptStep, Accept, NewConnection, RejectConnection,
                        FailInit
    <2>4. CASE /\ ConnStep(c)
               /\ ~FailHandshake(c) /\ ~ShutdownConnection(c)
               /\ ~(\E k \in Keys : Handshake(c, k))
      BY <1>2, <2>4 DEF ConnStep, ShutdownDone, ShutdownTimedOut, CloseClientCb,
                        CloseTimeoutCb, ConnCloseCb, LookupFreed,
                        CallbackAfterFree, Crash, connVars
    <2>5. QED
      BY <1>3, <2>1, <2>2, <2>3, <2>4 DEF HandlerStep
  <1>4. CASE \/ CloseTs \/ StopFreed \/ Prepare
             \/ AssertionFails \/ ClosingDownCb \/ NextPhase \/ Crashed
             \/ \E h \in ChirpHandles : ChirpCloseCb(h)
             \/ UNCHANGED vars
    BY <1>2, <1>4 DEF CloseTs, StopFreed, Prepare, AssertionFails,
                      ClosingDownCb, NextPhase, Crashed, ChirpCloseCb, Crash,
                      vars, cnVars, connVars
  <1>5. QED
    BY <1>1, <1>3, <1>4 DEF Next

-----------------------------------------------------------------------------
(* After the close callback nothing is left that could begin: a stream     *)
(* that is open is shutting down, and the servers are closed.              *)

LEMMA HandlerDown ==
    ASSUME Quiet, QuietInv, NEW c \in Conns, HandlerStep(c)
    PROVE  Down'
  <1> USE HandlesDiffer
  <1>1. /\ opened' \subseteq opened /\ shutting \subseteq shutting'
        /\ UNCHANGED <<ichirp, chVars>>
    BY DEF HandlerStep, ConnStep, Handshake, FailHandshake, ShutdownConnection,
           ShutdownDone, ShutdownTimedOut, CloseHandles, CloseClientCb,
           CloseTimeoutCb, ConnCloseCb, LookupFreed, CallbackAfterFree, Crash,
           Shutdown, uvVars, connVars
  <1>2. (Stopped' => Stopped) /\ (Cleared' => Cleared)
    BY <1>1 DEF Stopped, Cleared, chVars
  <1>3. CASE ~Cleared
    BY <1>1, <1>2, <1>3 DEF QuietInv, Down
  <1>4. CASE Cleared
    <2>1. due = {} /\ shutdown_req = {}
      BY <1>4 DEF QuietInv, Down
    <2>2. Client(c) \in opened => c \in shutting
      BY <1>4 DEF QuietInv, Down, Stopped, Cleared
    <2>3. due' = due
      BY <2>1 DEF HandlerStep, ConnStep, Handshake, FailHandshake,
           ShutdownConnection, ShutdownDone, ShutdownTimedOut, Quiet,
           CloseClientCb, CloseTimeoutCb, ConnCloseCb, LookupFreed,
           CallbackAfterFree, Crash, uvVars
    <2>4. shutdown_req' = shutdown_req
      <3>1. CASE FailHandshake(c) \/ ShutdownConnection(c)
        <4>1. PICK dead : Shutdown({c}, dead)
          BY Zenon, <3>1 DEF FailHandshake, ShutdownConnection
        <4>2. c \in shutting
          BY <2>2, <3>1 DEF FailHandshake, ShutdownConnection
        <4>3. QED
          BY <4>1, <4>2 DEF Shutdown, Started
      <3>2. CASE ~FailHandshake(c) /\ ~ShutdownConnection(c)
        BY <2>1, <3>2 DEF HandlerStep, ConnStep, Handshake, ShutdownDone,
             ShutdownTimedOut, Quiet, CloseClientCb, CloseTimeoutCb, ConnCloseCb,
             LookupFreed, CallbackAfterFree, Crash, uvVars
      <3>3. QED
        BY <3>1, <3>2
    <2>5. QED
      BY <1>1, <1>2, <2>1, <2>3, <2>4 DEF QuietInv, Down
  <1>5. QED
    BY <1>3, <1>4

(* The close callback finds no handshake under way, and shuts down every   *)
(* connection that has greeted.                                            *)
LEMMA CloseAsyncDown ==
    ASSUME Quiet, QuietInv, CloseAsyncCb
    PROVE  Down'
  <1>1. \A c \in Conns : Client(c) \in opened => c \in greeted \cup shutting
    BY DEF CloseAsyncCb, MayStop, Quiet
  <1>2. \A c \in Conns : Client(c) \in opened => c \in shutting \cup connections
    BY <1>1 DEF QuietInv, Known
  <1>3. /\ shutting' = shutting \cup connections
        /\ ch_due' = ClosedHandles
        /\ opened' = opened /\ ichirp' = "open"
    BY CloseAsyncKnown DEF CloseAsyncCb, Running
  <1>4. ~Cleared'
    BY <1>3 DEF Cleared, ClosedHandles
  <1>5. QED
    BY <1>2, <1>3, <1>4 DEF Down, Client

(* When the prepare handle finds the semaphore clear there is nothing that *)
(* it should have counted.                                                 *)
LEMMA PrepareDown ==
    ASSUME Quiet, QuietInv, Prepare
    PROVE  Down'
  <1>1. UNCHANGED <<ichirp, opened, shutting, due, shutdown_req>>
    BY DEF Prepare, cnVars, connVars, uvVars
  <1>2. CASE "close_check" \in ch_opened /\ SemaphoreClear
    <2>1. closing_tasks = Outstanding /\ closing_tasks < 1
      BY <1>2, QuietIsPunctual DEF SemaphoreClear, QuietInv, StopOrder, TasksOK, Exact
    <2>2. /\ due \in SUBSET Handles /\ shutdown_req \in SUBSET Conns
          /\ ch_due \ {"close_check"} \in SUBSET ChirpHandles
      BY DEF QuietInv, IInv, TypeOK, ConnTypeOK
    <2>3. Cardinality(due) = 0 /\ Cardinality(shutdown_req) = 0
      BY <2>1, <2>2, OutstandingParts DEF Outstanding
    <2>4. due = {} /\ shutdown_req = {}
      BY <2>2, <2>3, HandlesFinite, ConnsAssumption, FS_Subset, FS_EmptySet
    <2>5. Stopped
      BY <1>2 DEF Stopped
    <2>6. QED
      BY <1>1, <2>4, <2>5 DEF QuietInv, Down, Client
  <1>3. CASE ~("close_check" \in ch_opened /\ SemaphoreClear)
    <2>1. UNCHANGED <<ch_opened, ch_due>>
      BY <1>3 DEF Prepare
    <2>2. QED
      BY <1>1, <2>1 DEF QuietInv, Down, Stopped, Cleared, Client
  <1>4. QED
    BY <1>2, <1>3

LEMMA NextDown == Quiet /\ QuietInv /\ [Next]_vars => Down'
  <1> SUFFICES ASSUME Quiet, QuietInv, [Next]_vars PROVE Down'
    OBVIOUS
  <1>1. CASE CloseAsyncCb
    BY <1>1, CloseAsyncDown
  <1>2. CASE Prepare
    BY <1>2, PrepareDown
  <1>3. ASSUME NEW c \in Conns, AcceptStep(c) PROVE Down'
    <2>1. ~Stopped
      BY <1>3 DEF AcceptStep, Accept, NewConnection, RejectConnection, FailInit,
                  Running, Stopped, QuietInv, StopOrder
    <2>2. UNCHANGED <<ichirp, chVars>>
      BY <1>3 DEF AcceptStep, Accept, NewConnection, RejectConnection, FailInit
    <2>3. QED
      BY <2>1, <2>2 DEF Down, Stopped, Cleared, chVars
  <1>4. CASE \E c \in Conns : HandlerStep(c)
    BY <1>4, HandlerDown
  <1>5. CASE \/ CloseTs \/ StopFreed \/ AssertionFails \/ ClosingDownCb
             \/ NextPhase \/ Crashed
             \/ \E h \in ChirpHandles : ChirpCloseCb(h)
             \/ UNCHANGED vars
    <2>1. UNCHANGED <<opened, shutting, due, shutdown_req>>
      BY <1>5 DEF CloseTs, StopFreed, AssertionFails, ClosingDownCb, NextPhase,
                  Crashed, ChirpCloseCb, Crash, vars, cnVars, connVars, uvVars
    <2>2. (Stopped' => Stopped) /\ (Cleared' => Cleared)
      BY <1>5 DEF CloseTs, StopFreed, AssertionFails, ClosingDownCb, NextPhase,
                  Crashed, ChirpCloseCb, Crash, vars, chVars, Stopped, Cleared
    <2>3. QED
      BY <2>1, <2>2 DEF QuietInv, Down, Client
  <1>6. QED
    BY <1>1, <1>2, <1>3, <1>4, <1>5 DEF Next

LEMMA QuietInvariance == ASSUME Quiet PROVE Spec => []QuietInv
  <1>1. Init => Known /\ Down
    BY InitQuiet
  <1>2. QuietInv /\ [Next]_vars => Known' /\ Down'
    BY NextKnown, NextDown
  <1>3. IInv /\ StopOrder /\ TasksOK /\ DictionaryOK /\ Known /\ Down <=> QuietInv
    BY DEF QuietInv
  <1>4. (IInv /\ StopOrder /\ TasksOK /\ DictionaryOK)' /\ Known' /\ Down'
        <=> QuietInv'
    BY DEF QuietInv
  <1>5. QED
    BY <1>1, <1>2, <1>3, <1>4, TasksInvariance, DictionaryInvariance, PTL DEF Spec

(* "if we reach 0 all callbacks are done and we continue freeing memory"   *)
(* (chirp.c:237): a quiet close frees the instance after the last of them. *)
THEOREM QuietFreedWhenDone ==
    ASSUME Quiet
    PROVE  Spec => []FreedWhenDone
  <1>1. QuietInv => FreedWhenDone
    <2>1. ASSUME QuietInv, ichirp = "freed"
          PROVE  /\ due = {} /\ shutdown_req = {} /\ ch_due \ {"close_check"} = {}
      BY <2>1 DEF QuietInv, Down, Cleared, StopOrder
    <2>2. QED
      BY <2>1, FS_EmptySet DEF FreedWhenDone, Outstanding
  <1>2. QED
    BY <1>1, QuietInvariance, PTL

(* A quiet close implements the barrier: to the users of the instance the  *)
(* memory is freed in a step of its own, in which no callback is pending,  *)
(* and none is scheduled afterwards.                                       *)
LEMMA BarrierInit == Init => Barrier!Init
  BY DEF Init, ConnInit, Barrier!Init

(* As long as the instance exists a step that neither requests the close   *)
(* nor frees it only schedules and calls callbacks.                        *)
LEMMA BarrierWork ==
    ASSUME TypeOK, TypeOK', ichirp = "open", UNCHANGED <<ichirp, closing>>
    PROVE  Barrier!Work
  <1>1. /\ due' \subseteq Handles /\ shutdown_req' \subseteq Conns
        /\ ch_due' \subseteq ChirpHandles
    BY DEF TypeOK, ConnTypeOK
  <1>2. QED
    BY <1>1 DEF Barrier!Work

(* After that the callbacks of the instance are over.                      *)
LEMMA BarrierStutter ==
    ASSUME UNCHANGED <<ichirp, closing, due, shutdown_req>>,
           ch_due' \ {"close_check"} = ch_due \ {"close_check"}
    PROVE  UNCHANGED <<IF ichirp = "freed" THEN "freed"
                       ELSE IF closing THEN "closing" ELSE "open",
                       due \cup ({"shutdown_req"} \X shutdown_req)
                       \cup ((ch_due \ {"close_check"}) \X {"ichirp"})>>
  OBVIOUS

LEMMA BarrierStep ==
    ASSUME Quiet, QuietInv, TypeOK', [Next]_vars
    PROVE  [Barrier!Next]_<<IF ichirp = "freed" THEN "freed"
                            ELSE IF closing THEN "closing" ELSE "open",
                            due \cup ({"shutdown_req"} \X shutdown_req)
                            \cup ((ch_due \ {"close_check"}) \X {"ichirp"})>>
  <1> TypeOK
    BY DEF QuietInv, IInv
  <1>1. CASE CloseTs
    <2>1. /\ ichirp = "open" /\ ichirp' = "open" /\ ~closing /\ closing'
          /\ UNCHANGED <<due, shutdown_req, ch_due>>
      BY <1>1 DEF CloseTs, Running, cnVars, uvVars
    <2>2. Barrier!Request
      BY <2>1 DEF Barrier!Request
    <2>3. QED
      BY <2>2 DEF Barrier!Next
  <1>2. CASE ClosingDownCb
    <2>1. /\ ichirp = "open" /\ ichirp' = "freed" /\ closing
          /\ UNCHANGED <<closing, due, shutdown_req>>
          /\ ch_due = {"close_check"} /\ ch_due' = {}
      BY <1>2 DEF ClosingDownCb, Running, cnVars, uvVars, QuietInv, StopOrder
    <2>2. due = {} /\ shutdown_req = {}
      BY <1>2 DEF ClosingDownCb, QuietInv, Down, Cleared
    <2>3. Barrier!Free
      BY <2>1, <2>2 DEF Barrier!Free
    <2>4. QED
      BY <2>3 DEF Barrier!Next
  <1>3. CASE ~CloseTs /\ ~ClosingDownCb /\ ichirp = "open"
    <2>1. UNCHANGED <<ichirp, closing>>
      BY <1>3 DEF Next, CloseAsyncCb, StopFreed, ChirpCloseCb, Prepare,
           AssertionFails, NextPhase, Crashed, Crash, AcceptStep, Accept,
           NewConnection, RejectConnection, FailInit, HandlerStep, ConnStep,
           Handshake, FailHandshake, ShutdownConnection, ShutdownDone,
           ShutdownTimedOut, CloseClientCb, CloseTimeoutCb, ConnCloseCb,
           LookupFreed, CallbackAfterFree, vars
    <2>2. QED
      BY <1>3, <2>1, BarrierWork DEF Barrier!Next
  <1>4. CASE ichirp = "freed"
    <2>1. "close_check" \notin ch_opened
      BY <1>4 DEF QuietInv, StopOrder
    <2>2. UNCHANGED <<ichirp, closing, due, shutdown_req, ch_due>>
      BY <1>4, <2>1 DEF Next, CloseTs, ClosingDownCb, CloseAsyncCb, StopFreed,
           ChirpCloseCb, Prepare,
           AssertionFails, NextPhase, Crashed, Crash, AcceptStep, Accept,
           NewConnection, RejectConnection, FailInit, HandlerStep, ConnStep,
           Handshake, FailHandshake, ShutdownConnection, ShutdownDone,
           ShutdownTimedOut, CloseClientCb, CloseTimeoutCb, ConnCloseCb,
           LookupFreed, CallbackAfterFree, Running, vars, chVars, cnVars, uvVars
    <2>3. QED
      BY <2>2, BarrierStutter
  <1>5. QED
    BY <1>1, <1>2, <1>3, <1>4 DEF TypeOK, ConnTypeOK

\* ch_chirp_close_ts() among quiet peers frees memory only after all callbacks.
THEOREM QuietCloseIsBarrier ==
    ASSUME Quiet
    PROVE  Spec => BarrierSpec
  <1>1. Init => Barrier!Init
    BY BarrierInit
  <1>2. QuietInv /\ TypeOK' /\ [Next]_vars
        => [Barrier!Next]_<<IF ichirp = "freed" THEN "freed"
                            ELSE IF closing THEN "closing" ELSE "open",
                            due \cup ({"shutdown_req"} \X shutdown_req)
                            \cup ((ch_due \ {"close_check"}) \X {"ichirp"})>>
    BY BarrierStep
  <1>3. QED
    BY <1>1, <1>2, QuietInvariance, TypeCorrect, PTL
       DEF Spec, BarrierSpec, Barrier!Spec

(* What NoFault needs besides a quiet close: in the dictionary there is    *)
(* nothing that is shutting down, so nothing that could be freed.          *)
LEMMA NextNoFault ==
    ASSUME Quiet, "late" \notin Env, QuietInv, NoFault, [Next]_vars
    PROVE  NoFault'
  <1>1. ~Dangling(connections) /\ old_connections = {}
    BY DEF QuietInv, IInv, DictionaryOK, Known, HandlesOK, TypeOK, ConnTypeOK,
           NoCallbackIntoFreed, Dangling
  <1>2. ~Dangling(connections \cup old_connections) /\ ~Dangling(old_connections)
    BY <1>1 DEF Dangling
  <1>3. ~StopFreed /\ \A c \in Conns : ~LookupFreed(c)
    BY <1>1, <1>2 DEF StopFreed, LookupFreed
  <1>4. ~AssertionFails
    <2>1. ASSUME "close_check" \in ch_opened PROVE closing_tasks >= 0
      <3>1. closing_tasks = Outstanding
        BY <2>1, QuietIsPunctual DEF QuietInv, StopOrder, TasksOK, Exact
      <3>2. /\ due \in SUBSET Handles /\ shutdown_req \in SUBSET Conns
            /\ ch_due \ {"close_check"} \in SUBSET ChirpHandles
        BY DEF QuietInv, IInv, TypeOK, ConnTypeOK
      <3>3. QED
        BY <3>1, <3>2, OutstandingParts DEF Outstanding
    <2>2. QED
      BY <2>1 DEF AssertionFails, QuietInv, IInv, TypeOK, ConnTypeOK
  <1>5. ASSUME NEW c \in Conns PROVE ~CallbackAfterFree(c)
    <2>1. SUFFICES ASSUME ichirp = "freed"
                   PROVE  /\ due = {} /\ c \notin shutdown_req
                          /\ Client(c) \in opened => c \in shutting
                          /\ "stall" \notin Env
      BY DEF CallbackAfterFree
    <2>2. QED
      BY <2>1 DEF QuietInv, Down, Stopped, Cleared, Quiet
  <1>6. QED
    BY <1>3, <1>4, <1>5 DEF Next, NoFault, CloseTs, ClosingDownCb, CloseAsyncCb,
       ChirpCloseCb, Prepare, NextPhase, Crashed, AcceptStep, Accept,
       NewConnection, RejectConnection, FailInit, HandlerStep, ConnStep,
       Handshake, FailHandshake, ShutdownConnection, ShutdownDone,
       ShutdownTimedOut, CloseClientCb, CloseTimeoutCb, ConnCloseCb, vars

(* In a quiet close no handler of a stream, of a shutdown, of its timeout  *)
(* or of a close callback uses memory that has been freed, and nothing     *)
(* trips over the assertion of _ch_chirp_check_closing_cb(), unless a      *)
(* handshake arrives late.  The send timer is not among these handlers.    *)
THEOREM QuietCloseIsSafe ==
    ASSUME Quiet, "late" \notin Env
    PROVE  Spec => []NoFault
  <1>1. Init => NoFault
    BY DEF Init, ConnInit, NoFault
  <1>2. QuietInv /\ NoFault /\ [Next]_vars => NoFault'
    BY NextNoFault
  <1>3. QED
    BY <1>1, <1>2, QuietInvariance, PTL DEF Spec
=============================================================================
