--------------------------- MODULE InstancesProof ---------------------------
(***************************************************************************)
(* Theorems about Instances, for any number of instances, threads, starts  *)
(* and configurations.  What concerns handles and OpenSSL holds in every   *)
(* environment.  What rests on the flags of an instance holds as long as   *)
(* calls for one instance do not overlap.                                  *)
(***************************************************************************)
EXTENDS Instances, FiniteSetTheorems, TLAPS

-----------------------------------------------------------------------------
(* The handles of an instance and how far it has come.                     *)

Starting == {"verified", "async", "served", "encrypted"}
Over     == {"stop", "returned", "closed"}

Order(i) ==
    /\ stage[i] \in Starting => loop[i] = "idle"
    /\ stage[i] # "open" => due[i] = {}
    /\ stage[i] \in {"down", "closed"} => handles[i] = {}
    /\ "close_check" \in handles[i] =>
          stage[i] = "open" /\ handles[i] = {"close_check"}
    /\ "close_check" \in due[i] => handles[i] = {} /\ due[i] = {"close_check"}
    /\ loop[i] \in Over => handles[i] = {} /\ due[i] = {}
    /\ i \in instances <=> stage[i] \in {"open", "down"}

RefCountOK == IsFiniteSet(instances) /\ ref_count = Cardinality(instances)

SslOK == OpenSSLInUse /\ IsFiniteSet(UsesOpenSSL) /\ (manual => ssl_up)

CallsOK == \A u \in Users : call[u] = "none" <=> for[u] = NoChirp

IInv ==
    /\ TypeOK
    /\ CallsOK
    /\ \A i \in Chirps : Order(i)
    /\ RefCountOK
    /\ SslOK

LEMMA ConfigFields ==
    ASSUME NEW c \in Configs
    PROVE  /\ c.MAX_HANDLERS \in Nat /\ c.BUFFER_SIZE \in Nat
           /\ c.TIMEOUT \in Nat /\ c.PORT \in Nat
  <1>1. MaxPort \in Nat
    BY DEF MaxPort
  <1>2. QED
    BY <1>1 DEF Configs

LEMMA AcceptedIsUsable ==
    ASSUME NEW c \in Configs, Accepted(c)
    PROVE  Usable(c)
  <1>1. c.MAX_HANDLERS \in Nat /\ c.BUFFER_SIZE \in Nat /\ c.TIMEOUT \in Nat
    BY ConfigFields
  <1>2. c.MAX_HANDLERS \in 1 .. 32
    BY <1>1 DEF Accepted, HandlersFit, HandlersUnbounded
  <1>3. c.BUFFER_SIZE = 0 \/ c.BUFFER_SIZE >= HandshakeSize
    BY <1>1 DEF Accepted, BufferFits
  <1>4. c.TIMEOUT > 0
    BY <1>1 DEF Accepted, TimesFit
  <1>5. QED
    BY <1>2, <1>3, <1>4 DEF Usable

LEMMA DefaultsUsable == Defaults \in Configs /\ Usable(Defaults)
  BY DEF Defaults, Configs, Usable, Files, HandshakeSize, MaxPort

LEMMA InitIInv == Init => IInv
  <1> SUFFICES ASSUME Init PROVE IInv
    OBVIOUS
  <1>1. TypeOK
    <2>1. /\ config \in [Chirps -> Configs]
          /\ \A i \in Chirps : Usable(config[i])
      BY DefaultsUsable DEF Init
    <2>2. starts \in 0 .. MaxStarts
      BY StartsAssumption DEF Init
    <2>3. ssl_up \in BOOLEAN /\ manual \in BOOLEAN /\ asserts \in BOOLEAN
      BY DEF Init
    <2>4. QED
      <3>1. /\ stage \in [Chirps -> Stages]
            /\ error \in [Chirps -> Errors]
            /\ flags \in [Chirps -> SUBSET {"AUTO_STOP", "CLOSING"}]
            /\ loop \in [Chirps -> {"none", "idle", "run", "stop", "returned", "closed"}]
            /\ handles \in [Chirps -> SUBSET Handles]
            /\ due \in [Chirps -> SUBSET Handles]
        BY DEF Init, Stages, Errors
      <3>2. /\ sent \in [Chirps -> BOOLEAN]
            /\ listening \in [Chirps -> SUBSET {"v4", "v6"}]
            /\ peer \in [Chirps -> {"none", "midway", "open", "counted", "closing",
                                    "refused"}]
            /\ timers \subseteq Chirps
            /\ ret \in [Chirps -> 0 .. 1]
            /\ call \in [Users -> {"none", "close", "auto_stop"}]
            /\ for \in [Users -> Chirps \cup {NoChirp}]
            /\ read \in [Users -> SUBSET {"AUTO_STOP", "CLOSING"}]
        BY DEF Init
      <3>3. QED
        BY <2>1, <2>2, <2>3, <3>1, <3>2 DEF Init, TypeOK
  <1>2. \A i \in Chirps : Order(i)
    BY DEF Init, Order, Starting, Over
  <1>3. RefCountOK
    BY FS_EmptySet DEF Init, RefCountOK
  <1>4. UsesOpenSSL = {}
    BY DEF Init, UsesOpenSSL
  <1>5. SslOK
    BY <1>4, FS_EmptySet DEF Init, SslOK, OpenSSLInUse
  <1>6. CallsOK
    BY DEF Init, CallsOK
  <1>7. QED
    BY <1>1, <1>2, <1>3, <1>5, <1>6 DEF IInv

-----------------------------------------------------------------------------
(* Types.                                                                  *)

LEMMA InitStepType ==
    ASSUME IInv, NEW i \in Chirps, InitStep(i)
    PROVE  TypeOK'
  <1>1. ASSUME NEW c \in Offered, Start(i, c) PROVE TypeOK'
    <2>1. c \in Configs /\ (Accepted(c) => Usable(c))
      BY OfferedAssumption, AcceptedIsUsable
    <2>2. /\ config' \in [Chirps -> Configs]
          /\ \A j \in Chirps : Usable(config'[j])
      BY <1>1, <2>1 DEF Start, IInv, TypeOK
    <2>3. lost_ports' \subseteq Nat \X {"v4", "v6"}
      <3>1. config[i].PORT \in Nat /\ listening[i] \subseteq {"v4", "v6"}
        <4>1. config[i] \in Configs /\ listening[i] \subseteq {"v4", "v6"}
          BY DEF IInv, TypeOK
        <4>2. config[i].PORT \in Nat
          BY <4>1, ConfigFields
        <4>3. QED
          BY <4>1, <4>2
      <3>2. QED
        BY <1>1, <3>1 DEF Start, IInv, TypeOK
    <2>4. stage' \in [Chirps -> Stages] /\ error' \in [Chirps -> Errors]
      BY <1>1 DEF Start, Reach, Fail, Stages, Errors, IInv, TypeOK
    <2>5. starts' \in 0 .. MaxStarts
      BY <1>1, StartsAssumption DEF Start, IInv, TypeOK
    <2>6. QED
      BY <1>1, <2>2, <2>3, <2>4, <2>5
         DEF Start, buildVars, treeVars, threadVars, IInv, TypeOK
  <1>2. CASE InitAsync(i)
    BY <1>2 DEF InitAsync, Reach, Fail, Stages, Errors, Handles, buildVars, peerVars,
                sslVars, treeVars, threadVars, IInv, TypeOK
  <1>3. CASE PrStart(i)
    <2>1. Served(i) \subseteq {"v4", "v6"}
      BY DEF Served
    <2>2. listening' \in [Chirps -> SUBSET {"v4", "v6"}]
          /\ handles' \in [Chirps -> SUBSET Handles]
      BY <1>3, <2>1 DEF PrStart, Handles, IInv, TypeOK
    <2>3. stage' \in [Chirps -> Stages] /\ error' \in [Chirps -> Errors]
      BY <1>3 DEF PrStart, Reach, Fail, Stages, Errors, IInv, TypeOK
    <2>4. QED
      BY <1>3, <2>2, <2>3 DEF PrStart, buildVars, sslVars, treeVars, threadVars,
                              peerVars, IInv, TypeOK
  <1>4. CASE EnStart(i)
    BY <1>4 DEF EnStart, Reach, Fail, Stages, Errors, buildVars, treeVars,
                loopVars, peerVars, threadVars, IInv, TypeOK
  <1>5. CASE Register(i)
    <2>1. sig_init' \in BOOLEAN
      BY <1>5, Zenon DEF Register, IInv, TypeOK
    <2>2. ref_count' \in Nat
      BY <1>5 DEF Register, IInv, TypeOK
    <2>3. QED
      BY <1>5, <2>1, <2>2 DEF Register, Reach, Stages, Errors, buildVars, sslVars,
                              loopVars, peerVars, threadVars, IInv, TypeOK
  <1>6. QED
    BY <1>1, <1>2, <1>3, <1>4, <1>5 DEF InitStep

LEMMA UserStepType ==
    ASSUME IInv, NEW u \in Users, UserStep(u)
    PROVE  TypeOK'
  <1>1. ASSUME NEW i \in Chirps, NEW what \in {"close", "auto_stop"},
               Call(u, i, what)
        PROVE  TypeOK'
    BY <1>1 DEF Call, sslVars, buildVars, treeVars, startVars, loopVars, peerVars,
                IInv, TypeOK
  <1>2. CASE CloseTs(u) \/ SetAutoStop(u)
    <2>1. for[u] \in Chirps /\ read[u] \subseteq {"AUTO_STOP", "CLOSING"}
      BY <1>2 DEF CloseTs, SetAutoStop, IInv, TypeOK, CallsOK
    <2>2. /\ flags' \in [Chirps -> SUBSET {"AUTO_STOP", "CLOSING"}]
          /\ sent' \in [Chirps -> BOOLEAN]
          /\ fault' \in {"none", "freed", "null", "connection"}
      <3>1. CASE CloseTs(u) /\ Alive(for[u])
        <4>1. /\ flags' = [flags EXCEPT ![for[u]] = WithFlag(read[u], "CLOSING")]
              /\ sent' = [sent EXCEPT ![for[u]] = TRUE]
              /\ UNCHANGED fault
          BY <3>1, Zenon DEF CloseTs
        <4>2. flags' \in [Chirps -> SUBSET {"AUTO_STOP", "CLOSING"}]
          BY <2>1, <4>1 DEF WithFlag, IInv, TypeOK
        <4>3. sent' \in [Chirps -> BOOLEAN]
          BY <4>1 DEF IInv, TypeOK
        <4>4. QED
          BY <4>1, <4>2, <4>3 DEF IInv, TypeOK
      <3>2. CASE SetAutoStop(u) /\ Alive(for[u])
        BY <2>1, <3>2 DEF SetAutoStop, WithFlag, IInv, TypeOK
      <3>3. CASE ~Alive(for[u])
        BY <1>2, <3>3 DEF CloseTs, SetAutoStop, IInv, TypeOK
      <3>4. QED
        BY <1>2, <3>1, <3>2, <3>3
    <2>3. /\ call' \in [Users -> {"none", "close", "auto_stop"}]
          /\ for' \in [Users -> Chirps \cup {NoChirp}]
          /\ read' \in [Users -> SUBSET {"AUTO_STOP", "CLOSING"}]
      BY <1>2 DEF CloseTs, SetAutoStop, Return, IInv, TypeOK
    <2>4. QED
      BY <1>2, <2>2, <2>3 DEF CloseTs, SetAutoStop, sslVars, buildVars, treeVars,
                              startVars, loopVars, peerVars, IInv, TypeOK
  <1>3. QED
    BY <1>1, <1>2 DEF UserStep

LEMMA SignalType ==
    ASSUME IInv, Signal
    PROVE  TypeOK'
  <1>1. /\ flags' \in [Chirps -> SUBSET {"AUTO_STOP", "CLOSING"}]
        /\ sent' \in [Chirps -> BOOLEAN]
        /\ fault' \in {"none", "freed", "null", "connection"}
    <2> DEFINE asked == {i \in instances :
                            config[i].CLOSE_ON_SIGINT # 0 /\ Unclosed(i)}
               calm  == {i \in instances : ~Alive(i)} = {}
    <2>1. CASE calm
      <3>1. /\ flags' = [i \in Chirps |-> IF i \in asked THEN flags[i] \cup {"CLOSING"}
                                                       ELSE flags[i]]
            /\ sent' = [i \in Chirps |-> sent[i] \/ i \in asked]
            /\ UNCHANGED fault
        BY <2>1 DEF Signal
      <3> HIDE DEF asked
      <3>2. flags' \in [Chirps -> SUBSET {"AUTO_STOP", "CLOSING"}]
        BY <3>1 DEF IInv, TypeOK
      <3>3. sent' \in [Chirps -> BOOLEAN]
        BY <3>1, Zenon DEF IInv, TypeOK
      <3>4. QED
        BY <3>1, <3>2, <3>3 DEF IInv, TypeOK
    <2>2. CASE ~calm
      BY <2>2 DEF Signal, IInv, TypeOK
    <2>3. QED
      BY <2>1, <2>2
  <1>2. QED
    BY <1>1 DEF Signal, sslVars, buildVars, treeVars, startVars, loopVars, peerVars,
                threadVars, IInv, TypeOK

(* Only an instance that uses OpenSSL calls ch_en_stop(), so there is a    *)
(* reference for it to give back.                                          *)
LEMMA CheckClosingUses ==
    ASSUME IInv, NEW i \in Chirps, CheckClosing(i)
    PROVE  i \in UsesOpenSSL /\ (~manual => ssl_refs \in Nat \ {0})
  <1>1. i \in UsesOpenSSL
    BY DEF CheckClosing, IInv, Order, UsesOpenSSL
  <1>2. ASSUME ~manual PROVE ssl_refs # 0
    <2>1. IsFiniteSet(UsesOpenSSL) /\ ssl_refs >= Cardinality(UsesOpenSSL)
      BY <1>2 DEF IInv, SslOK, OpenSSLInUse
    <2>2. Cardinality(UsesOpenSSL) \in Nat /\ Cardinality(UsesOpenSSL) # 0
      BY <1>1, <2>1, FS_EmptySet, FS_CardinalityType
    <2>3. QED
      BY <2>1, <2>2
  <1>3. QED
    BY <1>1, <1>2 DEF IInv, TypeOK

(* An instance that leaves the tree is counted.                            *)
LEMMA UnregisterCounts ==
    ASSUME IInv, NEW i \in Chirps, Unregister(i)
    PROVE  /\ i \in instances /\ ref_count' \in Nat
           /\ IsFiniteSet(instances') /\ ref_count' = Cardinality(instances')
  <1>1. i \in instances
    BY DEF Unregister, IInv, Order
  <1>2. IsFiniteSet(instances) /\ ref_count = Cardinality(instances)
    BY DEF IInv, RefCountOK
  <1>3. /\ IsFiniteSet(instances')
        /\ Cardinality(instances') = Cardinality(instances) - 1
    BY <1>1, <1>2, FS_RemoveElement DEF Unregister, Removed
  <1>4. QED
    BY <1>1, <1>2, <1>3, FS_CardinalityType DEF Unregister

LEMMA LoopStepType ==
    ASSUME IInv, NEW i \in Chirps, LoopStep(i) \/ Run(i) \/ PeerStep(i)
    PROVE  TypeOK'
  <1>1. CASE Freed(i) \/ PeerStep(i) \/ Run(i)
    BY <1>1 DEF Freed, PeerStep, Connect, Greet, Disconnect, Shut, Run, sslVars,
                buildVars, treeVars, startVars, threadVars, loopVars, peerVars,
                IInv, TypeOK
  <1>2. CASE CloseAsyncCb(i)
    <2>1. handles' \in [Chirps -> SUBSET Handles]
          /\ due' \in [Chirps -> SUBSET Handles]
      BY <1>2 DEF CloseAsyncCb, ClosedHandles, Handles, IInv, TypeOK
    <2>2. listening' \in [Chirps -> SUBSET {"v4", "v6"}]
          /\ peer' \in [Chirps -> {"none", "midway", "open", "counted", "closing",
                                   "refused"}]
      BY <1>2 DEF CloseAsyncCb, Listens, Found, Shut, IInv, TypeOK
    <2>3. sent' \in [Chirps -> BOOLEAN]
      BY <1>2 DEF CloseAsyncCb, IInv, TypeOK
    <2>4. QED
      BY <1>2, <2>1, <2>2, <2>3 DEF CloseAsyncCb, sslVars, buildVars, treeVars,
                                    startVars, threadVars, IInv, TypeOK
  <1>3. CASE CloseCb(i)
    BY <1>3 DEF CloseCb, sslVars, buildVars, treeVars, startVars, threadVars,
                peerVars, IInv, TypeOK
  <1>4. CASE CheckClosing(i)
    <2>1. ssl_refs' \in Nat
      <3>1. ssl_refs' = IF manual THEN ssl_refs ELSE ssl_refs - 1
        BY <1>4 DEF CheckClosing, EnStop
      <3>2. ssl_refs \in Nat /\ (~manual => ssl_refs \in Nat \ {0})
        BY <1>4, CheckClosingUses DEF IInv, TypeOK
      <3>3. CASE manual
        BY <3>1, <3>2, <3>3
      <3>4. CASE ~manual
        BY <3>1, <3>2, <3>4
      <3>5. QED
        BY <3>3, <3>4
    <2>2. ssl_up' \in BOOLEAN /\ ssl_ctx' \subseteq Chirps
      BY <1>4 DEF CheckClosing, EnStop, IInv, TypeOK
    <2>3. handles' \in [Chirps -> SUBSET Handles]
          /\ due' \in [Chirps -> SUBSET Handles]
      BY <1>4 DEF CheckClosing, Handles, IInv, TypeOK
    <2>4. QED
      BY <1>4, <2>1, <2>2, <2>3 DEF CheckClosing, buildVars, treeVars, startVars,
                                    peerVars, threadVars, IInv, TypeOK
  <1>5. CASE ClosingDown(i)
    BY <1>5 DEF ClosingDown, Reach, Stages, sslVars, buildVars, treeVars, peerVars,
                startVars, threadVars, IInv, TypeOK
  <1>6. CASE Unregister(i)
    BY <1>6, UnregisterCounts
       DEF Unregister, Removed, Reach, Stages, sslVars, buildVars, startVars,
           threadVars, loopVars, peerVars, IInv, TypeOK
  <1>7. CASE RunEnds(i) \/ LoopClose(i)
    BY <1>7 DEF RunEnds, LoopClose, sslVars, buildVars, treeVars, startVars,
                threadVars, loopVars, peerVars, IInv, TypeOK
  <1>8. QED
    BY <1>1, <1>2, <1>3, <1>4, <1>5, <1>6, <1>7 DEF LoopStep

-----------------------------------------------------------------------------
(* The order of handles, and the calls.                                    *)

LEMMA InitStepOrder ==
    ASSUME IInv, NEW i \in Chirps, InitStep(i), NEW j \in Chirps
    PROVE  Order(j)'
  <1>1. TypeOK /\ Order(i) /\ Order(j)
    BY DEF IInv
  <1>2. ASSUME NEW c \in Offered, Start(i, c) PROVE Order(j)'
    BY <1>1, <1>2 DEF Start, Reach, Fail, treeVars, Order, Starting, Over, TypeOK
  <1>3. CASE InitAsync(i)
    BY <1>1, <1>3 DEF InitAsync, Reach, Fail, treeVars, Order, Starting, Over,
                      TypeOK
  <1>4. CASE PrStart(i)
    <2>1. /\ stage[i] = "async" /\ stage'[i] \in {"served", "failed"}
          /\ "close_check" \notin handles'[i]
          /\ \A k \in Chirps \ {i} : stage'[k] = stage[k] /\ handles'[k] = handles[k]
          /\ UNCHANGED <<instances, due, loop>>
      BY <1>1, <1>4 DEF PrStart, Reach, Fail, treeVars, Order, Starting, TypeOK
    <2>2. QED
      BY <1>1, <2>1 DEF Order, Starting, Over
  <1>5. CASE EnStart(i)
    BY <1>1, <1>5 DEF EnStart, Reach, Fail, treeVars, loopVars, peerVars, Order,
                      Starting, Over, TypeOK
  <1>6. CASE Register(i)
    BY <1>1, <1>6 DEF Register, Reach, loopVars, peerVars, Order, Starting, Over,
                      TypeOK
  <1>7. QED
    BY <1>2, <1>3, <1>4, <1>5, <1>6 DEF InitStep

LEMMA LoopStepOrder ==
    ASSUME IInv, NEW i \in Chirps, LoopStep(i) \/ Run(i) \/ PeerStep(i),
           NEW j \in Chirps
    PROVE  Order(j)'
  <1>1. TypeOK /\ Order(i) /\ Order(j)
    BY DEF IInv
  <1>2. CASE Freed(i) \/ PeerStep(i) \/ Run(i)
    BY <1>1, <1>2 DEF Freed, PeerStep, Connect, Greet, Disconnect, Run, treeVars,
                      loopVars, peerVars, Order, Starting, Over, TypeOK
  <1>3. CASE CloseAsyncCb(i)
    <2>1. /\ stage[i] = "open" /\ loop[i] = "run" /\ "close" \in handles[i]
          /\ handles[i] \subseteq Handles /\ due[i] \subseteq Handles
      BY <1>1, <1>3 DEF CloseAsyncCb, InLoop, TypeOK
    <2>2. "close_check" \notin handles[i] \cup due[i]
      BY <1>1, <2>1 DEF Order
    <2>3. "close_check" \notin due'[i]
          /\ ("close_check" \in handles'[i] => handles'[i] = {"close_check"})
      BY <1>1, <1>3, <2>1, <2>2 DEF CloseAsyncCb, ClosedHandles, Handles, TypeOK
    <2>4. /\ \A k \in Chirps \ {i} : due'[k] = due[k] /\ handles'[k] = handles[k]
          /\ UNCHANGED <<instances, stage, loop>>
      BY <1>1, <1>3 DEF CloseAsyncCb, treeVars, TypeOK
    <2>5. QED
      BY <1>1, <2>1, <2>3, <2>4 DEF Order, Starting, Over
  <1>4. CASE CloseCb(i)
    BY <1>1, <1>4 DEF CloseCb, treeVars, Order, Starting, Over, TypeOK
  <1>5. CASE CheckClosing(i)
    BY <1>1, <1>5 DEF CheckClosing, InLoop, treeVars, Order, Starting, Over,
                      TypeOK
  <1>6. CASE ClosingDown(i)
    BY <1>1, <1>6 DEF ClosingDown, Reach, InLoop, treeVars, Order, Starting, Over,
                      TypeOK
  <1>7. CASE Unregister(i)
    BY <1>1, <1>7 DEF Unregister, Removed, Reach, loopVars, peerVars, Order,
                      Starting, Over, TypeOK
  <1>8. CASE RunEnds(i) \/ LoopClose(i)
    BY <1>1, <1>8 DEF RunEnds, LoopClose, LoopAlive, treeVars, loopVars, peerVars,
                      Order, Starting, Over, TypeOK
  <1>9. QED
    BY <1>2, <1>3, <1>4, <1>5, <1>6, <1>7, <1>8 DEF LoopStep

(* Threads and signals leave the handles alone.                            *)
LEMMA OtherStepOrder ==
    ASSUME IInv, UNCHANGED <<stage, handles, due, loop, instances>>
    PROVE  \A j \in Chirps : Order(j)'
  BY DEF IInv, Order

-----------------------------------------------------------------------------
(* OpenSSL.  The instances that use it change in four steps: ch_en_start() *)
(* adds one, a failed start and the close of the prepare handle take one   *)
(* away, and every other step leaves them alone.                           *)

(* Fewer users than before, and nothing else, keep OpenSSL in order.       *)
LEMMA FewerUsers ==
    ASSUME SslOK, UsesOpenSSL' \subseteq UsesOpenSSL,
           ssl_refs \in Nat,
           UsesOpenSSL' \subseteq ssl_ctx',
           UNCHANGED <<ssl_refs, ssl_up, manual>>
    PROVE  SslOK'
  <1>1. /\ IsFiniteSet(UsesOpenSSL) /\ IsFiniteSet(UsesOpenSSL')
        /\ Cardinality(UsesOpenSSL') <= Cardinality(UsesOpenSSL)
    BY FS_Subset DEF SslOK
  <1>2. Cardinality(UsesOpenSSL') \in Nat /\ Cardinality(UsesOpenSSL) \in Nat
    BY <1>1, FS_CardinalityType
  <1>3. ~manual => ssl_refs' >= Cardinality(UsesOpenSSL')
    BY <1>1, <1>2 DEF SslOK, OpenSSLInUse
  <1>4. UsesOpenSSL' # {} => ssl_up'
    BY DEF SslOK, OpenSSLInUse
  <1>5. ~manual' => (ssl_up' <=> ssl_refs' > 0)
    BY DEF SslOK, OpenSSLInUse
  <1>6. QED
    BY <1>1, <1>3, <1>4, <1>5 DEF SslOK, OpenSSLInUse

LEMMA EnStartSsl ==
    ASSUME IInv, NEW i \in Chirps, EnStart(i)
    PROVE  SslOK'
  <1>1. /\ UsesOpenSSL' \subseteq UsesOpenSSL \cup {i}
        /\ UsesOpenSSL' \subseteq ssl_ctx'
    <2>1. stage \in [Chirps -> Stages] /\ UsesOpenSSL \subseteq ssl_ctx
          /\ UNCHANGED due /\ stage[i] = "served"
      BY DEF EnStart, loopVars, peerVars, IInv, TypeOK, SslOK, OpenSSLInUse
    <2>2. \/ ssl_ctx' = ssl_ctx \cup {i} /\ stage' = [stage EXCEPT ![i] = "encrypted"]
          \/ ssl_ctx \subseteq ssl_ctx' /\ stage' = [stage EXCEPT ![i] = "failed"]
      BY DEF EnStart, Reach, Fail
    <2>3. QED
      BY <2>1, <2>2 DEF UsesOpenSSL
  <1>2. IsFiniteSet(UsesOpenSSL) /\ i \notin UsesOpenSSL
    BY DEF EnStart, UsesOpenSSL, IInv, SslOK
  <1>3. /\ IsFiniteSet(UsesOpenSSL')
        /\ Cardinality(UsesOpenSSL') <= Cardinality(UsesOpenSSL) + 1
    <2> DEFINE M == UsesOpenSSL \cup {i}
    <2>1. IsFiniteSet(M) /\ Cardinality(M) = Cardinality(UsesOpenSSL) + 1
      BY <1>2, FS_AddElement
    <2>2. UsesOpenSSL' \subseteq M
      BY <1>1
    <2> HIDE DEF M
    <2>3. QED
      BY <2>1, <2>2, FS_Subset
  <1>4. Cardinality(UsesOpenSSL') \in Nat /\ Cardinality(UsesOpenSSL) \in Nat
    BY <1>2, <1>3, FS_CardinalityType
  <1>5. /\ ssl_refs' = IF manual THEN ssl_refs ELSE ssl_refs + 1
        /\ ssl_up' = TRUE /\ manual' = manual /\ ssl_refs \in Nat
    BY DEF EnStart, buildVars, IInv, TypeOK
  <1>6. ~manual => ssl_refs >= Cardinality(UsesOpenSSL)
    BY DEF IInv, SslOK, OpenSSLInUse
  <1>7. ~manual => ssl_refs' > 0 /\ ssl_refs' >= Cardinality(UsesOpenSSL')
    BY <1>3, <1>4, <1>5, <1>6
  <1>8. QED
    BY <1>1, <1>3, <1>5, <1>7 DEF SslOK, OpenSSLInUse

LEMMA CheckClosingSsl ==
    ASSUME IInv, NEW i \in Chirps, CheckClosing(i)
    PROVE  SslOK'
  <1>1. UsesOpenSSL' = UsesOpenSSL \ {i} /\ i \in UsesOpenSSL
    <2>1. due' = [due EXCEPT ![i] = {"close_check"}] /\ stage' = stage
          /\ stage[i] = "open"
      BY DEF CheckClosing, IInv, Order
    <2>2. due \in [Chirps -> SUBSET Handles]
      BY DEF IInv, TypeOK
    <2>3. UsesOpenSSL' = UsesOpenSSL \ {i}
      BY <2>1, <2>2 DEF UsesOpenSSL
    <2>4. QED
      BY <2>3, CheckClosingUses
  <1>2. /\ IsFiniteSet(UsesOpenSSL) /\ IsFiniteSet(UsesOpenSSL')
        /\ Cardinality(UsesOpenSSL') = Cardinality(UsesOpenSSL) - 1
    BY <1>1, FS_RemoveElement DEF IInv, SslOK
  <1>3. Cardinality(UsesOpenSSL') \in Nat /\ Cardinality(UsesOpenSSL) \in Nat
    BY <1>2, FS_CardinalityType
  <1>4. /\ UsesOpenSSL \subseteq ssl_ctx /\ ssl_up /\ ssl_refs \in Nat
        /\ manual' = manual
        /\ ~manual => ssl_refs >= Cardinality(UsesOpenSSL) /\ ssl_refs > 0
    BY <1>1 DEF CheckClosing, buildVars, IInv, TypeOK, SslOK, OpenSSLInUse
  <1>5. CASE manual
    <2>1. ssl_up' = ssl_up /\ ssl_ctx' = ssl_ctx \ {i}
      BY <1>5 DEF CheckClosing, EnStop
    <2>2. QED
      BY <1>1, <1>2, <1>4, <1>5, <2>1 DEF SslOK, OpenSSLInUse
  <1>6. CASE ~manual /\ LastReference
    <2>1. ssl_up' = FALSE /\ ssl_refs' = 0 /\ ssl_refs = 1
      BY <1>4, <1>6 DEF CheckClosing, EnStop, LastReference
    <2>2. Cardinality(UsesOpenSSL') = 0
      BY <1>2, <1>3, <1>4, <1>6, <2>1
    <2>3. UsesOpenSSL' = {}
      BY <1>2, <2>2, FS_EmptySet
    <2>4. QED
      BY <1>2, <1>4, <1>6, <2>1, <2>2, <2>3 DEF SslOK, OpenSSLInUse
  <1>7. CASE ~manual /\ ~LastReference
    <2>1. ssl_up' = ssl_up /\ ssl_ctx' = ssl_ctx \ {i}
          /\ ssl_refs' = ssl_refs - 1 /\ ssl_refs - 1 # 0
      BY <1>7 DEF CheckClosing, EnStop, LastReference
    <2>2. ssl_refs' > 0 /\ ssl_refs' >= Cardinality(UsesOpenSSL')
      BY <1>2, <1>3, <1>4, <1>7, <2>1
    <2>3. QED
      BY <1>1, <1>2, <1>4, <1>7, <2>1, <2>2 DEF SslOK, OpenSSLInUse
  <1>8. QED
    BY <1>5, <1>6, <1>7

LEMMA InitStepSsl ==
    ASSUME IInv, NEW i \in Chirps, InitStep(i)
    PROVE  SslOK'
  <1>1. /\ stage \in [Chirps -> Stages] /\ ssl_refs \in Nat /\ SslOK
        /\ UsesOpenSSL \subseteq ssl_ctx
    BY DEF IInv, TypeOK, SslOK, OpenSSLInUse
  <1>2. CASE /\ ~EnStart(i)
             /\ stage[i] \in Starting \/ \E c \in Offered : Start(i, c)
    <2>1. /\ UNCHANGED <<ssl_refs, ssl_up, manual, due>>
          /\ ssl_ctx \ {i} \subseteq ssl_ctx'
      BY <1>2 DEF InitStep, Start, InitAsync, PrStart, Register, sslVars,
                  buildVars, loopVars, peerVars
    <2>2. /\ \A j \in Chirps \ {i} : stage'[j] = stage[j]
          /\ \/ stage[i] = "encrypted" /\ ssl_ctx' = ssl_ctx
             \/ stage'[i] \notin {"encrypted", "open"}
      BY <1>1, <1>2 DEF InitStep, Start, InitAsync, PrStart, Register, Reach, Fail,
                        sslVars, buildVars, Starting
    <2>3. UsesOpenSSL' \subseteq UsesOpenSSL /\ UsesOpenSSL' \subseteq ssl_ctx'
      BY <1>1, <2>1, <2>2 DEF UsesOpenSSL
    <2>4. QED
      BY <1>1, <2>1, <2>3, FewerUsers
  <1>3. QED
    BY <1>2, EnStartSsl DEF InitStep, InitAsync, PrStart, Register, Starting

LEMMA LoopStepSsl ==
    ASSUME IInv, NEW i \in Chirps, LoopStep(i) \/ Run(i) \/ PeerStep(i)
    PROVE  SslOK'
  <1>1. /\ stage \in [Chirps -> Stages] /\ ssl_refs \in Nat /\ SslOK
        /\ due \in [Chirps -> SUBSET Handles] /\ UsesOpenSSL \subseteq ssl_ctx
    BY DEF IInv, TypeOK, SslOK, OpenSSLInUse
  <1>2. CASE ~CheckClosing(i)
    <2>1. UNCHANGED <<ssl_refs, ssl_up, ssl_ctx, manual>>
      BY <1>2 DEF LoopStep, Freed, CloseAsyncCb, CloseCb, ClosingDown,
                  Unregister, RunEnds, LoopClose, Run, PeerStep, Connect, Greet,
                  Disconnect, sslVars, buildVars
    <2>2. UsesOpenSSL' \subseteq UsesOpenSSL
      <3>1. CASE Freed(i) \/ PeerStep(i) \/ Run(i) \/ RunEnds(i) \/ LoopClose(i)
        BY <3>1 DEF Freed, PeerStep, Connect, Greet, Disconnect, Run, RunEnds,
                    LoopClose, loopVars, peerVars, UsesOpenSSL
      <3>2. CASE CloseAsyncCb(i)
        BY <1>1, <3>2 DEF CloseAsyncCb, UsesOpenSSL
      <3>3. CASE CloseCb(i)
        BY <1>1, <3>3 DEF CloseCb, UsesOpenSSL
      <3>4. CASE ClosingDown(i)
        BY <1>1, <3>4 DEF ClosingDown, Reach, UsesOpenSSL
      <3>5. CASE Unregister(i)
        BY <1>1, <3>5 DEF Unregister, Reach, loopVars, peerVars, UsesOpenSSL
      <3>6. QED
        BY <1>2, <3>1, <3>2, <3>3, <3>4, <3>5 DEF LoopStep
    <2>3. QED
      BY <1>1, <2>1, <2>2, FewerUsers
  <1>3. QED
    BY <1>2, CheckClosingSsl

-----------------------------------------------------------------------------

LEMMA StepRefCount ==
    ASSUME IInv, [Next]_vars
    PROVE  RefCountOK'
  <1>1. CASE UNCHANGED <<instances, ref_count>>
    BY <1>1 DEF IInv, RefCountOK
  <1>2. ASSUME NEW i \in Chirps, Register(i) PROVE RefCountOK'
    <2>1. i \notin instances
      BY <1>2 DEF Register, IInv, Order
    <2>2. QED
      BY <1>2, <2>1, FS_AddElement DEF Register, IInv, RefCountOK
  <1>3. ASSUME NEW i \in Chirps, Unregister(i) PROVE RefCountOK'
    BY <1>3, UnregisterCounts DEF RefCountOK
  <1>4. ASSUME NEW i \in Chirps, InitStep(i), ~Register(i)
        PROVE  UNCHANGED <<instances, ref_count>>
    BY <1>4 DEF InitStep, Start, InitAsync, PrStart, EnStart, treeVars
  <1>5. ASSUME NEW i \in Chirps, LoopStep(i) \/ Run(i) \/ PeerStep(i),
               ~Unregister(i)
        PROVE  UNCHANGED <<instances, ref_count>>
    BY <1>5 DEF LoopStep, Freed, CloseAsyncCb, CloseCb, CheckClosing,
                ClosingDown, RunEnds, LoopClose, Run, PeerStep, Connect, Greet,
                Disconnect, treeVars
  <1>6. ASSUME (\E u \in Users : UserStep(u)) \/ Signal \/ UNCHANGED vars
        PROVE  UNCHANGED <<instances, ref_count>>
    BY <1>6 DEF UserStep, Call, CloseTs, SetAutoStop, Signal, vars, treeVars
  <1>7. QED
    BY <1>1, <1>2, <1>3, <1>4, <1>5, <1>6 DEF Next

LEMMA StepCalls ==
    ASSUME IInv, [Next]_vars
    PROVE  CallsOK'
  <1>1. CASE UNCHANGED <<call, for>>
    BY <1>1 DEF IInv, CallsOK
  <1>2. ASSUME NEW u \in Users, UserStep(u) PROVE CallsOK'
    <2>1. /\ call \in [Users -> {"none", "close", "auto_stop"}]
          /\ for \in [Users -> Chirps \cup {NoChirp}]
      BY DEF IInv, TypeOK
    <2>2. QED
      BY <1>2, <2>1, NoChirpAssumption
         DEF UserStep, Call, CloseTs, SetAutoStop, Return, IInv, CallsOK
  <1>3. ASSUME NEW i \in Chirps, InitStep(i) \/ LoopStep(i) \/ Run(i) \/ PeerStep(i)
        PROVE  UNCHANGED <<call, for>>
    BY <1>3 DEF InitStep, Start, InitAsync, PrStart, EnStart, Register, LoopStep,
                Freed, CloseAsyncCb, CloseCb, CheckClosing, ClosingDown,
                Unregister, RunEnds, LoopClose, Run, PeerStep, Connect, Greet,
                Disconnect, threadVars
  <1>4. ASSUME Signal \/ UNCHANGED vars PROVE UNCHANGED <<call, for>>
    BY <1>4 DEF Signal, vars, threadVars
  <1>5. QED
    BY <1>1, <1>2, <1>3, <1>4 DEF Next

LEMMA NextIInv == IInv /\ [Next]_vars => IInv'
  <1> SUFFICES ASSUME IInv, [Next]_vars PROVE IInv'
    OBVIOUS
  <1>1. ASSUME NEW i \in Chirps, InitStep(i)
        PROVE  TypeOK' /\ SslOK' /\ \A j \in Chirps : Order(j)'
    BY <1>1, InitStepType, InitStepSsl, InitStepOrder
  <1>2. ASSUME NEW i \in Chirps, LoopStep(i) \/ Run(i) \/ PeerStep(i)
        PROVE  TypeOK' /\ SslOK' /\ \A j \in Chirps : Order(j)'
    BY <1>2, LoopStepType, LoopStepSsl, LoopStepOrder
  <1>3. ASSUME (\E u \in Users : UserStep(u)) \/ Signal \/ UNCHANGED vars
        PROVE  TypeOK' /\ SslOK' /\ \A j \in Chirps : Order(j)'
    <2>1. UNCHANGED <<sslVars, buildVars, stage, handles, due, loop, instances>>
      BY <1>3 DEF UserStep, Call, CloseTs, SetAutoStop, Signal, vars, treeVars,
                  loopVars, peerVars
    <2>2. \A j \in Chirps : Order(j)'
      BY <2>1, OtherStepOrder
    <2>3. TypeOK'
      <3>1. CASE UNCHANGED vars
        BY <3>1 DEF vars, sslVars, buildVars, treeVars, startVars, loopVars, peerVars,
                    threadVars, IInv, TypeOK
      <3>2. QED
        BY <1>3, <3>1, UserStepType, SignalType
    <2>4. SslOK'
      BY <2>1, FewerUsers
         DEF UsesOpenSSL, sslVars, buildVars, IInv, TypeOK, SslOK, OpenSSLInUse
    <2>5. QED
      BY <2>2, <2>3, <2>4
  <1>4. TypeOK' /\ SslOK' /\ \A j \in Chirps : Order(j)'
    BY <1>1, <1>2, <1>3 DEF Next
  <1>5. QED
    BY <1>4, StepRefCount, StepCalls DEF IInv

LEMMA Invariance == Spec => []IInv
  BY InitIInv, NextIInv, PTL DEF Spec

(* Every variable keeps its type, however often instances are started, fail *)
(* and are closed: the reference counts never drop below zero, and no      *)
(* instance has a configuration its pool and its buffers cannot take.      *)
THEOREM TypeCorrect == Spec => []TypeOK
  <1>1. IInv => TypeOK
    BY DEF IInv
  <1>2. QED
    BY <1>1, Invariance, PTL

(* OpenSSL is there for every instance that uses it, whatever starts fail  *)
(* before, between and after.                                              *)
THEOREM OpenSSLStaysUp == Spec => []OpenSSLInUse
  <1>1. IInv => OpenSSLInUse
    BY DEF IInv, SslOK
  <1>2. QED
    BY <1>1, Invariance, PTL

-----------------------------------------------------------------------------
(* Ports.  ch_pr_start() has both versions of IP or fails, and closing the  *)
(* async handle closes the servers with it.                                *)

Ports(i) ==
    /\ stage[i] \in {"async", "served", "encrypted"} => "close" \in handles[i]
    /\ stage[i] \in {"served", "encrypted"} => listening[i] = {"v4", "v6"}
    /\ stage[i] \in {"open", "down", "closed"} =>
          listening[i] = IF "close" \in handles[i] THEN {"v4", "v6"} ELSE {}

PInv == asserts => \A i \in Chirps : Ports(i)

LEMMA InitStepPorts ==
    ASSUME IInv, asserts, PInv, NEW i \in Chirps, InitStep(i), NEW j \in Chirps
    PROVE  Ports(j)'
  <1>1. TypeOK /\ Ports(i) /\ Ports(j)
    BY DEF IInv, PInv
  <1>2. ASSUME NEW c \in Offered, Start(i, c) PROVE Ports(j)'
    <2>1. /\ stage'[i] \in {"verified", "failed"}
          /\ \A k \in Chirps \ {i} : UNCHANGED <<stage[k], handles[k], listening[k]>>
      BY <1>1, <1>2 DEF Start, Reach, Fail, TypeOK
    <2>2. QED
      BY <1>1, <2>1 DEF Ports
  <1>3. CASE InitAsync(i)
    BY <1>1, <1>3 DEF InitAsync, Reach, Fail, Ports, TypeOK
  <1>4. CASE PrStart(i)
    <2>1. "v6" \in Served(i) => Served(i) = {"v4", "v6"}
      BY DEF Served
    <2>2. stage'[i] = "served" => listening'[i] = {"v4", "v6"}
      BY <1>1, <1>4, <2>1 DEF PrStart, Reach, Fail, TypeOK
    <2>3. "close" \in handles'[i]
      BY <1>1, <1>4 DEF PrStart, Ports, TypeOK
    <2>4. /\ stage'[i] \in {"served", "failed"}
          /\ \A k \in Chirps \ {i} : UNCHANGED <<stage[k], handles[k], listening[k]>>
      BY <1>1, <1>4 DEF PrStart, Reach, Fail, TypeOK
    <2>5. QED
      BY <1>1, <2>2, <2>3, <2>4 DEF Ports
  <1>5. CASE EnStart(i) \/ Register(i)
    <2>1. /\ stage'[i] \in {"encrypted", "open", "failed"}
          /\ stage[i] \in {"served", "encrypted"}
          /\ UNCHANGED <<handles, listening>>
      BY <1>1, <1>5 DEF EnStart, Register, Reach, Fail, loopVars, TypeOK
    <2>2. \A k \in Chirps \ {i} : UNCHANGED stage[k]
      BY <1>1, <1>5 DEF EnStart, Register, Reach, Fail, TypeOK
    <2>3. QED
      BY <1>1, <2>1, <2>2 DEF Ports
  <1>6. QED
    BY <1>2, <1>3, <1>4, <1>5 DEF InitStep

LEMMA LoopStepPorts ==
    ASSUME IInv, asserts, PInv, NEW i \in Chirps,
           LoopStep(i) \/ Run(i) \/ PeerStep(i), NEW j \in Chirps
    PROVE  Ports(j)'
  <1>1. TypeOK /\ Ports(i) /\ Ports(j)
    BY DEF IInv, PInv
  <1>2. CASE CloseAsyncCb(i)
    <2>1. /\ listening'[i] = Listens(i, ClosedHandles)
          /\ "close" \notin handles'[i] /\ stage[i] = "open" /\ UNCHANGED stage
          /\ \A k \in Chirps \ {i} : UNCHANGED <<handles[k], listening[k]>>
      BY <1>1, <1>2 DEF CloseAsyncCb, ClosedHandles, TypeOK
    <2>2. Listens(i, ClosedHandles) = {}
      BY <1>1 DEF Listens, ClosedHandles, Server, TypeOK
    <2>3. QED
      BY <1>1, <2>1, <2>2 DEF Ports
  <1>3. CASE CheckClosing(i)
    BY <1>1, <1>3 DEF CheckClosing, Ports, TypeOK
  <1>4. CASE ClosingDown(i) \/ Unregister(i)
    <2>1. /\ stage' = [stage EXCEPT ![i] = stage'[i]]
          /\ stage[i] \in {"open", "down"} /\ stage'[i] \in {"down", "closed"}
          /\ UNCHANGED <<handles, listening>>
      BY <1>1, <1>4 DEF ClosingDown, Unregister, Reach, loopVars, TypeOK
    <2>2. QED
      BY <1>1, <2>1 DEF Ports, TypeOK
  <1>5. CASE UNCHANGED <<stage, handles, listening>>
    BY <1>1, <1>5 DEF Ports
  <1>6. QED
    BY <1>2, <1>3, <1>4, <1>5
       DEF LoopStep, Freed, CloseCb, RunEnds, LoopClose, Run, PeerStep, Connect,
           Greet, Disconnect, loopVars

(* A port that is held is held by an instance that has not begun to close, *)
(* or by a start that failed.                                              *)
THEOREM PortsComeBack == Spec => []PortsGivenBack
  <1>1. Init => PInv
    BY DEF Init, PInv, Ports
  <1>2. IInv /\ PInv /\ [Next]_vars => PInv'
    <2> SUFFICES ASSUME IInv, PInv, [Next]_vars, asserts', NEW j \in Chirps
                 PROVE  Ports(j)'
      BY DEF PInv
    <2>1. asserts
      <3>1. ASSUME NEW i \in Chirps, InitStep(i) \/ Run(i) \/ PeerStep(i)
            PROVE  UNCHANGED buildVars
        BY <3>1 DEF InitStep, Start, InitAsync, PrStart, EnStart, Register, Run,
                    PeerStep, Connect, Greet, Disconnect
      <3>2. ASSUME NEW i \in Chirps, LoopStep(i) PROVE UNCHANGED buildVars
        BY <3>2 DEF LoopStep, Freed, CloseAsyncCb, CloseCb, CheckClosing, ClosingDown,
                    Unregister, RunEnds, LoopClose
      <3>3. ASSUME (\E u \in Users : UserStep(u)) \/ Signal \/ UNCHANGED vars
            PROVE  UNCHANGED buildVars
        BY <3>3 DEF UserStep, Call, CloseTs, SetAutoStop, Signal, vars
      <3>4. QED
        BY <3>1, <3>2, <3>3 DEF Next, buildVars
    <2>2. CASE UNCHANGED <<stage, handles, listening>>
      BY <2>1, <2>2 DEF PInv, Ports
    <2>3. ASSUME (\E u \in Users : UserStep(u)) \/ Signal \/ UNCHANGED vars
          PROVE  UNCHANGED <<stage, handles, listening>>
      BY <2>3 DEF UserStep, Call, CloseTs, SetAutoStop, Signal, vars, loopVars
    <2>4. QED
      BY <2>1, <2>2, <2>3, InitStepPorts, LoopStepPorts DEF Next
  <1>3. PInv => PortsGivenBack
    BY DEF PInv, Ports, PortsGivenBack
  <1>4. QED
    BY <1>1, <1>2, <1>3, Invariance, PTL DEF Spec

-----------------------------------------------------------------------------
(* Calls that do not overlap.  A call begins before the close of its       *)
(* instance, so the instance is still open and has the flags that were     *)
(* read: the flag CLOSING is there before anything is taken down, and then *)
(* no call begins.                                                         *)

Quiet(i) ==
    /\ sent[i] => "CLOSING" \in flags[i]
    /\ "close_check" \in handles[i] \cup due[i] => "CLOSING" \in flags[i]

Apart ==
    /\ \A u \in Users : for[u] # NoChirp =>
          /\ stage[for[u]] = "open"
          /\ "CLOSING" \notin flags[for[u]]
          /\ read[u] = flags[for[u]]
    /\ \A u, v \in Users : for[u] = for[v] /\ for[u] # NoChirp => u = v

QInv == Apart /\ \A i \in Chirps : Quiet(i)

LEMMA InitQInv == Init => QInv
  BY DEF Init, QInv, Quiet, Apart, Over

LEMMA InitStepQuiet ==
    ASSUME IInv, QInv, NEW i \in Chirps, InitStep(i)
    PROVE  QInv'
  <1>1. TypeOK /\ Order(i) /\ Quiet(i)
    BY DEF IInv, QInv
  <1>2. /\ stage[i] # "open" /\ \A u \in Users : for[u] # i
    <2>1. stage[i] # "open"
      BY DEF InitStep, Start, InitAsync, PrStart, EnStart, Register
    <2>2. QED
      BY <2>1, NoChirpAssumption DEF QInv, Apart
  <1>3. /\ \A j \in Chirps \ {i} : UNCHANGED <<stage[j], flags[j], sent[j], handles[j],
                                              due[j]>>
        /\ UNCHANGED <<call, for, read, due>>
        /\ (UNCHANGED <<flags, sent>>) \/ (flags'[i] = {} /\ sent'[i] = FALSE)
    <2>1. CASE \E c \in Offered : Start(i, c)
      BY <1>1, <2>1 DEF Start, Reach, Fail, threadVars, TypeOK
    <2>2. CASE InitAsync(i)
      BY <1>1, <2>2 DEF InitAsync, Reach, Fail, threadVars, TypeOK, Order, Starting
    <2>3. CASE PrStart(i)
      BY <1>1, <2>3 DEF PrStart, Reach, Fail, threadVars, TypeOK, Order, Starting
    <2>4. CASE EnStart(i) \/ Register(i)
      BY <1>1, <2>4 DEF EnStart, Register, Reach, Fail, loopVars, peerVars,
                        threadVars, TypeOK, Order, Starting
    <2>5. QED
      BY <2>1, <2>2, <2>3, <2>4 DEF InitStep
  <1>4. "close_check" \notin handles'[i] \cup due'[i]
    <2>1. due[i] = {} /\ "close_check" \notin handles[i]
      BY <1>1, <1>2 DEF Order
    <2>2. "close_check" \notin handles'[i]
      <3>1. CASE PrStart(i)
        BY <1>1, <2>1, <3>1 DEF PrStart, TypeOK
      <3>2. CASE EnStart(i) \/ Register(i)
        BY <2>1, <3>2 DEF EnStart, Register, loopVars, peerVars
      <3>3. CASE InitAsync(i)
        BY <1>1, <2>1, <3>3 DEF InitAsync, TypeOK
      <3>4. CASE \E c \in Offered : Start(i, c)
        BY <1>1, <3>4 DEF Start, TypeOK
      <3>5. QED
        BY <3>1, <3>2, <3>3, <3>4 DEF InitStep
    <2>3. QED
      BY <1>3, <2>1, <2>2
  <1>5. Apart'
    BY <1>1, <1>2, <1>3 DEF QInv, Apart, TypeOK
  <1>6. Quiet(i)'
    BY <1>1, <1>2, <1>3, <1>4 DEF Quiet
  <1>7. ASSUME NEW j \in Chirps \ {i} PROVE Quiet(j)'
    BY <1>3 DEF QInv, Quiet
  <1>8. QED
    BY <1>5, <1>6, <1>7 DEF QInv

LEMMA UserStepQuiet ==
    ASSUME IInv, QInv, "race" \notin Env, NEW u \in Users, UserStep(u)
    PROVE  QInv'
  <1>1. TypeOK /\ CallsOK /\ Apart
    BY DEF IInv, QInv
  <1>2. ASSUME NEW i \in Chirps, NEW what \in {"close", "auto_stop"},
               Call(u, i, what)
        PROVE  QInv'
    <2>1. Unclosed(i) /\ \A v \in Users : for[v] # i
      BY <1>2 DEF Call, MayOverlap, Calling
    <2>2. Apart'
      BY <1>1, <1>2, <2>1 DEF Call, Unclosed, Apart, TypeOK
    <2>3. \A j \in Chirps : Quiet(j)'
      BY <1>2 DEF Call, loopVars, peerVars, QInv, Quiet
    <2>4. QED
      BY <2>2, <2>3 DEF QInv
  <1>3. CASE CloseTs(u) \/ SetAutoStop(u)
    <2> DEFINE i == for[u]
    <2>1. /\ i \in Chirps /\ stage[i] = "open" /\ read[u] = flags[i]
          /\ \A v \in Users \ {u} : for[v] # i
      BY <1>1, <1>3 DEF CloseTs, SetAutoStop, CallsOK, Apart, TypeOK
    <2>2. /\ flags[i] \subseteq flags'[i]
          /\ \A j \in Chirps \ {i} : flags'[j] = flags[j] /\ sent'[j] = sent[j]
          /\ sent'[i] => sent[i] \/ "CLOSING" \in flags'[i]
      BY <1>1, <1>3, <2>1 DEF CloseTs, SetAutoStop, Alive, WithFlag, TypeOK
    <2>3. /\ UNCHANGED <<stage, handles, due>>
          /\ for' = [for EXCEPT ![u] = NoChirp] /\ read' = [read EXCEPT ![u] = {}]
      BY <1>3 DEF CloseTs, SetAutoStop, Return, loopVars, peerVars
    <2> HIDE DEF i
    <2>4. Apart'
      BY <1>1, <2>1, <2>2, <2>3 DEF Apart, TypeOK
    <2>5. \A j \in Chirps : Quiet(j)'
      BY <2>2, <2>3 DEF QInv, Quiet
    <2>6. QED
      BY <2>4, <2>5 DEF QInv
  <1>4. QED
    BY <1>2, <1>3 DEF UserStep

LEMMA SignalQuiet ==
    ASSUME IInv, QInv, "race" \notin Env, Signal
    PROVE  QInv'
  <1>1. TypeOK /\ Apart /\ \A i \in Chirps : Order(i)
    BY DEF IInv, QInv
  <1>2. \A u \in Users : for[u] = NoChirp
    <2>1. \A u \in Users : for[u] \notin instances
      BY DEF Signal, Calling, MayOverlap
    <2>2. ASSUME NEW u \in Users, for[u] # NoChirp PROVE FALSE
      <3>1. for[u] \in Chirps /\ stage[for[u]] = "open"
        BY <1>1, <2>2 DEF Apart, TypeOK
      <3>2. QED
        BY <1>1, <2>1, <3>1 DEF Order
    <2>3. QED
      BY <2>2
  <1>3. UNCHANGED <<for, read, stage, handles, due>>
    BY DEF Signal, threadVars, loopVars, peerVars
  <1>4. \A i \in Chirps : /\ flags[i] \subseteq flags'[i]
                          /\ sent'[i] => sent[i] \/ "CLOSING" \in flags'[i]
    BY <1>1 DEF Signal, TypeOK
  <1>5. \A i \in Chirps : Quiet(i)'
    BY <1>3, <1>4 DEF QInv, Quiet
  <1>6. QED
    BY <1>2, <1>3, <1>5 DEF QInv, Apart

LEMMA LoopStepQuiet ==
    ASSUME IInv, QInv, NEW i \in Chirps, LoopStep(i) \/ Run(i) \/ PeerStep(i)
    PROVE  QInv'
  <1>1. TypeOK /\ Order(i) /\ Quiet(i) /\ Apart
    BY DEF IInv, QInv
  <1>2. /\ UNCHANGED <<call, for, read, flags>>
        /\ \A j \in Chirps \ {i} : UNCHANGED <<stage[j], sent[j], handles[j], due[j]>>
        /\ stage'[i] # stage[i] => "CLOSING" \in flags[i]  \/ stage[i] = "down"
    BY <1>1 DEF LoopStep, Freed, CloseAsyncCb, CloseCb, CheckClosing,
                ClosingDown, Unregister, RunEnds, LoopClose, Run, PeerStep, Connect,
                Greet, Disconnect, Reach, startVars, threadVars, loopVars, peerVars,
                TypeOK, Quiet
  <1>3. Apart'
    BY <1>1, <1>2 DEF Apart, TypeOK
  <1>4. Quiet(i)'
    <2>1. CASE PeerStep(i) \/ Run(i) \/ Freed(i) \/ RunEnds(i) \/ LoopClose(i)
      BY <1>1, <2>1 DEF PeerStep, Connect, Greet, Disconnect, Run, Freed, RunEnds,
                        LoopClose, loopVars, startVars, Quiet
    <2>2. CASE CloseAsyncCb(i)
      <3>1. "CLOSING" \in flags[i]
        BY <1>1, <2>2 DEF CloseAsyncCb, Quiet
      <3>2. UNCHANGED flags
        BY <2>2 DEF CloseAsyncCb
      <3>3. QED
        BY <3>1, <3>2 DEF Quiet
    <2>3. CASE CloseCb(i)
      BY <1>1, <2>3 DEF CloseCb, Quiet, TypeOK
    <2>4. CASE CheckClosing(i)
      BY <1>1, <2>4 DEF CheckClosing, Quiet, TypeOK
    <2>5. CASE ClosingDown(i)
      BY <1>1, <2>5 DEF ClosingDown, Quiet, TypeOK
    <2>6. CASE Unregister(i)
      BY <1>1, <2>6 DEF Unregister, loopVars, Quiet
    <2>7. QED
      BY <2>1, <2>2, <2>3, <2>4, <2>5, <2>6 DEF LoopStep
  <1>5. ASSUME NEW j \in Chirps \ {i} PROVE Quiet(j)'
    BY <1>2 DEF QInv, Quiet
  <1>6. QED
    BY <1>3, <1>4, <1>5 DEF QInv

LEMMA NextQInv ==
    ASSUME "race" \notin Env
    PROVE  IInv /\ QInv /\ [Next]_vars => QInv'
  <1> SUFFICES ASSUME IInv, QInv, [Next]_vars PROVE QInv'
    OBVIOUS
  <1>1. CASE UNCHANGED vars
    BY <1>1 DEF vars, loopVars, peerVars, threadVars, QInv, Quiet, Apart
  <1>2. QED
    BY <1>1, InitStepQuiet, UserStepQuiet, SignalQuiet, LoopStepQuiet DEF Next

LEMMA QInvariance ==
    ASSUME "race" \notin Env
    PROVE  Spec => [](IInv /\ QInv)
  <1>1. Init => QInv
    BY InitQInv
  <1>2. IInv /\ QInv /\ [Next]_vars => QInv'
    BY NextQInv
  <1>3. QED
    BY <1>1, <1>2, Invariance, PTL DEF Spec

(* The signal handler meets only instances that are there, and no thread   *)
(* writes to an instance that is freed: what a thread has looked at is     *)
(* still there when it writes, because nobody closes it meanwhile.         *)
THEOREM NothingFreedIsUsed ==
    ASSUME "race" \notin Env, "window" \notin Env
    PROVE  Spec => []AliveWhenUsed
  <1>1. Init => AliveWhenUsed
    BY DEF Init, AliveWhenUsed
  <1>2. IInv /\ QInv /\ AliveWhenUsed /\ [Next]_vars => AliveWhenUsed'
    <2> SUFFICES ASSUME IInv, QInv, AliveWhenUsed, [Next]_vars
                 PROVE  AliveWhenUsed'
      OBVIOUS
    <2>1. TypeOK /\ CallsOK /\ Apart
      BY DEF IInv, QInv
    <2>2. ASSUME NEW i \in Chirps, LoopStep(i) \/ PeerStep(i)
          PROVE  fault' \in {fault, "connection"}
      BY <2>2 DEF LoopStep, Freed, CloseAsyncCb, CloseCb, CheckClosing, ClosingDown,
                  Unregister, RunEnds, LoopClose, PeerStep, Connect, Greet, Disconnect
    <2>3. ASSUME NEW u \in Users, CloseTs(u) \/ SetAutoStop(u)
          PROVE  UNCHANGED fault
      BY <2>1, <2>3 DEF CloseTs, SetAutoStop, Alive, Apart, CallsOK
    <2>4. CASE Signal
      <3>1. \A i \in instances : Alive(i)
        BY <2>1, <2>4 DEF Signal, Alive, IInv, Order, TypeOK
      <3>2. QED
        BY <2>4, <3>1 DEF Signal, AliveWhenUsed
    <2>5. CASE fault' \in {fault, "connection"}
      BY <2>5 DEF AliveWhenUsed
    <2>6. ASSUME NEW i \in Chirps, InitStep(i) \/ Run(i)
          PROVE  UNCHANGED fault
      BY <2>6 DEF InitStep, Start, InitAsync, PrStart, EnStart, Register, Run
    <2>7. ASSUME NEW u \in Users, UserStep(u), ~CloseTs(u), ~SetAutoStop(u)
          PROVE  UNCHANGED fault
      BY <2>7 DEF UserStep, Call
    <2>8. QED
      BY <2>2, <2>3, <2>4, <2>5, <2>6, <2>7 DEF Next, vars
  <1>3. QED
    BY <1>1, <1>2, QInvariance, PTL DEF Spec
=============================================================================
