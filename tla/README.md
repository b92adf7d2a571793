# Chirp in TLA+

Specifications of the C implementation of chirp, the message passing library in
`src/src`, with the configurations that model-check them on small instances and
the proofs of what holds on every instance. Every definition is a translation of
the code at the lines `PROJECT.json` names under `map`.

## 1. Inventory

Chirp runs inside one libuv loop. All handlers of an instance run on the thread
of that loop; only `ch_chirp_close_ts()` and `ch_chirp_set_auto_stop()` are made
to be called from other threads. What is concurrent are the callbacks libuv
still owes, and hardly a line of the code checks whether a callback comes late.

| part | source | state | operations |
|---|---|---|---|
| Instance | `chirp.c`, `chirp.h` | flags (`CLOSING`, `AUTO_STOP`), `closing_tasks`, the handles `close`, `close_check` | close, the async, prepare and close callbacks |
| Start-up | `chirp.c` | the tree of instances, its count, the signal handlers | init with its error paths, configuration check, run, signals, auto-stop |
| Protocol | `protocol.c`, `protocol.h` | `connections`, `old_connections`, receipts, two servers | start, stop, new connection, read, TLS handshake |
| Connection | `connection.c`, `connection.h` | flags, `shutdown_tasks`, key, TLS objects, buffers, one write request, one shutdown request, `client`, `shutdown_timeout` | init, write, shut down, shutdown callback and timeout, close callback |
| Reader | `reader.c`, `reader.h` | state, header, bytes handled | chirp handshake, messages |
| Writer | `writer.c`, `writer.h` | lock, message, `send_timeout` | send, one callback per part, timeout |
| Buffer pool | `buffer.h` | `used_buffers`, `free_buffers`, `used` of each handler buffer | init, reserve, return |
| Encryption | `encryption.c` | reference count, `SSL_CTX` | start, stop |
| Trees | `sglib.h` (vendored) | red-black trees of instances, connections and receipts | find, add, delete, iterate, delete while iterating |
| Messages, helpers | `message.c`, `util.c`, `util.h` | none | address conversions, allocation, logging, `ch_msb32` |
| Python bindings | `src/chirp`, `src/chirp_cffi` | a thread and a loop | `ChirpPool` |

How they interact:

* A server accepts a stream; `_ch_pr_new_connection_cb()` makes a connection,
  TLS shakes hands over two BIOs, then reader and remote exchange one chirp
  handshake. Only then does the connection enter `protocol->connections`, under
  the key (protocol, address, port); a connection with the same key moves to
  `old_connections`.
* `ch_chirp_send()` looks the remote up, takes the lock of the writer of that
  connection and writes the parts of the message one after the other, each from
  the callback of the one before. `ch_cn_write()` encrypts into a buffer and uses
  the only write request of the connection.
* `ch_cn_shutdown()` is called from every failing handler. It deletes the
  connection from the dictionary, writes the TLS alert, calls `uv_shutdown()` and
  starts a timeout. The shutdown callback, or the timeout in its place, closes
  the handles, and the last close callback frees the connection.
* `ch_chirp_close_ts()` sends an async message; its callback stops the protocol,
  and a prepare handle looks in every iteration whether `closing_tasks` has
  reached zero, and then frees the instance.

The hard part is what these callbacks do to each other: two semaphores that
count callbacks, a shutdown that is older than the close, a timeout that calls a
callback libuv calls again, two connections of one remote, a write that is still
in flight when the next one begins, a message that is over before its last part
is written. `hazards` in `PROJECT.json` has them at their lines.

## 2. Modules

| module | models |
|---|---|
| `Connections` | accept, handshake, dictionaries, shutdown, handles and memory of connections |
| `ChirpClose` | `Connections` inside an instance that is closed, and the phases of the loop |
| `CloseBarrier` | abstract: memory is freed after all callbacks |
| `Reader` | what one connection does with the bytes it receives: read callback, BIO, TLS handshake, `ch_rd_read()` |
| `Writer` | write path and writer of one connection |
| `Config` | configurations and their check |
| `Instances` | the instances of a process, on top of `Config`: start-up, signals, other threads, OpenSSL, the end of the loop |
| `Word` | 32 bit words as sets of bits, `ch_msb32()` |
| `BufferPool` | the pool of handler buffers, on top of `Word` |
| `Allocator` | abstract: what a pool promises |
| `RBTree` | the red-black trees of `sglib.h` and their iterators |
| `Dictionary` | abstract: what a tree promises |
| `MCChirpClose`, `MCReader`, `MCWriter`, `MCInstances`, `MCRBTree` | symmetry, record lengths, messages, configurations and keys of the small instances |
| `ChirpCloseProof` | the theorems about `ChirpClose`: its inductive invariant, order of closing, dictionary, closing semaphore, the quiet close as a `CloseBarrier` |
| `ReaderProof` | the theorems about `Reader` |
| `WriterProof` | the theorems about `Writer` |
| `InstancesProof` | the theorems about `Instances` |
| `BufferPoolProof` | the theorems about `Word` and `BufferPool` |
| `RBTreeLemmas` | red-black search trees whoever changes them: taking apart, putting together, repairs, the nodes below a root |
| `RBTreeProof` | the theorems about the calls of `RBTree`: balance, dictionary |
| `RBTreeWalkProof` | the theorems about its iterators, alone and while the tree is deleted from |

`ChirpClose` composes the instance with its connections; `Reader` and `Writer`
look into one of them, and see as much of each other as the single write request
makes necessary. `Instances` has many instances, and one connection at a time in the loop of each.
`RBTree` shows what `Connections`, `Writer` and `Instances` take for granted when
they use a set where the code has a tree.

### Connections and ChirpClose

Each callback the loop runs is one action, with everything it calls. `phase` is
the order of libuv: timers and write callbacks, prepare handles, poll, close
callbacks. An iteration leaves its close phase only when each close callback that
was due has been called; their order is free.

| variable | in the code |
|---|---|
| `ichirp` | `chirp->_` is there or freed |
| `closing`, `closing_tasks` | `CH_CHIRP_CLOSING`, the closing semaphore |
| `connections`, `old_connections` | the trees of `ch_protocol_t` as sets of connections |
| `remote` | the fields `ch_cn_cmp()` compares, as one key; a new connection has the zeroed `NoKey` |
| `greeted` | connections whose reader has left the state of the handshake |
| `shutting`, `shutdown_tasks` | `CH_CN_SHUTTING_DOWN`, the shutdown semaphore |
| `opened`, `due` | handles before `uv_close()`, and between it and the close callback |
| `shutdown_req`, `armed` | requests of `uv_shutdown()` not called back, running `shutdown_timeout`s |
| `close_sent` | `uv_async_send()` on `ichirp->close` |
| `fault` | what happened first that the code does not survive: freed memory was used, an assertion failed |

What a connection writes is in `Writer`: the alert with which `ch_cn_shutdown()`
begins (`SSL_shutdown()` and `ch_cn_send_if_pending()`, `connection.c:401-412`), whose
assertion fails while a write is in flight (`cut`), and the send timer as long as it
runs (`writer.c:173`). `Connections` has of that timer only the handle that is opened with
the connection and never closed: `NoCallbackIntoFreed` and `NoFault` of `ChirpClose` speak of
the handlers of streams, shutdowns, shutdown timeouts and close callbacks, and `Writer` shows
the send timer that fires on a freed connection.

What depends on the environment is named by members of the constant `Env`
(`early`, `stall`, `reject`, `midway`, `reconnect`, `late`, `dead`, explained in
the module), so that a configuration says under which circumstances a property
holds. After a fault nothing more happens: what follows is undefined.

This is the debug build. `chirp.c:226-242` calls `ch_pr_stop()`,
`uv_prepare_init()` and `uv_prepare_start()` inside of `assert()`; in a release
build (`-DNDEBUG`, `build/build.mk:18`, the default of `make`, `README.rst:60`)
they are not compiled. `Instances` has both builds.

A timeout is a choice: a running timer may fire in any later timer phase. What
deleting from a red-black tree does to the running iterator of sglib is a choice
too (`Visited`): up to three members (`IteratorSafe`) the iterator meets all of
them, with more it may miss some. `RBTree` has the iterator itself, and
`RBTreeWalkProof` proves (`DeletingReachesAll`) that three are safe.

### Reader

Nothing else runs during a read callback, so it is cut into one step for each
round of its loop (`DoHandshake`, `Read`, `BioFull`) and of the loop of
`ch_rd_read()` (`RdStart`, `RdHandshake`, `RdWait`, `RdParts`). The remote
(`RemoteFlight`, `RemoteData`) sends the flights of its TLS handshake and records
with a handshake and headers; TCP (`ReadCb`) delivers any number of halves of
records at a time. After a read that has filled its buffer (`full`) libuv reads again at once
and calls back even if nothing is there (`NothingRead`): nothing cannot be written to the
BIO, and the connection is shut down. `put` and `used` are the two ends of the BIO, `chunk` the
arguments of `ch_rd_read()` with its `bytes_handled`, `flight` the write that uses
the only request, `taken` the handshakes and headers that were accepted. `odd`
collects what has happened beyond the exchange the code expects, so that a
property can say under which circumstances it holds. Decrypted data is counted in
bytes, encrypted data in halves of records; a record is not larger than the
buffers. `_ch_rd_read_buffer()` is a stub, as in the code: it consumes nothing.

### Writer

Functions of the write path call each other several levels deep, so the
connection is one record, `conn`, each function is an operator from records to
records, and an event of the loop is an action that applies one of them. `flight`
is the owner of the write request between `uv_write()` and its callback, `bio`
what `BIO_pending()` returns, `size` and `written` the progress of the plain text,
`reported` the calls of `send_cb`, `wire` the parts that were called back as
written. Data is counted in units: a call of `SSL_write()` takes `RecordSize` of
them, the buffer for encrypted data `BufferSize`. The bytes that TLS adds to a
record are left out. `Env` again names what may happen (`fail`, `greetfail`,
`slow`, `end`, `cut`, `eager`, `impatient`, `offline`, `stall`). Whether
`config.ACKNOWLEDGE` is set is a choice of `Init`.

A fault `overlap` is the assertion of `connection.c:825` and `892`: it ends a
debug build; in a release build the request and the buffer libuv works on are
overwritten. `ch_chirp_send()` is called from the loop thread: nothing documents
it for another. Only encrypted connections are modelled, `protocol.c:222` makes
no other. The reader is here as far as it writes its handshake and refuses what it
cannot read; `Reader` has the rest. A chirp handshake that comes after a shutdown began is
modelled in `Connections` (`late`), not here.

### BufferPool and Word

A word is the set of its bits, a shift moves the set within 0..31.
`held` is the ghost of the callers: the buffers they have and have not returned.

### RBTree and Dictionary

The nodes are linked by `left` and `right` in a heap (`son`), as in C, because an
iterator keeps pointers to nodes over deletions. The functions that add and delete
call themselves for a subtree: going down into it and what is repaired when the
inner call has returned are actions of their own, and `stack` has the `type**` of
the calls that have not returned. The mirrored halves of each macro are one operator
with a side as its parameter.

| variable | in the code |
|---|---|
| `son`, `red` | the members `left` and `right`, the nodes that are red |
| `stage` | what the call at work does: look an element up (`lookAdd`, `lookDelete`), go down to add (`add`) and back up (`added`), look for the node to delete (`search`) and for the leaf that replaces it (`leaf`), go back up (`deleted`) |
| `elem`, `leaf`, `short` | its argument, `theLeaf` while it is out of the tree, `deepDecreased` |
| `answer` | the member the last lookup found |
| `use`, `order`, `path`, `at` | what the caller of the iterator does, and the iterator: its order, its stack of nodes with the number of sons passed, whether it has a current element |
| `seen`, `start`, `touched` | ghosts: the members returned, those there when the walk began, a returned member was read again |
| `failed` | an assertion of `sglib.h` does not hold |

What the caller does with the members it gets is to read them (signals), to shut them
down, which deletes them by their key (`ch_pr_stop()`), or to free them (receipts).
`Dictionary` is a set with a lookup by key: an element is in it, or out of it, from
the step on in which the call begins to look for its place.

### Config and Instances

`Accepted` is `_ch_chirp_verify_cfg()` as it is coded, one conjunct per check.
`ch_chirp_init()` is cut where a signal or another thread can see something:
`Start` (a new loop, the check), `InitAsync`, `PrStart`, `EnStart`, `Register`.
The way down is `CloseAsyncCb`, `CloseCb`, `CheckClosing`, `ClosingDown`, which
leaves the instance in the tree with `chirp->_` cleared, and `Unregister`.
`Call` reads the flags and `CloseTs` or `SetAutoStop` writes them: the two halves of the
functions other threads may call. `Run`, `RunEnds` and `LoopClose` are the thread of
the instance, as `ChirpPool` of the Python bindings runs it.

The loop of an instance has one connection at a time (`peer`). `Connect` accepts it: it
is `midway` and in no dictionary. `Greet` is its chirp handshake: it is `open`, and
`ch_pr_stop()` finds it. `Disconnect` is whatever shuts it down but the close, and `Shut` what comes
of that: `uv_shutdown()` refuses and the connection stays, or it is `closing`, and counted by
the semaphore (`counted`) if the flag `CLOSING` is set. `Freed` is the last of its callbacks. A
connection that `ch_pr_stop()` does not find, or that `uv_shutdown()` refused, stays
in the loop when the instance is freed, keeps `ch_run()` from returning, and its next handler
uses the freed instance (`fault` is `"connection"`). Its send timer stays in `timers` in any case,
so that `ch_loop_close()` fails. How the closing semaphore can be wrong (`early`, `stall`) is the
matter of `ChirpClose`; here it counts right.

| variable | in the code |
|---|---|
| `asserts`, `manual` | the build; `_ch_en_manual_openssl` |
| `ssl_refs`, `ssl_up`, `ssl_ctx` | `_ch_en_openssl_ref_count`, OpenSSL is initialised, the `SSL_CTX` of instances |
| `instances`, `ref_count`, `sig_init` | the tree, its count, the signal handlers are installed |
| `stage`, `config`, `error`, `flags` | how far an instance has come, its configuration, what `ch_chirp_init()` returned, `CLOSING` and `AUTO_STOP` |
| `loop`, `handles`, `due`, `sent`, `ret` | the loop, open handles of the instance, close callbacks due, the async message, the result of `ch_loop_close()` |
| `listening`, `lost_ports` | the versions of IP, servers nobody can close any more |
| `peer`, `timers` | the connection, the loops with the `send_timeout` of a connection |
| `call`, `for`, `read` | the thread-safe function a thread is in, its instance, the flags it has read |

`Env` names what else may happen: `uv` (calls of libuv or OpenSSL fail), `signal`,
`window` (a signal between clearing `chirp->_` and leaving the tree) and `race`
(calls for one instance overlap).

## 3. Checks

`tlc -config <run>.cfg <module>`; the table says what each run asks.

| run | bounds | question |
|---|---|---|
| `close_any` | 3 connections, 2 remotes, every behaviour but `late` | what is never wrong, whatever happens, but for the send timer: `TypeOK`, `ShutdownSemaphore`, `NoCallbackIntoFreed`, `NoLostTask`, `InstanceClosed`, `OneConnectionPerKey`, `DictionaryUsable` |
| `close_quiet` | 3 connections, 3 remotes, only `dead` | with well-behaved peers the closing semaphore is exact (`ExactSemaphore`), no handler of a stream, a shutdown or a close uses anything freed (`NoFault`), and closing implements `CloseBarrier` |
| `close_live` | 2 connections, 2 remotes, every behaviour | a close ends (`CloseEnds`), a shutdown ends (`ShutdownEnds`) |
| `pool` | 9 buffers | counter, word and flags agree; the pool implements `Allocator` |
| `write_any` | 3 messages, every behaviour, buffer smaller than a record | one callback per message, one message at a time, parts in order, nothing half sent on an open connection |
| `write_calm` | 3 messages, `fail`, `offline`, `stall`, record smaller than the buffer | parts are written completely, nothing undefined, every message is answered |
| `reader` | 2 messages, 3 records of six lengths, a BIO of one and a half records, every behaviour | units are taken in order (`TakenInOrder`) and out of bytes that arrived (`TakenSoundly`), a remote that does what the code expects is served (`OrderlyIsServed`), everything is read (`AllRead`), callbacks return (`CallbackReturns`) |
| `trees` | 8 nodes with 3 pairs of equal keys | the tree is balanced (`Balanced`), implements `Dictionary`, walks return every member once (`EveryMemberOnce`), deleting while walking reaches all of three (`DeletingReachesAll`) |
| `instances` | 2 instances, 1 thread, 3 starts, 16 configurations, `uv`, `signal`, both builds | signal handler and threads meet no freed instance (`AliveWhenUsed`), OpenSSL is there (`OpenSSLInUse`), ports are given back (`PortsGivenBack`), a close is never stuck (`CloseNeverStuck`) |
| `bad_release` | 1 instance, both builds | finding, below |
| `bad_midway` | 1 connection, `midway` | finding |
| `bad_threads` | 1 instance, 2 threads, `race` | finding |

Why the bounds are enough. Two connections of one remote are needed for a
replacement, and a third, of the same or of another remote, for what the first
two leave behind: a key deleted on behalf of another, a task too many taken from
the semaphore that a third one still needs. Connections are never reused, so a
run ends when each has lived its life. Nine buffers use the words' bits 23 to 31,
so both the byte and the nibble steps of the search are taken. The messages have
a last part that is empty, middle parts that are empty, and a part that needs one
write more than the buffer holds; three of them are needed for one to be over, one
at work and one waiting. Of the reader, a handshake of two bytes and headers of
six make both outcomes of the wrong size check possible behind a handshake, and
three records can hold a handshake and two headers in every grouping; the BIO
is full before the second record is in it. A tree of eight nodes has every case of both
repairs, with its mirror image, and three of their neighbours share a key, so that
addresses break ties; what holds beyond eight is proved. Two instances and three starts let an instance start
beside one that runs, fails or has been closed, run on a port of its own beside it, and meet
its own port; of the configurations four are accepted. Instances differ in nothing but
their names, so the invariants are checked up to symmetry. Symmetry and leads-to do not go
together, and without it there are too many states: `CloseNeverStuck` says of each state
what a lack of progress would be, a close that is asked for and a loop with nothing to do.
It does not exclude that remotes keep coming and going for ever before the async message
is delivered.
`closing_tasks` and the other counters need no
bound: connections and messages are finite.

`close_any` leaves out `late`, because `DictionaryUsable` does not hold with it;
`close_live` has it.

Fairness. `Fairness` of `ChirpClose` is that of the loop: it moves on, runs its
prepare handle, delivers the async message, calls each close callback. A
shutdown request is finished by libuv, or by the timeout when the peer stalls. A
phase ends before some handlers could run, so the async message and the end of a
shutdown request, which stay due in the next iteration, have strong
fairness; all others have weak fairness. Users and peers owe nothing: nobody has
to connect, to shake hands or to close. `FairSpec` of `Writer` has weak fairness of
the write callback, of the send timer and of the end of a closed connection.
`FairSpec` of `Reader` has weak fairness of reading what has arrived, of the write
callback and of the steps of a callback that has begun; the remote sends what it
likes. `FairSpec` of `Instances` has weak fairness of each loop, of the delivery of the
async message and of a call that has begun; nobody has to start, run or close an
instance, and no remote has to connect, to shake hands or to leave.

Deadlock is checked for the closing of an instance and the pool. A remote that
is silent, a closed connection, or a process that has used up its starts and
its instances really stops.

## 4. Findings

The three `bad_` runs each check one sentence of the code that the code breaks.

* `bad_release`: a release build closes nothing. The calls that stop the instance
  are arguments of `assert()` (`chirp.c:226-242`), so the semaphore is never
  looked at and `ch_chirp_close_ts()` never ends.
* `bad_midway`: a connection that has not finished its chirp handshake is in no
  tree, so `ch_pr_stop()` leaves it open and its handlers run on the freed
  instance.
* `bad_threads`: `ch_chirp_set_auto_stop()` and `ch_chirp_close_ts()` are documented as
  thread-safe (`chirp_obj.h:156`, `272`) but read, change and write the flags
  without a lock (`chirp.c:603`): of two calls that overlap one undoes the other.

The same modules refute more of what the comments say. To see it, check the
property alone under the behaviour named:

| property | `Env` | what happens |
|---|---|---|
| `SemaphoreNotNegative` (1 connection) | `early` | a shutdown that begins before the close counts no task, its callbacks after the close give tasks back, and the assertion of `chirp.c:156` fails |
| `FreedWhenDone` (3 connections, 3 remotes) | `stall` | the shutdown timeout takes one task, the request it cannot cancel two more: the instance is freed while callbacks of others are due (`connection.c:496`, `chirp.c:237`) |
| `OldConnectionsValid` (2 connections, 1 remote) | `early`, `reconnect` | a replaced connection shuts down, is freed, and stays in `old_connections` (`reader.c:160`) |
| `DictionaryValid` | `early`, `late` | a handshake after the shutdown began puts the connection back into the dictionary (`reader.c:165`) |
| `LoopsEndClean`, `LoopCanClose` | none | `send_timeout` is initialised with each connection (`writer.c:436`) and never closed: after any connection `ch_loop_close()` fails, which `chirp.c:585` says only breaking things does and `chirp.py:93` asserts it does not; the handle queue of the loop leads through the freed connection |
| `OneWrite` | `slow` | the send timeout shuts the connection down while the part it waited for is in flight (`writer.c:379`) |
| `Complete` (with `LargeSize`) | none | the test for data that is not encrypted yet has its operands swapped, so a part that needs a second round is called back as written after the first (`connection.c:545`) |
| `OneWrite` | `cut` | the connection ends while a part is in flight (`connection.c:411`) |
| `OneWrite` | `eager` | a message is sent while the own handshake is in flight (`writer.c:202`) |
| `CallbackMayBeNull` | `greetfail` | the write of the chirp handshake has no callback, and it is called (`connection.c:541`) |
| `SentIsSuccess` | none | a message written to its end is reported as `CH_PROTOCOL_ERROR` (`writer.c:277`) |
| `EverySendAnswered` (`FairSpec`) | `end` | with acknowledge the connection ends after the last part: no callback, and the timer of a freed connection fires |
| `FilledIsServed` (with `ReadSize = 2`) | none | a read fills its buffer exactly, libuv calls back with nothing, `BIO_write()` of nothing fails, and an orderly remote is shut down (`protocol.c:366`) |
| `BlockedIsReleased` (`FairSpec`) | `impatient` | a second message from the loop thread waits for a mutex that only a callback of that loop unlocks (`writer.c:169`) |

The models follow the code also where no sentence of the repository can be held
against it; what a reader of them meets:

* Start-up. A failed verification leaks `ichirp` (`chirp.c:427`); a failed start
  leaves its handles in the loop and its servers listening (`chirp.c:465`), so the
  next start fails with its own port in use, and never gives its reference of
  OpenSSL back (`encryption.c:97`); the last instance does not free its `SSL_CTX`; the
  identity is filled with one byte copied over and over (`chirp.c:442`).
* A signal between clearing `chirp->_` and removing the instance from the tree makes
  the handler follow a null pointer (`chirp.c:351`, `window`); a second thread that
  races a close writes to freed memory (`race`).
* `RETRIES` and `FLOW_CONTROL` have to differ from zero without acknowledge
  (`chirp.c:719`), where `chirp_obj.h:54-57` wants them to be zero.
* Reading. The size check of a header (`reader.c:246`) adds what is handled to what
  was read, so behind a handshake a short header is accepted; the reader goes on
  after it has refused a handshake, and data is read after a shutdown has begun,
  where a handshake can be taken for a header. One record is read per
  round, so several records in one read stay in the BIO until more comes
  (`protocol.c:381`), and a full BIO, like a record that arrives in two pieces,
  shuts the connection down, and so does a read callback that gets nothing. The length for `uv_tcp_getpeername()` is not initialised. A
  failed TLS handshake leaves the connection open. Parts make the loop of the
  reader endless (`reader.c:356`), because nothing consumes them.
* A walk over a dictionary of more than three connections that shuts each one
  down may pass some over (`protocol.c:104`).

## 5. Proofs

`tlapm` on the seven modules whose names end in `Proof` and on `RBTreeLemmas`; all
obligations are discharged by Z3, Zenon and LS4. The assumptions of each theorem are those that
the modules make of their constants, and the runs evaluate them; where a theorem needs
more of `Env` or of the sizes it says so in an `ASSUME` of its own, and the text below says
what happens without it.

**Closing.** For any finite set of connections, any set of remotes and any `Env`: `TypeCorrect`, `ShutdownSemaphoreExact` and `FreedIsUnreachable`.
`ShutdownSemaphore` alone is not inductive: that a shutdown callback may add two
to the semaphore rests on both handles being open, which rests on requests and
timers existing only where they are. `IInv` adds `HandlesOK`: an open client means
that the timeout handle is open too and that neither is due; a running timeout
belongs to an open client, a shutdown request to one that is open or due, both to
a connection that is shutting down; and the dictionaries hold only connections
that have shaken hands. With it each action is one step of the
proof, and each conjunct it can disturb one step under that.

On top of `IInv` there are more invariants. The first three hold with the same
constants:

* `InstanceIsClosed`. `StopOrder` says that the async message is sent once, that
  `close_check` is opened by it and is from then on the only open handle of the
  instance, and that no close callback is due in the phase in which it is closed;
  so the instance has no handle left when it is freed.
* `KeysAreUnique` and `FoundIsUsable`. `DictionaryOK` says that the members of the
  dictionary have different keys and, unless `late` is in `Env`, are not shutting
  down. A shutdown finds its own connection under its key and deletes it; a
  handshake can only come from a connection that is not yet a member, which is
  `HandlesOK`.
* `NoTaskIsLost`. `TasksOK` adds to `NoLostTask` that the semaphore is zero before
  the close. Each step is a matter of counting: a shutdown adds a request for each
  task, closing two handles adds two callbacks for the one request it takes and at
  most one task, and a close callback takes as many tasks as it stands for, because
  a request that is cancelled is finished by it. With more tasks given back than
  counted (`early`) the semaphore may be too low, but never too high, so
  the close does not wait for ever.
* `SemaphoreIsExact` needs `Punctual`: neither `early`, nor `stall`, nor `reject`. Then
  `TasksOK` also says that before the close nothing is due and after it the semaphore
  equals what is outstanding. Each of the three breaks the count: a shutdown that the
  semaphore has not counted, a timeout that takes the task of a request it cannot
  cancel, callbacks of a connection that was never counted.
* `QuietFreedWhenDone`, `QuietCloseIsBarrier` and `QuietCloseIsSafe` need `Quiet`: peers
  that are at most `dead` or `late`, and no more remotes than sglib's iterator survives
  (`IteratorSafe`, three). The number of connections is free. `QuietInv` adds to the
  invariants above `Known` (a connection that has greeted is in the dictionary, under the
  key of a remote, until it is shut down; so `ch_pr_stop()` finds it, and because keys are
  unique the walk has at most three members) and `Down` (after the close callback every
  open connection is shutting down, and once the prepare handle has seen zero nothing is
  due). `Down` is what makes the step that frees the instance one of `CloseBarrier`, and
  every other step maps to a step of it or a stutter. `midway` and `reconnect` leave
  connections that the walk does not find, a fourth remote one that it may pass over.
  `NoFault` also excludes `late`: a handshake after the shutdown began puts a
  connection back under a key, and freeing it leaves a pointer in the dictionary.

None of these hypotheses can be dropped: with any one of the behaviours they exclude, and
with a fourth remote and connection (`FreedWhenDone`), TLC refutes the property.

**Bits.** `MsbCorrect` states that `ch_msb32()` returns the highest bit of every word
of 32 bits: one lemma about a halving step, used three times, and one about the table
of the last nibble.

**Pool.** For any number of buffers from 1 to 32: `PoolTypeCorrect`, `PoolAgrees` (counter, word and
flags) and `PoolImplementsAllocator`, which takes from `MsbCorrect` that the bit
found is a free one, and from the count of held buffers that there is one.

**Writer.** For any messages, parts of any size and any sizes of record and buffer:
`TypeCorrect`, `AnswersOnce` and `OneMessageAtATime`. Every handler is an operator
on the record `conn`, so there is a lemma per operator: it takes a `Good` connection to
a `Good` one and either leaves the message alone (`Kept`) or answers it and gives the
lock and the timer back (`Over`). `Good` says that a write of a part is only in
flight under the lock and on a connection nobody shuts down, which is what keeps a
late callback from answering a second time. The invariant adds to the
properties that only messages being sent are answered.

With the same constants and in every environment, `Ordered` relates the message in hand to the wire: while a part is in flight, exactly the
filled parts before it are on the wire and as much of it as one call encrypts has been
written (`InPart`); nothing follows the message in hand (`InHand`); what is on the wire
belongs to messages being sent. The lemma `NextIsFirst` says that the part the writer takes
next is the first filled one after the last. It follows that

* the parts of a message are in order and messages do not mix (`PartsAreInOrder`), and a
  message that is answered half sent has closed its connection (`GivenUpIsClosed`): each
  way out of a message but its last part goes through `ch_cn_shutdown()`;
* a part called back as written was written as far as one call of
  `_ch_cn_partial_write()` encrypts (`OneCallIsWritten`), which is all of it if it is not
  larger than the buffer for encrypted data (`SmallPartsAreComplete`). In bytes the bound is
  lower by what TLS adds to the records. `Complete` fails beyond it, see section 4;
* nothing undefined happens to a connection that is `Undisturbed` (`UndisturbedIsSafe`):
  none of `greetfail`, `slow`, `end`, `cut` and `eager`. TLC finds a fault with each of the
  five alone (section 4 says which); failing writes, stalled shutdowns, users that send too early or
  without a connection do not.

**Reader.** For a handshake and headers of any size, at least one message, records of
any length and a BIO that holds a record:

* `UnitsAreSound` needs to know that a reader which is past the handshake has taken
  one, or that the connection is being shut down (`Greeted`).
* `OrderlyRemotesAreServed` rests on `Orderly`, an invariant as long as `odd` is empty:
  the network, the BIO and OpenSSL keep in step (`Lockstep`), the records follow each
  other and end where units end (`RecordsOK`), each side is as far in the two
  handshakes as the other allows (`Stages`), and the reader works at whole units
  (`ChunkOK`). That `odd` is empty is a demand on TCP as well: a record per read
  callback, and no callback with nothing. The step that matters is that the write request is free whenever the
  reader or OpenSSL uses it.
* `UnitsInOrder` drops most of these circumstances: pieces, several records at once,
  early data, failures of TLS and cut connections may happen. `Position` relates
  the number of units taken to the record being read and to what OpenSSL has used:
  before the handshake at most its record was used, behind j headers the reader is at the
  j-th unit of some record.

**Instances.** For any number of instances, threads, starts and configurations:

* `TypeCorrect` (with `Usable` configurations), `OpenSSLStaysUp` and `PortsComeBack` hold in
  every environment. `Order` says which handles an instance has at which stage;
  `OpenSSLInUse` is then inductive, because each user of OpenSSL holds a reference of its own,
  and `PortsGivenBack` with `Ports`, which says how far a start has come with its servers:
  the callback that closes the async handle closes them too. A release build closes neither.
* `NothingFreedIsUsed` (`AliveWhenUsed`) assumes that neither `race` nor `window` is in `Env`:
  with either TLC refutes it. `Apart` says that a thread is only in a call for an instance
  that is open and that was not asked to close, `Quiet` that nothing of an instance is taken
  down before it was asked to. The theorem speaks of signals and threads, not of
  the connections, whose handlers do meet a freed instance (`bad_midway`).

**Trees.** For any finite set of addresses and any keys, `TypeCorrect`, `TreeBalanced`,
`IsDictionary`, `WalkReachesAll` and `DeletingIsSafe`. The argument has four layers.

* *Trees.* `Tree(links, reds, root, nodes, height)` says that a node is the root of a
  red-black search tree of given nodes and black height. It is no recursive operator: it
  says that there is an assignment of sets and heights to the nodes which obeys the rule of
  a tree at each of them. So a tree can be taken apart at its root and put together
  again (`TakeApart` with its two cases `BelowRed` and `BelowBlack`, `PutTogether`), and links or colours elsewhere do not matter
  (`Untouched`). `NodesOf` is a recursive function; `NodesOfTree` shows that of a tree it
  returns the nodes, by the least size of a tree that would be a counterexample.
* *Calls.* Both balance and order are broken while a call is at work. `TreeInv` says for
  each stage what there is instead: the subtree of the innermost call is a tree
  but for one defect (`Grown`: its root and one of its sons may both be red; `Shrunk`: one black
  node less on its paths, if `short`), and for each call on the stack the links above
  make a tree out of what the inner call returns. Each alternative of
  `FIX_INSERTION_DISCREPANCY` and `FIX_DELETION_DISCREPANCY` is a lemma that repairs the
  defect or hands it to the next call. The leaf that replaces a deleted node is put
  under the pointers of the calls between them (`LeafReplaces`). `Balanced` and
  `DictionarySpec` are what `TreeInv` says of whole trees and of members; that no
  assertion of `sglib.h` fails is part of the invariant.
* *Walks of a tree that is left alone.* What was returned can be read off the path
  (`WalkInv`): below each frame the part its count of passed sons stands for, and with the
  last frame nothing else. When the path is empty that is every member, once,
  whichever order is walked.
* *Walks that delete.* `CutInv` holds in every step of every deletion. The nodes of the
  path that are not done with are members, each of them on the side of the one above
  that is being walked; while a deletion is at work, each of their nodes either has the
  call returning to it on that side or is still below the call (`AllHeld`,
  `AllAbove`). A repair after a deletion leaves the links of the short side alone
  (`FixSpares`), so what is ahead of a frame stays ahead: no member is returned
  twice. With at most three members everything that was not returned is covered by
  the frames, and after the first deletion two nodes are left, which no repair turns
  (`SmallStays`), so all three are returned. With four a rotation may lift an unvisited
  node above the path: TLC finds `ToSet(seen) = start` refuted when `IteratorSafe`
  is 4.

Only model-checked is liveness (`CloseEnds`, `ShutdownEnds`, `EverySendAnswered`,
`AllRead`, `CallbackReturns`) and `CloseNeverStuck`, which need fairness or `ENABLED`. Every other property of a
passing run is a theorem, for the environments named above.

## 6. Not modelled

* What would follow the header of a message: `_ch_rd_read_buffer()` consumes nothing
  yet, and nothing releases a message to the user.
* Unlocked updates of the process-wide counters and of the tree of instances by two
  loops at once (`chirp.c`, `encryption.c`): the steps of `Instances` are atomic. Only
  the flags are read and written in two steps.
* Receipts: nothing in the code adds one; of their tree `RBTree` has the walk that frees it.
* Message and address conversions, logging, allocation failures outside start-up.
* Connections without encryption: nothing in the code opens one. Records larger
  than the buffers of a connection.
* TLS beyond its flights and records, and the contents of messages.
* The Python bindings but for the thread of `ChirpPool`; the lists, arrays and
  hash tables of `sglib.h`, which chirp does not use.

## 7. Plan

What would add most next: the message states of the reader once
`_ch_rd_read_buffer()` is written, with their handlers and the pool of
buffers; the process-wide counters updated from several loops; and receipts, once
the code adds one to their tree.
