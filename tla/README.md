# A TLA+ verification of Krpc

Krpc is a small RPC framework in C++: a client calls a method of a protobuf stub, the framework
finds a provider through ZooKeeper, sends the request over TCP and fills in the response. The
repository also has an epoll server with a thread pool that is meant to replace muduo, an
unfinished second framework (Drpc), an example service, and two programs that try out UCX as a
transport. This directory models the parts that carry the logic, checks them with TLC on small
instances, and proves the central facts with TLAPS for every instance. Paths below are relative to
the repository.

## The system

| Component | State | Operations | Meets | What is hard |
|---|---|---|---|---|
| `ThreadPool` (`src/include/EpollServer.h`) | deque of tasks, `running_`, workers asleep on a condition variable | `enqueue`, the worker loop, the destructor | called by `EpollServer` | wake-ups sent after the unlock; destruction with tasks waiting |
| `EpollServer` (`src/epollServer.cc`) | `clientFds_`, `running_`, the epoll set | `start`, `epollLoop`, `handleNewConnection`, `handleReadEvent`, `closeConnection`, `stop` | pool, kernel, callbacks | level-triggered events queued twice, descriptor numbers used again, `stop` against workers |
| `KrpcChannel` (`src/Krpcchannel.cc`) | `m_clientfd`, names, `m_idx` | `CallMethod`: lookup, connect, frame, send, recv, close | `ZkClient`, `KrpcController`, provider | a number kept after close, one recv per answer, error paths that say nothing |
| `KrpcController` (`src/Krpccontroller.cc`) | failed, canceled, timeout | `SetFailed`, `StartCancel`, ... | read by the caller | cancel and timeout have no effect on a call |
| `KrpcProvider` (`src/Krpcprovider.cc`) | `service_map`, connections | `NotifyService`, `Run`, `OnConnection`, `OnMessage`, `SendRpcResponse` | muduo, `ZkClient` | requests in pieces, crash while a method runs |
| `ZkClient` (`src/zookeeperutil.cc`) | handle, global `is_connected` | `Start`, `Create`, `GetData`, `global_watcher` | ZooKeeper | exists/create races, sessions that outlive their process |
| `Krpcconfig` (`src/Krpcconfig.cc`) | `config_map` | `LoadConfigFile`, `Trim`, `Load` | everyone | boundaries of lines and strings |
| `KrpcApplication`, `KrpcLogger` | singleton, glog | `Init`, logging | | nothing |
| Example (`example/caller`, `example/callee`) with the code protoc generated (`user.pb.*`, `Krpcheader.pb.*`) | messages with unknown fields, success and failure counters | stub, `CallMethod` dispatch, parse, serialize, merge; `UserService`; counting | `KrpcChannel`, `KrpcProvider` | defaults that look like answers, prefixes that parse, a base method with a null controller |
| Drpc (`Drpc/src/DrpcChannel.cpp`, `DrpcController.cpp`) | `m_sockfd`; failed, canceled, cancel callback | `Connect`, `Close`, `CallMethod`; `StartCancel` from another thread | each other, a peer | the callback closes the socket under a running call, nothing is locked |
| UCX hello world (`rdma_exp/ucp_hello_world.c`) | endpoint status, worker events, a socket | address exchange, wait loop with sleep, send, barrier, emulated failures (`-e`) | the other process, UCX | lost wake-ups, order of destruction, detecting a death |
| UCX example server (`rdma_exp/ucp_example_server.c`) | `conn_request`, `connection_closed`, `am_data_desc` | listen, `client_server_do_work` over stream, tag and AM, FIN, close | clients, UCX | callbacks that overtake the loop, clients that arrive or die at any time |

What makes each part correct: the pool runs every task once, in order, and its destructor drains
it; the server loses no socket and no data, and `stop` returns; a call talks on its own
connection, its answer is its own, its request runs at most once, and it returns; what a serving
provider published stays listed, and lookups return; the configuration means what its lines say;
a Drpc call reports what happened to it, and a cancel closes no other thread's descriptor;
what the example client counts as a success has happened; the UCX programs end, and their exit
status tells what happened.

## Modules

Proofs are in modules of their own; `MC*` modules only give constants their values for TLC.
Operators marked *Mutant* in a comment are deliberate errors that no specification uses: each
property was seen to fail when one of them takes the place of the definition after it.

- **TaskPool** is what a pool promises: tasks are submitted, started in order, finished, and after
  the pool is closed and drained it terminates.
- **ThreadPool** models the pool's code: every critical section and every notification is a step,
  sleeping workers may wake up spuriously. `ImplementsTaskPool` maps `tasks` to the pending tasks,
  what running workers hold to the active ones, and the destructor's progress to the phase.
- **ThreadPoolProofs** proves its invariants and the refinement of TaskPool.
- **EpollServer** models the epoll thread, the workers in `handleReadEvent` and `closeConnection`,
  and the thread in `start` and `stop`. One system call or one block under `mutex_` is one step.
  The pool appears as TaskPool describes it. The kernel is environment: descriptor table, backlog,
  level-triggered readiness, data in numbered chunks. A socket that `accept` returned blocks until
  `fcntl` has changed it (`NonBlock`): a task for an older use of the number that reads it in that
  window blocks its worker (`ReadBlocks`, stage "blocked"), and a non-blocking flag set later does not
  wake it. Every call that sets a socket up may fail, which closes the client (`SetUpFails`), and so
  may `epoll_wait`, which ends the epoll thread (`EpollFails`). `freed` is history: the numbers that
  were closed under a client that had hung up. The unlocked loop of `stop` races with `erase`; the flag
  `torn` records the race and lets the loop end early or go on.
- **EpollServerProofs** proves its safety properties and the action property about closing.
- **KrpcWire** is the request and the answer as sequences of cells, one per protobuf field, and what
  `OnMessage` and `ParseFromArray` make of a prefix or a run of them. proto3 omits default fields,
  so a request with default arguments has no size cell; this is why a cut header still parses.
- **KrpcCall** composes client threads with their channels and controllers, the shared descriptor
  table of the client process, TCP connections and a provider that may crash and restart. Steps
  are the system calls of `CallMethod` and the callbacks of the provider; between `Socket` and
  `ConnectOk` or `ConnectFail` the number is open and not connected. `send` may take a part of the
  frame, which the code takes for success, and it may fail. A channel keeps `m_clientfd` after `close`,
  as the code does.
- **KrpcCallProofs** proves what holds of every call, and what holds with one call per channel.
- **KrpcRegistry** models providers that register (`Run`, `Create`) and client threads that look
  addresses up (`Start`, `GetData`), one step per ZooKeeper request; ZooKeeper's nodes and sessions
  are environment. `zookeeper_init` may give no handle, which ends the process (`InitFails`,
  `ClientExits`). `Expire` ends the session of a dead process or, when `Flaky`, of a live one; then
  requests fail, too, and a `zoo_create` that fails may have made its node. `met` is history: what each
  `zoo_exists` of a method was told.
- **KrpcRegistryProofs** proves the safety properties of registration and, in its last section, what
  KrpcConfig loads, which is where the addresses come from.
- **KrpcConfig** reads a file in pieces as `LoadConfigFile` does; the reference beside it says what
  the file's lines assign without reading it in pieces.
- **DrpcChannel** models Drpc's `TcpChannel` and `DrpcController`: the thread that connects, calls and
  closes, and the thread that cancels. Every access to a shared member and every system call is a step,
  the assignments of `Reset` among them. The channel is not destroyed, so the `Close` of the destructor
  is left out. Another thread opens one descriptor, so that a number closed too early is seen to be used
  again; peers write and close as they like. `overlap`, `late` and `disturbed` are history. Drpc is
  unfinished (`DrpcController.h` does not declare what `DrpcController.cpp` defines, and there is no
  server); the model follows the two source files.
- **DrpcChannelProofs** proves its safety properties.
- **PbCodec** is the generated code. protoc unrolls the same functions for every message, so a
  message type is the list of its field kinds and `_InternalParse`, `_InternalSerialize` and
  `MergeFrom` are one operator each. Bytes are tagged values; an integer has the sign bit
  `SignBit` (2^31 in the code) and varints are twice as wide, so that sign extension, truncation and
  wrapping are seen.
- **UserRpc** composes PbCodec with Kclient's counting, the stub, the provider's dispatch and
  `UserService`. Of a channel it keeps the outcomes that KrpcCall shows; every call has a connection of
  its own, so a client may call again while the provider still works on its previous request. A request
  may arrive whole or in part (`torn`); what `OnMessage` makes of a part is what KrpcWire says: a method
  with an empty request, or nothing. Kclient itself never calls `Register`; any user of the stub may,
  and the client of the model does.
- **UserRpcProofs** proves what the generated code reads of what it wrote, and the properties of
  UserRpc.
- **UcxHello** models both processes from `main` to their exit, one system call, UCX call or turn of
  a progress loop per step. UCX is an environment that puts events in front of a worker; `armed`
  and `signal` are its event fd. `Fault` marks every failure that `-e` does not emulate.
- **UcxHelloProofs** proves that no wake-up is lost, that the barrier protects the workers and what
  exit status 0 means.
- **UcxServer** models the server, from its start-up, and its clients. `Handled` is the number of events
  that one `ucp_worker_progress` handles, which UCX leaves open. Where `Fails`, every UCX call and
  allocation whose failure the code handles may fail, in the server and in clients, and so does the
  fetch of a rendezvous message whose sender has died. `seen` is history: a FIN that was dropped, the
  clients that were refused (rejected by the listener, or there was none), the clients of which one
  progress call brought two messages, and the processes in which a call failed. The server process
  itself is not killed.
- **UcxServerProofs** proves its safety properties.

## Runs

| Run | Shows | Bounds |
|---|---|---|
| `thread_pool` | exactly-once, no lost wake-up, draining, the destructor returns, refinement of TaskPool (order, liveness) | 3 workers, 2 producers, 4 tasks: more tasks than workers, two notifications in flight |
| `epoll_safe` | no socket is orphaned or unwatched, no data handled twice or lost, `stop` closes the clients, the two ways in which a live client is closed | 2 connections, 2 descriptors, 2 workers, 1 chunk each, queue of 2; symmetric in connections and workers |
| `epoll_live` | `stop` returns, hang-ups are noticed | 3 connections, 2 descriptors, 1 worker, no chunks, queue of 1: accept can run out of numbers, a number is used again, a late task can block the only worker on one client while another hangs up |
| `call_whole` | own socket, own answer, what an answer and what silence prove, every call returns | 2 threads with one call each, 2 descriptors, 1 crash, interrupted send and recv, whole messages |
| `call_reuse` | at most one execution and no unexplained open socket, with channels used twice | 2 threads with two calls each, 2 descriptors, short sends and fragments, interrupts, failed serialization; symmetric in threads |
| `call_framing` (violation) | a request in pieces runs with default arguments | 1 call |
| `registry` | exits explained, what a serving provider's listing depends on, lookups return | 2 providers with 2 processes each, 1 method, a client with 2 lookups (the second finds `is_connected` set), crashes, unreliable sessions and requests |
| `config_load` | the map holds what the lines assign, first assignment first | all 97656 files of up to 7 characters, buffer of 6 |
| `drpc_channel` | `done` and controller agree, a success is all that was left of the stream, descriptors safe unless a cancel overlaps `Connect` or `Close`, calls end with the stream | 2 calls, 2 connections, 1 cancel, 2 descriptors, requests of up to 2 units, answers of up to 2 pieces: a partial send, a second piece, and a second call for a late cancel to hit |
| `user_rpc` | requests are dispatched as called, or with an empty request when cut, messages read in pieces merge to the whole, answers are this call's, what is counted as a success | a client with 2 calls that may overlap in the provider, 2 provider processes, integers of 2 bits (sign bit 2), so that -1 + -1 and 1 + 1 use the sign bit and the sum wraps; every message with and without an unknown field |
| `ucx_hello` | no lost wake-up, no worker destroyed under an open endpoint, what exit status 0 means, both processes end | the program's own two processes, all 4 failure modes and 3 wait modes, faults anywhere |
| `ucx_server` | what the server holds in each iteration, what a client's exit tells, when the server ends, clients end | 2 clients, 3 iterations (a first, an inner and a last one), 3 interfaces, eager and rendezvous, several events per progress, deaths of clients, failing calls anywhere |

Two actors of each kind are enough for the races named in `PROJECT.json` ("hazards"): each is
between two threads, two processes or two uses of one number. Deadlock checking is off where the
system may really stop: a stopped server, a client that made its calls, a call that waits for an
answer that never comes, a file read to its end. `epoll_live` needs its third connection for a client
that hangs up while the only worker is blocked on another one, and no second worker, as a worker that is
free would notice. Two clients of `user_rpc` share nothing but the provider, which the two connections
of one client share as well.

**Fairness.** Only threads of the program that can run are assumed to run: workers and the destructor,
the epoll thread, the workers and the body of `stop`, the steps of `CallMethod` (recv when something
arrived), the two threads of DrpcChannel in an operation, the provider's event loops, the steps of
`Run`, the watcher thread, the processes of UcxHello and UcxServer, which poll. All of it is weak
fairness, which the operating system's scheduler gives. ZooKeeper is assumed to accept connections, to
end sessions of dead processes, and to have carried out or dropped the requests of an ended process
before it is restarted. UCX is assumed to deliver what was sent and, with `-e`, to report a dead peer
(`Detect`): that mode sets `UCP_ERR_HANDLING_MODE_PEER`, which the keepalive mechanism serves; without
`-e` nothing is assumed. `UserRpc` has no fairness. Nobody must call, connect, send, hang up, crash or
restart, and no call has to fail. `StopReturns` and `StopClosesClients` except runs in which a worker
erased from `clientFds_` while `stop` iterated over it: that is a data race in the code. `HangupNoticed`
also excepts a server whose epoll thread has left its loop on an error, and one all of whose workers are
blocked on silent clients; without the latter exception TLC refutes it. `CallReturns` assumes whole
messages and a published method, `CallEndsWithStream` that the call was not canceled, and `ClientEnds`
that no client died, no call failed and no FIN was dropped: each exception covers a wait the code may not
get out of.

**Findings.** The violation run corresponds to a statement in the repository, quoted in
`PROJECT.json`. The models contain more behaviour of this kind; properties that would forbid it
are stated with the exception spelled out, or not at all:

- `close(m_clientfd)` does not reset `m_clientfd` (`src/Krpcchannel.cc:170`), so the next call
  through a channel sends on a number that may by then be another thread's connection.
- `Create` does nothing when a node exists, whoever owns it (`src/zookeeperutil.cc:74`). Of two
  providers that register together one may rely on the other's node, which goes with the other's
  session. A provider that is restarted before its old session has expired relies on its own old nodes,
  and serves unlisted from the moment that session ends, on a reliable network, too. An error of
  `zoo_exists` is taken for "exists". `ServingIsListed` names these cases and no other.
- `Kclient` counts a `Login` as a success when there was no connection or the connection ended early:
  nothing is reported and the errcode of an empty response is 0 (`example/caller/Kclient.cc:65`). An
  `Add` escapes this only because its sum is compared, with 123 + 456 whatever the operands were.
- `OnMessage` passes a null controller (`src/Krpcprovider.cc:179`); a call of the published but not
  overridden `Register` makes the generated base method call `SetFailed` on it, and the process dies.
- In the UCX hello world the branches after a failed send are the wrong way round with respect to
  the comment in them (`rdma_exp/ucp_hello_world.c:445`), and a server that closes during the
  address exchange makes the client exit with status 0 (`:552`).
- In the UCX server a stream client's death ends the server, below the comment "Server is always up
  listening" (`rdma_exp/ucp_example_server.c:774`, `:797`); a receive by tag or AM does not notice
  the death. Two eager AMs in one progress call overwrite each other (`:359`), and a FIN that comes
  before the client has registered its callback is dropped, after which both wait (`:720`). Clients
  that arrive while another is served are queued, not rejected; only those whose requests one
  progress call handles together are (`:617`). A client whose endpoint could not be created leaves its
  request in the queue or with the server, and a call that fails in the server ends it for all clients
  (`:787`).
- epoll is level-triggered, so a descriptor at end of file is queued again while its first task
  waits; both tasks read 0 and both call `closeConnection`, and the second `close` may hit a client
  that was accepted under the same number in between (`src/epollServer.cc:302`). A client may also lose
  its connection because it could not be set up (`:217`, `:227`). `ClosedOnlyForAHangup` says that
  before `stop` a live client is closed in no other way. Two workers that read one connection may hand
  its data to the callback in the wrong order (`:197`); nothing in the code promises an order.
- A late task that reads a number between `accept` and `fcntl` blocks its worker until that client
  sends or hangs up (`src/epollServer.cc:217`, `:257`); a destructor of the pool would wait for it.
- In Drpc, close from another thread does not wake a blocked recv, so a canceled call may wait for
  ever (`Drpc/src/DrpcChannel.cpp:110`); a cancel just before `CallMethod` is wiped out by `Reset`
  (`:145`); `StartCancel` that overlaps `Connect` or `Close` may close another thread's descriptor
  or lose the new socket (`:55`), and one that overlaps the next `Reset` may call an empty
  `std::function` (`Drpc/src/DrpcController.cpp:61`). A second call on a connection that the peer
  has closed reads zero bytes and succeeds with an empty response (`DrpcChannel.cpp:118`);
  `SuccessIsWholeStream` says that a response is what earlier calls left. Between `close` and the reset
  of `m_sockfd` by the canceller the caller may send or receive on another thread's number (`:79`).
- `CallMethod` returns without `SetFailed` when connect fails, and takes a recv of 0 bytes for an
  empty response (`src/Krpcchannel.cc:100`, `:154`); callers see no failure.
- After an error path that keeps the socket, the next call through the channel is sent under the
  old method name and may read the old call's answer (`src/Krpcchannel.cc:83`). `AnswersOwnRequest`
  therefore holds for one call per channel only.
- When a lookup finds no node, `m_idx` has its old value and `substr` may throw
  (`src/Krpcchannel.cc:93`; the state "thrown" of KrpcCall).
- A request that the provider drops (cut by TCP, unknown method) leaves the caller in recv: the
  timeout of `KrpcController` is used nowhere, and `StartCancel` sets a flag nobody reads.
- `Start` waits for a flag of the process, so a second client in it does not wait for its own
  connection (`src/zookeeperutil.cc:63`).
- `GetData` returns an uninitialized buffer that `zoo_get` does not terminate
  (`src/zookeeperutil.cc:107`; the value `Garbled` of KrpcRegistry).
- `Trim` leaves a value of blanks only as it is, and a line longer than the buffer is read as
  several (`src/Krpcconfig.cc:57`, `:18`); `FirstAssignmentWins` is up to blanks and for lines that
  fit.

## Proofs

**ThreadPool**, for any sets of workers and producers and any number of tasks. The invariants are
not inductive alone: a worker may leave only when the deque is empty, and nothing but the program
counters says that no producer is left by then. `Shape` adds that a worker holds a task exactly
while it runs one, that `running_` is false exactly after the destructor began, which needs every
producer to have returned, and that a worker that has left saw a stopped, empty pool. `IndInv` is
`TypeOK`, `Shape`, `Fifo`, `ExactlyOnce` and `NoLostWakeup`; one lemma per part shows that every
action preserves it. `TypeCorrect`, `TasksRunOnceInOrder`, `WakeupsArrive` and `DestructorDrains`
follow, and with `IndInv` every step is a step of TaskPool or a stutter (`Refinement`).

The assumption that no `enqueue` overlaps the destructor is the usual one for destroying an object;
it is a guard of `DtorStop`.

**EpollServer**, for any connections, descriptors, workers, chunks and queue bound, without fairness
(`SafeSpec`). `NoSocketOrphaned`, `NoConnectionDeaf`, `StopLeavesNothing`, `ChunksOnce` and
`ClosedForAReason` follow from `EpollInv`. Besides types and the descriptors in each thread's hands
(`ThreadInv`) it says: behind the cursor of `stop` everything is closed and the epoll thread has left
(`StopInv`), without which `StopClosesClients` says nothing about the loop; an unwatched descriptor is
on its way into epoll or out (`WatchInv`); a socket holds the last chunks of what was sent, in order
(`InboxInv`), and each earlier chunk is with one worker or was handled once (`TakenInv`). The copies
that `EachChunkOnce` adds up are then three sets of at most one member that exclude each other.
`ClosedOnlyForAHangup` needs what a queued task has behind it, before `stop` (`ReasonInv`): epoll
watches only open sockets that are set up (`InterestOK`); a descriptor that was reported and is not read
yet is such a socket, or its number was freed before under a client that had hung up (`PendingOK`), so
that only a late task can block (`BlockedOK`); a worker on its way to `close` is late in this sense, or
its socket's client has hung up (`ClosingOK`). The only assumption added to the module is that the
mark for a free descriptor is not a connection.

**KrpcCall**, for any number of threads, descriptors, methods and crashes, whatever TCP does.

- For any number of calls per channel `CallInv` is inductive, and `RunsAtMostOnce`, `SocketsAccounted`
  and `SilentHasNoEffect` follow. At most one run is not inductive: nothing in a provider's count says
  that its request is not under way once more. `OnceInv` says that the cell which announces a request is
  at one place at most, on whatever connection, and that the call has not run while it is there;
  `SentInv` that no byte of a call is anywhere before its send, nor after it returned in silence;
  `ConnectInv` that a call which has not connected has no connection; `ReturnInv` that a call has an
  error or a response when it closes; `HoldInv` that the connection a call made is the one its
  `m_clientfd` stands for. With these, a second use of a channel may send on another call's connection
  and still duplicates nothing.
- If each channel makes one call, as `example/caller/Kclient.cc` does, then `OwnInv` is inductive too:
  `m_clientfd` stands for this call's connection whenever it is used (`OneCallOwnsItsSocket`), the
  channel's name is the call's method, and every byte, run and answer on a connection is of the call that
  opened it (`AnswersAreOwn`). The argument is that a number belongs to one thread from its `socket` to
  its only close. With a second call this is false (`src/Krpcchannel.cc:170`, `:83`).
- If moreover TCP delivers whole messages, `WholeInv` says that the request is the frame as it was
  built and that an answer is there only after its run, and `AnswerProvesExecution` follows. With
  fragments it is false: the run `call_framing` shows a request that is run with default arguments.

**KrpcRegistry**, for any providers, methods and clients, any number of restarts, with reliable and
unreliable sessions; the theorems are about `SafeSpec`, the specification without fairness.
`ServingListed` and `ExitsExplained` follow from `RegInv`: a session belongs to a process that was
started, a live one ends only if `Flaky`, and a process that waits for its session owns nothing
(`SessionsInv`); the methods still to do, the one being created and the stage of `Run` fit together
(`ProgressInv`); a node that appears between a provider's `zoo_exists` and its `zoo_create` is another
provider's, as `Create` looks first and can only meet a node that was not there before (`RaceInv`); what
was not asked has no answer yet (`MetInv`); and of every method a provider has passed, the session it
relies on has the node or has ended (`ListedInv`). The last part is what a step of the *other* provider,
a request that fails after it took effect, or an expiring session could break.

**UcxHello**, for every set of failure modes and wait modes, with and without faults.
`NoLostWakeup` needs only that a sleeping client is armed and that an event for an armed worker
signals (`SleepInv`). `BarrierProtectsWorker` is the deeper one: a process destroys its worker after
it has read something from the socket, and nothing local says that this was the peer's barrier
rather than a left-over of the address exchange. `HelloInv` supplies it: endpoints and sockets
follow the stages of `main` (`StageInv`); `failure_handler` runs only for a peer that has ended
(`FailureInv`); what the client can find in its socket is counted against the stage of the server,
and nothing reaches the server's socket before the client has closed its endpoint (`OobInv`); and a
process that leaves has a peer that is through or will never have an endpoint (`OverInv`). One lemma
per part has one step per action; they use `Effects`, which restates each update of a process's
record field by field.

`StatusZero` uses the same invariant with one more part, `ZeroInv`: where a 0 in `ret` comes from,
which for the server is the client's barrier and so depends on the client's stage.

**DrpcChannel**, for any number of descriptors, connections, calls, cancels and pieces.
`DoneAgreesWithController`, `WholeAnswer` and `DescriptorsSafe` follow from `ChannelInv`: the verdict is
a failure exactly when the controller's flag is set, and a running call has none (`VerdictInv`);
`m_sockfd` names a connection of this channel except between `close` and the reset of the number
(`SocketInv`); as long as no `Close` of the canceller has met a `Connect` or `Close` of the caller,
whoever is in `Close` has the number to itself (`CloseInv`); and what an undisturbed call has read is
what its peer has written beyond what earlier calls had read of the connection, which `call.before`
notes (`StreamInv`).

**UcxServer**, for any clients, any number of iterations, every interface, eager and rendezvous, with
and without deaths of clients, failing calls and several events per progress call, without fairness
(`SafeSpec`). `MessagesHeldInOrder`, `ClientsServedOrRejected` and `ServerEndIsExplained` follow from
`ServerInv`. The server's loop only counts; that its count is the client's is what the invariant has to
say. The messages a client's channel still has follow those the server has taken, then come an `Ack` if
the client had its FIN, and `Down` (`ChanOK`); what a client has sent is in the channel or taken
(`SendOK`); the server's iteration is the number of messages it holds, and in AM the callback may be
ahead of it (`ServeInv`), in which case the buffer has the next message as long as no other came over it
(`BufferInv`). A client asks for a connection once, so a request in the queue is of a client that is
neither served nor refused (`QueueInv`, `RefuseInv`). A FIN exists only after the last iteration
(`FinOK`); a client sees its endpoint fail only if it was refused or the server has ended (`TroubleOK`);
a client that the server has left has ended well, has died or had a call that failed (`PastOK`); and a
server that waits for its rendezvous FIN to be fetched hears of that before the client's close
(`FetchOK`), without which the server could end with nobody dead and no call failed. The only assumption
added is that the marks for a null `conn_request` and for the server are not clients. TLC has checked
`ServerInv` with three clients and two iterations, and with two clients and three.

**PbCodec and UserRpc**, for any clients, calls, operands, provider processes and any sign bit of an
`int32`. `_InternalParse` loops over bytes and `_InternalSerialize` over fields, so what they compute
takes induction; the library's induction rule is beyond the provers, but the least number of a set is
not, and `Induction` states the rule with the set of the numbers that have the property. A message is
then described by the set of the fields it writes (`Written`): any sequence of them is read without an
error and gives a part of the message (`ReadAny`), two such parts merge to what their concatenation
gives (`MergeAny`), and what Serialize writes gives the whole (`ReadWritten`, from which `RoundTrip`).
This is for every type made of the kinds of fields that the two .proto files use. A `ResultCode` inside a
message is taken to be absent or empty, which is what `UserService` sends; the merge of two filled ones
is not covered.

`Dispatched`, `PiecesOfMessages`, `AnswersOfTheCall` and `RealSuccess` follow from `RpcInv`, which
speaks of each connection: what is on its way is the serialization of its call (`OkFrame`); what the
provider runs is that call, or, if the request was cut, its method with an empty request (`OkRunning`);
the answer under way is the serialization of what the method computed for it (`OkAnswer`); a connection
that was not made has nothing (`OkFresh`); and a client that returned has a part of that answer, or none
and nothing was reported (`OkCall`, `OkReturn`). None of the four properties is inductive without it: a
provider that crashes between reading and answering, or is still busy with an earlier call, must leave
nothing that the client's next call could take for its own. TLC has checked `RpcInv` at the bounds of
`user_rpc`, with the witness of its one unbounded quantifier written out. Two assumptions are in the
modules: the sign bit is not 0, and a request is shorter than what `args_size`, a `uint32`, can say,
which the code takes for granted where it assigns a `size_t` to it.

**KrpcConfig**, for any characters, any file and any buffer (`ConfigLoaded`). `FirstAssignmentWins` only
speaks of files whose lines fit the buffer, so `LoadInv` says of these that fgets stops at a start of a
line or at the end, and that the map holds what the lines before that point assign (`AtStart`). The
work is in one turn of the loop (`TurnHeld`): the code trims the piece with its newline, finds the '=' in
what is left, cuts there and trims both halves, while the reference cuts the line at its first '=' and
strips the halves. Both are stretches of the line, so the lemmas speak of positions: a text has one
stretch that Strip keeps (`Core`), blanks added around a stretch do not move it (`StripWider`), and a cut of
a cut is a cut of the whole (`PieceOfPiece`). TLC has checked `LoadInv` at the bounds of `config_load`.

**What is only model-checked.** Liveness, because fairness and ENABLED are out of the prover's reach,
and with it that TaskPool's liveness carries over to ThreadPool. Every safety property of a passing run
is stated by a theorem.

## Not modelled

`KrpcApplication` (option parsing, a singleton under one lock), `KrpcLogger`, `rdma_exp/generate_tpch.c`
(writes random rows), `src/Communication.cc` (commented out as a whole), the helpers with timeouts and
`GetChildren`, which nothing calls, the copies of Krpc's provider, configuration and application in
`Drpc/src`, and of the generated code arenas, swapping, reflection and unused accessors. muduo,
ZooKeeper, UCX, protobuf's runtime and the kernel are environment. SIGPIPE is taken as ignored, except
in DrpcChannel, which has no muduo to ignore it. Memory (requests are never deleted) is not part of the
models, nor, outside PbCodec and UserRpc, are the contents of messages. `EpollServer` is taken to have
its callbacks set before `start`.

## Plan

Done so far: TaskPool, ThreadPool, KrpcWire, KrpcCall, KrpcRegistry, KrpcConfig, EpollServer,
DrpcChannel, PbCodec, UserRpc, UcxHello and UcxServer with their proofs. Left:

1. EpollServer after `stop`: destruction of the members while the pool still has tasks.
2. A provider's nodes under two methods and two threads of a client in one run of KrpcRegistry, which is
   too large as it stands; KrpcController with `Reset` and one controller for several calls.
3. A composition of KrpcRegistry and KrpcCall, so that the lookup's outcome is the registry's.
