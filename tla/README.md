# TLA+ models of the kv-db Python client

This directory holds TLA+ models of the Python SDK in
`src/sdk/python/kvdb_client/`, together with the TLC configurations that check
them. The SDK's behaviour lives almost entirely in `client.py`.

## The system

`KVDBClient` talks to a kv-db server through one of two transports, chosen by
`ClientConfig.protocol`:

- **gRPC**: a channel and stub (`_init_grpc`, lines 65-76). Every call except
  `Subscribe` passes `timeout=request_timeout`.
- **HTTP**: a `requests.Session` (`_init_http`, lines 78-81). Calls pass no
  timeout.

Its parts:

1. **Operations** (lines 117-548). There are thirteen public methods: `put`,
   `get`, `delete`, `batch_put`, `batch_get`, `scan`, `prefix_scan`,
   `create_snapshot`, `release_snapshot`, `get_at_snapshot`, `flush`,
   `compact` and `get_stats`. Each one dispatches on the protocol, sends one
   request and decodes the answer:
   - into a value, `True`, `None` or a list;
   - or into a raised `KVDBError`.

   The async wrappers (208-221) run the same methods on a 10-worker thread
   pool, so several calls can be in flight at once.
2. **Subscriptions** (550-586).
   - `subscribe` takes an id from `_subscription_counter` and starts a daemon
     thread. The thread iterates the server's event stream and calls the
     callback while its id is in `_subscriptions`. In `finally` it removes
     the id.
   - `cancel_subscription` removes the id.
   - None of this is protected by a lock.
3. **Connection lifecycle** (83-111). `connect` probes the server.
   `disconnect` does three things in order:
   - clears `_connected`;
   - cancels every subscription;
   - closes the channel or session.

## Modules

| Module | Models | State | Actions |
|---|---|---|---|
| `KVDBClientOps` | the thirteen operations over either protocol, and `disconnect`'s closing of the channel or session, against a server that may fail, answer after the deadline, or never answer | `store`, `snapData`/`snapLive`/`nextSnap` (server), `net` (requests in flight), `reply`, `open` (channel/session not closed), per caller `cpc`, `call`, `ncalls`, `held` (snapshot ids it got), `last` (ghost: last result and the server's outcome for it) | one action per public method (`Put` … `GetStats`), `Disconnect`, `Complete` (decode the reply), `Timeout` (gRPC deadline), and the environment's `Serve` |
| `KVDBSubscriptions` | `subscribe`, the receive-loop thread, `cancel_subscription`, `connect`, `disconnect` at the granularity at which the GIL lets threads interleave | `subs` (`_subscriptions`: id ↦ thread), `counter`, `connected`, `chanOpen`, per application thread a pc and locals, per loop thread a pc, its id, its `inbox` of events, and ghost `cancelReq`/`emitted` | `SubRead`, `SubLoad`, `SubStore` (556-557 as read, load, store), `SubStart`, `CancelCheck`/`CancelDel`, `DiscStart`/`DiscNext`/`DiscDel`/`DiscClose`, `LoopRecv`, `LoopCheck`, `LoopCallback`, `LoopFinallyCheck`/`LoopFinallyDel`, and the environment's `ServerPush`/`ServerEnd` |
| `KVDBAsyncExecutor` | `put_async`/`get_async`/`delete_async` (208-221) on the shared `ThreadPoolExecutor(max_workers=10)` (54), composed with the connection lifecycle: `connect` (83-98) and `disconnect` (100-111) | `nsub`, `nstart` (queue is FIFO, so started calls are a prefix), `busy` workers, `done`, `connected` (`_connected`), `chanOpen` | `Submit`, `Start` (on a closed gRPC channel the call raises `ValueError` at once), `Answer` (server, not fair), `Deadline` and `Cancelled` (gRPC only), `Connect` (the probe succeeds only on a usable transport), `Disconnect` |
| `MCKVDBClientOps`, `MCKVDBSubscriptions`, `MCKVDBAsyncExecutor` | constants for TLC | | |

### Correspondence with the code

- **Decoding.** Each `_grpc_*` and `_http_*` body becomes a decoding
  operator, for example:
  - `GrpcReadResult` is `_grpc_get`, lines 155-167;
  - `HttpListResult` is `_http_batch_get` and `_http_scan`.

  These operators map a response (`Wires`: status, `RpcError`, `success`,
  `found`, `error_message`, pairs) to a result or a raise. `Result(op, w)`
  is the method's protocol dispatch. `KVDBErrors` is the hierarchy of
  `exceptions.py`.
- **Calls.** A call is two steps: `Issue` sends the request and blocks the
  caller; `Complete` decodes the response. On gRPC, `Timeout` models the
  deadline raising `RpcError` (`DEADLINE_EXCEEDED`). After `Disconnect`,
  `Issue` on gRPC raises `ValueError` at once: the stub refuses a closed
  channel, and the adapters catch only `grpc.RpcError`. Over HTTP a closed
  `Session` reopens its connections, so calls go on as before.
  `Disconnect` on gRPC cancels the calls still waiting for a response.
- **The server.** It is the environment, and `ServeOk`/`ServeFail` give it
  any outcome:
  - it may apply a write and answer after the caller has already timed out;
  - a scan may fail after a prefix of the list;
  - HTTP errors come as the status codes in `HttpFailStatus`;
  - a read at a released snapshot is rejected with a status in
    `SnapRejectStatus`.
- **Subscription steps.** Every state change of a loop or an application
  thread is one bytecode-level step:
  - `counter += 1` is a load and a store;
  - `if id in subs: del subs[id]` is a test and a delete.

  Between any two steps the other threads may run.
- **Cancel.** `cancel_subscription` is a test (`CancelCheck`, line 585)
  and a `del` (`CancelDel`, line 586). If the loop's `finally` removed the
  id in between, the `del` raises `KeyError`: the registry is unchanged and
  the cancel does not count as returned.
- **Deadlines.** `Timeout` is enabled only for calls whose stub call passes
  `timeout=` (`GrpcTimedOps`; in the code, all thirteen gRPC adapters).
  The subscription stream (line 566) has none.

## Runs

| Run | Expect | Shows |
|---|---|---|
| `subs_safety` (`SubsSafety.cfg`) | pass | One application thread, two loops. No event pushed after `cancel_subscription` reaches a callback (`NoCallbackAfterCancel`). Closing the channel ends every loop (`ChannelCloseEndsLoops`). A cancelled loop exits once the next event reaches its stream (`CancelledLoopExits`, spec 5: cancellation is cooperative). |
| `subs_disconnect_race` | violation | `DisconnectEndsLoops` fails. The loop's `finally` can remove the id between `disconnect`'s membership test and its `del`. The `KeyError` aborts `disconnect` before `_channel.close()`, so the other subscriptions run on. |
| `subs_id_race` | violation | `NoCallbackAfterCancel` fails with two application threads. Both read the counter before either stores it, so both get id 0. Cancelling one lets the other's registration revive the id, and the cancelled loop keeps delivering. |
| `ops_grpc` | pass | Point, snapshot and stats operations over gRPC, with `disconnect` cancelling calls in flight. Every result matches the server's outcome (`ResultsMatchServer`): `True` only after success, `None` only for an absent key, values and snapshots as the server gave them, a raise otherwise. Every call returns (`CallsReturn`), because every stub call carries `timeout=` and the server need not answer. |
| `ops_grpc_bulk` | pass | Batch and scan operations over gRPC. A stream failing half-way raises rather than returning a partial list. |
| `ops_http` | pass | All thirteen operations over HTTP, with `disconnect`. The same result check (`ResultsMatchServer`). |
| `ops_grpc_errored_read` | violation | A Get response with `found=false` and an `error_message` returns `None` (line 161 tests `found` first). |
| `ops_grpc_deadline` | violation | An expired deadline raises base `KVDBError`, never the exported `TimeoutError`. |
| `ops_http_released_snapshot` | violation | `create_snapshot`, `release_snapshot`, then `get_at_snapshot`. The server rejects the read with 404 and the client returns `None`, as for an absent key (line 456). |
| `ops_grpc_after_disconnect` | violation | A call after `disconnect` raises `ValueError` from the closed channel, outside the `KVDBError` hierarchy. |
| `async_grpc` | pass | Twelve async calls on ten workers, and the server answers none of them. The client may disconnect in between, which cancels the calls in flight and makes later calls fail at once. Every call is still eventually sent (`SubmittedCallsStart`), because deadlines and cancellation free the workers. |
| `async_http_starved` | violation | The same over HTTP. Ten unanswered calls hold every worker forever, so the eleventh is never sent. This shows both the missing HTTP timeout (line 81) and its effect through the pool (line 54). |

Every property of a passing run has a mutant in `PROJECT.json`. Each mutant
is a plausible bug in the mapped definition, and TLC finds it under that
run's configuration:

- an off-by-one in the subscription bound;
- a `del` on a copy of the registry;
- a loop that ignores the channel closing;
- a registry test that skips the event (`continue`) instead of leaving the loop;
- decoders that drop `found` or `raise_for_status`, or return a partial
  stream;
- a stub call without `timeout=` (`get_stats`);
- a deadline timer that never fires in the executor;
- a pool that does not enforce its bound.

## Bounds

- **Subscriptions.** Two subscriptions (`MaxSubs = 2`) and two events per
  stream (`MaxEvents = 2`).
  - That is enough for both races, which need two loops, and for an event
    pushed before and one pushed after a cancel.
  - The safety run uses one application thread, the way most programs use a
    client. The id-race run needs two.
- **Operations.** Two callers and two calls each (`MaxCalls = 2`); the
  released-snapshot run uses three calls on one caller. One or two keys and
  scan limit 1.
  - Two callers give concurrent calls, a late answer to a timed-out call,
    and a disconnect while the other thread waits.
  - Two calls give a read after a write, a release after a create, and a
    call after disconnect.
  - Two keys are needed for ranges, batches and limits.
  - Two values are used where the state space allows. One value is used in
    the large runs: the adapters pass values through unchanged, and every
    wrong result a decoder can produce differs from the right one in kind
    or in the pairs it lacks.
- **Executor.** The code's own pool size (10) and twelve calls, so calls
  queue behind a full pool and behind each other.
- **Symmetry.** Caller symmetry is used only in the runs that check
  invariants alone.

## Fairness

- **Subscriptions.** Loop threads are weakly fair: a started daemon thread
  keeps being scheduled. An application thread that is inside `subscribe`,
  `cancel_subscription` or `disconnect` is also weakly fair
  (`UserContinue`). Neither the application starting a call nor the server
  is fair.
- **Operations.** `Complete` is weakly fair, since a delivered answer
  unblocks the caller. So is the gRPC `Timeout`, since the deadline timer
  fires. The server is not fair, so it may never answer.
- **Executor.** A worker taking a queued call (`Start`) is weakly fair, and
  so are the gRPC `Deadline` and the cancellation of an RPC by a closed
  channel (`Cancelled`). `Submit`, `Connect`, `Disconnect` and `Answer`
  are not.

## Not modelled

- **`ClientConfig`** (lines 21-43) is a dataclass of settings. Its only code,
  `__post_init__`, derives `http_base_url` from `server_address` by adding
  1000 to the port. No action depends on that string. The protocol and the
  timeout choices enter the models as constants.
- **Channel options and compression** (lines 67-73) tune the transport and
  change no control flow.
- **`examples/basic_example.py`** holds sequential demo scripts with no state
  of their own. Each opens a client in a `with` block and makes calls that
  the operations module already covers. What the scripts print depends only
  on the server.
- **`src/test_network_client.py`** is a WebSocket JSON-RPC test harness. Each
  test awaits the reply to every request before sending the next, and the
  tests run one after another. It has no concurrency, retry or shared state
  to explore.
- **Cancelling an async call**, which the spec calls best-effort and the
  code does not implement.
- **`ScanOptions.prefix`/`reverse`**. They are never sent: the model's scan
  requests carry only `start_key`, `end_key` and `limit`, as the code does.
- **Results of async calls.** The executor module abstracts a call to how it
  ends. Its results are those of the synchronous method, which
  `KVDBClientOps` checks with concurrent callers.
- **`connect` racing `disconnect` on another thread.** `KVDBAsyncExecutor`
  takes both as atomic steps of the one application thread, so it says
  nothing about what `is_connected()` reports during such a race.
- **Malformed HTTP bodies.** A 2xx body without its expected key
  (`data['value']` at line 176, likewise 293, 397, 459) raises `KeyError`.
  The server is modelled as sending well-formed bodies.
