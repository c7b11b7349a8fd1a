--------------------------- MODULE KVDBClientOps ---------------------------
(***************************************************************************)
(* The request/response operations of KVDBClient (src/sdk/python/         *)
(* kvdb_client/client.py): every public method other than the             *)
(* subscription ones.  Each dispatches on config.protocol to its gRPC or  *)
(* HTTP adapter, which sends one request and decodes the one response     *)
(* (for gRPC scans, one response stream) into a return value or a         *)
(* KVDBError.                                                              *)
(*                                                                         *)
(* Callers are the threads that share the client: the application thread  *)
(* and the ThreadPoolExecutor workers behind put_async / get_async /      *)
(* delete_async.  Each has at most one call outstanding.                   *)
(*                                                                         *)
(* The server is not part of this repository; it is modelled as the       *)
(* environment: a store with snapshots that serves each request at most    *)
(* once, at any time (also after the caller gave up), or never, and        *)
(* answers with any wire encoding of its outcome the protocol allows.      *)
(* Lists of pairs are abstracted to sets: the client neither sorts nor     *)
(* deduplicates them, it hands on what the server sent.                    *)
(***************************************************************************)
EXTENDS Naturals, FiniteSets

CONSTANTS
    Protocol,          \* config.protocol: "grpc" or "http"
    CallOps,           \* the methods the application calls in this run
    Callers,           \* threads issuing calls on the shared client
    Keys,              \* keys, a set of numbers so that ranges make sense
    Vals,              \* non-empty string values
    Limits,            \* `limit` arguments passed to scan / prefix_scan
    MaxSnaps,          \* bound on snapshots the server creates
    MaxCalls,          \* bound on calls per caller
    ErroredReadFound,  \* `found` values a gRPC server may send with an error
    HttpFailStatus,    \* status codes an HTTP server may fail a request with
    SnapRejectStatus   \* status codes it rejects a read at a released snapshot with

Ops == {"put", "get", "delete", "batch_put", "batch_get", "scan",
        "prefix_scan", "create_snapshot", "release_snapshot",
        "get_at_snapshot", "flush", "compact", "get_stats"}

ASSUME /\ Protocol \in {"grpc", "http"}
       /\ CallOps \subseteq Ops \cup {"disconnect"}
       /\ Keys \subseteq Nat /\ Keys # {}
       /\ "" \notin Vals
       /\ Limits \subseteq Nat
       /\ ErroredReadFound \subseteq BOOLEAN
       /\ HttpFailStatus \subseteq {404, 500}
       /\ SnapRejectStatus \subseteq {404, 500} /\ SnapRejectStatus # {}

Nil     == "nil"                   \* no value stored under a key
SnapIds == 1 .. MaxSnaps
NoSnap  == 0                       \* protobuf default of snapshot_id
BoolOps == {"put", "delete", "batch_put", "release_snapshot",
            "flush", "compact"}
ReadOps == {"get", "get_at_snapshot"}
StreamOps == {"scan", "prefix_scan"}

Pairs == [key : Keys, value : Vals]          \* a KeyValue
KeySets == SUBSET Keys \ {{}}
Batches == UNION {[S -> Vals] : S \in KeySets}

\* The server's logical outcome of one request.
Outcomes == [kind : {"ok", "absent", "fail", "stats"}]
            \cup [kind : {"value"}, v : Vals]
            \cup [kind : {"snap"}, v : SnapIds]
            \cup [kind : {"list"}, v : SUBSET Pairs]
Deadline == [kind |-> "deadline"]     \* ghost: the call's deadline expired
Closed   == [kind |-> "closed"]       \* ghost: the channel had been closed

\* One wire response.  Unset protobuf fields keep their default; `rpcerr`
\* is a call ending in a non-OK gRPC status (for a stream, after the items
\* in `pairs`).  For HTTP, `status` is the status code and `value`, `snap`
\* and `pairs` the JSON body fields.
Wires == [status : {200, 404, 500}, rpcerr : BOOLEAN, success : BOOLEAN,
          found : BOOLEAN, value : Vals \cup {""}, snap : SnapIds \cup {NoSnap},
          pairs : SUBSET Pairs, err : {"", "msg"}]
Wire0 == [status |-> 200, rpcerr |-> FALSE, success |-> FALSE, found |-> FALSE,
          value |-> "", snap |-> NoSnap, pairs |-> {}, err |-> ""]

\* The package's exception hierarchy (exceptions.py): KVDBError and its
\* subclasses.
KVDBErrors == {"KVDBError", "ConnectionError", "TimeoutError",
               "AuthenticationError", "PermissionError", "InvalidArgumentError",
               "ResourceNotFoundError", "ResourceExistsError", "InternalError"}

\* What a call returns or raises.
Results == [kind : {"true", "none", "stats"}]
           \cup [kind : {"value"}, v : Vals \cup {""}]
           \cup [kind : {"snap"}, v : SnapIds \cup {NoSnap}]
           \cup [kind : {"list"}, v : SUBSET Pairs]
           \cup [kind : {"raise"}, exc : KVDBErrors \cup {"ValueError", "HTTPError"}]

\* A request: the method and its arguments (unused ones keep a default).
Requests == [c : Callers, n : 1 .. MaxCalls, op : Ops, key : Keys,
             val : Vals, snap : SnapIds, kv : Batches, keys : KeySets,
             hi : Keys, limit : Limits \cup {0}]

VARIABLES
    store,      \* server: key -> value or Nil
    snapData,   \* server: snapshot id -> the store when it was created
    snapLive,   \* server: snapshot id -> created and not released
    nextSnap,   \* server: snapshots created so far
    net,        \* requests sent and not yet served
    reply,      \* caller -> the response to its current call, if any
    cpc,        \* caller: "idle" or "waiting"
    call,       \* caller -> its current (or last) request
    ncalls,     \* caller -> calls issued so far
    held,       \* snapshot ids create_snapshot has returned
    open,       \* the gRPC channel / HTTP session has not been closed
    last        \* caller -> [res, oc]: result of its last call and the
                \* server's outcome for it (ghost)

vars == <<store, snapData, snapLive, nextSnap, net, reply, cpc, call,
          ncalls, held, open, last>>

NoReply == [none |-> TRUE]
AnyKey == CHOOSE k \in Keys : \A j \in Keys : k <= j
AnyVal == CHOOSE v \in Vals : TRUE

NewReq(c, n, op) ==
    [c |-> c, n |-> n, op |-> op, key |-> AnyKey, val |-> AnyVal,
     snap |-> 1, kv |-> [k \in {AnyKey} |-> AnyVal], keys |-> {AnyKey},
     hi |-> AnyKey, limit |-> 0]
Req(c, op) == NewReq(c, ncalls[c] + 1, op)

(* KVDBClient.__init__ with _init_grpc / _init_http: no call in flight.    *)
Init ==
    /\ store = [k \in Keys |-> Nil]
    /\ snapData = [s \in SnapIds |-> [k \in Keys |-> Nil]]
    /\ snapLive = [s \in SnapIds |-> FALSE]
    /\ nextSnap = 0
    /\ net = {}
    /\ reply = [c \in Callers |-> NoReply]
    /\ cpc = [c \in Callers |-> "idle"]
    /\ call = [c \in Callers |-> NewReq(c, 1, "flush")]
    /\ ncalls = [c \in Callers |-> 0]
    /\ held = {}
    /\ open = TRUE
    /\ last = [c \in Callers |-> [res |-> [kind |-> "true"],
                                  oc |-> [kind |-> "ok"]]]

-----------------------------------------------------------------------------
(* Response decoding, one operator per adapter pattern.  Every gRPC        *)
(* adapter first turns a grpc.RpcError into KVDBError("gRPC error: ...").  *)
Raise == [kind |-> "raise", exc |-> "KVDBError"]
Is2xx(w) == w.status \in 200 .. 299
List(w) == [kind |-> "list", v |-> w.pairs]

\* Mutant: the raw response is returned instead of True.
GrpcBoolResultRaw(w) ==
    IF w.rpcerr \/ ~w.success THEN Raise ELSE [kind |-> "true", v |-> w]

\* _grpc_put (also _grpc_delete, _grpc_batch_put, _grpc_release_snapshot,
\* _grpc_flush, _grpc_compact): a false `success` raises, else True.
GrpcBoolResult(w) ==
    IF w.rpcerr \/ ~w.success THEN Raise ELSE [kind |-> "true"]

\* Mutant: the `found` test dropped; the default value "" is returned.
GrpcReadResultNoFound(w) ==
    IF w.rpcerr \/ w.err # "" THEN Raise ELSE [kind |-> "value", v |-> w.value]

\* _grpc_get (also _grpc_get_at_snapshot): not found is None before the
\* error_message is looked at; then an error raises; then the value.
GrpcReadResult(w) ==
    IF w.rpcerr THEN Raise
    ELSE IF ~w.found THEN [kind |-> "none"]
    ELSE IF w.err # "" THEN Raise
    ELSE [kind |-> "value", v |-> w.value]

\* _grpc_batch_get: an error_message raises, else the pairs.
GrpcBatchGetResult(w) == IF w.rpcerr \/ w.err # "" THEN Raise ELSE List(w)

\* Mutant: the pairs collected before the stream broke are returned.
GrpcStreamResultPartial(w) == List(w)

\* _grpc_scan (also _grpc_prefix_scan): the streamed items are collected
\* into a list; an RpcError at any point raises and the list is dropped.
GrpcStreamResult(w) == IF w.rpcerr THEN Raise ELSE List(w)

\* _grpc_create_snapshot: an error_message raises, else the snapshot id.
GrpcSnapResult(w) ==
    IF w.rpcerr \/ w.err # "" THEN Raise ELSE [kind |-> "snap", v |-> w.snap]

\* _grpc_get_stats: the four fields, with no error check besides RpcError.
GrpcStatsResult(w) == IF w.rpcerr THEN Raise ELSE [kind |-> "stats"]

\* _http_put (also _http_delete, _http_batch_put, _http_release_snapshot,
\* _http_flush, _http_compact): raise_for_status, then True.
HttpBoolResult(w) == IF Is2xx(w) THEN [kind |-> "true"] ELSE Raise

\* Mutant: raise_for_status dropped; a failed read returns the body.
HttpReadResultNoRaise(w) ==
    IF w.status = 404 THEN [kind |-> "none"]
    ELSE [kind |-> "value", v |-> w.value]

\* _http_get (also _http_get_at_snapshot): 404 is None, before
\* raise_for_status; otherwise the body's "value".
HttpReadResult(w) ==
    IF w.status = 404 THEN [kind |-> "none"]
    ELSE IF ~Is2xx(w) THEN Raise
    ELSE [kind |-> "value", v |-> w.value]

\* _http_batch_get (also _http_scan, _http_prefix_scan): raise_for_status,
\* then the body's "pairs".
HttpListResult(w) == IF Is2xx(w) THEN List(w) ELSE Raise

\* _http_create_snapshot: raise_for_status, then the body's "snapshot_id".
HttpSnapResult(w) ==
    IF Is2xx(w) THEN [kind |-> "snap", v |-> w.snap] ELSE Raise

\* _http_get_stats: raise_for_status, then the JSON body.
HttpStatsResult(w) == IF Is2xx(w) THEN [kind |-> "stats"] ELSE Raise

\* `if self.config.protocol == "grpc": ... elif ... == "http": ...`
ByProtocol(grpc, http) == IF Protocol = "grpc" THEN grpc ELSE http

PutResult(w)       == ByProtocol(GrpcBoolResult(w), HttpBoolResult(w))
GetResult(w)       == ByProtocol(GrpcReadResult(w), HttpReadResult(w))
DeleteResult(w)    == ByProtocol(GrpcBoolResult(w), HttpBoolResult(w))
BatchPutResult(w)  == ByProtocol(GrpcBoolResult(w), HttpBoolResult(w))
BatchGetResult(w)  == ByProtocol(GrpcBatchGetResult(w), HttpListResult(w))
ScanResult(w)      == ByProtocol(GrpcStreamResult(w), HttpListResult(w))
PrefixScanResult(w) == ByProtocol(GrpcStreamResult(w), HttpListResult(w))
CreateSnapshotResult(w)  == ByProtocol(GrpcSnapResult(w), HttpSnapResult(w))
ReleaseSnapshotResult(w) == ByProtocol(GrpcBoolResult(w), HttpBoolResult(w))
GetAtSnapshotResult(w)   == ByProtocol(GrpcReadResult(w), HttpReadResult(w))
FlushResult(w)     == ByProtocol(GrpcBoolResult(w), HttpBoolResult(w))
CompactResult(w)   == ByProtocol(GrpcBoolResult(w), HttpBoolResult(w))
GetStatsResult(w)  == ByProtocol(GrpcStatsResult(w), HttpStatsResult(w))

Result(op, w) ==
    CASE op = "put"              -> PutResult(w)
      [] op = "get"              -> GetResult(w)
      [] op = "delete"           -> DeleteResult(w)
      [] op = "batch_put"        -> BatchPutResult(w)
      [] op = "batch_get"        -> BatchGetResult(w)
      [] op = "scan"             -> ScanResult(w)
      [] op = "prefix_scan"      -> PrefixScanResult(w)
      [] op = "create_snapshot"  -> CreateSnapshotResult(w)
      [] op = "release_snapshot" -> ReleaseSnapshotResult(w)
      [] op = "get_at_snapshot"  -> GetAtSnapshotResult(w)
      [] op = "flush"            -> FlushResult(w)
      [] op = "compact"          -> CompactResult(w)
      [] op = "get_stats"        -> GetStatsResult(w)

-----------------------------------------------------------------------------
(* Calls.  Each public method dispatches on config.protocol and sends one *)
(* request; the calling thread then blocks until the response or, for    *)
(* gRPC, the deadline.                                                   *)
Issue(c, r) ==
    /\ r.op \in CallOps
    /\ cpc[c] = "idle"
    /\ ncalls[c] < MaxCalls
    /\ ncalls' = [ncalls EXCEPT ![c] = @ + 1]
    /\ call' = [call EXCEPT ![c] = r]
    /\ IF Protocol = "grpc" /\ ~open
       \* The stub raises ValueError("Cannot invoke RPC on closed channel!"),
       \* which the adapters' `except grpc.RpcError` does not catch.
       THEN /\ last' = [last EXCEPT ![c] =
                          [res |-> [kind |-> "raise", exc |-> "ValueError"],
                           oc |-> Closed]]
            /\ UNCHANGED <<net, cpc, reply>>
       \* requests reopens connections of a closed Session on demand.
       ELSE /\ net' = net \cup {r}
            /\ cpc' = [cpc EXCEPT ![c] = "waiting"]
            /\ reply' = [reply EXCEPT ![c] = NoReply]
            /\ UNCHANGED last
    /\ UNCHANGED <<store, snapData, snapLive, nextSnap, held, open>>

Put(c) ==
    \E k \in Keys, v \in Vals : Issue(c, [Req(c, "put") EXCEPT !.key = k, !.val = v])
Get(c) == \E k \in Keys : Issue(c, [Req(c, "get") EXCEPT !.key = k])
Delete(c) == \E k \in Keys : Issue(c, [Req(c, "delete") EXCEPT !.key = k])
BatchPut(c) == \E kv \in Batches : Issue(c, [Req(c, "batch_put") EXCEPT !.kv = kv])
BatchGet(c) == \E ks \in KeySets : Issue(c, [Req(c, "batch_get") EXCEPT !.keys = ks])
\* scan(ScanOptions): only start_key, end_key and limit are sent.
Scan(c) ==
    \E lo, hi \in Keys, lim \in Limits :
        /\ lo <= hi
        /\ Issue(c, [Req(c, "scan") EXCEPT !.key = lo, !.hi = hi, !.limit = lim])
\* prefix_scan(prefix, limit): the prefix is abstracted to the keys it matches.
PrefixScan(c) ==
    \E ks \in KeySets, lim \in Limits :
        Issue(c, [Req(c, "prefix_scan") EXCEPT !.keys = ks, !.limit = lim])
CreateSnapshot(c) == Issue(c, Req(c, "create_snapshot"))
ReleaseSnapshot(c) ==
    \E s \in held : Issue(c, [Req(c, "release_snapshot") EXCEPT !.snap = s])
GetAtSnapshot(c) ==
    \E k \in Keys, s \in held :
        Issue(c, [Req(c, "get_at_snapshot") EXCEPT !.key = k, !.snap = s])
Flush(c) == Issue(c, Req(c, "flush"))
Compact(c) == Issue(c, Req(c, "compact"))
GetStats(c) == Issue(c, Req(c, "get_stats"))

(* The stub or session call returns the response, which is decoded.  A   *)
(* snapshot id returned is one the application now holds.                *)
Complete(c) ==
    /\ cpc[c] = "waiting"
    /\ reply[c] # NoReply
    /\ LET res == Result(call[c].op, reply[c].wire) IN
         /\ last' = [last EXCEPT ![c] = [res |-> res, oc |-> reply[c].oc]]
         /\ held' = IF res.kind = "snap" THEN held \cup {res.v} ELSE held
    /\ cpc' = [cpc EXCEPT ![c] = "idle"]
    /\ reply' = [reply EXCEPT ![c] = NoReply]
    /\ UNCHANGED <<store, snapData, snapLive, nextSnap, net, call, ncalls, open>>

\* Mutant: _grpc_get_stats calls GetStats without timeout=.
GrpcTimedOpsNoStats == Ops \ {"get_stats"}

(* The operations whose stub call passes timeout=config.request_timeout: *)
(* every one of the thirteen (lines 129, 160, 192, 240, 272, 316, 353,    *)
(* 385, 413, 441, 475, 503, 531).                                         *)
GrpcTimedOps == Ops

(* When that timeout expires the stub raises grpc.RpcError                *)
(* (DEADLINE_EXCEEDED), re-raised as KVDBError.  The HTTP calls pass no   *)
(* timeout (Session.timeout is not read by requests): no deadline.        *)
Timeout(c) ==
    /\ Protocol = "grpc"
    /\ cpc[c] = "waiting"
    /\ call[c].op \in GrpcTimedOps
    /\ last' = [last EXCEPT ![c] = [res |-> Raise, oc |-> Deadline]]
    /\ cpc' = [cpc EXCEPT ![c] = "idle"]
    /\ reply' = [reply EXCEPT ![c] = NoReply]
    /\ UNCHANGED <<store, snapData, snapLive, nextSnap, net, call, ncalls, held,
                   open>>

(* disconnect(), lines 108-111, as seen by the operations: the gRPC       *)
(* channel or HTTP session is closed.  Closing a gRPC channel cancels the *)
(* RPCs still waiting for a response, which raise RpcError (CANCELLED),   *)
(* re-raised as KVDBError.                                                *)
Disconnect(c) ==
    LET Cancelled(d) == cpc[d] = "waiting" /\ reply[d] = NoReply IN
    /\ "disconnect" \in CallOps
    /\ cpc[c] = "idle"
    /\ open
    /\ open' = FALSE
    /\ IF Protocol = "grpc"
       THEN /\ cpc' = [d \in Callers |-> IF Cancelled(d) THEN "idle" ELSE cpc[d]]
            /\ last' = [d \in Callers |-> IF Cancelled(d)
                                          THEN [res |-> Raise, oc |-> Closed]
                                          ELSE last[d]]
       ELSE UNCHANGED <<cpc, last>>
    /\ UNCHANGED <<store, snapData, snapLive, nextSnap, net, reply, call, ncalls,
                   held>>

-----------------------------------------------------------------------------
(* The server (environment).  It serves a request by changing its state  *)
(* and answering with one of the encodings of its outcome that the       *)
(* protocol contract (spec 6) allows.                                    *)
Lookup(m, k) == IF m[k] = Nil THEN [kind |-> "absent"]
                ELSE [kind |-> "value", v |-> m[k]]

PairsOf(ks) == {[key |-> k, value |-> store[k]] : k \in {j \in ks : store[j] # Nil}}

\* The first `n` of the pairs, in key order, as the server streams them.
FirstN(ps, n) == {p \in ps : Cardinality({q \in ps : q.key < p.key}) < n}

ScanList(r) ==
    CASE r.op = "scan" -> FirstN(PairsOf({k \in Keys : r.key <= k /\ k <= r.hi}),
                                 r.limit)
      [] r.op = "prefix_scan" -> FirstN(PairsOf(r.keys), r.limit)
      [] OTHER -> {}

OkWires(op, oc) ==
    ByProtocol(
      CASE oc.kind = "value"  -> {[Wire0 EXCEPT !.found = TRUE, !.value = oc.v]}
        [] oc.kind = "absent" -> {Wire0}
        [] oc.kind = "snap"   -> {[Wire0 EXCEPT !.snap = oc.v]}
        [] oc.kind = "list"   -> {[Wire0 EXCEPT !.pairs = oc.v]}
        [] oc.kind = "stats"  -> {Wire0}
        [] oc.kind = "ok"     -> {[Wire0 EXCEPT !.success = TRUE]},
      CASE oc.kind = "value"  -> {[Wire0 EXCEPT !.value = oc.v]}
        [] oc.kind = "absent" -> {[Wire0 EXCEPT !.status = 404]}
        [] oc.kind = "snap"   -> {[Wire0 EXCEPT !.snap = oc.v]}
        [] oc.kind = "list"   -> {[Wire0 EXCEPT !.pairs = oc.v]}
        [] oc.kind \in {"ok", "stats"} -> {Wire0})

\* A failed request: a non-OK gRPC status (a scan stream may have sent part
\* of its items first), an error in the response message where it has one,
\* or an HTTP failure status; spec 3: the server rejects a read at a
\* released snapshot, over HTTP with one of SnapRejectStatus.
FailWires(r) ==
    ByProtocol(
      {[Wire0 EXCEPT !.rpcerr = TRUE, !.pairs = P] : P \in SUBSET ScanList(r)}
      \cup (CASE r.op \in BoolOps -> {[Wire0 EXCEPT !.err = "msg"]}
              [] r.op \in ReadOps ->
                   {[Wire0 EXCEPT !.found = f, !.err = "msg"] : f \in ErroredReadFound}
              [] r.op \in {"batch_get", "create_snapshot"} ->
                   {[Wire0 EXCEPT !.err = "msg"]}
              [] OTHER -> {}),
      {[Wire0 EXCEPT !.status = st] : st \in HttpFailStatus}
      \cup (IF r.op = "get_at_snapshot" /\ ~snapLive[r.snap]
            THEN {[Wire0 EXCEPT !.status = st] : st \in SnapRejectStatus}
            ELSE {}))

\* The response reaches the caller only if it is still waiting on r; a
\* caller whose deadline expired has abandoned the call.
Answer(r, oc, wires) ==
    /\ net' = net \ {r}
    /\ IF cpc[r.c] = "waiting" /\ ncalls[r.c] = r.n
       THEN \E w \in wires : reply' = [reply EXCEPT ![r.c] = [wire |-> w, oc |-> oc]]
       ELSE UNCHANGED reply

ServeOk(r) ==
    LET Ok(oc) == Answer(r, oc, OkWires(r.op, oc)) IN
    CASE r.op = "put" ->
           /\ store' = [store EXCEPT ![r.key] = r.val]
           /\ Ok([kind |-> "ok"])
           /\ UNCHANGED <<snapData, snapLive, nextSnap>>
      [] r.op = "delete" ->
           /\ store' = [store EXCEPT ![r.key] = Nil]
           /\ Ok([kind |-> "ok"])
           /\ UNCHANGED <<snapData, snapLive, nextSnap>>
      [] r.op = "batch_put" ->
           /\ store' = [k \in Keys |-> IF k \in DOMAIN r.kv THEN r.kv[k] ELSE store[k]]
           /\ Ok([kind |-> "ok"])
           /\ UNCHANGED <<snapData, snapLive, nextSnap>>
      [] r.op = "create_snapshot" ->
           LET s == nextSnap + 1 IN
           /\ nextSnap < MaxSnaps
           /\ nextSnap' = s
           /\ snapData' = [snapData EXCEPT ![s] = store]
           /\ snapLive' = [snapLive EXCEPT ![s] = TRUE]
           /\ Ok([kind |-> "snap", v |-> s])
           /\ UNCHANGED store
      [] r.op = "release_snapshot" ->
           /\ snapLive[r.snap]
           /\ snapLive' = [snapLive EXCEPT ![r.snap] = FALSE]
           /\ Ok([kind |-> "ok"])
           /\ UNCHANGED <<store, snapData, nextSnap>>
      [] OTHER ->
           /\ r.op = "get_at_snapshot" => snapLive[r.snap]
           /\ Ok(CASE r.op = "get" -> Lookup(store, r.key)
                   [] r.op = "get_at_snapshot" -> Lookup(snapData[r.snap], r.key)
                   [] r.op = "batch_get" -> [kind |-> "list", v |-> PairsOf(r.keys)]
                   [] r.op \in StreamOps -> [kind |-> "list", v |-> ScanList(r)]
                   [] r.op = "get_stats" -> [kind |-> "stats"]
                   [] OTHER -> [kind |-> "ok"])
           /\ UNCHANGED <<store, snapData, snapLive, nextSnap>>

\* Any request may fail (a released or unknown snapshot always does).
ServeFail(r) ==
    /\ Answer(r, [kind |-> "fail"], FailWires(r))
    /\ UNCHANGED <<store, snapData, snapLive, nextSnap>>

Serve ==
    \E r \in net :
        /\ ServeOk(r) \/ ServeFail(r)
        /\ UNCHANGED <<cpc, call, ncalls, held, open, last>>

-----------------------------------------------------------------------------
CallerStep(c) ==
    \/ Put(c) \/ Get(c) \/ Delete(c) \/ BatchPut(c) \/ BatchGet(c)
    \/ Scan(c) \/ PrefixScan(c)
    \/ CreateSnapshot(c) \/ ReleaseSnapshot(c) \/ GetAtSnapshot(c)
    \/ Flush(c) \/ Compact(c) \/ GetStats(c)
    \/ Disconnect(c) \/ Complete(c) \/ Timeout(c)

Next == Serve \/ \E c \in Callers : CallerStep(c)

(* A blocked caller thread resumes when its response arrives, and the    *)
(* gRPC deadline timer fires: weak fairness on both.  The server is not  *)
(* assumed to answer, and the application not to make calls.             *)
Spec ==
    /\ Init /\ [][Next]_vars
    /\ \A c \in Callers : WF_vars(Complete(c)) /\ WF_vars(Timeout(c))

-----------------------------------------------------------------------------
TypeOK ==
    /\ store \in [Keys -> Vals \cup {Nil}]
    /\ snapData \in [SnapIds -> [Keys -> Vals \cup {Nil}]]
    /\ snapLive \in [SnapIds -> BOOLEAN]
    /\ nextSnap \in 0 .. MaxSnaps
    /\ net \subseteq Requests
    /\ \A c \in Callers : reply[c] = NoReply \/
          (reply[c].wire \in Wires /\ reply[c].oc \in Outcomes)
    /\ cpc \in [Callers -> {"idle", "waiting"}]
    /\ call \in [Callers -> Requests]
    /\ ncalls \in [Callers -> 0 .. MaxCalls]
    /\ held \subseteq SnapIds \cup {NoSnap}
    /\ open \in BOOLEAN
    /\ \A c \in Callers : last[c].res \in Results
                          /\ last[c].oc \in Outcomes \cup {Deadline, Closed}

(* Spec 4.1 / 7: what a call returns is what the server did for that    *)
(* call: True only for an applied operation, None only when the server  *)
(* found no value, a value, list or snapshot id only the one the server *)
(* produced, never a part of it; every other outcome is raised.  Calls  *)
(* of several threads, answers arriving after a deadline, broken        *)
(* streams and server failures are interleaved freely.                  *)
ResultsMatchServer ==
    \A c \in Callers :
        LET r == last[c].res
            o == last[c].oc
        IN  /\ r.kind = "true"  => o.kind = "ok"
            /\ r.kind = "stats" => o.kind = "stats"
            /\ r.kind = "none"  => o.kind = "absent"
            /\ r.kind \in {"value", "snap", "list"} => o = r

(* Spec 5: every blocking call is bounded by the request timeout, so a   *)
(* caller waiting on a call eventually returns, whatever the server does.*)
CallsReturn == \A c \in Callers : cpc[c] = "waiting" ~> cpc[c] = "idle"

(* Spec 5 / 7: exceeding request_timeout raises the TimeoutError class.  *)
DeadlineRaisesTimeoutError ==
    \A c \in Callers :
        last[c].oc = Deadline => last[c].res = [kind |-> "raise",
                                                exc |-> "TimeoutError"]

(* Spec 4.1 / 4.2 / 7: every transport fault is caught at the adapter    *)
(* boundary and re-raised in the client's error hierarchy, also for a    *)
(* call made after disconnect() or cancelled by it.                      *)
ErrorsInHierarchy ==
    \A c \in Callers : last[c].res.kind = "raise" => last[c].res.exc \in KVDBErrors

=============================================================================
