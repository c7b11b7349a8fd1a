------------------------- MODULE KVDBAsyncExecutor -------------------------
(***************************************************************************)
(* The async wrappers of KVDBClient (src/sdk/python/kvdb_client/client.py, *)
(* lines 208-221) and the executor they share (line 54).  put_async,       *)
(* get_async and delete_async each hand the synchronous call to            *)
(* self._executor with loop.run_in_executor and await its future.  The     *)
(* executor runs at most max_workers calls at once and queues the rest in  *)
(* submission order; a worker is freed when its call returns or raises.    *)
(*                                                                         *)
(* A job is one async call, numbered in submission order; the three        *)
(* wrappers differ only in the call they run, which is abstracted to how   *)
(* it ends: the server answers, or (gRPC only) the request deadline       *)
(* expires.  An HTTP call has no deadline (client.py line 81).             *)
(*                                                                         *)
(* Composed with the connection lifecycle of the same client (lines       *)
(* 83-115): connect() probes the transport and sets _connected;            *)
(* disconnect() clears it and closes the channel or session.  A gRPC call *)
(* in flight on a channel being closed is cancelled; one a worker starts  *)
(* on a closed channel raises ValueError at once.  A closed HTTP session  *)
(* reopens connections on demand, so HTTP calls are unaffected.  connect, *)
(* disconnect and the submissions all run on the event-loop thread, one   *)
(* at a time; this module creates no subscriptions, so disconnect's       *)
(* cancel loop (lines 105-106, modelled in KVDBSubscriptions) is empty.    *)
(***************************************************************************)
EXTENDS Naturals, FiniteSets

CONSTANTS
    Protocol,     \* config.protocol: "grpc" or "http"
    MaxWorkers,   \* ThreadPoolExecutor(max_workers=10)
    MaxJobs       \* bound on the async calls the application makes

ASSUME /\ Protocol \in {"grpc", "http"}
       /\ MaxWorkers \in Nat \ {0}
       /\ MaxJobs \in Nat

Jobs == 1 .. MaxJobs

VARIABLES
    nsub,     \* async calls submitted to the executor so far
    nstart,   \* calls a worker has taken from the queue (a prefix of 1..nsub)
    busy,     \* workers running a call
    done,     \* calls that have returned or raised; their awaits resume
    connected,\* self._connected
    chanOpen  \* the channel (gRPC) or session (HTTP) has not been closed

vars == <<nsub, nstart, busy, done, connected, chanOpen>>

\* A call made now reaches the server rather than failing on a closed
\* transport: a closed gRPC channel refuses new RPCs with ValueError.
Usable == Protocol = "http" \/ chanOpen

Queued  == {j \in Jobs : nstart < j /\ j <= nsub}
Running == {j \in Jobs : j <= nstart} \ done

Init ==
    /\ nsub = 0
    /\ nstart = 0
    /\ busy = 0
    /\ done = {}
    /\ connected = FALSE
    /\ chanOpen = TRUE             \* _init_grpc / _init_http

(* put_async / get_async / delete_async: run_in_executor submits the call  *)
(* and the coroutine awaits its future.                                    *)
Submit ==
    /\ nsub < MaxJobs
    /\ nsub' = nsub + 1
    /\ UNCHANGED <<nstart, busy, done, connected, chanOpen>>

\* Mutant: the pool bound is not enforced.
StartUnbounded ==
    /\ nstart < nsub
    /\ nstart' = nstart + 1
    /\ IF Usable
       THEN /\ busy' = busy + 1
            /\ UNCHANGED done
       ELSE /\ done' = done \cup {nstart + 1}
            /\ UNCHANGED busy
    /\ UNCHANGED <<nsub, connected, chanOpen>>

(* A free worker takes the oldest queued call and starts it.  On a closed *)
(* gRPC channel the stub raises ValueError before sending anything, the   *)
(* worker is free again and the await resumes with the exception.         *)
Start ==
    /\ nstart < nsub
    /\ busy < MaxWorkers
    /\ nstart' = nstart + 1
    /\ IF Usable
       THEN /\ busy' = busy + 1
            /\ UNCHANGED done
       ELSE /\ done' = done \cup {nstart + 1}
            /\ UNCHANGED busy
    /\ UNCHANGED <<nsub, connected, chanOpen>>

(* The call returns (or raises KVDBError); the worker is free again and   *)
(* the awaiting coroutine resumes with the result.                         *)
Finish(j) ==
    /\ j \in Running
    /\ done' = done \cup {j}
    /\ busy' = busy - 1
    /\ UNCHANGED <<nsub, nstart, connected, chanOpen>>

(* The server answers a running call (environment; it may never do so).  *)
Answer(j) == Finish(j)

\* Mutant: the stub call is made without timeout=.
DeadlineNever(j) == FALSE /\ Finish(j)

(* gRPC: the call's timeout=request_timeout expires and the stub raises.   *)
Deadline(j) ==
    /\ Protocol = "grpc"
    /\ Finish(j)

(* gRPC: closing the channel cancels the RPC the worker is blocked in; it *)
(* raises RpcError (CANCELLED), re-raised as KVDBError.                    *)
Cancelled(j) ==
    /\ Protocol = "grpc"
    /\ ~chanOpen
    /\ Finish(j)

-----------------------------------------------------------------------------
(* connect(), lines 83-98.  gRPC: channel_ready_future(...).result waits  *)
(* for the channel to become READY, which a closed channel never does, so *)
(* the timeout raises and connect re-raises ConnectionError.  HTTP: GET   *)
(* /health on the session, which reopens connections after close().  A    *)
(* probe that fails (server down, error status, timeout) raises           *)
(* ConnectionError and changes nothing, so only success is a step.        *)
Connect ==
    /\ Usable
    /\ connected' = TRUE
    /\ UNCHANGED <<nsub, nstart, busy, done, chanOpen>>

(* disconnect(), lines 100-111: clear _connected, cancel every            *)
(* subscription (none here), close the channel or session.                *)
Disconnect ==
    /\ connected' = FALSE
    /\ chanOpen' = FALSE
    /\ UNCHANGED <<nsub, nstart, busy, done>>

Next ==
    \/ Submit \/ Start \/ Connect \/ Disconnect
    \/ \E j \in Jobs : Answer(j) \/ Deadline(j) \/ Cancelled(j)

(* Idle worker threads are scheduled, the deadline timer fires and a      *)
(* cancelled RPC wakes its worker; the application need not submit,      *)
(* connect or disconnect, and the server need not answer.                 *)
Spec ==
    /\ Init /\ [][Next]_vars
    /\ WF_vars(Start)
    /\ \A j \in Jobs : WF_vars(Deadline(j)) /\ WF_vars(Cancelled(j))

-----------------------------------------------------------------------------
TypeOK ==
    /\ nsub \in 0 .. MaxJobs
    /\ nstart \in 0 .. nsub
    /\ busy \in 0 .. MaxWorkers
    /\ done \subseteq 1 .. nstart
    /\ connected \in BOOLEAN /\ chanOpen \in BOOLEAN

(* Spec 4.3 / 5: async calls run concurrently up to the pool's limit and  *)
(* every blocking call is bounded by the request timeout, so every async  *)
(* call the application submits is eventually sent to the server, however *)
(* many earlier calls the server leaves unanswered.                       *)
SubmittedCallsStart == \A j \in Jobs : (j \in Queued) ~> (j <= nstart)

=============================================================================
