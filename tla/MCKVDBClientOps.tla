------------------------- MODULE MCKVDBClientOps ---------------------------
(* Model-checking instance of KVDBClientOps; protocol, methods called and *)
(* server behaviour are chosen per run in the .cfg files.                 *)
EXTENDS KVDBClientOps, TLC

\* Single-key reads and writes with snapshots: one key, one snapshot.
MCKeys1 == {1}
\* Batches and scans: two keys, so that a batch, a range and a limit of one
\* select a proper part of the store.
MCKeys2 == {1, 2}
\* Two values, so that a stale value is told apart from the right one.
MCVals == {"v1", "v2"}
\* One value where the state space must stay small: the adapters hand the
\* server's value through unchanged, and a wrong result (None for a
\* failure, a partial list, a raise that is not a KVDBError) differs from the
\* right one in kind or in the pairs it lacks, not in the value.
MCVals1 == {"v1"}
MCLimits == {1}
MCMaxSnaps == 1
\* Two calls per caller: enough for a create_snapshot and a get_at_snapshot
\* interleaved with the other caller's writes, or for a call abandoned at its
\* deadline followed by a new one whose answer must not be confused with it.
MCMaxCalls == 2
\* create_snapshot, release_snapshot, then get_at_snapshot on the released id.
MCMaxCalls3 == 3
MCSnapOps == {"create_snapshot", "release_snapshot", "get_at_snapshot"}

MCPointOps == {"put", "get", "delete", "create_snapshot", "release_snapshot",
               "get_at_snapshot"}
\* A write, then disconnect, then a write on the closed client.
MCPutDisc == {"put", "disconnect"}
\* Every operation of the client, with disconnect().
MCAllOps == Ops \cup {"disconnect"}
\* Point, snapshot and stats operations with disconnect(); flush and
\* compact share put's gRPC decoder and run in the HTTP configuration.
MCGrpcOps == MCPointOps \cup {"get_stats", "disconnect"}
MCBulkOps == {"batch_put", "batch_get", "scan", "prefix_scan"}
\* The callers run the same code and are interchangeable: symmetry is sound
\* for the safety-only runs.
MCCallerSymmetry == Permutations(Callers)
=============================================================================
