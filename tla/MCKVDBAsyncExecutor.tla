----------------------- MODULE MCKVDBAsyncExecutor -------------------------
(* Model-checking instance of KVDBAsyncExecutor.                           *)
EXTENDS KVDBAsyncExecutor

\* The pool size the client hard-codes at line 54.
MCMaxWorkers == 10
\* Two calls more than the pool holds: the 11th and 12th queue behind ten
\* running calls, and the 12th behind the 11th.
MCMaxJobs == 12
=============================================================================
