----------------------- MODULE MCKVDBSubscriptions -------------------------
(* Model-checking instance of KVDBSubscriptions: application threads are  *)
(* model values given in the .cfg files.                                  *)
EXTENDS KVDBSubscriptions

\* Two subscriptions are the fewest for one loop's finally to race another
\* subscription's cancel in disconnect; two events per stream are enough for
\* an event pushed before and one pushed after a cancel.
MCMaxSubs == 2
MCMaxEvents == 2
=============================================================================
