----------------------------- MODULE MCObjectPool -----------------------------
(* Model checking ObjectPool: a ring of four slots shared by four            *)
(* allocators, so that the queue fills, empties and wraps around.            *)
EXTENDS ObjectPool
=============================================================================
