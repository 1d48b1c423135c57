------------------------------ MODULE MCShmLock ------------------------------
(* Model checking ShmLock.                                                 *)
EXTENDS ShmLock, TLC

CONSTANTS p1, p2, p3

\* Every process initialised its own context.
OwnPid == [p \in Procs |-> p]

\* p2 was forked by p1 after shmcache_init and uses the context it inherited.
ForkedPid == [p \in Procs |-> IF p = p2 THEN p1 ELSE p]

Anywhere == Locations
=============================================================================
