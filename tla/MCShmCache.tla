------------------------------ MODULE MCShmCache ------------------------------
(* Model checking ShmCache.                                                *)
EXTENDS ShmCache, TLC

\* An entry of value v takes v units.
SizeIsValue == [v \in Values |-> v]

\* SHMCACHE_MAX_KEY_SIZE + max_value_size leaves out the header of an entry.
NoHeader == [l \in ValueLimits |-> SizeOf[l] - 1]

Symmetry == Permutations(Keys)
=============================================================================
