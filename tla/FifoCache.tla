------------------------------ MODULE FifoCache ------------------------------
(***************************************************************************)
(* What libshmcache promises a client about the entries of the cache: the  *)
(* entries in the order in which they were set, and the set that is being  *)
(* served.  Memory does not appear, only the room that may have to be made. *)
(***************************************************************************)
EXTENDS Integers, SequencesExt

CONSTANTS
  Keys, MaxVal, RecycleValidEntries,
  SmallestLimit   \* the smallest max_value_size of all processes
VARIABLES fifo,     \* the entries, oldest first
          request,  \* the set that is being served, if any
          now,      \* the time
          up        \* no killed process has left the lock behind

Item == [key : Keys, val : 1..MaxVal, exp : Nat]

Expired(x) == x.exp # 0 /\ x.exp < now
Idle == request = <<>>

Ask == /\ Idle /\ up
       /\ Len(request') = 1
       /\ request'[1].key \in Keys /\ request'[1].val \in 1..MaxVal
       /\ UNCHANGED <<fifo, now, up>>

\* The set succeeds: the entry is the youngest, and the one that its key had
\* before, if any, is gone.
Put == /\ ~Idle
       /\ \/ /\ \A i \in DOMAIN fifo : fifo[i].key # request[1].key
             /\ fifo' = Append(fifo, request[1])
          \/ \E i \in DOMAIN fifo :
               /\ fifo[i].key = request[1].key
               /\ fifo' = Append(RemoveAt(fifo, i), request[1])
       /\ request' = <<>>
       /\ UNCHANGED <<now, up>>

\* It fails.
GiveUp == /\ ~Idle
          /\ request' = <<>>
          /\ UNCHANGED <<fifo, now, up>>

\* Room is made for it.
Evict == /\ ~Idle
         /\ \E i \in DOMAIN fifo :
              /\ Expired(fifo[i]) \/ (RecycleValidEntries /\ i = 1)
              /\ fifo' = RemoveAt(fifo, i)
         /\ UNCHANGED <<request, now, up>>

\* A process whose max_value_size is smaller than that of the one that set an
\* entry may lose all of them when it rearranges memory.
Lose == /\ ~Idle
        /\ \E i \in DOMAIN fifo : fifo[i].val > SmallestLimit
        /\ fifo' = <<>>
        /\ UNCHANGED <<request, now, up>>

Delete == /\ Idle
          /\ \E i \in DOMAIN fifo : fifo' = RemoveAt(fifo, i)
          /\ UNCHANGED <<request, now, up>>

Touch == /\ Idle
         /\ \E i \in DOMAIN fifo :
              /\ ~Expired(fifo[i])
              /\ Len(fifo') = Len(fifo)
              /\ fifo' = [fifo EXCEPT ![i].exp = fifo'[i].exp]
         /\ UNCHANGED <<request, now, up>>

Clear == /\ Idle
         /\ fifo' = <<>>
         /\ UNCHANGED <<request, now, up>>

\* A process killed while it holds the lock takes all entries with it.
Crash == /\ up
         /\ fifo' = <<>> /\ request' = <<>> /\ up' = FALSE
         /\ UNCHANGED now

Recover == /\ ~up
           /\ up' = TRUE
           /\ UNCHANGED <<fifo, request, now>>

Tick == /\ Idle
        /\ now' = now + 1
        /\ UNCHANGED <<fifo, request, up>>

Next == Ask \/ Put \/ GiveUp \/ Evict \/ Lose \/ Delete \/ Touch \/ Clear
        \/ Crash \/ Recover \/ Tick

vars == <<fifo, request, now, up>>

Init == fifo = <<>> /\ request = <<>> /\ now = 1 /\ up = TRUE
Spec == Init /\ [][Next]_vars
=============================================================================
