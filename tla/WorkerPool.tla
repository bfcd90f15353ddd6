----------------------------- MODULE WorkerPool -----------------------------
(***************************************************************************)
(* What %COMMAND promises of a type of requests, without the queue: a pool *)
(* of workers for each kind of work, none larger than its cap.             *)
(***************************************************************************)
EXTENDS Integers, FiniteSets

CONSTANTS Workers, Kinds, Cap

VARIABLES
  kind,  \* the kind of work of each worker
  work   \* the workers at work

OfKind(k) == {w \in work : kind[w] = k}

Init == kind \in [Workers -> Kinds] /\ work = {}

\* A worker starts when its pool has room.
Enter(w) ==
  /\ w \notin work
  /\ Cardinality(OfKind(kind[w])) < Cap[kind[w]]
  /\ work' = work \union {w}

\* Any of them leave: they end, are killed, or their work is closed.
Leave == work' \in SUBSET work

Next == (Leave \/ \E w \in Workers : Enter(w)) /\ UNCHANGED kind

Spec == Init /\ [][Next]_<<kind, work>>

\* No pool is larger than its cap.
Bounded == \A k \in Kinds : Cardinality(OfKind(k)) <= Cap[k]
=============================================================================
