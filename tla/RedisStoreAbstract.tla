------------------------- MODULE RedisStoreAbstract -------------------------
(***************************************************************************)
(* RedisStore seen as a JobStore: a job exists once its transaction has    *)
(* been executed, and ranks by the number that INCR gave its creation.     *)
(***************************************************************************)
EXTENDS RedisStore

Abstract == INSTANCE JobStore WITH
    job <- [j \in Jobs |-> IF Created(j) THEN hash[j].status ELSE "NONE"],
    rank <- [j \in Jobs |-> hash[j].seq],
    clock <- seqno

\* What the pool relies on: the Redis store implements JobStore.  Each of its
\* operations, however many commands it takes, has its effect at one instant,
\* and returns what was true at that instant; an id is created at most once.
ImplementsJobStore == Abstract!Spec
=============================================================================
