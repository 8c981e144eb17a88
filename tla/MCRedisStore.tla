--------------------------- MODULE MCRedisStore ---------------------------
(***************************************************************************)
(* Two callers share a pool that keeps one connection, with a name for a   *)
(* connection more than they need; two jobs, of which one may be created   *)
(* twice.                                                                  *)
(***************************************************************************)
EXTENDS RedisStoreAbstract, TLC

Alike == Permutations(Callers) \cup Permutations(Conns) \cup Permutations(Jobs)
=============================================================================
