------------------------ MODULE MCRedisRateLimiter ------------------------
(* Small instances of RedisRateLimiter: callers compete for one place a    *)
(* second.                                                                 *)
EXTENDS RedisRateLimiter, TLC

CallerSymmetry == Permutations(Callers)
=============================================================================
