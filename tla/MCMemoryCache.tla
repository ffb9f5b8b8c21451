--------------------------- MODULE MCMemoryCache ---------------------------
(* Small instances of MemoryCache: calls on one key, TTLs of zero and one  *)
(* tick, and a clock of two ticks, so that entries expire between any two  *)
(* steps of a call.                                                        *)
EXTENDS MemoryCache, TLC

CallSymmetry == Permutations(Calls)
=============================================================================
