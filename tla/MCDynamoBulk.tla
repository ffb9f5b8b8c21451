---------------------------- MODULE MCDynamoBulk ----------------------------
(* Small instances of DynamoBulk: two concurrent calls, three keys, chunks *)
(* of two items and one retry.                                             *)
EXTENDS DynamoBulk, TLC

CONSTANTS k1, k2, k3, bad, alien

MCKeys == {k1, k2, k3, bad, alien}
MCMalformed == {bad}
MCUnregistered == {alien}

Req(op, atomic, keys) == [op |-> op, atomic |-> atomic, keys |-> keys]

(* Batch writes: two chunks, a malformed item in the second one, an        *)
(* unregistered model, two items of one key.  Atomic writes: as many items *)
(* as a transaction holds, in either order, and more.  Reads of two chunks *)
(* with an unregistered model, and with two equal keys in one of them.     *)
MCRequests ==
  {Req("put", FALSE, <<k1, k2, k3>>), Req("delete", FALSE, <<k2, k1>>),
   Req("put", FALSE, <<k1, alien, bad>>), Req("put", FALSE, <<k1, k1>>),
   Req("put", TRUE, <<k1, k2>>), Req("put", TRUE, <<k2, k1>>),
   Req("delete", TRUE, <<k1, k2, k3>>),
   Req("get", FALSE, <<k1, k2, alien>>), Req("get", FALSE, <<>>)}

(* Callers differ only in their name.                                      *)
CallerSymmetry == Permutations(Callers)
=============================================================================
