--------------------------- MODULE SecretRegister ---------------------------
(***************************************************************************)
(* What secret.Connector promises: Set, Update, Delete and Get of one      *)
(* secret each act at one moment, or fail.  A failed call may still have   *)
(* changed the secret; one that answers ok did.                            *)
(***************************************************************************)
CONSTANTS
  Callers, Requests,    \* Requests: [op, key, value]
  NoSecret,             \* what a secret that is absent, or being deleted, holds
  NoValue,              \* what a secret holds that was given a nil []byte
  Readable(_)           \* the value a Get returns after a value was stored

VARIABLES
  stored,       \* what a Get would return
  doing         \* [req, result, value]: the call of a caller

vars == <<stored, doing>>

Ends(c, result, value) ==
  doing' = [doing EXCEPT ![c].result = result, ![c].value = value]

Init ==
  /\ stored = NoSecret
  /\ LET r == CHOOSE r \in Requests : TRUE IN doing = [c \in Callers |->
       [req |-> r, result |-> "idle", value |-> NoSecret]]

Start(c) ==
  /\ doing[c].result = "idle"
  /\ \E r \in Requests : doing' =
       [doing EXCEPT ![c] = [req |-> r, result |-> "running", value |-> NoSecret]]
  /\ UNCHANGED stored

(* The effect of a request: Set works on any secret, Update and Delete on  *)
(* one that exists.                                                        *)
Effect(req) ==
  \/ req.op = "set" /\ stored' = Readable(req.value)
  \/ req.op = "update" /\ stored # NoSecret /\ stored' = Readable(req.value)
  \/ req.op = "delete" /\ stored # NoSecret /\ stored' = NoSecret

Succeed(c) ==
  /\ doing[c].result = "running"
  /\ \/ Effect(doing[c].req) /\ Ends(c, "ok", NoSecret)
     \/ /\ doing[c].req.op = "get" /\ stored \notin {NoSecret, NoValue}
        /\ Ends(c, "ok", stored) /\ UNCHANGED stored

Fail(c) ==
  /\ doing[c].result = "running"
  /\ \E result \in {"refused", "unavailable"} : Ends(c, result, NoSecret)
  /\ Effect(doing[c].req) \/ UNCHANGED stored

Return(c) ==
  /\ doing[c].result \in {"ok", "refused", "unavailable"}
  /\ Ends(c, "idle", NoSecret)
  /\ UNCHANGED stored

Next == \E c \in Callers : Start(c) \/ Succeed(c) \/ Fail(c) \/ Return(c)

Spec == Init /\ [][Next]_vars
=============================================================================
