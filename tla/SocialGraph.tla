---------------------------- MODULE SocialGraph ----------------------------
(***************************************************************************)
(* What GraphDBConnector promises (connectors/graphdb/base.go): friendship *)
(* between two users has no direction, a block has one, a call takes       *)
(* effect at a moment between its start and its answer, and a call that    *)
(* answers nil did take effect.  A link or a block may do so twice.        *)
(***************************************************************************)
EXTENDS Integers, FiniteSets

CONSTANTS Users, Callers, Requests, NoRequest

VARIABLES friends, blocks, req, phase

vars == <<friends, blocks, req, phase>>

Init ==
  /\ friends = {} /\ blocks = {}
  /\ req = [c \in Callers |-> NoRequest]
  /\ phase = [c \in Callers |-> "ok"]

(* A request about a single user has nothing to link or block.             *)
Ask(c) ==
  /\ phase[c] \in {"ok", "error"}
  /\ \E r \in Requests :
       /\ req' = [req EXCEPT ![c] = r]
       /\ \E p \in {"asked"} \cup (IF r.a = r.b THEN {"ok", "error"} ELSE {}) :
            phase' = [phase EXCEPT ![c] = p]
  /\ UNCHANGED <<friends, blocks>>

Apply(c) ==
  LET r == req[c] IN
  /\ phase[c] = "asked"
  /\ phase' = [phase EXCEPT ![c] = "applied"]
  /\ friends' = IF r.op = "link" THEN friends \cup {{r.a, r.b}}
                ELSE IF r.op = "unlink" THEN friends \ {{r.a, r.b}} ELSE friends
  /\ blocks' = IF r.op = "block" THEN blocks \cup {<<r.a, r.b>>}
               ELSE IF r.op = "unblock" THEN blocks \ {<<r.a, r.b>>} ELSE blocks
  /\ UNCHANGED req

(* A request that is carried out again.                                    *)
Repeat(c) ==
  /\ phase[c] = "applied" /\ req[c].op \in {"link", "block"}
  /\ phase' = [phase EXCEPT ![c] = "asked"]
  /\ UNCHANGED <<friends, blocks, req>>

Answer(c) ==
  /\ \/ phase[c] = "applied" /\ phase' = [phase EXCEPT ![c] = "ok"]
     \/ phase[c] \in {"asked", "applied"} /\ phase' = [phase EXCEPT ![c] = "error"]
  /\ UNCHANGED <<friends, blocks, req>>

Next == \E c \in Callers : Ask(c) \/ Apply(c) \/ Repeat(c) \/ Answer(c)

Spec == Init /\ [][Next]_vars

-----------------------------------------------------------------------------
Blocked(u, v) == <<u, v>> \in blocks \/ <<v, u>> \in blocks

(* Users, and those one hop away over friendships that no block cuts.      *)
Further(users) ==
  users \cup {v \in Users : \E w \in users : {w, v} \in friends /\ ~Blocked(w, v)}
Near(u, d) ==
  LET near[k \in 0 .. d] == IF k = 0 THEN {u} ELSE Further(near[k - 1]) IN near

(* The users within d hops of u, without u and without those u has blocked *)
(* or is blocked by.                                                       *)
Visible(u, d) == {v \in Near(u, d)[d] \ {u} : ~Blocked(u, v)}
=============================================================================
