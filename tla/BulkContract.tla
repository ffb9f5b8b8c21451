---------------------------- MODULE BulkContract ----------------------------
(***************************************************************************)
(* What a bulk method of DatabaseConnector promises its caller, without    *)
(* chunks, retries or transactions: between the call and its return, items *)
(* of the request take effect, nothing else does, and a nil error says     *)
(* that all of them did.  An atomic write that fits in one transaction     *)
(* takes effect at once.                                                   *)
(***************************************************************************)
EXTENDS Integers, Sequences

CONSTANTS Callers, Keys, Absent, Before, Requests, TransactWriteLimit, NoRequest

VARIABLES table, phase, req, served

vars == <<table, phase, req, served>>

Positions(c) == 1 .. Len(req[c].keys)

Indivisible(c) ==
  req[c].op # "get" /\ req[c].atomic /\ Len(req[c].keys) <= TransactWriteLimit

Init ==
  /\ table = [k \in Keys |-> Before]
  /\ phase = [c \in Callers |-> "idle"]
  /\ req = [c \in Callers |-> NoRequest]
  /\ served = [c \in Callers |-> {}]

Begin(c) ==
  /\ phase[c] = "idle"
  /\ \E r \in Requests :
       /\ req' = [req EXCEPT ![c] = r]
       /\ \/ phase' = [phase EXCEPT ![c] = "running"]
          \/ phase' = [phase EXCEPT ![c] = "failed"]
          \/ r.keys = <<>> /\ phase' = [phase EXCEPT ![c] = "ok"]
  /\ UNCHANGED <<table, served>>

TakeEffect(c) ==
  /\ phase[c] = "running"
  /\ \E S \in SUBSET Positions(c) :
       /\ Indivisible(c) => S = Positions(c)
       /\ served' = [served EXCEPT ![c] = @ \cup S]
       /\ table' = [k \in Keys |->
            IF req[c].op = "get" \/ k \notin {req[c].keys[p] : p \in S} THEN table[k]
            ELSE IF req[c].op = "put" THEN c ELSE Absent]
  /\ UNCHANGED <<phase, req>>

Succeed(c) ==
  /\ phase[c] = "running" /\ served[c] = Positions(c)
  /\ phase' = [phase EXCEPT ![c] = "ok"]
  /\ UNCHANGED <<table, req, served>>

Fail(c) ==
  /\ phase[c] = "running"
  /\ phase' = [phase EXCEPT ![c] = "failed"]
  /\ UNCHANGED <<table, req, served>>

Next == \E c \in Callers : Begin(c) \/ TakeEffect(c) \/ Succeed(c) \/ Fail(c)

Spec == Init /\ [][Next]_vars
=============================================================================
