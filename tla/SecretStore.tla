----------------------------- MODULE SecretStore -----------------------------
(***************************************************************************)
(* connectors/secret/secretmanager.go: Set, Update, Delete and Get of one  *)
(* secret, by concurrent callers, against the secret service.  Set is two  *)
(* calls of the service: a create and, when the secret exists, a new       *)
(* version.                                                                *)
(*                                                                         *)
(* Values: "text", "json text" (a string that is JSON), "object", "bytes", *)
(* "nil", "no bytes" (a nil []byte), "channel" (json.Marshal refuses it).  *)
(***************************************************************************)
EXTENDS Integers

CONSTANTS
  Callers,
  Requests,     \* [op, key, value]; the key is "key", or "" which is refused
  MaxCalls      \* bound: calls begun

(* What an instance must satisfy, and the proofs assume.                   *)
SecretAssumption ==
  /\ Requests \subseteq
       [op : {"set", "update", "delete", "get"}, key : {"key", ""},
        value : {"text", "json text", "object", "bytes", "nil", "no bytes", "channel"}]
  /\ Requests # {} /\ MaxCalls \in Nat

NoValue == "no value"   \* a secret without a version
NoSecret == "no secret"

VARIABLES
  secret,       \* [state, value]: state is "absent", "live" or "deleting"
  call,         \* [req, at, result, value]
  deleted,      \* history: callers during whose call the secret was deleting or deleted
  calls

vars == <<secret, call, deleted, calls>>

(* encodeSecretValue: SecretString, SecretBinary, or neither.              *)
Encode(value) ==
  CASE value = "nil" -> "null"
    [] value = "text" -> "plain string"
    [] value \in {"json text", "object"} -> "json string"
    [] value = "bytes" -> "binary"
    [] value = "no bytes" -> NoValue

(* Get tries to read the string as JSON.                                   *)
Decode(content) ==
  CASE content = "null" -> "nil"
    [] content = "plain string" -> "text"
    [] content = "json string" -> "object"
    [] content = "binary" -> "bytes"

-----------------------------------------------------------------------------
Init ==
  /\ secret = [state |-> "absent", value |-> NoValue]
  /\ LET r == CHOOSE r \in Requests : TRUE IN call =
       [c \in Callers |-> [req |-> r, at |-> "idle", result |-> "idle", value |-> NoSecret]]
  /\ deleted = {} /\ calls = 0

(* What is refused before the service is called: an empty key, a value     *)
(* that cannot be encoded.                                                 *)
RefusedAtOnce(req) ==
  req.key = "" \/ (req.op \in {"set", "update"} /\ req.value = "channel")

FirstCall(op) ==
  CASE op = "set" -> "create" [] op = "update" -> "put"
    [] op = "delete" -> "delete" [] op = "get" -> "get"

Begin(c) ==
  /\ call[c].at = "idle" /\ calls < MaxCalls
  /\ calls' = calls + 1
  /\ \E r \in Requests :
       call' = [call EXCEPT ![c] = [req |-> r, at |-> FirstCall(r.op),
                                    result |-> "running", value |-> NoSecret]]
  /\ deleted' = IF secret.state = "deleting" THEN deleted \cup {c} ELSE deleted \ {c}
  /\ UNCHANGED secret

Ends(c, result, value) ==
  call' = [call EXCEPT ![c].at = "done", ![c].result = result, ![c].value = value]

(* A change the service made: the answer may be lost on the way.           *)
Changes(c, state, value) ==
  /\ secret' = [state |-> state, value |-> value]
  /\ deleted' = IF state = "deleting"
                THEN deleted \cup {d \in Callers : call[d].at \notin {"idle", "done"}}
                ELSE deleted
  /\ \E result \in {"ok", "unavailable"} : Ends(c, result, NoSecret)

Refuse(c) ==
  /\ call[c].at \notin {"idle", "done"} /\ RefusedAtOnce(call[c].req)
  /\ Ends(c, "refused", NoSecret)
  /\ UNCHANGED <<secret, deleted, calls>>

(* The service does not answer, or fails, and changes nothing.             *)
Unavailable(c) ==
  /\ call[c].at \notin {"idle", "done"} /\ ~RefusedAtOnce(call[c].req)
  /\ Ends(c, "unavailable", NoSecret)
  /\ UNCHANGED <<secret, deleted, calls>>

(* Mutants: Set takes an existing secret for its own; Set fails on one.    *)
TakesItAsDone(c) == Ends(c, "ok", NoSecret)
GivesUp(c) == Ends(c, "refused", NoSecret)

(* ResourceExistsException: Set goes on with a new version.                *)
OnConflict(c) == call' = [call EXCEPT ![c].at = "put"]

CreateSecret(c) ==
  /\ call[c].at = "create" /\ ~RefusedAtOnce(call[c].req)
  /\ \/ secret.state = "absent" /\ Changes(c, "live", Encode(call[c].req.value))
     \/ secret.state = "live" /\ OnConflict(c) /\ UNCHANGED <<secret, deleted>>
     \/ secret.state = "deleting" /\ Ends(c, "refused", NoSecret) /\ UNCHANGED <<secret, deleted>>
  /\ UNCHANGED calls

(* The service refuses a version without a value.                          *)
PutSecretValue(c) ==
  LET content == Encode(call[c].req.value) IN
  /\ call[c].at = "put" /\ ~RefusedAtOnce(call[c].req)
  /\ IF secret.state = "live" /\ content # NoValue
     THEN Changes(c, "live", content)
     ELSE Ends(c, "refused", NoSecret) /\ UNCHANGED <<secret, deleted>>
  /\ UNCHANGED calls

DeleteSecret(c) ==
  /\ call[c].at = "delete" /\ ~RefusedAtOnce(call[c].req)
  /\ IF secret.state = "live"
     THEN Changes(c, "deleting", secret.value)
     ELSE Ends(c, "refused", NoSecret) /\ UNCHANGED <<secret, deleted>>
  /\ UNCHANGED calls

GetSecretValue(c) ==
  /\ call[c].at = "get" /\ ~RefusedAtOnce(call[c].req)
  /\ IF secret.state = "live" /\ secret.value # NoValue
     THEN Ends(c, "ok", Decode(secret.value))
     ELSE Ends(c, "refused", NoSecret)
  /\ UNCHANGED <<secret, deleted, calls>>

Return(c) ==
  /\ call[c].at = "done"
  /\ call' = [call EXCEPT ![c].at = "idle", ![c].result = "idle", ![c].value = NoSecret]
  /\ UNCHANGED <<secret, deleted, calls>>

(* The recovery window of a deleted secret ends.                           *)
Purge ==
  /\ secret.state = "deleting"
  /\ secret' = [state |-> "absent", value |-> NoValue]
  /\ UNCHANGED <<call, deleted, calls>>

Next ==
  \/ Purge
  \/ \E c \in Callers :
       \/ Begin(c) \/ Refuse(c) \/ Unavailable(c) \/ Return(c)
       \/ CreateSecret(c) \/ PutSecretValue(c) \/ DeleteSecret(c) \/ GetSecretValue(c)

Spec == Init /\ [][Next]_vars

-----------------------------------------------------------------------------
SecretType ==
  secret \in [state : {"absent", "live", "deleting"},
             value : {NoValue, "null", "plain string", "json string", "binary"}]

CallType ==
  call \in [Callers ->
    [req : Requests, at : {"idle", "create", "put", "delete", "get", "done"},
     result : {"idle", "running", "ok", "refused", "unavailable"},
     value : {NoSecret, "nil", "text", "object", "bytes"}]]

TypeOK ==
  /\ SecretType /\ CallType
  /\ deleted \subseteq Callers /\ calls \in 0 .. MaxCalls

(* Set is an upsert: the service turns one down only when the secret was   *)
(* deleted, or about to be, while Set ran, or when a secret that exists is *)
(* given a nil []byte; the write it lost is then reported as an error.     *)
SetRefusedOnlyByDeletion ==
  \A c \in Callers :
    call[c].req.op = "set" /\ call[c].result = "refused" =>
      c \in deleted \/ RefusedAtOnce(call[c].req) \/ call[c].req.value = "no bytes"

(* Every call acts at one moment, ok means that it did, and a Get returns  *)
(* the value last stored, a string that is JSON as what it says.           *)
ReadBack(value) ==
  CASE value = "json text" -> "object"
    [] value = "no bytes" -> NoValue
    [] OTHER -> value
stored ==
  IF secret.state # "live" THEN NoSecret
  ELSE IF secret.value = NoValue THEN NoValue ELSE Decode(secret.value)
doing ==
  [c \in Callers |-> [req |-> call[c].req, result |-> call[c].result, value |-> call[c].value]]
Register == INSTANCE SecretRegister WITH Readable <- ReadBack
ImplementsContract == Register!Spec
=============================================================================
