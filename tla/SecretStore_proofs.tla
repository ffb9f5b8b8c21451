-------------------------- MODULE SecretStore_proofs --------------------------
(***************************************************************************)
(* Proofs about SecretStore, for every set of callers and requests: when   *)
(* Set may be refused, and that the two-call Set, with lost answers and    *)
(* deletions in between, is to its callers the register SecretRegister.    *)
(***************************************************************************)
EXTENDS SecretStore, TLAPS

InService == {"create", "put", "delete", "get"}

(* The step of a call fits its operation, and its result the step; a call  *)
(* that runs while the secret is being deleted has witnessed it, and so    *)
(* has a Set that found the secret and lost it again.                      *)
CallInv(c) ==
  /\ call[c].at = "idle" <=> call[c].result = "idle"
  /\ call[c].at \in InService <=> call[c].result = "running"
  /\ call[c].at = "create" => call[c].req.op = "set"
  /\ call[c].at = "put" => call[c].req.op \in {"set", "update"}
  /\ call[c].at = "delete" => call[c].req.op = "delete"
  /\ call[c].at = "get" => call[c].req.op = "get"
  /\ secret.state = "deleting" /\ call[c].at \in InService => c \in deleted
  /\ secret.state # "live" /\ call[c].at = "put" /\ call[c].req.op = "set" => c \in deleted

IInv ==
  /\ TypeOK
  /\ \A c \in Callers : CallInv(c)
  /\ SetRefusedOnlyByDeletion

-----------------------------------------------------------------------------
(* What the service stores for a value that encodeSecretValue accepts, and *)
(* what a Get then makes of it.                                            *)
LEMMA Encoded ==
  ASSUME SecretAssumption, NEW r \in Requests, ~RefusedAtOnce(r), r.op \in {"set", "update"}
  PROVE  /\ Encode(r.value) \in {NoValue, "null", "plain string", "json string", "binary"}
         /\ Encode(r.value) = NoValue <=> r.value = "no bytes"
         /\ (IF Encode(r.value) = NoValue THEN NoValue ELSE Decode(Encode(r.value)))
              = ReadBack(r.value)
         /\ ReadBack(r.value) # NoSecret
<1>1. r.value \in {"text", "json text", "object", "bytes", "nil", "no bytes"}
  BY DEF SecretAssumption, RefusedAtOnce
<1> QED
  BY <1>1 DEF Encode, Decode, ReadBack, NoValue, NoSecret

LEMMA Decoded ==
  ASSUME SecretType, secret.value # NoValue
  PROVE  Decode(secret.value) \in {"nil", "text", "object", "bytes"}
<1>1. secret.value \in {"null", "plain string", "json string", "binary"}
  BY DEF SecretType
<1> QED
  BY <1>1 DEF Decode

LEMMA InitialInvariant == ASSUME SecretAssumption, Init PROVE IInv
<1>1. PICK r \in Requests :
        call = [c \in Callers |-> [req |-> r, at |-> "idle", result |-> "idle", value |-> NoSecret]]
  BY DEF Init, SecretAssumption
<1>2. CallType
  BY <1>1 DEF CallType
<1>3. SecretType
  BY DEF Init, SecretType
<1>4. TypeOK
  <2>1. MaxCalls \in Nat
    BY DEF SecretAssumption
  <2> QED
    BY <1>2, <1>3, <2>1 DEF Init, TypeOK
<1>5. \A c \in Callers : CallInv(c)
  BY <1>1 DEF CallInv, InService
<1>6. SetRefusedOnlyByDeletion
  BY <1>1 DEF SetRefusedOnlyByDeletion
<1> QED
  BY <1>4, <1>5, <1>6 DEF IInv

-----------------------------------------------------------------------------
(* A call ends: what Ends does to its record and to the others'.           *)
LEMMA EndsEffect ==
  ASSUME CallType, NEW c \in Callers, NEW result \in {"ok", "refused", "unavailable"},
         NEW value \in {NoSecret, "nil", "text", "object", "bytes"}, Ends(c, result, value)
  PROVE  /\ CallType'
         /\ call'[c].at = "done" /\ call'[c].req = call[c].req
         /\ call'[c].result = result /\ call'[c].value = value
         /\ \A d \in Callers \ {c} : call'[d] = call[d]
         /\ doing' = [doing EXCEPT ![c].result = result, ![c].value = value]
<1>1. /\ CallType'
      /\ call'[c].at = "done" /\ call'[c].req = call[c].req
      /\ call'[c].result = result /\ call'[c].value = value
      /\ \A d \in Callers \ {c} : call'[d] = call[d]
  BY DEF CallType, Ends
<1>2. doing' = [doing EXCEPT ![c].result = result, ![c].value = value]
  BY <1>1 DEF doing
<1> QED
  BY <1>1, <1>2

(* A call that ends keeps the invariant, if a refusal of Set is explained  *)
(* and the secret changes as Changes lets it.                              *)
LEMMA EndKeeps ==
  ASSUME IInv, NEW c \in Callers, call[c].at \in InService,
         NEW result \in {"ok", "refused", "unavailable"},
         NEW value \in {NoSecret, "nil", "text", "object", "bytes"}, Ends(c, result, value),
         UNCHANGED calls, SecretType', deleted \subseteq deleted', deleted' \subseteq Callers,
         secret'.state = "deleting" /\ secret.state # "deleting" =>
           \A d \in Callers : call[d].at \in InService => d \in deleted',
         secret'.state \in {"live", "deleting", secret.state},
         call[c].req.op = "set" /\ result = "refused" =>
           c \in deleted' \/ RefusedAtOnce(call[c].req) \/ call[c].req.value = "no bytes"
  PROVE  IInv'
<1>1. CallType
  BY DEF IInv, TypeOK
<1>2. /\ CallType'
      /\ call'[c].at = "done" /\ call'[c].req = call[c].req /\ call'[c].result = result
      /\ \A d \in Callers \ {c} : call'[d] = call[d]
  BY <1>1, EndsEffect
<1>3. TypeOK'
  BY <1>2 DEF IInv, TypeOK
<1>4. CallInv(c)'
  BY <1>2 DEF CallInv, InService
<1>5. ASSUME NEW d \in Callers \ {c} PROVE CallInv(d)'
  <2>1. call'[d] = call[d] /\ CallInv(d)
    BY <1>2, <1>5 DEF IInv
  <2>2. secret'.state = "deleting" /\ call[d].at \in InService => d \in deleted'
    BY <2>1 DEF CallInv
  <2>3. secret'.state # "live" /\ call[d].at = "put" /\ call[d].req.op = "set" => d \in deleted'
    BY <2>1, <2>2 DEF CallInv, InService
  <2> QED
    BY <2>1, <2>2, <2>3 DEF CallInv
<1>6. SetRefusedOnlyByDeletion'
  <2> SUFFICES ASSUME NEW d \in Callers, call'[d].req.op = "set", call'[d].result = "refused"
               PROVE  d \in deleted' \/ RefusedAtOnce(call'[d].req) \/ call'[d].req.value = "no bytes"
    BY DEF SetRefusedOnlyByDeletion, RefusedAtOnce
  <2>1. CASE d = c
    BY <1>2, <2>1
  <2>2. CASE d # c
    BY <1>2, <2>2 DEF IInv, SetRefusedOnlyByDeletion
  <2> QED
    BY <2>1, <2>2
<1> QED
  BY <1>3, <1>4, <1>5, <1>6 DEF IInv

(* The steps of a call that can refuse, or change the secret.              *)
LEMMA CallStep ==
  ASSUME SecretAssumption, IInv, NEW c \in Callers,
         Refuse(c) \/ Unavailable(c) \/ CreateSecret(c) \/ PutSecretValue(c)
           \/ DeleteSecret(c) \/ GetSecretValue(c)
  PROVE  \/ IInv' /\ call[c].at \in InService /\ (Register!Succeed(c) \/ Register!Fail(c))
         \/ IInv' /\ UNCHANGED <<stored, doing>>
<1>1. /\ CallType /\ SecretType /\ deleted \subseteq Callers /\ CallInv(c)
      /\ call[c].req \in Requests /\ UNCHANGED calls /\ call[c].at \in InService
  BY DEF IInv, TypeOK, CallType, InService, Refuse, Unavailable, CreateSecret, PutSecretValue,
         DeleteSecret, GetSecretValue
<1>2. /\ doing[c].result = "running" /\ doing[c].req = call[c].req
  BY <1>1 DEF CallInv, doing
(* A refusal, or no answer, without an effect.                             *)
<1>3. \A result \in {"refused", "unavailable"} :
        /\ Ends(c, result, NoSecret)
        /\ UNCHANGED <<secret, deleted>>
        /\ call[c].req.op = "set" /\ result = "refused" =>
             c \in deleted \/ RefusedAtOnce(call[c].req) \/ call[c].req.value = "no bytes"
        => IInv' /\ Register!Fail(c)
  <2> SUFFICES ASSUME NEW result \in {"refused", "unavailable"}, Ends(c, result, NoSecret),
                      UNCHANGED <<secret, deleted>>,
                      call[c].req.op = "set" /\ result = "refused" =>
                        c \in deleted \/ RefusedAtOnce(call[c].req)
                          \/ call[c].req.value = "no bytes"
               PROVE  IInv' /\ Register!Fail(c)
    OBVIOUS
  <2>1. IInv'
    BY <1>1, EndKeeps DEF SecretType
  <2>2. doing' = [doing EXCEPT ![c].result = result, ![c].value = NoSecret]
    BY <1>1, EndsEffect
  <2>3. UNCHANGED stored
    BY DEF stored
  <2> QED
    BY <1>2, <2>1, <2>2, <2>3 DEF Register!Fail, Register!Ends
(* A change, whether its answer arrives or not.                            *)
<1>4. ASSUME NEW state \in {"live", "deleting"}, NEW value,
             Changes(c, state, value), Register!Effect(call[c].req), SecretType',
             state = "deleting" => secret.state = "live"
      PROVE  IInv' /\ (Register!Succeed(c) \/ Register!Fail(c))
  <2>1. PICK result \in {"ok", "unavailable"} : Ends(c, result, NoSecret)
    BY <1>4 DEF Changes
  <2>2. /\ secret'.state = state /\ deleted \subseteq deleted' /\ deleted' \subseteq Callers
        /\ state = "deleting" =>
             \A d \in Callers : call[d].at \notin {"idle", "done"} => d \in deleted'
    BY <1>1, <1>4 DEF Changes
  <2>3. IInv'
    BY <1>1, <1>4, <2>1, <2>2, EndKeeps DEF InService
  <2>4. doing' = [doing EXCEPT ![c].result = result, ![c].value = NoSecret]
    BY <1>1, <2>1, EndsEffect
  <2> QED
    BY <1>2, <1>4, <2>1, <2>3, <2>4 DEF Register!Succeed, Register!Fail, Register!Ends
<1>5. CASE Refuse(c)
  <2>1. Ends(c, "refused", NoSecret) /\ UNCHANGED <<secret, deleted>> /\ RefusedAtOnce(call[c].req)
    BY <1>5 DEF Refuse
  <2> QED
    BY <1>1, <1>3, <2>1, Zenon
<1>6. CASE Unavailable(c)
  <2>1. Ends(c, "unavailable", NoSecret) /\ UNCHANGED <<secret, deleted>>
    BY <1>6 DEF Unavailable
  <2> QED
    BY <1>1, <1>3, <2>1
<1>7. CASE CreateSecret(c)
  <2>1. ~RefusedAtOnce(call[c].req) /\ call[c].req.op = "set" /\ call[c].at = "create"
    BY <1>1, <1>7 DEF CreateSecret, CallInv
  <2>2. CASE secret.state = "absent" /\ Changes(c, "live", Encode(call[c].req.value))
    <3>1. secret' = [state |-> "live", value |-> Encode(call[c].req.value)]
      BY <2>2 DEF Changes
    <3>2. SecretType' /\ stored' = ReadBack(call[c].req.value)
      BY <1>1, <2>1, <3>1, Encoded DEF SecretType, stored
    <3> QED
      BY <1>1, <1>4, <2>1, <2>2, <3>2 DEF Register!Effect
  <2>3. CASE secret.state = "live" /\ OnConflict(c) /\ UNCHANGED <<secret, deleted>>
    <3>1. /\ CallType' /\ call'[c] = [call[c] EXCEPT !.at = "put"]
          /\ \A d \in Callers \ {c} : call'[d] = call[d]
      BY <1>1, <2>3 DEF OnConflict, CallType
    <3>2. /\ call'[c].at = "put" /\ call'[c].req = call[c].req
          /\ call'[c].result = call[c].result /\ call'[c].value = call[c].value
      BY <1>1, <3>1 DEF CallType
    <3>3. doing' = doing
      BY <3>1, <3>2 DEF doing
    <3>4. TypeOK'
      BY <1>1, <2>3, <3>1 DEF IInv, TypeOK, SecretType
    <3>5. CallInv(c)'
      BY <1>1, <2>1, <2>3, <3>2 DEF CallInv, InService
    <3>6. \A d \in Callers \ {c} : CallInv(d)'
      BY <2>3, <3>1 DEF IInv, CallInv
    <3>7. SetRefusedOnlyByDeletion'
      <4> SUFFICES ASSUME NEW d \in Callers, call'[d].req.op = "set", call'[d].result = "refused"
                   PROVE  d \in deleted' \/ RefusedAtOnce(call'[d].req)
                            \/ call'[d].req.value = "no bytes"
        BY DEF SetRefusedOnlyByDeletion, RefusedAtOnce
      <4>1. call'[d].req = call[d].req /\ call'[d].result = call[d].result
        BY <3>1, <3>2
      <4> QED
        BY <2>3, <4>1 DEF IInv, SetRefusedOnlyByDeletion
    <3>8. UNCHANGED stored
      BY <2>3 DEF stored
    <3> QED
      BY <3>3, <3>4, <3>5, <3>6, <3>7, <3>8 DEF IInv
  <2>4. CASE secret.state = "deleting" /\ Ends(c, "refused", NoSecret) /\ UNCHANGED <<secret, deleted>>
    BY <1>1, <1>3, <2>4 DEF CallInv
  <2> QED
    BY <1>7, <2>2, <2>3, <2>4 DEF CreateSecret
<1>8. CASE PutSecretValue(c)
  <2>1. ~RefusedAtOnce(call[c].req) /\ call[c].req.op \in {"set", "update"} /\ call[c].at = "put"
    BY <1>1, <1>8 DEF PutSecretValue, CallInv
  <2>2. CASE secret.state = "live" /\ Encode(call[c].req.value) # NoValue
    <3>1. Changes(c, "live", Encode(call[c].req.value))
      BY <1>8, <2>2 DEF PutSecretValue
    <3>2. secret' = [state |-> "live", value |-> Encode(call[c].req.value)]
      BY <3>1 DEF Changes
    <3>3. SecretType' /\ stored' = ReadBack(call[c].req.value)
      BY <1>1, <2>1, <3>2, Encoded DEF SecretType, stored
    <3>4. stored # NoSecret
      BY <1>1, <2>2, Decoded DEF stored, NoValue, NoSecret
    <3> QED
      BY <1>1, <1>4, <2>1, <3>1, <3>3, <3>4 DEF Register!Effect
  <2>3. CASE ~(secret.state = "live" /\ Encode(call[c].req.value) # NoValue)
    <3>1. Ends(c, "refused", NoSecret) /\ UNCHANGED <<secret, deleted>>
      BY <1>8, <2>3 DEF PutSecretValue
    <3>2. call[c].req.op = "set" => c \in deleted \/ call[c].req.value = "no bytes"
      BY <1>1, <2>1, <2>3, Encoded DEF CallInv
    <3> QED
      BY <1>1, <1>3, <3>1, <3>2
  <2> QED
    BY <2>2, <2>3
<1>9. CASE DeleteSecret(c)
  <2>1. call[c].req.op = "delete" /\ call[c].at = "delete"
    BY <1>1, <1>9 DEF DeleteSecret, CallInv
  <2>2. CASE secret.state = "live"
    <3>1. Changes(c, "deleting", secret.value)
      BY <1>9, <2>2 DEF DeleteSecret
    <3>2. secret' = [state |-> "deleting", value |-> secret.value]
      BY <3>1 DEF Changes
    <3>3. SecretType' /\ stored' = NoSecret
      BY <1>1, <3>2 DEF SecretType, stored
    <3>4. stored # NoSecret
      BY <1>1, <2>2, Decoded DEF stored, NoValue, NoSecret
    <3> QED
      BY <1>1, <1>4, <2>1, <2>2, <3>1, <3>3, <3>4 DEF Register!Effect
  <2>3. CASE secret.state # "live"
    <3>1. Ends(c, "refused", NoSecret) /\ UNCHANGED <<secret, deleted>>
      BY <1>9, <2>3 DEF DeleteSecret
    <3> QED
      BY <1>1, <1>3, <2>1, <3>1, Zenon
  <2> QED
    BY <2>2, <2>3
<1>10. CASE GetSecretValue(c)
  <2>1. call[c].req.op = "get" /\ call[c].at = "get" /\ UNCHANGED <<secret, deleted>>
    BY <1>1, <1>10 DEF GetSecretValue, CallInv
  <2>2. CASE secret.state = "live" /\ secret.value # NoValue
    <3>1. Ends(c, "ok", Decode(secret.value))
      BY <1>10, <2>2 DEF GetSecretValue
    <3>2. /\ Decode(secret.value) \in {"nil", "text", "object", "bytes"}
          /\ stored = Decode(secret.value)
      BY <1>1, <2>2, Decoded DEF stored
    <3>3. IInv'
      BY <1>1, <2>1, <3>1, <3>2, EndKeeps DEF SecretType
    <3>4. doing' = [doing EXCEPT ![c].result = "ok", ![c].value = stored]
      BY <1>1, <3>1, <3>2, EndsEffect
    <3>5. UNCHANGED stored
      BY <2>1 DEF stored
    <3> QED
      BY <1>1, <1>2, <2>1, <3>2, <3>3, <3>4, <3>5
         DEF Register!Succeed, Register!Ends, NoSecret, NoValue
  <2>3. CASE ~(secret.state = "live" /\ secret.value # NoValue)
    <3>1. Ends(c, "refused", NoSecret)
      BY <1>10, <2>3 DEF GetSecretValue
    <3> QED
      BY <1>1, <1>3, <2>1, <3>1, Zenon
  <2> QED
    BY <2>2, <2>3
<1> QED
  BY <1>1, <1>5, <1>6, <1>7, <1>8, <1>9, <1>10

(* A call begins: the caller has seen no deletion but one that is on.      *)
LEMMA BeginStep ==
  ASSUME SecretAssumption, IInv, NEW c \in Callers, Begin(c)
  PROVE  IInv' /\ Register!Start(c)
<1>1. PICK r \in Requests : call' =
        [call EXCEPT ![c] = [req |-> r, at |-> FirstCall(r.op), result |-> "running", value |-> NoSecret]]
  BY DEF Begin
<1>2. /\ CallType /\ SecretType /\ UNCHANGED secret /\ call[c].at = "idle"
      /\ deleted' = IF secret.state = "deleting" THEN deleted \cup {c} ELSE deleted \ {c}
  BY DEF IInv, TypeOK, Begin
<1>3. PICK at \in InService :
        /\ at = FirstCall(r.op)
        /\ at = "create" => r.op = "set"
        /\ at = "put" => r.op = "update"
        /\ at = "delete" => r.op = "delete"
        /\ at = "get" => r.op = "get"
  <2>1. r.op \in {"set", "update", "delete", "get"}
    BY DEF SecretAssumption
  <2> QED
    BY <2>1 DEF FirstCall, InService
<1>4. /\ CallType' /\ \A d \in Callers \ {c} : call'[d] = call[d]
      /\ call'[c].req = r /\ call'[c].at = at /\ call'[c].result = "running"
      /\ call'[c].value = NoSecret
  BY <1>1, <1>2, <1>3 DEF CallType, InService
<1>5. TypeOK'
  <2>1. deleted' \subseteq Callers /\ calls' \in 0 .. MaxCalls
    <3>1. MaxCalls \in Nat
      BY DEF SecretAssumption
    <3>2. calls \in 0 .. MaxCalls /\ calls < MaxCalls /\ calls' = calls + 1
      BY DEF IInv, TypeOK, Begin
    <3> QED
      BY <1>2, <3>1, <3>2 DEF IInv, TypeOK
  <2> QED
    BY <1>2, <1>4, <2>1 DEF TypeOK, SecretType
<1>6. CallInv(c)'
  BY <1>2, <1>3, <1>4 DEF CallInv, InService
<1>7. ASSUME NEW d \in Callers \ {c} PROVE CallInv(d)'
  <2>1. CallInv(d) /\ call'[d] = call[d] /\ (d \in deleted => d \in deleted')
    BY <1>2, <1>4, <1>7 DEF IInv
  <2> QED
    BY <1>2, <2>1 DEF CallInv
<1>8. SetRefusedOnlyByDeletion'
  <2> SUFFICES ASSUME NEW d \in Callers, call'[d].req.op = "set", call'[d].result = "refused"
               PROVE  d \in deleted' \/ RefusedAtOnce(call'[d].req) \/ call'[d].req.value = "no bytes"
    BY DEF SetRefusedOnlyByDeletion, RefusedAtOnce
  <2>1. d # c /\ call'[d] = call[d]
    BY <1>4
  <2> QED
    BY <1>2, <2>1 DEF IInv, SetRefusedOnlyByDeletion
<1>9. Register!Start(c)
  <2>1. doing[c].result = "idle"
    BY <1>2 DEF IInv, CallInv, doing
  <2>2. doing' = [doing EXCEPT ![c] = [req |-> r, result |-> "running", value |-> NoSecret]]
    BY <1>4 DEF doing
  <2> QED
    BY <1>2, <2>1, <2>2 DEF Register!Start, stored
<1> QED
  BY <1>5, <1>6, <1>7, <1>8, <1>9 DEF IInv

(* The caller has its answer, and may call again.                          *)
LEMMA ReturnStep ==
  ASSUME SecretAssumption, IInv, NEW c \in Callers, Return(c)
  PROVE  IInv' /\ Register!Return(c)
<1>1. /\ CallType /\ CallInv(c) /\ call[c].at = "done" /\ UNCHANGED <<secret, deleted, calls>>
      /\ call' = [call EXCEPT ![c].at = "idle", ![c].result = "idle", ![c].value = NoSecret]
  BY DEF IInv, TypeOK, Return
<1>2. /\ CallType' /\ \A d \in Callers \ {c} : call'[d] = call[d]
      /\ call'[c].req = call[c].req /\ call'[c].at = "idle" /\ call'[c].result = "idle"
      /\ call'[c].value = NoSecret
  BY <1>1 DEF CallType
<1>3. TypeOK'
  BY <1>1, <1>2 DEF IInv, TypeOK, SecretType
<1>4. CallInv(c)' /\ \A d \in Callers \ {c} : CallInv(d)'
  BY <1>1, <1>2 DEF IInv, CallInv, InService
<1>5. SetRefusedOnlyByDeletion'
  <2> SUFFICES ASSUME NEW d \in Callers, call'[d].req.op = "set", call'[d].result = "refused"
               PROVE  d \in deleted' \/ RefusedAtOnce(call'[d].req) \/ call'[d].req.value = "no bytes"
    BY DEF SetRefusedOnlyByDeletion, RefusedAtOnce
  <2>1. d # c /\ call'[d] = call[d]
    BY <1>2
  <2> QED
    BY <1>1, <2>1 DEF IInv, SetRefusedOnlyByDeletion
<1>6. Register!Return(c)
  <2>1. doing' = [doing EXCEPT ![c].result = "idle", ![c].value = NoSecret]
    BY <1>2 DEF doing
  <2>2. call[c].result \in {"ok", "refused", "unavailable"}
    BY <1>1 DEF CallInv, CallType, InService
  <2>3. doing[c].result = call[c].result /\ UNCHANGED stored
    BY <1>1 DEF doing, stored
  <2> QED
    BY <2>1, <2>2, <2>3 DEF Register!Return, Register!Ends
<1> QED
  BY <1>3, <1>4, <1>5, <1>6 DEF IInv

(* The recovery window ends: to its callers the secret was gone already.   *)
LEMMA PurgeStep ==
  ASSUME IInv, Purge PROVE IInv' /\ UNCHANGED <<stored, doing>>
<1>1. /\ UNCHANGED <<call, deleted, calls>> /\ secret.state = "deleting"
      /\ secret' = [state |-> "absent", value |-> NoValue]
  BY DEF Purge
<1>2. TypeOK'
  BY <1>1 DEF IInv, TypeOK, SecretType, CallType
<1>3. ASSUME NEW c \in Callers PROVE CallInv(c)'
  BY <1>1, <1>3 DEF IInv, CallInv, InService
<1>4. SetRefusedOnlyByDeletion' /\ UNCHANGED <<stored, doing>>
  BY <1>1 DEF IInv, SetRefusedOnlyByDeletion, RefusedAtOnce, stored, doing
<1> QED
  BY <1>2, <1>3, <1>4 DEF IInv

(* Every step keeps the invariant, and is one of the register or none.     *)
LEMMA StepKeeps ==
  ASSUME SecretAssumption, IInv, [Next]_vars
  PROVE  IInv' /\ [Register!Next]_<<stored, doing>>
<1>1. CASE UNCHANGED vars
  BY <1>1 DEF IInv, TypeOK, SecretType, CallType, CallInv, SetRefusedOnlyByDeletion, RefusedAtOnce,
              stored, doing, vars
<1>2. CASE Purge
  BY <1>2, PurgeStep
<1>3. ASSUME NEW c \in Callers, Begin(c) \/ Return(c)
      PROVE  IInv' /\ Register!Next
  BY <1>3, BeginStep, ReturnStep DEF Register!Next
<1>4. ASSUME NEW c \in Callers,
             Refuse(c) \/ Unavailable(c) \/ CreateSecret(c) \/ PutSecretValue(c)
               \/ DeleteSecret(c) \/ GetSecretValue(c)
      PROVE  IInv' /\ (Register!Next \/ UNCHANGED <<stored, doing>>)
  BY <1>4, CallStep DEF Register!Next
<1> QED
  BY <1>1, <1>2, <1>3, <1>4 DEF Next

-----------------------------------------------------------------------------
(* The inductive invariant holds always.                                   *)
THEOREM SecretInvariant == ASSUME SecretAssumption PROVE Spec => []IInv
<1>1. Init => IInv
  BY InitialInvariant
<1>2. IInv /\ [Next]_vars => IInv'
  BY StepKeeps
<1> QED
  BY <1>1, <1>2, PTL DEF Spec

(* Set is refused for its request, or because the secret was deleted.      *)
THEOREM RefusalsAreDeletions == ASSUME SecretAssumption PROVE Spec => []SetRefusedOnlyByDeletion
<1>1. IInv => SetRefusedOnlyByDeletion
  BY DEF IInv
<1> QED
  BY <1>1, SecretInvariant, PTL

(* The store of secrets implements the register.                           *)
THEOREM SecretsAreARegister == ASSUME SecretAssumption PROVE Spec => ImplementsContract
<1>1. Init => Register!Init
  BY DEF Init, Register!Init, stored, doing
<1>2. IInv /\ [Next]_vars => [Register!Next]_<<stored, doing>>
  BY StepKeeps
<1> QED
  BY <1>1, <1>2, SecretInvariant, PTL DEF Spec, ImplementsContract, Register!Spec, Register!vars
=============================================================================
