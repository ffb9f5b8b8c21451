------------------------- MODULE ConnectorLifecycle -------------------------
(***************************************************************************)
(* connectors/connectors.go, and the lazy clients of the connectors: the   *)
(* process builds the connectors in order, calls use them and create their *)
(* clients, Health pings them, and Close closes them in order, all of it   *)
(* without a common lock.                                                  *)
(*                                                                         *)
(* No connector has an Init method, so Init calls nothing.                 *)
(***************************************************************************)
EXTENDS Integers, Sequences

CONSTANTS
  Conns,        \* [lazy, fails, getClient, close, again, pings], in the order of values()
  Callers,      \* calls of connectors, each by a goroutine of its own
  MaxCloses     \* bound: calls of Close

\* fails: the factory of a lazy client may return an error.
\* getClient: calls ask getClient for the client; the calls of the others, as
\* those of Qdrant, use the field as it is, and nothing runs a factory they have.
\* close: "drop" sets the client to nil, "keep" closes it and keeps the
\* reference, "none" has no Close; again: what closing a closed client returns.

Conn == DOMAIN Conns

(* What an instance must satisfy, and the proofs assume.                   *)
LifecycleAssumption ==
  /\ Conns \in Seq([lazy : BOOLEAN, fails : BOOLEAN, getClient : BOOLEAN,
                    close : {"drop", "keep", "none"},
                    again : {"ok", "error"}, pings : BOOLEAN])
  /\ Len(Conns) > 0 /\ MaxCloses \in Nat

VARIABLES
  built,        \* connectors DefaultConnectors has built
  app,          \* "building", "running" or "failed"
  client,       \* the resource behind the connector: "none", "open" or "closed"
  ref,          \* whether the connector's client field is set
  once,         \* whether its sync.Once has run
  caller,       \* [at, conn]: a call between the statements of getClient
  closer,       \* the connector Close or Health is at, or 0
  health,
  closeResult,  \* what the last Close returned
  late,         \* history: connectors whose client was created since Close began
  broken,       \* history: connectors whose factory failed
  closes

clientVars == <<client, ref, once, late, broken>>
closeVars == <<closer, closeResult, closes>>
vars == <<built, app, clientVars, caller, health, closeVars>>

Init ==
  /\ built = 0 /\ app = "building"
  /\ client = [i \in Conn |-> "none"]
  /\ ref = [i \in Conn |-> FALSE]
  /\ once = [i \in Conn |-> FALSE]
  /\ caller = [c \in Callers |-> [at |-> "idle", conn |-> 1]]
  /\ late = {} /\ broken = {}
  /\ closer = 0 /\ health = 0 /\ closeResult = "none" /\ closes = 0

(* DefaultConnectors: an eager connector creates its client at once; one   *)
(* that cannot be built ends the program's start.                          *)
Build ==
  /\ app = "building"
  /\ \/ /\ built' = built + 1
        /\ LET i == built + 1 IN
             /\ client' = IF Conns[i].lazy THEN client ELSE [client EXCEPT ![i] = "open"]
             /\ ref' = [ref EXCEPT ![i] = ~Conns[i].lazy]
        /\ app' = IF built + 1 = Len(Conns) THEN "running" ELSE "building"
     \/ app' = "failed" /\ UNCHANGED <<built, client, ref>>
  /\ UNCHANGED <<once, late, broken, caller, health, closeVars>>

-----------------------------------------------------------------------------
(* Mutant: the client is created again whenever the field is nil.          *)
WheneverNil(i) == ~ref[i] /\ Conns[i].lazy

FirstTime(i) == ~once[i] /\ ~ref[i] /\ Conns[i].lazy /\ Conns[i].getClient

(* clientOnce.Do: the first call creates a lazy client, and it alone; of a *)
(* connector without getClient no call does.                               *)
Create(i) ==
  /\ once' = [once EXCEPT ![i] = @ \/ Conns[i].getClient]
  /\ \/ /\ FirstTime(i)
        /\ ref' = [ref EXCEPT ![i] = TRUE]
        /\ client' = [client EXCEPT ![i] = "open"]
        /\ late' = IF closes > 0 THEN late \cup {i} ELSE late
        /\ UNCHANGED broken
     \/ /\ FirstTime(i) /\ Conns[i].fails
        /\ broken' = broken \cup {i}
        /\ UNCHANGED <<ref, client, late>>
     \/ /\ ~FirstTime(i)
        /\ UNCHANGED <<ref, client, late, broken>>

Begin(c) ==
  /\ app = "running" /\ caller[c].at = "idle"
  /\ \E i \in Conn : /\ Create(i)
                     /\ caller' = [caller EXCEPT ![c] =
                          [at |-> IF Conns[i].getClient THEN "check" ELSE "fetch", conn |-> i]]
  /\ UNCHANGED <<built, app, health, closeVars>>

(* if c.client == nil ...                                                  *)
Check(c) ==
  /\ caller[c].at = "check"
  /\ caller' = [caller EXCEPT ![c].at = IF ref[caller[c].conn] THEN "fetch" ELSE "refused"]
  /\ UNCHANGED <<built, app, clientVars, health, closeVars>>

(* ... return c.client reads the field again; or the call's only read.     *)
Fetch(c) ==
  /\ caller[c].at = "fetch"
  /\ caller' = [caller EXCEPT ![c].at = IF ref[caller[c].conn] THEN "got" ELSE "nil client"]
  /\ UNCHANGED <<built, app, clientVars, health, closeVars>>

Finish(c) ==
  /\ caller[c].at \in {"got", "refused"}
  /\ caller' = [caller EXCEPT ![c].at = "idle"]
  /\ UNCHANGED <<built, app, clientVars, health, closeVars>>

-----------------------------------------------------------------------------
(* Health pings the connectors that can be, and so creates lazy clients;   *)
(* the first failure ends it.                                              *)
Ping ==
  /\ app = "running" /\ health < Len(Conns)
  /\ LET i == health + 1 IN
       IF Conns[i].pings
       THEN Create(i) /\ \/ health' = i
                         \/ health' = 0
       ELSE health' = i /\ UNCHANGED clientVars
  /\ UNCHANGED <<built, app, caller, closeVars>>

HealthDone == health = Len(Conns) /\ health' = 0
              /\ UNCHANGED <<built, app, clientVars, caller, closeVars>>

(* Mutant: the loop does not start at the first connector.                 *)
First == 2

StartAt == 1

CloseBegin ==
  /\ app = "running" /\ closer = 0 /\ closes < MaxCloses
  /\ closer' = StartAt /\ closes' = closes + 1 /\ closeResult' = "none"
  /\ UNCHANGED <<built, app, clientVars, caller, health>>

(* Mutants: the loop runs past the last connector; every Close drops its   *)
(* client.                                                                 *)
RunsOn(i) == i + 1
ClosesAndDrops(i) ==
  /\ client' = IF Conns[i].close = "none" \/ ~ref[i] THEN client
               ELSE [client EXCEPT ![i] = "closed"]
  /\ ref' = [ref EXCEPT ![i] = FALSE]

Following(i) == IF i = Len(Conns) THEN 0 ELSE i + 1

(* The Close of one connector: it does not create a client to close it.    *)
ClosesOk(i) ==
  /\ \/ Conns[i].close # "keep" \/ ~ref[i] \/ client[i] = "open" \/ Conns[i].again = "ok"
  /\ client' = IF Conns[i].close = "none" \/ ~ref[i] THEN client
               ELSE [client EXCEPT ![i] = "closed"]
  /\ ref' = IF Conns[i].close = "drop" THEN [ref EXCEPT ![i] = FALSE] ELSE ref

ClosesBadly(i) ==
  /\ Conns[i].close = "keep" /\ ref[i]
  /\ client[i] = "closed" => Conns[i].again = "error"
  /\ UNCHANGED <<client, ref>>

(* The loop of Close: the first error ends it.                             *)
CloseNext ==
  /\ closer # 0
  /\ \/ /\ ClosesOk(closer)
        /\ closer' = Following(closer)
        /\ closeResult' = IF closer = Len(Conns) THEN "ok" ELSE closeResult
     \/ /\ ClosesBadly(closer)
        /\ closer' = 0 /\ closeResult' = "error"
  /\ UNCHANGED <<built, app, once, late, broken, caller, health, closes>>

Next ==
  \/ Build \/ Ping \/ HealthDone \/ CloseBegin \/ CloseNext
  \/ \E c \in Callers : Begin(c) \/ Check(c) \/ Fetch(c) \/ Finish(c)

Spec == Init /\ [][Next]_vars

-----------------------------------------------------------------------------
CallerType ==
  caller \in [Callers -> [at : {"idle", "check", "fetch", "got", "refused", "nil client"},
                          conn : Conn]]

TypeOK ==
  /\ built \in 0 .. Len(Conns)
  /\ app \in {"building", "running", "failed"}
  /\ client \in [Conn -> {"none", "open", "closed"}]
  /\ ref \in [Conn -> BOOLEAN] /\ once \in [Conn -> BOOLEAN]
  /\ CallerType
  /\ closer \in 0 .. Len(Conns) /\ health \in 0 .. Len(Conns)
  /\ closeResult \in {"none", "ok", "error"}
  /\ late \subseteq Conn /\ broken \subseteq Conn
  /\ closes \in 0 .. MaxCloses

Closers == {i \in Conn : Conns[i].close # "none"}

(* A Close that returns nil has released every client, except those that   *)
(* a call or a Health created since it began: the connectors forget that   *)
(* they were closed.                                                       *)
CloseReleases ==
  closeResult = "ok" => \A i \in Closers : client[i] = "open" => i \in late

(* A call finds its client missing only when a Close has set the field to  *)
(* nil, when the one attempt to create it failed (that one is final), or   *)
(* when the connector has a factory and no getClient to run it, as the     *)
(* lazy Qdrant connector: none of its calls ever gets a client, whether or *)
(* not Close was called.  No call with getClient passes its check without  *)
(* a client unless a Close comes between the two reads.                    *)
NeverMade(i) == Conns[i].lazy /\ ~Conns[i].getClient

MissingHasACause ==
  \A c \in Callers :
    LET i == caller[c].conn
        dropped == closes > 0 /\ Conns[i].close = "drop"
    IN /\ caller[c].at = "refused" => i \in broken \/ dropped
       /\ caller[c].at = "nil client" => dropped \/ NeverMade(i)
       /\ caller[c].at = "got" => ~NeverMade(i)

(* A closed connector is not revived: its client, once closed, stays so.   *)
ClosedStaysClosed ==
  [][\A i \in Conn : client[i] = "closed" => client'[i] = "closed"]_vars
=============================================================================
