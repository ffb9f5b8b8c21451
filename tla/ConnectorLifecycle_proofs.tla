---------------------- MODULE ConnectorLifecycle_proofs ----------------------
(***************************************************************************)
(* Proofs about ConnectorLifecycle, for every list of connectors, every    *)
(* number of concurrent calls and every number of Closes: what a Close     *)
(* that returns nil has released, why a call misses its client, and that   *)
(* no closed client comes back.                                            *)
(***************************************************************************)
EXTENDS ConnectorLifecycle, TLAPS

(* The two reasons for a missing client that a call can meet.              *)
Dropped(i) == closes > 0 /\ Conns[i].close = "drop"
Available(i) == ref[i] \/ i \in broken \/ Dropped(i)

(* One connector: not touched before it is built; open only behind a field *)
(* that is set; a lazy client is made inside once, and only getClient does *)
(* that; and one that Close has passed is open only if it was created      *)
(* since Close began.                                                      *)
ConnInv(i) ==
  /\ i > built => client[i] = "none" /\ ~ref[i] /\ ~once[i] /\ i \notin broken
  /\ client[i] = "open" => ref[i]
  /\ Conns[i].lazy /\ (ref[i] \/ client[i] # "none") => once[i]
  /\ i <= built /\ (once[i] \/ ~Conns[i].lazy) => Available(i)
  /\ once[i] \/ i \in broken => Conns[i].getClient
  /\ i \in Closers /\ client[i] = "open" /\ (i < closer \/ closeResult = "ok") => i \in late

(* One call between the statements of getClient.                           *)
CallerInv(c) ==
  LET i == caller[c].conn IN
  /\ caller[c].at \in {"check", "refused"} => Available(i) /\ Conns[i].getClient
  /\ caller[c].at = "refused" => i \in broken \/ Dropped(i)
  /\ caller[c].at = "fetch" => ref[i] \/ Dropped(i) \/ NeverMade(i)
  /\ caller[c].at = "nil client" => Dropped(i) \/ NeverMade(i)
  /\ caller[c].at = "got" => ~NeverMade(i)

PhaseInv ==
  /\ app = "building" => built < Len(Conns)
  /\ app = "running" => built = Len(Conns)
  /\ app # "running" => closes = 0
  /\ closer # 0 \/ closeResult = "ok" => closes > 0

IInv ==
  /\ TypeOK /\ PhaseInv
  /\ \A i \in Conn : ConnInv(i)
  /\ \A c \in Callers : CallerInv(c)

-----------------------------------------------------------------------------
(* The list of connectors as the steps use it.                             *)
LEMMA ConnFacts ==
  ASSUME LifecycleAssumption
  PROVE  /\ Len(Conns) \in Nat \ {0} /\ Conn = 1 .. Len(Conns)
         /\ \A i \in Conn : Conns[i].getClient \in BOOLEAN
<1> DEFINE Kind == [lazy : BOOLEAN, fails : BOOLEAN, getClient : BOOLEAN,
                    close : {"drop", "keep", "none"}, again : {"ok", "error"}, pings : BOOLEAN]
<1>1. Conns \in Seq(Kind) /\ Len(Conns) > 0
  BY DEF LifecycleAssumption
<1>2. \A k \in Kind : k.getClient \in BOOLEAN
  OBVIOUS
<1> HIDE DEF Kind
<1> QED
  BY <1>1, <1>2 DEF Conn

(* Nothing is built, created or closed at first.                           *)
LEMMA InitialInvariant == ASSUME LifecycleAssumption, Init PROVE IInv
<1>0. Len(Conns) \in Nat \ {0} /\ Conn = 1 .. Len(Conns)
  BY ConnFacts
<1>1. CallerType
  <2>1. 1 \in Conn
    BY <1>0
  <2> QED
    BY <2>1 DEF Init, CallerType
<1>2. TypeOK
  BY <1>0, <1>1 DEF Init, TypeOK, CallerType, LifecycleAssumption
<1>3. PhaseInv
  BY <1>0 DEF Init, PhaseInv
<1>4. \A i \in Conn : ConnInv(i)
  BY <1>0 DEF Init, ConnInv, Available, Dropped
<1>5. \A c \in Callers : CallerInv(c)
  BY DEF Init, CallerInv
<1> QED
  BY <1>1, <1>2, <1>3, <1>4, <1>5 DEF IInv

(* What is known of a call outlives every step that takes no client away   *)
(* but by a Close, and forgets no failure.                                 *)
LEMMA CallersKeep ==
  ASSUME IInv, UNCHANGED caller, broken \subseteq broken',
         \A i \in Conn : ref[i] => ref'[i] \/ Dropped(i)',
         \A i \in Conn : Dropped(i) => Dropped(i)'
  PROVE  \A c \in Callers : CallerInv(c)'
<1> SUFFICES ASSUME NEW c \in Callers PROVE CallerInv(c)'
  OBVIOUS
<1>1. caller'[c] = caller[c] /\ CallerInv(c)
  BY DEF IInv
<1>2. caller[c].conn \in Conn
  BY DEF IInv, TypeOK, CallerType
<1>3. Available(caller[c].conn) => Available(caller[c].conn)'
  BY <1>2 DEF Available
<1> QED
  BY <1>1, <1>2, <1>3 DEF CallerInv

(* DefaultConnectors builds one more connector.                            *)
LEMMA BuildKeeps == ASSUME LifecycleAssumption, IInv, Build PROVE IInv'
<1>0. Len(Conns) \in Nat \ {0} /\ Conn = 1 .. Len(Conns)
  BY ConnFacts
<1>1. UNCHANGED <<once, late, broken, caller, health, closer, closeResult, closes>>
  BY DEF Build, closeVars
<1>2. /\ built \in Nat /\ built + 1 \in Conn /\ app = "building"
      /\ closer = 0 /\ closes = 0 /\ closeResult # "ok"
  BY <1>0 DEF Build, IInv, TypeOK, PhaseInv
<1>3. \A i \in Conn : i > built => client[i] = "none" /\ ~ref[i] /\ ~once[i] /\ i \notin broken
  BY DEF IInv, ConnInv
<1>4. client \in [Conn -> {"none", "open", "closed"}] /\ ref \in [Conn -> BOOLEAN]
  BY DEF IInv, TypeOK
<1>5. CASE UNCHANGED <<built, client, ref>> /\ app' = "failed"
  <2>1. TypeOK' /\ PhaseInv'
    BY <1>1, <1>2, <1>5 DEF IInv, TypeOK, CallerType, PhaseInv
  <2>2. \A i \in Conn : ConnInv(i)'
    BY <1>1, <1>5 DEF IInv, ConnInv, Available, Dropped, Closers
  <2>3. \A c \in Callers : CallerInv(c)'
    BY <1>1, <1>5, CallersKeep DEF Dropped
  <2> QED
    BY <2>1, <2>2, <2>3 DEF IInv
<1>6. CASE /\ built' = built + 1 /\ app' = IF built + 1 = Len(Conns) THEN "running" ELSE "building"
           /\ client' = IF Conns[built + 1].lazy THEN client
                        ELSE [client EXCEPT ![built + 1] = "open"]
           /\ ref' = [ref EXCEPT ![built + 1] = ~Conns[built + 1].lazy]
  <2>1. /\ client' \in [Conn -> {"none", "open", "closed"}] /\ ref' \in [Conn -> BOOLEAN]
        /\ \A i \in Conn : i # built + 1 => client'[i] = client[i] /\ ref'[i] = ref[i]
        /\ client'[built + 1] = IF Conns[built + 1].lazy THEN "none" ELSE "open"
        /\ ref'[built + 1] = ~Conns[built + 1].lazy
    BY <1>2, <1>3, <1>4, <1>6
  <2>2. built' \in 0 .. Len(Conns) /\ app' \in {"building", "running", "failed"}
    BY <1>0, <1>2, <1>6
  <2>3. TypeOK'
    BY <1>1, <2>1, <2>2 DEF IInv, TypeOK, CallerType
  <2>4. PhaseInv'
    BY <1>0, <1>1, <1>2, <1>6 DEF PhaseInv
  <2>5. ASSUME NEW i \in Conn PROVE ConnInv(i)'
    <3>1. CASE i = built + 1
      <4>1. ~once'[i] /\ i \notin broken' /\ ~(i > built') /\ closeResult' # "ok" /\ ~(i < closer')
        BY <1>1, <1>2, <1>3, <1>6, <3>1
      <4>2. IF Conns[i].lazy THEN client'[i] = "none" /\ ~ref'[i] ELSE client'[i] = "open" /\ ref'[i]
        BY <2>1, <3>1
      <4> QED
        BY <4>1, <4>2 DEF ConnInv, Available
    <3>2. CASE i # built + 1
      <4>1. ConnInv(i) /\ client'[i] = client[i] /\ ref'[i] = ref[i] /\ i \in Int
        BY <1>0, <2>1, <2>5, <3>2 DEF IInv
      <4> QED
        BY <1>1, <1>2, <1>6, <3>2, <4>1 DEF ConnInv, Available, Dropped, Closers
    <3> QED
      BY <3>1, <3>2
  <2>6. \A i \in Conn : ref[i] => ref'[i]
    BY <1>2, <1>3, <2>1
  <2>7. \A c \in Callers : CallerInv(c)'
    BY <1>1, <2>6, CallersKeep DEF Dropped
  <2> QED
    BY <2>3, <2>4, <2>5, <2>7 DEF IInv
<1> QED
  BY <1>5, <1>6 DEF Build

(* clientOnce.Do leaves the connector with a client, with its one failure, *)
(* or dropped, and does not disturb what holds of the others.              *)
LEMMA CreateKeeps ==
  ASSUME LifecycleAssumption, IInv, NEW i \in Conn, Create(i), app = "running",
         UNCHANGED <<built, app, closeVars>>
  PROVE  /\ ref' \in [Conn -> BOOLEAN] /\ once' \in [Conn -> BOOLEAN]
         /\ client' \in [Conn -> {"none", "open", "closed"}]
         /\ late' \subseteq Conn /\ broken' \subseteq Conn
         /\ \A j \in Conn : ConnInv(j)'
         /\ \A j \in Conn : ref[j] => ref'[j]
         /\ broken \subseteq broken' /\ (Conns[i].getClient => Available(i)')
         /\ (~Conns[i].getClient => UNCHANGED <<ref, broken>>)
         /\ \A j \in Conn : client[j] = "closed" => client'[j] = "closed"
<1>0. Len(Conns) \in Nat \ {0} /\ Conn = 1 .. Len(Conns)
  BY ConnFacts
<1>b. \A j \in Conn : Conns[j].getClient \in BOOLEAN
  BY ConnFacts
<1> USE <1>0, <1>b DEF IInv, TypeOK, PhaseInv, closeVars
<1>1. /\ ref' \in [Conn -> BOOLEAN] /\ once' \in [Conn -> BOOLEAN]
      /\ client' \in [Conn -> {"none", "open", "closed"}]
      /\ late' \subseteq Conn /\ broken' \subseteq Conn
  BY DEF Create
<1>2. ASSUME NEW j \in Conn PROVE ConnInv(j)'
  <2>1. CASE j # i
    BY <1>2, <2>1 DEF Create, FirstTime, ConnInv, Available, Dropped, Closers
  <2>2. CASE j = i
    BY <1>2, <2>2 DEF Create, FirstTime, ConnInv, Available, Dropped, Closers
  <2> QED
    BY <2>1, <2>2
<1>3. (\A j \in Conn : ref[j] => ref'[j]) /\ broken \subseteq broken'
  BY DEF Create
<1>4. Conns[i].getClient => Available(i)'
  BY <1>2 DEF Create, ConnInv
<1>6. ~Conns[i].getClient => UNCHANGED <<ref, broken>>
  BY DEF Create, FirstTime
<1>5. \A j \in Conn : client[j] = "closed" => client'[j] = "closed"
  BY DEF Create, FirstTime, ConnInv
<1> QED
  BY <1>1, <1>2, <1>3, <1>4, <1>5, <1>6

LEMMA BeginKeeps ==
  ASSUME LifecycleAssumption, IInv, NEW c \in Callers, Begin(c) PROVE IInv'
<1>0. Len(Conns) \in Nat \ {0} /\ Conn = 1 .. Len(Conns)
  BY ConnFacts
<1>t. CallerType
  BY DEF IInv, TypeOK
<1>1. PICK i \in Conn :
        /\ Create(i)
        /\ caller' = [caller EXCEPT ![c] =
             [at |-> IF Conns[i].getClient THEN "check" ELSE "fetch", conn |-> i]]
  BY DEF Begin
<1>2. app = "running" /\ UNCHANGED <<built, app, health, closeVars>>
  BY DEF Begin
<1>3. UNCHANGED <<built, app, closeVars>>
  BY <1>2
<1>4. /\ ref' \in [Conn -> BOOLEAN] /\ once' \in [Conn -> BOOLEAN]
      /\ client' \in [Conn -> {"none", "open", "closed"}]
      /\ late' \subseteq Conn /\ broken' \subseteq Conn
      /\ \A j \in Conn : ConnInv(j)'
      /\ \A j \in Conn : ref[j] => ref'[j]
      /\ broken \subseteq broken' /\ (Conns[i].getClient => Available(i)')
      /\ (~Conns[i].getClient => UNCHANGED <<ref, broken>>)
  BY <1>1, <1>2, <1>3, CreateKeeps
<1>5. CallerType'
  BY <1>t, <1>1 DEF IInv, CallerType
<1>6. TypeOK' /\ PhaseInv'
  BY <1>t, <1>2, <1>4, <1>5 DEF IInv, TypeOK, PhaseInv, CallerType, closeVars
<1>7. ASSUME NEW d \in Callers PROVE CallerInv(d)'
  <2>1. CASE d = c
    <3>1. caller'[d] = [at |-> IF Conns[i].getClient THEN "check" ELSE "fetch", conn |-> i]
      BY <1>t, <1>1, <2>1 DEF CallerType
    <3>2. CASE Conns[i].getClient
      BY <1>4, <3>1, <3>2 DEF CallerInv
    <3>3. CASE ~Conns[i].getClient
      <4>1. ref'[i] \/ Dropped(i)' \/ NeverMade(i)
        <5>1. i <= built /\ ConnInv(i)
          BY <1>0, <1>2 DEF IInv, PhaseInv
        <5>2. UNCHANGED <<ref, closes>>
          BY <1>2, <1>4, <3>3 DEF closeVars
        <5> QED
          BY <3>3, <5>1, <5>2 DEF ConnInv, Available, Dropped, NeverMade
      <4> QED
        BY <3>1, <3>3, <4>1 DEF CallerInv
    <3> QED
      BY <3>2, <3>3
  <2>2. CASE d # c
    BY <1>t, <1>1, <1>2, <1>4, <1>7, <2>2 DEF IInv, CallerType, CallerInv, Available, Dropped, closeVars
  <2> QED
    BY <2>1, <2>2
<1> QED
  BY <1>4, <1>5, <1>6, <1>7 DEF IInv

(* The other statements of a call change nothing but the call.             *)
LEMMA CallKeeps ==
  ASSUME LifecycleAssumption, IInv, NEW c \in Callers, Check(c) \/ Fetch(c) \/ Finish(c)
  PROVE  IInv'
<1>t. CallerType
  BY DEF IInv, TypeOK
<1>0. Len(Conns) \in Nat \ {0} /\ Conn = 1 .. Len(Conns)
  BY ConnFacts
<1>1. UNCHANGED <<built, app, client, ref, once, late, broken, health, closer, closeResult, closes>>
  BY DEF Check, Fetch, Finish, clientVars, closeVars
<1>2. PICK at \in {"idle", "fetch", "got", "refused", "nil client"} :
        caller' = [caller EXCEPT ![c].at = at]
  BY DEF Check, Fetch, Finish
<1>3. CallerType'
  BY <1>t, <1>2, <1>0 DEF IInv, CallerType
<1>4. TypeOK' /\ PhaseInv' /\ \A i \in Conn : ConnInv(i)'
  BY <1>t, <1>1, <1>3, <1>0
     DEF IInv, TypeOK, PhaseInv, CallerType, ConnInv, Available, Dropped, Closers
<1>5. ASSUME NEW d \in Callers PROVE CallerInv(d)'
  <2>1. CASE d = c
    <3>0. PICK j \in Conn : j = caller[c].conn
      BY <1>t DEF CallerType
    <3>1. CallerInv(c) /\ caller'[c].conn = j
      BY <1>t, <1>2, <3>0 DEF IInv, CallerType
    <3>2. (Available(j) => Available(j)') /\ (Dropped(j) => Dropped(j)') /\ (ref[j] => ref'[j])
          /\ broken' = broken
      BY <1>1 DEF Available, Dropped
    <3>3. CASE Check(c)
      <4>1. caller'[c].at = IF ref[j] THEN "fetch" ELSE "refused"
        BY <1>t, <3>0, <3>3 DEF Check, CallerType
      <4>2. Available(j) /\ (ref[j] \/ j \in broken \/ Dropped(j)) /\ Conns[j].getClient
        BY <3>0, <3>1, <3>3 DEF Check, CallerInv, Available
      <4> QED
        BY <2>1, <3>1, <3>2, <4>1, <4>2 DEF CallerInv
    <3>4. CASE Fetch(c)
      <4>1. caller'[c].at = IF ref[j] THEN "got" ELSE "nil client"
        BY <1>t, <3>0, <3>4 DEF Fetch, CallerType
      <4>2. ref[j] \/ Dropped(j) \/ NeverMade(j)
        BY <3>0, <3>1, <3>4 DEF Fetch, CallerInv
      <4>3. ref[j] => ~NeverMade(j)
        BY DEF IInv, ConnInv, NeverMade
      <4> QED
        BY <2>1, <3>1, <3>2, <4>1, <4>2, <4>3 DEF CallerInv
    <3>5. CASE Finish(c)
      <4>1. caller'[c].at = "idle"
        BY <1>t, <3>5 DEF Finish, CallerType
      <4> QED
        BY <2>1, <4>1 DEF CallerInv
    <3> QED
      BY <2>1, <3>3, <3>4, <3>5
  <2>2. CASE d # c
    BY <1>t, <1>1, <1>2, <1>5, <2>2 DEF IInv, CallerType, CallerInv, Available, Dropped
  <2> QED
    BY <2>1, <2>2
<1> QED
  BY <1>3, <1>4, <1>5 DEF IInv

(* Health.                                                                 *)
LEMMA HealthKeeps == ASSUME LifecycleAssumption, IInv, Ping \/ HealthDone PROVE IInv'
<1>t. CallerType
  BY DEF IInv, TypeOK
<1>0. Len(Conns) \in Nat \ {0} /\ Conn = 1 .. Len(Conns)
  BY ConnFacts
<1>1. UNCHANGED <<built, app, caller, closeVars>>
  BY DEF Ping, HealthDone
<1>2. health' \in 0 .. Len(Conns)
  BY <1>0 DEF IInv, TypeOK, Ping, HealthDone
<1>3. CASE UNCHANGED clientVars
  BY <1>t, <1>1, <1>2, <1>3, <1>0
     DEF IInv, TypeOK, CallerType, PhaseInv, ConnInv, CallerInv, Available, Dropped, Closers,
         clientVars, closeVars
<1>4. CASE Ping /\ Create(health + 1)
  <2>1. health + 1 \in Conn /\ app = "running"
    BY <1>4, <1>0 DEF IInv, TypeOK, Ping
  <2>2. UNCHANGED <<built, app, closeVars>>
    BY <1>1
  <2>3. /\ ref' \in [Conn -> BOOLEAN] /\ once' \in [Conn -> BOOLEAN]
        /\ client' \in [Conn -> {"none", "open", "closed"}]
        /\ late' \subseteq Conn /\ broken' \subseteq Conn
        /\ \A j \in Conn : ConnInv(j)'
        /\ \A j \in Conn : ref[j] => ref'[j]
        /\ broken \subseteq broken'
    BY <1>4, <2>1, <2>2, CreateKeeps
  <2>4. TypeOK' /\ CallerType' /\ PhaseInv'
    BY <1>t, <1>1, <1>2, <2>3 DEF IInv, TypeOK, CallerType, PhaseInv, closeVars
  <2>5. ASSUME NEW c \in Callers PROVE CallerInv(c)'
    BY <1>t, <1>1, <2>3, <2>5 DEF IInv, CallerType, CallerInv, Available, Dropped, closeVars
  <2> QED
    BY <2>3, <2>4, <2>5 DEF IInv
<1> QED
  BY <1>3, <1>4 DEF Ping, HealthDone

(* Close begins anew: the connectors it has passed are none.               *)
LEMMA CloseBeginKeeps == ASSUME LifecycleAssumption, IInv, CloseBegin PROVE IInv'
<1>0. Len(Conns) \in Nat \ {0} /\ Conn = 1 .. Len(Conns)
  BY ConnFacts
<1>1. /\ UNCHANGED <<built, app, client, ref, once, late, broken, caller, health>>
      /\ app = "running" /\ closer' = 1 /\ closeResult' = "none"
  BY DEF CloseBegin, StartAt, clientVars
<1>2. closes \in Nat /\ closes' = closes + 1 /\ closes' \in 0 .. MaxCloses
  BY DEF CloseBegin, IInv, TypeOK, LifecycleAssumption
<1>3. closer' \in 0 .. Len(Conns)
  BY <1>0, <1>1
<1>4. TypeOK'
  BY <1>1, <1>2, <1>3 DEF IInv, TypeOK, CallerType
<1>5. PhaseInv'
  BY <1>1, <1>2 DEF IInv, PhaseInv
<1>6. ASSUME NEW i \in Conn PROVE ConnInv(i)'
  <2>1. ConnInv(i) /\ i \in Int /\ ~(i < closer')
    BY <1>0, <1>1, <1>6 DEF IInv
  <2> QED
    BY <1>1, <1>2, <2>1 DEF ConnInv, Available, Dropped, Closers
<1>7. \A c \in Callers : CallerInv(c)'
  BY <1>1, <1>2, CallersKeep DEF Dropped
<1> QED
  BY <1>4, <1>5, <1>6, <1>7 DEF IInv

(* Close at one connector: it releases the client, or fails and ends.      *)
LEMMA CloseNextKeeps ==
  ASSUME LifecycleAssumption, IInv, CloseNext
  PROVE  IInv' /\ \A i \in Conn : client[i] = "closed" => client'[i] = "closed"
<1>0. Len(Conns) \in Nat \ {0} /\ Conn = 1 .. Len(Conns)
  BY ConnFacts
<1>1. closer \in Conn /\ closer \in Int /\ closes > 0
  BY <1>0 DEF IInv, TypeOK, PhaseInv, CloseNext
<1>2. UNCHANGED <<built, app, once, late, broken, caller, health, closes>>
  BY DEF CloseNext
<1>3. client \in [Conn -> {"none", "open", "closed"}] /\ ref \in [Conn -> BOOLEAN]
  BY DEF IInv, TypeOK
<1>4. \A i \in Conn : client[i] = "open" => ref[i]
  BY DEF IInv, ConnInv
<1>5. /\ client' \in [Conn -> {"none", "open", "closed"}] /\ ref' \in [Conn -> BOOLEAN]
      /\ \A i \in Conn \ {closer} : client'[i] = client[i] /\ ref'[i] = ref[i]
  BY <1>1, <1>3 DEF CloseNext, ClosesOk, ClosesBadly
<1>6. /\ (ref[closer] => ref'[closer] \/ Dropped(closer)) /\ (ref'[closer] => ref[closer])
      /\ client'[closer] = client[closer] \/ (client'[closer] = "closed" /\ ref[closer])
      /\ client'[closer] = "open" => ref'[closer]
  <2>1. CASE ClosesBadly(closer)
    <3>1. client' = client /\ ref' = ref
      BY <2>1 DEF ClosesBadly
    <3> QED
      BY <1>1, <1>4, <3>1
  <2>2. CASE ClosesOk(closer)
    <3>1. (ref[closer] => ref'[closer] \/ Dropped(closer)) /\ (ref'[closer] => ref[closer])
      <4>1. CASE Conns[closer].close = "drop"
        BY <1>1, <1>3, <2>2, <4>1 DEF ClosesOk, Dropped
      <4>2. CASE Conns[closer].close # "drop"
        BY <2>2, <4>2 DEF ClosesOk
      <4> QED
        BY <4>1, <4>2
    <3>2. client'[closer] = client[closer] \/ (client'[closer] = "closed" /\ ref[closer])
      BY <1>1, <1>3, <2>2 DEF ClosesOk
    <3>3. client'[closer] = "open" => ref'[closer]
      BY <1>1, <1>3, <1>4, <2>2 DEF ClosesOk
    <3> QED
      BY <3>1, <3>2, <3>3
  <2> QED
    BY <2>1, <2>2 DEF CloseNext
<1>7. \A i \in Conn : /\ (ref[i] => ref'[i] \/ Dropped(i)) /\ (ref'[i] => ref[i])
                      /\ client'[i] = client[i] \/ (client'[i] = "closed" /\ ref[i])
                      /\ client'[i] = "open" => ref'[i]
  <2> SUFFICES ASSUME NEW i \in Conn
               PROVE  /\ (ref[i] => ref'[i] \/ Dropped(i)) /\ (ref'[i] => ref[i])
                      /\ client'[i] = client[i] \/ (client'[i] = "closed" /\ ref[i])
                      /\ client'[i] = "open" => ref'[i]
    OBVIOUS
  <2>1. CASE i = closer
    BY <1>6, <2>1
  <2>2. CASE i # closer
    BY <1>4, <1>5, <2>2
  <2> QED
    BY <2>1, <2>2
<1>8. /\ closer' \in 0 .. Len(Conns) /\ closeResult' \in {"none", "ok", "error"}
      /\ \/ /\ closer' \in {0, closer + 1}
            /\ closer \in Closers => client'[closer] # "open"
            /\ closeResult' = "ok" => closer = Len(Conns) \/ closeResult = "ok"
            /\ closer' # 0 => closer' = closer + 1
         \/ closer' = 0 /\ closeResult' = "error"
  <2>1. closeResult \in {"none", "ok", "error"}
    BY DEF IInv, TypeOK
  <2>2. CASE ClosesBadly(closer) /\ closer' = 0 /\ closeResult' = "error"
    BY <1>0, <2>2
  <2>3. CASE /\ ClosesOk(closer) /\ closer' = Following(closer)
             /\ closeResult' = IF closer = Len(Conns) THEN "ok" ELSE closeResult
    <3>1. closer \in Closers => client'[closer] # "open"
      BY <1>1, <1>3, <1>4, <2>3 DEF ClosesOk, Closers
    <3>2. closer' \in 0 .. Len(Conns) /\ closer' \in {0, closer + 1}
      BY <1>0, <1>1, <2>3 DEF Following
    <3> QED
      BY <2>1, <2>3, <3>1, <3>2
  <2> QED
    BY <2>2, <2>3 DEF CloseNext
<1>9. TypeOK'
  BY <1>2, <1>5, <1>8 DEF IInv, TypeOK, CallerType
<1>10. PhaseInv'
  BY <1>1, <1>2 DEF IInv, PhaseInv
<1>11. ASSUME NEW i \in Conn PROVE ConnInv(i)'
  <2>1. i \in Int /\ ConnInv(i) /\ i <= Len(Conns)
    BY <1>0, <1>11 DEF IInv
  <2>2. i \in Closers /\ client'[i] = "open" /\ (i < closer' \/ closeResult' = "ok") => i \in late
    <3> SUFFICES ASSUME i \in Closers, client'[i] = "open", i < closer' \/ closeResult' = "ok"
                 PROVE  i \in late
      OBVIOUS
    <3>1. client[i] = "open"
      BY <1>7, <1>11
    <3>2. i # closer
      BY <1>0, <1>8, <2>1
    <3>3. i < closer \/ closeResult = "ok"
      BY <1>0, <1>1, <1>8, <2>1, <3>2
    <3> QED
      BY <2>1, <3>1, <3>3 DEF ConnInv
  <2>3. /\ (ref[i] => ref'[i] \/ Dropped(i)) /\ (ref'[i] => ref[i])
        /\ client'[i] = client[i] \/ (client'[i] = "closed" /\ ref[i])
        /\ client'[i] = "open" => ref'[i]
    BY <1>7, <1>11
  <2> QED
    BY <1>2, <2>1, <2>2, <2>3 DEF ConnInv, Available, Dropped, Closers
<1>12. \A c \in Callers : CallerInv(c)'
  BY <1>2, <1>7, CallersKeep DEF Dropped
<1> QED
  BY <1>7, <1>9, <1>10, <1>11, <1>12 DEF IInv

(* Every step keeps the invariant.                                         *)
LEMMA StepKeeps == ASSUME LifecycleAssumption, IInv, [Next]_vars PROVE IInv'
<1>1. CASE UNCHANGED vars
  BY <1>1 DEF IInv, TypeOK, CallerType, PhaseInv, ConnInv, CallerInv, Available, Dropped, Closers,
              vars, clientVars, closeVars
<1>2. ASSUME NEW c \in Callers, Begin(c) \/ Check(c) \/ Fetch(c) \/ Finish(c) PROVE IInv'
  BY <1>2, BeginKeeps, CallKeeps
<1> QED
  BY <1>1, <1>2, BuildKeeps, HealthKeeps, CloseBeginKeeps, CloseNextKeeps DEF Next

-----------------------------------------------------------------------------
(* The inductive invariant holds always.                                   *)
THEOREM LifecycleInvariant == ASSUME LifecycleAssumption PROVE Spec => []IInv
<1>1. Init => IInv
  BY InitialInvariant
<1>2. IInv /\ [Next]_vars => IInv'
  BY StepKeeps
<1> QED
  BY <1>1, <1>2, PTL DEF Spec

(* A Close that returned nil left no client open but those created since   *)
(* it began.                                                               *)
THEOREM CloseReleasesAll == ASSUME LifecycleAssumption PROVE Spec => []CloseReleases
<1>1. IInv => CloseReleases
  BY DEF IInv, ConnInv, CloseReleases, Closers
<1> QED
  BY <1>1, LifecycleInvariant, PTL

(* A call misses its client after a Close, after a failed creation, or     *)
(* when its connector never runs the factory it has, and then always.      *)
THEOREM MissingIsExplained == ASSUME LifecycleAssumption PROVE Spec => []MissingHasACause
<1>1. IInv => MissingHasACause
  BY DEF IInv, CallerInv, Available, Dropped, MissingHasACause
<1> QED
  BY <1>1, LifecycleInvariant, PTL

(* No step opens a client again that was closed.                           *)
THEOREM ClosedForGood == ASSUME LifecycleAssumption PROVE Spec => ClosedStaysClosed
<1>0. Len(Conns) \in Nat \ {0} /\ Conn = 1 .. Len(Conns)
  BY ConnFacts
<1>1. IInv /\ [Next]_vars => [\A i \in Conn : client[i] = "closed" => client'[i] = "closed"]_vars
  <2> SUFFICES ASSUME IInv, [Next]_vars, NEW i \in Conn, client[i] = "closed"
               PROVE  client'[i] = "closed"
    OBVIOUS
  <2>1. CASE Build
    BY <2>1, <1>0 DEF Build, IInv, TypeOK, ConnInv, PhaseInv
  <2>2. ASSUME NEW j \in Conn, Create(j), app = "running", UNCHANGED <<built, app, closeVars>>
        PROVE  client'[i] = "closed"
    BY <2>2, CreateKeeps
  <2>3. ASSUME NEW c \in Callers, Begin(c) PROVE client'[i] = "closed"
    <3>1. PICK j \in Conn : Create(j)
      BY <2>3 DEF Begin
    <3>2. app = "running" /\ UNCHANGED <<built, app, closeVars>>
      BY <2>3 DEF Begin
    <3> QED
      BY <2>2, <3>1, <3>2
  <2>4. CASE Ping
    <3>1. app = "running" /\ UNCHANGED <<built, app, closeVars>> /\ health + 1 \in Conn
      BY <2>4, <1>0 DEF Ping, IInv, TypeOK
    <3>2. Create(health + 1) \/ UNCHANGED client
      BY <2>4 DEF Ping, clientVars
    <3> QED
      BY <2>2, <3>1, <3>2
  <2>5. CASE CloseNext
    BY <2>5, CloseNextKeeps
  <2>6. ASSUME NEW c \in Callers, Check(c) \/ Fetch(c) \/ Finish(c) PROVE client'[i] = "closed"
    BY <2>6 DEF Check, Fetch, Finish, clientVars
  <2>7. CASE HealthDone \/ CloseBegin \/ UNCHANGED vars
    BY <2>7 DEF HealthDone, CloseBegin, vars, clientVars
  <2> QED
    BY <2>1, <2>3, <2>4, <2>5, <2>6, <2>7 DEF Next
<1> QED
  BY <1>1, LifecycleInvariant, PTL DEF Spec, ClosedStaysClosed
=============================================================================
