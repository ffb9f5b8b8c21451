----------------------------- MODULE UserGraph -----------------------------
(***************************************************************************)
(* connectors/graphdb/neo4j.go: users, friendships and blocks in Neo4j,    *)
(* one transaction per call.                                               *)
(*                                                                         *)
(* MERGE matches what is committed when the statement runs and creates     *)
(* what it did not find.  Two transactions that both miss a node both      *)
(* create it, unless the database has a uniqueness constraint on the id,   *)
(* which nothing in the repository creates.  A node is therefore a user    *)
(* and the number of the copy.                                             *)
(***************************************************************************)
EXTENDS Integers, FiniteSets

CONSTANTS
  Users,        \* user ids, as integers: orderedPair compares them
  Callers,
  Requests,     \* [op, a, b]; b = a for an upsert
  NoRequest,
  MaxCopies,    \* bound: nodes of one user
  MaxCalls,     \* bound: calls in a behaviour
  MaxDegrees    \* bound: the largest argument of WithinDegrees

VARIABLES
  uniqueIDs,    \* whether the database has the constraint; never changes
  nodes, friend, block,
  req, phase,   \* each caller's call and how far it got
  found,        \* what the MERGE statement of the call matched
  calls

graphVars == <<nodes, friend, block>>
vars == <<uniqueIDs, graphVars, req, phase, found, calls>>

Node == Users \X (1 .. MaxCopies)
Nothing == [a |-> {}, b |-> {}, edges |-> {}]
Merges == {"upsert", "link", "block"}

Init ==
  /\ uniqueIDs \in BOOLEAN
  /\ nodes = {} /\ friend = {} /\ block = {}
  /\ req = [c \in Callers |-> NoRequest]
  /\ phase = [c \in Callers |-> "ok"]
  /\ found = [c \in Callers |-> Nothing]
  /\ calls = 0

MatchUser(u) == {n \in nodes : n[1] = u}

(* Mutant: the arguments are taken in the order they are given.            *)
GivenPair(a, b) == <<a, b>>

orderedPair(a, b) == IF a <= b THEN <<a, b>> ELSE <<b, a>>

(* The nodes a request is about: friendships are stored in canonical       *)
(* direction, blocks from the blocker to the blocked.                      *)
Ends(r) == IF r.op \in {"link", "unlink"} THEN orderedPair(r.a, r.b) ELSE <<r.a, r.b>>

Stored(r) == IF r.op \in {"link", "unlink"} THEN friend ELSE block

-----------------------------------------------------------------------------
(* The checks before a session is opened.                                  *)
Call(c) ==
  /\ phase[c] \in {"ok", "error"} /\ calls < MaxCalls
  /\ calls' = calls + 1
  /\ \E r \in Requests :
       /\ req' = [req EXCEPT ![c] = r]
       /\ phase' = [phase EXCEPT ![c] =
            IF r.op = "upsert" \/ r.a # r.b THEN "begun"
            ELSE IF r.op \in Merges THEN "error" ELSE "ok"]
  /\ UNCHANGED <<uniqueIDs, graphVars, found>>

(* The MERGE clauses read.                                                 *)
Merge(c) ==
  LET e == Ends(req[c])
      as == MatchUser(e[1])
      bs == MatchUser(e[2]) IN
  /\ phase[c] = "begun" /\ req[c].op \in Merges
  /\ phase' = [phase EXCEPT ![c] = "merging"]
  /\ found' = [found EXCEPT ![c] =
       [a |-> as, b |-> bs, edges |-> (as \X bs) \cap Stored(req[c])]]
  /\ UNCHANGED <<uniqueIDs, graphVars, req, calls>>

(* The nodes a MERGE of user u binds when it has found ns: the constraint  *)
(* makes it look again under a lock.                                       *)
Bound(u, ns) ==
  LET old == IF uniqueIDs THEN MatchUser(u) ELSE ns
  IN  IF old # {} THEN old ELSE {<<u, Cardinality(MatchUser(u)) + 1>>}

(* The transaction creates what was not found, and commits.                *)
CommitMerge(c) ==
  LET r == req[c]
      as == Bound(Ends(r)[1], found[c].a)
      bs == Bound(Ends(r)[2], found[c].b)
      new == (as \X bs) \ found[c].edges IN
  /\ phase[c] = "merging" /\ as \cup bs \subseteq Node
  /\ phase' = [phase EXCEPT ![c] = "committed"]
  /\ nodes' = nodes \cup as \cup bs
  /\ friend' = IF r.op = "link" THEN friend \cup new ELSE friend
  /\ block' = IF r.op = "block" THEN block \cup new ELSE block
  /\ found' = [found EXCEPT ![c] = Nothing]
  /\ UNCHANGED <<uniqueIDs, req, calls>>

(* MATCH (a)-[r]->(b) DELETE r                                             *)
CommitDelete(c) ==
  LET r == req[c]
      gone == MatchUser(Ends(r)[1]) \X MatchUser(Ends(r)[2]) IN
  /\ phase[c] = "begun" /\ r.op \notin Merges
  /\ phase' = [phase EXCEPT ![c] = "committed"]
  /\ friend' = IF r.op = "unlink" THEN friend \ gone ELSE friend
  /\ block' = IF r.op = "unblock" THEN block \ gone ELSE block
  /\ UNCHANGED <<uniqueIDs, nodes, req, found, calls>>

Return(c) ==
  /\ phase[c] = "committed"
  /\ phase' = [phase EXCEPT ![c] = "ok"]
  /\ UNCHANGED <<uniqueIDs, graphVars, req, found, calls>>

(* The transaction is rolled back, or the answer to its commit is lost.    *)
Fail(c) ==
  /\ phase[c] \in {"begun", "merging", "committed"}
  /\ phase' = [phase EXCEPT ![c] = "error"]
  /\ found' = [found EXCEPT ![c] = Nothing]
  /\ UNCHANGED <<uniqueIDs, graphVars, req, calls>>

(* ExecuteWrite rolls back after a transient error and runs its function   *)
(* again.                                                                  *)
Retry(c) ==
  /\ phase[c] = "merging"
  /\ phase' = [phase EXCEPT ![c] = "begun"]
  /\ found' = [found EXCEPT ![c] = Nothing]
  /\ UNCHANGED <<uniqueIDs, graphVars, req, calls>>

Next ==
  \E c \in Callers :
    \/ Call(c) \/ Merge(c) \/ CommitMerge(c) \/ CommitDelete(c)
    \/ Return(c) \/ Fail(c) \/ Retry(c)

Spec == Init /\ [][Next]_vars

-----------------------------------------------------------------------------
BlockEdge(m, n) == <<m, n>> \in block \/ <<n, m>> \in block

(* Paths of FRIEND relationships, each with one relationship more that it  *)
(* does not have yet and that is not between nodes with a block.           *)
Longer(paths) ==
  UNION {{[end |-> IF e[1] = p.end THEN e[2] ELSE e[1], used |-> p.used \cup {e}] :
           e \in {f \in friend \ p.used : p.end \in {f[1], f[2]} /\ ~BlockEdge(f[1], f[2])}} :
         p \in paths}

(* The paths from n by their length, and the far ends of those of at most  *)
(* d relationships.                                                        *)
Paths(n, d) ==
  LET paths[k \in 0 .. d] ==
        IF k = 0 THEN {[end |-> n, used |-> {}]} ELSE Longer(paths[k - 1])
  IN  paths
PathEnds(n, d) ==
  LET paths == Paths(n, d) IN UNION {{p.end : p \in paths[k]} : k \in 1 .. d}

(* Mutant: a block is looked for in the direction of the caller only.      *)
WithinDegreesOneWay(u, d) ==
  UNION {{n[1] : n \in {m \in PathEnds(s, d) : m[1] # u /\ <<s, m>> \notin block}} :
           s \in MatchUser(u)}

(* The answer without a LIMIT; with one, any part of it that is as large   *)
(* as the limit allows.                                                    *)
WithinDegrees(u, d) ==
  UNION {{n[1] : n \in {m \in PathEnds(s, d) : m[1] # u /\ ~BlockEdge(s, m)}} :
           s \in MatchUser(u)}

-----------------------------------------------------------------------------
TypeOK ==
  /\ uniqueIDs \in BOOLEAN
  /\ nodes \subseteq Node
  /\ friend \subseteq nodes \X nodes /\ block \subseteq nodes \X nodes
  /\ req \in [Callers -> Requests \cup {NoRequest}]
  /\ phase \in [Callers -> {"ok", "error", "begun", "merging", "committed"}]
  /\ \A c \in Callers : found[c].a \cup found[c].b \subseteq nodes
  /\ calls \in 0 .. MaxCalls

(* A MERGE that found everything has taken effect when it read.            *)
AllFound(c) ==
  found[c].a # {} /\ found[c].b # {} /\ found[c].edges = found[c].a \X found[c].b

Social == INSTANCE SocialGraph WITH
  friends <- {{e[1][1], e[2][1]} : e \in friend},
  blocks <- {<<e[1][1], e[2][1]>> : e \in block},
  phase <- [c \in Callers |->
    IF phase[c] \in {"ok", "error"} THEN phase[c]
    ELSE IF phase[c] = "committed" \/ (phase[c] = "merging" /\ req[c].op # "upsert" /\ AllFound(c))
    THEN "applied" ELSE "asked"]

(* Whatever copies concurrent MERGEs leave behind, links, unlinks, blocks  *)
(* and unblocks take effect at once and as asked: an unlink leaves no      *)
(* relationship of the pair, in whatever order the users were named.       *)
ImplementsContract == Social!Spec

(* With one node per user, WithinDegrees answers the users that are        *)
(* visible in the graph of friendships and blocks.                         *)
AnswersVisible ==
  uniqueIDs => \A u \in Users, d \in 0 .. MaxDegrees : WithinDegrees(u, d) = Social!Visible(u, d)

(* If u sees v, v sees u: with or without copies, whoever blocked whom.    *)
SymmetricAnswers ==
  \A u, v \in Users, d \in 1 .. MaxDegrees :
    v \in WithinDegrees(u, d) <=> u \in WithinDegrees(v, d)
=============================================================================
