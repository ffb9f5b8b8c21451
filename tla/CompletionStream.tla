-------------------------- MODULE CompletionStream --------------------------
(***************************************************************************)
(* What CompletionStream (connectors/inference/base.go) promises whoever   *)
(* iterates over it, for any provider: events arrive in the provider's     *)
(* order and none is skipped, Next returns false without an error only     *)
(* after the last event, and with an error only if the provider failed.    *)
(***************************************************************************)
EXTENDS Integers, Sequences

CONSTANTS Event, Done, MaxParts

VARIABLES
  source,      \* events the provider produced so far
  verdict,     \* how the provider's response ended: "open", "end" or "error"
  delivered,   \* events Next returned true for
  outcome      \* "open", "end" or "error" once Next returned false, "closed"

vars == <<source, verdict, delivered, outcome>>

Init ==
  /\ source = <<>> /\ verdict = "open"
  /\ delivered = <<>> /\ outcome = "open"

Complete == source # <<>> /\ source[Len(source)] = Done

(* The provider produces events, ...                                       *)
Produce ==
  /\ verdict = "open" /\ ~Complete
  /\ \E n \in 0 .. MaxParts : \E es \in [1 .. n -> Event] : source' = source \o es
  /\ UNCHANGED <<verdict, delivered, outcome>>

(* ... the final one, ...                                                  *)
Last ==
  /\ verdict = "open" /\ ~Complete
  /\ source' = Append(source, Done)
  /\ verdict' \in {"open", "end"}
  /\ UNCHANGED <<delivered, outcome>>

(* ... and ends its response, with an error or without.                    *)
Finish ==
  /\ verdict = "open" /\ verdict' \in {"end", "error"}
  /\ UNCHANGED <<source, delivered, outcome>>

Deliver ==
  /\ outcome = "open" /\ Len(delivered) < Len(source)
  /\ delivered' = Append(delivered, source[Len(delivered) + 1])
  /\ UNCHANGED <<source, verdict, outcome>>

ReportEnd ==
  /\ outcome = "open" /\ verdict = "end" /\ delivered = source
  /\ outcome' = "end"
  /\ UNCHANGED <<source, verdict, delivered>>

ReportError ==
  /\ outcome = "open" /\ verdict = "error"
  /\ outcome' = "error"
  /\ UNCHANGED <<source, verdict, delivered>>

Close ==
  /\ outcome # "closed" /\ outcome' = "closed"
  /\ UNCHANGED <<source, verdict, delivered>>

Next == Produce \/ Last \/ Finish \/ Deliver \/ ReportEnd \/ ReportError \/ Close

Spec == Init /\ [][Next]_vars
=============================================================================
