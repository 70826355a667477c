------------------------------- MODULE LineMix -------------------------------
(***************************************************************************)
(* What the merged log promises.  Every node has several sources of lines. *)
(* A line is accepted when the write of its source returns, and shown when *)
(* a reader of the merged log has all of it.  Lines are shown whole, once  *)
(* and in the order of their source, and a node has at most one accepted   *)
(* line that is not shown: its sources wait for the log.                   *)
(***************************************************************************)
EXTENDS Naturals

CONSTANTS
  Nodes,   \* the nodes whose logs are merged
  Sources  \* the sources of lines every node has

VARIABLES
  accepted,  \* [Nodes -> [Sources -> number of lines taken from the source]]
  shown      \* [Nodes -> [Sources -> number of its lines a reader has]]

vars == <<accepted, shown>>

Init ==
  /\ accepted = [n \in Nodes |-> [src \in Sources |-> 0]]
  /\ shown = [n \in Nodes |-> [src \in Sources |-> 0]]

Accept(n, src) ==
  /\ \A other \in Sources : accepted[n][other] = shown[n][other]
  /\ accepted' = [accepted EXCEPT ![n][src] = @ + 1]
  /\ UNCHANGED shown

Show(n, src) ==
  /\ shown[n][src] < accepted[n][src]
  /\ shown' = [shown EXCEPT ![n][src] = @ + 1]
  /\ UNCHANGED accepted

Next == \E n \in Nodes, src \in Sources : Accept(n, src) \/ Show(n, src)

Spec == Init /\ [][Next]_vars
=============================================================================
