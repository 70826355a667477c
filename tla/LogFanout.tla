------------------------------ MODULE LogFanout ------------------------------
(***************************************************************************)
(* What the /logs endpoint promises its viewers, without the machinery: a  *)
(* stream of chunks 1, 2, 3, ... is published, and every viewer is fed a   *)
(* window of it.  A viewer's first chunk is the oldest of the Depth chunks *)
(* kept from before the current one, every later chunk is the successor of *)
(* the one before it, and no viewer that has begun to receive is ever more *)
(* than one chunk behind, unless its connection is gone.                   *)
(***************************************************************************)
EXTENDS Integers, Sequences

CONSTANTS
  Viewers,   \* the clients of the endpoint
  Depth      \* how many old chunks a new viewer is caught up with, at least one

VARIABLES
  published, \* number of chunks published so far
  feed,      \* [Viewers -> sequence of chunks received]
  gone       \* the viewers whose connection is lost

vars == <<published, feed, gone>>

Newest(s) == s[Len(s)]

Oldest == IF published > Depth THEN published - Depth ELSE 1

UpToDate(v) == feed[v] = <<>> \/ Newest(feed[v]) = published

Init ==
  /\ published = 0
  /\ feed = [v \in Viewers |-> <<>>]
  /\ gone = {}

\* The next chunk is published once nobody lags behind.
Publish ==
  /\ \A v \in Viewers \ gone : UpToDate(v)
  /\ published' = published + 1
  /\ UNCHANGED <<feed, gone>>

\* A viewer receives its first chunk, or the one after its newest.
Feed(v) ==
  /\ v \notin gone
  /\ published > 0
  /\ \/ /\ feed[v] = <<>>
        /\ feed' = [feed EXCEPT ![v] = <<Oldest>>]
     \/ /\ ~UpToDate(v)
        /\ feed' = [feed EXCEPT ![v] = Append(@, Newest(@) + 1)]
  /\ UNCHANGED <<published, gone>>

Lose(v) ==
  /\ gone' = gone \cup {v}
  /\ UNCHANGED <<published, feed>>

Next ==
  \/ Publish
  \/ \E v \in Viewers : Feed(v) \/ Lose(v)

Spec == Init /\ [][Next]_vars
=============================================================================
