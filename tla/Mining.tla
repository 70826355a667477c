------------------------------- MODULE Mining -------------------------------
(***************************************************************************)
(* The mining loop of the randomizer (network/randomizer.go, mineBlocks):  *)
(* in every epoch it draws up to ForkBranching different miners, rolls for *)
(* each, and lets the winners mine, each in a goroutine of its own.  The   *)
(* goroutines do not get their miner as an argument: they read the loop    *)
(* variable n when they run, and the loop goes on meanwhile.               *)
(***************************************************************************)
EXTENDS Naturals, Sequences, FiniteSets

CONSTANTS
  Miners,         \* the nodes of type Miner that join
  Nil,            \* n before the first iteration
  ForkBranching,  \* how many miners an epoch draws at most
  MaxEpochs       \* bound: epochs

ASSUME MiningAssumption == /\ Nil \notin Miners
                           /\ ForkBranching \in Nat /\ MaxEpochs \in Nat

VARIABLES
  joined,   \* the miners in the network
  epoch,    \* epochs begun
  pc,       \* where mineBlocks is
  nds,      \* the miners drawn in this epoch, in the order of the range loop
  i,        \* the iterations of the loop that are over
  n,        \* the loop variable
  gpc,      \* [1 .. ForkBranching -> where the goroutine of an iteration is]
  node,     \* [1 .. ForkBranching -> the miner that it found in n]
  ctxDone   \* the context is cancelled

vars == <<joined, epoch, pc, nds, i, n, gpc, node, ctxDone>>

Iterations == 1 .. ForkBranching

Init ==
  /\ joined = {}
  /\ epoch = 0
  /\ pc = "sleep"
  /\ nds = <<>> /\ i = 0 /\ n = Nil
  /\ gpc = [k \in Iterations |-> "none"]
  /\ node = [k \in Iterations |-> Nil]
  /\ ctxDone = FALSE

\* AddNode registers another miner.
Join(m) ==
  /\ m \notin joined
  /\ joined' = joined \cup {m}
  /\ UNCHANGED <<epoch, pc, nds, i, n, gpc, node, ctxDone>>

Cancel ==
  /\ ~ctxDone
  /\ ctxDone' = TRUE
  /\ UNCHANGED <<joined, epoch, pc, nds, i, n, gpc, node>>

\* Mutant of Wake: the context is not consulted.
WakeAlways ==
  /\ pc = "sleep"
  /\ epoch < MaxEpochs
  /\ pc' = "draw"
  /\ UNCHANGED <<joined, epoch, nds, i, n, gpc, node, ctxDone>>

\* periodic's sleep is over.
Wake ==
  /\ pc = "sleep"
  /\ ctxDone \/ epoch < MaxEpochs
  /\ pc' = IF ctxDone THEN "done" ELSE "draw"
  /\ UNCHANGED <<joined, epoch, nds, i, n, gpc, node, ctxDone>>

Drawn(s) == {s[k] : k \in 1 .. Len(s)}

\* GetRandomNodes(MinerNodeType, ForkBranching): all of them if there are less.
GetRandomNodes(s) ==
  /\ Drawn(s) \subseteq joined
  /\ Cardinality(Drawn(s)) = Len(s)
  /\ Len(s) = ForkBranching \/ Drawn(s) = joined

Draw ==
  /\ pc = "draw"
  /\ \E len \in 0 .. ForkBranching : \E s \in [1 .. len -> joined] :
       GetRandomNodes(s) /\ nds' = s
  /\ epoch' = epoch + 1
  /\ pc' = "range"
  /\ i' = 0 /\ n' = Nil
  /\ gpc' = [k \in Iterations |-> "none"]
  /\ node' = [k \in Iterations |-> Nil]
  /\ UNCHANGED <<joined, ctxDone>>

\* Mutant of Iterate: the goroutine is started before n is assigned.
IterateAssignsLate(mine) ==
  /\ pc = "range"
  /\ i < Len(nds)
  /\ n' = IF i = 0 THEN nds[1] ELSE nds[i]
  /\ i' = i + 1
  /\ gpc' = IF mine THEN [gpc EXCEPT ![i + 1] = "run"] ELSE gpc
  /\ UNCHANGED <<joined, epoch, pc, nds, node, ctxDone>>

\* One iteration: n is assigned, and if the roll says so a goroutine starts.
Iterate(mine) ==
  /\ pc = "range"
  /\ i < Len(nds)
  /\ n' = nds[i + 1]
  /\ i' = i + 1
  /\ gpc' = IF mine THEN [gpc EXCEPT ![i + 1] = "run"] ELSE gpc
  /\ UNCHANGED <<joined, epoch, pc, nds, node, ctxDone>>

\* Mutant of EndRange: the loop counts one iteration too many.
EndRangeLate ==
  /\ pc = "range"
  /\ i = Len(nds)
  /\ i' = i + 1
  /\ pc' = "wait"
  /\ UNCHANGED <<joined, epoch, nds, n, gpc, node, ctxDone>>

EndRange ==
  /\ pc = "range"
  /\ i = Len(nds)
  /\ pc' = "wait"
  /\ UNCHANGED <<joined, epoch, nds, i, n, gpc, node, ctxDone>>

\* The goroutine evaluates n.Daemon and calls MiningOnce on it ...
MiningOnce(k) ==
  /\ gpc[k] = "run"
  /\ node' = [node EXCEPT ![k] = n]
  /\ gpc' = [gpc EXCEPT ![k] = "mining"]
  /\ UNCHANGED <<joined, epoch, pc, nds, i, n, ctxDone>>

\* ... which returns, with or without an error: wg.Done
MiningReturns(k) ==
  /\ gpc[k] = "mining"
  /\ gpc' = [gpc EXCEPT ![k] = "done"]
  /\ UNCHANGED <<joined, epoch, pc, nds, i, n, node, ctxDone>>

\* Mutant of WaitAll: it does not wait.
WaitForNobody ==
  /\ pc = "wait"
  /\ pc' = "sleep"
  /\ UNCHANGED <<joined, epoch, nds, i, n, gpc, node, ctxDone>>

\* wg.Wait
WaitAll ==
  /\ pc = "wait"
  /\ \A k \in Iterations : gpc[k] \in {"none", "done"}
  /\ pc' = "sleep"
  /\ UNCHANGED <<joined, epoch, nds, i, n, gpc, node, ctxDone>>

Loop == Wake \/ Draw \/ EndRange \/ WaitAll \/ \E mine \in BOOLEAN : Iterate(mine)

Goroutine(k) == MiningOnce(k) \/ MiningReturns(k)

Next ==
  \/ \E m \in Miners : Join(m)
  \/ Cancel
  \/ Loop
  \/ \E k \in Iterations : Goroutine(k)

Spec == Init /\ [][Next]_vars

\* Goroutines run and MiningOnce returns; nobody has to join or to cancel.
Fairness ==
  /\ WF_vars(Loop)
  /\ \A k \in Iterations : WF_vars(Goroutine(k))

FairSpec == Spec /\ Fairness

-----------------------------------------------------------------------------
(* Properties *)

\* Every variable has its type.
TypeOK ==
  /\ joined \subseteq Miners
  /\ epoch \in 0 .. MaxEpochs
  /\ pc \in {"sleep", "draw", "range", "wait", "done"}
  /\ nds \in Seq(Miners)
  /\ i \in 0 .. Len(nds)
  /\ n \in Miners \cup {Nil}
  /\ gpc \in [Iterations -> {"none", "run", "mining", "done"}]
  /\ node \in [Iterations -> Miners \cup {Nil}]
  /\ ctxDone \in BOOLEAN

\* No goroutine is left over when the next epoch draws its miners: an epoch's
\* blocks are mined before the next begins, and no goroutine is counted in the
\* wait group of another epoch.
EpochsApart ==
  pc \in {"sleep", "draw"} => \A k \in Iterations : gpc[k] \in {"none", "done"}

\* The goroutine of a winner mines with its own miner or with one drawn after
\* it, never with one drawn before it or in another epoch: so the last miner of
\* the draw mines whenever it wins.
NoEarlierMiner ==
  \A k \in Iterations :
    node[k] # Nil => \E l \in k .. Len(nds) : node[k] = nds[l]

\* A done context ends the loop, whatever is being mined.
MiningStops == ctxDone ~> (pc = "done")

\* randomizer.go:176-178, "once per ForkBranching ... sample without
\* replacement", and main.go:68, "sample leaders, each mine a block": a miner
\* mines at most one block in an epoch.
LeadersMineOnce ==
  \A k, l \in Iterations : k # l /\ node[k] # Nil => node[k] # node[l]
=============================================================================
