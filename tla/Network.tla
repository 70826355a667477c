------------------------------ MODULE Network ------------------------------
(***************************************************************************)
(* The network of daemons and the goroutine that grows it                  *)
(* (network/network.go, and the spawner of network/randomizer.go).         *)
(* StartNodes goroutines call AddNode at once; then one goroutine connects *)
(* everybody to everybody and goes on adding a node at a time.  AddNode    *)
(* holds the network's lock only to reserve a repo, to copy the list of    *)
(* nodes and to append to it, so that nodes that join together do not see  *)
(* each other.  ShutdownAll holds the lock until every daemon is stopped.  *)
(*                                                                         *)
(* A node is the number of its repo.  The slice n.nodes is a set: nothing  *)
(* the properties tell apart depends on its order.  The daemons are        *)
(* external: every call to one may succeed or fail, Shutdown too.  The log *)
(* is here only as whether somebody reads it: LogPipeline is its model.    *)
(***************************************************************************)
EXTENDS Integers, FiniteSets

CONSTANTS
  StartNodes,  \* nodes added at the beginning
  MaxNodes,    \* no node is added to a network of this size
  MaxRepos     \* bound: repos that are ever reserved

ASSUME ArgsAssumption == /\ StartNodes \in Nat
                         /\ MaxNodes \in Nat
                         /\ MaxRepos \in Nat /\ MaxRepos >= StartNodes

VARIABLES
  repoNum,   \* the next free repo number
  nodes,     \* the registered nodes
  ntype,     \* [Repos -> type of the node]
  daemon,    \* [Repos -> state of the daemon process; "stuck" runs on after a
             \* Shutdown that failed]
  links,     \* pairs of nodes whose daemons are connected
  failed,    \* history: pairs for which a Connect failed
  apc,       \* [Adders -> where the call of AddNode is; "failed" added no node]
  atype,     \* [Adders -> the type it asks for]
  arepo,     \* [Adders -> its repo]
  todo,      \* [Adders -> the nodes it has still to connect to]
  spc,       \* where addAndRemoveNodes is
  left,      \* nodes its connection pass has not come to
  ctxDone,   \* the context is cancelled
  shut,      \* where ShutdownAll is; it holds the lock while "stopping"
  stops,     \* nodes ShutdownAll has still to stop
  reader     \* whether the pump and its clients read the log

graphVars == <<nodes, ntype, links, failed>>
adderVars == <<apc, atype, arepo, todo>>
spawnVars == <<spc, left>>
stopVars == <<ctxDone, shut, stops, reader>>
vars == <<repoNum, nodes, ntype, daemon, links, failed, apc, atype, arepo, todo,
          spc, left, ctxDone, shut, stops, reader>>

Repos == 0 .. MaxRepos - 1
NoRepo == -1
Spawner == StartNodes
Adders == 0 .. StartNodes
Types == {"Miner", "Client"}

LockFree == shut # "stopping"

Miners == {r \in nodes : ntype[r] = "Miner"}
Clients == {r \in nodes : ntype[r] = "Client"}

Init ==
  /\ repoNum = 0
  /\ nodes = {}
  /\ ntype = [r \in Repos |-> "Client"]
  /\ daemon = [r \in Repos |-> "none"]
  /\ links = {} /\ failed = {}
  /\ apc = [a \in Adders |-> IF a = Spawner THEN "idle" ELSE "reserve"]
  /\ atype = [a \in Adders |-> IF a % 2 = 0 THEN "Miner" ELSE "Client"]
  /\ arepo = [a \in Adders |-> NoRepo]
  /\ todo = [a \in Adders |-> {}]
  /\ spc = "boot" /\ left = {}
  /\ ctxDone = FALSE
  /\ shut = "no" /\ stops = {}
  /\ reader = "none"

Goto(a, place) == apc' = [apc EXCEPT ![a] = place]

Runs(r) == daemon[r] \in {"up", "stuck"}

\* Daemon.Shutdown, which may fail.
ShutDown(r) ==
  \E state \in {"down", "stuck"} : daemon' = [daemon EXCEPT ![r] = state]

-----------------------------------------------------------------------------
(* tryCreatingNode *)

\* Mutant of Reserve: the repo is numbered by the size of the network.
ReserveBySize(a) ==
  /\ apc[a] = "reserve"
  /\ LockFree
  /\ repoNum < MaxRepos
  /\ arepo' = [arepo EXCEPT ![a] = Cardinality(nodes)]
  /\ repoNum' = repoNum + 1
  /\ Goto(a, "start")
  /\ UNCHANGED <<graphVars, daemon, atype, todo, spawnVars, stopVars>>

Reserve(a) ==
  /\ apc[a] = "reserve"
  /\ LockFree
  /\ repoNum < MaxRepos
  /\ arepo' = [arepo EXCEPT ![a] = repoNum]
  /\ repoNum' = repoNum + 1
  /\ Goto(a, "start")
  /\ UNCHANGED <<graphVars, daemon, atype, todo, spawnVars, stopVars>>

\* NewDaemon or Start fails.  A process that Start has left is shut down, and
\* the error of that is ignored.
StartFails(a) ==
  /\ apc[a] = "start"
  /\ \E state \in {"none", "stuck"} : daemon' = [daemon EXCEPT ![arepo[a]] = state]
  /\ Goto(a, "failed")
  /\ UNCHANGED <<repoNum, graphVars, atype, arepo, todo, spawnVars, stopVars>>

Start(a) ==
  /\ apc[a] = "start"
  /\ daemon' = [daemon EXCEPT ![arepo[a]] = "up"]
  /\ Goto(a, "identify")
  /\ UNCHANGED <<repoNum, graphVars, atype, arepo, todo, spawnVars, stopVars>>

\* Mutant of Identify: a node of any type keeps that type.
IdentifyAsAsked(a) ==
  /\ apc[a] = "identify"
  /\ ntype' = [ntype EXCEPT ![arepo[a]] = atype[a]]
  /\ Goto(a, "snapshot")
  /\ UNCHANGED <<repoNum, nodes, daemon, links, failed, atype, arepo, todo, spawnVars, stopVars>>

\* GetID and NewNode, which settles the type of a node of any type.
Identify(a) ==
  /\ apc[a] = "identify"
  /\ \E t \in Types : /\ atype[a] \in {t, "Any"}
                      /\ ntype' = [ntype EXCEPT ![arepo[a]] = t]
  /\ Goto(a, "snapshot")
  /\ UNCHANGED <<repoNum, nodes, daemon, links, failed, atype, arepo, todo, spawnVars, stopVars>>

\* Mutant of IdentifyFails: d.Shutdown() is forgotten.
IdentifyFailsUp(a) ==
  /\ apc[a] = "identify"
  /\ Goto(a, "failed")
  /\ UNCHANGED <<repoNum, graphVars, daemon, atype, arepo, todo, spawnVars, stopVars>>

\* The error of d.Shutdown() is ignored.
IdentifyFails(a) ==
  /\ apc[a] = "identify"
  /\ ShutDown(arepo[a])
  /\ Goto(a, "failed")
  /\ UNCHANGED <<repoNum, graphVars, atype, arepo, todo, spawnVars, stopVars>>

-----------------------------------------------------------------------------
(* ConnectNodeToAll, by AddNode and by the spawner's pass *)

\* It copies the list of nodes under the lock ...
Snapshot(a) ==
  /\ apc[a] = "snapshot"
  /\ LockFree
  /\ todo' = [todo EXCEPT ![a] = nodes \ {arepo[a]}]
  /\ Goto(a, "connect")
  /\ UNCHANGED <<repoNum, graphVars, daemon, atype, arepo, spawnVars, stopVars>>

\* ... connects to them one after the other ...
Connect(a, r) ==
  /\ apc[a] = "connect"
  /\ r \in todo[a]
  /\ Runs(r) /\ Runs(arepo[a])
  /\ links' = links \cup {{arepo[a], r}}
  /\ todo' = [todo EXCEPT ![a] = @ \ {r}]
  /\ UNCHANGED <<repoNum, nodes, ntype, daemon, failed, apc, atype, arepo, spawnVars, stopVars>>

\* ... and returns at the first that fails.
ConnectFails(a, r) ==
  /\ apc[a] = "connect"
  /\ r \in todo[a]
  /\ failed' = failed \cup {{arepo[a], r}}
  /\ todo' = [todo EXCEPT ![a] = {}]
  /\ UNCHANGED <<repoNum, nodes, ntype, daemon, links, apc, atype, arepo, spawnVars, stopVars>>

-----------------------------------------------------------------------------
(* The rest of AddNode *)

\* n.nodes = append(n.nodes, node); an error of ConnectNodeToAll is ignored.
Register(a) ==
  /\ apc[a] = "connect"
  /\ todo[a] = {}
  /\ a # Spawner \/ spc = "adding"
  /\ LockFree
  /\ nodes' = nodes \cup {arepo[a]}
  /\ Goto(a, "announce")
  /\ UNCHANGED <<repoNum, ntype, daemon, links, failed, atype, arepo, todo, spawnVars, stopVars>>

\* MixReader and WriteEvent, which may have to wait for the log to be read.
Announce(a) ==
  /\ apc[a] = "announce"
  /\ Goto(a, "mine")
  /\ UNCHANGED <<repoNum, graphVars, daemon, atype, arepo, todo, spawnVars, stopVars>>

\* MiningOnce and the end of AddNode.  If MiningOnce fails AddNode returns an
\* error, but the node stays registered: for the network the two are the same.
Mine(a) ==
  /\ apc[a] = "mine"
  /\ Goto(a, "done")
  /\ UNCHANGED <<repoNum, graphVars, daemon, atype, arepo, todo, spawnVars, stopVars>>

-----------------------------------------------------------------------------
(* addAndRemoveNodes *)

\* Mutant of BeginPass: addInitialNodes ends without a pass over the nodes.
BeginNoPass ==
  /\ spc = "boot"
  /\ \A a \in Adders \ {Spawner} : apc[a] \in {"done", "failed"}
  /\ LockFree
  /\ left' = {}
  /\ spc' = "pass"
  /\ UNCHANGED <<repoNum, graphVars, daemon, adderVars, stopVars>>

\* Mutant of BeginPass: only an AddNode that adds a node calls wg.Done.
BeginPassIfDone ==
  /\ spc = "boot"
  /\ \A a \in Adders \ {Spawner} : apc[a] = "done"
  /\ LockFree
  /\ left' = nodes
  /\ spc' = "pass"
  /\ UNCHANGED <<repoNum, graphVars, daemon, adderVars, stopVars>>

\* wg.Wait in addInitialNodes returns, and its pass over the nodes begins.
BeginPass ==
  /\ spc = "boot"
  /\ \A a \in Adders \ {Spawner} : apc[a] \in {"done", "failed"}
  /\ LockFree
  /\ left' = nodes
  /\ spc' = "pass"
  /\ UNCHANGED <<repoNum, graphVars, daemon, adderVars, stopVars>>

\* ConnectNodeToAll of the next node, which the spawner does itself.
PassNode(r) ==
  /\ spc = "pass"
  /\ apc[Spawner] = "idle"
  /\ r \in left
  /\ left' = left \ {r}
  /\ arepo' = [arepo EXCEPT ![Spawner] = r]
  /\ Goto(Spawner, "snapshot")
  /\ UNCHANGED <<repoNum, graphVars, daemon, atype, todo, spc, stopVars>>

PassNodeDone ==
  /\ spc = "pass"
  /\ apc[Spawner] = "connect"
  /\ todo[Spawner] = {}
  /\ Goto(Spawner, "idle")
  /\ UNCHANGED <<repoNum, graphVars, daemon, atype, arepo, todo, spawnVars, stopVars>>

EndPass ==
  /\ spc = "pass"
  /\ apc[Spawner] = "idle"
  /\ left = {}
  /\ spc' = "sleep"
  /\ UNCHANGED <<repoNum, graphVars, daemon, adderVars, left, stopVars>>

\* Mutant of Wake: the context is not consulted.
WakeAlways ==
  /\ spc = "sleep"
  /\ spc' = "size"
  /\ UNCHANGED <<repoNum, graphVars, daemon, adderVars, left, stopVars>>

\* periodic: after the sleep, a done context ends the loop.
Wake ==
  /\ spc = "sleep"
  /\ spc' = IF ctxDone THEN "done" ELSE "size"
  /\ UNCHANGED <<repoNum, graphVars, daemon, adderVars, left, stopVars>>

\* if r.Net.Size() >= r.Args.MaxNodes { return }; the bound on the repos makes
\* the spawner go back to sleep as well.
CheckSize ==
  /\ spc = "size"
  /\ LockFree
  /\ spc' = IF Cardinality(nodes) >= MaxNodes \/ repoNum = MaxRepos
              THEN "sleep" ELSE "type"
  /\ UNCHANGED <<repoNum, graphVars, daemon, adderVars, left, stopVars>>

\* Mutant of NextRandomType: the 1.5 is on the wrong side.
NextRandomTypeSwapped ==
  IF 3 * Cardinality(Clients) < 2 * Cardinality(Miners) THEN "Client" ELSE "Any"

\* A client while there are less than 1.5 for every miner.
NextRandomType ==
  IF 2 * Cardinality(Clients) < 3 * Cardinality(Miners) THEN "Client" ELSE "Any"

BeginAdd ==
  /\ spc = "type"
  /\ LockFree
  /\ atype' = [atype EXCEPT ![Spawner] = NextRandomType]
  /\ Goto(Spawner, "reserve")
  /\ spc' = "adding"
  /\ UNCHANGED <<repoNum, graphVars, daemon, arepo, todo, left, stopVars>>

EndAdd ==
  /\ spc = "adding"
  /\ apc[Spawner] \in {"done", "failed"}
  /\ spc' = "sleep"
  /\ UNCHANGED <<repoNum, graphVars, daemon, adderVars, left, stopVars>>

-----------------------------------------------------------------------------
(* Instance.Run and its deferred ShutdownAll *)

Cancel ==
  /\ ~ctxDone
  /\ ctxDone' = TRUE
  /\ UNCHANGED <<repoNum, graphVars, daemon, adderVars, spawnVars, shut, stops, reader>>

BeginShutdown ==
  /\ ctxDone
  /\ shut = "no"
  /\ shut' = "stopping"
  /\ stops' = nodes
  /\ UNCHANGED <<repoNum, graphVars, daemon, adderVars, spawnVars, ctxDone, reader>>

\* One of AsyncErrs' goroutines.
Stop(r) ==
  /\ r \in stops
  /\ stops' = stops \ {r}
  /\ ShutDown(r)
  /\ UNCHANGED <<repoNum, graphVars, adderVars, spawnVars, ctxDone, shut, reader>>

EndShutdown ==
  /\ shut = "stopping"
  /\ stops = {}
  /\ shut' = "done"
  /\ UNCHANGED <<repoNum, graphVars, daemon, adderVars, spawnVars, ctxDone, stops, reader>>

Read(from, to) ==
  /\ reader = from
  /\ reader' = to
  /\ UNCHANGED <<repoNum, graphVars, daemon, adderVars, spawnVars, ctxDone, shut, stops>>

\* PipeLogsToWriters: a first client attaches, and the pump begins to read; a
\* client holds it up, and reads on or goes away; it returns when the context,
\* which it shares with the network, is done.
View == Read("none", "reading")
Stall == Read("reading", "stalled")
Resume == Read("stalled", "reading")
PumpEnds == ctxDone /\ Read("reading", "ended")

-----------------------------------------------------------------------------
ConnectAny(a) == \E r \in todo[a] : Connect(a, r) \/ ConnectFails(a, r)

\* What AddNode does before and after it waits for the log.
AddNode(a) ==
  \/ Reserve(a) \/ Start(a) \/ StartFails(a) \/ Identify(a) \/ IdentifyFails(a)
  \/ Snapshot(a) \/ ConnectAny(a) \/ Register(a) \/ Mine(a)

AddAndRemoveNodes ==
  \/ BeginPass \/ PassNodeDone \/ EndPass \/ Wake \/ CheckSize \/ BeginAdd \/ EndAdd
  \/ \E r \in left : PassNode(r)

ShutdownAll == BeginShutdown \/ EndShutdown \/ \E r \in stops : Stop(r)

Next ==
  \/ \E a \in Adders : AddNode(a) \/ Announce(a)
  \/ AddAndRemoveNodes
  \/ ShutdownAll
  \/ Cancel
  \/ View \/ Stall \/ Resume \/ PumpEnds

Spec == Init /\ [][Next]_vars

(* Goroutines run, the calls to the daemons return, and a line that waits is *)
(* taken if the log is read again and again.  A client that holds up the pump *)
(* does not do so for ever.  Nobody has to attach to the log, or to cancel,   *)
(* and once the pump has returned nobody has to take a line any more.         *)
Fairness ==
  /\ \A a \in Adders : /\ WF_vars(AddNode(a))
                       /\ SF_vars(reader = "reading" /\ Announce(a))
  /\ WF_vars(AddAndRemoveNodes)
  /\ WF_vars(ShutdownAll)
  /\ WF_vars(Resume)

FairSpec == Spec /\ Fairness

-----------------------------------------------------------------------------
(* Properties *)

AddPlaces == {"idle", "reserve", "start", "identify", "snapshot", "connect",
              "announce", "mine", "done", "failed"}

\* Every variable has its type.
TypeOK ==
  /\ repoNum \in 0 .. MaxRepos
  /\ nodes \subseteq Repos
  /\ ntype \in [Repos -> Types]
  /\ daemon \in [Repos -> {"none", "up", "down", "stuck"}]
  /\ links \subseteq SUBSET Repos /\ failed \subseteq SUBSET Repos
  /\ apc \in [Adders -> AddPlaces]
  /\ atype \in [Adders -> Types \cup {"Any"}]
  /\ arepo \in [Adders -> Repos \cup {NoRepo}]
  /\ todo \in [Adders -> SUBSET Repos]
  /\ spc \in {"boot", "pass", "sleep", "size", "type", "adding", "done"}
  /\ left \subseteq Repos
  /\ ctxDone \in BOOLEAN
  /\ shut \in {"no", "stopping", "done"}
  /\ stops \subseteq Repos
  /\ reader \in {"none", "reading", "stalled", "ended"}

\* The calls of AddNode that have a repo and have not registered it yet; the
\* spawner's connection pass is none.
InFlight ==
  {a \in Adders : /\ apc[a] \in {"start", "identify", "snapshot", "connect"}
                  /\ a = Spawner => spc = "adding"}

\* Nodes that join at the same time never get the same repo, nor one that is
\* in use: daemons would share their state.
UniqueRepos ==
  \A a \in InFlight : /\ arepo[a] \notin nodes
                      /\ \A b \in InFlight \ {a} : arepo[a] # arepo[b]

\* A daemon that nobody has tried in vain to shut down is known: no failing
\* path of tryCreatingNode forgets one, and ShutdownAll, which works on the list
\* it found, passes over none that is registered.
NoStrayDaemon ==
  \A r \in Repos :
    daemon[r] = "up" =>
      \/ r \in nodes /\ (shut = "stopping" => r \in stops)
      \/ \E a \in InFlight : arepo[a] = r

\* nextRandomType keeps 1.5 clients for every miner but the newest, except
\* for the miners of the start.
MinerShare ==
  \/ Cardinality(Miners) <= (StartNodes + 1) \div 2
  \/ 3 * (Cardinality(Miners) - 1) <= 2 * Cardinality(Clients)

\* A Connect of the node, or to it, has failed.
FailedAt(r) == \E s \in Repos : {r, s} \in failed

\* r is connected to s, or it has had a failure.
Tried(r, s) == r # s => {r, s} \in links \/ FailedAt(r)

\* Nodes that join at the same time miss each other and later ones join one by
\* one, but once the pass of addInitialNodes is over, of two nodes that are not
\* connected one has had a failure.  ConnectNodeToAll gives up at a failure, and
\* leaves pairs of its node untried, but none of other nodes.
MissedOnlyByFailure ==
  spc \notin {"boot", "pass"} =>
    \A r, s \in nodes : Tried(r, s) \/ Tried(s, r)

\* Once the log is read, and unless the pump returns, the start of the network
\* comes to an end: no goroutine of it waits for another that waits for it.
BootEnds ==
  reader # "none" ~> (spc \notin {"boot", "pass"} \/ reader = "ended")

\* An AddNode waits for somebody to read its announcement, and nobody does.
AnnouncedToNobody ==
  /\ reader \in {"none", "ended"}
  /\ \E a \in Adders : apc[a] = "announce"

\* Once the context is done, ShutdownAll ends although it holds the lock that
\* the spawner needs, and the spawner ends too, unless an announcement is left
\* to a log that nobody reads: the pump, which ends with the same context.
SpawnerStops ==
  ctxDone ~> /\ shut = "done"
             /\ spc = "done" \/ []AnnouncedToNobody

-----------------------------------------------------------------------------
(* The inductive invariant behind the safety properties. *)

Starters == Adders \ {Spawner}

Before == {"reserve", "start", "identify", "snapshot", "connect"}

\* Where the spawner's two program counters are together, and that the start
\* is over when the pass begins.
SpawnerPlaces ==
  /\ spc = "boot" => apc[Spawner] = "idle"
  /\ spc = "pass" => /\ apc[Spawner] \in {"idle", "snapshot", "connect"}
                     /\ left \subseteq nodes
                     /\ apc[Spawner] # "idle" => arepo[Spawner] \in nodes
  /\ spc = "adding" => apc[Spawner] # "idle"
  /\ spc \in {"sleep", "size", "type", "done"} =>
       apc[Spawner] \in {"idle", "done", "failed"}
  /\ spc # "boot" => \A a \in Starters : apc[a] \in {"done", "failed"}

\* Repos from repoNum on are untouched.
ReposFresh ==
  /\ nodes \cup stops \subseteq 0 .. repoNum - 1
  /\ \A a \in InFlight : arepo[a] \in 0 .. repoNum - 1
  /\ \A r \in repoNum .. MaxRepos - 1 : daemon[r] = "none"
  /\ \A a \in InFlight : apc[a] = "start" => daemon[arepo[a]] # "up"

\* A node in flight has the type that its AddNode asked for.
TypeAsAsked ==
  \A a \in InFlight : apc[a] \in {"snapshot", "connect"} =>
    atype[a] \in {ntype[arepo[a]], "Any"}

\* The nodes of the start belong to different starters, the miners to those
\* with an even number.
Started ==
  /\ \A a \in Starters : /\ atype[a] = IF a % 2 = 0 THEN "Miner" ELSE "Client"
                         /\ apc[a] = "reserve" => arepo[a] = NoRepo
  /\ spc = "boot" =>
       \A r \in nodes : \E a \in Starters : /\ arepo[a] = r
                                            /\ ntype[r] = "Miner" => a % 2 = 0

\* Nothing but the spawner changes what the spawner has looked at.
Decided ==
  /\ spc = "type" => Cardinality(nodes) < MaxNodes
  /\ spc = "adding" /\ apc[Spawner] \in Before =>
       /\ Cardinality(nodes) < MaxNodes
       /\ \/ atype[Spawner] = "Client"
          \/ /\ atype[Spawner] = "Any"
             /\ 3 * Cardinality(Miners) <= 2 * Cardinality(Clients)

\* The spawner's node has tried all it has passed, and the pass leaves behind
\* nodes that have tried all.
PassInv ==
  /\ apc[Spawner] = "connect" =>
       \A s \in nodes \ todo[Spawner] : Tried(arepo[Spawner], s)
  /\ spc = "pass" =>
       \A r \in nodes \ (left \cup IF apc[Spawner] = "idle" THEN {} ELSE {arepo[Spawner]}),
          s \in nodes : Tried(r, s)

\* Together they are inductive.
IInv ==
  /\ TypeOK /\ SpawnerPlaces
  /\ ReposFresh /\ UniqueRepos /\ NoStrayDaemon
  /\ TypeAsAsked /\ Started /\ Decided
  /\ MinerShare
  /\ PassInv /\ MissedOnlyByFailure

-----------------------------------------------------------------------------
(* What the comments say *)

\* randomizer.go:128, "ensure all nodes are connected": the pass tries every
\* pair of nodes that is not connected.
PassTriesAll ==
  spc \notin {"boot", "pass"} =>
    \A r, s \in nodes : r # s => {r, s} \in links \cup failed
=============================================================================
