----------------------------- MODULE NetworkProofs -----------------------------
(* The proofs about Network: its safety properties, for every number of nodes *)
(* at the start, every maximum and every number of repos.                     *)
EXTENDS Network, FiniteSetTheorems, TLAPS

(* The image of a finite set is no larger than the set. *)
LEMMA ImageBound ==
  ASSUME NEW S, IsFiniteSet(S), NEW f
  PROVE  LET T == {f[x] : x \in S}
         IN  IsFiniteSet(T) /\ Cardinality(T) <= Cardinality(S)
<1> DEFINE T == {f[x] : x \in S}
           g == [x \in S |-> f[x]]
<1>1. g \in Surjection(S, T)
  BY DEF Surjection
<1>2. QED
  BY <1>1, FS_Surjection

(* A subset of the repos of some starters is no larger than their number. *)
LEMMA SubImageBound ==
  ASSUME NEW S, IsFiniteSet(S), NEW f, NEW U, U \subseteq {f[x] : x \in S}
  PROVE  IsFiniteSet(U) /\ Cardinality(U) <= Cardinality(S)
<1> DEFINE T == {f[x] : x \in S}
<1>1. IsFiniteSet(T) /\ Cardinality(T) <= Cardinality(S)
  BY ImageBound
<1>2. IsFiniteSet(U) /\ Cardinality(U) <= Cardinality(T)
  BY <1>1, FS_Subset
<1>3. Cardinality(U) \in Nat /\ Cardinality(T) \in Nat /\ Cardinality(S) \in Nat
  BY <1>1, <1>2, FS_CardinalityType
<1>4. QED
  BY <1>1, <1>2, <1>3

(* Every other starter has an even number. *)
LEMMA EvenStarters ==
  LET E == {b \in Starters : b % 2 = 0}
  IN  IsFiniteSet(E) /\ Cardinality(E) <= (StartNodes + 1) \div 2
<1> DEFINE E == {b \in Starters : b % 2 = 0}
           H == 0 .. ((StartNodes + 1) \div 2 - 1)
           f == [h \in H |-> 2 * h]
<1> USE ArgsAssumption DEF Starters, Adders, Spawner
<1>1. E \subseteq {f[h] : h \in H}
  <2>1. SUFFICES ASSUME NEW b \in E PROVE \E h \in H : f[h] = b
    OBVIOUS
  <2>2. b \div 2 \in H /\ 2 * (b \div 2) = b
    OBVIOUS
  <2>3. QED
    BY <2>2
<1>2. IsFiniteSet(H) /\ Cardinality(H) = (StartNodes + 1) \div 2
  BY FS_Interval
<1>3. QED
  BY <1>1, <1>2, SubImageBound

(* The sets whose sizes the invariant bounds are finite. *)
LEMMA Sizes ==
  ASSUME TypeOK
  PROVE  /\ IsFiniteSet(nodes) /\ Cardinality(nodes) \in Nat
         /\ IsFiniteSet(Miners) /\ Cardinality(Miners) \in Nat
         /\ IsFiniteSet(Clients) /\ Cardinality(Clients) \in Nat
<1>1. IsFiniteSet(Repos)
  BY FS_Interval, ArgsAssumption DEF Repos
<1>2. /\ nodes \subseteq Repos /\ Miners \subseteq Repos /\ Clients \subseteq Repos
  BY DEF TypeOK, Miners, Clients
<1>3. IsFiniteSet(nodes) /\ IsFiniteSet(Miners) /\ IsFiniteSet(Clients)
  BY <1>1, <1>2, FS_Subset
<1>4. QED
  BY <1>3, FS_CardinalityType

(* Nodes that belong to different starters with even numbers. *)
LEMMA EvenBound ==
  ASSUME NEW M, NEW f, \A r \in M : \E a \in Starters : f[a] = r /\ a % 2 = 0
  PROVE  Cardinality(M) <= (StartNodes + 1) \div 2
<1> DEFINE E == {b \in Starters : b % 2 = 0}
<1>1. IsFiniteSet(E) /\ Cardinality(E) <= (StartNodes + 1) \div 2
  BY EvenStarters
<1>2. M \subseteq {f[a] : a \in E}
  OBVIOUS
<1>3. IsFiniteSet(M) /\ Cardinality(M) <= Cardinality(E)
  BY <1>1, <1>2, SubImageBound
<1>4. Cardinality(M) \in Nat /\ Cardinality(E) \in Nat
  BY <1>1, <1>3, FS_CardinalityType
<1>5. QED
  BY <1>1, <1>3, <1>4, ArgsAssumption

(* The spawner is one of the goroutines that call AddNode. *)
LEMMA SpawnerAdder == Spawner \in Adders
  BY ArgsAssumption DEF Spawner, Adders

(* The spawner asks for a client or for any type. *)
LEMMA NextType == NextRandomType \in Types \cup {"Any"}
  BY DEF NextRandomType, Types
-----------------------------------------------------------------------------
(* Where a goroutine can be, under the invariant. *)

(* A call of AddNode that is not over belongs to a starter during the start   *)
(* or to the spawner while it adds a node, or connects a node of the pass.    *)
LEMMA WhoAdds ==
  ASSUME IInv, NEW a \in Adders, apc[a] \notin {"idle", "done", "failed"}
  PROVE  \/ a \in Starters /\ spc = "boot"
         \/ a = Spawner /\ spc = "adding"
         \/ /\ a = Spawner /\ spc = "pass"
            /\ apc[a] \in {"snapshot", "connect"} /\ arepo[a] \in nodes
<1>1. spc \in {"boot", "pass", "sleep", "size", "type", "adding", "done"}
  BY DEF IInv, TypeOK
<1>2. SpawnerPlaces
  BY DEF IInv
<1>3. CASE a = Spawner
  <2>1. CASE spc = "pass"
    BY <1>2, <1>3, <2>1 DEF SpawnerPlaces
  <2>2. CASE spc \in {"boot", "sleep", "size", "type", "done"}
    BY <1>2, <1>3, <2>2 DEF SpawnerPlaces
  <2>3. CASE spc = "adding"
    BY <1>3, <2>3
  <2>4. QED BY <1>1, <2>1, <2>2, <2>3
<1>4. CASE a # Spawner
  BY <1>1, <1>2, <1>4 DEF SpawnerPlaces, Starters
<1>5. QED
  BY <1>3, <1>4

(* A node that is being created has a fresh repo of its own. *)
LEMMA Creating ==
  ASSUME IInv, NEW a \in Adders, apc[a] \in {"start", "identify"}
  PROVE  /\ a \in InFlight
         /\ arepo[a] \in 0 .. repoNum - 1 /\ arepo[a] \in Repos \ nodes
         /\ \A b \in InFlight \ {a} : arepo[b] # arepo[a]
<1>1. a \in InFlight
  BY WhoAdds DEF InFlight, Starters
<1>2. arepo[a] \in 0 .. repoNum - 1 /\ repoNum \in 0 .. MaxRepos
  BY <1>1 DEF IInv, ReposFresh, TypeOK
<1>3. arepo[a] \in Repos
  BY <1>2, ArgsAssumption DEF Repos
<1>4. QED
  BY <1>1, <1>2, <1>3 DEF IInv, UniqueRepos

(* A node that is being connected is new, or one of the pass. *)
LEMMA Connecting ==
  ASSUME IInv, NEW a \in Adders, apc[a] \in {"snapshot", "connect"}
  PROVE  /\ arepo[a] \in Repos
         /\ a \in Starters => spc = "boot"
         /\ a = Spawner => spc \in {"pass", "adding"}
         /\ a \in InFlight \/ (a = Spawner /\ spc = "pass" /\ arepo[a] \in nodes)
<1>1. a \in InFlight \/ (a = Spawner /\ spc = "pass" /\ arepo[a] \in nodes)
  <2>1. a \in InFlight \/ (a = Spawner /\ spc # "adding")
    BY DEF InFlight
  <2>2. QED
    BY <2>1, WhoAdds DEF Starters
<1>2. repoNum \in 0 .. MaxRepos /\ nodes \subseteq Repos
  BY DEF IInv, TypeOK
<1>3. arepo[a] \in Repos
  BY <1>1, <1>2, ArgsAssumption DEF IInv, ReposFresh, Repos
<1>4. QED
  BY <1>1, <1>3, WhoAdds DEF Starters, IInv, SpawnerPlaces
-----------------------------------------------------------------------------
(* What keeps a part of the invariant. *)

(* The nodes of the start stay what they are. *)
LEMMA StartedFrame ==
  ASSUME Started, UNCHANGED <<nodes, arepo>>,
         \A r \in nodes : ntype'[r] = ntype[r],
         \A a \in Starters : atype'[a] = atype[a],
         \A a \in Starters : apc'[a] = "reserve" => apc[a] = "reserve",
         spc' = "boot" => spc = "boot"
  PROVE  Started'
  BY DEF Started

(* What the spawner decided upon stays true while the nodes stay the same. *)
LEMMA CountFrame ==
  ASSUME IInv, UNCHANGED nodes, Miners' = Miners, Clients' = Clients,
         spc' = "type" => spc = "type",
         spc' = "adding" /\ apc'[Spawner] \in Before =>
           /\ spc = "adding" /\ apc[Spawner] \in Before
           /\ atype'[Spawner] = atype[Spawner]
  PROVE  Decided' /\ MinerShare'
<1>1. Decided'
  BY DEF IInv, Decided
<1>2. MinerShare'
  BY DEF IInv, MinerShare
<1>3. QED
  BY <1>1, <1>2

(* Links are never lost, and nobody but the spawner has to have tried all. *)
LEMMA PassFrame ==
  ASSUME IInv, UNCHANGED <<nodes, spc, left>>,
         links \subseteq links', failed \subseteq failed',
         \/ UNCHANGED <<apc[Spawner], arepo[Spawner], todo[Spawner]>>
         \/ spc = "adding" /\ apc'[Spawner] # "connect"
  PROVE  PassInv' /\ MissedOnlyByFailure'
<1>1. \A r, s : Tried(r, s) => Tried(r, s)'
  BY DEF Tried, FailedAt
<1>2. MissedOnlyByFailure'
  BY <1>1 DEF IInv, MissedOnlyByFailure
<1>3. ASSUME UNCHANGED <<apc[Spawner], arepo[Spawner], todo[Spawner]>>
      PROVE  PassInv'
  BY <1>1, <1>3 DEF IInv, PassInv
<1>4. ASSUME spc = "adding", apc'[Spawner] # "connect" PROVE PassInv'
  BY <1>4 DEF PassInv
<1>5. QED
  BY <1>2, <1>3, <1>4

(* A step that leaves the nodes and their goroutines alone keeps all of it. *)
LEMMA Frame ==
  ASSUME IInv, TypeOK', UNCHANGED <<repoNum, graphVars, daemon, adderVars, spawnVars>>,
         stops' \subseteq stops \cup nodes,
         UNCHANGED <<shut, stops>> \/ shut' # "stopping" \/ nodes \subseteq stops'
  PROVE  IInv'
<1> USE DEF IInv, graphVars, adderVars, spawnVars
<1>1. Miners' = Miners /\ Clients' = Clients /\ InFlight' = InFlight
  BY DEF Miners, Clients, InFlight
<1>2. SpawnerPlaces' /\ ReposFresh' /\ UniqueRepos' /\ NoStrayDaemon' /\ TypeAsAsked'
  BY <1>1 DEF SpawnerPlaces, ReposFresh, UniqueRepos, NoStrayDaemon, TypeAsAsked
<1>3. Started' /\ Decided' /\ MinerShare'
  BY <1>1 DEF Started, Decided, MinerShare
<1>4. PassInv' /\ MissedOnlyByFailure'
  BY DEF PassInv, MissedOnlyByFailure, Tried, FailedAt
<1>5. QED
  BY <1>2, <1>3, <1>4

(* Initially there is no node, and the starters are about to begin. *)
LEMMA InitIInv == Init => IInv
<1> SUFFICES ASSUME Init PROVE IInv
  OBVIOUS
<1> USE ArgsAssumption DEF Init
<1>1. /\ apc \in [Adders -> AddPlaces] /\ atype \in [Adders -> Types]
      /\ arepo \in [Adders -> {NoRepo}] /\ todo \in [Adders -> SUBSET Repos]
  BY DEF AddPlaces, Types
<1>2. ntype \in [Repos -> Types] /\ daemon \in [Repos -> {"none"}]
  BY DEF Types
<1>3. repoNum \in 0 .. MaxRepos /\ nodes \subseteq Repos /\ left \subseteq Repos
      /\ stops \subseteq Repos /\ links \subseteq SUBSET Repos
      /\ failed \subseteq SUBSET Repos
  OBVIOUS
<1>4. TypeOK
  <2>1. ntype \in [Repos -> Types] /\ daemon \in [Repos -> {"none", "up", "down", "stuck"}]
    BY <1>2
  <2>2. /\ apc \in [Adders -> AddPlaces] /\ atype \in [Adders -> Types \cup {"Any"}]
        /\ arepo \in [Adders -> Repos \cup {NoRepo}]
        /\ todo \in [Adders -> SUBSET Repos]
    BY <1>1
  <2>3. QED
    BY <1>3, <2>1, <2>2 DEF TypeOK
<1>5. InFlight = {}
  BY DEF InFlight
<1>6. SpawnerPlaces /\ ReposFresh /\ UniqueRepos /\ NoStrayDaemon /\ TypeAsAsked
  BY <1>5, SpawnerAdder
  DEF SpawnerPlaces, ReposFresh, UniqueRepos, NoStrayDaemon, TypeAsAsked, Repos
<1>7. Started
  BY DEF Started, Starters, Spawner
<1>8. Decided /\ MinerShare
  <2>1. nodes = {} /\ Miners = {}
    BY DEF Miners
  <2>2. QED
    BY <2>1, FS_EmptySet DEF Decided, MinerShare
<1>9. PassInv /\ MissedOnlyByFailure
  BY DEF PassInv, MissedOnlyByFailure
<1>10. QED
  BY <1>4, <1>6, <1>7, <1>8, <1>9 DEF IInv

(* Every step of the network keeps the invariant. *)
LEMMA NextIInv == IInv /\ [Next]_vars => IInv'
<1> SUFFICES ASSUME IInv, [Next]_vars PROVE IInv'
  OBVIOUS
<1> USE ArgsAssumption, SpawnerAdder
    DEF IInv, Goto, graphVars, adderVars, spawnVars, stopVars, Starters
<1>1. ASSUME NEW a \in Adders, Reserve(a) PROVE IInv'
  <2>1. Miners' = Miners /\ Clients' = Clients
    BY <1>1, WhoAdds DEF Reserve, TypeOK, Miners, Clients
  <2>2. InFlight' = InFlight \cup {a}
    BY <1>1, WhoAdds DEF Reserve, TypeOK, InFlight
  <2>3. TypeOK'
    <3>1. repoNum \in Repos /\ repoNum + 1 \in 0 .. MaxRepos
      BY <1>1 DEF Reserve, Repos, TypeOK
    <3>2. QED
      BY <1>1, <3>1 DEF Reserve, TypeOK, AddPlaces
  <2>4. SpawnerPlaces'
    BY <1>1, WhoAdds DEF Reserve, TypeOK, SpawnerPlaces
  <2>5. ReposFresh' /\ UniqueRepos' /\ NoStrayDaemon'
    <3>0. repoNum \in Repos /\ repoNum \in 0 .. MaxRepos - 1 /\ a \notin InFlight
      BY <1>1 DEF Reserve, Repos, TypeOK, InFlight
    <3>1. ReposFresh'
      BY <1>1, <2>2, WhoAdds, <3>0 DEF ReposFresh, TypeOK, Reserve
    <3>2. UniqueRepos'
      BY <1>1, <2>2, WhoAdds, <3>0 DEF ReposFresh, UniqueRepos, TypeOK, Reserve
    <3>3. NoStrayDaemon'
      BY <1>1, <2>2, WhoAdds, <3>0 DEF NoStrayDaemon, TypeOK, Reserve
    <3>4. QED BY <3>1, <3>2, <3>3
  <2>6. TypeAsAsked'
    BY <1>1, <2>2, WhoAdds DEF Reserve, TypeOK, TypeAsAsked
  <2>7. Started'
    <3>1. \A r \in nodes : r # NoRepo
      BY DEF TypeOK, Repos, NoRepo
    <3>2. QED
      BY <1>1, <3>1, WhoAdds DEF Reserve, TypeOK, Started
  <2>8. Decided' /\ MinerShare'
    BY <1>1, <2>1, WhoAdds, CountFrame DEF Reserve, TypeOK, Before
  <2>9. PassInv' /\ MissedOnlyByFailure'
    BY <1>1, WhoAdds, PassFrame DEF Reserve, TypeOK
  <2>10. QED BY <2>3, <2>4, <2>5, <2>6, <2>7, <2>8, <2>9
<1>2. ASSUME NEW a \in Adders, StartFails(a) PROVE IInv'
  <2>1. Miners' = Miners /\ Clients' = Clients
    BY <1>2, WhoAdds, Creating DEF StartFails, TypeOK, Miners, Clients
  <2>2. InFlight' = InFlight \ {a}
    BY <1>2, WhoAdds, Creating DEF StartFails, TypeOK, InFlight
  <2>3. TypeOK'
    BY <1>2, WhoAdds, Creating DEF StartFails, TypeOK, AddPlaces
  <2>4. SpawnerPlaces'
    BY <1>2, WhoAdds, Creating DEF StartFails, TypeOK, SpawnerPlaces
  <2>5. ReposFresh' /\ UniqueRepos' /\ NoStrayDaemon'
    BY <1>2, <2>2, WhoAdds, Creating DEF StartFails, TypeOK, ReposFresh, UniqueRepos, NoStrayDaemon
  <2>6. TypeAsAsked'
    BY <1>2, <2>2, WhoAdds, Creating DEF StartFails, TypeOK, TypeAsAsked
  <2>7. Started'
    BY <1>2, WhoAdds, Creating, StartedFrame DEF StartFails, TypeOK
  <2>8. Decided' /\ MinerShare'
    BY <1>2, <2>1, WhoAdds, Creating, CountFrame DEF StartFails, TypeOK, Before
  <2>9. PassInv' /\ MissedOnlyByFailure'
    BY <1>2, WhoAdds, Creating, PassFrame DEF StartFails, TypeOK
  <2>10. QED BY <2>3, <2>4, <2>5, <2>6, <2>7, <2>8, <2>9
<1>3. ASSUME NEW a \in Adders, Start(a) PROVE IInv'
  <2>1. Miners' = Miners /\ Clients' = Clients
    BY <1>3, WhoAdds, Creating DEF Start, TypeOK, Miners, Clients
  <2>2. InFlight' = InFlight
    BY <1>3, WhoAdds, Creating DEF Start, TypeOK, InFlight
  <2>3. TypeOK'
    BY <1>3, WhoAdds, Creating DEF Start, TypeOK, AddPlaces
  <2>4. SpawnerPlaces'
    BY <1>3, WhoAdds, Creating DEF Start, TypeOK, SpawnerPlaces
  <2>5. ReposFresh' /\ UniqueRepos' /\ NoStrayDaemon'
    BY <1>3, <2>2, WhoAdds, Creating DEF Start, TypeOK, ReposFresh, UniqueRepos, NoStrayDaemon
  <2>6. TypeAsAsked'
    BY <1>3, <2>2, WhoAdds, Creating DEF Start, TypeOK, TypeAsAsked
  <2>7. Started'
    BY <1>3, WhoAdds, Creating, StartedFrame DEF Start, TypeOK
  <2>8. Decided' /\ MinerShare'
    BY <1>3, <2>1, WhoAdds, Creating, CountFrame DEF Start, TypeOK, Before
  <2>9. PassInv' /\ MissedOnlyByFailure'
    BY <1>3, WhoAdds, Creating, PassFrame DEF Start, TypeOK
  <2>10. QED BY <2>3, <2>4, <2>5, <2>6, <2>7, <2>8, <2>9
<1>4. ASSUME NEW a \in Adders, Identify(a) PROVE IInv'
  <2>1. Miners' = Miners /\ Clients' = Clients
    BY <1>4, WhoAdds, Creating DEF Identify, TypeOK, Miners, Clients
  <2>2. InFlight' = InFlight
    BY <1>4, WhoAdds, Creating DEF Identify, TypeOK, InFlight
  <2>3. TypeOK'
    BY <1>4, WhoAdds, Creating DEF Identify, TypeOK, AddPlaces, Types
  <2>4. SpawnerPlaces'
    BY <1>4, WhoAdds, Creating DEF Identify, TypeOK, SpawnerPlaces
  <2>5. ReposFresh' /\ UniqueRepos' /\ NoStrayDaemon'
    BY <1>4, <2>2, WhoAdds, Creating DEF Identify, TypeOK, ReposFresh, UniqueRepos, NoStrayDaemon
  <2>6. TypeAsAsked'
    BY <1>4, <2>2, WhoAdds, Creating DEF Identify, TypeOK, TypeAsAsked
  <2>7. Started'
    BY <1>4, WhoAdds, Creating, StartedFrame DEF Identify, TypeOK
  <2>8. Decided' /\ MinerShare'
    BY <1>4, <2>1, WhoAdds, Creating, CountFrame DEF Identify, TypeOK, Before
  <2>9. PassInv' /\ MissedOnlyByFailure'
    BY <1>4, WhoAdds, Creating, PassFrame DEF Identify, TypeOK
  <2>10. QED BY <2>3, <2>4, <2>5, <2>6, <2>7, <2>8, <2>9
<1>5. ASSUME NEW a \in Adders, IdentifyFails(a) PROVE IInv'
  <2>1. Miners' = Miners /\ Clients' = Clients
    BY <1>5, WhoAdds, Creating DEF IdentifyFails, ShutDown, TypeOK, Miners, Clients
  <2>2. InFlight' = InFlight \ {a}
    BY <1>5, WhoAdds, Creating DEF IdentifyFails, ShutDown, TypeOK, InFlight
  <2>3. TypeOK'
    BY <1>5, WhoAdds, Creating DEF IdentifyFails, ShutDown, TypeOK, AddPlaces
  <2>4. SpawnerPlaces'
    BY <1>5, WhoAdds, Creating DEF IdentifyFails, ShutDown, TypeOK, SpawnerPlaces
  <2>5. ReposFresh' /\ UniqueRepos' /\ NoStrayDaemon'
    BY <1>5, <2>2, WhoAdds, Creating DEF IdentifyFails, ShutDown, TypeOK, ReposFresh, UniqueRepos, NoStrayDaemon
  <2>6. TypeAsAsked'
    BY <1>5, <2>2, WhoAdds, Creating DEF IdentifyFails, ShutDown, TypeOK, TypeAsAsked
  <2>7. Started'
    BY <1>5, WhoAdds, Creating, StartedFrame DEF IdentifyFails, ShutDown, TypeOK
  <2>8. Decided' /\ MinerShare'
    BY <1>5, <2>1, WhoAdds, Creating, CountFrame DEF IdentifyFails, ShutDown, TypeOK, Before
  <2>9. PassInv' /\ MissedOnlyByFailure'
    BY <1>5, WhoAdds, Creating, PassFrame DEF IdentifyFails, ShutDown, TypeOK
  <2>10. QED BY <2>3, <2>4, <2>5, <2>6, <2>7, <2>8, <2>9
<1>6. ASSUME NEW a \in Adders, Snapshot(a) PROVE IInv'
  <2>1. Miners' = Miners /\ Clients' = Clients
    BY <1>6, Connecting DEF Snapshot, TypeOK, Miners, Clients
  <2>2. InFlight' = InFlight
    BY <1>6, Connecting DEF Snapshot, TypeOK, InFlight
  <2>3. TypeOK'
    BY <1>6, Connecting DEF Snapshot, TypeOK, AddPlaces
  <2>4. SpawnerPlaces'
    BY <1>6, Connecting DEF Snapshot, TypeOK, SpawnerPlaces
  <2>5. ReposFresh' /\ UniqueRepos' /\ NoStrayDaemon'
    BY <1>6, <2>2, Connecting DEF Snapshot, TypeOK, ReposFresh, UniqueRepos, NoStrayDaemon
  <2>6. TypeAsAsked'
    BY <1>6, <2>2, Connecting DEF Snapshot, TypeOK, TypeAsAsked
  <2>7. Started'
    BY <1>6, Connecting, StartedFrame DEF Snapshot, TypeOK
  <2>8. Decided' /\ MinerShare'
    BY <1>6, <2>1, Connecting, CountFrame DEF Snapshot, TypeOK, Before
  <2>9. PassInv' /\ MissedOnlyByFailure'
    <3>1. CASE a # Spawner
      BY <1>6, <3>1, PassFrame DEF Snapshot, TypeOK
    <3>2. CASE a = Spawner
      <4>1. MissedOnlyByFailure'
        BY <1>6 DEF Snapshot, MissedOnlyByFailure, Tried, FailedAt
      <4>2. PassInv'
        BY <1>6, <3>2 DEF Snapshot, PassInv, Tried, FailedAt, TypeOK
      <4>3. QED BY <4>1, <4>2
    <3>3. QED BY <3>1, <3>2
  <2>10. QED BY <2>3, <2>4, <2>5, <2>6, <2>7, <2>8, <2>9
<1>7. ASSUME NEW a \in Adders, Register(a) PROVE IInv'
  <2>0. a \in InFlight /\ arepo[a] \in Repos \ nodes
    BY <1>7, Connecting DEF Register, UniqueRepos
  <2>1. /\ Miners' = IF ntype[arepo[a]] = "Miner" THEN Miners \cup {arepo[a]} ELSE Miners
        /\ Clients' = IF ntype[arepo[a]] = "Miner" THEN Clients ELSE Clients \cup {arepo[a]}
    BY <1>7, <2>0 DEF Register, Miners, Clients, TypeOK, Types
  <2>2. InFlight' = InFlight \ {a}
    BY <1>7, Connecting DEF Register, TypeOK, InFlight
  <2>3. TypeOK'
    BY <1>7, <2>0 DEF Register, TypeOK, AddPlaces
  <2>4. SpawnerPlaces'
    BY <1>7, Connecting DEF Register, TypeOK, SpawnerPlaces
  <2>5. ReposFresh' /\ UniqueRepos' /\ NoStrayDaemon'
    <3>1. ReposFresh'
      <4>1. arepo[a] \in 0 .. repoNum - 1
        BY <2>0 DEF ReposFresh
      <4>2. \A b \in InFlight' : b \in InFlight /\ apc'[b] = apc[b]
        BY <1>7, <2>2 DEF Register, TypeOK
      <4>3. QED
        BY <1>7, <4>1, <4>2 DEF ReposFresh, Register
    <3>2. UniqueRepos'
      BY <1>7, <2>0, <2>2 DEF ReposFresh, UniqueRepos, TypeOK, Register
    <3>3. NoStrayDaemon'
      BY <1>7, <2>0, <2>2 DEF NoStrayDaemon, TypeOK, Register, LockFree
    <3>4. QED BY <3>1, <3>2, <3>3
  <2>6. TypeAsAsked'
    BY <1>7, <2>2, Connecting DEF Register, TypeOK, TypeAsAsked
  <2>7. Started'
    <3>1. \A b \in Starters : apc'[b] = "reserve" => apc[b] = "reserve"
      BY <1>7 DEF Register, TypeOK
    <3>2. CASE spc # "boot"
      BY <1>7, <3>1, <3>2 DEF Register, Started
    <3>3. CASE spc = "boot"
      <4>1. a \in Starters
        BY <1>7, <3>3, SpawnerAdder DEF Register
      <4>2. ntype[arepo[a]] = "Miner" => a % 2 = 0
        BY <1>7, <2>0, <4>1 DEF Register, TypeAsAsked, Started
      <4>3. QED
        BY <1>7, <3>1, <4>1, <4>2 DEF Register, Started
    <3>4. QED BY <3>2, <3>3
  <2>8. Decided' /\ MinerShare'
    <3>1. spc' = spc /\ apc' = [apc EXCEPT ![a] = "announce"] /\ nodes' = nodes \cup {arepo[a]}
      BY <1>7 DEF Register
    <3>2. CASE spc = "boot"
      <4>1. Cardinality(Miners') <= (StartNodes + 1) \div 2
        <5>1. \A r \in Miners' : \E b \in Starters : arepo'[b] = r /\ b % 2 = 0
          BY <2>7, <3>1, <3>2 DEF Started, Miners
        <5>2. QED BY <5>1, EvenBound
      <4>2. QED
        BY <3>1, <3>2, <4>1 DEF Decided, MinerShare
    <3>3. CASE spc # "boot"
      <4>1. a = Spawner /\ spc = "adding" /\ apc[Spawner] = "connect"
        BY <1>7, <3>3, Connecting DEF Register
      <4>2. Decided'
        BY <3>1, <4>1 DEF Decided, Before, TypeOK
      <4>4. MinerShare'
        <5>1. CASE ntype[arepo[a]] = "Miner"
          <6>1. 3 * Cardinality(Miners) <= 2 * Cardinality(Clients)
            BY <1>7, <2>0, <4>1, <5>1 DEF Register, TypeAsAsked, Decided, Before
          <6>2. Miners' = Miners \cup {arepo[a]} /\ Clients' = Clients /\ arepo[a] \notin Miners
            BY <2>0, <2>1, <5>1 DEF Miners
          <6>3. Cardinality(Miners') = Cardinality(Miners) + 1
            BY <6>2, Sizes, FS_AddElement
          <6>4. QED
            BY <6>1, <6>2, <6>3, Sizes DEF MinerShare
        <5>2. CASE ntype[arepo[a]] # "Miner"
          <6>1. Miners' = Miners /\ Clients' = Clients \cup {arepo[a]} /\ arepo[a] \notin Clients
            BY <2>0, <2>1, <5>2 DEF Clients
          <6>2. Cardinality(Clients') = Cardinality(Clients) + 1
            BY <6>1, Sizes, FS_AddElement
          <6>3. QED
            BY <6>1, <6>2, Sizes DEF MinerShare
        <5>3. QED BY <5>1, <5>2
      <4>5. QED BY <4>2, <4>4
    <3>4. QED BY <3>2, <3>3
  <2>9. PassInv' /\ MissedOnlyByFailure'
    <3>1. \A r, s : Tried(r, s) => Tried(r, s)'
      BY <1>7 DEF Register, Tried, FailedAt
    <3>2. spc = "boot" \/ (a = Spawner /\ spc = "adding")
      BY <1>7, Connecting DEF Register
    <3>3. PassInv'
      BY <1>7, <3>2 DEF Register, PassInv, TypeOK, SpawnerPlaces
    <3>4. CASE spc = "boot"
      BY <1>7, <3>3, <3>4 DEF Register, MissedOnlyByFailure
    <3>5. CASE a = Spawner /\ spc = "adding"
      <4>1. nodes' = nodes \cup {arepo[a]} /\ \A s \in nodes : Tried(arepo[a], s)
        BY <1>7, <3>5 DEF Register, PassInv
      <4>2. \A r, s \in nodes : Tried(r, s) \/ Tried(s, r)
        BY <3>5 DEF MissedOnlyByFailure
      <4>3. Tried(arepo[a], arepo[a])
        BY DEF Tried
      <4>4. \A r, s \in nodes' : Tried(r, s) \/ Tried(s, r)
        BY <4>1, <4>2, <4>3
      <4>5. QED
        BY <3>1, <3>3, <4>4 DEF MissedOnlyByFailure
    <3>6. QED BY <3>2, <3>3, <3>4, <3>5
  <2>10. QED BY <2>3, <2>4, <2>5, <2>6, <2>7, <2>8, <2>9
<1>8. ASSUME NEW a \in Adders, Announce(a) PROVE IInv'
  <2>1. Miners' = Miners /\ Clients' = Clients
    BY <1>8, WhoAdds DEF Announce, TypeOK, Miners, Clients
  <2>2. InFlight' = InFlight
    BY <1>8, WhoAdds DEF Announce, TypeOK, InFlight
  <2>3. TypeOK'
    BY <1>8, WhoAdds DEF Announce, TypeOK, AddPlaces
  <2>4. SpawnerPlaces'
    BY <1>8, WhoAdds DEF Announce, TypeOK, SpawnerPlaces
  <2>5. ReposFresh' /\ UniqueRepos' /\ NoStrayDaemon'
    BY <1>8, <2>2, WhoAdds DEF Announce, TypeOK, ReposFresh, UniqueRepos, NoStrayDaemon
  <2>6. TypeAsAsked'
    BY <1>8, <2>2, WhoAdds DEF Announce, TypeOK, TypeAsAsked
  <2>7. Started'
    BY <1>8, WhoAdds, StartedFrame DEF Announce, TypeOK
  <2>8. Decided' /\ MinerShare'
    BY <1>8, <2>1, WhoAdds, CountFrame DEF Announce, TypeOK, Before
  <2>9. PassInv' /\ MissedOnlyByFailure'
    BY <1>8, WhoAdds, PassFrame DEF Announce, TypeOK
  <2>10. QED BY <2>3, <2>4, <2>5, <2>6, <2>7, <2>8, <2>9
<1>9. ASSUME NEW a \in Adders, Mine(a) PROVE IInv'
  <2>0. \E x \in {"done", "failed"} : apc' = [apc EXCEPT ![a] = x]
    BY <1>9 DEF Mine
  <2>1. Miners' = Miners /\ Clients' = Clients
    BY <1>9, WhoAdds DEF Mine, TypeOK, Miners, Clients
  <2>2. InFlight' = InFlight
    BY <1>9, WhoAdds DEF Mine, TypeOK, InFlight
  <2>3. TypeOK'
    BY <1>9, WhoAdds DEF Mine, TypeOK, AddPlaces
  <2>4. SpawnerPlaces'
    BY <1>9, WhoAdds DEF Mine, TypeOK, SpawnerPlaces
  <2>5. ReposFresh' /\ UniqueRepos' /\ NoStrayDaemon'
    <3>1. ReposFresh'
      BY <1>9, <2>0, <2>2, WhoAdds DEF ReposFresh, TypeOK, Mine
    <3>2. UniqueRepos'
      BY <1>9, <2>0, <2>2, WhoAdds DEF ReposFresh, UniqueRepos, TypeOK, Mine
    <3>3. NoStrayDaemon'
      BY <1>9, <2>0, <2>2, WhoAdds DEF NoStrayDaemon, TypeOK, Mine
    <3>4. QED BY <3>1, <3>2, <3>3
  <2>6. TypeAsAsked'
    BY <1>9, <2>0, <2>2, WhoAdds DEF Mine, TypeOK, TypeAsAsked
  <2>7. Started'
    BY <1>9, WhoAdds, StartedFrame DEF Mine, TypeOK
  <2>8. Decided' /\ MinerShare'
    BY <1>9, <2>1, WhoAdds, CountFrame DEF Mine, TypeOK, Before
  <2>9. PassInv' /\ MissedOnlyByFailure'
    BY <1>9, WhoAdds, PassFrame DEF Mine, TypeOK
  <2>10. QED BY <2>3, <2>4, <2>5, <2>6, <2>7, <2>8, <2>9
<1>10. ASSUME NEW a \in Adders, NEW r \in todo[a], Connect(a, r) PROVE IInv'
  <2>1. Miners' = Miners /\ Clients' = Clients
    BY <1>10, Connecting DEF Connect, TypeOK, Miners, Clients
  <2>2. InFlight' = InFlight
    BY <1>10, Connecting DEF Connect, TypeOK, InFlight
  <2>3. TypeOK'
    BY <1>10, Connecting DEF Connect, TypeOK, AddPlaces
  <2>4. SpawnerPlaces'
    BY <1>10, Connecting DEF Connect, TypeOK, SpawnerPlaces
  <2>5. ReposFresh' /\ UniqueRepos' /\ NoStrayDaemon'
    BY <1>10, <2>2, Connecting DEF Connect, TypeOK, ReposFresh, UniqueRepos, NoStrayDaemon
  <2>6. TypeAsAsked'
    BY <1>10, <2>2, Connecting DEF Connect, TypeOK, TypeAsAsked
  <2>7. Started'
    BY <1>10, Connecting, StartedFrame DEF Connect, TypeOK
  <2>8. Decided' /\ MinerShare'
    BY <1>10, <2>1, Connecting, CountFrame DEF Connect, TypeOK, Before
  <2>9. PassInv' /\ MissedOnlyByFailure'
    <3>1. CASE a # Spawner
      BY <1>10, <3>1, PassFrame DEF Connect, TypeOK
    <3>2. CASE a = Spawner
      <4>1. MissedOnlyByFailure'
        BY <1>10 DEF Connect, MissedOnlyByFailure, Tried, FailedAt
      <4>2. PassInv'
        BY <1>10, <3>2 DEF Connect, PassInv, Tried, FailedAt, TypeOK
      <4>3. QED BY <4>1, <4>2
    <3>3. QED BY <3>1, <3>2
  <2>10. QED BY <2>3, <2>4, <2>5, <2>6, <2>7, <2>8, <2>9
<1>11. ASSUME NEW a \in Adders, NEW r \in todo[a], ConnectFails(a, r) PROVE IInv'
  <2>1. Miners' = Miners /\ Clients' = Clients
    BY <1>11, Connecting DEF ConnectFails, TypeOK, Miners, Clients
  <2>2. InFlight' = InFlight
    BY <1>11, Connecting DEF ConnectFails, TypeOK, InFlight
  <2>3. TypeOK'
    BY <1>11, Connecting DEF ConnectFails, TypeOK, AddPlaces
  <2>4. SpawnerPlaces'
    BY <1>11, Connecting DEF ConnectFails, TypeOK, SpawnerPlaces
  <2>5. ReposFresh' /\ UniqueRepos' /\ NoStrayDaemon'
    BY <1>11, <2>2, Connecting DEF ConnectFails, TypeOK, ReposFresh, UniqueRepos, NoStrayDaemon
  <2>6. TypeAsAsked'
    BY <1>11, <2>2, Connecting DEF ConnectFails, TypeOK, TypeAsAsked
  <2>7. Started'
    BY <1>11, Connecting, StartedFrame DEF ConnectFails, TypeOK
  <2>8. Decided' /\ MinerShare'
    BY <1>11, <2>1, Connecting, CountFrame DEF ConnectFails, TypeOK, Before
  <2>9. PassInv' /\ MissedOnlyByFailure'
    <3>1. CASE a # Spawner
      BY <1>11, <3>1, PassFrame DEF ConnectFails, TypeOK
    <3>2. CASE a = Spawner
      <4>1. MissedOnlyByFailure'
        BY <1>11 DEF ConnectFails, MissedOnlyByFailure, Tried, FailedAt
      <4>2. FailedAt(arepo[Spawner])' /\ r \in Repos
        BY <1>11, <3>2 DEF ConnectFails, FailedAt, TypeOK
      <4>3. PassInv'
        BY <1>11, <3>2, <4>2 DEF ConnectFails, PassInv, Tried, FailedAt
      <4>4. QED BY <4>1, <4>3
    <3>3. QED BY <3>1, <3>2
  <2>10. QED BY <2>3, <2>4, <2>5, <2>6, <2>7, <2>8, <2>9
<1>12. CASE BeginPass
  <2>1. Miners' = Miners /\ Clients' = Clients
    BY <1>12 DEF BeginPass, TypeOK, Miners, Clients
  <2>2. InFlight' = InFlight
    BY <1>12 DEF BeginPass, TypeOK, SpawnerPlaces, InFlight
  <2>3. TypeOK'
    BY <1>12 DEF BeginPass, TypeOK, AddPlaces
  <2>4. SpawnerPlaces'
    BY <1>12 DEF BeginPass, TypeOK, SpawnerPlaces
  <2>5. ReposFresh' /\ UniqueRepos' /\ NoStrayDaemon'
    BY <1>12, <2>2 DEF BeginPass, TypeOK, ReposFresh, UniqueRepos, NoStrayDaemon
  <2>6. TypeAsAsked'
    BY <1>12, <2>2 DEF BeginPass, TypeOK, TypeAsAsked
  <2>7. Started'
    BY <1>12, StartedFrame DEF BeginPass, TypeOK
  <2>8. Decided' /\ MinerShare'
    BY <1>12, <2>1, CountFrame DEF BeginPass, TypeOK, Before
  <2>9. PassInv' /\ MissedOnlyByFailure'
    BY <1>12 DEF BeginPass, TypeOK, SpawnerPlaces, PassInv, MissedOnlyByFailure, Tried, FailedAt
  <2>10. QED BY <2>3, <2>4, <2>5, <2>6, <2>7, <2>8, <2>9
<1>13. CASE PassNodeDone
  <2>1. Miners' = Miners /\ Clients' = Clients
    BY <1>13 DEF PassNodeDone, TypeOK, Miners, Clients
  <2>2. InFlight' = InFlight
    BY <1>13 DEF PassNodeDone, TypeOK, SpawnerPlaces, InFlight
  <2>3. TypeOK'
    BY <1>13 DEF PassNodeDone, TypeOK, AddPlaces
  <2>4. SpawnerPlaces'
    BY <1>13 DEF PassNodeDone, TypeOK, SpawnerPlaces
  <2>5. ReposFresh' /\ UniqueRepos' /\ NoStrayDaemon'
    BY <1>13, <2>2 DEF PassNodeDone, TypeOK, ReposFresh, UniqueRepos, NoStrayDaemon
  <2>6. TypeAsAsked'
    BY <1>13, <2>2 DEF PassNodeDone, TypeOK, TypeAsAsked
  <2>7. Started'
    BY <1>13, StartedFrame DEF PassNodeDone, TypeOK
  <2>8. Decided' /\ MinerShare'
    BY <1>13, <2>1, CountFrame DEF PassNodeDone, TypeOK, Before
  <2>9. PassInv' /\ MissedOnlyByFailure'
    BY <1>13 DEF PassNodeDone, TypeOK, SpawnerPlaces, PassInv, MissedOnlyByFailure, Tried, FailedAt
  <2>10. QED BY <2>3, <2>4, <2>5, <2>6, <2>7, <2>8, <2>9
<1>14. CASE EndPass
  <2>1. Miners' = Miners /\ Clients' = Clients
    BY <1>14 DEF EndPass, TypeOK, Miners, Clients
  <2>2. InFlight' = InFlight
    BY <1>14 DEF EndPass, TypeOK, SpawnerPlaces, InFlight
  <2>3. TypeOK'
    BY <1>14 DEF EndPass, TypeOK, AddPlaces
  <2>4. SpawnerPlaces'
    BY <1>14 DEF EndPass, TypeOK, SpawnerPlaces
  <2>5. ReposFresh' /\ UniqueRepos' /\ NoStrayDaemon'
    BY <1>14, <2>2 DEF EndPass, TypeOK, ReposFresh, UniqueRepos, NoStrayDaemon
  <2>6. TypeAsAsked'
    BY <1>14, <2>2 DEF EndPass, TypeOK, TypeAsAsked
  <2>7. Started'
    BY <1>14, StartedFrame DEF EndPass, TypeOK
  <2>8. Decided' /\ MinerShare'
    BY <1>14, <2>1, CountFrame DEF EndPass, TypeOK, Before
  <2>9. PassInv' /\ MissedOnlyByFailure'
    BY <1>14 DEF EndPass, TypeOK, SpawnerPlaces, PassInv, MissedOnlyByFailure, Tried, FailedAt
  <2>10. QED BY <2>3, <2>4, <2>5, <2>6, <2>7, <2>8, <2>9
<1>15. CASE Wake
  <2>1. Miners' = Miners /\ Clients' = Clients
    BY <1>15 DEF Wake, TypeOK, Miners, Clients
  <2>2. InFlight' = InFlight
    BY <1>15 DEF Wake, TypeOK, SpawnerPlaces, InFlight
  <2>3. TypeOK'
    BY <1>15 DEF Wake, TypeOK, AddPlaces
  <2>4. SpawnerPlaces'
    BY <1>15 DEF Wake, TypeOK, SpawnerPlaces
  <2>5. ReposFresh' /\ UniqueRepos' /\ NoStrayDaemon'
    BY <1>15, <2>2 DEF Wake, TypeOK, ReposFresh, UniqueRepos, NoStrayDaemon
  <2>6. TypeAsAsked'
    BY <1>15, <2>2 DEF Wake, TypeOK, TypeAsAsked
  <2>7. Started'
    BY <1>15, StartedFrame DEF Wake, TypeOK
  <2>8. Decided' /\ MinerShare'
    BY <1>15, <2>1, CountFrame DEF Wake, TypeOK, Before
  <2>9. PassInv' /\ MissedOnlyByFailure'
    BY <1>15 DEF Wake, TypeOK, SpawnerPlaces, PassInv, MissedOnlyByFailure, Tried, FailedAt
  <2>10. QED BY <2>3, <2>4, <2>5, <2>6, <2>7, <2>8, <2>9
<1>16. CASE CheckSize
  <2>1. Miners' = Miners /\ Clients' = Clients
    BY <1>16 DEF CheckSize, TypeOK, Miners, Clients
  <2>2. InFlight' = InFlight
    BY <1>16 DEF CheckSize, TypeOK, SpawnerPlaces, InFlight
  <2>3. TypeOK'
    BY <1>16 DEF CheckSize, TypeOK, AddPlaces
  <2>4. SpawnerPlaces'
    BY <1>16 DEF CheckSize, TypeOK, SpawnerPlaces
  <2>5. ReposFresh' /\ UniqueRepos' /\ NoStrayDaemon'
    BY <1>16, <2>2 DEF CheckSize, TypeOK, ReposFresh, UniqueRepos, NoStrayDaemon
  <2>6. TypeAsAsked'
    BY <1>16, <2>2 DEF CheckSize, TypeOK, TypeAsAsked
  <2>7. Started'
    BY <1>16, StartedFrame DEF CheckSize, TypeOK
  <2>8. Decided' /\ MinerShare'
    BY <1>16, <2>1, Sizes DEF CheckSize, Decided, MinerShare
  <2>9. PassInv' /\ MissedOnlyByFailure'
    BY <1>16 DEF CheckSize, TypeOK, SpawnerPlaces, PassInv, MissedOnlyByFailure, Tried, FailedAt
  <2>10. QED BY <2>3, <2>4, <2>5, <2>6, <2>7, <2>8, <2>9
<1>17. CASE BeginAdd
  <2>1. Miners' = Miners /\ Clients' = Clients
    BY <1>17 DEF BeginAdd, TypeOK, Miners, Clients
  <2>2. InFlight' = InFlight
    BY <1>17 DEF BeginAdd, TypeOK, SpawnerPlaces, InFlight
  <2>3. TypeOK'
    BY <1>17, NextType DEF BeginAdd, TypeOK, AddPlaces
  <2>4. SpawnerPlaces'
    BY <1>17 DEF BeginAdd, TypeOK, SpawnerPlaces
  <2>5. ReposFresh' /\ UniqueRepos' /\ NoStrayDaemon'
    BY <1>17, <2>2 DEF BeginAdd, TypeOK, ReposFresh, UniqueRepos, NoStrayDaemon
  <2>6. TypeAsAsked'
    BY <1>17, <2>2 DEF BeginAdd, TypeOK, TypeAsAsked
  <2>7. Started'
    BY <1>17, StartedFrame DEF BeginAdd, TypeOK
  <2>8. Decided' /\ MinerShare'
    <3>1. NextRandomType = "Client" \/
            (NextRandomType = "Any" /\ 3 * Cardinality(Miners) <= 2 * Cardinality(Clients))
      BY Sizes DEF NextRandomType
    <3>2. QED
      BY <1>17, <2>1, <3>1 DEF BeginAdd, TypeOK, Decided, MinerShare
  <2>9. PassInv' /\ MissedOnlyByFailure'
    BY <1>17 DEF BeginAdd, TypeOK, SpawnerPlaces, PassInv, MissedOnlyByFailure, Tried, FailedAt
  <2>10. QED BY <2>3, <2>4, <2>5, <2>6, <2>7, <2>8, <2>9
<1>18. CASE EndAdd
  <2>1. Miners' = Miners /\ Clients' = Clients
    BY <1>18 DEF EndAdd, TypeOK, Miners, Clients
  <2>2. InFlight' = InFlight
    BY <1>18 DEF EndAdd, TypeOK, SpawnerPlaces, InFlight
  <2>3. TypeOK'
    BY <1>18 DEF EndAdd, TypeOK, AddPlaces
  <2>4. SpawnerPlaces'
    BY <1>18 DEF EndAdd, TypeOK, SpawnerPlaces
  <2>5. ReposFresh' /\ UniqueRepos' /\ NoStrayDaemon'
    BY <1>18, <2>2 DEF EndAdd, TypeOK, ReposFresh, UniqueRepos, NoStrayDaemon
  <2>6. TypeAsAsked'
    BY <1>18, <2>2 DEF EndAdd, TypeOK, TypeAsAsked
  <2>7. Started'
    BY <1>18, StartedFrame DEF EndAdd, TypeOK
  <2>8. Decided' /\ MinerShare'
    BY <1>18, <2>1, CountFrame DEF EndAdd, TypeOK, Before
  <2>9. PassInv' /\ MissedOnlyByFailure'
    BY <1>18 DEF EndAdd, TypeOK, SpawnerPlaces, PassInv, MissedOnlyByFailure, Tried, FailedAt
  <2>10. QED BY <2>3, <2>4, <2>5, <2>6, <2>7, <2>8, <2>9
<1>19. CASE Cancel
  <2>1. TypeOK'
    BY <1>19 DEF Cancel, TypeOK
  <2>2. QED
    BY <1>19, <2>1, Frame DEF Cancel
<1>20. CASE BeginShutdown
  <2>1. TypeOK'
    BY <1>20 DEF BeginShutdown, TypeOK
  <2>2. QED
    BY <1>20, <2>1, Frame DEF BeginShutdown
<1>21. CASE EndShutdown
  <2>1. TypeOK'
    BY <1>21 DEF EndShutdown, TypeOK
  <2>2. QED
    BY <1>21, <2>1, Frame DEF EndShutdown
<1>22. CASE View \/ Stall \/ Resume \/ PumpEnds
  <2>1. TypeOK'
    BY <1>22 DEF View, Stall, Resume, PumpEnds, Read, TypeOK
  <2>2. QED
    BY <1>22, <2>1, Frame DEF View, Stall, Resume, PumpEnds, Read
<1>23. ASSUME NEW r \in left, PassNode(r) PROVE IInv'
  <2>1. Miners' = Miners /\ Clients' = Clients
    BY <1>23 DEF PassNode, TypeOK, Miners, Clients
  <2>2. InFlight' = InFlight
    BY <1>23 DEF PassNode, TypeOK, SpawnerPlaces, InFlight
  <2>3. TypeOK'
    BY <1>23 DEF PassNode, TypeOK, AddPlaces
  <2>4. SpawnerPlaces'
    <3>1. r \in nodes /\ spc = "pass" /\ spc' = "pass"
      BY <1>23 DEF PassNode, SpawnerPlaces
    <3>2. apc'[Spawner] = "snapshot" /\ arepo'[Spawner] = r
      BY <1>23 DEF PassNode, TypeOK
    <3>3. \A b \in Starters : apc'[b] = apc[b]
      BY <1>23 DEF PassNode, TypeOK
    <3>4. QED
      BY <1>23, <3>1, <3>2, <3>3 DEF PassNode, SpawnerPlaces
  <2>5. ReposFresh' /\ UniqueRepos' /\ NoStrayDaemon'
    <3>0. Spawner \notin InFlight
      BY <1>23 DEF PassNode, InFlight
    <3>1. ReposFresh'
      BY <1>23, <2>2, <3>0 DEF ReposFresh, TypeOK, PassNode
    <3>2. UniqueRepos'
      BY <1>23, <2>2, <3>0 DEF ReposFresh, UniqueRepos, TypeOK, PassNode
    <3>3. NoStrayDaemon'
      BY <1>23, <2>2, <3>0 DEF NoStrayDaemon, TypeOK, PassNode
    <3>4. QED BY <3>1, <3>2, <3>3
  <2>6. TypeAsAsked'
    <3>1. Spawner \notin InFlight
      BY <1>23 DEF PassNode, InFlight
    <3>2. QED
      BY <1>23, <2>2, <3>1 DEF PassNode, TypeOK, TypeAsAsked
  <2>7. Started'
    BY <1>23 DEF PassNode, TypeOK, Started
  <2>8. Decided' /\ MinerShare'
    BY <1>23, <2>1, CountFrame DEF PassNode, TypeOK, Before
  <2>9. PassInv' /\ MissedOnlyByFailure'
    BY <1>23 DEF PassNode, TypeOK, SpawnerPlaces, PassInv, MissedOnlyByFailure, Tried, FailedAt
  <2>10. QED BY <2>3, <2>4, <2>5, <2>6, <2>7, <2>8, <2>9
<1>24. ASSUME NEW r \in stops, Stop(r) PROVE IInv'
  <2>1. Miners' = Miners /\ Clients' = Clients
    BY <1>24 DEF Stop, ShutDown, TypeOK, Miners, Clients
  <2>2. InFlight' = InFlight
    BY <1>24 DEF Stop, ShutDown, TypeOK, InFlight
  <2>3. TypeOK'
    BY <1>24 DEF Stop, ShutDown, TypeOK, AddPlaces
  <2>4. SpawnerPlaces'
    BY <1>24 DEF Stop, ShutDown, TypeOK, SpawnerPlaces
  <2>5. ReposFresh' /\ UniqueRepos' /\ NoStrayDaemon'
    <3>1. ReposFresh'
      <4>1. r \in 0 .. repoNum - 1 /\ repoNum \in Nat
        BY <1>24 DEF Stop, ShutDown, ReposFresh, TypeOK
      <4>2. /\ \A q \in repoNum .. MaxRepos - 1 : daemon'[q] = daemon[q]
            /\ \A q \in Repos : daemon'[q] = "up" => daemon[q] = "up"
        BY <1>24, <4>1 DEF Stop, ShutDown, TypeOK, Repos
      <4>3. \A b \in InFlight : arepo[b] \in Repos
        BY DEF ReposFresh, Repos, TypeOK
      <4>4. QED
        BY <1>24, <2>2, <4>2, <4>3 DEF Stop, ShutDown, ReposFresh
    <3>2. UniqueRepos'
      BY <1>24, <2>2 DEF ReposFresh, UniqueRepos, TypeOK, Stop, ShutDown
    <3>3. NoStrayDaemon'
      BY <1>24, <2>2 DEF NoStrayDaemon, TypeOK, Stop, ShutDown
    <3>4. QED BY <3>1, <3>2, <3>3
  <2>6. TypeAsAsked'
    BY <1>24, <2>2 DEF Stop, ShutDown, TypeOK, TypeAsAsked
  <2>7. Started'
    BY <1>24, StartedFrame DEF Stop, ShutDown, TypeOK
  <2>8. Decided' /\ MinerShare'
    BY <1>24, <2>1, CountFrame DEF Stop, ShutDown, TypeOK, Before
  <2>9. PassInv' /\ MissedOnlyByFailure'
    BY <1>24, PassFrame DEF Stop, ShutDown, TypeOK
  <2>10. QED BY <2>3, <2>4, <2>5, <2>6, <2>7, <2>8, <2>9
<1>25. CASE UNCHANGED vars
  <2>1. TypeOK'
    BY <1>25 DEF vars, TypeOK
  <2>2. QED
    BY <1>25, <2>1, Frame DEF vars
<1>26. QED
  BY <1>1, <1>2, <1>3, <1>4, <1>5, <1>6, <1>7, <1>8, <1>9, <1>10,
     <1>11, <1>12, <1>13, <1>14, <1>15, <1>16, <1>17, <1>18, <1>19,
     <1>20, <1>21, <1>22, <1>23, <1>24, <1>25
  DEF Next, AddNode, ConnectAny, AddAndRemoveNodes, ShutdownAll

(* The conjunction that the safety properties follow from. *)
THEOREM Invariance == Spec => []IInv
BY InitIInv, NextIInv, PTL DEF Spec

(* Type correctness. *)
THEOREM TypeCorrect == Spec => []TypeOK
<1>1. IInv => TypeOK
  BY DEF IInv
<1>2. QED
  BY <1>1, Invariance, PTL

(* However many nodes join at once, no two daemons share a repo. *)
THEOREM UniqueReposAlways == Spec => []UniqueRepos
<1>1. IInv => UniqueRepos
  BY DEF IInv
<1>2. QED
  BY <1>1, Invariance, PTL

(* Whatever fails, a daemon that nobody has tried in vain to shut down is
   registered, and as long as ShutdownAll works still in its list, or it is about
   to be registered. *)
THEOREM NoStrayDaemonAlways == Spec => []NoStrayDaemon
<1>1. IInv => NoStrayDaemon
  BY DEF IInv
<1>2. QED
  BY <1>1, Invariance, PTL

(* What the spawner appends never makes the network larger than MaxNodes,
   although it checks the size long before.  The nodes of the start are added
   without a look at MaxNodes (network/randomizer.go:112-126). *)
THEOREM SpawnerKeepsMaximum ==
  Spec => [][spc # "boot" /\ nodes' # nodes => Cardinality(nodes') <= MaxNodes]_vars
<1>1. ASSUME IInv, [Next]_vars, spc # "boot", nodes' # nodes
      PROVE  Cardinality(nodes') <= MaxNodes
  <2>1. PICK a \in Adders : Register(a)
    BY <1>1 DEF Next, AddNode, ConnectAny, AddAndRemoveNodes, ShutdownAll, vars, graphVars,
                Reserve, Start, StartFails, Identify, IdentifyFails, Snapshot, Connect,
                ConnectFails, Announce, Mine, BeginPass, PassNode, PassNodeDone, EndPass,
                Wake, CheckSize, BeginAdd, EndAdd, BeginShutdown, Stop, EndShutdown,
                Cancel, View, Stall, Resume, PumpEnds, Read
  <2>2. a = Spawner /\ spc = "adding" /\ apc[Spawner] = "connect"
    BY <1>1, <2>1, WhoAdds, Connecting DEF Register, Starters
  <2>3. Cardinality(nodes) < MaxNodes
    BY <1>1, <2>2 DEF IInv, Decided, Before
  <2>4. arepo[a] \notin nodes /\ nodes' = nodes \cup {arepo[a]}
    BY <1>1, <2>1, <2>2, Connecting DEF IInv, UniqueRepos, Register
  <2>5. /\ IsFiniteSet(nodes) /\ Cardinality(nodes) \in Nat
        /\ Cardinality(nodes') = Cardinality(nodes) + 1
    BY <1>1, <2>4, Sizes, FS_AddElement DEF IInv
  <2>6. QED
    BY <2>3, <2>5, ArgsAssumption
<1>2. QED
  BY <1>1, Invariance, PTL DEF Spec

(* The spawner keeps 1.5 clients for every miner but the newest. *)
THEOREM MinerShareAlways == Spec => []MinerShare
<1>1. IInv => MinerShare
  BY DEF IInv
<1>2. QED
  BY <1>1, Invariance, PTL

(* From the end of the pass on, of two nodes that are not connected one has had  *)
(* a failure of its own, however many nodes joined at once.                      *)
THEOREM MissedOnlyByFailureAlways == Spec => []MissedOnlyByFailure
<1>1. IInv => MissedOnlyByFailure
  BY DEF IInv
<1>2. QED
  BY <1>1, Invariance, PTL

-----------------------------------------------------------------------------
(* The safety half of BootEnds and SpawnerStops: every step of a goroutine    *)
(* brings it nearer to its end, and it never waits for what does not come.    *)

\* What a call of AddNode has still to do; and addAndRemoveNodes, until it is
\* back at the sleep of its loop or past it; and ShutdownAll.
CallStage(a) ==
  CASE apc[a] = "reserve" -> 8
    [] apc[a] = "start" -> 7
    [] apc[a] = "identify" -> 6
    [] apc[a] = "snapshot" -> 5
    [] apc[a] = "connect" -> 4
    [] apc[a] = "announce" -> 3
    [] apc[a] = "mine" -> 2
    [] apc[a] \in {"idle", "done", "failed"} -> 1

SpawnStage ==
  CASE spc = "boot" -> 7
    [] spc = "pass" -> 6
    [] spc = "size" -> 5
    [] spc = "type" -> 4
    [] spc = "adding" -> 3
    [] spc = "sleep" -> 2
    [] spc = "done" -> 1

ShutStage ==
  CASE shut = "no" -> 3
    [] shut = "stopping" -> 2
    [] shut = "done" -> 1

Shrinks(new, old) == new \subseteq old /\ new # old

CallKept(a) == apc'[a] = apc[a] /\ todo'[a] = todo[a]

CallNearer(a) ==
  \/ CallStage(a)' < CallStage(a)
  \/ apc'[a] = apc[a] /\ Shrinks(todo'[a], todo[a])

SpawnKept == spc' = spc /\ left' = left /\ CallKept(Spawner)

SpawnNearer ==
  \/ SpawnStage' < SpawnStage
  \/ spc' = spc /\ Shrinks(left', left)
  \/ spc' = spc /\ left' = left /\ CallNearer(Spawner)

ShutNearer ==
  \/ ShutStage' < ShutStage
  \/ shut' = shut /\ Shrinks(stops', stops)

\* The one step that starts over: another round of periodic.
NextRound == spc = "sleep" /\ ~ctxDone /\ spc' = "size"

\* Each step takes one of them nearer to its end, and leaves the others where
\* they are.  (The context and the reader of the log are none of them.)
NearerOne ==
  \/ /\ \/ \E a \in Starters : CallNearer(a) /\ \A b \in Starters \ {a} : CallKept(b)
     /\ SpawnKept /\ UNCHANGED <<shut, stops>>
  \/ /\ SpawnNearer \/ NextRound
     /\ \A a \in Starters : CallKept(a)
     /\ UNCHANGED <<shut, stops>>
  \/ /\ ShutNearer
     /\ \A a \in Starters : CallKept(a)
     /\ SpawnKept
  \/ /\ ctxDone' # ctxDone \/ reader' # reader
     /\ \A a \in Starters : CallKept(a)
     /\ SpawnKept /\ UNCHANGED <<shut, stops>>

EndsNear == [][NearerOne]_vars

\* Every repo of the start belongs to a starter, and the spawner reserves one
\* only if there is one.
ReposLeft ==
  /\ \A a \in Starters : apc[a] # "idle"
  /\ spc = "boot" => \A r \in 0 .. repoNum - 1 : \E a \in Starters : arepo[a] = r
  /\ spc = "type" \/ (spc = "adding" /\ apc[Spawner] = "reserve") => repoNum < MaxRepos

\* The guards of the steps of AddNode; and of addAndRemoveNodes.
CallReady(a) ==
  \/ apc[a] = "reserve" /\ LockFree /\ repoNum < MaxRepos
  \/ apc[a] \in {"start", "identify", "mine"}
  \/ apc[a] = "snapshot" /\ LockFree
  \/ apc[a] = "connect" /\ todo[a] # {}
  \/ apc[a] = "connect" /\ todo[a] = {} /\ (a # Spawner \/ spc = "adding") /\ LockFree
  \/ apc[a] = "announce" /\ reader = "reading"

SpawnReady ==
  \/ CallReady(Spawner)
  \/ spc = "boot" /\ (\A a \in Starters : apc[a] \in {"done", "failed"}) /\ LockFree
  \/ spc = "pass" /\ apc[Spawner] = "idle"
  \/ spc = "pass" /\ apc[Spawner] = "connect" /\ todo[Spawner] = {}
  \/ spc = "sleep"
  \/ spc \in {"size", "type"} /\ LockFree
  \/ spc = "adding" /\ apc[Spawner] \in {"done", "failed"}

\* While ShutdownAll does not hold the lock and somebody reads the log, every
\* call of AddNode can go on until it is over, and so can the spawner, which
\* waits for nothing but the starters at the beginning.
NeverStuck ==
  LockFree /\ reader = "reading" =>
    /\ \A a \in Starters : apc[a] \in {"done", "failed"} \/ CallReady(a)
    /\ \/ SpawnReady \/ spc = "done"
       \/ spc = "boot" /\ \E a \in Starters : CallReady(a)


(* One step of AddNode is nearer to the end of the call, and of nothing else.  *)
LEMMA CallSteps ==
  ASSUME IInv, NEW a \in Adders, AddNode(a) \/ Announce(a)
  PROVE  /\ CallNearer(a)
         /\ \A b \in Adders \ {a} : CallKept(b)
         /\ UNCHANGED <<spc, left, shut, stops>>
<1> USE DEF IInv, TypeOK, Goto, spawnVars, stopVars, graphVars, adderVars, CallKept
<1>1. ASSUME \/ Reserve(a) \/ Start(a) \/ StartFails(a) \/ Identify(a) \/ IdentifyFails(a)
             \/ Snapshot(a) \/ Register(a) \/ Announce(a) \/ Mine(a)
      PROVE  CallStage(a)' < CallStage(a)
  BY <1>1 DEF Reserve, Start, StartFails, Identify, IdentifyFails, Snapshot, Register,
              Announce, Mine, CallStage
<1>2. ASSUME \/ Reserve(a) \/ Start(a) \/ StartFails(a) \/ Identify(a) \/ IdentifyFails(a)
             \/ Snapshot(a) \/ Register(a) \/ Announce(a) \/ Mine(a)
      PROVE  /\ \A b \in Adders \ {a} : CallKept(b)
             /\ UNCHANGED <<spc, left, shut, stops>>
  BY <1>2 DEF Reserve, Start, StartFails, Identify, IdentifyFails, Snapshot, Register,
              Announce, Mine
<1>3. ASSUME NEW r \in todo[a], Connect(a, r) \/ ConnectFails(a, r)
      PROVE  /\ apc'[a] = apc[a] /\ Shrinks(todo'[a], todo[a])
             /\ \A b \in Adders \ {a} : CallKept(b)
             /\ UNCHANGED <<spc, left, shut, stops>>
  BY <1>3 DEF Connect, ConnectFails, Shrinks
<1>4. QED
  BY <1>1, <1>2, <1>3 DEF AddNode, ConnectAny, CallNearer

(* One step of the spawner's own is nearer to its next sleep or to its end.    *)
LEMMA SpawnSteps ==
  ASSUME IInv, AddAndRemoveNodes
  PROVE  /\ SpawnNearer \/ NextRound
         /\ \A b \in Starters : CallKept(b)
         /\ UNCHANGED <<shut, stops>>
<1> USE SpawnerAdder
    DEF IInv, TypeOK, Goto, spawnVars, stopVars, graphVars, adderVars, CallKept, Starters
<1>1. ASSUME BeginPass \/ EndPass \/ CheckSize \/ BeginAdd \/ EndAdd
      PROVE  /\ SpawnStage' < SpawnStage
             /\ \A b \in Starters : CallKept(b)
             /\ UNCHANGED <<shut, stops>>
  BY <1>1 DEF BeginPass, EndPass, CheckSize, BeginAdd, EndAdd, SpawnStage
<1>2. ASSUME NEW r \in left, PassNode(r)
      PROVE  /\ spc' = spc /\ Shrinks(left', left)
             /\ \A b \in Starters : CallKept(b)
             /\ UNCHANGED <<shut, stops>>
  BY <1>2 DEF PassNode, Shrinks
<1>3. ASSUME PassNodeDone
      PROVE  /\ spc' = spc /\ left' = left /\ CallStage(Spawner)' < CallStage(Spawner)
             /\ \A b \in Starters : CallKept(b)
             /\ UNCHANGED <<shut, stops>>
  BY <1>3 DEF PassNodeDone, CallStage
<1>4. ASSUME Wake
      PROVE  /\ SpawnStage' < SpawnStage \/ NextRound
             /\ \A b \in Starters : CallKept(b)
             /\ UNCHANGED <<shut, stops>>
  BY <1>4 DEF Wake, SpawnStage, NextRound
<1>5. QED
  BY <1>1, <1>2, <1>3, <1>4 DEF AddAndRemoveNodes, SpawnNearer, CallNearer

(* One step of ShutdownAll is nearer to its end.                               *)
LEMMA ShutSteps ==
  ASSUME IInv, ShutdownAll
  PROVE  /\ ShutNearer /\ SpawnKept
         /\ \A b \in Starters : CallKept(b)
<1> USE SpawnerAdder
    DEF IInv, TypeOK, spawnVars, stopVars, graphVars, adderVars, CallKept, SpawnKept
<1>1. CASE BeginShutdown \/ EndShutdown
  BY <1>1 DEF BeginShutdown, EndShutdown, ShutNearer, ShutStage
<1>2. ASSUME NEW r \in stops, Stop(r)
      PROVE  ShutNearer /\ SpawnKept /\ \A b \in Starters : CallKept(b)
  BY <1>2 DEF Stop, ShutDown, ShutNearer, Shrinks
<1>3. QED
  BY <1>1, <1>2 DEF ShutdownAll

(* The calls of AddNode, the spawner between two of its sleeps and ShutdownAll *)
(* come to an end after finitely many steps of theirs: the stages fall, and    *)
(* within a stage finite sets shrink.  A done context leaves no next round.    *)
THEOREM EndsNearAlways == Spec => EndsNear
<1>1. ASSUME IInv, [Next]_vars PROVE [NearerOne]_vars
  <2>1. ASSUME NEW a \in Adders, AddNode(a) \/ Announce(a) PROVE NearerOne
    <3>1. CASE a = Spawner
      BY <1>1, <2>1, <3>1, CallSteps DEF NearerOne, SpawnNearer, Starters
    <3>2. CASE a # Spawner
      <4>1. a \in Starters /\ Starters \subseteq Adders /\ Spawner \in Adders \ {a}
        BY <3>2, SpawnerAdder DEF Starters
      <4>2. QED
        BY <1>1, <2>1, <4>1, CallSteps DEF NearerOne, SpawnKept
    <3>3. QED
      BY <3>1, <3>2
  <2>2. CASE AddAndRemoveNodes
    BY <1>1, <2>2, SpawnSteps DEF NearerOne
  <2>3. CASE ShutdownAll
    BY <1>1, <2>3, ShutSteps DEF NearerOne
  <2>4. CASE Cancel \/ View \/ Stall \/ Resume \/ PumpEnds
    BY <2>4, SpawnerAdder
    DEF Cancel, View, Stall, Resume, PumpEnds, Read, NearerOne, SpawnKept, CallKept, adderVars, spawnVars
  <2>5. QED
    BY <1>1, <2>1, <2>2, <2>3, <2>4 DEF Next
<1>2. QED
  BY <1>1, Invariance, PTL DEF Spec, EndsNear

(* A starter that is about to reserve a repo finds one.                        *)
LEMMA RepoForAll ==
  ASSUME IInv, ReposLeft, NEW a \in Adders, apc[a] = "reserve"
  PROVE  repoNum < MaxRepos
<1>1. CASE a = Spawner
  BY <1>1, WhoAdds DEF ReposLeft, Starters
<1>2. CASE a # Spawner
  <2>1. a \in Starters /\ spc = "boot" /\ repoNum \in Nat
    BY <1>2, WhoAdds DEF Starters, IInv, TypeOK
  <2>2. \A r \in 0 .. repoNum - 1 : \E b \in Starters \ {a} : arepo[b] = r
    BY <2>1 DEF ReposLeft, IInv, Started, NoRepo
  <2>3. IsFiniteSet(Starters) /\ Cardinality(Starters) = StartNodes
    <3>1. Starters = 0 .. StartNodes - 1
      BY ArgsAssumption DEF Starters, Adders, Spawner
    <3>2. QED
      BY <3>1, FS_Interval, ArgsAssumption
  <2>4. IsFiniteSet(Starters \ {a}) /\ Cardinality(Starters \ {a}) = StartNodes - 1
    BY <2>1, <2>3, FS_RemoveElement
  <2>5. 0 .. repoNum - 1 \subseteq {arepo[b] : b \in Starters \ {a}}
    BY <2>2
  <2>6. Cardinality(0 .. repoNum - 1) <= StartNodes - 1
    BY <2>4, <2>5, SubImageBound
  <2>7. Cardinality(0 .. repoNum - 1) = repoNum
    BY <2>1, FS_Interval
  <2>8. QED
    BY <2>1, <2>6, <2>7, ArgsAssumption
<1>3. QED
  BY <1>1, <1>2

(* The steps keep it: the starters fill the repos one by one.                  *)
LEMMA NextReposLeft == IInv /\ ReposLeft /\ [Next]_vars => ReposLeft'
<1> SUFFICES ASSUME IInv, ReposLeft, [Next]_vars PROVE ReposLeft'
  OBVIOUS
<1> USE ArgsAssumption, SpawnerAdder
    DEF IInv, TypeOK, ReposLeft, Goto, graphVars, adderVars, spawnVars, stopVars, Starters
<1>1. ASSUME NEW a \in Adders, Reserve(a) PROVE ReposLeft'
  <2>1. CASE a = Spawner
    BY <1>1, <2>1, WhoAdds DEF Reserve
  <2>2. CASE a # Spawner
    <3>1. spc = "boot" /\ a \in Starters /\ arepo[a] = NoRepo
      BY <1>1, <2>2, WhoAdds DEF Reserve, Started
    <3>2. ASSUME NEW r \in 0 .. repoNum' - 1 PROVE \E b \in Starters : arepo'[b] = r
      <4>1. CASE r = repoNum
        BY <1>1, <3>1, <4>1 DEF Reserve
      <4>2. CASE r # repoNum
        <5>1. r \in 0 .. repoNum - 1
          BY <1>1, <3>2, <4>2 DEF Reserve
        <5>2. PICK b \in Starters : arepo[b] = r
          BY <3>1, <5>1
        <5>3. b # a
          BY <3>1, <5>1, <5>2 DEF NoRepo
        <5>4. QED
          BY <1>1, <5>2, <5>3 DEF Reserve
      <4>3. QED BY <4>1, <4>2
    <3>3. (\A b \in Starters : apc'[b] # "idle") /\ spc' = "boot"
      BY <1>1, <3>1 DEF Reserve
    <3>4. QED
      BY <3>2, <3>3
  <2>3. QED BY <2>1, <2>2
<1>2. ASSUME NEW a \in Adders,
             \/ Start(a) \/ StartFails(a) \/ Identify(a) \/ IdentifyFails(a)
             \/ Snapshot(a) \/ Register(a) \/ Announce(a) \/ Mine(a)
      PROVE  ReposLeft'
  BY <1>2 DEF Start, StartFails, Identify, IdentifyFails, Snapshot, Register, Announce, Mine
<1>3. ASSUME NEW a \in Adders, NEW r \in todo[a], Connect(a, r) \/ ConnectFails(a, r)
      PROVE  ReposLeft'
  BY <1>3 DEF Connect, ConnectFails
<1>4. CASE BeginPass \/ PassNodeDone \/ EndPass \/ Wake \/ EndAdd
  BY <1>4 DEF BeginPass, PassNodeDone, EndPass, Wake, EndAdd
<1>5. ASSUME NEW r \in left, PassNode(r) PROVE ReposLeft'
  BY <1>5 DEF PassNode
<1>6. CASE CheckSize
  BY <1>6 DEF CheckSize
<1>7. CASE BeginAdd
  BY <1>7 DEF BeginAdd
<1>8. CASE ShutdownAll \/ Cancel \/ View \/ Stall \/ Resume \/ PumpEnds
  BY <1>8 DEF ShutdownAll, BeginShutdown, EndShutdown, Stop, Cancel,
              View, Stall, Resume, PumpEnds, Read
<1>9. CASE UNCHANGED vars
  BY <1>9 DEF vars
<1>10. QED
  BY <1>1, <1>2, <1>3, <1>4, <1>5, <1>6, <1>7, <1>8, <1>9
  DEF Next, AddNode, ConnectAny, AddAndRemoveNodes

(* No goroutine of the network waits for one that waits for it: the only waits *)
(* are those for ShutdownAll, which the lock is held by, for a reader of the   *)
(* log, and of the spawner for the starters.  With EndsNear, the start and the *)
(* stop come to their ends after finitely many steps.                          *)
THEOREM NeverStuckAlways == Spec => []NeverStuck
<1>1. Init => ReposLeft
  BY ArgsAssumption DEF Init, ReposLeft, Starters, Spawner, Adders
<1>2. Spec => []ReposLeft
  BY <1>1, NextReposLeft, Invariance, PTL DEF Spec
<1>3. ASSUME IInv, ReposLeft PROVE NeverStuck
  <2> SUFFICES ASSUME LockFree, reader = "reading"
               PROVE  /\ \A a \in Starters : apc[a] \in {"done", "failed"} \/ CallReady(a)
                      /\ \/ SpawnReady \/ spc = "done"
                         \/ spc = "boot" /\ \E a \in Starters : CallReady(a)
    BY DEF NeverStuck
  <2>1. TypeOK /\ SpawnerPlaces
    BY <1>3 DEF IInv
  <2>2. ASSUME NEW a \in Adders, apc[a] \notin {"idle", "done", "failed"},
               a # Spawner \/ spc = "adding"
        PROVE  CallReady(a)
    <3>1. apc[a] \in Before \cup {"announce", "mine"}
      BY <2>1, <2>2 DEF TypeOK, AddPlaces, Before
    <3>2. apc[a] = "reserve" => repoNum < MaxRepos
      BY <1>3, RepoForAll
    <3>3. QED
      BY <2>2, <3>1, <3>2 DEF CallReady, Before
  <2>3. \A a \in Starters : apc[a] \in {"done", "failed"} \/ CallReady(a)
    BY <1>3, <2>2 DEF Starters, ReposLeft
  <2>4. \/ SpawnReady \/ spc = "done"
        \/ spc = "boot" /\ \E a \in Starters : CallReady(a)
    <3>1. CASE spc = "boot"
      BY <2>3, <3>1 DEF SpawnReady
    <3>2. CASE spc = "pass"
      BY <2>1, <3>2 DEF SpawnReady, CallReady, SpawnerPlaces
    <3>3. CASE spc = "adding"
      BY <2>1, <2>2, <3>3, SpawnerAdder DEF SpawnReady, SpawnerPlaces
    <3>4. CASE spc \in {"sleep", "size", "type", "done"}
      BY <3>4 DEF SpawnReady
    <3>5. QED
      BY <2>1, <3>1, <3>2, <3>3, <3>4 DEF TypeOK
  <2>5. QED BY <2>3, <2>4
<1>4. QED
  BY <1>2, <1>3, Invariance, PTL
=============================================================================
