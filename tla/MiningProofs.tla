----------------------------- MODULE MiningProofs -----------------------------
(* The proofs about Mining: its safety properties, for every set of miners, all  *)
(* numbers of miners drawn in an epoch, and any number of epochs.                *)
EXTENDS Mining, SequenceTheorems, FiniteSetTheorems, TLAPS

(* The loop variable is the miner of the last iteration begun. *)
LoopVariable == i > 0 => n = nds[i]

(* A goroutine has been started by an iteration that is over, and has a miner    *)
(* once it has read the loop variable.                                           *)
Started ==
  \A k \in Iterations :
    /\ k > i => gpc[k] = "none"
    /\ gpc[k] \in {"none", "run"} => node[k] = Nil

(* Outside of the two places where goroutines of the epoch are about, none is.   *)
AllBack ==
  pc \notin {"range", "wait"} => \A k \in Iterations : gpc[k] \in {"none", "done"}

IInv ==
  /\ TypeOK
  /\ Len(nds) <= ForkBranching
  /\ pc = "draw" => epoch < MaxEpochs
  /\ LoopVariable
  /\ Started
  /\ AllBack
  /\ NoEarlierMiner

(* What is drawn is a sequence of miners, no longer than the code asks for. *)
LEMMA DrawnMiners ==
  ASSUME TypeOK, NEW len \in 0 .. ForkBranching, NEW s \in [1 .. len -> joined]
  PROVE  s \in Seq(Miners) /\ Len(s) \in Nat /\ Len(s) <= ForkBranching
<1>1. s \in [1 .. len -> Miners] /\ len \in Nat
  BY MiningAssumption DEF TypeOK
<1>2. s \in Seq(Miners) /\ Len(s) = len
  BY <1>1, SeqDef
<1>3. QED
  BY <1>1, <1>2

LEMMA InitIInv == Init => IInv
<1> SUFFICES ASSUME Init PROVE IInv
  OBVIOUS
<1> USE MiningAssumption DEF Init
<1>1. nds \in Seq(Miners) /\ Len(nds) = 0
  BY EmptySeq
<1>2. TypeOK
  <2>1. epoch \in 0 .. MaxEpochs /\ i \in 0 .. Len(nds)
    BY <1>1
  <2>2. ctxDone \in BOOLEAN /\ joined \subseteq Miners
    OBVIOUS
  <2>3. QED
    BY <1>1, <2>1, <2>2 DEF TypeOK
<1>3. Started /\ AllBack /\ NoEarlierMiner /\ LoopVariable
  BY DEF Started, AllBack, NoEarlierMiner, LoopVariable
<1>4. QED
  BY <1>1, <1>2, <1>3 DEF IInv

LEMMA NextIInv == IInv /\ [Next]_vars => IInv'
<1> SUFFICES ASSUME IInv, [Next]_vars PROVE IInv'
  OBVIOUS
<1> USE MiningAssumption DEF IInv
<1>0. Len(nds) \in Nat /\ i \in Nat
  BY LenProperties DEF TypeOK
<1>1. ASSUME NEW m \in Miners, Join(m) PROVE IInv'
  <2>1. TypeOK'
    BY <1>1 DEF Join, TypeOK
  <2>2. QED
    BY <1>1, <2>1 DEF Join, Started, AllBack, NoEarlierMiner, LoopVariable
<1>2. CASE Cancel
  <2>1. TypeOK'
    BY <1>2 DEF Cancel, TypeOK
  <2>2. QED
    BY <1>2, <2>1 DEF Cancel, Started, AllBack, NoEarlierMiner, LoopVariable
<1>3. CASE Wake
  <2>1. pc' \in {"draw", "done"} /\ (pc' = "draw" => epoch < MaxEpochs)
    BY <1>3 DEF Wake
  <2>2. TypeOK'
    BY <1>3, <2>1 DEF Wake, TypeOK
  <2>3. QED
    BY <1>3, <2>1, <2>2 DEF Wake, Started, AllBack, NoEarlierMiner, LoopVariable
<1>4. CASE Draw
  <2>1. nds' \in Seq(Miners) /\ Len(nds') \in Nat /\ Len(nds') <= ForkBranching
    BY <1>4, DrawnMiners DEF Draw
  <2>2. epoch' \in 0 .. MaxEpochs
    BY <1>4 DEF Draw, TypeOK
  <2>3. TypeOK'
    BY <1>4, <2>1, <2>2 DEF Draw, TypeOK
  <2>4. QED
    BY <1>4, <2>1, <2>3 DEF Draw, Started, AllBack, NoEarlierMiner, LoopVariable
<1>5. ASSUME NEW mine \in BOOLEAN, Iterate(mine) PROVE IInv'
  <2>1. i' \in 1 .. Len(nds) /\ n' = nds[i'] /\ n' \in Miners
    BY <1>0, <1>5, ElementOfSeq DEF Iterate, TypeOK
  <2>2. TypeOK'
    <3>1. gpc' \in [Iterations -> {"none", "run", "mining", "done"}]
      <4>1. CASE mine
        BY <1>5, <4>1 DEF Iterate, TypeOK
      <4>2. CASE ~mine
        BY <1>5, <4>2 DEF Iterate, TypeOK
      <4>3. QED
        BY <4>1, <4>2
    <3>2. QED
      BY <1>0, <1>5, <2>1, <3>1 DEF Iterate, TypeOK
  <2>3. gpc[i'] = "none" /\ i' \in Iterations
    BY <1>0, <1>5, <2>1 DEF Iterate, Started, Iterations
  <2>4. Started'
    BY <1>0, <1>5, <2>1, <2>3 DEF Iterate, Started, TypeOK, Iterations
  <2>5. QED
    BY <1>5, <2>1, <2>2, <2>4 DEF Iterate, AllBack, NoEarlierMiner, LoopVariable
<1>6. CASE EndRange
  <2>1. TypeOK'
    BY <1>6 DEF EndRange, TypeOK
  <2>2. QED
    BY <1>6, <2>1 DEF EndRange, Started, AllBack, NoEarlierMiner, LoopVariable
<1>7. CASE WaitAll
  <2>1. TypeOK'
    BY <1>7 DEF WaitAll, TypeOK
  <2>2. QED
    BY <1>7, <2>1 DEF WaitAll, Started, AllBack, NoEarlierMiner, LoopVariable
<1>8. ASSUME NEW k \in Iterations, MiningOnce(k) PROVE IInv'
  <2>1. TypeOK'
    BY <1>8 DEF MiningOnce, TypeOK
  <2>2. k <= i /\ i > 0 /\ n = nds[i] /\ i \in k .. Len(nds)
    BY <1>0, <1>8 DEF MiningOnce, Started, LoopVariable, TypeOK, Iterations
  <2>3. Started' /\ AllBack'
    BY <1>8, <2>2 DEF MiningOnce, Started, AllBack, TypeOK, Iterations
  <2>4. NoEarlierMiner'
    <3>1. \A l \in Iterations : node'[l] = IF l = k THEN nds[i] ELSE node[l]
      BY <1>8, <2>2 DEF MiningOnce, TypeOK
    <3>2. QED
      BY <1>8, <2>2, <3>1 DEF MiningOnce, NoEarlierMiner
  <2>5. QED
    BY <1>8, <2>1, <2>3, <2>4 DEF MiningOnce, LoopVariable
<1>9. ASSUME NEW k \in Iterations, MiningReturns(k) PROVE IInv'
  <2>1. TypeOK'
    BY <1>9 DEF MiningReturns, TypeOK
  <2>2. Started' /\ AllBack'
    BY <1>9 DEF MiningReturns, Started, AllBack, TypeOK
  <2>3. QED
    BY <1>9, <2>1, <2>2 DEF MiningReturns, NoEarlierMiner, LoopVariable
<1>10. CASE UNCHANGED vars
  BY <1>10 DEF vars, TypeOK, Started, AllBack, NoEarlierMiner, LoopVariable
<1>11. QED
  BY <1>1, <1>2, <1>3, <1>4, <1>5, <1>6, <1>7, <1>8, <1>9, <1>10
  DEF Next, Loop, Goroutine

(* The loop and its goroutines keep to the parts of IInv. *)
THEOREM Invariance == Spec => []IInv
BY InitIInv, NextIInv, PTL DEF Spec

(* Type correctness. *)
THEOREM TypeCorrect == Spec => []TypeOK
<1>1. IInv => TypeOK
  BY DEF IInv
<1>2. QED
  BY <1>1, Invariance, PTL

(* However long a MiningOnce takes, no goroutine of an epoch is about when the   *)
(* next epoch begins.                                                            *)
THEOREM EpochsApartAlways == Spec => []EpochsApart
<1>1. IInv => EpochsApart
  BY DEF IInv, AllBack, EpochsApart
<1>2. QED
  BY <1>1, Invariance, PTL

(* The goroutines read a loop variable that the loop goes on to change; what     *)
(* they find is never a miner drawn before their own.                            *)
THEOREM NoEarlierMinerAlways == Spec => []NoEarlierMiner
<1>1. IInv => NoEarlierMiner
  BY DEF IInv
<1>2. QED
  BY <1>1, Invariance, PTL

-----------------------------------------------------------------------------
(* What MiningStops rests on: every step of an epoch brings it nearer to its     *)
(* end, and until the loop is done something can step.                           *)

Mines(places) == {k \in Iterations : gpc[k] \in places}

(* The steps that the goroutines still have to do. *)
Owed == Cardinality(Mines({"run"})) + Cardinality(Mines({"run", "mining"}))

(* At most this many steps are left of the epoch: an iteration may start a       *)
(* goroutine, which has two.                                                     *)
ToGo ==
  Owed + CASE pc = "draw" -> 3 * ForkBranching + 4
           [] pc = "range" -> 3 * (Len(nds) - i) + 3
           [] pc = "wait" -> 2
           [] pc = "sleep" -> 1
           [] pc = "done" -> 0

LEMMA MinesSize ==
  ASSUME NEW places
  PROVE  IsFiniteSet(Mines(places)) /\ Cardinality(Mines(places)) \in Nat
<1>1. IsFiniteSet(Iterations)
  BY FS_Interval, MiningAssumption DEF Iterations
<1>2. QED
  BY <1>1, FS_Subset, FS_CardinalityType DEF Mines

LEMMA OwedSize == Owed \in Nat
BY MinesSize DEF Owed

(* A goroutine that takes its next step joins one of the sets or leaves it. *)
LEMMA MinesMoves ==
  ASSUME TypeOK, NEW k \in Iterations, NEW to \in {"none", "run", "mining", "done"},
         gpc' = [gpc EXCEPT ![k] = to], NEW places
  PROVE  Cardinality(Mines(places)') =
           IF to \in places
             THEN IF gpc[k] \in places THEN Cardinality(Mines(places)) ELSE Cardinality(Mines(places)) + 1
             ELSE IF gpc[k] \in places THEN Cardinality(Mines(places)) - 1 ELSE Cardinality(Mines(places))
<1>1. gpc'[k] = to /\ \A l \in Iterations \ {k} : gpc'[l] = gpc[l]
  BY DEF TypeOK
<1>2. (gpc[k] \in places) <=> (k \in Mines(places))
  BY DEF Mines
<1>3. CASE to \in places
  <2>1. Mines(places)' = Mines(places) \cup {k}
    BY <1>1, <1>3 DEF Mines
  <2>2. QED
    BY <1>2, <1>3, <2>1, MinesSize, FS_AddElement
<1>4. CASE to \notin places
  <2>1. Mines(places)' = Mines(places) \ {k}
    BY <1>1, <1>4 DEF Mines
  <2>2. QED
    BY <1>2, <1>4, <2>1, MinesSize, FS_RemoveElement
<1>5. QED
  BY <1>3, <1>4

(* So a goroutine that is started owes two steps, and each step pays one. *)
LEMMA OwedMoves ==
  ASSUME TypeOK, NEW k \in Iterations
  PROVE  /\ gpc[k] = "none" /\ gpc' = [gpc EXCEPT ![k] = "run"] => Owed' = Owed + 2
         /\ gpc[k] = "run" /\ gpc' = [gpc EXCEPT ![k] = "mining"] => Owed' = Owed - 1
         /\ gpc[k] = "mining" /\ gpc' = [gpc EXCEPT ![k] = "done"] => Owed' = Owed - 1
<1> DEFINE a == Cardinality(Mines({"run"}))
           b == Cardinality(Mines({"run", "mining"}))
<1>1. a \in Nat /\ b \in Nat
  BY MinesSize
<1>2. gpc[k] = "none" /\ gpc' = [gpc EXCEPT ![k] = "run"] => a' = a + 1 /\ b' = b + 1
  BY MinesMoves
<1>3. gpc[k] = "run" /\ gpc' = [gpc EXCEPT ![k] = "mining"] => a' = a - 1 /\ b' = b
  BY MinesMoves
<1>4. gpc[k] = "mining" /\ gpc' = [gpc EXCEPT ![k] = "done"] => a' = a /\ b' = b - 1
  BY MinesMoves
<1>5. Owed = a + b /\ Owed' = a' + b'
  BY DEF Owed
<1> HIDE DEF a, b
<1>6. QED
  BY <1>1, <1>2, <1>3, <1>4, <1>5

(* mineBlocks: a step of the loop or of a goroutine, unless it begins an epoch   *)
(* before the context is done, leaves less to do.  Joins and the cancellation    *)
(* leave what there is.                                                          *)
EpochsEnd ==
  [][\/ ToGo' < ToGo
     \/ ToGo' = ToGo /\ UNCHANGED <<pc, nds, i, gpc, node>>
     \/ pc = "sleep" /\ ~ctxDone /\ pc' = "draw"]_vars

(* randomizer.go:169-193: every epoch of mineBlocks has an end. *)
THEOREM EpochsEndAlways == Spec => [](ToGo \in Nat) /\ EpochsEnd
<1> DEFINE Good == \/ ToGo' < ToGo
                   \/ ToGo' = ToGo /\ UNCHANGED <<pc, nds, i, gpc, node>>
                   \/ pc = "sleep" /\ ~ctxDone /\ pc' = "draw"
<1>1. ASSUME IInv PROVE ToGo \in Nat
  <2>1. Len(nds) \in Nat /\ i \in 0 .. Len(nds)
    BY <1>1, LenProperties DEF IInv, TypeOK
  <2>2. 3 * (Len(nds) - i) + 3 \in Nat /\ 3 * ForkBranching + 4 \in Nat
    BY <2>1, MiningAssumption
  <2>3. QED
    BY <1>1, <2>2, OwedSize DEF ToGo, IInv, TypeOK
<1>2. ASSUME IInv, Next PROVE Good
  <2>0. /\ TypeOK /\ Owed \in Nat /\ Len(nds) \in Nat /\ i \in 0 .. Len(nds)
        /\ Len(nds) <= ForkBranching /\ ForkBranching \in Nat
    BY <1>2, OwedSize, LenProperties, MiningAssumption DEF IInv, TypeOK
  <2>1. ASSUME NEW m \in Miners, Join(m) PROVE Good
    <3>1. UNCHANGED <<pc, nds, i, gpc, node>>
      BY <2>1 DEF Join
    <3>2. QED
      BY <3>1 DEF ToGo, Owed, Mines
  <2>2. CASE Cancel
    <3>1. UNCHANGED <<pc, nds, i, gpc, node>>
      BY <2>2 DEF Cancel
    <3>2. QED
      BY <3>1 DEF ToGo, Owed, Mines
  <2>3. CASE Wake
    <3>1. pc = "sleep" /\ gpc' = gpc /\ (pc' = "done" \/ (~ctxDone /\ pc' = "draw"))
      BY <2>3 DEF Wake
    <3>2. Owed' = Owed
      BY <3>1 DEF Owed, Mines
    <3>3. CASE pc' = "done"
      BY <2>0, <3>1, <3>2, <3>3 DEF ToGo
    <3>4. QED
      BY <3>1, <3>3
  <2>4. CASE Draw
    <3>1. /\ pc = "draw" /\ pc' = "range" /\ i' = 0
          /\ Len(nds') \in Nat /\ Len(nds') <= ForkBranching
      BY <2>0, <2>4, DrawnMiners DEF Draw
    <3>2. \A k \in Iterations : gpc'[k] = "none"
      BY <2>4 DEF Draw
    <3>3. Mines({"run"})' = {} /\ Mines({"run", "mining"})' = {}
      BY <3>2 DEF Mines
    <3>4. Owed' = 0
      BY <3>3, FS_EmptySet DEF Owed
    <3>5. ToGo = Owed + (3 * ForkBranching + 4)
      BY <3>1 DEF ToGo
    <3>6. ToGo' = 0 + (3 * (Len(nds') - 0) + 3)
      BY <3>1, <3>4 DEF ToGo
    <3>7. QED
      BY <2>0, <3>1, <3>5, <3>6
  <2>5. ASSUME NEW mine \in BOOLEAN, Iterate(mine) PROVE Good
    <3>1. pc = "range" /\ pc' = "range" /\ i < Len(nds) /\ i' = i + 1 /\ nds' = nds
      BY <2>5 DEF Iterate
    <3>2. Owed' <= Owed + 2 /\ Owed' \in Nat
      <4>1. CASE mine
        <5>1. i + 1 \in Iterations /\ gpc[i + 1] = "none"
          BY <1>2, <2>0, <3>1 DEF IInv, Started, Iterations
        <5>2. gpc' = [gpc EXCEPT ![i + 1] = "run"]
          BY <2>5, <4>1 DEF Iterate
        <5>3. Owed' = Owed + 2
          BY <2>0, <5>1, <5>2, OwedMoves
        <5>4. QED
          BY <2>0, <5>3
      <4>2. CASE ~mine
        <5>1. gpc' = gpc
          BY <2>5, <4>2 DEF Iterate
        <5>2. Owed' = Owed
          BY <5>1 DEF Owed, Mines
        <5>3. QED
          BY <2>0, <5>2
      <4>3. QED
        BY <4>1, <4>2
    <3>3. ToGo = Owed + (3 * (Len(nds) - i) + 3)
      BY <3>1 DEF ToGo
    <3>4. ToGo' = Owed' + (3 * (Len(nds) - (i + 1)) + 3)
      BY <3>1 DEF ToGo
    <3>5. QED
      BY <2>0, <3>1, <3>2, <3>3, <3>4
  <2>6. CASE EndRange
    <3>1. pc = "range" /\ i = Len(nds) /\ pc' = "wait" /\ gpc' = gpc
      BY <2>6 DEF EndRange
    <3>2. Owed' = Owed
      BY <3>1 DEF Owed, Mines
    <3>3. ToGo = Owed + (3 * (Len(nds) - i) + 3) /\ ToGo' = Owed + 2
      BY <3>1, <3>2 DEF ToGo
    <3>4. QED
      BY <2>0, <3>1, <3>3
  <2>7. CASE WaitAll
    <3>1. pc = "wait" /\ pc' = "sleep" /\ gpc' = gpc
      BY <2>7 DEF WaitAll
    <3>2. Owed' = Owed
      BY <3>1 DEF Owed, Mines
    <3>3. ToGo = Owed + 2 /\ ToGo' = Owed + 1
      BY <3>1, <3>2 DEF ToGo
    <3>4. QED
      BY <2>0, <3>3
  <2>8. ASSUME NEW k \in Iterations, Goroutine(k) PROVE Good
    <3>1. \/ gpc[k] = "run" /\ gpc' = [gpc EXCEPT ![k] = "mining"]
          \/ gpc[k] = "mining" /\ gpc' = [gpc EXCEPT ![k] = "done"]
      BY <2>8 DEF Goroutine, MiningOnce, MiningReturns
    <3>2. Owed' = Owed - 1
      BY <2>0, <3>1, OwedMoves
    <3>3. pc' = pc /\ nds' = nds /\ i' = i /\ pc \in {"draw", "range", "wait", "sleep", "done"}
      BY <2>0, <2>8 DEF Goroutine, MiningOnce, MiningReturns, TypeOK
    <3>4. ToGo \in Nat
      BY <1>1, <1>2
    <3>5. ToGo' = ToGo - 1
      BY <2>0, <3>2, <3>3, MiningAssumption DEF ToGo
    <3>6. QED
      BY <3>4, <3>5
  <2>9. QED
    BY <1>2, <2>1, <2>2, <2>3, <2>4, <2>5, <2>6, <2>7, <2>8 DEF Next, Loop
<1>3. ASSUME IInv, [Next]_vars PROVE Good \/ UNCHANGED vars
  BY <1>2, <1>3
<1>4. QED
  BY <1>1, <1>3, Invariance, PTL DEF Spec, EpochsEnd

(* GetRandomNodes finds its nodes, whoever has joined: ForkBranching of them, or *)
(* all.                                                                          *)
DrawPossible == \E len \in 0 .. ForkBranching : \E s \in [1 .. len -> joined] : GetRandomNodes(s)

LEMMA DrawnCount ==
  ASSUME NEW len \in Nat, NEW s \in Injection(1 .. len, joined)
  PROVE  /\ s \in [1 .. len -> joined] /\ Len(s) = len
         /\ Drawn(s) \subseteq joined /\ Cardinality(Drawn(s)) = len
<1>1. s \in [1 .. len -> joined] /\ IsInjective(s)
  BY DEF Injection
<1>2. Len(s) = len
  BY <1>1
<1>3. Drawn(s) \subseteq joined
  BY <1>1, <1>2 DEF Drawn
<1>4. s \in Surjection(1 .. len, Drawn(s)) /\ s \in Injection(1 .. len, Drawn(s))
  BY <1>1, <1>2 DEF Drawn, Surjection, Injection
<1>5. IsFiniteSet(1 .. len) /\ Cardinality(1 .. len) = len
  BY FS_Interval
<1>6. Cardinality(Drawn(s)) = len
  BY <1>4, <1>5, FS_Surjection
<1>7. QED
  BY <1>1, <1>2, <1>3, <1>6

LEMMA CanDraw == ASSUME IsFiniteSet(joined) PROVE DrawPossible
<1> DEFINE size == Cardinality(joined)
<1>1. size \in Nat /\ ExistsBijection(1 .. size, joined)
  BY FS_CardinalityType
<1>2. PICK all \in Bijection(1 .. size, joined) : TRUE
  BY <1>1 DEF ExistsBijection
<1>3. all \in Injection(1 .. size, joined) /\ all \in Surjection(1 .. size, joined)
  BY <1>2 DEF Bijection
<1> HIDE DEF size
<1>4. CASE size <= ForkBranching
  <2>1. /\ all \in [1 .. size -> joined] /\ Len(all) = size
        /\ Drawn(all) \subseteq joined /\ Cardinality(Drawn(all)) = size
    BY <1>1, <1>3, DrawnCount
  <2>2. joined \subseteq Drawn(all)
    BY <1>3, <2>1 DEF Surjection, Drawn
  <2>3. GetRandomNodes(all)
    BY <2>1, <2>2 DEF GetRandomNodes
  <2>4. size \in 0 .. ForkBranching
    BY <1>1, <1>4, MiningAssumption
  <2>5. QED
    BY <2>1, <2>3, <2>4 DEF DrawPossible
<1>5. CASE size > ForkBranching
  <2> DEFINE s == [k \in 1 .. ForkBranching |-> all[k]]
  <2>1. s \in Injection(1 .. ForkBranching, joined)
    <3>1. all \in [1 .. size -> joined] /\ IsInjective(all)
      BY <1>3 DEF Injection
    <3>2. \A k \in 1 .. ForkBranching : k \in 1 .. size
      BY <1>1, <1>5, MiningAssumption
    <3>3. s \in [1 .. ForkBranching -> joined]
      BY <3>1, <3>2
    <3>4. IsInjective(s)
      BY <3>1, <3>2 DEF IsInjective
    <3>5. QED
      BY <3>3, <3>4 DEF Injection
  <2> HIDE DEF s
  <2>2. /\ s \in [1 .. ForkBranching -> joined] /\ Len(s) = ForkBranching
        /\ Drawn(s) \subseteq joined /\ Cardinality(Drawn(s)) = ForkBranching
    BY <2>1, DrawnCount, MiningAssumption
  <2>3. GetRandomNodes(s)
    BY <2>2 DEF GetRandomNodes
  <2>4. ForkBranching \in 0 .. ForkBranching
    BY MiningAssumption
  <2>5. QED
    BY <2>2, <2>3, <2>4 DEF DrawPossible
<1>6. QED
  BY <1>1, <1>4, <1>5, MiningAssumption

(* Finitely many nodes have joined at any time, of however many there are.      *)
FewJoined == IsFiniteSet(joined)

LEMMA FinitelyJoined == Spec => []FewJoined
<1>1. Init => FewJoined
  BY FS_EmptySet DEF Init, FewJoined
<1>2. ASSUME FewJoined, [Next]_vars PROVE FewJoined'
  <2>0. IsFiniteSet(joined)
    BY <1>2 DEF FewJoined
  <2>1. ASSUME NEW m \in Miners, Join(m) PROVE FewJoined'
    BY <2>0, <2>1, FS_AddElement DEF Join, FewJoined
  <2>2. CASE joined' = joined
    BY <2>0, <2>2 DEF FewJoined
  <2>3. QED
    BY <1>2, <2>1, <2>2
    DEF Next, Cancel, Loop, Wake, Draw, EndRange, WaitAll, Iterate, Goroutine, MiningOnce,
        MiningReturns, vars
<1>3. QED
  BY <1>1, <1>2, PTL DEF Spec

(* The guards of the steps: the loop goes on, or one of its goroutines does.     *)
Proceeds ==
  \/ pc = "sleep" /\ (ctxDone \/ epoch < MaxEpochs)
  \/ pc = "draw" /\ DrawPossible
  \/ pc = "range"
  \/ pc = "wait" /\ \A k \in Iterations : gpc[k] \in {"none", "done"}
  \/ \E k \in Iterations : gpc[k] \in {"run", "mining"}

(* mineBlocks never waits for what does not come: until it is done, or sleeps    *)
(* after the last epoch there is, the loop or a goroutine of it can step.  With  *)
(* EpochsEnd, a done context ends it after at most 3 * ForkBranching + 4 steps,  *)
(* and those of the goroutines about.                                            *)
NeverStuck ==
  \/ Proceeds
  \/ pc = "done" /\ ToGo = 0
  \/ pc = "sleep" /\ ~ctxDone /\ epoch = MaxEpochs

(* randomizer.go:169-193: nor is one ever stuck, for any number of miners. *)
THEOREM NeverStuckAlways == Spec => []NeverStuck
<1>1. ASSUME IInv, FewJoined PROVE NeverStuck
  <2>1. TypeOK /\ AllBack
    BY <1>1 DEF IInv
  <2>2. CASE pc = "sleep"
    <3>1. epoch < MaxEpochs \/ epoch = MaxEpochs
      BY <2>1, MiningAssumption DEF TypeOK
    <3>2. QED
      BY <2>1, <2>2, <3>1 DEF NeverStuck, Proceeds, TypeOK
  <2>3. CASE pc = "draw"
    BY <1>1, <2>3, CanDraw DEF FewJoined, NeverStuck, Proceeds
  <2>4. CASE pc = "range"
    BY <2>4 DEF NeverStuck, Proceeds
  <2>5. CASE pc = "wait"
    BY <2>1, <2>5 DEF NeverStuck, Proceeds, TypeOK
  <2>6. CASE pc = "done"
    <3>1. \A k \in Iterations : gpc[k] \in {"none", "done"}
      BY <2>1, <2>6 DEF AllBack
    <3>2. Mines({"run"}) = {} /\ Mines({"run", "mining"}) = {}
      BY <3>1 DEF Mines
    <3>3. Owed = 0
      BY <3>2, FS_EmptySet DEF Owed
    <3>4. ToGo = 0
      BY <2>6, <3>3 DEF ToGo
    <3>5. QED
      BY <2>6, <3>4 DEF NeverStuck
  <2>7. QED
    BY <2>1, <2>2, <2>3, <2>4, <2>5, <2>6 DEF TypeOK
<1>2. QED
  BY <1>1, Invariance, FinitelyJoined, PTL
=============================================================================
