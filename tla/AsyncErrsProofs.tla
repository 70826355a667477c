---------------------------- MODULE AsyncErrsProofs ----------------------------
(* The proofs about AsyncErrs: its safety properties, for every number of calls. *)
EXTENDS AsyncErrs, FiniteSetTheorems, SequenceTheorems, TLAPS

(* The goroutines that the wait group counts, and those that have sent. *)
Running == {j \in Calls : gpc[j] \in {"call", "send", "done"}}

Sent == {j \in Calls : gpc[j] \in {"done", "returned"}}

(* The wait group counts the goroutines that run; all before pc have been      *)
(* started, and no other; the channel holds a result for each that has sent.   *)
IInv ==
  /\ TypeOK
  /\ wg = Cardinality(Running)
  /\ Len(errc) = Cardinality(Sent)
  /\ \A j \in Calls : (gpc[j] = "none") <=> (pc <= j)
  /\ closed <=> (pc > Num + 1)
  /\ closed => \A j \in Calls : gpc[j] = "returned"

(* A set of calls is finite, and no larger than their number. *)
LEMMA CallsBound ==
  ASSUME NEW S \in SUBSET Calls
  PROVE  IsFiniteSet(S) /\ Cardinality(S) \in 0 .. Num
<1>1. IsFiniteSet(Calls) /\ Cardinality(Calls) = Num
  BY FS_Interval, NumAssumption DEF Calls
<1>2. IsFiniteSet(S) /\ Cardinality(S) <= Num
  BY <1>1, FS_Subset
<1>3. QED
  BY <1>2, FS_CardinalityType, NumAssumption

LEMMA InitIInv == Init => IInv
<1> SUFFICES ASSUME Init PROVE IInv
  OBVIOUS
<1> USE NumAssumption DEF Init
<1>1. Running = {}
  BY DEF Running
<1>2. wg = Cardinality(Running) /\ Len(errc) = Cardinality(Sent)
  BY <1>1, FS_EmptySet DEF Sent
<1>3. TypeOK
  <2>1. pc \in 1 .. Num + 3 /\ wg \in 0 .. Num
    OBVIOUS
  <2>2. errc \in Seq(Calls) /\ errs \in Seq(Calls)
    BY EmptySeq
  <2>3. QED
    BY <2>1, <2>2 DEF TypeOK
<1>4. QED
  BY <1>2, <1>3 DEF IInv, Calls

LEMMA NextIInv == IInv /\ [Next]_vars => IInv'
<1> SUFFICES ASSUME IInv, [Next]_vars PROVE IInv'
  OBVIOUS
<1> USE NumAssumption DEF IInv
<1>0. IsFiniteSet(Running) /\ Cardinality(Running) \in 0 .. Num
  BY CallsBound DEF Running
<1>00. IsFiniteSet(Sent) /\ Cardinality(Sent) \in 0 .. Num
  BY CallsBound DEF Sent
<1>1. CASE Go
  <2>1. pc \in Calls /\ pc \notin Running /\ Running' = Running \cup {pc}
    BY <1>1 DEF Go, TypeOK, Running, Calls
  <2>2. wg' = Cardinality(Running')
    BY <1>0, <1>1, <2>1, FS_AddElement DEF Go
  <2>3. Cardinality(Running') \in 0 .. Num
    BY CallsBound DEF Running
  <2>4. TypeOK'
    BY <1>1, <2>2, <2>3 DEF Go, TypeOK, Calls
  <2>5. Sent' = Sent
    BY <1>1 DEF Go, TypeOK, Sent, Calls
  <2>6. \A j \in Calls : (gpc'[j] = "none") <=> (pc' <= j)
    BY <1>1 DEF Go, TypeOK, Calls
  <2>7. ~closed /\ ~closed' /\ ~(pc' > Num + 1)
    BY <1>1 DEF Go, TypeOK, Calls
  <2>8. QED
    BY <1>1, <2>2, <2>4, <2>5, <2>6, <2>7 DEF Go
<1>2. ASSUME NEW j \in Calls, Each(j) PROVE IInv'
  <2>1. Running' = Running
    BY <1>2 DEF Each, TypeOK, Running
  <2>2. TypeOK'
    BY <1>2 DEF Each, TypeOK
  <2>3. Sent' = Sent
    BY <1>2 DEF Each, TypeOK, Sent
  <2>4. (\A l \in Calls : (gpc'[l] = "none") <=> (gpc[l] = "none")) /\ ~closed
    BY <1>2 DEF Each, TypeOK
  <2>5. QED
    BY <1>2, <2>1, <2>2, <2>3, <2>4 DEF Each
<1>3. ASSUME NEW j \in Calls, Send(j) PROVE IInv'
  <2>1. Running' = Running
    BY <1>3 DEF Send, TypeOK, Running
  <2>2. errc' \in Seq(Calls) /\ Len(errc') = Len(errc) + 1
    BY <1>3, AppendProperties DEF Send, TypeOK
  <2>3. TypeOK'
    BY <1>3, <2>2 DEF Send, TypeOK
  <2>4. Sent' = Sent \cup {j} /\ j \notin Sent
    BY <1>3 DEF Send, TypeOK, Sent
  <2>5. Len(errc') = Cardinality(Sent')
    BY <1>00, <2>2, <2>4, FS_AddElement
  <2>6. (\A l \in Calls : (gpc'[l] = "none") <=> (gpc[l] = "none")) /\ ~closed
    BY <1>3 DEF Send, TypeOK
  <2>7. QED
    BY <1>3, <2>1, <2>3, <2>5, <2>6 DEF Send
<1>4. ASSUME NEW j \in Calls, Done(j) PROVE IInv'
  <2>1. j \in Running /\ Running' = Running \ {j}
    BY <1>4 DEF Done, TypeOK, Running
  <2>2. wg' = Cardinality(Running')
    BY <1>0, <1>4, <2>1, FS_RemoveElement DEF Done
  <2>3. Cardinality(Running') \in 0 .. Num
    BY CallsBound DEF Running
  <2>4. TypeOK'
    BY <1>4, <2>2, <2>3 DEF Done, TypeOK
  <2>5. Sent' = Sent
    BY <1>4 DEF Done, TypeOK, Sent
  <2>6. (\A l \in Calls : (gpc'[l] = "none") <=> (gpc[l] = "none")) /\ ~closed
    BY <1>4 DEF Done, TypeOK
  <2>7. QED
    BY <1>4, <2>2, <2>4, <2>5, <2>6 DEF Done
<1>5. CASE WaitAndClose
  <2>1. Running' = Running /\ Running = {}
    BY <1>0, <1>5, FS_EmptySet DEF WaitAndClose, Running
  <2>2. TypeOK'
    BY <1>5 DEF WaitAndClose, TypeOK
  <2>3. ASSUME NEW j \in Calls PROVE gpc[j] = "returned"
    <3>1. gpc[j] # "none"
      BY <1>5 DEF WaitAndClose, Calls
    <3>2. gpc[j] \notin {"call", "send", "done"}
      BY <2>1 DEF Running
    <3>3. QED
      BY <3>1, <3>2 DEF TypeOK
  <2>4. Sent' = Sent
    BY <1>5 DEF WaitAndClose, Sent
  <2>5. pc' > Num + 1 /\ \A j \in Calls : (gpc'[j] = "none") <=> (pc' <= j)
    BY <1>5, <2>3 DEF WaitAndClose, Calls
  <2>6. closed' /\ \A j \in Calls : gpc'[j] = "returned"
    BY <1>5, <2>3 DEF WaitAndClose
  <2>7. QED
    BY <1>5, <2>1, <2>2, <2>4, <2>5, <2>6 DEF WaitAndClose
<1>6. CASE Collect
  <2>1. Running' = Running
    BY <1>6 DEF Collect, Running
  <2>2. errs' \in Seq(Calls)
    BY <1>6, ConcatProperties DEF Collect, TypeOK
  <2>3. TypeOK'
    BY <1>6, <2>2 DEF Collect, TypeOK
  <2>4. Sent' = Sent
    BY <1>6 DEF Collect, Sent
  <2>5. closed /\ pc' > Num + 1 /\ \A j \in Calls : (gpc'[j] = "none") <=> (pc' <= j)
    BY <1>6 DEF Collect, Calls
  <2>6. QED
    BY <1>6, <2>1, <2>3, <2>4, <2>5 DEF Collect
<1>7. CASE UNCHANGED vars
  BY <1>7 DEF vars, TypeOK, Running, Sent
<1>8. QED
  BY <1>1, <1>2, <1>3, <1>4, <1>5, <1>6, <1>7 DEF Next, Goroutine

(* The wait group and the channel count the goroutines in every state. *)
THEOREM Invariance == Spec => []IInv
BY InitIInv, NextIInv, PTL DEF Spec

(* Type correctness: the wait group's counter never goes below zero, which     *)
(* would panic.                                                                *)
THEOREM TypeCorrect == Spec => []TypeOK
<1>1. IInv => TypeOK
  BY DEF IInv
<1>2. QED
  BY <1>1, Invariance, PTL

(* wgerr.go makes the channel with room for the result of every call: none of  *)
(* the goroutines ever blocks in its send.                                     *)
RoomForAll == \A j \in Calls : gpc[j] = "send" => Len(errc) < Num

(* No goroutine finds the channel full. *)
THEOREM RoomForAllAlways == Spec => []RoomForAll
<1>1. ASSUME IInv, NEW j \in Calls, gpc[j] = "send" PROVE Len(errc) < Num
  <2>1. IsFiniteSet(Calls) /\ Cardinality(Calls) = Num
    BY FS_Interval, NumAssumption DEF Calls
  <2>2. Sent \subseteq Calls /\ Sent # Calls
    BY <1>1 DEF Sent
  <2>3. Cardinality(Sent) <= Num /\ Cardinality(Sent) # Num
    BY <2>1, <2>2, FS_Subset
  <2>4. Cardinality(Sent) \in 0 .. Num
    BY CallsBound DEF Sent
  <2>5. QED
    BY <1>1, <2>3, <2>4, NumAssumption DEF IInv
<1>2. IInv => RoomForAll
  BY <1>1 DEF RoomForAll
<1>3. QED
  BY <1>2, Invariance, PTL

(* No goroutine sends on the closed channel. *)
THEOREM NoSendOnClosedAlways == Spec => []NoSendOnClosed
<1>1. IInv => NoSendOnClosed
  BY DEF IInv, NoSendOnClosed
<1>2. QED
  BY <1>1, Invariance, PTL

-----------------------------------------------------------------------------
(* What Returns rests on: every step brings AsyncErrs nearer to its end, and   *)
(* before it, some step can be taken.                                          *)

In(places) == {j \in Calls : gpc[j] \in places}

(* The calls that have still to return from `each`, to send, and to be done.   *)
ToReturn == In({"none", "call"})

ToSend == In({"none", "call", "send"})

ToFinish == In({"none", "call", "send", "done"})

(* The steps that are left: AsyncErrs' own, and those of the goroutines.       *)
Left == (Num + 3 - pc) + Cardinality(ToReturn) + Cardinality(ToSend) + Cardinality(ToFinish)

CountsDown == [][Left' = Left - 1]_vars

(* A goroutine leaves one of the sets, or none of them. *)
LEMMA InSize ==
  ASSUME NEW places
  PROVE  IsFiniteSet(In(places)) /\ Cardinality(In(places)) \in 0 .. Num
BY CallsBound DEF In

LEMMA InMoves ==
  ASSUME TypeOK, NEW j \in Calls, NEW to \in {"none", "call", "send", "done", "returned"},
         gpc' = [gpc EXCEPT ![j] = to], NEW places
  PROVE  /\ (gpc[j] \in places) <=> (to \in places) => In(places)' = In(places)
         /\ gpc[j] \in places /\ to \notin places =>
              Cardinality(In(places)') = Cardinality(In(places)) - 1
<1>1. gpc'[j] = to /\ \A l \in Calls \ {j} : gpc'[l] = gpc[l]
  BY DEF TypeOK
<1>2. CASE (gpc[j] \in places) <=> (to \in places)
  BY <1>1, <1>2 DEF In
<1>3. CASE gpc[j] \in places /\ to \notin places
  <2>1. j \in In(places) /\ In(places)' = In(places) \ {j}
    BY <1>1, <1>3 DEF In
  <2>2. Cardinality(In(places) \ {j}) = Cardinality(In(places)) - 1
    BY <2>1, InSize, FS_RemoveElement
  <2>3. QED
    BY <1>3, <2>1, <2>2
<1>4. QED
  BY <1>2, <1>3

(* The number of steps that are left is one. *)
LEMMA LeftSize ==
  ASSUME TypeOK
  PROVE  /\ Left \in Nat
         /\ {Cardinality(ToReturn), Cardinality(ToSend), Cardinality(ToFinish)} \subseteq 0 .. Num
         /\ pc \in Int
<1>1. {Cardinality(ToReturn), Cardinality(ToSend), Cardinality(ToFinish)} \subseteq 0 .. Num
  BY InSize DEF ToReturn, ToSend, ToFinish
<1>2. QED
  BY <1>1, NumAssumption DEF TypeOK, Left

(* AsyncErrs takes 4 * Num + 2 steps, in whichever order: each one is counted. *)
THEOREM StepsCounted == Spec => (Left = 4 * Num + 2) /\ CountsDown
<1>1. ASSUME Init PROVE Left = 4 * Num + 2
  <2>1. ToReturn = Calls /\ ToSend = Calls /\ ToFinish = Calls
    BY <1>1 DEF Init, In, ToReturn, ToSend, ToFinish
  <2>2. Cardinality(Calls) = Num
    BY FS_Interval, NumAssumption DEF Calls
  <2>3. pc = 1
    BY <1>1 DEF Init
  <2>4. QED
    BY <2>1, <2>2, <2>3, NumAssumption DEF Left
<1>2. ASSUME IInv, Next PROVE Left' = Left - 1
  <2>1. TypeOK /\ Num \in Nat
    BY <1>2, NumAssumption DEF IInv
  <2>2. CASE Go
    <3>1. pc \in Calls /\ gpc[pc] = "none" /\ gpc' = [gpc EXCEPT ![pc] = "call"] /\ pc' = pc + 1
      BY <1>2, <2>1, <2>2 DEF Go, IInv, Calls
    <3>2. ToReturn' = ToReturn /\ ToSend' = ToSend /\ ToFinish' = ToFinish
      BY <2>1, <3>1, InMoves DEF ToReturn, ToSend, ToFinish
    <3>3. QED
      BY <2>1, <3>1, <3>2, LeftSize DEF Left
  <2>3. ASSUME NEW j \in Calls, Each(j) PROVE Left' = Left - 1
    <3>1. gpc[j] = "call" /\ gpc' = [gpc EXCEPT ![j] = "send"] /\ pc' = pc
      BY <2>3 DEF Each
    <3>2. /\ Cardinality(ToReturn') = Cardinality(ToReturn) - 1
          /\ ToSend' = ToSend /\ ToFinish' = ToFinish
      BY <2>1, <3>1, InMoves DEF ToReturn, ToSend, ToFinish
    <3>3. QED
      BY <2>1, <3>1, <3>2, LeftSize DEF Left
  <2>4. ASSUME NEW j \in Calls, Send(j) PROVE Left' = Left - 1
    <3>1. gpc[j] = "send" /\ gpc' = [gpc EXCEPT ![j] = "done"] /\ pc' = pc
      BY <2>4 DEF Send
    <3>2. /\ Cardinality(ToSend') = Cardinality(ToSend) - 1
          /\ ToReturn' = ToReturn /\ ToFinish' = ToFinish
      BY <2>1, <3>1, InMoves DEF ToReturn, ToSend, ToFinish
    <3>3. QED
      BY <2>1, <3>1, <3>2, LeftSize DEF Left
  <2>5. ASSUME NEW j \in Calls, Done(j) PROVE Left' = Left - 1
    <3>1. gpc[j] = "done" /\ gpc' = [gpc EXCEPT ![j] = "returned"] /\ pc' = pc
      BY <2>5 DEF Done
    <3>2. /\ Cardinality(ToFinish') = Cardinality(ToFinish) - 1
          /\ ToReturn' = ToReturn /\ ToSend' = ToSend
      BY <2>1, <3>1, InMoves DEF ToReturn, ToSend, ToFinish
    <3>3. QED
      BY <2>1, <3>1, <3>2, LeftSize DEF Left
  <2>6. CASE WaitAndClose \/ Collect
    <3>1. gpc' = gpc /\ pc' = pc + 1
      BY <2>1, <2>6 DEF WaitAndClose, Collect
    <3>2. ToReturn' = ToReturn /\ ToSend' = ToSend /\ ToFinish' = ToFinish
      BY <3>1 DEF In, ToReturn, ToSend, ToFinish
    <3>3. QED
      BY <2>1, <3>1, <3>2, LeftSize DEF Left
  <2>7. QED
    BY <1>2, <2>2, <2>3, <2>4, <2>5, <2>6 DEF Next, Goroutine
<1>3. QED
  BY <1>1, <1>2, Invariance, PTL DEF Spec, CountsDown

(* The guards of the steps: AsyncErrs goes on, or one of its goroutines does.  *)
Proceeds ==
  \/ pc \in Calls
  \/ pc = Num + 1 /\ wg = 0
  \/ pc = Num + 2
  \/ \E j \in Calls : \/ gpc[j] \in {"call", "done"}
                      \/ gpc[j] = "send" /\ Len(errc) < Num

(* No wait and no send is ever stuck: until AsyncErrs has returned and no step *)
(* is left, something can proceed.  As each step counts, it always returns.    *)
NeverStuck == (Left = 0 /\ pc = Num + 3) \/ Proceeds

(* wgerr.go:7-27: AsyncErrs, with any number of calls, is never stuck before it *)
(* has returned.                                                                *)
THEOREM NeverStuckAlways == Spec => []NeverStuck
<1>1. ASSUME IInv, RoomForAll PROVE NeverStuck
  <2>1. TypeOK /\ Num \in Nat /\ pc \in 1 .. Num + 3
    BY <1>1, NumAssumption DEF IInv, TypeOK
  <2>2. CASE pc \in Calls \/ pc = Num + 2
    BY <2>2 DEF NeverStuck, Proceeds
  <2>3. CASE pc = Num + 1
    <3>1. CASE wg = 0
      BY <2>3, <3>1 DEF NeverStuck, Proceeds
    <3>2. CASE wg # 0
      <4>1. PICK j \in Calls : gpc[j] \in {"call", "send", "done"}
        BY <1>1, <3>2, FS_EmptySet DEF IInv, Running
      <4>2. QED
        BY <1>1, <4>1 DEF NeverStuck, Proceeds, RoomForAll
    <3>3. QED
      BY <3>1, <3>2
  <2>4. CASE pc = Num + 3
    <3>1. \A j \in Calls : gpc[j] = "returned"
      BY <1>1, <2>1, <2>4 DEF IInv
    <3>2. ToReturn = {} /\ ToSend = {} /\ ToFinish = {}
      BY <3>1 DEF In, ToReturn, ToSend, ToFinish
    <3>3. Cardinality({}) = 0
      BY FS_EmptySet
    <3>4. QED
      BY <2>1, <2>4, <3>2, <3>3 DEF NeverStuck, Left
  <2>5. QED
    BY <2>1, <2>2, <2>3, <2>4 DEF Calls
<1>2. QED
  BY <1>1, Invariance, RoomForAllAlways, PTL
=============================================================================
