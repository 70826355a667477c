-------------------------- MODULE LogHandlerProofs --------------------------
(* The proofs about LogHandler: its invariants, and that it implements       *)
(* LogFanout, for every set of clients, ring size and channel capacity.      *)
EXTENDS LogHandler, SequenceTheorems, FiniteSetTheorems, TLAPS

(* Receiving from the channel removes the head and keeps the rest distinct. *)
LEMMA DequeueFacts ==
  ASSUME NEW S, NEW q \in Seq(S), q # <<>>, Distinct(q)
  PROVE  /\ Head(q) \in S /\ Tail(q) \in Seq(S)
         /\ Members(Tail(q)) = Members(q) \ {Head(q)}
         /\ Head(q) \in Members(q)
         /\ Distinct(Tail(q))
<1>1. Len(q) \in Nat /\ Len(q) > 0 /\ Head(q) = q[1] /\ q[1] \in S
  BY EmptySeq
<1>2. /\ Tail(q) \in Seq(S)
      /\ Len(Tail(q)) = Len(q) - 1
      /\ \A i \in 1 .. Len(q) - 1 : Tail(q)[i] = q[i + 1]
  BY HeadTailProperties
<1>3. Distinct(Tail(q))
  BY <1>1, <1>2 DEF Distinct
<1>4. Members(Tail(q)) \subseteq Members(q) \ {Head(q)}
  <2>1. SUFFICES ASSUME NEW i \in 1 .. Len(q) - 1
                 PROVE  q[i + 1] \in Members(q) /\ q[i + 1] # q[1]
    BY <1>1, <1>2 DEF Members
  <2>2. i + 1 \in 1 .. Len(q) /\ 1 \in 1 .. Len(q) /\ i + 1 # 1
    BY <1>1
  <2>3. QED
    BY <2>2 DEF Members, Distinct
<1>5. Members(q) \ {Head(q)} \subseteq Members(Tail(q))
  <2>1. SUFFICES ASSUME NEW i \in 1 .. Len(q), q[i] # q[1]
                 PROVE  q[i] \in Members(Tail(q))
    BY <1>1 DEF Members
  <2>2. i - 1 \in 1 .. Len(q) - 1 /\ (i - 1) + 1 = i
    BY <1>1, <2>1
  <2>3. QED
    BY <1>2, <2>2 DEF Members
<1>6. Head(q) \in Members(q)
  BY <1>1 DEF Members
<1>7. QED
  BY <1>1, <1>2, <1>3, <1>4, <1>5, <1>6

(* Sending on the channel adds one member, distinct if it is a new one. *)
LEMMA EnqueueFacts ==
  ASSUME NEW S, NEW q \in Seq(S), NEW x \in S, Distinct(q), x \notin Members(q)
  PROVE  /\ Append(q, x) \in Seq(S)
         /\ Members(Append(q, x)) = Members(q) \cup {x}
         /\ Distinct(Append(q, x))
<1>1. /\ Append(q, x) \in Seq(S)
      /\ Len(Append(q, x)) = Len(q) + 1
      /\ \A i \in 1 .. Len(q) : Append(q, x)[i] = q[i]
      /\ Append(q, x)[Len(q) + 1] = x
  BY AppendProperties
<1>2. Len(q) \in Nat
  OBVIOUS
<1>3. \A i \in 1 .. Len(q) : q[i] # x
  BY DEF Members
<1>4. Distinct(Append(q, x))
  BY <1>1, <1>2, <1>3 DEF Distinct
<1>5. Members(Append(q, x)) = Members(q) \cup {x}
  BY <1>1, <1>2 DEF Members
<1>6. QED
  BY <1>1, <1>4, <1>5
-----------------------------------------------------------------------------
(* The inductive invariant. *)

(* What a receive from wch leaves, where the invariant holds. *)
LEMMA ReceiveFacts ==
  ASSUME IInv, wch # <<>>
  PROVE  /\ Head(wch) \in Clients /\ Tail(wch) \in Seq(Clients)
         /\ Members(Tail(wch)) = Members(wch) \ {Head(wch)}
         /\ Head(wch) \in Members(wch)
         /\ Distinct(Tail(wch))
  BY DequeueFacts DEF IInv, TypeOK, Places

(* What a send on wch leaves, for a client that is sending. *)
LEMMA SendFacts ==
  ASSUME IInv, NEW c \in Clients, hs[c] = "sending"
  PROVE  /\ Append(wch, c) \in Seq(Clients)
         /\ Members(Append(wch, c)) = Members(wch) \cup {c}
         /\ Distinct(Append(wch, c))
  BY EnqueueFacts DEF IInv, TypeOK, Places, Queued

(* A write to a client makes its chunk the newest one, and the first one of a *)
(* client that had none.                                                      *)
LEMMA WriteFacts ==
  ASSUME NEW s \in Seq(Nat), NEW k \in Nat
  PROVE  /\ Append(s, k) \in Seq(Nat)
         /\ Append(s, k) # <<>>
         /\ Append(s, k)[Len(Append(s, k))] = k
         /\ Append(s, k)[1] = IF s = <<>> THEN k ELSE s[1]
  OBVIOUS

(* Initially nobody is served and the ring is empty. *)
LEMMA InitIInv == Init => IInv
<1> SUFFICES ASSUME Init PROVE IInv
  OBVIOUS
<1> USE SizeAssumption, NilAssumption DEF Init
<1>1. TypeOK
  <2>1. /\ got \in [Clients -> Seq(Nat)] /\ wch \in Seq(Clients)
        /\ ring \in [Slots -> Nat]
    BY DEF Slots
  <2>2. p \in Slots /\ at \in Slots
    BY DEF Slots
  <2>3. QED
    BY <2>1, <2>2 DEF TypeOK, PumpStates, HandlerStates, ConnStates
<1>2. Queued = {} /\ Distinct(wch)
  BY DEF Queued, Members, Distinct
<1>3. Places /\ SinceInv
  BY <1>2 DEF Places, SinceInv
<1>4. RingInv
  BY DEF RingInv, SeenAt, Stored, Age, Slots
<1>5. Windows /\ NothingMissed
  BY DEF Windows, NothingMissed
<1>6. QED
  BY <1>1, <1>3, <1>4, <1>5 DEF IInv

(* Every step of the endpoint keeps the invariant. *)
LEMMA NextIInv == IInv /\ [Next]_vars => IInv'
<1> SUFFICES ASSUME IInv, [Next]_vars PROVE IInv'
  OBVIOUS
<1> USE SizeAssumption, NilAssumption
    DEF IInv, clientVars, seen, loopVars, ringVars
<1>1. CASE Cancel
  <2>1. TypeOK' /\ Places'
    BY <1>1
    DEF Cancel, TypeOK, Places, PumpStates, HandlerStates, ConnStates, Slots,
        NextSlot, Advance, Queued
  <2>2. RingInv' /\ Windows'
    BY <1>1
    DEF Cancel, TypeOK, Places, RingInv, Windows, UpTo, SeenAt, Stored, Age,
        Newest, Slots, NextSlot, Advance, Queued
  <2>3. SinceInv' /\ NothingMissed'
    BY <1>1
    DEF Cancel, TypeOK, Places, RingInv, Windows, SinceInv, NothingMissed, UpTo,
        SeenAt, Stored, Age, Slots, Advance, Queued
  <2>9. QED BY <2>1, <2>2, <2>3
<1>2. ASSUME NEW c \in Clients, HandleHttp(c) PROVE IInv'
  <2>1. TypeOK' /\ Places'
    BY <1>2
    DEF HandleHttp, TypeOK, Places, PumpStates, HandlerStates, ConnStates, Slots,
        NextSlot, Advance, Queued
  <2>2. RingInv' /\ Windows'
    BY <1>2
    DEF HandleHttp, TypeOK, Places, RingInv, Windows, UpTo, SeenAt, Stored, Age,
        Newest, Slots, NextSlot, Advance, Queued
  <2>3. SinceInv' /\ NothingMissed'
    BY <1>2
    DEF HandleHttp, TypeOK, Places, RingInv, Windows, SinceInv, NothingMissed, UpTo,
        SeenAt, Stored, Age, Slots, Advance, Queued
  <2>9. QED BY <2>1, <2>2, <2>3
<1>3. ASSUME NEW c \in Clients, AddWriter(c) PROVE IInv'
  <2>0. /\ Append(wch, c) \in Seq(Clients)
        /\ Members(Append(wch, c)) = Members(wch) \cup {c}
        /\ Distinct(Append(wch, c))
    BY <1>3, SendFacts DEF AddWriter
  <2>1. TypeOK'
    BY <1>3, <2>0 DEF AddWriter, TypeOK, HandlerStates, Slots
  <2>2. Places'
    BY <1>3, <2>0 DEF AddWriter, TypeOK, Places, Queued
  <2>3. RingInv' /\ Windows'
    BY <1>3
    DEF AddWriter, TypeOK, RingInv, Windows, UpTo, SeenAt, Stored, Age, Newest
  <2>4. SinceInv'
    BY <1>3, <2>0 DEF AddWriter, TypeOK, Places, SinceInv, Queued
  <2>5. NothingMissed'
    BY <1>3 DEF AddWriter, TypeOK, Places, NothingMissed
  <2>9. QED BY <2>1, <2>2, <2>3, <2>4, <2>5
<1>4. ASSUME NEW c \in Clients, Wait(c) PROVE IInv'
  <2>1. TypeOK' /\ Places'
    BY <1>4
    DEF Wait, TypeOK, Places, PumpStates, HandlerStates, ConnStates, Slots,
        NextSlot, Advance, Queued
  <2>2. RingInv' /\ Windows'
    BY <1>4
    DEF Wait, TypeOK, Places, RingInv, Windows, UpTo, SeenAt, Stored, Age,
        Newest, Slots, NextSlot, Advance, Queued
  <2>3. SinceInv' /\ NothingMissed'
    BY <1>4
    DEF Wait, TypeOK, Places, RingInv, Windows, SinceInv, NothingMissed, UpTo,
        SeenAt, Stored, Age, Slots, Advance, Queued
  <2>9. QED BY <2>1, <2>2, <2>3
<1>5. ASSUME NEW c \in Clients,
            NEW from \in SUBSET ConnStates, NEW to \in ConnStates, "down" \notin from,
            SetConn(c, from, to) PROVE IInv'
  <2>1. TypeOK' /\ Places'
    BY <1>5
    DEF SetConn, TypeOK, Places, PumpStates, HandlerStates, ConnStates, Slots,
        NextSlot, Advance, Queued
  <2>2. RingInv' /\ Windows'
    BY <1>5
    DEF SetConn, TypeOK, Places, RingInv, Windows, UpTo, SeenAt, Stored, Age,
        Newest, Slots, NextSlot, Advance, Queued
  <2>3. SinceInv' /\ NothingMissed'
    BY <1>5
    DEF SetConn, TypeOK, Places, RingInv, Windows, SinceInv, NothingMissed, UpTo,
        SeenAt, Stored, Age, Slots, Advance, Queued
  <2>9. QED BY <2>1, <2>2, <2>3
<1>6. CASE FirstWriter
  <2>1. TypeOK' /\ Places'
    BY <1>6, ReceiveFacts
    DEF FirstWriter, TypeOK, Places, PumpStates, HandlerStates, ConnStates, Slots,
        NextSlot, Advance, Queued
  <2>2. RingInv' /\ Windows'
    BY <1>6, ReceiveFacts
    DEF FirstWriter, TypeOK, Places, RingInv, Windows, UpTo, SeenAt, Stored, Age,
        Newest, Slots, NextSlot, Advance, Queued
  <2>3. SinceInv' /\ NothingMissed'
    BY <1>6, ReceiveFacts
    DEF FirstWriter, TypeOK, Places, RingInv, Windows, SinceInv, NothingMissed, UpTo,
        SeenAt, Stored, Age, Slots, Advance, Queued
  <2>9. QED BY <2>1, <2>2, <2>3
<1>7. CASE Read
  <2>1. TypeOK' /\ Places'
    BY <1>7
    DEF Read, TypeOK, Places, PumpStates, HandlerStates, ConnStates, Slots,
        NextSlot, Advance, Queued
  <2>2. RingInv' /\ Windows'
    BY <1>7
    DEF Read, TypeOK, Places, RingInv, Windows, UpTo, SeenAt, Stored, Age,
        Newest, Slots, NextSlot, Advance, Queued
  <2>3. SinceInv' /\ NothingMissed'
    BY <1>7
    DEF Read, TypeOK, Places, RingInv, Windows, SinceInv, NothingMissed, UpTo,
        SeenAt, Stored, Age, Slots, Advance, Queued
  <2>9. QED BY <2>1, <2>2, <2>3
<1>8. CASE ReadError
  <2>1. TypeOK' /\ Places'
    BY <1>8
    DEF ReadError, TypeOK, Places, PumpStates, HandlerStates, ConnStates, Slots,
        NextSlot, Advance, Queued
  <2>2. RingInv' /\ Windows'
    BY <1>8
    DEF ReadError, TypeOK, Places, RingInv, Windows, UpTo, SeenAt, Stored, Age,
        Newest, Slots, NextSlot, Advance, Queued
  <2>3. SinceInv' /\ NothingMissed'
    BY <1>8
    DEF ReadError, TypeOK, Places, RingInv, Windows, SinceInv, NothingMissed, UpTo,
        SeenAt, Stored, Age, Slots, Advance, Queued
  <2>9. QED BY <2>1, <2>2, <2>3
<1>9. CASE SelectWriter
  <2>1. TypeOK' /\ Places'
    BY <1>9, ReceiveFacts
    DEF SelectWriter, TypeOK, Places, PumpStates, HandlerStates, ConnStates, Slots,
        NextSlot, Advance, Queued
  <2>2. RingInv' /\ Windows'
    BY <1>9, ReceiveFacts
    DEF SelectWriter, TypeOK, Places, RingInv, Windows, UpTo, SeenAt, Stored, Age,
        Newest, Slots, NextSlot, Advance, Queued
  <2>3. SinceInv' /\ NothingMissed'
    BY <1>9, ReceiveFacts
    DEF SelectWriter, TypeOK, Places, RingInv, Windows, SinceInv, NothingMissed, UpTo,
        SeenAt, Stored, Age, Slots, Advance, Queued
  <2>9. QED BY <2>1, <2>2, <2>3
<1>10. CASE SelectDone
  <2>1. TypeOK' /\ Places'
    BY <1>10
    DEF SelectDone, TypeOK, Places, PumpStates, HandlerStates, ConnStates, Slots,
        NextSlot, Advance, Queued
  <2>2. RingInv' /\ Windows'
    BY <1>10
    DEF SelectDone, TypeOK, Places, RingInv, Windows, UpTo, SeenAt, Stored, Age,
        Newest, Slots, NextSlot, Advance, Queued
  <2>3. SinceInv' /\ NothingMissed'
    BY <1>10
    DEF SelectDone, TypeOK, Places, RingInv, Windows, SinceInv, NothingMissed, UpTo,
        SeenAt, Stored, Age, Slots, Advance, Queued
  <2>9. QED BY <2>1, <2>2, <2>3
<1>11. CASE SelectDefault
  <2>1. TypeOK' /\ Places'
    BY <1>11
    DEF SelectDefault, TypeOK, Places, PumpStates, HandlerStates, ConnStates, Slots,
        NextSlot, Advance, Queued
  <2>2. RingInv' /\ Windows'
    BY <1>11
    DEF SelectDefault, TypeOK, Places, RingInv, Windows, UpTo, SeenAt, Stored, Age,
        Newest, Slots, NextSlot, Advance, Queued
  <2>3. SinceInv' /\ NothingMissed'
    BY <1>11
    DEF SelectDefault, TypeOK, Places, RingInv, Windows, SinceInv, NothingMissed, UpTo,
        SeenAt, Stored, Age, Slots, Advance, Queued, Members
  <2>9. QED BY <2>1, <2>2, <2>3
<1>12. CASE DrainWriterCh
  <2>1. CASE wch # <<>>
    <3>0. /\ newWs' = newWs \cup {Head(wch)} /\ wch' = Tail(wch)
          /\ UNCHANGED <<ctxDone, hs, conn, got, since, pc, ws, todo, cur, p,
                         ring, at, last>>
          /\ pc = "drain"
      BY <1>12, <2>1 DEF DrainWriterCh
    <3>1. TypeOK' /\ Places'
      <4>1. TypeOK'
        BY <3>0, <2>1, ReceiveFacts DEF TypeOK
      <4>2. Places'
        BY <3>0, <2>1, ReceiveFacts DEF TypeOK, Places, Queued
      <4>3. QED BY <4>1, <4>2
    <3>2. RingInv' /\ Windows'
      BY <3>0, <2>1, ReceiveFacts
      DEF TypeOK, Places, RingInv, Windows, UpTo, SeenAt, Stored, Age, Newest, Queued
    <3>3. SinceInv' /\ NothingMissed'
      BY <3>0, <2>1, ReceiveFacts DEF TypeOK, SinceInv, NothingMissed, Queued
    <3>9. QED BY <3>1, <3>2, <3>3
  <2>2. CASE wch = <<>>
    <3>0. /\ todo' = newWs /\ pc' = "catchup" /\ pc = "drain"
          /\ UNCHANGED <<ctxDone, hs, conn, got, since, wch, ws, newWs, cur, p,
                         ring, at, last>>
      BY <1>12, <2>2 DEF DrainWriterCh
    <3>1. TypeOK' /\ Places'
      BY <3>0 DEF TypeOK, PumpStates, Places, Slots, Queued
    <3>2. RingInv' /\ Windows'
      BY <3>0 
      DEF TypeOK, Places, RingInv, Windows, UpTo, SeenAt, Stored, Age, Newest
    <3>3. Queued' = {}
      BY <3>0, <2>2 DEF Queued, Members
    <3>4. SinceInv' /\ NothingMissed'
      BY <3>0, <3>3 DEF TypeOK, SinceInv, NothingMissed
    <3>9. QED BY <3>1, <3>2, <3>4
  <2>9. QED BY <2>1, <2>2
<1>13. ASSUME NEW c \in Clients, StartCatchUp(c) PROVE IInv'
  <2>1. TypeOK' /\ Places'
    BY <1>13
    DEF StartCatchUp, TypeOK, Places, PumpStates, HandlerStates, ConnStates, Slots,
        NextSlot, Advance, Queued
  <2>2. RingInv' /\ Windows'
    BY <1>13
    DEF StartCatchUp, TypeOK, Places, RingInv, Windows, UpTo, SeenAt, Stored, Age,
        Newest, Slots, NextSlot, Advance, Queued
  <2>3. SinceInv' /\ NothingMissed'
    BY <1>13
    DEF StartCatchUp, TypeOK, Places, RingInv, Windows, SinceInv, NothingMissed, UpTo,
        SeenAt, Stored, Age, Slots, Advance, Queued
  <2>9. QED BY <2>1, <2>2, <2>3
<1>14. CASE SkipSlot
  <2>1. TypeOK' /\ Places'
    BY <1>14 DEF SkipSlot, TypeOK, Places, Slots, NextSlot, Advance, Queued
  <2>2. RingInv'
    BY <1>14 DEF SkipSlot, RingInv, SeenAt, Stored, Age, Advance
  <2>3. Windows'
    <3>1. /\ cur \in newWs /\ cur \notin ws \cup todo /\ cur \in Clients
          /\ pc = "catchup" /\ last > 0 /\ cur # Nil
          /\ ring[p] = 0 => SeenAt(Age(p) + 1) = 0
      BY <1>14 DEF SkipSlot, TypeOK, Places, RingInv
    <3>2. \A c \in Clients : Newest(c)' = Newest(c) /\ got'[c] = got[c]
      BY <1>14 DEF SkipSlot, Newest
    <3>3. /\ ring[p] = 0 => SeenAt(Age(p)) = 0
          /\ IF cur' = cur THEN p' # at /\ SeenAt(Age(p))' = SeenAt(Age(p) + 1)
                          ELSE cur' = Nil /\ SeenAt(Age(p) + 1) = last - 1
      BY <1>14, <3>1
      DEF SkipSlot, TypeOK, Advance, NextSlot, SeenAt, Stored, Age, Slots
    <3>4. SUFFICES ASSUME NEW c \in Clients, conn[c] # "down"
                   PROVE  (/\ c \notin ws \cup newWs => got[c] = <<>>
                           /\ c \in ws => UpTo(c, last - 1)
                           /\ c \in newWs =>
                                IF c \in todo \/ (c = cur /\ p = at)
                                  THEN got[c] = <<>>
                                  ELSE UpTo(c, IF c = cur THEN SeenAt(Age(p))
                                                          ELSE last - 1))'
      BY <1>14, <3>1 DEF SkipSlot, Windows
    <3>5. CASE c = cur
      BY <1>14, <3>1, <3>2, <3>3, <3>4, <3>5 DEF SkipSlot, Windows, UpTo, Newest
    <3>6. CASE c # cur
      BY <1>14, <3>1, <3>2, <3>3, <3>4, <3>6 DEF SkipSlot, Windows, UpTo, Newest
    <3>7. QED BY <3>5, <3>6
  <2>4. SinceInv' /\ NothingMissed'
    BY <1>14 DEF SkipSlot, TypeOK, SinceInv, NothingMissed, Advance, Queued
  <2>9. QED BY <2>1, <2>2, <2>3, <2>4
<1>15. CASE WriteSlot
  <2>0. /\ cur \in newWs /\ cur \notin ws \cup todo /\ cur \in Clients
        /\ pc = "catchup" /\ last > 0
        /\ ring[p] \in Nat \ {0} /\ ring[p] = SeenAt(Age(p) + 1)
    BY <1>15 DEF WriteSlot, TypeOK, Places, RingInv
  <2>1. /\ got' \in [Clients -> Seq(Nat)]
        /\ \A c \in Clients \ {cur} : got'[c] = got[c]
        /\ got'[cur] = Append(got[cur], ring[p])
        /\ got[cur] \in Seq(Nat)
    BY <1>15, <2>0 DEF WriteSlot, TypeOK
  <2>2. /\ got'[cur] # <<>> /\ got'[cur][Len(got'[cur])] = ring[p]
        /\ got'[cur][1] = IF got[cur] = <<>> THEN ring[p] ELSE got[cur][1]
    <3>1. got'[cur][Len(got'[cur])] = ring[p]
      BY <2>0, <2>1, WriteFacts
    <3>2. got'[cur] # <<>> /\ got'[cur][1] = IF got[cur] = <<>> THEN ring[p] ELSE got[cur][1]
      BY <2>0, <2>1, WriteFacts
    <3>3. QED
      BY <3>1, <3>2
  <2>3. TypeOK' /\ Places'
    BY <1>15, <2>0, <2>1
    DEF WriteSlot, TypeOK, Places, Slots, NextSlot, Advance, Queued
  <2>4. RingInv'
    BY <1>15 DEF WriteSlot, RingInv, SeenAt, Stored, Age, Advance
  <2>5. Windows'
    <3>1. ASSUME NEW c \in Clients \ {cur}
          PROVE  got'[c] = got[c] /\ Newest(c)' = Newest(c)
      BY <2>1 DEF Newest
    <3>2. IF cur' = cur THEN p' # at /\ ring[p] = SeenAt(Age(p))'
                        ELSE cur' = Nil /\ ring[p] = last - 1
      BY <1>15, <2>0
      DEF WriteSlot, TypeOK, Advance, NextSlot, SeenAt, Stored, Age, Slots
    <3>3. SUFFICES ASSUME NEW c \in Clients, conn[c] # "down"
                   PROVE  (/\ c \notin ws \cup newWs => got[c] = <<>>
                           /\ c \in ws => UpTo(c, last - 1)
                           /\ c \in newWs =>
                                IF c \in todo \/ (c = cur /\ p = at)
                                  THEN got[c] = <<>>
                                  ELSE UpTo(c, IF c = cur THEN SeenAt(Age(p))
                                                          ELSE last - 1))'
      BY <1>15, <2>0 DEF WriteSlot, Windows
    <3>4. CASE c = cur
      BY <1>15, <2>0, <2>2, <3>2, <3>4 DEF WriteSlot, UpTo, Newest
    <3>5. CASE c # cur
      BY <1>15, <2>0, <3>1, <3>2, <3>3, <3>5 DEF WriteSlot, Windows, UpTo, Newest
    <3>6. QED BY <3>4, <3>5
  <2>6. SinceInv'
    BY <1>15 DEF WriteSlot, TypeOK, SinceInv, Advance, Queued
  <2>7. NothingMissed'
    <3>1. since[cur] >= last - 1 /\ ring[p] <= last
      BY <2>0 DEF SinceInv, SeenAt, Stored, Age, TypeOK, Slots
    <3>2. since' = since /\ since[cur] \in Nat /\ last \in Nat /\ ring[p] \in Nat
      BY <1>15, <2>0 DEF WriteSlot, TypeOK
    <3>3. got'[cur][1] <= since[cur] + 1
      <4>1. CASE got[cur] = <<>>
        BY <2>2, <3>1, <3>2, <4>1
      <4>2. CASE got[cur] # <<>>
        BY <2>0, <2>2, <4>2 DEF NothingMissed
      <4>3. QED
        BY <4>1, <4>2
    <3>4. ASSUME NEW c \in Clients \ {cur}, got'[c] # <<>> PROVE got'[c][1] <= since[c] + 1
      BY <2>1, <3>4 DEF NothingMissed
    <3>5. QED
      BY <3>2, <3>3, <3>4 DEF NothingMissed
  <2>9. QED BY <2>3, <2>4, <2>5, <2>6, <2>7
<1>16. CASE FailSlot
  <2>1. TypeOK' /\ Places'
    BY <1>16
    DEF FailSlot, TypeOK, Places, PumpStates, HandlerStates, ConnStates, Slots,
        NextSlot, Advance, Queued
  <2>2. RingInv' /\ Windows'
    BY <1>16
    DEF FailSlot, TypeOK, Places, RingInv, Windows, UpTo, SeenAt, Stored, Age,
        Newest, Slots, NextSlot, Advance, Queued
  <2>3. SinceInv' /\ NothingMissed'
    BY <1>16
    DEF FailSlot, TypeOK, Places, RingInv, Windows, SinceInv, NothingMissed, UpTo,
        SeenAt, Stored, Age, Slots, Advance, Queued
  <2>9. QED BY <2>1, <2>2, <2>3
<1>17. CASE EndCatchUp
  <2>1. TypeOK' /\ Places'
    BY <1>17
    DEF EndCatchUp, TypeOK, Places, PumpStates, HandlerStates, ConnStates, Slots,
        NextSlot, Advance, Queued
  <2>2. RingInv' /\ Windows'
    BY <1>17
    DEF EndCatchUp, TypeOK, Places, RingInv, Windows, UpTo, SeenAt, Stored, Age,
        Newest, Slots, NextSlot, Advance, Queued
  <2>3. SinceInv' /\ NothingMissed'
    BY <1>17
    DEF EndCatchUp, TypeOK, Places, RingInv, Windows, SinceInv, NothingMissed, UpTo,
        SeenAt, Stored, Age, Slots, Advance, Queued
  <2>9. QED BY <2>1, <2>2, <2>3
<1>18. ASSUME NEW c \in Clients, Deliver(c) PROVE IInv'
  <2>0. c \in ws /\ c \notin newWs /\ pc = "deliver" /\ last > 0
    BY <1>18 DEF Deliver, TypeOK, Places
  <2>1. TypeOK' /\ Places'
    BY <1>18, <2>0, WriteFacts DEF Deliver, TypeOK, Places, Slots, Queued
  <2>2. RingInv'
    BY <1>18 DEF Deliver, RingInv, SeenAt, Stored, Age
  <2>3. Windows'
    <3>1. ASSUME NEW d \in Clients, d # c \/ conn[c] = "down"
          PROVE  got'[d] = got[d] /\ Newest(d)' = Newest(d)
      BY <1>18, <3>1 DEF Deliver, TypeOK, Newest
    <3>2. ASSUME conn[c] # "down"
          PROVE  got'[c] # <<>> /\ Newest(c)' = last
      <4>1. got'[c] = Append(got[c], last) /\ got[c] \in Seq(Nat) /\ last \in Nat
        BY <1>18, <3>2 DEF Deliver, TypeOK, ConnStates
      <4>2. QED
        BY <4>1, WriteFacts DEF Newest
    <3>3. QED
      BY <1>18, <2>0, <3>1, <3>2 DEF Deliver, Windows, UpTo, Places
  <2>4. SinceInv'
    BY <1>18 DEF Deliver, TypeOK, SinceInv, Queued
  <2>5. NothingMissed'
    BY <1>18, <2>0, WriteFacts
    DEF Deliver, TypeOK, Windows, UpTo, NothingMissed
  <2>9. QED BY <2>1, <2>2, <2>3, <2>4, <2>5
<1>19. ASSUME NEW c \in Clients, DeliverError(c) PROVE IInv'
  <2>1. TypeOK' /\ Places'
    BY <1>19
    DEF DeliverError, TypeOK, Places, PumpStates, HandlerStates, ConnStates, Slots,
        NextSlot, Advance, Queued
  <2>2. RingInv' /\ Windows'
    BY <1>19
    DEF DeliverError, TypeOK, Places, RingInv, Windows, UpTo, SeenAt, Stored, Age,
        Newest, Slots, NextSlot, Advance, Queued
  <2>3. SinceInv' /\ NothingMissed'
    BY <1>19
    DEF DeliverError, TypeOK, Places, RingInv, Windows, SinceInv, NothingMissed, UpTo,
        SeenAt, Stored, Age, Slots, Advance, Queued
  <2>9. QED BY <2>1, <2>2, <2>3
<1>20. CASE Store
  <2>1. TypeOK' /\ Places'
    BY <1>20 DEF Store, TypeOK, Places, PumpStates, Slots, NextSlot, Queued
  <2>2. RingInv'
    <3>1. SUFFICES ASSUME NEW i \in Slots PROVE ring'[i] = SeenAt(Age(i) + 1)'
      BY DEF RingInv
    <3>2. CASE i = at
      BY <1>20, <3>2
      DEF Store, TypeOK, Places, SeenAt, Stored, Age, Slots, NextSlot
    <3>3. CASE i # at
      <4>1. ring'[i] = ring[i] /\ ring[i] = SeenAt(Age(i) + 1)
        BY <1>20, <3>3 DEF Store, TypeOK, RingInv
      <4>2. Age(i)' = Age(i) - 1
        BY <1>20, <3>3 DEF Store, TypeOK, Age, Slots, NextSlot
      <4>3. Age(i) \in Int /\ Stored \in Int /\ Stored' = Stored + 1
        BY <1>20 DEF Store, TypeOK, Age, Slots, Stored
      <4>4. QED
        BY <4>1, <4>2, <4>3 DEF SeenAt
    <3>4. QED
      BY <3>2, <3>3
  <2>3. Windows'
    BY <1>20 DEF Store, TypeOK, Places, Windows, UpTo, Newest
  <2>4. SinceInv' /\ NothingMissed'
    BY <1>20 DEF Store, TypeOK, Places, SinceInv, NothingMissed, Queued
  <2>9. QED BY <2>1, <2>2, <2>3, <2>4
<1>98. CASE UNCHANGED vars
  BY <1>98
  DEF vars, TypeOK, Places, Queued, RingInv, SeenAt, Stored, Age, Windows, UpTo,
      Newest, SinceInv, NothingMissed
<1>99. QED
  BY <1>1, <1>2, <1>3, <1>4, <1>5, <1>6, <1>7, <1>8, <1>9, <1>10, <1>11, <1>12, <1>13, <1>14, <1>15, <1>16, <1>17, <1>18, <1>19, <1>20, <1>98
  DEF Next, Control, Handler, Client, Stall, Resume, Drop, ConnStates
-----------------------------------------------------------------------------
(* The theorems. *)

(* IInv holds of every reachable state of the endpoint. *)
THEOREM Invariance == Spec => []IInv
  BY InitIInv, NextIInv, PTL DEF Spec

(* Every variable of the endpoint keeps its type. *)
THEOREM TypeCorrect == Spec => []TypeOK
<1>1. IInv => TypeOK
  BY DEF IInv
<1>2. QED
  BY <1>1, Invariance, PTL

(* A viewer never misses a chunk published after its writer was queued,     *)
(* whatever the other viewers do and however many there are.                *)
THEOREM NothingMissedAlways == Spec => []NothingMissed
<1>1. IInv => NothingMissed
  BY DEF IInv
<1>2. QED
  BY <1>1, Invariance, PTL

(* The chunk written next by the catch-up is the oldest one kept, or the    *)
(* successor of what the viewer has.                                        *)
LEMMA CatchUpChunk ==
  ASSUME IInv, WriteSlot
  PROVE  /\ cur \in Clients /\ conn[cur] = "up" /\ last > 0
         /\ got[cur] = <<>> => ring[p] = Fanout!Oldest
         /\ got[cur] # <<>> => ring[p] = Newest(cur) + 1 /\ Newest(cur) # last
<1>1. /\ cur \in newWs /\ cur \notin ws \cup todo /\ cur \in Clients
      /\ pc = "catchup" /\ last > 0 /\ conn[cur] = "up"
      /\ ring[p] = SeenAt(Age(p) + 1) /\ ring[p] # 0
  BY DEF IInv, WriteSlot, TypeOK, Places, RingInv
<1>2. IF p = at THEN got[cur] = <<>> ELSE UpTo(cur, SeenAt(Age(p)))
  BY <1>1 DEF IInv, Windows
<1>3. Age(p) \in 0 .. LogBufferSize - 1 /\ (Age(p) = 0 <=> p = at)
  BY SizeAssumption DEF IInv, TypeOK, Age, Slots
<1>4. Stored = last - 1 /\ last \in Nat
  BY <1>1 DEF IInv, TypeOK, Stored
<1>5. Stored - LogBufferSize + (Age(p) + 1) > 0
      /\ ring[p] = last - LogBufferSize + Age(p)
  BY <1>1, <1>3, <1>4, SizeAssumption DEF SeenAt
<1>6. CASE got[cur] = <<>>
  <2>1. Age(p) = 0 \/ SeenAt(Age(p)) = 0
    BY <1>2, <1>3, <1>6 DEF UpTo
  <2>2. Age(p) = 0 \/ last - LogBufferSize + Age(p) = 1
    BY <1>3, <1>4, <1>5, <2>1, SizeAssumption DEF SeenAt
  <2>3. ring[p] = Fanout!Oldest
    BY <1>3, <1>4, <1>5, <2>2, SizeAssumption DEF Fanout!Oldest
  <2>4. QED BY <1>1, <1>6, <2>3
<1>7. CASE got[cur] # <<>>
  <2>1. Newest(cur) = SeenAt(Age(p)) /\ Age(p) # 0
    BY <1>2, <1>3, <1>7 DEF UpTo
  <2>2. SeenAt(Age(p)) = last - 1 - LogBufferSize + Age(p)
    BY <1>3, <1>4, <1>5, <2>1, SizeAssumption DEF SeenAt
  <2>3. ring[p] = Newest(cur) + 1 /\ Newest(cur) # last
    BY <1>3, <1>4, <1>5, <2>1, <2>2, SizeAssumption
  <2>4. QED BY <1>1, <1>7, <2>3
<1>8. QED
  BY <1>6, <1>7

(* Every step of the endpoint is a step of the fan-out or changes nothing   *)
(* of it.                                                                   *)
LEMMA StepRefines == IInv /\ [Next]_vars => [Fanout!Next]_(Fanout!vars)
<1> SUFFICES ASSUME IInv, [Next]_vars PROVE [Fanout!Next]_(Fanout!vars)
  OBVIOUS
<1> USE SizeAssumption DEF seen, loopVars, ringVars, clientVars, Fanout!vars
<1>1. CASE Read
  <2>1. \A c \in Clients : conn[c] # "down" => got[c] = <<>> \/ Newest(c) = last
    BY <1>1 DEF Read, IInv, Places, Windows, UpTo
  <2>2. Fanout!Publish
    BY <1>1, <2>1
    DEF Read, Fanout!Publish, Fanout!UpToDate, Fanout!Newest, Newest
  <2>3. QED BY <2>2 DEF Fanout!Next
<1>2. CASE WriteSlot
  <2>1. got[cur] \in Seq(Nat) /\ got' = [got EXCEPT ![cur] = Append(@, ring[p])]
    BY <1>2, CatchUpChunk DEF WriteSlot, IInv, TypeOK
  <2>2. conn' = conn /\ last' = last
    BY <1>2 DEF WriteSlot
  <2>3. CASE got[cur] = <<>>
    <3>0. ring[p] = Fanout!Oldest
      BY <1>2, <2>3, CatchUpChunk
    <3>1. got' = [got EXCEPT ![cur] = <<Fanout!Oldest>>]
      BY <2>1, <2>3, <3>0
    <3>2. QED
      BY <1>2, <2>2, <2>3, <3>1, CatchUpChunk DEF Fanout!Feed, Fanout!Next
  <2>4. CASE got[cur] # <<>>
    <3>1. /\ got' = [got EXCEPT ![cur] = Append(@, Fanout!Newest(@) + 1)]
          /\ ~Fanout!UpToDate(cur)
      BY <1>2, <2>1, <2>4, CatchUpChunk
      DEF Fanout!Newest, Fanout!UpToDate, Newest
    <3>2. QED
      BY <1>2, <2>2, <2>4, <3>1, CatchUpChunk DEF Fanout!Feed, Fanout!Next
  <2>5. QED BY <2>3, <2>4
<1>3. ASSUME NEW c \in Clients, Deliver(c), conn[c] = "up"
      PROVE  Fanout!Feed(c)
  <2>1. UpTo(c, last - 1) /\ last > 0 /\ last \in Nat /\ got[c] \in Seq(Nat)
    BY <1>3 DEF Deliver, IInv, TypeOK, Places, Windows
  <2>2. got' = [got EXCEPT ![c] = Append(@, last)] /\ conn' = conn /\ last' = last
    BY <1>3 DEF Deliver
  <2>3. CASE got[c] = <<>>
    <3>1. last = Fanout!Oldest
      BY <2>1, <2>3 DEF UpTo, Fanout!Oldest
    <3>2. got' = [got EXCEPT ![c] = <<Fanout!Oldest>>]
      BY <2>2, <2>3, <3>1
    <3>3. QED
      BY <1>3, <2>1, <2>2, <2>3, <3>2 DEF Fanout!Feed
  <2>4. CASE got[c] # <<>>
    <3>1. Fanout!Newest(got[c]) = last - 1 /\ Fanout!Newest(got[c]) + 1 = last
      BY <2>1, <2>4 DEF UpTo, Newest, Fanout!Newest
    <3>2. got' = [got EXCEPT ![c] = Append(@, Fanout!Newest(@) + 1)]
      BY <2>2, <3>1
    <3>3. QED
      BY <1>3, <2>1, <2>2, <2>4, <3>1, <3>2 DEF Fanout!Feed, Fanout!UpToDate
  <2>5. QED BY <2>3, <2>4
<1>4. ASSUME NEW c \in Clients, Deliver(c), conn[c] # "up"
      PROVE  UNCHANGED Fanout!vars
  BY <1>4 DEF Deliver
<1>5. ASSUME NEW c \in Clients, Wait(c)
      PROVE  Fanout!Lose(c)
  BY <1>5 DEF Wait, Fanout!Lose, IInv, TypeOK
<1>6. ASSUME NEW c \in Clients, Drop(c)
      PROVE  Fanout!Lose(c)
  BY <1>6 DEF Drop, SetConn, Fanout!Lose, IInv, TypeOK
<1>7. ASSUME NEW c \in Clients, Stall(c) \/ Resume(c)
      PROVE  UNCHANGED Fanout!vars
  BY <1>7 DEF Stall, Resume, SetConn, IInv, TypeOK
<1>8. ASSUME NEW c \in Clients, HandleHttp(c) \/ AddWriter(c)
      PROVE  UNCHANGED Fanout!vars
  BY <1>8 DEF HandleHttp, AddWriter
<1>9. ASSUME Cancel \/ ReadError \/ Control
      PROVE  UNCHANGED Fanout!vars
  BY <1>9
  DEF Cancel, ReadError, Control, FirstWriter, SelectWriter, SelectDone,
      SelectDefault, DrainWriterCh, SkipSlot, FailSlot, EndCatchUp, Store,
      StartCatchUp, DeliverError
<1>10. CASE UNCHANGED vars
  BY <1>10 DEF vars
<1>11. QED
  BY <1>1, <1>2, <1>3, <1>4, <1>5, <1>6, <1>7, <1>8, <1>9, <1>10
  DEF Next, Handler, Client, Fanout!Next

(* The endpoint implements the abstract fan-out: gap-free, in order, and    *)
(* never more than one chunk behind, for every viewer still connected.      *)
THEOREM Refinement == Spec => RefinesFanout
<1>1. Init => Fanout!Init
  BY DEF Init, Fanout!Init
<1>2. QED
  BY <1>1, StepRefines, Invariance, PTL DEF Spec, RefinesFanout, Fanout!Spec

(* The chunks that a viewer has follow each other. *)
Consecutive ==
  \A c \in Clients : \A i \in 1 .. Len(got[c]) :
    got[c][i] \in 1 .. last /\ got[c][i] = got[c][1] + (i - 1)

LEMMA ConsecutiveStep ==
  ASSUME TypeOK, Consecutive, [Fanout!Next]_(Fanout!vars)
  PROVE  Consecutive'
<1> USE DEF Fanout!vars
<1>0. last \in Nat /\ got \in [Clients -> Seq(Nat)]
  BY DEF TypeOK
<1>1. CASE Fanout!Publish
  <2>1. last' = last + 1 /\ got' = got
    BY <1>1 DEF Fanout!Publish
  <2>2. QED
    BY <1>0, <2>1 DEF Consecutive
<1>2. ASSUME NEW v \in Clients, Fanout!Feed(v)
      PROVE  Consecutive'
  <2>1. last' = last /\ last > 0
    BY <1>2 DEF Fanout!Feed
  <2>2. SUFFICES ASSUME NEW c \in Clients, NEW i \in 1 .. Len(got'[c])
                 PROVE  got'[c][i] \in 1 .. last /\ got'[c][i] = got'[c][1] + (i - 1)
    BY <2>1 DEF Consecutive
  <2>3. CASE got' = [got EXCEPT ![v] = <<Fanout!Oldest>>]
    <3>1. Fanout!Oldest \in 1 .. last
      <4>1. LogBufferSize \in Nat \ {0}
        BY SizeAssumption
      <4>2. QED
        BY <1>0, <2>1, <4>1 DEF Fanout!Oldest
    <3> DEFINE o == Fanout!Oldest
    <3> HIDE DEF o
    <3>2. c = v => got'[c] = <<o>>
      BY <1>0, <2>3 DEF o
    <3>3. c # v => got'[c] = got[c]
      BY <1>0, <2>3
    <3>4. CASE c = v
      BY <3>1, <3>2, <3>4 DEF o
    <3>5. CASE c # v
      BY <2>2, <3>3, <3>5 DEF Consecutive
    <3>6. QED
      BY <3>4, <3>5
  <2>4. CASE /\ got' = [got EXCEPT ![v] = Append(@, Fanout!Newest(@) + 1)]
             /\ ~Fanout!UpToDate(v)
    <3> DEFINE s == got[v]
               k == s[Len(s)]
    <3>1. s \in Seq(Nat) /\ s # <<>> /\ k # last
      BY <1>0, <2>4 DEF Fanout!UpToDate, Fanout!Newest
    <3>2. Len(s) \in 1 .. Len(s) /\ Len(s) \in Nat
      BY <3>1, EmptySeq
    <3>3. k \in 1 .. last
      BY <3>2 DEF Consecutive
    <3>4. k + 1 \in 1 .. last /\ k + 1 \in Nat
      BY <1>0, <3>1, <3>3
    <3>5. c = v => got'[c] = Append(s, k + 1)
      BY <1>0, <2>4 DEF Fanout!Newest
    <3>6. c # v => got'[c] = got[c]
      BY <1>0, <2>4
    <3>7. CASE c = v
      <4>1. /\ \A j \in 1 .. Len(s) : s[j] \in 1 .. last /\ s[j] = s[1] + (j - 1)
            /\ k = s[Len(s)]
        BY DEF Consecutive
      <4> HIDE DEF s, k
      <4>2. /\ Len(Append(s, k + 1)) = Len(s) + 1
            /\ \A j \in 1 .. Len(s) : Append(s, k + 1)[j] = s[j]
            /\ Append(s, k + 1)[Len(s) + 1] = k + 1
        BY <3>1, <3>4, AppendProperties
      <4>3. i \in 1 .. Len(s) + 1
        BY <2>2, <3>5, <3>7, <4>2
      <4>4. got'[c][1] = s[1] /\ s[1] \in Nat
        <5>1. 1 \in 1 .. Len(s)
          BY <3>2
        <5>2. s[1] \in 1 .. last
          BY <4>1, <5>1
        <5>3. QED
          BY <1>0, <3>5, <3>7, <4>2, <5>1, <5>2
      <4>5. CASE i = Len(s) + 1
        <5>1. got'[c][i] = k + 1 /\ k = s[1] + (Len(s) - 1)
          BY <3>2, <3>5, <3>7, <4>1, <4>2, <4>5
        <5>2. QED
          BY <3>2, <3>4, <4>4, <4>5, <5>1
      <4>6. CASE i # Len(s) + 1
        <5>1. i \in 1 .. Len(s)
          BY <3>2, <4>3, <4>6
        <5>2. got'[c][i] = s[i]
          BY <3>5, <3>7, <4>2, <5>1
        <5>3. QED
          BY <4>1, <4>4, <5>1, <5>2
      <4>7. QED
        BY <4>5, <4>6
    <3>8. CASE c # v
      BY <2>2, <3>6, <3>8 DEF Consecutive
    <3>9. QED
      BY <3>7, <3>8
  <2>5. QED
    BY <1>2, <2>3, <2>4 DEF Fanout!Feed
<1>3. ASSUME NEW v \in Clients, Fanout!Lose(v)
      PROVE  Consecutive'
  BY <1>3 DEF Fanout!Lose, Consecutive
<1>4. CASE UNCHANGED Fanout!vars
  BY <1>4 DEF Consecutive
<1>5. QED
  BY <1>1, <1>2, <1>3, <1>4 DEF Fanout!Next

(* What a viewer is sent has no gap, no repetition and nothing out of order,     *)
(* whichever of its chunks came from the ring.                                   *)
THEOREM ConsecutiveAlways == Spec => []Consecutive
<1>1. Init => Consecutive
  <2> SUFFICES ASSUME Init, NEW c \in Clients PROVE 1 .. Len(got[c]) = {}
    BY DEF Consecutive
  <2>1. got[c] = <<>>
    BY DEF Init
  <2>2. QED
    BY <2>1
<1>2. IInv /\ Consecutive /\ [Next]_vars => Consecutive'
  BY StepRefines, ConsecutiveStep DEF IInv
<1>3. QED
  BY <1>1, <1>2, Invariance, PTL DEF Spec

(* As long as the ring has forgotten nothing, a viewer has the log from its      *)
(* first chunk on.                                                               *)
FromStart ==
  last <= LogBufferSize => \A c \in Clients : got[c] # <<>> => got[c][1] = 1

LEMMA FromStartStep ==
  ASSUME TypeOK, FromStart, [Fanout!Next]_(Fanout!vars)
  PROVE  FromStart'
<1> USE DEF Fanout!vars
<1>0. last \in Nat /\ got \in [Clients -> Seq(Nat)] /\ LogBufferSize \in Nat
  BY SizeAssumption DEF TypeOK
<1>1. CASE Fanout!Publish
  BY <1>0, <1>1 DEF Fanout!Publish, FromStart
<1>2. ASSUME NEW v \in Clients, Fanout!Feed(v)
      PROVE  FromStart'
  <2>1. last' = last /\ last > 0
    BY <1>2 DEF Fanout!Feed
  <2>2. SUFFICES ASSUME last <= LogBufferSize, NEW c \in Clients, got'[c] # <<>>
                 PROVE  got'[c][1] = 1
    BY <2>1 DEF FromStart
  <2>3. CASE got[v] = <<>> /\ got' = [got EXCEPT ![v] = <<Fanout!Oldest>>]
    <3>1. Fanout!Oldest = 1
      BY <1>0, <2>2 DEF Fanout!Oldest
    <3>2. got' = [got EXCEPT ![v] = <<1>>]
      BY <2>3, <3>1
    <3>3. CASE c = v
      BY <1>0, <3>2, <3>3
    <3>4. CASE c # v
      BY <1>0, <2>2, <3>2, <3>4 DEF FromStart
    <3>5. QED
      BY <3>3, <3>4
  <2>4. CASE got[v] # <<>> /\ got' = [got EXCEPT ![v] = Append(@, Fanout!Newest(@) + 1)]
    <3>1. CASE c = v
      <4>1. got[v] \in Seq(Nat) /\ 1 \in 1 .. Len(got[v])
        BY <1>0, <2>4, EmptySeq
      <4>2. \A x : Append(got[v], x)[1] = got[v][1]
        BY <4>1
      <4>3. got'[c][1] = got[v][1]
        BY <1>0, <2>4, <3>1, <4>2
      <4>4. QED
        BY <2>2, <2>4, <4>3 DEF FromStart
    <3>2. CASE c # v
      BY <1>0, <2>2, <2>4, <3>2 DEF FromStart
    <3>3. QED
      BY <3>1, <3>2
  <2>5. QED
    BY <1>2, <2>3, <2>4 DEF Fanout!Feed, Fanout!UpToDate
<1>3. ASSUME NEW v \in Clients, Fanout!Lose(v)
      PROVE  FromStart'
  BY <1>3 DEF Fanout!Lose, FromStart
<1>4. CASE UNCHANGED Fanout!vars
  BY <1>4 DEF FromStart
<1>5. QED
  BY <1>1, <1>2, <1>3, <1>4 DEF Fanout!Next

(* The ring and the catch-up give every viewer the log from its start, until     *)
(* more chunks have been read than the ring holds (logs.go:46).                  *)
THEOREM FromStartAlways == Spec => []FromStart
<1>1. Init => FromStart
  BY DEF Init, FromStart
<1>2. IInv /\ FromStart /\ [Next]_vars => FromStart'
  BY StepRefines, FromStartStep DEF IInv
<1>3. QED
  BY <1>1, <1>2, Invariance, PTL DEF Spec

-----------------------------------------------------------------------------
(* What NewcomersServed and LaggardsCatchUp rest on: a round of the pump is  *)
(* finite, and nothing but a viewer that stalls can hold it up.              *)

Arrived == {c \in Clients : hs[c] # "idle"}

FewArrived == IsFiniteSet(Arrived)

(* Finitely many requests have come at any time, of however many come.       *)
LEMMA FewArrivedAlways == Spec => []FewArrived
<1>1. Init => FewArrived
  <2>1. Init => Arrived = {}
    BY DEF Init, Arrived
  <2>2. QED
    BY <2>1, FS_EmptySet DEF FewArrived
<1>2. ASSUME IInv, FewArrived, [Next]_vars PROVE FewArrived'
  <2>1. hs \in [Clients -> HandlerStates]
    BY <1>2 DEF IInv, TypeOK
  <2>2. ASSUME NEW c \in Clients, NEW s, hs' = [hs EXCEPT ![c] = s] PROVE FewArrived'
    <3>1. Arrived' \subseteq Arrived \cup {c}
      BY <2>1, <2>2 DEF Arrived
    <3>2. IsFiniteSet(Arrived \cup {c})
      BY <1>2, FS_AddElement DEF FewArrived
    <3>3. QED
      BY <3>1, <3>2, FS_Subset DEF FewArrived
  <2>3. ASSUME NEW c \in Clients, Handler(c) PROVE FewArrived'
    BY <2>2, <2>3 DEF Handler, HandleHttp, AddWriter, Wait
  <2>4. CASE hs' = hs
    BY <1>2, <2>4 DEF FewArrived, Arrived
  <2>5. QED
    BY <1>2, <2>3, <2>4
    DEF Next, Cancel, Read, ReadError, Control, FirstWriter, SelectWriter, SelectDone,
        SelectDefault, DrainWriterCh, SkipSlot, FailSlot, EndCatchUp, Store, StartCatchUp,
        DeliverError, WriteSlot, Client, Stall, Resume, Drop, SetConn, Deliver, vars, clientVars
<1>3. QED
  BY <1>1, <1>2, Invariance, PTL DEF Spec

(* The writers that the pump has still to admit. *)
Unadmitted == {c \in Clients : hs[c] = "sending"} \cup Queued

(* A writer is taken, is caught up from every slot, and gets the new chunk.   *)
PerWriter == LogBufferSize + 3

ToAdmit == PerWriter * Cardinality(Unadmitted)

SlotsLeft == IF cur = Nil THEN 0 ELSE LogBufferSize - Age(p)

(* At most this many steps of the pump are left before its next Read. *)
Work ==
  ToAdmit +
  CASE pc = "first" -> 2
    [] pc = "read" -> 1
    [] pc = "select" -> Cardinality(ws) + 5
    [] pc = "drain" -> (LogBufferSize + 2) * Cardinality(newWs) + Cardinality(ws) + 4
    [] pc = "catchup" -> (LogBufferSize + 1) * Cardinality(todo) + SlotsLeft
                           + Cardinality(newWs) + Cardinality(ws) + 3
    [] pc = "deliver" -> Cardinality(todo) + 2
    [] pc = "done" -> 0

LEMMA AgeFacts ==
  ASSUME TypeOK
  PROVE  /\ Age(at) = 0 /\ Age(p) \in 0 .. LogBufferSize - 1
         /\ IF NextSlot(p) = at THEN Age(p) = LogBufferSize - 1
                                ELSE Age(NextSlot(p)) = Age(p) + 1
<1>1. LogBufferSize \in Nat /\ p \in 0 .. LogBufferSize - 1 /\ at \in 0 .. LogBufferSize - 1
  BY SizeAssumption DEF TypeOK, Slots
<1>2. QED
  BY <1>1 DEF Age, NextSlot

(* The sets that are counted hold requests that have come. *)
LEMMA SizesFit ==
  ASSUME IInv, FewArrived
  PROVE  /\ IsFiniteSet(Unadmitted) /\ Cardinality(Unadmitted) \in Nat
         /\ IsFiniteSet(ws) /\ Cardinality(ws) \in Nat
         /\ IsFiniteSet(newWs) /\ Cardinality(newWs) \in Nat
         /\ IsFiniteSet(todo) /\ Cardinality(todo) \in Nat
<1>1. /\ ws \subseteq Clients /\ newWs \subseteq Clients /\ todo \subseteq Clients
      /\ wch \in Seq(Clients)
      /\ \A c \in Clients : hs[c] \in {"idle", "sending"} => c \notin Queued \cup ws \cup newWs
      /\ todo = {} \/ todo \subseteq newWs \/ todo \subseteq ws
  BY DEF IInv, TypeOK, Places
<1>2. Queued \subseteq Clients
  BY <1>1, ElementOfSeq DEF Queued, Members
<1>3. /\ ws \subseteq Arrived /\ newWs \subseteq Arrived /\ todo \subseteq Arrived
      /\ Unadmitted \subseteq Arrived
  BY <1>1, <1>2 DEF Arrived, Unadmitted
<1>4. ASSUME NEW S \in SUBSET Arrived
      PROVE  IsFiniteSet(S) /\ Cardinality(S) \in Nat
  BY FS_Subset, FS_CardinalityType DEF FewArrived
<1>5. QED
  BY <1>3, <1>4

(* A product with one factor less. *)
LEMMA OneLess ==
  ASSUME NEW a \in Nat, NEW b \in Nat
  PROVE  a * b \in Nat /\ a * (b + 1) = a * b + a /\ a * (b - 1) = a * b - a /\ a * 0 = 0
OBVIOUS

(* A writer that is taken from wch is admitted. *)
LEMMA AdmitFacts ==
  ASSUME IInv, FewArrived, wch # <<>>, wch' = Tail(wch), hs' = hs
  PROVE  ToAdmit \in Nat /\ ToAdmit' = ToAdmit - PerWriter
<1>1. Unadmitted' = Unadmitted \ {Head(wch)} /\ Head(wch) \in Unadmitted
  <2>1. Queued' = Queued \ {Head(wch)} /\ Head(wch) \in Queued /\ Head(wch) \in Clients
    BY ReceiveFacts DEF Queued
  <2>2. hs[Head(wch)] # "sending"
    BY <2>1 DEF IInv, Places
  <2>3. QED
    BY <2>1, <2>2 DEF Unadmitted
<1> DEFINE n == Cardinality(Unadmitted)
<1>2. n \in Nat /\ n' = n - 1
  BY <1>1, SizesFit, FS_RemoveElement
<1>3. PerWriter \in Nat
  BY SizeAssumption DEF PerWriter
<1>4. ToAdmit = PerWriter * n /\ ToAdmit' = PerWriter * n'
  BY DEF ToAdmit, PerWriter
<1> HIDE DEF n
<1>5. PerWriter * n \in Nat /\ PerWriter * (n - 1) = PerWriter * n - PerWriter
  BY <1>2, <1>3, OneLess
<1>6. QED
  BY <1>2, <1>4, <1>5

LEMMA AdmitSize == ASSUME IInv, FewArrived PROVE ToAdmit \in Nat
<1>1. PerWriter \in Nat /\ Cardinality(Unadmitted) \in Nat
  BY SizeAssumption, SizesFit DEF PerWriter
<1>2. QED
  BY <1>1, OneLess DEF ToAdmit

LEMMA AdmitSame == ASSUME UNCHANGED <<hs, wch>> PROVE ToAdmit' = ToAdmit
BY DEF ToAdmit, PerWriter, Unadmitted, Queued, Members

(* Each step of the pump leaves less of its round. *)
RoundGoesOn == Work' < Work \/ (Work' = Work /\ UNCHANGED <<pc, loopVars, ringVars, last>>)

LEMMA RoundSteps ==
  ASSUME IInv, FewArrived, Next, ~Read, \A c \in Clients : ~HandleHttp(c)
  PROVE  RoundGoesOn
<1> DEFINE W == Cardinality(ws)
           N == Cardinality(newWs)
           T == Cardinality(todo)
           S == LogBufferSize
<1>0. /\ W \in Nat /\ N \in Nat /\ T \in Nat /\ S \in Nat /\ S >= 1
      /\ ToAdmit \in Nat /\ PerWriter = S + 3
      /\ TypeOK /\ IsFiniteSet(ws) /\ IsFiniteSet(newWs) /\ IsFiniteSet(todo)
  BY SizesFit, AdmitSize, SizeAssumption DEF PerWriter, IInv
<1>1. /\ (S + 2) * N \in Nat /\ (S + 1) * T \in Nat /\ (S + 1) * N \in Nat
      /\ (S + 2) * N = (S + 1) * N + N
      /\ (S + 2) * (N + 1) = (S + 2) * N + (S + 2)
      /\ (S + 1) * (T - 1) = (S + 1) * T - (S + 1)
      /\ (S + 2) * 1 = S + 2 /\ (S + 1) * 0 = 0
  <2>1. S + 2 \in Nat /\ S + 1 \in Nat
    BY <1>0
  <2>2. (S + 2) * N = (S + 1) * N + N /\ (S + 2) * 1 = S + 2
    BY <1>0
  <2>3. QED
    BY <1>0, <2>1, <2>2, OneLess
<1> DEFINE slots == IF cur = Nil THEN 0 ELSE S - Age(p)
<1>2. slots \in 0 .. S /\ SlotsLeft = slots
  BY <1>0, AgeFacts DEF SlotsLeft
(* What Work is, by where the pump is. *)
<1>3. /\ pc = "first" => Work = ToAdmit + 2
      /\ pc = "read" => Work = ToAdmit + 1
      /\ pc = "select" => Work = ToAdmit + (W + 5)
      /\ pc = "drain" => Work = ToAdmit + ((S + 2) * N + W + 4)
      /\ pc = "catchup" => Work = ToAdmit + ((S + 1) * T + SlotsLeft + N + W + 3)
      /\ pc = "deliver" => Work = ToAdmit + (T + 2)
      /\ pc = "done" => Work = ToAdmit + 0
  BY DEF Work
<1>4. /\ pc' = "first" => Work' = ToAdmit' + 2
      /\ pc' = "read" => Work' = ToAdmit' + 1
      /\ pc' = "select" => Work' = ToAdmit' + (W' + 5)
      /\ pc' = "drain" => Work' = ToAdmit' + ((S + 2) * N' + W' + 4)
      /\ pc' = "catchup" => Work' = ToAdmit' + ((S + 1) * T' + SlotsLeft' + N' + W' + 3)
      /\ pc' = "deliver" => Work' = ToAdmit' + (T' + 2)
      /\ pc' = "done" => Work' = ToAdmit' + 0
  BY DEF Work
<1>5. UNCHANGED <<pc, loopVars, at, ToAdmit>> => Work' = Work
  BY DEF Work, SlotsLeft, Age, loopVars
<1> USE DEF RoundGoesOn
<1>6. CASE Cancel \/ \E c \in Clients : Client(c)
  <2>1. UNCHANGED <<pc, loopVars, ringVars, last, hs, wch>>
    BY <1>6 DEF Cancel, Client, Stall, Resume, Drop, SetConn, clientVars
  <2>2. QED
    BY <2>1, <1>5, AdmitSame DEF ringVars
<1>7. ASSUME NEW c \in Clients, Handler(c) PROVE RoundGoesOn
  <2>1. UNCHANGED <<pc, loopVars, ringVars, last>>
    BY <1>7 DEF Handler, HandleHttp, AddWriter, Wait
  <2>2. Unadmitted' = Unadmitted
    <3>1. CASE AddWriter(c)
      <4>1. Queued' = Queued \cup {c} /\ hs[c] = "sending" /\ hs' = [hs EXCEPT ![c] = "waiting"]
        BY <3>1, SendFacts DEF AddWriter, Queued
      <4>2. QED
        BY <1>0, <4>1 DEF Unadmitted, TypeOK
    <3>2. CASE Wait(c)
      <4>1. wch' = wch /\ hs[c] = "waiting" /\ hs' = [hs EXCEPT ![c] = "returned"]
        BY <3>2 DEF Wait
      <4>2. QED
        BY <1>0, <4>1 DEF Unadmitted, TypeOK, Queued, Members
    <3>3. QED
      BY <1>7, <3>1, <3>2 DEF Handler
  <2>3. ToAdmit' = ToAdmit
    BY <2>2 DEF ToAdmit, PerWriter
  <2>4. QED
    BY <2>1, <2>3, <1>5 DEF ringVars
<1>8. CASE ReadError \/ SelectDone
  <2>1. pc \in {"read", "select"} /\ pc' = "done" /\ UNCHANGED <<hs, wch>>
    BY <1>8 DEF ReadError, SelectDone, clientVars
  <2>2. ToAdmit' = ToAdmit
    BY <2>1, AdmitSame
  <2>3. QED
    BY <1>0, <1>3, <1>4, <2>1, <2>2
<1>9. CASE FirstWriter
  <2>1. pc = "first" /\ pc' = "read" /\ wch # <<>> /\ wch' = Tail(wch) /\ hs' = hs
    BY <1>9 DEF FirstWriter, clientVars
  <2>2. ToAdmit' = ToAdmit - PerWriter
    BY <2>1, AdmitFacts
  <2>3. QED
    BY <1>0, <1>3, <1>4, <2>1, <2>2
<1>10. CASE SelectWriter
  <2>1. /\ pc = "select" /\ pc' = "drain" /\ wch # <<>> /\ wch' = Tail(wch) /\ hs' = hs
        /\ newWs' = {Head(wch)} /\ ws' = ws
    BY <1>10 DEF SelectWriter, clientVars
  <2>2. ToAdmit' = ToAdmit - PerWriter /\ W' = W /\ N' = 1
    BY <2>1, AdmitFacts, FS_Singleton
  <2>3. (S + 2) * N' = S + 2
    BY <2>2, <1>1
  <2>4. QED
    BY <1>0, <1>3, <1>4, <2>1, <2>2, <2>3
<1>11. CASE SelectDefault
  <2>1. pc = "select" /\ pc' = "deliver" /\ UNCHANGED <<hs, wch>> /\ todo' = ws
    BY <1>11 DEF SelectDefault, clientVars
  <2>2. ToAdmit' = ToAdmit /\ T' = W
    BY <2>1, AdmitSame
  <2>3. QED
    BY <1>0, <1>3, <1>4, <2>1, <2>2
<1>12. CASE DrainWriterCh
  <2>1. CASE wch # <<>>
    <3>1. /\ pc = "drain" /\ pc' = "drain" /\ wch' = Tail(wch) /\ hs' = hs
          /\ newWs' = newWs \cup {Head(wch)} /\ ws' = ws
      BY <1>12, <2>1 DEF DrainWriterCh, clientVars
    <3>2. ToAdmit' = ToAdmit - PerWriter
      BY <2>1, <3>1, AdmitFacts
    <3>3. Head(wch) \notin newWs
      BY <2>1, ReceiveFacts DEF IInv, Places, Queued
    <3>4. N' = N + 1 /\ W' = W
      BY <1>0, <3>1, <3>3, FS_AddElement
    <3>5. (S + 2) * N' = (S + 2) * N + (S + 2)
      BY <1>1, <3>4
    <3>6. Work = ToAdmit + ((S + 2) * N + W + 4)
      BY <1>3, <3>1
    <3>7. Work' = (ToAdmit - (S + 3)) + (((S + 2) * N + (S + 2)) + W + 4)
      BY <1>0, <1>4, <3>1, <3>2, <3>4, <3>5
    <3>8. Work' < Work
      <4> DEFINE product == (S + 2) * N
      <4>1. product \in Nat /\ Work = ToAdmit + (product + W + 4)
            /\ Work' = (ToAdmit - (S + 3)) + ((product + (S + 2)) + W + 4)
        BY <1>1, <3>6, <3>7
      <4> HIDE DEF product
      <4>2. QED
        BY <1>0, <4>1
    <3>9. QED
      BY <3>8
  <2>2. CASE wch = <<>>
    <3>1. /\ pc = "drain" /\ pc' = "catchup" /\ UNCHANGED <<wch, hs, newWs, ws, cur, p, at>>
          /\ todo' = newWs
      BY <1>12, <2>2 DEF DrainWriterCh, clientVars, ringVars
    <3>2. ToAdmit' = ToAdmit /\ T' = N /\ N' = N /\ W' = W
      BY <3>1, AdmitSame
    <3>3. cur = Nil
      BY <3>1 DEF IInv, Places
    <3>4. SlotsLeft' = 0
      BY <3>1, <3>3 DEF SlotsLeft
    <3>5. QED
      BY <1>0, <1>1, <1>3, <1>4, <3>1, <3>2, <3>4
  <2>3. QED
    BY <2>1, <2>2
<1>13. ASSUME NEW w \in Clients, StartCatchUp(w) PROVE RoundGoesOn
  <2>1. /\ pc = "catchup" /\ pc' = "catchup" /\ cur = Nil /\ w \in todo /\ cur' = w /\ p' = at
        /\ todo' = todo \ {w} /\ UNCHANGED <<hs, wch, newWs, ws, at>>
    BY <1>13 DEF StartCatchUp, clientVars, ringVars
  <2>2. ToAdmit' = ToAdmit /\ N' = N /\ W' = W
    BY <2>1, AdmitSame
  <2>3. T' = T - 1
    BY <1>0, <2>1, FS_RemoveElement
  <2>4. SlotsLeft = 0
    BY <2>1 DEF SlotsLeft
  <2>5. SlotsLeft' = S
    <3>1. w # Nil /\ Age(p)' = Age(at)
      BY <2>1, NilAssumption DEF Age
    <3>2. QED
      BY <1>0, <2>1, <3>1, AgeFacts DEF SlotsLeft
  <2>6. (S + 1) * T' = (S + 1) * T - (S + 1)
    BY <1>1, <2>3
  <2>7. QED
    BY <1>0, <1>1, <1>3, <1>4, <2>1, <2>2, <2>4, <2>5, <2>6
<1>14. CASE SkipSlot \/ WriteSlot
  <2>1. /\ pc = "catchup" /\ pc' = "catchup" /\ cur # Nil /\ Advance
        /\ UNCHANGED <<hs, wch, newWs, ws, todo, at>>
    BY <1>14 DEF SkipSlot, WriteSlot, clientVars, ringVars
  <2>2. ToAdmit' = ToAdmit /\ N' = N /\ W' = W /\ T' = T
    BY <2>1, AdmitSame
  <2>3. SlotsLeft = S - Age(p) /\ Age(p) \in 0 .. S - 1
    BY <1>0, <2>1, AgeFacts DEF SlotsLeft
  <2>4. SlotsLeft' = SlotsLeft - 1
    <3>1. CASE NextSlot(p) = at
      <4>1. SlotsLeft' = 0
        BY <2>1, <3>1 DEF Advance, SlotsLeft
      <4>2. Age(p) = S - 1
        BY <1>0, <3>1, AgeFacts
      <4>3. QED
        BY <1>0, <2>3, <4>1, <4>2
    <3>2. CASE NextSlot(p) # at
      <4>1. cur' = cur /\ Age(p)' = Age(NextSlot(p))
        BY <2>1, <3>2 DEF Advance, Age
      <4>2. Age(NextSlot(p)) = Age(p) + 1
        BY <1>0, <3>2, AgeFacts
      <4>3. SlotsLeft' = S - (Age(p) + 1)
        BY <2>1, <4>1, <4>2 DEF SlotsLeft
      <4>4. QED
        BY <1>0, <2>3, <4>3
    <3>3. QED
      BY <3>1, <3>2
  <2>5. QED
    BY <1>0, <1>1, <1>3, <1>4, <2>1, <2>2, <2>3, <2>4
<1>15. CASE FailSlot
  <2>1. /\ pc = "catchup" /\ pc' = "catchup" /\ cur # Nil /\ newWs' = newWs \ {cur} /\ cur' = Nil
        /\ UNCHANGED <<hs, wch, ws, todo>> /\ cur \in newWs
    BY <1>15 DEF FailSlot, clientVars, IInv, Places
  <2>2. ToAdmit' = ToAdmit /\ N' = N - 1 /\ W' = W /\ T' = T /\ SlotsLeft' = 0
    BY <1>0, <2>1, AdmitSame, FS_RemoveElement DEF SlotsLeft
  <2>3. QED
    BY <1>0, <1>1, <1>2, <1>3, <1>4, <2>1, <2>2
<1>16. CASE EndCatchUp
  <2>1. /\ pc = "catchup" /\ pc' = "deliver" /\ UNCHANGED <<hs, wch>>
        /\ todo = {} /\ cur = Nil /\ todo' = ws \cup newWs
    BY <1>16 DEF EndCatchUp, clientVars
  <2>2. ToAdmit' = ToAdmit /\ T = 0 /\ SlotsLeft = 0
    BY <2>1, AdmitSame, FS_EmptySet DEF SlotsLeft
  <2>3. T' = W + N
    <3>1. ws \cap newWs = {}
      BY DEF IInv, Places
    <3>2. Cardinality(ws \cup newWs) = W + N - Cardinality(ws \cap newWs)
      BY <1>0, FS_Union
    <3>3. Cardinality(ws \cap newWs) = 0
      BY <3>1, FS_EmptySet
    <3>4. QED
      BY <1>0, <2>1, <3>2, <3>3
  <2>4. (S + 1) * T = 0
    BY <1>1, <2>2
  <2>5. Work = ToAdmit + (0 + 0 + N + W + 3) /\ Work' = ToAdmit + ((W + N) + 2)
    BY <1>3, <1>4, <2>1, <2>2, <2>3, <2>4
  <2>6. QED
    BY <1>0, <2>5
<1>17. ASSUME NEW w \in Clients, Deliver(w) \/ DeliverError(w) PROVE RoundGoesOn
  <2>1. pc = "deliver" /\ pc' = "deliver" /\ w \in todo /\ todo' = todo \ {w} /\ UNCHANGED <<hs, wch>>
    BY <1>17 DEF Deliver, DeliverError, clientVars
  <2>2. ToAdmit' = ToAdmit /\ T' = T - 1
    BY <1>0, <2>1, AdmitSame, FS_RemoveElement
  <2>3. QED
    BY <1>0, <1>3, <1>4, <2>1, <2>2
<1>18. CASE Store
  <2>1. pc = "deliver" /\ pc' = "read" /\ UNCHANGED <<hs, wch>>
    BY <1>18 DEF Store, clientVars
  <2>2. ToAdmit' = ToAdmit
    BY <2>1, AdmitSame
  <2>3. QED
    BY <1>0, <1>3, <1>4, <2>1, <2>2
<1>19. QED
  BY <1>6, <1>7, <1>8, <1>9, <1>10, <1>11, <1>12, <1>13, <1>14, <1>15, <1>16, <1>17, <1>18
  DEF Next, Control

(* PipeLogsToWriters, between two Reads: however many viewers there are,     *)
(* only so many steps are left of the round, and each step of the pump is    *)
(* one of them.  Nothing but a new request or the next chunk makes it more.  *)
RoundsEnd ==
  [][Read \/ (\E c \in Clients : HandleHttp(c)) \/ RoundGoesOn]_vars

(* logs.go:55-96: every round of the pump ends, unless new requests keep coming. *)
THEOREM RoundsEndAlways == Spec => [](Work \in Nat) /\ RoundsEnd
<1>1. ASSUME IInv, FewArrived PROVE Work \in Nat
  <2>1. /\ Cardinality(ws) \in Nat /\ Cardinality(newWs) \in Nat /\ Cardinality(todo) \in Nat
        /\ ToAdmit \in Nat
    BY <1>1, SizesFit, AdmitSize
  <2>2. SlotsLeft \in Nat /\ LogBufferSize \in Nat
    BY <1>1, AgeFacts, SizeAssumption DEF SlotsLeft, IInv
  <2>3. (LogBufferSize + 2) * Cardinality(newWs) \in Nat
    BY <2>1, <2>2
  <2>4. (LogBufferSize + 1) * Cardinality(todo) \in Nat
    BY <2>1, <2>2
  <2>5. pc \in PumpStates
    BY <1>1 DEF IInv, TypeOK
  <2>6. QED
    BY <2>1, <2>2, <2>3, <2>4, <2>5 DEF Work, PumpStates
<1>2. ASSUME IInv, FewArrived, Next
      PROVE  Read \/ (\E c \in Clients : HandleHttp(c)) \/ RoundGoesOn
  BY <1>2, RoundSteps
<1>3. QED
  BY <1>1, <1>2, Invariance, FewArrivedAlways, PTL DEF Spec, RoundsEnd

(* The guards of the pump's steps between its Reads. *)
Proceeds ==
  \/ pc \in {"select", "drain"}
  \/ pc = "catchup" /\ (cur = Nil \/ ring[p] = 0 \/ conn[cur] # "stalled")
  \/ pc = "deliver" /\ (todo = {} \/ \E w \in todo : conn[w] # "stalled")

(* The pump writes to the writer, whose client does not read but has not gone *)
(* away either: the request is open, and ends when the context is done.      *)
HoldsUp(c) ==
  /\ conn[c] = "stalled" /\ hs[c] = "waiting"
  /\ c = cur \/ (pc = "deliver" /\ c \in todo)

(* logs.go: between two Reads only a viewer that stalls holds the pump up,    *)
(* and none whose request is over: as HandleHttp returns once the context is *)
(* done, even that one does not keep it from ending.                         *)
NeverBlocked ==
  pc \notin {"first", "read", "done"} => Proceeds \/ \E c \in ws \cup newWs : HoldsUp(c)

(* A client that stalls has a request that is open. *)
StalledIsOpen == \A c \in Clients : conn[c] = "stalled" => hs[c] \in {"sending", "waiting"}

LEMMA StalledIsOpenAlways == Spec => []StalledIsOpen
<1>1. Init => StalledIsOpen
  BY DEF Init, StalledIsOpen
<1>2. ASSUME IInv, StalledIsOpen, [Next]_vars PROVE StalledIsOpen'
  <2> USE DEF StalledIsOpen
  <2>1. hs \in [Clients -> HandlerStates] /\ conn \in [Clients -> ConnStates]
    BY <1>2 DEF IInv, TypeOK
  <2>2. ASSUME NEW c \in Clients, Handler(c) PROVE StalledIsOpen'
    BY <1>2, <2>1, <2>2 DEF Handler, HandleHttp, AddWriter, Wait
  <2>3. ASSUME NEW c \in Clients, Client(c) PROVE StalledIsOpen'
    BY <1>2, <2>1, <2>3 DEF Client, Stall, Resume, Drop, SetConn
  <2>4. CASE UNCHANGED <<hs, conn>>
    BY <1>2, <2>4
  <2>5. QED
    BY <1>2, <2>2, <2>3, <2>4
    DEF Next, Cancel, Read, ReadError, Control, FirstWriter, SelectWriter, SelectDone,
        SelectDefault, DrainWriterCh, SkipSlot, FailSlot, EndCatchUp, Store, StartCatchUp,
        DeliverError, WriteSlot, Deliver, vars, clientVars
<1>3. QED
  BY <1>1, <1>2, Invariance, PTL DEF Spec

(* logs.go:55-96: in no state of a round is the pump held up but by a viewer that *)
(* stalls and whose request is open.                                              *)
THEOREM NeverBlockedAlways == Spec => []NeverBlocked
<1>1. ASSUME IInv, StalledIsOpen PROVE NeverBlocked
  <2>1. /\ pc \in PumpStates /\ ws \cup newWs \subseteq Clients
        /\ cur # Nil => cur \in newWs
        /\ pc = "deliver" => todo \subseteq ws
        /\ \A c \in Clients : hs[c] \in {"idle", "sending"} => c \notin ws \cup newWs
    BY <1>1 DEF IInv, TypeOK, Places
  <2>2. ASSUME NEW c \in ws \cup newWs, conn[c] = "stalled" PROVE hs[c] = "waiting"
    BY <1>1, <2>1, <2>2 DEF StalledIsOpen
  <2>3. CASE pc = "catchup"
    BY <2>1, <2>2, <2>3 DEF NeverBlocked, Proceeds, HoldsUp
  <2>4. CASE pc = "deliver"
    BY <2>1, <2>2, <2>4 DEF NeverBlocked, Proceeds, HoldsUp
  <2>5. CASE pc \in {"first", "read", "select", "drain", "done"}
    BY <2>5 DEF NeverBlocked, Proceeds
  <2>6. QED
    BY <2>1, <2>3, <2>4, <2>5 DEF PumpStates
<1>2. QED
  BY <1>1, Invariance, StalledIsOpenAlways, PTL

(* logs.go:123: once the pump has returned it stays so, and nothing leaves   *)
(* wch any more: a handler that finds it full stays in AddWriter for ever,   *)
(* whatever becomes of its request and of the context.                       *)
Full == Len(wch) = WchCap

Stranded(c) == pc = "done" /\ Full /\ hs[c] = "sending"

(* A handler that is stranded in AddWriter never leaves it. *)
THEOREM StrandedForEver ==
  ASSUME NEW CONSTANT c \in Clients
  PROVE  Spec => [](Stranded(c) => []Stranded(c))
<1>1. ASSUME IInv, Stranded(c), [Next]_vars PROVE Stranded(c)'
  <2>1. hs \in [Clients -> HandlerStates] /\ pc = "done" /\ Len(wch) = WchCap /\ hs[c] = "sending"
    BY <1>1 DEF IInv, TypeOK, Stranded, Full
  <2>2. WchCap \in Nat
    BY SizeAssumption
  <2>3. CASE Cancel \/ UNCHANGED vars
    BY <2>1, <2>3 DEF Cancel, Stranded, Full, clientVars, vars
  <2>4. ASSUME NEW d \in Clients, HandleHttp(d) \/ Wait(d) \/ Client(d) PROVE Stranded(c)'
    BY <2>1, <2>4
    DEF HandleHttp, Wait, Client, Stall, Resume, Drop, SetConn, Stranded, Full
  <2>5. ASSUME NEW d \in Clients, AddWriter(d) PROVE FALSE
    BY <2>1, <2>2, <2>5 DEF AddWriter
  <2>6. ASSUME Read \/ ReadError \/ Control \/ WriteSlot \/ \E d \in Clients : Deliver(d)
        PROVE  FALSE
    BY <2>1, <2>6
    DEF Read, ReadError, Control, FirstWriter, SelectWriter, SelectDone, SelectDefault,
        DrainWriterCh, SkipSlot, FailSlot, EndCatchUp, Store, StartCatchUp, DeliverError,
        WriteSlot, Deliver
  <2>7. QED
    BY <1>1, <2>3, <2>4, <2>5, <2>6 DEF Next, Handler
<1>2. QED
  BY <1>1, Invariance, PTL DEF Spec

(* Before the pump has its first viewer, whoever has queued is in wch. *)
FirstIsQueued ==
  pc = "first" => \A c \in Clients : hs[c] \in {"waiting", "returned"} => c \in Queued

LEMMA FirstIsQueuedAlways == Spec => []FirstIsQueued
<1>1. Init => FirstIsQueued
  BY DEF Init, FirstIsQueued
<1>2. ASSUME IInv, FirstIsQueued, [Next]_vars PROVE FirstIsQueued'
  <2> USE DEF FirstIsQueued
  <2>1. hs \in [Clients -> HandlerStates]
    BY <1>2 DEF IInv, TypeOK
  <2>2. ASSUME NEW c \in Clients, HandleHttp(c) \/ Wait(c) PROVE FirstIsQueued'
    <3>1. pc' = pc /\ wch' = wch
      BY <2>2 DEF HandleHttp, Wait
    <3>2. \A d \in Clients : hs'[d] \in {"waiting", "returned"} => hs[d] \in {"waiting", "returned"}
      BY <2>1, <2>2 DEF HandleHttp, Wait
    <3>3. QED
      BY <1>2, <3>1, <3>2 DEF Queued, Members
  <2>3. ASSUME NEW c \in Clients, AddWriter(c) PROVE FirstIsQueued'
    <3>1. pc' = pc /\ Queued' = Queued \cup {c} /\ hs' = [hs EXCEPT ![c] = "waiting"]
      BY <1>2, <2>3, SendFacts DEF AddWriter, Queued
    <3>2. QED
      BY <1>2, <2>1, <3>1
  <2>4. CASE UNCHANGED <<hs, wch, pc>>
    BY <1>2, <2>4 DEF Queued, Members
  <2>5. CASE pc' # "first"
    BY <2>5
  <2>6. QED
    BY <1>2, <2>2, <2>3, <2>4, <2>5
    DEF Next, Cancel, Read, ReadError, Control, FirstWriter, SelectWriter, SelectDone,
        SelectDefault, DrainWriterCh, SkipSlot, FailSlot, EndCatchUp, Store, StartCatchUp,
        DeliverError, WriteSlot, Deliver, vars, clientVars, Handler, Client, Stall, Resume,
        Drop, SetConn
<1>3. QED
  BY <1>1, <1>2, Invariance, PTL DEF Spec
=============================================================================
