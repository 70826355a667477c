---------------------------- MODULE ActionsProofs ----------------------------
(* The proofs about Actions: its safety properties, for every set of nodes, any  *)
(* number of actions at a time, all terms of asks and bids, and order books of   *)
(* any length.                                                                   *)
EXTENDS Actions, DealMatchProofs, SequenceTheorems, TLAPS

(* The places of CreateOrGetMinerIdentity. *)
AtIdentity == {"identity", "create", "store", "stored", "got"}

(* The local variables of an action are those of the place where it is. *)
NotesFit ==
  \A s \in Slots :
    /\ pc[s] \in AtIdentity \cup {"idle", "wallet", "balance", "asks", "bids", "import",
                                  "call", "waiting"}
    /\ pc[s] = "wallet" => note[s] \in Bidding
    /\ pc[s] = "balance" => note[s] \in Checking
    /\ pc[s] \in AtIdentity => note[s] \in Asking
    /\ pc[s] = "asks" => note[s] \in ReadingAsks
    /\ pc[s] = "bids" => note[s] \in ReadingBids
    /\ pc[s] = "import" => note[s] \in Dealing
    /\ pc[s] \in {"call", "waiting"} => note[s] \in Messages

(* AddNode asks for an identity only for miners. *)
NodesFit ==
  \A n \in Nodes :
    /\ pc[n] \in AtIdentity \cup {"off", "mine", "print", "nobytes", "added"}
    /\ pc[n] \in AtIdentity \cup {"print", "nobytes"} => n \in Miners

(* A payment knows no more of its wallet than there is to know, and where the    *)
(* funds that it saw are gone, a later debit has taken them.                     *)
Funded(m) ==
  m.kind = "payment" =>
    m.seen <= spent[m.node] /\ (bal[m.node] >= AmtToSend \/ m.seen < spent[m.node])

PaymentsFunded ==
  \A s \in Slots :
    /\ pc[s] \in {"call", "waiting"} => Funded(note[s])
    /\ sent[s] # Nil => Funded(sent[s])

(* The miner address is whole. *)
Whole(n) == minerAddr[n] \notin {NoAddr, Torn}

(* Who has stored a length, or read an address, has left one there; an ask that  *)
(* goes out has a whole one, unless the process is gone.                         *)
AsksWhole ==
  /\ \A t \in Threads : pc[t] \in {"stored", "got"} => minerAddr[NodeOf(t)] # NoAddr
  /\ \A s \in Slots :
       /\ ~crashed /\ pc[s] \in {"call", "waiting"} /\ note[s].kind = "ask"
            => Whole(note[s].node)
       /\ sent[s] # Nil /\ sent[s].kind = "ask" => Whole(sent[s].node)
  /\ \A i \in 1 .. Len(asks) : asks[i].owner \in Miners /\ Whole(asks[i].owner)

(* What a deal action has read is still there, and its choice the best of it.    *)
Chosen(d) ==
  /\ d.nasks <= Len(asks) /\ d.nbids <= Len(bids) /\ d.seen <= Len(deals)
  /\ IsBest(d)

DealsChosen ==
  /\ \A s \in Slots :
       /\ pc[s] = "bids" => note[s].nasks <= Len(asks)
       /\ pc[s] = "import" => Chosen(note[s])
       /\ pc[s] \in {"call", "waiting"} /\ note[s].kind = "deal" => Chosen(note[s])
       /\ sent[s] # Nil /\ sent[s].kind = "deal" => Chosen(sent[s])
  /\ \A i \in 1 .. Len(deals) : Chosen(deals[i]) /\ deals[i].seen < i

IInv ==
  /\ TypeOK /\ NotesFit /\ NodesFit
  /\ PaymentsFunded /\ AsksWhole /\ DealsChosen

-----------------------------------------------------------------------------
(* The types *)

Shape == TypeOK /\ NotesFit /\ NodesFit

(* The node of a goroutine that asks for an identity is a miner. *)
LEMMA IdentityOfMiner ==
  ASSUME Shape, NEW t \in Threads, pc[t] \in AtIdentity
  PROVE  NodeOf(t) \in Miners
<1>1. CASE t \in Slots
  BY <1>1 DEF Shape, NotesFit, Asking, NodeOf
<1>2. CASE t \in Nodes
  BY <1>2, ActionsAssumption DEF Shape, NodesFit, NodeOf
<1>3. QED
  BY <1>1, <1>2 DEF Threads

LEMMA InitShape == Init => Shape
<1> SUFFICES ASSUME Init PROVE Shape
  OBVIOUS
<1> USE ActionsAssumption DEF Init
<1>1. asks \in Seq(Entries) /\ bids \in Seq(Entries) /\ deals \in Seq(Dealing)
  BY EmptySeq
<1>2. TypeOK
  BY <1>1 DEF TypeOK, Threads, Places
<1>3. NotesFit /\ NodesFit
  BY DEF NotesFit, NodesFit, AtIdentity, Threads
<1>4. QED
  BY <1>2, <1>3 DEF Shape

(* What a step does to the places, locals and messages: one slot at most moves.  *)
LEMMA MoveShape ==
  ASSUME Shape, NEW s \in Slots,
         NEW place \in AtIdentity \cup {"idle", "wallet", "balance", "asks", "bids",
                                        "import", "call", "waiting"},
         NEW locals \in Locals \cup {Nil},
         Goto(s, place), note' = [note EXCEPT ![s] = locals], UNCHANGED sent,
         (place = "idle") <=> (locals = Nil),
         locals # Nil => locals.kind \in Kinds,
         sent[s] # Nil => place \in {"waiting", "idle"},
         place = "wallet" => locals \in Bidding,
         place = "balance" => locals \in Checking,
         place \in AtIdentity => locals \in Asking,
         place = "asks" => locals \in ReadingAsks,
         place = "bids" => locals \in ReadingBids,
         place = "import" => locals \in Dealing,
         place \in {"call", "waiting"} => locals \in Messages,
         UNCHANGED <<asks, bids, deals>>,
         bal' \in [Nodes -> Nat], spent' \in [Nodes -> Nat],
         minerAddr' \in [Miners -> {NoAddr, Torn} \cup Threads],
         late' \in BOOLEAN, ctxDone' = ctxDone, crashed' \in BOOLEAN
  PROVE  Shape'
<1> USE ActionsAssumption DEF Shape
<1>1. s \in Threads /\ s \notin Nodes
  BY DEF Threads
<1>2. pc' = [pc EXCEPT ![s] = place] /\ pc \in [Threads -> Places]
  BY DEF Goto, TypeOK
<1>3. NotesFit'
  BY <1>1, <1>2 DEF NotesFit, TypeOK
<1>4. NodesFit'
  BY <1>1, <1>2 DEF NodesFit, Threads
<1>5. TypeOK'
  <2>1. pc' \in [Threads -> Places]
    BY <1>1, <1>2 DEF TypeOK, AtIdentity, Places
  <2>2. note' \in [Slots -> Locals \cup {Nil}] /\ sent' \in [Slots -> Messages \cup {Nil}]
    BY DEF TypeOK
  <2>3. ASSUME NEW r \in Slots
        PROVE  /\ (pc'[r] = "idle") <=> (note'[r] = Nil)
               /\ pc'[r] # "idle" => note'[r].kind \in Kinds
               /\ sent'[r] # Nil => sent'[r].kind \in Kinds /\ pc'[r] \in {"waiting", "idle"}
    BY <1>1, <1>2 DEF TypeOK, Threads
  <2>4. QED
    BY <2>1, <2>2, <2>3 DEF TypeOK
<1>6. QED
  BY <1>3, <1>4, <1>5

(* The same of a node in AddNode. *)
LEMMA MoveNodeShape ==
  ASSUME Shape, NEW n \in Nodes,
         NEW place \in AtIdentity \cup {"off", "mine", "print", "nobytes", "added"},
         Goto(n, place), UNCHANGED <<note, sent, asks, bids, deals, late, ctxDone>>,
         place \in AtIdentity \cup {"print", "nobytes"} => n \in Miners,
         minerAddr' \in [Miners -> {NoAddr, Torn} \cup Threads],
         bal' \in [Nodes -> Nat], spent' \in [Nodes -> Nat], crashed' \in BOOLEAN
  PROVE  Shape'
<1> USE ActionsAssumption DEF Shape
<1>1. n \in Threads /\ n \notin Slots
  BY DEF Threads
<1>2. pc' = [pc EXCEPT ![n] = place] /\ pc \in [Threads -> Places]
  BY DEF Goto, TypeOK
<1>3. NotesFit'
  BY <1>1, <1>2 DEF NotesFit, Threads
<1>4. NodesFit'
  BY <1>1, <1>2 DEF NodesFit, Threads
<1>5. TypeOK'
  <2>1. pc' \in [Threads -> Places]
    BY <1>1, <1>2 DEF AtIdentity, Places
  <2>2. \A r \in Slots : pc'[r] = pc[r]
    BY <1>1, <1>2 DEF Threads
  <2>3. QED
    BY <2>1, <2>2 DEF TypeOK
<1>6. QED
  BY <1>3, <1>4, <1>5

(* An action that ends may do so wherever it is. *)
LEMMA ReturnShape ==
  ASSUME Shape, NEW s \in Slots, Return(s),
         UNCHANGED <<sent, minerAddr, chainVars, late, ctxDone>>, crashed' \in BOOLEAN
  PROVE  Shape'
<1>1. /\ minerAddr' \in [Miners -> {NoAddr, Torn} \cup Threads] /\ late' \in BOOLEAN
      /\ bal' \in [Nodes -> Nat] /\ spent' \in [Nodes -> Nat]
  BY DEF Shape, TypeOK, chainVars
<1>2. note' = [note EXCEPT ![s] = Nil] /\ Goto(s, "idle")
  BY DEF Return
<1>3. UNCHANGED <<sent, asks, bids, deals>> /\ ctxDone' = ctxDone
  BY DEF chainVars
<1>4. QED
  BY <1>1, <1>2, <1>3, MoveShape DEF AtIdentity

(* A step of CreateOrGetMinerIdentity that does not fail. *)
LEMMA IdentityShape ==
  ASSUME Shape, NEW t \in Threads, pc[t] \in AtIdentity,
         NEW place \in AtIdentity \cup {"call", "print"}, Goto(t, place),
         t \in Slots => place # "print", t \in Nodes => place # "call",
         UNCHANGED <<note, sent, asks, bids, deals, late, ctxDone>>,
         bal' \in [Nodes -> Nat], spent' \in [Nodes -> Nat],
         minerAddr' \in [Miners -> {NoAddr, Torn} \cup Threads], crashed' \in BOOLEAN
  PROVE  Shape'
<1>1. UNCHANGED <<asks, bids, deals>> /\ late' \in BOOLEAN
  BY DEF Shape, TypeOK
<1>2. CASE t \in Slots
  <2>1. note[t] \in Asking /\ sent[t] = Nil
    BY <1>2 DEF Shape, NotesFit, TypeOK, AtIdentity
  <2>2. note[t] # Nil /\ note[t].kind \in Kinds
    BY <1>2 DEF Shape, TypeOK, AtIdentity
  <2>3. note' = [note EXCEPT ![t] = note[t]]
    BY <1>2 DEF Shape, TypeOK
  <2>4. note[t] \in Locals /\ note[t] \in Messages
    BY <2>1 DEF Locals, Messages
  <2>5. place \in AtIdentity \cup {"call"} /\ place # "idle"
    BY <1>2 DEF AtIdentity
  <2>6. place \notin {"wallet", "balance", "asks", "bids", "import"}
    BY DEF AtIdentity
  <2>7. QED
    BY <1>1, <1>2, <2>1, <2>2, <2>3, <2>4, <2>5, <2>6, MoveShape
<1>3. CASE t \in Nodes
  <2>1. t \in Miners
    BY <1>3 DEF Shape, NodesFit
  <2>2. QED
    BY <1>1, <1>3, <2>1, MoveNodeShape
<1>4. QED
  BY <1>2, <1>3 DEF Threads

(* What an action draws when it starts. *)
LEMMA StartShape ==
  ASSUME Shape, NEW s \in Slots, Tick(s)
  PROVE  Shape'
<1>1. /\ pc[s] = "idle" /\ sent[s] = Nil
      /\ UNCHANGED <<sent, asks, bids, deals>> /\ UNCHANGED ctxDone /\ late' \in BOOLEAN
      /\ bal' \in [Nodes -> Nat] /\ spent' \in [Nodes -> Nat]
      /\ minerAddr' \in [Miners -> {NoAddr, Torn} \cup Threads] /\ crashed' \in BOOLEAN
  BY DEF Tick, chainVars, Shape, TypeOK
<1>2. CASE "payment" \in Kinds /\ StartPayment(s)
  <2>1. PICK n \in Nodes, m \in Nodes :
          Begin(s, "balance", [kind |-> "payment", node |-> n, to |-> m])
    BY <1>2 DEF StartPayment, NodesOfType
  <2> DEFINE locals == [kind |-> "payment", node |-> n, to |-> m]
  <2>2. locals \in Checking /\ locals \in Locals /\ locals.kind \in Kinds
    BY <1>2 DEF Locals, Checking
  <2>3. Goto(s, "balance") /\ note' = [note EXCEPT ![s] = locals]
    BY <2>1 DEF Begin
  <2> HIDE DEF locals
  <2>4. locals # Nil
    BY <2>2, ActionsAssumption
  <2>5. QED
    BY <1>1, <2>2, <2>3, <2>4, MoveShape DEF AtIdentity
<1>3. CASE "ask" \in Kinds /\ StartAsk(s)
  <2>1. PICK n \in Miners, terms \in AskTerms :
          Begin(s, "identity", [kind |-> "ask", node |-> n, terms |-> terms])
    BY <1>3 DEF StartAsk, NodesOfType
  <2> DEFINE locals == [kind |-> "ask", node |-> n, terms |-> terms]
  <2>2. locals \in Asking /\ locals \in Locals /\ locals.kind \in Kinds
    BY <1>3 DEF Locals, Messages, Asking
  <2>3. Goto(s, "identity") /\ note' = [note EXCEPT ![s] = locals]
    BY <2>1 DEF Begin
  <2> HIDE DEF locals
  <2>4. locals # Nil
    BY <2>2, ActionsAssumption
  <2>5. QED
    BY <1>1, <2>2, <2>3, <2>4, MoveShape DEF AtIdentity
<1>4. CASE "bid" \in Kinds /\ StartBid(s)
  <2>1. PICK n \in Clients, terms \in BidTerms :
          Begin(s, "wallet", [kind |-> "bid", node |-> n, terms |-> terms])
    BY <1>4 DEF StartBid, NodesOfType
  <2> DEFINE locals == [kind |-> "bid", node |-> n, terms |-> terms]
  <2>2. locals \in Bidding /\ locals \in Locals /\ locals.kind \in Kinds
    BY <1>4 DEF Locals, Messages, Bidding
  <2>3. Goto(s, "wallet") /\ note' = [note EXCEPT ![s] = locals]
    BY <2>1 DEF Begin
  <2> HIDE DEF locals
  <2>4. locals # Nil
    BY <2>2, ActionsAssumption
  <2>5. QED
    BY <1>1, <2>2, <2>3, <2>4, MoveShape DEF AtIdentity
<1>5. CASE "deal" \in Kinds /\ StartDeal(s)
  <2>1. PICK n \in Clients : Begin(s, "asks", [kind |-> "deal", node |-> n])
    BY <1>5 DEF StartDeal, NodesOfType
  <2> DEFINE locals == [kind |-> "deal", node |-> n]
  <2>2. locals \in ReadingAsks /\ locals \in Locals /\ locals.kind \in Kinds
    BY <1>5 DEF Locals, ReadingAsks
  <2>3. Goto(s, "asks") /\ note' = [note EXCEPT ![s] = locals]
    BY <2>1 DEF Begin
  <2> HIDE DEF locals
  <2>4. locals # Nil
    BY <2>2, ActionsAssumption
  <2>5. QED
    BY <1>1, <2>2, <2>3, <2>4, MoveShape DEF AtIdentity
<1>6. QED
  BY <1>2, <1>3, <1>4, <1>5 DEF Tick, DoRandomAction

(* The pair of getBestDealPair is the best of what the action has read. *)
LEMMA ProposalIsBest ==
  ASSUME Shape, NEW node \in Clients, NEW nasks \in Nat, nasks <= Len(asks),
         NEW pair \in GetBestDealPair(ExtractAsks(SubSeq(asks, 1, nasks)),
                                      ExtractUnusedBids(bids, UsedBids), node)
  PROVE  LET d == [kind |-> "deal", node |-> node, nasks |-> nasks,
                   ask |-> pair.ask.id, bid |-> pair.bid.id,
                   nbids |-> Len(bids), seen |-> Len(deals)]
         IN  d \in Dealing /\ Chosen(d)
<1> DEFINE d == [kind |-> "deal", node |-> node, nasks |-> nasks,
                 ask |-> pair.ask.id, bid |-> pair.bid.id,
                 nbids |-> Len(bids), seen |-> Len(deals)]
           read == SubSeq(asks, 1, nasks)
<1>1. /\ asks \in Seq(Entries) /\ bids \in Seq(Entries) /\ deals \in Seq(Dealing)
      /\ Len(asks) \in Nat /\ Len(bids) \in Nat /\ Len(deals) \in Nat
      /\ DOMAIN deals = 1 .. Len(deals)
  BY LenProperties DEF Shape, TypeOK
<1>2. read \in Seq(Entries) /\ Len(read) = nasks /\ \A a \in 1 .. nasks : read[a] = asks[a]
  BY <1>1, SubSeqProperties
<1>3. \A e \in Entries : e.price \in Nat
  BY DEF Entries
<1>4. /\ pair.ask.id \in 1 .. nasks /\ pair.bid.id \in 1 .. Len(bids)
      /\ bids[pair.bid.id].owner = node /\ pair.bid.id \notin UsedBids
      /\ bids[pair.bid.id].size <= read[pair.ask.id].size
      /\ bids[pair.bid.id].price >= read[pair.ask.id].price
      /\ \A a \in 1 .. nasks, b \in 1 .. Len(bids) :
           /\ bids[b].owner = node /\ b \notin UsedBids
           /\ bids[b].size <= read[a].size /\ bids[b].price >= read[a].price
           => pair.bid.id <= b
      /\ \A a \in 1 .. nasks :
           /\ bids[pair.bid.id].size <= read[a].size
           /\ bids[pair.bid.id].price >= read[a].price
           => read[pair.ask.id].price <= read[a].price
  <2>1. pair \in GetBestDealPair(ExtractAsks(read), ExtractUnusedBids(bids, UsedBids), node)
    OBVIOUS
  <2> HIDE DEF read, d
  <2> DEFINE M(a, b) == bids[b].size <= read[a].size /\ bids[b].price >= read[a].price
  <2>2. /\ pair.ask.id \in 1 .. Len(read) /\ pair.bid.id \in 1 .. Len(bids)
        /\ bids[pair.bid.id].owner = node /\ pair.bid.id \notin UsedBids
        /\ M(pair.ask.id, pair.bid.id)
        /\ \A a \in 1 .. Len(read), b \in 1 .. Len(bids) :
             bids[b].owner = node /\ b \notin UsedBids /\ M(a, b) => pair.bid.id <= b
        /\ \A a \in 1 .. Len(read) :
             M(a, pair.bid.id) => read[pair.ask.id].price <= read[a].price
    BY <1>1, <1>2, <1>3, <2>1, BestOfBooks, Zenon
  <2>3. QED
    BY <1>2, <2>2
<1>5. d \in Dealing
  BY <1>1, <1>4 DEF Dealing
<1>6. UsedBids = {deals[k].bid : k \in 1 .. d.seen}
  BY <1>1 DEF UsedBids
<1>7. \A e \in Entries : e.price \in Nat /\ e.size \in Nat
  BY DEF Entries
<1>8. /\ \A a \in 1 .. nasks : asks[a].price \in Nat /\ asks[a].size \in Nat
      /\ \A b \in 1 .. Len(bids) : bids[b].price \in Nat /\ bids[b].size \in Nat
  <2>1. \A a \in 1 .. nasks : a \in 1 .. Len(asks)
    BY <1>1
  <2>2. QED
    BY <1>1, <1>7, <2>1, ElementOfSeq
<1>9. \A a \in 1 .. nasks, b \in 1 .. Len(bids) :
        Match(a, b) <=> bids[b].size <= read[a].size /\ bids[b].price >= read[a].price
  BY <1>2, <1>8 DEF Match
<1>10. IsBest(d)
  BY <1>2, <1>4, <1>6, <1>9 DEF IsBest
<1>11. QED
  BY <1>1, <1>5, <1>10 DEF Chosen

(* A payment of funds that are there leaves the balances natural numbers, and    *)
(* nobody but the payer has less.                                                *)
LEMMA Transfer ==
  ASSUME NEW S, NEW b \in [S -> Nat], NEW x \in S, NEW y \in S,
         NEW amount \in Nat, b[x] >= amount
  PROVE  LET c == [b EXCEPT ![x] = @ - amount, ![y] = @ + amount]
         IN  c \in [S -> Nat] /\ \A n \in S : n # x => c[n] >= b[n]
  OBVIOUS

(* So does any other debit, and it is counted.                                   *)
LEMMA DebitTyped ==
  ASSUME Shape, NEW x \in Nodes, NEW amount \in Nat, Debit(x, amount)
  PROVE  /\ bal' \in [Nodes -> Nat] /\ spent' \in [Nodes -> Nat]
         /\ \A n \in Nodes : /\ spent'[n] >= spent[n]
                             /\ IF n = x THEN spent'[n] > spent[n] ELSE bal'[n] = bal[n]
BY DEF Debit, Shape, TypeOK

(* The creation of a miner debits its wallet, if it succeeds.                    *)
LEMMA CreationTyped ==
  ASSUME Shape, NEW t \in Threads, CreateMinerAddr(t)
  PROVE  /\ bal' \in [Nodes -> Nat] /\ spent' \in [Nodes -> Nat]
         /\ \A n \in Nodes : /\ spent'[n] >= spent[n]
                             /\ bal'[n] >= bal[n] \/ spent'[n] > spent[n]
<1>1. NodeOf(t) \in Nodes
  BY IdentityOfMiner DEF CreateMinerAddr, AtIdentity, Nodes
<1>2. bal \in [Nodes -> Nat] /\ spent \in [Nodes -> Nat]
  BY DEF Shape, TypeOK
<1>3. CASE UNCHANGED <<bal, spent>>
  BY <1>2, <1>3
<1>4. CASE Debit(NodeOf(t), Collateral)
  <2>1. Collateral \in Nat
    BY ActionsAssumption
  <2>2. \A n \in Nodes : bal'[n] = bal[n] => bal'[n] >= bal[n]
    BY <1>2
  <2>3. QED
    BY <1>1, <1>4, <2>1, <2>2, DebitTyped
<1>5. QED
  BY <1>3, <1>4 DEF CreateMinerAddr

(* What a bid costs. *)
LEMMA FundsOfBid ==
  ASSUME NEW m \in Bidding
  PROVE  m.node \in Nodes /\ Funds(m.terms) \in Nat
<1>1. m.terms \in BidTerms /\ m.node \in Clients
  BY DEF Bidding
<1>2. m.terms.price \in Nat /\ m.terms.size \in Nat
  BY <1>1, ActionsAssumption
<1>3. \A p, q \in Nat : p * q \in Nat
  OBVIOUS
<1>4. QED
  BY <1>1, <1>2, <1>3 DEF Funds, Nodes

(* What Land does, by the kind of the message. *)
LEMMA LandByKind ==
  ASSUME Shape, NEW s \in Slots, Land(s)
  PROVE  /\ sent[s] \in Messages
         /\ \/ /\ sent[s] \in Asking /\ sent[s].kind = "ask"
               /\ asks' = Append(asks, Entry(sent[s]))
               /\ UNCHANGED <<bids, deals, bal, spent>>
            \/ /\ sent[s] \in Bidding /\ sent[s].kind = "bid"
               /\ bids' = Append(bids, Entry(sent[s]))
               /\ Debit(sent[s].node, Funds(sent[s].terms))
               /\ UNCHANGED <<asks, deals>>
            \/ /\ sent[s] \in Dealing /\ sent[s].kind = "deal"
               /\ deals' = Append(deals, sent[s])
               /\ UNCHANGED <<asks, bids, bal, spent>>
            \/ /\ sent[s] \in Paying /\ sent[s].kind = "payment"
               /\ bal[sent[s].node] >= AmtToSend
               /\ bal' = [bal EXCEPT ![sent[s].node] = @ - AmtToSend,
                                     ![sent[s].to] = @ + AmtToSend]
               /\ spent' = [spent EXCEPT ![sent[s].node] = @ + 1]
               /\ UNCHANGED <<asks, bids, deals>>
<1>1. sent[s] \in Messages
  BY DEF Land, Shape, TypeOK
<1>2. CASE sent[s] \in Asking
  <2>1. sent[s].kind = "ask"
    BY <1>2 DEF Asking
  <2>2. QED
    BY <1>1, <1>2, <2>1 DEF Land
<1>3. CASE sent[s] \in Bidding
  <2>1. sent[s].kind = "bid"
    BY <1>3 DEF Bidding
  <2>2. QED
    BY <1>1, <1>3, <2>1 DEF Land
<1>4. CASE sent[s] \in Dealing
  <2>1. sent[s].kind = "deal"
    BY <1>4 DEF Dealing
  <2>2. QED
    BY <1>1, <1>4, <2>1 DEF Land
<1>5. CASE sent[s] \in Paying
  <2>1. sent[s].kind = "payment"
    BY <1>5 DEF Paying
  <2>2. QED
    BY <1>1, <1>5, <2>1 DEF Land
<1>6. QED
  BY <1>1, <1>2, <1>3, <1>4, <1>5 DEF Messages

LEMMA LandTyped ==
  ASSUME Shape, NEW s \in Slots, Land(s) \/ Lose(s)
  PROVE  /\ asks' \in Seq(Entries) /\ bids' \in Seq(Entries) /\ deals' \in Seq(Dealing)
         /\ bal' \in [Nodes -> Nat] /\ spent' \in [Nodes -> Nat]
<1> USE ActionsAssumption
<1>1. /\ asks \in Seq(Entries) /\ bids \in Seq(Entries) /\ deals \in Seq(Dealing)
      /\ bal \in [Nodes -> Nat] /\ spent \in [Nodes -> Nat]
  BY DEF Shape, TypeOK
<1>2. CASE Lose(s)
  BY <1>1, <1>2 DEF Lose, chainVars
<1>3. CASE Land(s) /\ sent[s] \in Asking /\ asks' = Append(asks, Entry(sent[s]))
             /\ UNCHANGED <<bids, deals, bal, spent>>
  <2>1. Entry(sent[s]) \in Entries
    BY <1>3 DEF Entry, Entries, Asking, Nodes
  <2>2. QED
    BY <1>1, <1>3, <2>1, AppendProperties
<1>4. CASE Land(s) /\ sent[s] \in Bidding /\ bids' = Append(bids, Entry(sent[s]))
             /\ Debit(sent[s].node, Funds(sent[s].terms)) /\ UNCHANGED <<asks, deals>>
  <2>1. Entry(sent[s]) \in Entries
    BY <1>4 DEF Entry, Entries, Bidding, Nodes
  <2>2. bal' \in [Nodes -> Nat] /\ spent' \in [Nodes -> Nat]
    BY <1>4, FundsOfBid, DebitTyped
  <2>3. QED
    BY <1>1, <1>4, <2>1, <2>2, AppendProperties
<1>5. CASE Land(s) /\ sent[s] \in Dealing /\ deals' = Append(deals, sent[s])
             /\ UNCHANGED <<asks, bids, bal, spent>>
  BY <1>1, <1>5, AppendProperties
<1>6. CASE /\ Land(s) /\ sent[s] \in Paying /\ bal[sent[s].node] >= AmtToSend
           /\ bal' = [bal EXCEPT ![sent[s].node] = @ - AmtToSend,
                                 ![sent[s].to] = @ + AmtToSend]
           /\ spent' = [spent EXCEPT ![sent[s].node] = @ + 1]
           /\ UNCHANGED <<asks, bids, deals>>
  <2>1. sent[s].node \in Nodes /\ sent[s].to \in Nodes
    BY <1>6 DEF Paying
  <2> DEFINE x == sent[s].node
             y == sent[s].to
  <2>2. /\ bal' = [bal EXCEPT ![x] = @ - AmtToSend, ![y] = @ + AmtToSend]
        /\ bal[x] >= AmtToSend /\ AmtToSend \in Nat /\ x \in Nodes /\ y \in Nodes
    BY <1>6, <2>1
  <2>3. spent' = [spent EXCEPT ![x] = @ + 1] /\ x \in Nodes
    BY <1>6, <2>1
  <2>4. bal \in [Nodes -> Nat] /\ spent \in [Nodes -> Nat]
    BY <1>1
  <2> HIDE DEF x, y
  <2>5. bal' \in [Nodes -> Nat]
    BY ONLY <2>2, <2>4, Transfer
  <2>6. spent' \in [Nodes -> Nat]
    BY ONLY <2>3, <2>4
  <2>7. asks' = asks /\ bids' = bids /\ deals' = deals
    BY <1>6
  <2>8. QED
    BY <1>1, <2>5, <2>6, <2>7
<1>7. QED
  BY <1>2, <1>3, <1>4, <1>5, <1>6, LandByKind

LEMMA NextShape ==
  ASSUME Shape, DealsChosen, [Next]_vars
  PROVE  Shape'
<1> USE ActionsAssumption
<1>0. /\ minerAddr \in [Miners -> {NoAddr, Torn} \cup Threads]
      /\ bal \in [Nodes -> Nat] /\ spent \in [Nodes -> Nat]
      /\ note \in [Slots -> Locals \cup {Nil}] /\ late \in BOOLEAN /\ crashed \in BOOLEAN
  BY DEF Shape, TypeOK
<1>1. ASSUME NEW n \in Nodes, AddNode(n) PROVE Shape'
  <2>1. CASE Register(n)
    BY <1>0, <2>1, MoveNodeShape DEF Register, chainVars, AtIdentity
  <2>2. CASE MiningOnce(n)
    <3>1. bal' \in [Nodes -> Nat] /\ UNCHANGED <<spent, minerAddr, crashed>>
      BY <1>0, <2>2 DEF MiningOnce
    <3>2. UNCHANGED <<note, sent, asks, bids, deals, late, ctxDone>>
      BY <2>2 DEF MiningOnce
    <3>3. \/ Goto(n, "identity") /\ n \in Miners
          \/ Goto(n, "added")
      BY <2>2 DEF MiningOnce
    <3>4. QED
      BY <1>0, <3>1, <3>2, <3>3, MoveNodeShape DEF AtIdentity
  <2>3. CASE PrintPointer(n)
    <3>1. /\ UNCHANGED <<note, sent, asks, bids, deals, bal, spent, late, ctxDone, minerAddr>>
          /\ crashed' \in BOOLEAN /\ (Goto(n, "added") \/ Goto(n, "nobytes"))
      BY <1>0, <2>3 DEF PrintPointer, chainVars
    <3>2. n \in Miners
      BY <2>3 DEF PrintPointer, Shape, NodesFit
    <3>3. QED
      BY <1>0, <3>1, <3>2, MoveNodeShape DEF AtIdentity
  <2>4. CASE PrintLength(n)
    <3>1. /\ UNCHANGED <<note, sent, asks, bids, deals, bal, spent, late, ctxDone, minerAddr>>
          /\ crashed' \in BOOLEAN /\ Goto(n, "added")
      BY <2>4 DEF PrintLength, chainVars
    <3>2. QED
      BY <1>0, <3>1, MoveNodeShape DEF AtIdentity
  <2>5. QED
    BY <1>1, <2>1, <2>2, <2>3, <2>4 DEF AddNode
<1>2. ASSUME NEW t \in Threads, CreateOrGetMinerIdentity(t) PROVE Shape'
  <2>1. CASE CheckIdentity(t)
    BY <1>0, <2>1, IdentityShape DEF CheckIdentity, AtIdentity, chainVars
  <2>2. CASE CreateMinerAddr(t)
    <3>1. /\ UNCHANGED <<sent, minerAddr, asks, bids, deals, late, ctxDone, crashed>>
          /\ pc[t] = "create" /\ bal' \in [Nodes -> Nat] /\ spent' \in [Nodes -> Nat]
      BY <2>2, CreationTyped DEF CreateMinerAddr
    <3>2. CASE Goto(t, "store") /\ UNCHANGED note
      BY <1>0, <3>1, <3>2, IdentityShape DEF AtIdentity
    <3>3. CASE t \in Slots /\ Return(t) /\ UNCHANGED <<bal, spent>>
      BY <1>0, <3>1, <3>3, ReturnShape DEF chainVars
    <3>4. CASE t \notin Slots /\ Goto(t, "print") /\ UNCHANGED note
      BY <1>0, <3>1, <3>4, IdentityShape DEF AtIdentity
    <3>5. QED
      BY <2>2, <3>2, <3>3, <3>4 DEF CreateMinerAddr
  <2>3. CASE StoreLength(t)
    <3>1. minerAddr' \in [Miners -> {NoAddr, Torn} \cup Threads]
      BY <1>0, <2>3 DEF StoreLength
    <3>2. QED
      BY <1>0, <2>3, <3>1, IdentityShape DEF StoreLength, AtIdentity, chainVars
  <2>4. CASE StorePointer(t)
    <3>1. minerAddr' \in [Miners -> {NoAddr, Torn} \cup Threads]
      BY <1>0, <2>4 DEF StorePointer
    <3>2. QED
      BY <1>0, <2>4, <3>1, IdentityShape DEF StorePointer, AtIdentity, chainVars
  <2>5. CASE GetIdentity(t)
    <3>1. /\ UNCHANGED <<note, sent, minerAddr, asks, bids, deals, bal, spent, late, ctxDone>>
          /\ crashed' \in BOOLEAN /\ pc[t] = "got"
      BY <2>5 DEF GetIdentity, chainVars
    <3>2. CASE t \in Slots
      <4>1. Goto(t, "call") /\ t \notin Nodes
        BY <2>5, <3>2 DEF GetIdentity
      <4>2. QED
        BY <1>0, <3>1, <4>1, IdentityShape DEF AtIdentity
    <3>3. CASE t \notin Slots
      <4>1. Goto(t, "print")
        BY <2>5, <3>3 DEF GetIdentity
      <4>2. QED
        BY <1>0, <3>1, <3>3, <4>1, IdentityShape DEF AtIdentity
    <3>4. QED
      BY <3>2, <3>3
  <2>6. QED
    BY <1>2, <2>1, <2>2, <2>3, <2>4, <2>5 DEF CreateOrGetMinerIdentity
<1>3. ASSUME NEW s \in Slots, WalletBalance(s) \/ Read(s) PROVE Shape'
  <2>1. /\ UNCHANGED <<sent, minerAddr, chainVars, late, ctxDone, crashed>>
        /\ UNCHANGED <<asks, bids, deals, bal, spent>>
    BY <1>3 DEF WalletBalance, Read, OrderbookGetAsks, OrderbookGetBids, chainVars
  <2>2. CASE Return(s)
    BY <1>0, <2>1, <2>2, ReturnShape
  <2>3. CASE WalletBalance(s) /\ ~Return(s)
    <3> DEFINE locals == [kind |-> "payment", node |-> note[s].node, to |-> note[s].to,
                          seen |-> spent[note[s].node]]
    <3>1. /\ pc[s] = "balance" /\ Goto(s, "call")
          /\ note' = [note EXCEPT ![s] = locals]
      BY <1>0, <2>3 DEF WalletBalance
    <3>2. note[s] \in Checking /\ sent[s] = Nil /\ note[s].kind \in Kinds
      BY <3>1 DEF Shape, NotesFit, TypeOK
    <3>3. locals \in Paying /\ locals.kind \in Kinds
      BY <3>2 DEF Checking, Paying, Shape, TypeOK
    <3> HIDE DEF locals
    <3>4. locals \in Messages /\ locals \in Locals /\ locals # Nil
      BY <3>3 DEF Messages, Locals
    <3>5. QED
      BY <1>0, <2>1, <3>1, <3>2, <3>3, <3>4, MoveShape DEF AtIdentity
  <2>4. CASE OrderbookGetAsks(s) /\ ~Return(s)
    <3> DEFINE locals == [kind |-> "deal", node |-> note[s].node, nasks |-> Len(asks)]
    <3>1. /\ pc[s] = "asks" /\ Goto(s, "bids")
          /\ note' = [note EXCEPT ![s] = locals]
      BY <1>0, <2>4 DEF OrderbookGetAsks
    <3>2. note[s] \in ReadingAsks /\ sent[s] = Nil /\ note[s].kind \in Kinds
      BY <3>1 DEF Shape, NotesFit, TypeOK
    <3>3. Len(asks) \in Nat
      BY LenProperties DEF Shape, TypeOK
    <3>4. locals \in ReadingBids /\ locals.kind \in Kinds
      BY <3>2, <3>3 DEF ReadingAsks, ReadingBids
    <3> HIDE DEF locals
    <3>5. locals \in Locals /\ locals # Nil
      BY <3>4 DEF Locals
    <3>6. QED
      BY <1>0, <2>1, <3>1, <3>2, <3>4, <3>5, MoveShape DEF AtIdentity
  <2>5. CASE OrderbookGetBids(s) /\ ~Return(s)
    <3>1. pc[s] = "bids" /\ Goto(s, "import")
      BY <2>5 DEF OrderbookGetBids
    <3>2. PICK pair \in GetBestDealPair(ExtractAsks(SubSeq(asks, 1, note[s].nasks)),
                                        ExtractUnusedBids(bids, UsedBids), note[s].node) :
            note' = [note EXCEPT ![s] =
                       [kind |-> "deal", node |-> @.node, nasks |-> @.nasks,
                        ask |-> pair.ask.id, bid |-> pair.bid.id,
                        nbids |-> Len(bids), seen |-> Len(deals)]]
      BY <2>5 DEF OrderbookGetBids
    <3> DEFINE locals == [kind |-> "deal", node |-> note[s].node, nasks |-> note[s].nasks,
                          ask |-> pair.ask.id, bid |-> pair.bid.id,
                          nbids |-> Len(bids), seen |-> Len(deals)]
    <3>3. note' = [note EXCEPT ![s] = locals]
      BY <1>0, <3>2
    <3>4. note[s] \in ReadingBids /\ sent[s] = Nil /\ note[s].kind \in Kinds
            /\ note[s].nasks <= Len(asks)
      BY <3>1 DEF Shape, NotesFit, TypeOK, DealsChosen
    <3>5. locals \in Dealing
      <4>1. note[s].node \in Clients /\ note[s].nasks \in Nat
        BY <3>4 DEF ReadingBids
      <4>2. QED
        BY <3>2, <3>4, <4>1, ProposalIsBest
    <3>6. locals.kind \in Kinds
      BY <3>4 DEF ReadingBids
    <3> HIDE DEF locals
    <3>7. locals \in Locals /\ locals # Nil
      BY <3>5 DEF Locals, Messages
    <3>8. QED
      BY <1>0, <2>1, <3>1, <3>3, <3>4, <3>5, <3>6, <3>7, MoveShape DEF AtIdentity
  <2>6. QED
    BY <1>3, <2>2, <2>3, <2>4, <2>5 DEF Read
<1>4. ASSUME NEW s \in Slots, ClientImport(s) \/ GetMainWalletAddress(s) PROVE Shape'
  <2>1. /\ pc[s] \in {"import", "wallet"} /\ UNCHANGED <<sent, minerAddr, chainVars, late, ctxDone>>
        /\ UNCHANGED <<asks, bids, deals, bal, spent>> /\ crashed' \in BOOLEAN
    BY <1>0, <1>4 DEF ClientImport, GetMainWalletAddress, chainVars
  <2>2. CASE Return(s)
    BY <1>0, <2>1, <2>2, ReturnShape
  <2>3. CASE Goto(s, "call") /\ UNCHANGED note
    <3>1. /\ note[s] \in Dealing \cup Bidding /\ sent[s] = Nil
          /\ note[s].kind \in Kinds /\ note[s] # Nil
      BY <2>1 DEF Shape, NotesFit, TypeOK
    <3>2. note[s] \in Messages /\ note[s] \in Locals
      BY <3>1 DEF Messages, Locals
    <3>3. note' = [note EXCEPT ![s] = note[s]]
      BY <1>0, <2>3
    <3>4. QED
      BY <1>0, <2>1, <2>3, <3>1, <3>2, <3>3, MoveShape DEF AtIdentity
  <2>4. QED
    BY <1>4, <2>2, <2>3 DEF ClientImport, GetMainWalletAddress
<1>5. ASSUME NEW s \in Slots, Post(s) PROVE Shape'
  <2>1. /\ pc[s] = "call" /\ pc' = [pc EXCEPT ![s] = "waiting"]
        /\ sent' = [sent EXCEPT ![s] = note[s]] /\ note' = note
        /\ minerAddr' = minerAddr /\ UNCHANGED <<asks, bids, deals, bal, spent>>
        /\ late' = late /\ ctxDone' = ctxDone /\ crashed' = crashed
    BY <1>5 DEF Post, Goto, chainVars
  <2>2. note[s] \in Messages /\ note[s] # Nil /\ note[s].kind \in Kinds /\ s \in Threads
    BY <2>1 DEF Shape, NotesFit, TypeOK, Threads
  <2>3. NotesFit'
    BY <2>1, <2>2 DEF Shape, NotesFit, TypeOK, AtIdentity
  <2>4. NodesFit'
    BY <2>1 DEF Shape, NodesFit, TypeOK, Threads
  <2>5. TypeOK'
    <3>1. pc' \in [Threads -> Places] /\ sent' \in [Slots -> Messages \cup {Nil}]
      BY <2>1, <2>2 DEF Shape, TypeOK, Places
    <3>2. ASSUME NEW r \in Slots
          PROVE  /\ (pc'[r] = "idle") <=> (note'[r] = Nil)
                 /\ pc'[r] # "idle" => note'[r].kind \in Kinds
                 /\ sent'[r] # Nil => sent'[r].kind \in Kinds /\ pc'[r] \in {"waiting", "idle"}
      BY <2>1, <2>2 DEF Shape, TypeOK, Threads
    <3>3. QED
      BY <2>1, <3>1, <3>2 DEF Shape, TypeOK
  <2>6. QED
    BY <2>3, <2>4, <2>5 DEF Shape
<1>6. ASSUME NEW s \in Slots, CallReturns(s) \/ Timeout(s) \/ KillCall(s) PROVE Shape'
  <2>1. Return(s) /\ UNCHANGED <<sent, minerAddr, chainVars, late, ctxDone, crashed>>
    BY <1>6 DEF CallReturns, Timeout, KillCall
  <2>2. QED
    BY <1>0, <2>1, ReturnShape
<1>7. ASSUME NEW s \in Slots, Land(s) \/ Lose(s) PROVE Shape'
  <2>1. /\ pc' = pc /\ note' = note /\ minerAddr' = minerAddr
        /\ late' = late /\ ctxDone' = ctxDone /\ crashed' = crashed
        /\ sent' = [sent EXCEPT ![s] = Nil] /\ sent[s] # Nil
    BY <1>7 DEF Land, Lose
  <2>2. /\ asks' \in Seq(Entries) /\ bids' \in Seq(Entries) /\ deals' \in Seq(Dealing)
        /\ bal' \in [Nodes -> Nat] /\ spent' \in [Nodes -> Nat]
    BY <1>7, LandTyped
  <2>3. TypeOK'
    BY <2>1, <2>2 DEF Shape, TypeOK
  <2>4. NotesFit' /\ NodesFit'
    BY <2>1 DEF Shape, NotesFit, NodesFit
  <2>5. QED
    BY <2>3, <2>4 DEF Shape
<1>8. ASSUME NEW s \in Slots, Tick(s) PROVE Shape'
  BY <1>8, StartShape
<1>9. CASE Cancel
  BY <1>9 DEF Cancel, chainVars, Shape, TypeOK, NotesFit, NodesFit
<1>10. CASE UNCHANGED vars
  BY <1>10 DEF vars, Shape, TypeOK, NotesFit, NodesFit
<1>11. QED
  BY <1>1, <1>2, <1>3, <1>4, <1>5, <1>6, <1>7, <1>8, <1>9, <1>10 DEF Next

-----------------------------------------------------------------------------
(* What a step leaves alone: where an action comes from when it is somewhere.    *)

(* Nobody else moves an action, or touches its local variables. *)
LEMMA OwnSteps ==
  ASSUME Shape, [Next]_vars, NEW r \in Slots
  PROVE  \/ pc'[r] = pc[r] /\ note'[r] = note[r]
         \/ /\ pc'[r] = "idle" /\ note'[r] = Nil
         \/ CreateOrGetMinerIdentity(r) /\ note' = note /\ sent' = sent
         \/ /\ UNCHANGED <<sent, chainVars>>
            /\ \/ Tick(r) \/ WalletBalance(r) \/ Read(r)
               \/ /\ ClientImport(r) \/ GetMainWalletAddress(r)
                  /\ pc'[r] = "call" /\ note' = note
         \/ Post(r)
<1> USE ActionsAssumption
<1>0. /\ note \in [Slots -> Locals \cup {Nil}] /\ pc \in [Threads -> Places]
      /\ r \in Threads /\ r \notin Nodes
  BY DEF Shape, TypeOK, Threads
<1>1. ASSUME NEW s \in Slots, Return(s)
      PROVE  IF s = r THEN pc'[r] = "idle" /\ note'[r] = Nil
             ELSE pc'[r] = pc[r] /\ note'[r] = note[r]
  BY <1>0, <1>1 DEF Return, Goto
<1>2. ASSUME NEW n \in Nodes, AddNode(n) PROVE pc'[r] = pc[r] /\ note'[r] = note[r]
  BY <1>0, <1>2 DEF AddNode, Register, MiningOnce, PrintPointer, PrintLength, Goto
<1>3. ASSUME NEW t \in Threads, CreateOrGetMinerIdentity(t)
      PROVE  \/ pc'[r] = pc[r] /\ note'[r] = note[r]
             \/ pc'[r] = "idle" /\ note'[r] = Nil
             \/ t = r /\ note' = note /\ sent' = sent
  <2>1. CASE t \in Slots /\ Return(t)
    BY <1>1, <2>1
  <2>2. CASE note' = note /\ sent' = sent
    <3>1. CASE t = r
      BY <2>2, <3>1
    <3>2. CASE t # r
      <4>1. pc'[r] = pc[r]
        BY <1>0, <1>3, <3>2, <2>2
           DEF CreateOrGetMinerIdentity, CheckIdentity, CreateMinerAddr, StoreLength,
               StorePointer, GetIdentity, Return, Goto
      <4>2. QED
        BY <2>2, <4>1
    <3>3. QED
      BY <3>1, <3>2
  <2>3. QED
    BY <1>3, <2>1, <2>2
       DEF CreateOrGetMinerIdentity, CheckIdentity, CreateMinerAddr, StoreLength,
           StorePointer, GetIdentity
<1>4. ASSUME NEW s \in Slots, Tick(s)
      PROVE  (pc'[r] = pc[r] /\ note'[r] = note[r])
               \/ (s = r /\ UNCHANGED <<sent, chainVars>>)
  BY <1>0, <1>4 DEF Tick, DoRandomAction, StartPayment, StartAsk, StartBid, StartDeal,
                    Begin, Goto
<1>5. ASSUME NEW s \in Slots, WalletBalance(s) \/ Read(s)
      PROVE  (pc'[r] = pc[r] /\ note'[r] = note[r])
               \/ (s = r /\ UNCHANGED <<sent, chainVars>>)
  BY <1>0, <1>5 DEF WalletBalance, Read, OrderbookGetAsks, OrderbookGetBids, Return, Goto
<1>6. ASSUME NEW s \in Slots, ClientImport(s) \/ GetMainWalletAddress(s)
      PROVE  \/ pc'[r] = pc[r] /\ note'[r] = note[r]
             \/ pc'[r] = "idle" /\ note'[r] = Nil
             \/ s = r /\ UNCHANGED <<sent, chainVars>> /\ pc'[r] = "call" /\ note' = note
  <2>1. CASE Return(s)
    BY <1>1, <2>1
  <2>2. CASE Goto(s, "call") /\ note' = note
    <3>1. CASE s = r
      BY <1>0, <1>6, <2>2, <3>1 DEF ClientImport, GetMainWalletAddress, Goto
    <3>2. CASE s # r
      BY <1>0, <2>2, <3>2 DEF Goto
    <3>3. QED
      BY <3>1, <3>2
  <2>3. QED
    BY <1>6, <2>1, <2>2 DEF ClientImport, GetMainWalletAddress
<1>7. ASSUME NEW s \in Slots, Post(s)
      PROVE  (pc'[r] = pc[r] /\ note'[r] = note[r]) \/ s = r
  BY <1>0, <1>7 DEF Post, Goto
<1>8. ASSUME NEW s \in Slots, CallReturns(s) \/ Timeout(s) \/ KillCall(s)
      PROVE  \/ pc'[r] = pc[r] /\ note'[r] = note[r]
             \/ pc'[r] = "idle" /\ note'[r] = Nil
  <2>1. Return(s)
    BY <1>8 DEF CallReturns, Timeout, KillCall
  <2>2. QED
    BY <1>1, <2>1
<1>9. ASSUME NEW s \in Slots, Land(s) \/ Lose(s) PROVE pc'[r] = pc[r] /\ note'[r] = note[r]
  BY <1>9 DEF Land, Lose
<1>10. Cancel \/ UNCHANGED vars => pc'[r] = pc[r] /\ note'[r] = note[r]
  BY DEF Cancel, vars
<1>11. QED
  BY <1>2, <1>3, <1>4, <1>5, <1>6, <1>7, <1>8, <1>9, <1>10 DEF Next

(* How an action comes to its last command. *)
LEMMA CallOrigin ==
  ASSUME Shape, [Next]_vars, NEW r \in Slots, pc'[r] \in {"call", "waiting"}
  PROVE  \/ pc[r] \in {"call", "waiting"} /\ note'[r] = note[r]
         \/ GetIdentity(r) /\ note'[r] = note[r] /\ note[r] \in Asking
         \/ pc[r] = "wallet" /\ note'[r] = note[r] /\ note[r] \in Bidding
         \/ /\ WalletBalance(r) /\ UNCHANGED <<sent, chainVars>>
            /\ note[r] \in Checking /\ bal[note[r].node] >= AmtToSend
            /\ note'[r] = [kind |-> "payment", node |-> note[r].node, to |-> note[r].to,
                           seen |-> spent[note[r].node]]
         \/ /\ pc[r] = "import" /\ note'[r] = note[r] /\ note[r] \in Dealing
            /\ UNCHANGED <<sent, chainVars>>
<1>0. /\ note \in [Slots -> Locals \cup {Nil}] /\ pc \in [Threads -> Places]
      /\ r \in Threads
  BY DEF Shape, TypeOK, Threads
<1>1. CASE pc'[r] = pc[r] /\ note'[r] = note[r]
  BY <1>1
<1>2. CASE CreateOrGetMinerIdentity(r) /\ note' = note
  <2>1. GetIdentity(r)
    BY <1>0, <1>2 DEF CreateOrGetMinerIdentity, CheckIdentity, CreateMinerAddr,
                      StoreLength, StorePointer, Return, Goto
  <2>2. note[r] \in Asking
    BY <2>1 DEF GetIdentity, Shape, NotesFit, AtIdentity
  <2>3. QED
    BY <1>2, <2>1, <2>2
<1>3. CASE Tick(r)
  BY <1>0, <1>3 DEF Tick, DoRandomAction, StartPayment, StartAsk, StartBid, StartDeal, Begin, Goto
<1>4. CASE WalletBalance(r) /\ UNCHANGED <<sent, chainVars>>
  <2> DEFINE locals == [kind |-> "payment", node |-> note[r].node, to |-> note[r].to,
                        seen |-> spent[note[r].node]]
  <2>1. pc[r] = "balance" /\ note[r] \in Checking
    BY <1>4 DEF WalletBalance, Shape, NotesFit
  <2>2. ~Return(r)
    BY <1>0 DEF Return, Goto
  <2>3. bal[note[r].node] >= AmtToSend /\ note' = [note EXCEPT ![r] = locals]
    BY <1>0, <1>4, <2>2 DEF WalletBalance
  <2>4. note'[r] = locals
    BY <1>0, <2>3
  <2>5. QED
    BY <1>4, <2>1, <2>3, <2>4
<1>5. CASE Read(r)
  BY <1>0, <1>5 DEF Read, OrderbookGetAsks, OrderbookGetBids, Return, Goto
<1>6. CASE /\ ClientImport(r) \/ GetMainWalletAddress(r)
           /\ note' = note /\ UNCHANGED <<sent, chainVars>>
  BY <1>6 DEF ClientImport, GetMainWalletAddress, Shape, NotesFit
<1>7. CASE Post(r)
  BY <1>7 DEF Post
<1>8. QED
  BY <1>1, <1>2, <1>3, <1>4, <1>5, <1>6, <1>7, OwnSteps

(* Where a message comes from. *)
LEMMA SentOrigin ==
  ASSUME Shape, [Next]_vars, NEW r \in Slots, sent'[r] # Nil
  PROVE  \/ sent'[r] = sent[r]
         \/ pc[r] = "call" /\ sent'[r] = note[r] /\ UNCHANGED <<chainVars, minerAddr, crashed>>
<1>0. sent \in [Slots -> Messages \cup {Nil}]
  BY DEF Shape, TypeOK
<1>1. ASSUME NEW s \in Slots, Post(s)
      PROVE  \/ sent'[r] = sent[r]
             \/ /\ pc[r] = "call" /\ sent'[r] = note[r]
                /\ UNCHANGED <<chainVars, minerAddr, crashed>>
  BY <1>0, <1>1 DEF Post
<1>2. ASSUME NEW s \in Slots, Land(s) \/ Lose(s) PROVE sent'[r] = sent[r]
  BY <1>0, <1>2 DEF Land, Lose
<1>3. ASSUME NEW n \in Nodes, AddNode(n) PROVE sent' = sent
  BY <1>3 DEF AddNode, Register, MiningOnce, PrintPointer, PrintLength
<1>4. ASSUME NEW t \in Threads, CreateOrGetMinerIdentity(t) PROVE sent' = sent
  BY <1>4 DEF CreateOrGetMinerIdentity, CheckIdentity, CreateMinerAddr, StoreLength,
              StorePointer, GetIdentity
<1>5. ASSUME NEW s \in Slots,
             Tick(s) \/ GetMainWalletAddress(s) \/ WalletBalance(s) \/ Read(s)
               \/ ClientImport(s) \/ CallReturns(s) \/ Timeout(s) \/ KillCall(s)
      PROVE  sent' = sent
  BY <1>5 DEF Tick, GetMainWalletAddress, WalletBalance, Read, OrderbookGetAsks, OrderbookGetBids, ClientImport,
              CallReturns, Timeout, KillCall
<1>6. Cancel \/ UNCHANGED vars => sent' = sent
  BY DEF Cancel, vars
<1>7. QED
  BY <1>1, <1>2, <1>3, <1>4, <1>5, <1>6 DEF Next

(* Only mining, the creation of miners and messages that land change the chain.  *)
LEMMA ChainOrigin ==
  ASSUME [Next]_vars
  PROVE  \/ UNCHANGED chainVars
         \/ \E n \in Nodes : MiningOnce(n)
         \/ \E t \in Threads : CreateMinerAddr(t)
         \/ \E s \in Slots : Land(s)
<1>1. ASSUME NEW n \in Nodes, AddNode(n) PROVE UNCHANGED chainVars \/ MiningOnce(n)
  BY <1>1 DEF AddNode, Register, PrintPointer, PrintLength
<1>2. ASSUME NEW t \in Threads, CreateOrGetMinerIdentity(t)
      PROVE  UNCHANGED chainVars \/ CreateMinerAddr(t)
  BY <1>2 DEF CreateOrGetMinerIdentity, CheckIdentity, StoreLength, StorePointer, GetIdentity
<1>3. ASSUME NEW s \in Slots,
             Tick(s) \/ GetMainWalletAddress(s) \/ WalletBalance(s) \/ Read(s)
               \/ ClientImport(s) \/ Post(s)
               \/ CallReturns(s) \/ Timeout(s) \/ KillCall(s) \/ Lose(s)
      PROVE  UNCHANGED chainVars
  BY <1>3 DEF Tick, GetMainWalletAddress, WalletBalance, Read, OrderbookGetAsks, OrderbookGetBids, ClientImport,
              Post, CallReturns, Timeout, KillCall, Lose
<1>4. Cancel \/ UNCHANGED vars => UNCHANGED chainVars
  BY DEF Cancel, vars, chainVars
<1>5. QED
  BY <1>1, <1>2, <1>3, <1>4 DEF Next

-----------------------------------------------------------------------------
(* Payments *)

(* A wallet that has less has been debited. *)
LEMMA WalletSteps ==
  ASSUME Shape, [Next]_vars, NEW n \in Nodes
  PROVE  /\ bal[n] \in Nat /\ bal'[n] \in Nat /\ spent[n] \in Nat /\ spent'[n] \in Nat
         /\ spent'[n] >= spent[n]
         /\ bal'[n] >= bal[n] \/ spent'[n] > spent[n]
<1> USE ActionsAssumption
<1>0. bal \in [Nodes -> Nat] /\ spent \in [Nodes -> Nat]
  BY DEF Shape, TypeOK
<1>1. CASE UNCHANGED chainVars
  BY <1>0, <1>1 DEF chainVars
<1>2. ASSUME NEW m \in Nodes, MiningOnce(m)
      PROVE  /\ bal'[n] \in Nat /\ spent'[n] \in Nat /\ spent'[n] >= spent[n]
             /\ bal'[n] >= bal[n] \/ spent'[n] > spent[n]
  BY <1>0, <1>2 DEF MiningOnce
<1>3. ASSUME NEW s \in Slots, Land(s)
      PROVE  /\ bal'[n] \in Nat /\ spent'[n] \in Nat /\ spent'[n] >= spent[n]
             /\ bal'[n] >= bal[n] \/ spent'[n] > spent[n]
  <2>1. CASE UNCHANGED <<bal, spent>>
    BY <1>0, <2>1
  <2>2. CASE /\ sent[s] \in Paying /\ bal[sent[s].node] >= AmtToSend
             /\ bal' = [bal EXCEPT ![sent[s].node] = @ - AmtToSend,
                                   ![sent[s].to] = @ + AmtToSend]
             /\ spent' = [spent EXCEPT ![sent[s].node] = @ + 1]
    <3> DEFINE x == sent[s].node
               y == sent[s].to
    <3>1. x \in Nodes /\ y \in Nodes
      BY <2>2 DEF Paying
    <3>2. /\ bal' = [bal EXCEPT ![x] = @ - AmtToSend, ![y] = @ + AmtToSend]
          /\ bal[x] >= AmtToSend /\ AmtToSend \in Nat
          /\ spent' = [spent EXCEPT ![x] = @ + 1]
      BY <2>2
    <3> HIDE DEF x, y
    <3>3. bal' \in [Nodes -> Nat] /\ (n # x => bal'[n] >= bal[n])
      BY ONLY <1>0, <3>1, <3>2, Transfer, n \in Nodes
    <3>4. spent' \in [Nodes -> Nat] /\ spent'[n] >= spent[n] /\ (n = x => spent'[n] > spent[n])
      BY ONLY <1>0, <3>1, <3>2, n \in Nodes
    <3>5. QED
      BY <1>0, <3>3, <3>4
  <2>3. CASE sent[s] \in Bidding /\ Debit(sent[s].node, Funds(sent[s].terms))
    <3>1. /\ bal' \in [Nodes -> Nat] /\ spent' \in [Nodes -> Nat] /\ spent'[n] >= spent[n]
          /\ spent'[n] > spent[n] \/ bal'[n] = bal[n]
      BY <2>3, FundsOfBid, DebitTyped
    <3>2. QED
      BY <1>0, <3>1
  <2>4. \/ UNCHANGED <<bal, spent>>
        \/ sent[s] \in Bidding /\ Debit(sent[s].node, Funds(sent[s].terms))
        \/ /\ sent[s] \in Paying /\ bal[sent[s].node] >= AmtToSend
           /\ bal' = [bal EXCEPT ![sent[s].node] = @ - AmtToSend,
                                 ![sent[s].to] = @ + AmtToSend]
           /\ spent' = [spent EXCEPT ![sent[s].node] = @ + 1]
    BY <1>3, LandByKind, Zenon
  <2>5. QED
    BY <2>1, <2>2, <2>3, <2>4, Zenon
<1>4. bal[n] \in Nat /\ spent[n] \in Nat
  BY <1>0
<1>5. ASSUME NEW t \in Threads, CreateMinerAddr(t)
      PROVE  /\ bal'[n] \in Nat /\ spent'[n] \in Nat /\ spent'[n] >= spent[n]
             /\ bal'[n] >= bal[n] \/ spent'[n] > spent[n]
  BY <1>5, CreationTyped
<1>6. QED
  BY <1>1, <1>2, <1>3, <1>4, <1>5, ChainOrigin, Zenon

LEMMA FundedKept ==
  ASSUME Shape, [Next]_vars, NEW m \in Messages, Funded(m)
  PROVE  m.kind = "payment" =>
           m.seen <= spent'[m.node] /\ (bal'[m.node] >= AmtToSend \/ m.seen < spent'[m.node])
<1>1. CASE m \in Paying
  <2>1. m.node \in Nodes /\ m.seen \in Nat /\ m.kind = "payment"
    BY <1>1 DEF Paying
  <2>2. AmtToSend \in Nat
    BY ActionsAssumption
  <2>3. QED
    BY <2>1, <2>2, WalletSteps DEF Funded
<1>2. CASE m \notin Paying
  <2>1. m.kind # "payment"
    BY <1>2 DEF Messages, Asking, Bidding, Dealing
  <2>2. QED
    BY <2>1
<1>3. QED
  BY <1>1, <1>2

LEMMA NextFunded ==
  ASSUME Shape, PaymentsFunded, [Next]_vars
  PROVE  PaymentsFunded'
<1>1. SUFFICES ASSUME NEW r \in Slots
               PROVE  /\ pc'[r] \in {"call", "waiting"} => Funded(note[r])'
                      /\ sent'[r] # Nil => Funded(sent[r])'
  BY DEF PaymentsFunded
<1>2. ASSUME pc'[r] \in {"call", "waiting"} PROVE Funded(note[r])'
  <2>1. CASE pc[r] \in {"call", "waiting"} /\ note'[r] = note[r]
    <3>1. note[r] \in Messages /\ Funded(note[r])
      BY <2>1 DEF Shape, NotesFit, PaymentsFunded
    <3>2. QED
      BY <2>1, <3>1, FundedKept DEF Funded
  <2>2. CASE note'[r] \in Asking \cup Bidding \cup Dealing
    BY <2>2 DEF Asking, Bidding, Dealing, Funded
  <2>3. CASE /\ UNCHANGED chainVars /\ note[r] \in Checking
             /\ bal[note[r].node] >= AmtToSend
             /\ note'[r] = [kind |-> "payment", node |-> note[r].node, to |-> note[r].to,
                            seen |-> spent[note[r].node]]
    <3>1. note[r].node \in Nodes /\ spent[note[r].node] \in Nat
      BY <2>3 DEF Checking, Shape, TypeOK
    <3>2. QED
      BY <2>3, <3>1 DEF Funded, chainVars
  <2>4. QED
    BY <1>2, <2>1, <2>2, <2>3, CallOrigin
<1>3. ASSUME sent'[r] # Nil PROVE Funded(sent[r])'
  <2>1. PICK m \in Messages : Funded(m) /\ sent'[r] = m
    <3>1. sent[r] # Nil => sent[r] \in Messages /\ Funded(sent[r])
      BY DEF Shape, TypeOK, PaymentsFunded
    <3>2. pc[r] = "call" => note[r] \in Messages /\ Funded(note[r])
      BY DEF Shape, NotesFit, PaymentsFunded
    <3>3. QED
      BY <1>3, <3>1, <3>2, SentOrigin
  <2>2. QED
    BY <2>1, FundedKept DEF Funded
<1>4. QED
  BY <1>2, <1>3

-----------------------------------------------------------------------------
(* The identity of a miner *)

(* A goroutine that creates, stores or reads an identity was asking for it       *)
(* before, for the same node, and has moved by its own step only.                *)
LEMMA IdentityOrigin ==
  ASSUME Shape, [Next]_vars, NEW t \in Threads,
         pc'[t] \in {"create", "store", "stored", "got"}
  PROVE  /\ pc[t] \in AtIdentity /\ NodeOf(t)' = NodeOf(t) /\ NodeOf(t) \in Miners
         /\ pc'[t] = pc[t] \/ CreateOrGetMinerIdentity(t)
<1> USE ActionsAssumption
<1>0. /\ note \in [Slots -> Locals \cup {Nil}] /\ pc \in [Threads -> Places]
  BY DEF Shape, TypeOK
<1>1. CASE t \in Slots
  <2>1. CASE pc'[t] = pc[t] /\ note'[t] = note[t]
    BY <1>1, <2>1, IdentityOfMiner DEF NodeOf, AtIdentity
  <2>2. CASE CreateOrGetMinerIdentity(t) /\ note' = note
    <3>1. pc[t] \in AtIdentity
      BY <2>2 DEF CreateOrGetMinerIdentity, CheckIdentity, CreateMinerAddr, StoreLength,
                  StorePointer, GetIdentity, AtIdentity
    <3>2. QED
      BY <1>1, <2>2, <3>1, IdentityOfMiner DEF NodeOf
  <2>3. CASE Tick(t)
    BY <1>0, <2>3 DEF Tick, DoRandomAction, StartPayment, StartAsk, StartBid, StartDeal,
                      Begin, Goto
  <2>4. CASE WalletBalance(t) \/ Read(t) \/ Post(t) \/ pc'[t] = "call"
    BY <1>0, <2>4 DEF WalletBalance, Read, OrderbookGetAsks, OrderbookGetBids, Post,
                      Return, Goto
  <2>5. QED
    BY <1>1, <2>1, <2>2, <2>3, <2>4, OwnSteps
<1>2. CASE t \in Nodes
  <2>1. t \notin Slots /\ NodeOf(t)' = NodeOf(t) /\ NodeOf(t) = t
    BY <1>2 DEF NodeOf
  <2>2. ASSUME NEW n \in Nodes, AddNode(n) PROVE pc'[t] = pc[t]
    BY <1>0, <2>2 DEF AddNode, Register, MiningOnce, PrintPointer, PrintLength, Goto
  <2>3. ASSUME NEW x \in Threads, CreateOrGetMinerIdentity(x), x # t PROVE pc'[t] = pc[t]
    BY <1>0, <2>3 DEF CreateOrGetMinerIdentity, CheckIdentity, CreateMinerAddr, StoreLength,
                      StorePointer, GetIdentity, Return, Goto
  <2>4. ASSUME NEW s \in Slots,
               Tick(s) \/ GetMainWalletAddress(s) \/ WalletBalance(s) \/ Read(s)
                 \/ ClientImport(s) \/ Post(s)
                 \/ CallReturns(s) \/ Timeout(s) \/ KillCall(s) \/ Land(s) \/ Lose(s)
        PROVE  pc'[t] = pc[t]
    <3>1. CASE Tick(s)
      BY <1>0, <2>1, <3>1 DEF Tick, DoRandomAction, StartPayment, StartAsk, StartBid,
                              StartDeal, Begin, Goto
    <3>2. CASE GetMainWalletAddress(s) \/ WalletBalance(s) \/ Read(s) \/ ClientImport(s) \/ Post(s)
      BY <1>0, <2>1, <3>2
         DEF GetMainWalletAddress, WalletBalance, Read, OrderbookGetAsks, OrderbookGetBids,
             ClientImport, Post, Return, Goto
    <3>3. CASE CallReturns(s) \/ Timeout(s) \/ KillCall(s) \/ Land(s) \/ Lose(s)
      BY <1>0, <2>1, <3>3 DEF CallReturns, Timeout, KillCall, Land, Lose, Return, Goto
    <3>4. QED
      BY <2>4, <3>1, <3>2, <3>3
  <2>5. Cancel \/ UNCHANGED vars => pc'[t] = pc[t]
    BY DEF Cancel, vars
  <2>6. pc'[t] = pc[t] \/ CreateOrGetMinerIdentity(t)
    BY <2>2, <2>3, <2>4, <2>5 DEF Next
  <2>7. pc[t] \in AtIdentity
    BY <2>6 DEF CreateOrGetMinerIdentity, CheckIdentity, CreateMinerAddr, StoreLength,
                StorePointer, GetIdentity, AtIdentity
  <2>8. QED
    BY <2>1, <2>6, <2>7, IdentityOfMiner
<1>3. QED
  BY <1>1, <1>2 DEF Threads

(* Only goroutines that store an identity change the miner address of its node.  *)
LEMMA AddrOrigin ==
  ASSUME [Next]_vars
  PROVE  \/ UNCHANGED minerAddr
         \/ \E t \in Threads : StoreLength(t) \/ StorePointer(t)
<1>1. ASSUME NEW n \in Nodes, AddNode(n) PROVE UNCHANGED minerAddr
  BY <1>1 DEF AddNode, Register, MiningOnce, PrintPointer, PrintLength
<1>2. ASSUME NEW t \in Threads, CreateOrGetMinerIdentity(t)
      PROVE  UNCHANGED minerAddr \/ StoreLength(t) \/ StorePointer(t)
  BY <1>2 DEF CreateOrGetMinerIdentity, CheckIdentity, CreateMinerAddr, GetIdentity
<1>3. ASSUME NEW s \in Slots,
             Tick(s) \/ GetMainWalletAddress(s) \/ WalletBalance(s) \/ Read(s)
               \/ ClientImport(s) \/ Post(s)
               \/ CallReturns(s) \/ Timeout(s) \/ KillCall(s) \/ Land(s) \/ Lose(s)
      PROVE  UNCHANGED minerAddr
  BY <1>3 DEF Tick, GetMainWalletAddress, WalletBalance, Read, OrderbookGetAsks, OrderbookGetBids, ClientImport,
              Post, CallReturns, Timeout, KillCall, Land, Lose
<1>4. Cancel \/ UNCHANGED vars => UNCHANGED minerAddr
  BY DEF Cancel, vars
<1>5. QED
  BY <1>1, <1>2, <1>3, <1>4 DEF Next

(* An address that is there stays, and one that is whole stays whole.            *)
LEMMA AddrSteps ==
  ASSUME Shape, [Next]_vars, NEW n \in Miners
  PROVE  /\ minerAddr[n] # NoAddr => minerAddr'[n] # NoAddr
         /\ Whole(n) => minerAddr'[n] \notin {NoAddr, Torn}
<1> USE ActionsAssumption
<1>0. minerAddr \in [Miners -> {NoAddr, Torn} \cup Threads]
  BY DEF Shape, TypeOK
<1>1. ASSUME NEW t \in Threads, StoreLength(t)
      PROVE  /\ minerAddr[n] # NoAddr => minerAddr'[n] # NoAddr
             /\ Whole(n) => minerAddr'[n] \notin {NoAddr, Torn}
  BY <1>0, <1>1 DEF StoreLength, Whole
<1>2. ASSUME NEW t \in Threads, StorePointer(t)
      PROVE  /\ minerAddr[n] # NoAddr => minerAddr'[n] # NoAddr
             /\ Whole(n) => minerAddr'[n] \notin {NoAddr, Torn}
  BY <1>0, <1>2 DEF StorePointer, Whole
<1>3. QED
  BY <1>1, <1>2, AddrOrigin DEF Whole

LEMMA NextWhole ==
  ASSUME Shape, AsksWhole, [Next]_vars
  PROVE  AsksWhole'
<1> USE ActionsAssumption
<1>1. CASE UNCHANGED vars
  BY <1>1 DEF vars, chainVars, AsksWhole, NodeOf, Whole
<1>2. ASSUME Next PROVE AsksWhole'
  <2>1. ~crashed /\ minerAddr \in [Miners -> {NoAddr, Torn} \cup Threads]
    BY <1>2 DEF Next, Shape, TypeOK
  <2>2. ASSUME NEW t \in Threads, pc'[t] \in {"stored", "got"}
        PROVE  minerAddr'[NodeOf(t)'] # NoAddr
    <3>1. /\ NodeOf(t)' = NodeOf(t) /\ NodeOf(t) \in Miners
          /\ pc'[t] = pc[t] \/ CreateOrGetMinerIdentity(t)
      BY <2>2, IdentityOrigin
    <3>2. CASE pc'[t] = pc[t]
      <4>1. minerAddr[NodeOf(t)] # NoAddr
        BY <2>2, <3>2 DEF AsksWhole
      <4>2. minerAddr'[NodeOf(t)] # NoAddr
        BY <3>1, <4>1, AddrSteps
      <4>3. QED
        BY <3>1, <4>2
    <3>3. CASE CreateOrGetMinerIdentity(t)
      <4>1. pc \in [Threads -> Places]
        BY DEF Shape, TypeOK
      <4>2. minerAddr'[NodeOf(t)] # NoAddr
        BY <2>1, <2>2, <3>1, <3>3, <4>1
           DEF CreateOrGetMinerIdentity, CheckIdentity, CreateMinerAddr, StoreLength,
               StorePointer, GetIdentity, Goto, Return
      <4>3. QED
        BY <3>1, <4>2
    <3>4. QED
      BY <3>1, <3>2, <3>3
  <2>3. ASSUME NEW r \in Slots, ~crashed', pc'[r] \in {"call", "waiting"},
               note'[r].kind = "ask"
        PROVE  minerAddr'[note'[r].node] \notin {NoAddr, Torn}
    <3>1. CASE pc[r] \in {"call", "waiting"} /\ note'[r] = note[r]
      <4>1. Whole(note[r].node) /\ note[r] \in Messages
        BY <2>1, <2>3, <3>1 DEF AsksWhole, Shape, NotesFit
      <4>2. note[r] \in Asking
        BY <2>3, <3>1, <4>1 DEF Messages, Paying, Bidding, Dealing
      <4>3. note[r].node \in Miners
        BY <4>2 DEF Asking
      <4>4. QED
        BY <3>1, <4>1, <4>3, AddrSteps
    <3>2. CASE GetIdentity(r) /\ note'[r] = note[r] /\ note[r] \in Asking
      <4>1. note[r].node \in Miners /\ NodeOf(r) = note[r].node /\ r \in Threads
        BY <3>2 DEF Asking, NodeOf, Threads
      <4>2. minerAddr[NodeOf(r)] # NoAddr
        BY <3>2, <4>1 DEF GetIdentity, AsksWhole
      <4>3. minerAddr[NodeOf(r)] # Torn /\ minerAddr' = minerAddr
        BY <2>3, <3>2 DEF GetIdentity
      <4>4. QED
        BY <3>2, <4>1, <4>2, <4>3
    <3>3. note'[r] \notin Bidding /\ note'[r] \notin Dealing
      BY <2>3 DEF Bidding, Dealing
    <3>4. note'[r] # [kind |-> "payment", node |-> note[r].node, to |-> note[r].to,
                      seen |-> spent[note[r].node]]
      BY <2>3
    <3>5. QED
      BY <2>3, <3>1, <3>2, <3>3, <3>4, CallOrigin, Zenon
  <2>4. ASSUME NEW r \in Slots, sent'[r] # Nil, sent'[r].kind = "ask"
        PROVE  minerAddr'[sent'[r].node] \notin {NoAddr, Torn}
    <3>1. PICK m \in Messages : sent'[r] = m /\ m.kind = "ask" /\ Whole(m.node)
      <4>1. CASE sent'[r] = sent[r]
        <5>1. sent[r] \in Messages /\ Whole(sent[r].node)
          BY <2>4, <4>1 DEF AsksWhole, Shape, TypeOK
        <5>2. QED
          BY <2>4, <4>1, <5>1
      <4>2. CASE pc[r] = "call" /\ sent'[r] = note[r]
        <5>1. note[r] \in Messages /\ Whole(note[r].node)
          BY <2>1, <2>4, <4>2 DEF AsksWhole, Shape, NotesFit
        <5>2. QED
          BY <2>4, <4>2, <5>1
      <4>3. QED
        BY <2>4, <4>1, <4>2, SentOrigin
    <3>2. m.node \in Miners
      BY <3>1 DEF Messages, Asking, Paying, Bidding, Dealing
    <3>3. QED
      BY <3>1, <3>2, AddrSteps
  <2>5. ASSUME NEW i \in 1 .. Len(asks')
        PROVE  asks'[i].owner \in Miners /\ minerAddr'[asks'[i].owner] \notin {NoAddr, Torn}
    <3>1. \/ asks' = asks
          \/ \E s \in Slots : /\ sent[s] \in Asking /\ sent[s].kind = "ask" /\ sent[s] # Nil
                              /\ asks' = Append(asks, Entry(sent[s]))
      <4>1. UNCHANGED chainVars => asks' = asks
        BY DEF chainVars
      <4>2. /\ \A n \in Nodes : MiningOnce(n) => asks' = asks
            /\ \A t \in Threads : CreateMinerAddr(t) => asks' = asks
        BY DEF MiningOnce, CreateMinerAddr
      <4>3. \A s \in Slots : Land(s) => sent[s] # Nil
        BY DEF Land
      <4>4. QED
        BY <4>1, <4>2, <4>3, LandByKind, ChainOrigin
    <3>2. asks \in Seq(Entries) /\ Len(asks) \in Nat
      BY LenProperties DEF Shape, TypeOK
    <3>3. CASE i \in 1 .. Len(asks) /\ asks'[i] = asks[i]
      <4>1. asks[i].owner \in Miners /\ Whole(asks[i].owner)
        BY <3>3 DEF AsksWhole
      <4>2. QED
        BY <3>3, <4>1, AddrSteps
    <3>4. ASSUME NEW s \in Slots, sent[s] \in Asking, sent[s].kind = "ask", sent[s] # Nil,
                 asks'[i] = Entry(sent[s])
          PROVE  asks'[i].owner \in Miners
                   /\ minerAddr'[asks'[i].owner] \notin {NoAddr, Torn}
      <4>1. asks'[i].owner = sent[s].node /\ sent[s].node \in Miners
        BY <3>4 DEF Entry, Asking
      <4>2. Whole(sent[s].node)
        BY <3>4 DEF AsksWhole
      <4>3. QED
        BY <4>1, <4>2, AddrSteps
    <3>5. ASSUME NEW s \in Slots, sent[s] \in Asking, asks' = Append(asks, Entry(sent[s]))
          PROVE  \/ i \in 1 .. Len(asks) /\ asks'[i] = asks[i]
                 \/ asks'[i] = Entry(sent[s])
      <4>1. Entry(sent[s]) \in Entries
        BY <3>5 DEF Entry, Entries, Asking, Nodes
      <4>2. QED
        BY <3>2, <3>5, <4>1, AppendProperties
    <3>6. QED
      BY <3>1, <3>3, <3>4, <3>5
  <2>6. QED
    BY <2>2, <2>3, <2>4, <2>5 DEF AsksWhole, Whole
<1>3. QED
  BY <1>1, <1>2

(* A step of a settled identity. *)
LEMMA SettlesStep ==
  ASSUME Shape, [Next]_vars, NEW n \in Miners, minerAddr[n] # NoAddr, Creating(n) = {}
  PROVE  Creating(n)' = {} /\ minerAddr'[n] = minerAddr[n]
<1> USE ActionsAssumption
<1>0. /\ minerAddr \in [Miners -> {NoAddr, Torn} \cup Threads]
      /\ pc \in [Threads -> Places]
  BY DEF Shape, TypeOK
<1>1. ASSUME NEW t \in Threads, pc'[t] \in {"create", "store", "stored"}, NodeOf(t)' = n
      PROVE  FALSE
  <2>1. /\ pc[t] \in AtIdentity /\ NodeOf(t)' = NodeOf(t)
        /\ pc'[t] = pc[t] \/ CreateOrGetMinerIdentity(t)
    BY <1>1, IdentityOrigin
  <2>2. pc[t] \notin {"create", "store", "stored"}
    BY <1>1, <2>1 DEF Creating
  <2>3. CreateOrGetMinerIdentity(t)
    BY <1>1, <2>1, <2>2
  <2>4. minerAddr[NodeOf(t)] = NoAddr
    BY <1>0, <1>1, <2>2, <2>3
       DEF CreateOrGetMinerIdentity, CheckIdentity, CreateMinerAddr, StoreLength,
           StorePointer, GetIdentity, Goto, Return
  <2>5. QED
    BY <1>1, <2>1, <2>4
<1>2. minerAddr'[n] = minerAddr[n]
  <2>1. ASSUME NEW t \in Threads, StoreLength(t) \/ StorePointer(t)
        PROVE  minerAddr'[n] = minerAddr[n]
    <3>1. pc[t] \in {"store", "stored"}
      BY <2>1 DEF StoreLength, StorePointer
    <3>2. NodeOf(t) # n
      BY <3>1 DEF Creating
    <3>3. QED
      BY <1>0, <2>1, <3>2 DEF StoreLength, StorePointer
  <2>2. QED
    BY <2>1, AddrOrigin
<1>3. QED
  BY <1>1, <1>2 DEF Creating

-----------------------------------------------------------------------------
(* Deals *)

(* A book that only grows. *)
Extends(new, old) ==
  /\ Len(old) \in Nat /\ Len(new) \in Nat /\ Len(old) <= Len(new)
  /\ \A i \in 1 .. Len(old) : new[i] = old[i]

(* Chosen, of given books. *)
ChosenFrom(d, as, bs, ds) ==
  LET Meets(a, b) == as[a].size >= bs[b].size /\ as[a].price <= bs[b].price
      open == {b \in 1 .. d.nbids : bs[b].owner = d.node /\ b \notin {ds[k].bid : k \in 1 .. d.seen}
                                      /\ \E a \in 1 .. d.nasks : Meets(a, b)}
  IN  /\ d.nasks <= Len(as) /\ d.nbids <= Len(bs) /\ d.seen <= Len(ds)
      /\ d.bid \in open /\ \A b \in open : d.bid <= b
      /\ d.ask \in 1 .. d.nasks /\ Meets(d.ask, d.bid)
      /\ \A a \in 1 .. d.nasks : Meets(a, d.bid) => as[d.ask].price <= as[a].price

LEMMA ChosenIsFrom == \A d : Chosen(d) <=> ChosenFrom(d, asks, bids, deals)
  BY DEF Chosen, ChosenFrom, IsBest, Match

(* What an action has chosen remains the best of what it had read. *)
LEMMA ChosenFromKept ==
  ASSUME NEW as, NEW bs, NEW ds, NEW as2, NEW bs2, NEW ds2,
         Extends(as2, as), Extends(bs2, bs), Extends(ds2, ds),
         NEW d \in Dealing, ChosenFrom(d, as, bs, ds)
  PROVE  ChosenFrom(d, as2, bs2, ds2)
<1>1. d.nasks \in Nat /\ d.nbids \in Nat /\ d.seen \in Nat
  BY DEF Dealing
<1>2. d.nasks <= Len(as) /\ d.nbids <= Len(bs) /\ d.seen <= Len(ds)
  BY DEF ChosenFrom
<1>3. ASSUME NEW new, NEW old, Extends(new, old), NEW n \in Nat, n <= Len(old)
      PROVE  n <= Len(new) /\ \A i \in 1 .. n : new[i] = old[i]
  BY <1>3 DEF Extends
<1>4. /\ d.nasks <= Len(as2) /\ \A a \in 1 .. d.nasks : as2[a] = as[a]
      /\ d.nbids <= Len(bs2) /\ \A b \in 1 .. d.nbids : bs2[b] = bs[b]
      /\ d.seen <= Len(ds2) /\ \A k \in 1 .. d.seen : ds2[k] = ds[k]
  BY <1>1, <1>2, <1>3
<1>5. {ds2[k].bid : k \in 1 .. d.seen} = {ds[k].bid : k \in 1 .. d.seen}
  BY <1>4
<1>6. QED
  BY <1>4, <1>5 DEF ChosenFrom

(* The order book and the deals only grow. *)
LEMMA BookSteps ==
  ASSUME Shape, [Next]_vars
  PROVE  Extends(asks', asks) /\ Extends(bids', bids) /\ Extends(deals', deals)
<1>0. /\ asks \in Seq(Entries) /\ bids \in Seq(Entries) /\ deals \in Seq(Dealing)
      /\ Len(asks) \in Nat /\ Len(bids) \in Nat /\ Len(deals) \in Nat
  BY LenProperties DEF Shape, TypeOK
<1>1. CASE UNCHANGED <<asks, bids, deals>>
  BY <1>0, <1>1 DEF Extends
<1>2. ASSUME NEW S, NEW book \in Seq(S), NEW e \in S PROVE Extends(Append(book, e), book)
  <2>1. Len(book) \in Nat
    BY LenProperties
  <2>2. QED
    BY <2>1, AppendProperties DEF Extends
<1>3. ASSUME NEW s \in Slots, Land(s)
      PROVE  Extends(asks', asks) /\ Extends(bids', bids) /\ Extends(deals', deals)
  <2>1. CASE sent[s] \in Asking /\ asks' = Append(asks, Entry(sent[s])) /\ UNCHANGED <<bids, deals>>
    <3>1. Entry(sent[s]) \in Entries
      BY <2>1, ActionsAssumption DEF Entry, Entries, Asking, Nodes
    <3>2. Extends(asks', asks)
      BY <1>0, <1>2, <2>1, <3>1
    <3>3. QED
      BY <1>0, <2>1, <3>2 DEF Extends
  <2>2. CASE sent[s] \in Bidding /\ bids' = Append(bids, Entry(sent[s])) /\ UNCHANGED <<asks, deals>>
    <3>1. Entry(sent[s]) \in Entries
      BY <2>2, ActionsAssumption DEF Entry, Entries, Bidding, Nodes
    <3>2. Extends(bids', bids)
      BY <1>0, <1>2, <2>2, <3>1
    <3>3. QED
      BY <1>0, <2>2, <3>2 DEF Extends
  <2>3. CASE sent[s] \in Dealing /\ deals' = Append(deals, sent[s]) /\ UNCHANGED <<asks, bids>>
    <3>1. Extends(deals', deals)
      BY <1>0, <1>2, <2>3
    <3>2. QED
      BY <1>0, <2>3, <3>1 DEF Extends
  <2>4. QED
    BY <1>1, <1>3, <2>1, <2>2, <2>3, LandByKind
<1>4. ASSUME NEW n \in Nodes, MiningOnce(n) PROVE UNCHANGED <<asks, bids, deals>>
  BY <1>4 DEF MiningOnce
<1>5. /\ UNCHANGED chainVars => UNCHANGED <<asks, bids, deals>>
      /\ \A t \in Threads : CreateMinerAddr(t) => UNCHANGED <<asks, bids, deals>>
  BY DEF chainVars, CreateMinerAddr
<1>6. QED
  BY <1>1, <1>3, <1>4, <1>5, ChainOrigin

LEMMA ChosenKept ==
  ASSUME Shape, [Next]_vars, NEW d \in Dealing, Chosen(d)
  PROVE  ChosenFrom(d, asks', bids', deals')
BY BookSteps, ChosenIsFrom, ChosenFromKept

(* How an action comes to read the bids, and to import a file. *)
LEMMA ReadOrigin ==
  ASSUME Shape, DealsChosen, [Next]_vars, NEW r \in Slots
  PROVE  /\ pc'[r] = "bids" =>
              \/ pc[r] = "bids" /\ note'[r] = note[r]
              \/ note'[r].nasks = Len(asks) /\ UNCHANGED chainVars
         /\ pc'[r] = "import" =>
              \/ pc[r] = "import" /\ note'[r] = note[r]
              \/ note'[r] \in Dealing /\ Chosen(note'[r]) /\ UNCHANGED chainVars
<1>0. /\ note \in [Slots -> Locals \cup {Nil}] /\ pc \in [Threads -> Places]
      /\ r \in Threads
  BY DEF Shape, TypeOK, Threads
<1>1. CASE CreateOrGetMinerIdentity(r) \/ Tick(r) \/ WalletBalance(r) \/ Post(r)
             \/ pc'[r] \in {"idle", "call"}
  <2>1. pc'[r] \notin {"bids", "import"}
    BY <1>0, <1>1
       DEF CreateOrGetMinerIdentity, CheckIdentity, CreateMinerAddr, StoreLength,
           StorePointer, GetIdentity, Tick, DoRandomAction, StartPayment, StartAsk, StartBid,
           StartDeal, Begin, WalletBalance, Post, Return, Goto
  <2>2. QED
    BY <2>1
<1>2. CASE OrderbookGetAsks(r) /\ UNCHANGED chainVars
  BY <1>0, <1>2 DEF OrderbookGetAsks, Return, Goto
<1>3. CASE OrderbookGetBids(r) /\ UNCHANGED chainVars
  <2>1. CASE Return(r)
    BY <1>0, <2>1 DEF Return, Goto
  <2>2. CASE ~Return(r)
    <3>1. PICK pair \in GetBestDealPair(ExtractAsks(SubSeq(asks, 1, note[r].nasks)),
                                        ExtractUnusedBids(bids, UsedBids), note[r].node) :
            note' = [note EXCEPT ![r] =
                       [kind |-> "deal", node |-> @.node, nasks |-> @.nasks,
                        ask |-> pair.ask.id, bid |-> pair.bid.id,
                        nbids |-> Len(bids), seen |-> Len(deals)]]
      BY <1>3, <2>2 DEF OrderbookGetBids
    <3> DEFINE locals == [kind |-> "deal", node |-> note[r].node, nasks |-> note[r].nasks,
                          ask |-> pair.ask.id, bid |-> pair.bid.id,
                          nbids |-> Len(bids), seen |-> Len(deals)]
    <3>2. note'[r] = locals
      BY <1>0, <3>1
    <3>3. note[r].node \in Clients /\ note[r].nasks \in Nat /\ note[r].nasks <= Len(asks)
      BY <1>3 DEF OrderbookGetBids, Shape, NotesFit, ReadingBids, DealsChosen
    <3>4. locals \in Dealing /\ Chosen(locals)
      BY <3>1, <3>3, ProposalIsBest
    <3>5. pc'[r] = "import"
      BY <1>0, <1>3, <2>2 DEF OrderbookGetBids, Goto
    <3> HIDE DEF locals
    <3>6. QED
      BY <1>3, <3>2, <3>4, <3>5
  <2>3. QED
    BY <2>1, <2>2
<1>4. QED
  BY <1>1, <1>2, <1>3, OwnSteps DEF Read

LEMMA NextChosen ==
  ASSUME Shape, Shape', DealsChosen, [Next]_vars
  PROVE  DealsChosen'
<1>0. /\ asks \in Seq(Entries) /\ bids \in Seq(Entries) /\ deals \in Seq(Dealing)
      /\ Len(asks) \in Nat /\ Len(bids) \in Nat /\ Len(deals) \in Nat
  BY LenProperties DEF Shape, TypeOK
<1>1. Extends(asks', asks) /\ Extends(bids', bids) /\ Extends(deals', deals)
  BY BookSteps
<1>2. ASSUME NEW r \in Slots, pc'[r] = "bids" PROVE note'[r].nasks <= Len(asks')
  <2>1. note'[r] \in ReadingBids
    BY <1>2 DEF Shape, NotesFit
  <2>2. note'[r].nasks \in Nat
    BY <2>1 DEF ReadingBids
  <2>3. CASE pc[r] = "bids" /\ note'[r] = note[r]
    <3>1. note[r].nasks <= Len(asks)
      BY <2>3 DEF DealsChosen
    <3>2. QED
      BY <1>1, <2>2, <2>3, <3>1 DEF Extends
  <2>4. CASE note'[r].nasks = Len(asks) /\ UNCHANGED chainVars
    BY <1>0, <2>4 DEF chainVars
  <2>5. QED
    BY <1>2, <2>3, <2>4, ReadOrigin
<1>3. ASSUME NEW r \in Slots, pc'[r] = "import"
      PROVE  ChosenFrom(note'[r], asks', bids', deals')
  <2>1. CASE pc[r] = "import" /\ note'[r] = note[r]
    <3>1. note[r] \in Dealing /\ Chosen(note[r])
      BY <2>1 DEF Shape, NotesFit, DealsChosen
    <3>2. QED
      BY <2>1, <3>1, ChosenKept
  <2>2. CASE note'[r] \in Dealing /\ Chosen(note'[r]) /\ UNCHANGED chainVars
    BY <2>2, ChosenKept
  <2>3. QED
    BY <1>3, <2>1, <2>2, ReadOrigin
<1>4. ASSUME NEW r \in Slots, pc'[r] \in {"call", "waiting"}, note'[r].kind = "deal"
      PROVE  ChosenFrom(note'[r], asks', bids', deals')
  <2>1. CASE pc[r] \in {"call", "waiting", "import"} /\ note'[r] = note[r]
    <3>1. note[r] \in Messages
      BY <2>1 DEF Shape, NotesFit, Messages
    <3>2. note[r] \in Dealing
      BY <1>4, <2>1, <3>1 DEF Messages, Paying, Asking, Bidding
    <3>3. Chosen(note[r])
      BY <1>4, <2>1 DEF DealsChosen
    <3>4. QED
      BY <2>1, <3>2, <3>3, ChosenKept
  <2>2. note'[r] \notin Asking /\ note'[r] \notin Bidding
    BY <1>4 DEF Asking, Bidding
  <2>3. note'[r] # [kind |-> "payment", node |-> note[r].node, to |-> note[r].to,
                    seen |-> spent[note[r].node]]
    BY <1>4
  <2>4. \/ pc[r] \in {"call", "waiting"} /\ note'[r] = note[r]
        \/ note[r] \in Asking /\ note'[r] = note[r]
        \/ pc[r] = "import" /\ note'[r] = note[r]
    BY <1>4, <2>2, <2>3, CallOrigin, Zenon
  <2>5. QED
    BY <2>1, <2>2, <2>4
<1>5. ASSUME NEW r \in Slots, sent'[r] # Nil, sent'[r].kind = "deal"
      PROVE  ChosenFrom(sent'[r], asks', bids', deals')
  <2>1. PICK m \in Messages : sent'[r] = m /\ m.kind = "deal" /\ Chosen(m)
    <3>1. CASE sent'[r] = sent[r]
      <4>1. sent[r] \in Messages /\ Chosen(sent[r])
        BY <1>5, <3>1 DEF DealsChosen, Shape, TypeOK
      <4>2. QED
        BY <1>5, <3>1, <4>1
    <3>2. CASE pc[r] = "call" /\ sent'[r] = note[r]
      <4>1. note[r] \in Messages /\ Chosen(note[r])
        BY <1>5, <3>2 DEF DealsChosen, Shape, NotesFit
      <4>2. QED
        BY <1>5, <3>2, <4>1
    <3>3. QED
      BY <1>5, <3>1, <3>2, SentOrigin
  <2>2. m \in Dealing
    BY <2>1 DEF Messages, Asking, Paying, Bidding
  <2>3. QED
    BY <2>1, <2>2, ChosenKept
<1>6. ASSUME NEW i \in 1 .. Len(deals')
      PROVE  ChosenFrom(deals'[i], asks', bids', deals') /\ deals'[i].seen < i
  <2>1. CASE i \in 1 .. Len(deals)
    <3>1. deals[i] \in Dealing /\ Chosen(deals[i]) /\ deals[i].seen < i
      BY <1>0, <2>1, ElementOfSeq DEF DealsChosen
    <3>2. deals'[i] = deals[i]
      BY <1>1, <2>1 DEF Extends
    <3>3. QED
      BY <3>1, <3>2, ChosenKept
  <2>2. CASE i \notin 1 .. Len(deals)
    <3>1. PICK s \in Slots : /\ sent[s] \in Dealing /\ sent[s].kind = "deal" /\ sent[s] # Nil
                             /\ deals' = Append(deals, sent[s])
      <4>1. deals' # deals
        BY <2>2
      <4>2. UNCHANGED chainVars => deals' = deals
        BY DEF chainVars
      <4>3. /\ \A n \in Nodes : MiningOnce(n) => deals' = deals
            /\ \A t \in Threads : CreateMinerAddr(t) => deals' = deals
        BY DEF MiningOnce, CreateMinerAddr
      <4>4. \A s \in Slots : Land(s) => sent[s] # Nil
        BY DEF Land
      <4>5. QED
        BY <4>1, <4>2, <4>3, <4>4, LandByKind, ChainOrigin
    <3>2. i = Len(deals) + 1 /\ deals'[i] = sent[s]
      BY <1>0, <2>2, <3>1, AppendProperties
    <3>3. Chosen(sent[s])
      BY <3>1 DEF DealsChosen
    <3>4. sent[s].seen <= Len(deals) /\ sent[s].seen \in Nat
      BY <3>1, <3>3 DEF Chosen, Dealing
    <3>5. ChosenFrom(sent[s], asks', bids', deals')
      BY <3>1, <3>3, ChosenKept
    <3>6. QED
      BY <1>0, <3>2, <3>4, <3>5
  <2>3. QED
    BY <2>1, <2>2
<1>7. \A d : ChosenFrom(d, asks', bids', deals') => Chosen(d)'
  BY DEF Chosen, ChosenFrom, IsBest, Match
<1>8. QED
  BY <1>2, <1>3, <1>4, <1>5, <1>6, <1>7 DEF DealsChosen

-----------------------------------------------------------------------------
(* The theorems *)

LEMMA InitIInv == Init => IInv
<1> SUFFICES ASSUME Init PROVE IInv
  OBVIOUS
<1> USE ActionsAssumption DEF Init
<1>1. Shape
  BY InitShape
<1>2. PaymentsFunded
  BY DEF PaymentsFunded, Threads
<1>3. AsksWhole
  BY DEF AsksWhole, Threads
<1>4. DealsChosen
  BY DEF DealsChosen, Threads
<1>5. QED
  BY <1>1, <1>2, <1>3, <1>4 DEF IInv, Shape

LEMMA NextIInv == IInv /\ [Next]_vars => IInv'
<1> SUFFICES ASSUME IInv, [Next]_vars PROVE IInv'
  OBVIOUS
<1>1. Shape /\ PaymentsFunded /\ AsksWhole /\ DealsChosen
  BY DEF IInv, Shape
<1>2. Shape'
  BY <1>1, NextShape
<1>3. PaymentsFunded'
  BY <1>1, NextFunded
<1>4. AsksWhole'
  BY <1>1, NextWhole
<1>5. DealsChosen'
  BY <1>1, <1>2, NextChosen
<1>6. QED
  BY <1>2, <1>3, <1>4, <1>5 DEF IInv, Shape

(* The invariant is inductive. *)
THEOREM Invariance == Spec => []IInv
BY InitIInv, NextIInv, PTL DEF Spec

(* Every variable has its type, and what an action has noted or posted is what   *)
(* the place where it is in the code has computed.                               *)
THEOREM TypeCorrect == Spec => []TypeOK
<1>1. IInv => TypeOK
  BY DEF IInv
<1>2. QED
  BY <1>1, Invariance, PTL

(* doActionPayment: a payment that is on its way without funds has been          *)
(* overtaken, since its check of the balance, by another debit of its wallet: a  *)
(* payment, the funds of a bid, or the collateral of a miner.                    *)
THEOREM ShortOnlyByOverlapAlways == Spec => []ShortOnlyByOverlap
<1>1. ASSUME IInv PROVE ShortOnlyByOverlap
  <2>1. SUFFICES ASSUME NEW s \in Slots, sent[s] # Nil, sent[s].kind = "payment",
                        bal[sent[s].node] < AmtToSend
                 PROVE  spent[sent[s].node] > sent[s].seen
    BY DEF ShortOnlyByOverlap
  <2>2. Funded(sent[s]) /\ sent[s] \in Messages
    BY <1>1, <2>1 DEF IInv, PaymentsFunded, TypeOK
  <2>3. sent[s] \in Paying
    BY <2>1, <2>2 DEF Messages, Asking, Bidding, Dealing
  <2>4. sent[s].node \in Nodes /\ sent[s].seen \in Nat
    BY <2>3 DEF Paying
  <2>5. bal[sent[s].node] \in Nat /\ spent[sent[s].node] \in Nat /\ AmtToSend \in Nat
    BY <1>1, <2>4, ActionsAssumption DEF IInv, TypeOK
  <2>6. QED
    BY <2>1, <2>2, <2>4, <2>5 DEF Funded
<1>2. QED
  BY <1>1, Invariance, PTL

(* CreateOrGetMinerIdentity: no ask is posted, or on the chain, with a torn      *)
(* address, and none of a node that has posted one is torn later.                *)
THEOREM TornBeforeAsksAlways == Spec => []TornBeforeAsks
<1>1. ASSUME IInv PROVE TornBeforeAsks
  <2>1. DOMAIN asks = 1 .. Len(asks)
    BY <1>1, LenProperties DEF IInv, TypeOK
  <2>2. QED
    BY <1>1, <2>1 DEF TornBeforeAsks, IInv, AsksWhole, Whole
<1>2. QED
  BY <1>1, Invariance, PTL

(* getBestDealPair: every deal is the best of what its action had read, however  *)
(* many others were on their way.                                                *)
THEOREM DealsBestAlways == Spec => []DealsBest
<1>1. ASSUME IInv PROVE DealsBest
  <2>1. DOMAIN deals = 1 .. Len(deals)
    BY <1>1, LenProperties DEF IInv, TypeOK
  <2>2. QED
    BY <1>1, <2>1 DEF DealsBest, IInv, DealsChosen, Chosen
<1>2. QED
  BY <1>1, Invariance, PTL

(* extractUnusedBids: only actions that had not seen a deal propose its bid      *)
(* again.                                                                        *)
THEOREM ReuseOnlyUnseenAlways == Spec => []ReuseOnlyUnseen
<1>1. ASSUME IInv PROVE ReuseOnlyUnseen
  <2>1. deals \in Seq(Dealing) /\ DOMAIN deals = 1 .. Len(deals) /\ Len(deals) \in Nat
    BY <1>1, LenProperties DEF IInv, TypeOK
  <2>2. SUFFICES ASSUME NEW i \in 1 .. Len(deals), NEW j \in 1 .. Len(deals),
                        i < j, deals[i].bid = deals[j].bid
                 PROVE  deals[j].seen < i
    BY <2>1 DEF ReuseOnlyUnseen
  <2>3. deals[j].seen \in Nat
    <3>1. deals[j] \in Dealing
      BY <2>1, ElementOfSeq
    <3>2. QED
      BY <3>1 DEF Dealing
  <2>4. deals[j].bid \notin {deals[k].bid : k \in 1 .. deals[j].seen}
    BY <1>1 DEF IInv, DealsChosen, Chosen, IsBest
  <2>5. i \notin 1 .. deals[j].seen
    BY <2>2, <2>4
  <2>6. QED
    BY <2>1, <2>3, <2>5
<1>2. QED
  BY <1>1, Invariance, PTL

(* CreateOrGetMinerIdentity: once an identity is stored and none is being        *)
(* created, it is the node's for good.                                           *)
THEOREM IdentitySettlesAlways == Spec => IdentitySettles
<1>1. ASSUME IInv, [Next]_vars
      PROVE  [\A n \in Miners : minerAddr[n] # NoAddr /\ Creating(n) = {}
                => Creating(n)' = {} /\ minerAddr'[n] = minerAddr[n]]_vars
  BY <1>1, SettlesStep DEF IInv, Shape
<1>2. QED
  BY <1>1, Invariance, PTL DEF Spec, IdentitySettles

-----------------------------------------------------------------------------
(* The safety half of PaymentsEnd and ActionsDrain: every step of an action      *)
(* brings it nearer to its end, and with the context done at most one starts.    *)

\* What a goroutine has still to do, at most.
Stage(t) ==
  CASE pc[t] = "off" -> 9
    [] pc[t] = "mine" -> 8
    [] pc[t] = "identity" -> 7
    [] pc[t] = "create" -> 6
    [] pc[t] \in {"store", "asks"} -> 5
    [] pc[t] \in {"stored", "bids"} -> 4
    [] pc[t] \in {"got", "wallet", "balance", "import"} -> 3
    [] pc[t] \in {"print", "call"} -> 2
    [] pc[t] \in {"nobytes", "waiting"} -> 1
    [] pc[t] \in {"idle", "added"} -> 0

\* Only t has moved, and only its message can be another.
Alone(t) ==
  /\ \A u \in Threads \ {t} : pc'[u] = pc[u]
  /\ \A s \in Slots \ {t} : sent'[s] = sent[s]
  /\ ctxDone' = ctxDone

StepOn(t) == Stage(t)' < Stage(t) /\ Alone(t) /\ late' = late

\* Every step is one of a goroutine towards its end, or the start of an action
\* by a periodic that is short of its check of the context or was past it when
\* the context was done, or takes a message from those on their way, or is that
\* the context is done, once.  After that no step sets late, and the start of an
\* action resets it.
NearerOne ==
  \/ \E t \in Threads : StepOn(t)
  \/ \E s \in Slots : /\ pc[s] = "idle" /\ sent[s] = Nil /\ Alone(s)
                      /\ (~ctxDone \/ late) /\ ~late'
  \/ \E s \in Slots : /\ sent[s] # Nil /\ sent' = [sent EXCEPT ![s] = Nil]
                      /\ UNCHANGED <<pc, late, ctxDone>>
  \/ ~ctxDone /\ ctxDone' /\ UNCHANGED <<pc, sent>>

EndsNear == [][NearerOne]_vars

\* No action is in progress, and periodic is not about to start one.
Drained == ctxDone /\ ~late /\ \A s \in Slots : pc[s] = "idle"

(* Where the steps of a goroutine lead.                                          *)
LEMMA StepsOn ==
  ASSUME Shape, NEW t \in Threads,
         NEW place \in AtIdentity \cup {"idle", "mine", "print", "nobytes", "added", "wallet",
                                        "balance", "asks", "bids", "import", "call", "waiting"},
         Goto(t, place), \A s \in Slots \ {t} : sent'[s] = sent[s], ctxDone' = ctxDone
  PROVE  /\ Alone(t) /\ pc'[t] = place /\ pc[t] \in Places
  BY DEF Shape, TypeOK, Goto, Alone

LEMMA NodeSteps ==
  ASSUME Shape, NEW n \in Nodes, AddNode(n)
  PROVE  StepOn(n)
<1>1. n \in Threads /\ sent' = sent /\ late' = late /\ ctxDone' = ctxDone
  BY DEF AddNode, Register, MiningOnce, PrintPointer, PrintLength, Threads
<1>2. CASE Register(n)
  <2>1. pc[n] = "off" /\ Goto(n, "mine")
    BY <1>2 DEF Register
  <2>2. Alone(n) /\ pc'[n] = "mine"
    BY <1>1, <2>1, StepsOn
  <2>3. QED
    BY <1>1, <2>1, <2>2 DEF Stage, StepOn
<1>3. CASE MiningOnce(n)
  <2>1. PICK place \in {"identity", "added"} : pc[n] = "mine" /\ Goto(n, place)
    BY <1>3 DEF MiningOnce
  <2>2. place \in AtIdentity \cup {"added"}
    BY DEF AtIdentity
  <2>3. Alone(n) /\ pc'[n] \in {"identity", "added"}
    BY <1>1, <2>1, <2>2, StepsOn
  <2>4. QED
    BY <1>1, <2>1, <2>3 DEF Stage, StepOn
<1>4. CASE PrintPointer(n)
  <2>1. PICK place \in {"nobytes", "added"} : pc[n] = "print" /\ Goto(n, place)
    BY <1>4 DEF PrintPointer
  <2>2. place \in AtIdentity \cup {"nobytes", "added"}
    BY DEF AtIdentity
  <2>3. Alone(n) /\ pc'[n] \in {"nobytes", "added"}
    BY <1>1, <2>1, <2>2, StepsOn
  <2>4. QED
    BY <1>1, <2>1, <2>3 DEF Stage, StepOn
<1>5. CASE PrintLength(n)
  <2>1. pc[n] = "nobytes" /\ Goto(n, "added")
    BY <1>5 DEF PrintLength
  <2>2. Alone(n) /\ pc'[n] = "added"
    BY <1>1, <2>1, StepsOn
  <2>3. QED
    BY <1>1, <2>1, <2>2 DEF Stage, StepOn
<1>6. QED
  BY <1>2, <1>3, <1>4, <1>5 DEF AddNode

LEMMA IdentityStepsOn ==
  ASSUME Shape, NEW t \in Threads, CreateOrGetMinerIdentity(t)
  PROVE  StepOn(t)
<1>1. sent' = sent /\ late' = late /\ ctxDone' = ctxDone
  BY DEF CreateOrGetMinerIdentity, CheckIdentity, CreateMinerAddr, StoreLength,
         StorePointer, GetIdentity
<1>2. CASE CheckIdentity(t)
  <2>1. PICK place \in {"create", "got"} : pc[t] = "identity" /\ Goto(t, place)
    BY <1>2 DEF CheckIdentity
  <2>2. Alone(t) /\ pc'[t] \in {"create", "got"}
    BY <1>1, <2>1, StepsOn DEF AtIdentity
  <2>3. QED
    BY <1>1, <2>1, <2>2 DEF Stage, StepOn
<1>3. CASE CreateMinerAddr(t)
  <2>1. PICK place \in {"store", "idle", "print"} : pc[t] = "create" /\ Goto(t, place)
    BY <1>3 DEF CreateMinerAddr, Return
  <2>2. Alone(t) /\ pc'[t] \in {"store", "idle", "print"}
    BY <1>1, <2>1, StepsOn DEF AtIdentity
  <2>3. QED
    BY <1>1, <2>1, <2>2 DEF Stage, StepOn
<1>4. CASE StoreLength(t)
  <2>1. pc[t] = "store" /\ Goto(t, "stored")
    BY <1>4 DEF StoreLength
  <2>2. Alone(t) /\ pc'[t] = "stored"
    BY <1>1, <2>1, StepsOn DEF AtIdentity
  <2>3. QED
    BY <1>1, <2>1, <2>2 DEF Stage, StepOn
<1>5. CASE StorePointer(t)
  <2>1. pc[t] = "stored" /\ Goto(t, "got")
    BY <1>5 DEF StorePointer
  <2>2. Alone(t) /\ pc'[t] = "got"
    BY <1>1, <2>1, StepsOn DEF AtIdentity
  <2>3. QED
    BY <1>1, <2>1, <2>2 DEF Stage, StepOn
<1>6. CASE GetIdentity(t)
  <2>1. PICK place \in {"call", "print"} : pc[t] = "got" /\ Goto(t, place)
    BY <1>6 DEF GetIdentity
  <2>2. Alone(t) /\ pc'[t] \in {"call", "print"}
    BY <1>1, <2>1, StepsOn
  <2>3. QED
    BY <1>1, <2>1, <2>2 DEF Stage, StepOn
<1>7. QED
  BY <1>2, <1>3, <1>4, <1>5, <1>6 DEF CreateOrGetMinerIdentity

LEMMA ActionSteps ==
  ASSUME Shape, NEW s \in Slots,
         \/ GetMainWalletAddress(s) \/ WalletBalance(s) \/ Read(s) \/ ClientImport(s)
         \/ Post(s) \/ CallReturns(s) \/ Timeout(s) \/ KillCall(s)
  PROVE  StepOn(s)
<1>1. s \in Threads /\ late' = late /\ ctxDone' = ctxDone
  BY DEF GetMainWalletAddress, WalletBalance, Read, OrderbookGetAsks, OrderbookGetBids,
         ClientImport, Post, CallReturns, Timeout, KillCall, Threads
<1>2. \A r \in Slots \ {s} : sent'[r] = sent[r]
  BY DEF GetMainWalletAddress, WalletBalance, Read, OrderbookGetAsks, OrderbookGetBids,
         ClientImport, Post, CallReturns, Timeout, KillCall, Shape, TypeOK
<1>3. CASE GetMainWalletAddress(s) \/ WalletBalance(s) \/ ClientImport(s)
  <2>1. PICK place \in {"call", "idle"} :
          pc[s] \in {"wallet", "balance", "import"} /\ Goto(s, place)
    BY <1>3 DEF GetMainWalletAddress, WalletBalance, ClientImport, Return
  <2>2. Alone(s) /\ pc'[s] \in {"call", "idle"}
    BY <1>1, <1>2, <2>1, StepsOn
  <2>3. QED
    BY <1>1, <2>1, <2>2 DEF Stage, StepOn
<1>4. CASE OrderbookGetAsks(s)
  <2>1. PICK place \in {"bids", "idle"} : pc[s] = "asks" /\ Goto(s, place)
    BY <1>4 DEF OrderbookGetAsks, Return
  <2>2. Alone(s) /\ pc'[s] \in {"bids", "idle"}
    BY <1>1, <1>2, <2>1, StepsOn
  <2>3. QED
    BY <1>1, <2>1, <2>2 DEF Stage, StepOn
<1>5. CASE OrderbookGetBids(s)
  <2>1. PICK place \in {"import", "idle"} : pc[s] = "bids" /\ Goto(s, place)
    BY <1>5 DEF OrderbookGetBids, Return
  <2>2. Alone(s) /\ pc'[s] \in {"import", "idle"}
    BY <1>1, <1>2, <2>1, StepsOn
  <2>3. QED
    BY <1>1, <2>1, <2>2 DEF Stage, StepOn
<1>6. CASE Post(s)
  <2>1. pc[s] = "call" /\ Goto(s, "waiting")
    BY <1>6 DEF Post
  <2>2. Alone(s) /\ pc'[s] = "waiting"
    BY <1>1, <1>2, <2>1, StepsOn
  <2>3. QED
    BY <1>1, <2>1, <2>2 DEF Stage, StepOn
<1>7. CASE CallReturns(s) \/ Timeout(s) \/ KillCall(s)
  <2>1. pc[s] \in {"asks", "bids", "call", "waiting"} /\ Goto(s, "idle")
    BY <1>7 DEF CallReturns, Timeout, KillCall, InCall, Return
  <2>2. Alone(s) /\ pc'[s] = "idle"
    BY <1>1, <1>2, <2>1, StepsOn
  <2>3. QED
    BY <1>1, <2>1, <2>2 DEF Stage, StepOn
<1>8. QED
  BY <1>3, <1>4, <1>5, <1>6, <1>7 DEF Read

LEMMA TickSteps ==
  ASSUME Shape, NEW s \in Slots, Tick(s)
  PROVE  /\ pc[s] = "idle" /\ sent[s] = Nil /\ Alone(s)
         /\ (~ctxDone \/ late) /\ ~late'
<1>1. s \in Threads /\ sent' = sent /\ ctxDone' = ctxDone
  BY DEF Tick, Threads
<1>2. \A u \in Threads \ {s} : pc'[u] = pc[u]
  BY <1>1 DEF Tick, DoRandomAction, StartPayment, StartAsk, StartBid, StartDeal, Begin, Goto,
              Shape, TypeOK
<1>3. QED
  BY <1>1, <1>2 DEF Tick, Alone

(* Every goroutine of AddNode and every action takes at most nine steps, and a   *)
(* message is taken from those on their way at most once.  After the context is  *)
(* done one action may still start, whose tick had come before, and no second:   *)
(* what goes on then takes a bounded number of steps, if its commands return.    *)
THEOREM EndsNearAlways == Spec => EndsNear
<1>1. ASSUME Shape, [Next]_vars PROVE [NearerOne]_vars
  <2>1. ASSUME NEW s \in Slots, Land(s) \/ Lose(s) PROVE NearerOne
    <3>1. sent[s] # Nil /\ sent' = [sent EXCEPT ![s] = Nil] /\ UNCHANGED <<pc, late, ctxDone>>
      BY <2>1 DEF Land, Lose
    <3>2. QED
      BY <3>1 DEF NearerOne
  <2>2. CASE Cancel
    BY <2>2 DEF Cancel, NearerOne
  <2>3. ASSUME NEW t \in Threads, StepOn(t) PROVE NearerOne
    BY <2>3 DEF NearerOne
  <2>4. ASSUME NEW s \in Slots, Tick(s) PROVE NearerOne
    BY <1>1, <2>4, TickSteps DEF NearerOne
  <2>5. Slots \subseteq Threads /\ Nodes \subseteq Threads
    BY DEF Threads
  <2>6. QED
    BY <1>1, <2>1, <2>2, <2>3, <2>4, <2>5, NodeSteps, IdentityStepsOn, ActionSteps DEF Next
<1>2. IInv => Shape
  BY DEF IInv, Shape
<1>3. QED
  BY <1>1, <1>2, Invariance, PTL DEF Spec, EndsNear

(* A done context, no action in progress and none about to start: none ever is   *)
(* again.                                                                        *)
THEOREM DrainedForEver == Spec => [](Drained => []Drained)
<1>1. ASSUME Shape, Drained, [Next]_vars PROVE Drained'
  <2>1. ASSUME NEW s \in Slots PROVE pc'[s] = "idle"
    <3>1. /\ ~Tick(s) /\ ~GetMainWalletAddress(s) /\ ~WalletBalance(s) /\ ~Read(s)
          /\ ~ClientImport(s) /\ ~Post(s) /\ ~CreateOrGetMinerIdentity(s)
      BY <1>1
      DEF Drained, Tick, GetMainWalletAddress, WalletBalance, Read, OrderbookGetAsks, OrderbookGetBids,
          ClientImport, Post, CreateOrGetMinerIdentity, CheckIdentity, CreateMinerAddr,
          StoreLength, StorePointer, GetIdentity
    <3>2. QED
      BY <1>1, <3>1, OwnSteps DEF Drained
  <2>2. ctxDone' /\ ~late'
    <3>1. ~Cancel /\ \A s \in Slots : ~Tick(s)
      BY <1>1 DEF Drained, Cancel, Tick
    <3>2. UNCHANGED <<late, ctxDone>>
      BY <1>1, <3>1
      DEF Next, AddNode, Register, MiningOnce, PrintPointer, PrintLength,
          CreateOrGetMinerIdentity, CheckIdentity, CreateMinerAddr, StoreLength, StorePointer,
          GetIdentity, GetMainWalletAddress, WalletBalance, Read, OrderbookGetAsks,
          OrderbookGetBids, ClientImport, Post, CallReturns, Timeout, KillCall, Land, Lose, vars
    <3>3. QED
      BY <1>1, <3>2 DEF Drained
  <2>3. QED
    BY <2>1, <2>2 DEF Drained
<1>2. IInv => Shape
  BY DEF IInv, Shape
<1>3. QED
  BY <1>1, <1>2, Invariance, PTL DEF Spec
=============================================================================
