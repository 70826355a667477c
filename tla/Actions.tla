------------------------------- MODULE Actions -------------------------------
(***************************************************************************)
(* The random actions (network/randomizer.go, randomActions to             *)
(* doActionDeal) and the end of AddNode (network/network.go), which run as *)
(* goroutines of their own over the nodes and one chain.  At every tick an *)
(* action starts whatever has become of the ones before it, so that any    *)
(* number of them overlap; Slots bounds how many do.                       *)
(*                                                                         *)
(* The chain is external: what a command posts waits in a pool, and lands  *)
(* on the chain in any order or never.  All daemons see the same chain.  A *)
(* bid takes its funds from the wallet and a new miner its collateral, as  *)
(* logs/eventlogs.ndjson:165-166 and logs/simlogger.go:183-184 record.     *)
(***************************************************************************)
EXTENDS DealMatch

CONSTANTS
  Miners, Clients, \* the nodes that join, by type
  Slots,           \* bound: actions in progress, or not on the chain yet
  Kinds,           \* the actions that the arguments enable
  AskTerms,        \* what an ask may offer
  BidTerms,        \* what a bid may offer
  AmtToSend,       \* what a payment sends
  Collateral,      \* what the creation of a miner takes from the wallet
  Reward,          \* what MiningOnce earns
  TestDir,         \* Args.TestfilesDir: "missing", "empty" or "full"
  Nil,             \* nothing noted, nothing sent
  NoAddr,          \* the empty miner address
  Torn,            \* a miner address that has a length and no bytes
  MaxAsks, MaxBids, MaxDeals, \* bounds: asks, bids, deals
  MaxPays          \* bound: debits of a wallet that a payment may follow, and payments

Nodes == Miners \cup Clients
Threads == Slots \cup Nodes

\* What the local variables of each action may hold.  A payment notes how often
\* its wallet had been debited; a deal, how much of the order book and of the
\* deals it has read.
Checking == [kind : {"payment"}, node : Nodes, to : Nodes]
Paying == [kind : {"payment"}, node : Nodes, to : Nodes, seen : Nat]
Asking == [kind : {"ask"}, node : Miners, terms : AskTerms]
Bidding == [kind : {"bid"}, node : Clients, terms : BidTerms]
ReadingAsks == [kind : {"deal"}, node : Clients]
ReadingBids == [kind : {"deal"}, node : Clients, nasks : Nat]
Dealing == [kind : {"deal"}, node : Clients, nasks : Nat,
            ask : Nat, bid : Nat, nbids : Nat, seen : Nat]

Messages == Paying \cup Asking \cup Bidding \cup Dealing
Locals == Checking \cup ReadingAsks \cup ReadingBids \cup Messages

ASSUME ActionsAssumption ==
  /\ Miners \cap Clients = {} /\ Nodes \cap Slots = {} /\ Nil \notin Nodes \cup Locals /\ NoAddr # Torn /\ {NoAddr, Torn} \cap Threads = {}
  /\ Kinds \subseteq {"ask", "bid", "deal", "payment"}
  /\ AskTerms \cup BidTerms \subseteq [price : Nat, size : Nat]
  /\ TestDir \in {"missing", "empty", "full"}
  /\ {AmtToSend, Collateral, Reward} \subseteq Nat
  /\ {MaxAsks, MaxBids, MaxDeals, MaxPays} \subseteq Nat

VARIABLES
  pc,        \* [Threads -> where an action, or a node's AddNode, is]
  note,      \* [Slots -> the local variables of the action]
  sent,      \* [Slots -> the message that the action posted, until it lands]
  minerAddr, \* [Miners -> Node.MinerAddr, named for the thread that created it]
  asks,      \* the order book: asks in the order of their IDs
  bids,      \* the order book: bids in the order of their IDs
  deals,     \* the deals on the chain, with what their proposers had seen
  bal,       \* [Nodes -> balance of the node's wallet]
  spent,     \* [Nodes -> how often the wallet has been debited]
  ctxDone,   \* the context is cancelled
  late,      \* periodic was past its check of the context then, and has to start an action
  crashed    \* a goroutine panicked, and the process with it

chainVars == <<asks, bids, deals, bal, spent>>
vars == <<pc, note, sent, minerAddr, asks, bids, deals, bal, spent, late, ctxDone, crashed>>

Init ==
  /\ pc = [t \in Threads |-> IF t \in Slots THEN "idle" ELSE "off"]
  /\ note = [s \in Slots |-> Nil]
  /\ sent = [s \in Slots |-> Nil]
  /\ minerAddr = [n \in Miners |-> NoAddr]
  /\ asks = <<>> /\ bids = <<>> /\ deals = <<>>
  /\ bal = [n \in Nodes |-> 0]
  /\ spent = [n \in Nodes |-> 0]
  /\ ctxDone = FALSE /\ late = FALSE
  /\ crashed = FALSE

Goto(t, place) == pc' = [pc EXCEPT ![t] = place]

\* The action returns, in the end or early: nothing of it is left.
Return(s) == Goto(s, "idle") /\ note' = [note EXCEPT ![s] = Nil]

\* GetNodesOfType: what AddNode has registered.
NodesOfType(type) == {n \in type : pc[n] # "off"}

NodeOf(t) == IF t \in Slots THEN note[t].node ELSE t

\* The wallet of n pays the amount, which it must have.
Debit(n, amount) ==
  /\ bal[n] >= amount
  /\ bal' = [bal EXCEPT ![n] = @ - amount]
  /\ spent' = [spent EXCEPT ![n] = @ + 1]

-----------------------------------------------------------------------------
(* The end of AddNode *)

Register(n) ==
  /\ pc[n] = "off"
  /\ Goto(n, "mine")
  /\ UNCHANGED <<note, sent, minerAddr, chainVars, late, ctxDone, crashed>>

\* "need some $": MiningOnce; AddNode gives up if it fails.
MiningOnce(n) ==
  /\ pc[n] = "mine"
  /\ \/ /\ bal' = [bal EXCEPT ![n] = @ + Reward]
        /\ Goto(n, IF n \in Miners THEN "identity" ELSE "added")
     \/ UNCHANGED bal /\ Goto(n, "added")
  /\ UNCHANGED <<note, sent, minerAddr, asks, bids, deals, spent, late, ctxDone, crashed>>

\* tmplNodeAdded prints node.MinerAddr: it loads the pointer, and the length
\* after that or, which can see no more, before.
PrintPointer(n) ==
  /\ pc[n] = "print"
  /\ Goto(n, IF minerAddr[n] \in {NoAddr, Torn} THEN "nobytes" ELSE "added")
  /\ UNCHANGED <<note, sent, minerAddr, chainVars, late, ctxDone, crashed>>

\* A length without bytes brings the process down.
PrintLength(n) ==
  /\ pc[n] = "nobytes"
  /\ Goto(n, "added")
  /\ crashed' = (minerAddr[n] # NoAddr)
  /\ UNCHANGED <<note, sent, minerAddr, chainVars, late, ctxDone>>

-----------------------------------------------------------------------------
(* CreateOrGetMinerIdentity, called by AddNode and by ask actions, without  *)
(* a lock.                                                                  *)

\* Mutant of CheckIdentity: an identity is created in any case.
CheckIdentityNever(t) ==
  /\ pc[t] = "identity"
  /\ Goto(t, "create")
  /\ UNCHANGED <<note, sent, minerAddr, chainVars, late, ctxDone, crashed>>

\* n.MinerAddr == "" looks at the length of the string.
CheckIdentity(t) ==
  /\ pc[t] = "identity"
  /\ Goto(t, IF minerAddr[NodeOf(t)] = NoAddr THEN "create" ELSE "got")
  /\ UNCHANGED <<note, sent, minerAddr, chainVars, late, ctxDone, crashed>>

\* The daemon creates a miner, or fails: the ask ends, AddNode goes on.
CreateMinerAddr(t) ==
  /\ pc[t] = "create"
  /\ \/ Goto(t, "store") /\ Debit(NodeOf(t), Collateral) /\ UNCHANGED note
     \/ /\ IF t \in Slots THEN Return(t) ELSE Goto(t, "print") /\ UNCHANGED note
        /\ UNCHANGED <<bal, spent>>
  /\ UNCHANGED <<sent, minerAddr, asks, bids, deals, late, ctxDone, crashed>>

\* Mutant of StoreLength: a string that was there is torn too.
StoreLengthTears(t) ==
  /\ pc[t] = "store"
  /\ Goto(t, "stored")
  /\ minerAddr' = [minerAddr EXCEPT ![NodeOf(t)] = Torn]
  /\ UNCHANGED <<note, sent, chainVars, late, ctxDone, crashed>>

\* n.MinerAddr = a.String() stores a length and a pointer.  Between the two
\* an empty string has a length and no bytes; all addresses are of one length.
StoreLength(t) ==
  /\ pc[t] = "store"
  /\ Goto(t, "stored")
  /\ minerAddr' = [minerAddr EXCEPT ![NodeOf(t)] = IF @ = NoAddr THEN Torn ELSE @]
  /\ UNCHANGED <<note, sent, chainVars, late, ctxDone, crashed>>

StorePointer(t) ==
  /\ pc[t] = "stored"
  /\ Goto(t, "got")
  /\ minerAddr' = [minerAddr EXCEPT ![NodeOf(t)] = t]
  /\ UNCHANGED <<note, sent, chainVars, late, ctxDone, crashed>>

\* return n.MinerAddr: the ask uses it, and panics if it has no bytes.  That it
\* has a length is known by now, so that the load of the pointer is all of it.
GetIdentity(t) ==
  /\ pc[t] = "got"
  /\ Goto(t, IF t \in Slots THEN "call" ELSE "print")
  /\ crashed' = (t \in Slots /\ minerAddr[NodeOf(t)] = Torn)
  /\ UNCHANGED <<note, sent, minerAddr, chainVars, late, ctxDone>>

-----------------------------------------------------------------------------
(* randomActions: a tick of periodic starts an action, which draws its      *)
(* node.  Without enough nodes it returns at once.                          *)

\* The slots with an action of the kind, or its message: only for the bounds.
Outstanding(kind) ==
  Cardinality({s \in Slots : \E r \in {note[s], sent[s]} : r # Nil /\ r.kind = kind})

Begin(s, place, locals) == Goto(s, place) /\ note' = [note EXCEPT ![s] = locals]

\* GetRandomNodes(AnyNodeType, 2): two different nodes.
StartPayment(s) ==
  \E n, m \in NodesOfType(Nodes) :
    /\ n # m /\ spent[n] + Outstanding("payment") < MaxPays
    /\ Begin(s, "balance", [kind |-> "payment", node |-> n, to |-> m])

StartAsk(s) ==
  /\ Len(asks) + Outstanding("ask") < MaxAsks
  /\ \E n \in NodesOfType(Miners), terms \in AskTerms :
       Begin(s, "identity", [kind |-> "ask", node |-> n, terms |-> terms])

StartBid(s) ==
  /\ Len(bids) + Outstanding("bid") < MaxBids
  /\ \E n \in NodesOfType(Clients), terms \in BidTerms :
       Begin(s, "wallet", [kind |-> "bid", node |-> n, terms |-> terms])

StartDeal(s) ==
  /\ Len(deals) + Outstanding("deal") < MaxDeals
  /\ \E n \in NodesOfType(Clients) : Begin(s, "asks", [kind |-> "deal", node |-> n])

DoRandomAction(s) ==
  \/ "payment" \in Kinds /\ StartPayment(s)
  \/ "ask" \in Kinds /\ StartAsk(s)
  \/ "bid" \in Kinds /\ StartBid(s)
  \/ "deal" \in Kinds /\ StartDeal(s)

\* Mutant of Tick: the context is not consulted.
TickAlways(s) ==
  /\ pc[s] = "idle" /\ sent[s] = Nil
  /\ DoRandomAction(s)
  /\ UNCHANGED <<sent, minerAddr, chainVars, late, ctxDone, crashed>>

\* periodic's check of the context, and go r.doRandomAction some time after it.
Tick(s) ==
  /\ pc[s] = "idle" /\ sent[s] = Nil
  /\ ~ctxDone \/ late
  /\ DoRandomAction(s)
  /\ late' = FALSE
  /\ UNCHANGED <<sent, minerAddr, chainVars, ctxDone, crashed>>

\* GetMainWalletAddress of a bid.
GetMainWalletAddress(s) ==
  /\ pc[s] = "wallet"
  /\ (Goto(s, "call") /\ UNCHANGED note) \/ Return(s)
  /\ UNCHANGED <<sent, minerAddr, chainVars, late, ctxDone, crashed>>

\* Mutant of WalletBalance: whatever the balance, the payment is sent.
WalletBalanceIgnored(s) ==
  /\ pc[s] = "balance"
  /\ Goto(s, "call")
  /\ note' = [note EXCEPT ![s] = [kind |-> "payment", node |-> @.node, to |-> @.to,
                                  seen |-> spent[@.node]]]
  /\ UNCHANGED <<sent, minerAddr, chainVars, late, ctxDone, crashed>>

\* Both wallet addresses, and "ensure source has balance first"; seen is the
\* state of the wallet then.
WalletBalance(s) ==
  /\ pc[s] = "balance"
  /\ \/ /\ bal[note[s].node] >= AmtToSend
        /\ Goto(s, "call")
        /\ note' = [note EXCEPT ![s] = [kind |-> "payment", node |-> @.node, to |-> @.to,
                                        seen |-> spent[@.node]]]
     \/ Return(s)
  /\ UNCHANGED <<sent, minerAddr, chainVars, late, ctxDone, crashed>>

-----------------------------------------------------------------------------
(* doActionDeal *)

OrderbookGetAsks(s) ==
  /\ pc[s] = "asks"
  /\ \/ /\ ExtractAsks(asks) # {}
        /\ Goto(s, "bids")
        /\ note' = [note EXCEPT ![s] = [kind |-> "deal", node |-> @.node,
                                        nasks |-> Len(asks)]]
     \/ Return(s)
  /\ UNCHANGED <<sent, minerAddr, chainVars, late, ctxDone, crashed>>

UsedBids == {deals[i].bid : i \in DOMAIN deals}

\* The bids are read after the asks, and the match is of both.
OrderbookGetBids(s) ==
  /\ pc[s] = "bids"
  /\ \/ \E pair \in GetBestDealPair(ExtractAsks(SubSeq(asks, 1, note[s].nasks)),
                                    ExtractUnusedBids(bids, UsedBids), note[s].node) :
          /\ Goto(s, "import")
          /\ note' = [note EXCEPT ![s] =
                         [kind |-> "deal", node |-> @.node, nasks |-> @.nasks,
                          ask |-> pair.ask.id, bid |-> pair.bid.id,
                          nbids |-> Len(bids), seen |-> Len(deals)]]
     \/ Return(s)
  /\ UNCHANGED <<sent, minerAddr, chainVars, late, ctxDone, crashed>>

\* randfile: an entry of the test directory, or a temporary file if it cannot
\* be read; rand.Intn panics when there are no entries.
RandomFile ==
  CASE TestDir = "full" -> {"file"}
    [] TestDir = "empty" -> {"panic"}
    [] TestDir = "missing" -> {"file", "error"}

\* RandomFile and ClientImport, either of which may fail.
ClientImport(s) ==
  /\ pc[s] = "import"
  /\ \E file \in RandomFile :
       /\ crashed' = (file = "panic")
       /\ (file = "file" /\ Goto(s, "call") /\ UNCHANGED note) \/ Return(s)
  /\ UNCHANGED <<sent, minerAddr, chainVars, late, ctxDone>>

-----------------------------------------------------------------------------
(* The last command of each action: SendFilecoin, MinerAddAsk, ClientAddBid *)
(* or ProposeDeal.  It posts a message and may hang before or after that.   *)

\* Mutant of Post: the command is repeated.
PostAgain(s) ==
  /\ pc[s] = "call"
  /\ sent' = [sent EXCEPT ![s] = note[s]]
  /\ UNCHANGED <<pc, note, minerAddr, chainVars, late, ctxDone, crashed>>

Post(s) ==
  /\ pc[s] = "call"
  /\ Goto(s, "waiting")
  /\ sent' = [sent EXCEPT ![s] = note[s]]
  /\ UNCHANGED <<note, minerAddr, chainVars, late, ctxDone, crashed>>

InCall(s) == pc[s] \in {"call", "waiting"}

CallReturns(s) ==
  /\ InCall(s)
  /\ Return(s)
  /\ UNCHANGED <<sent, minerAddr, chainVars, late, ctxDone, crashed>>

\* Mutant of Timeout: payments have none.
TimeoutNever(s) == FALSE /\ UNCHANGED vars

\* "if does not succeed in 3 block times, it's hung on an error"
Timeout(s) ==
  /\ InCall(s) /\ note[s].kind = "payment"
  /\ Return(s)
  /\ UNCHANGED <<sent, minerAddr, chainVars, late, ctxDone, crashed>>

\* The commands that are given the context are killed with it.
KillCall(s) ==
  /\ ctxDone
  /\ pc[s] \in {"asks", "bids"} \/ (InCall(s) /\ note[s].kind # "deal")
  /\ Return(s)
  /\ UNCHANGED <<sent, minerAddr, chainVars, late, ctxDone, crashed>>

\* It comes before periodic's check, or between the check and the go statement.
Cancel ==
  /\ ~ctxDone
  /\ ctxDone' = TRUE
  /\ late' \in BOOLEAN
  /\ UNCHANGED <<pc, note, sent, minerAddr, chainVars, crashed>>

-----------------------------------------------------------------------------
(* The chain *)

\* An entry of the order book, as the storage market keeps it.
Entry(m) == [owner |-> m.node, price |-> m.terms.price, size |-> m.terms.size]

\* What a bid promises to pay, which the market keeps.
Funds(terms) == terms.price * terms.size

\* The message of a slot takes effect.
Land(s) ==
  LET m == sent[s] IN
  /\ m # Nil
  /\ CASE m.kind = "ask" ->
            /\ asks' = Append(asks, Entry(m))
            /\ UNCHANGED <<bids, deals, bal, spent>>
       [] m.kind = "bid" ->
            /\ Debit(m.node, Funds(m.terms))
            /\ bids' = Append(bids, Entry(m))
            /\ UNCHANGED <<asks, deals>>
       [] m.kind = "deal" ->
            /\ deals' = Append(deals, m)
            /\ UNCHANGED <<asks, bids, bal, spent>>
       [] m.kind = "payment" ->
            /\ bal[m.node] >= AmtToSend
            /\ bal' = [bal EXCEPT ![m.node] = @ - AmtToSend, ![m.to] = @ + AmtToSend]
            /\ spent' = [spent EXCEPT ![m.node] = @ + 1]
            /\ UNCHANGED <<asks, bids, deals>>
  /\ sent' = [sent EXCEPT ![s] = Nil]
  /\ UNCHANGED <<pc, note, minerAddr, late, ctxDone, crashed>>

\* It is refused or never mined.
Lose(s) ==
  /\ sent[s] # Nil
  /\ sent' = [sent EXCEPT ![s] = Nil]
  /\ UNCHANGED <<pc, note, minerAddr, chainVars, late, ctxDone, crashed>>

-----------------------------------------------------------------------------
AddNode(n) == Register(n) \/ MiningOnce(n) \/ PrintPointer(n) \/ PrintLength(n)

CreateOrGetMinerIdentity(t) ==
  CheckIdentity(t) \/ CreateMinerAddr(t) \/ StoreLength(t) \/ StorePointer(t) \/ GetIdentity(t)

Read(s) == OrderbookGetAsks(s) \/ OrderbookGetBids(s)

Next ==
  /\ ~crashed
  /\ \/ \E n \in Nodes : AddNode(n)
     \/ \E t \in Threads : CreateOrGetMinerIdentity(t)
     \/ \E s \in Slots :
          \/ Tick(s) \/ GetMainWalletAddress(s) \/ WalletBalance(s)
          \/ Read(s) \/ ClientImport(s)
          \/ Post(s) \/ CallReturns(s) \/ Timeout(s) \/ KillCall(s)
          \/ Land(s) \/ Lose(s)
     \/ Cancel

Spec == Init /\ [][Next]_vars

(* Goroutines run.  A command may hang for ever (README.md:41): one that is   *)
(* given the context ends at its timeout or with its context, the others      *)
(* (GetMainWalletAddress, WalletBalance, CreateMinerAddr, ClientImport and    *)
(* ProposeDeal) need not end at all.                                          *)
Store(t) == CheckIdentity(t) \/ StoreLength(t) \/ StorePointer(t) \/ GetIdentity(t)

Fairness ==
  \A s \in Slots : /\ WF_vars(~crashed /\ Store(s))
                   /\ WF_vars(~crashed /\ Timeout(s))
                   /\ WF_vars(~crashed /\ KillCall(s))

FairSpec == Spec /\ Fairness

-----------------------------------------------------------------------------
(* Properties *)

Places == {"off", "idle", "mine", "identity", "create", "store", "stored", "got", "print",
           "nobytes", "added", "wallet", "balance", "asks", "bids", "import", "call", "waiting"}
Entries == [owner : Nodes, price : Nat, size : Nat]

\* Every variable has its type.
TypeOK ==
  /\ pc \in [Threads -> Places]
  /\ note \in [Slots -> Locals \cup {Nil}]
  /\ sent \in [Slots -> Messages \cup {Nil}]
  /\ \A s \in Slots :
       /\ (pc[s] = "idle") <=> (note[s] = Nil)
       /\ pc[s] # "idle" => note[s].kind \in Kinds
       /\ sent[s] # Nil => sent[s].kind \in Kinds /\ pc[s] \in {"waiting", "idle"}
  /\ minerAddr \in [Miners -> {NoAddr, Torn} \cup Threads]
  /\ asks \in Seq(Entries) /\ bids \in Seq(Entries) /\ deals \in Seq(Dealing)
  /\ bal \in [Nodes -> Nat]
  /\ spent \in [Nodes -> Nat]
  /\ ctxDone \in BOOLEAN /\ late \in BOOLEAN /\ crashed \in BOOLEAN

\* Deal actions overlap, and two of them may propose the same bid
\* (extractUnusedBids): but only the proposals of actions that read the order
\* book before the first of these deals was on the chain.
ReuseOnlyUnseen ==
  \A i, j \in DOMAIN deals :
    i < j /\ deals[i].bid = deals[j].bid => deals[j].seen < i

\* The ask and the bid with these IDs fit.
Match(a, b) == asks[a].size >= bids[b].size /\ asks[a].price <= bids[b].price

\* A deal is the best of what its action read: the client's own first bid that
\* is not used and fits an ask, with the cheapest ask that it fits.
IsBest(d) ==
  LET taken == {deals[k].bid : k \in 1 .. d.seen}
      open == {b \in 1 .. d.nbids : bids[b].owner = d.node /\ b \notin taken
                                      /\ \E a \in 1 .. d.nasks : Match(a, b)}
  IN  /\ d.bid \in open /\ \A b \in open : d.bid <= b
      /\ d.ask \in 1 .. d.nasks /\ Match(d.ask, d.bid)
      /\ \A a \in 1 .. d.nasks : Match(a, d.bid) => asks[d.ask].price <= asks[a].price

\* Whatever else is on its way, getBestDealPair makes every deal the best.
DealsBest == \A i \in DOMAIN deals : IsBest(deals[i])

\* doActionPayment checks the balance long before the payment is mined.  A
\* payment that is on its way without funds is one whose wallet has been debited
\* since its check: by another payment, a bid or the creation of a miner.
ShortOnlyByOverlap ==
  \A s \in Slots :
    sent[s] # Nil /\ sent[s].kind = "payment" /\ bal[sent[s].node] < AmtToSend
      => spent[sent[s].node] > sent[s].seen

\* The goroutines that are creating or storing an identity of the node.
Creating(n) ==
  {t \in Threads : pc[t] \in {"create", "store", "stored"} /\ NodeOf(t) = n}

\* AddNode and the asks of a node may each create a miner (network.go:110).
\* Once one is stored and no creation is under way, it is the node's for good,
\* and no other is ever created.
IdentitySettles ==
  [][\A n \in Miners :
       minerAddr[n] # NoAddr /\ Creating(n) = {}
         => Creating(n)' = {} /\ minerAddr'[n] = minerAddr[n]]_vars

\* The race on MinerAddr can bring an ask down only until the node's first one:
\* an ask that was posted, or is on the chain, had a whole address, which later
\* stores do not tear.  (AddNode's print may have loaded its pointer before.)
TornBeforeAsks ==
  \A n \in Miners :
    minerAddr[n] = Torn =>
      /\ \A i \in DOMAIN asks : asks[i].owner # n
      /\ \A s \in Slots : sent[s] # Nil => ~(sent[s].kind = "ask" /\ sent[s].node = n)

\* SendFilecoin ends, even if the command hangs for ever (randomizer.go:250).
PaymentsEnd ==
  \A s \in Slots :
    (InCall(s) /\ note[s].kind = "payment") ~> (pc[s] = "idle" \/ crashed)

\* The action is at a command that no context ends.
Unbound(s) ==
  \/ pc[s] \in {"wallet", "balance", "create", "import"}
  \/ InCall(s) /\ note[s].kind = "deal"

\* Once the context is done every action ends for good, also the one that
\* periodic may still start, unless a command hangs that is not given the context.
ActionsDrain ==
  \A s \in Slots : ctxDone ~> ([](crashed \/ pc[s] = "idle") \/ []Unbound(s))
=============================================================================
