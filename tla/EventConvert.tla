---------------------------- MODULE EventConvert ----------------------------
(***************************************************************************)
(* What a SimLogger makes of an event of its daemon (logs/simlogger.go,    *)
(* convertEL2SL): a sequence of at most two lines.  JSON objects are       *)
(* functions from keys to values, and so are lines; m[key] of a key that   *)
(* is not there is null.  Addresses, CIDs and numbers are strings.         *)
(*                                                                         *)
(* Pure operators; LogMixer states of its transformers what is defined at  *)
(* the end for all of Events.                                              *)
(***************************************************************************)
EXTENDS Naturals, SequencesExt

CONSTANTS
  Null,   \* the value of a key that is not there
  Broken  \* a value of another type than the one expected

ASSUME ValuesDiffer == Null # Broken

At(m, key) == IF key \in DOMAIN m THEN m[key] ELSE Null

\* getStrSafe: the empty string for what is not a string.
GetStrSafe(m, key) == IF At(m, key) \in {Null, Broken} THEN "" ELSE m[key]

\* newSimEvent and the assignments to its keys: "from" is the id unless it is
\* assigned to as well.
NewSimEvent(id, fields) ==
  [k \in DOMAIN fields \cup {"from"} |-> IF k \in DOMAIN fields THEN fields[k] ELSE id]

\* The same for one key, whatever its name.
SetKey(e, key, value) == [k \in DOMAIN e \cup {key} |-> IF k = key THEN value ELSE e[k]]

-----------------------------------------------------------------------------
(* Blocks and messages: null decodes to a zero value, without an error.     *)

ZeroBlock ==
  [cid |-> "cid0", miner |-> "", height |-> "0", parents |-> {}, messages |-> <<>>,
   stateRoot |-> ""]

ZeroMessage == [method |-> "", from |-> "", to |-> "", value |-> "0", params |-> Broken]

\* A set of one value, or of none if there is an error.
GetFromTags(tags, key, zero) ==
  CASE At(tags, key) = Null -> {zero}
    [] At(tags, key) = Broken -> {}
    [] OTHER -> {tags[key]}

GetBlockFromTags(tags) == GetFromTags(tags, "block", ZeroBlock)

GetMsgFromTags(tags) == GetFromTags(tags, "message", ZeroMessage)

BlockForSimEvent(b) ==
  [cid |-> b.cid, parents |-> b.parents, miner |-> b.miner, height |-> b.height,
   messageCount |-> Len(b.messages), stateRoot |-> b.stateRoot]

\* What is shown of a value that is there, and nothing without it.
ShowIf(values, Lines(_)) ==
  IF values = {} THEN <<>> ELSE Lines(CHOOSE v \in values : TRUE)

-----------------------------------------------------------------------------
(* One operator for each operation. *)

AddBid(id, tags) == <<NewSimEvent(id, [type |-> "AddBid", bid |-> At(tags, "bid")])>>

AddAsk(id, tags) == <<NewSimEvent(id, [type |-> "AddAsk", ask |-> At(tags, "ask")])>>

NewBlockMined(id, b) ==
  NewSimEvent(id, [type |-> "NewBlockMined", to |-> "all", reward |-> "20000",
                   block |-> b.cid, from |-> b.miner])

\* Mutant of BroadcastBlock: the broadcast is attributed to the node that logs it.
BroadcastBlockByLogger(id, b) ==
  NewSimEvent(id, [type |-> "BroadcastBlock", to |-> "all", block |-> b.cid])

BroadcastBlock(id, b) ==
  NewSimEvent(id, [type |-> "BroadcastBlock", to |-> "all", block |-> b.cid, from |-> b.miner])

AddNewBlock(id, tags) ==
  ShowIf(GetBlockFromTags(tags), LAMBDA b : <<NewBlockMined(id, b), BroadcastBlock(id, b)>>)

\* "from" and "to" are there for old viewers, "miner" and "receiver" for new ones.
ProcessNewBlock(id, tags) ==
  ShowIf(GetBlockFromTags(tags), LAMBDA b :
    <<NewSimEvent(id, [type |-> "SawBlock", block |-> BlockForSimEvent(b), from |-> b.miner,
                       to |-> id, miner |-> b.miner, receiver |-> id])>>)

AcceptNewBestBlock(id, tags) ==
  ShowIf(GetBlockFromTags(tags), LAMBDA b :
    <<NewSimEvent(id, [type |-> "PickedChain", node |-> id, block |-> BlockForSimEvent(b)])>>)

MinerCreateCmd(tags) ==
  LET e == NewSimEvent(GetStrSafe(tags, "from-address"),
                       [type |-> "CreateMiner", to |-> "all", pledge |-> At(tags, "pledge"),
                        collateral |-> At(tags, "collateral")])
  IN  <<SetKey(e, "miner-addr", At(tags, "addr"))>>

FinishDeal(id, tags) ==
  <<NewSimEvent(id, [type |-> "FinishDeal", from |-> At(tags, "miner"), deal |-> At(tags, "deal"),
                     txid |-> At(tags, "msgCid")])>>

FetchData(id, tags) == <<NewSimEvent(id, [type |-> "SendPieces", data |-> At(tags, "data")])>>

MakeDeal(tags) ==
  NewSimEvent(GetStrSafe(tags.bid, "owner"),
              [type |-> "MakeDeal", to |-> At(tags, "miner-owner"),
               data |-> GetStrSafe(tags.deal.dataRef, "/"), price |-> At(tags.ask, "price"),
               size |-> At(tags.bid, "size"), ask |-> tags.ask, bid |-> tags.bid,
               deal |-> tags.deal])

\* Mutant of SendFile: the file goes to the miner's owner.
SendFileToOwner(tags) ==
  NewSimEvent(GetStrSafe(tags.bid, "owner"),
              [type |-> "SendFile", to |-> At(tags, "miner-owner"),
               data |-> GetStrSafe(tags.deal.dataRef, "/")])

SendFile(tags) ==
  NewSimEvent(GetStrSafe(tags.bid, "owner"),
              [type |-> "SendFile", to |-> GetStrSafe(tags.ask, "owner"),
               data |-> GetStrSafe(tags.deal.dataRef, "/")])

\* A proposal with a broken part is not shown.
ProposeDeal(tags) ==
  IF \/ {At(tags, "ask"), At(tags, "bid"), At(tags, "deal")} \cap {Null, Broken} # {}
     \/ At(tags.deal, "dataRef") \in {Null, Broken}
    THEN <<>>
    ELSE <<MakeDeal(tags), SendFile(tags)>>

SwarmConnectCmdTo(id, tags) ==
  <<NewSimEvent(id, [type |-> "Connected", to |-> GetStrSafe(tags, "peer")])>>

\* The parameters are ask, bid, signature and data, but the data is taken from
\* the place of the signature.
AddDeal(id, m) ==
  <<NewSimEvent(id, [type |-> "AddDeal", to |-> "all", from |-> m.from, askID |-> m.params[1],
                     bidID |-> m.params[2], sig |-> m.params[3], data |-> m.params[3]])>>

\* A message without a method is a payment.
SendPayment(tags, m) ==
  <<NewSimEvent(GetStrSafe(tags, "from"),
                [type |-> "SendPayment", to |-> m.to, from |-> m.from, value |-> m.value])>>

AddNewMessage(id, tags) ==
  ShowIf(GetMsgFromTags(tags), LAMBDA m :
    CASE m.method = "addDeal" -> AddDeal(id, m)
      [] m.method = "" -> SendPayment(tags, m)
      [] OTHER -> <<>>)

HeartBeat(id, tags) ==
  LET e == NewSimEvent(id, [type |-> "HeartBeat", peers |-> At(tags, "peers"),
                            asks |-> At(tags, "ask-list"), bids |-> At(tags, "bid-list"),
                            deals |-> At(tags, "deal-list"),
                            pending |-> At(tags, "pending-messages")])
      f == SetKey(e, "peer-id", At(tags, "peer-id"))
      g == SetKey(f, "best-block", At(tags, "best-block"))
  IN  <<SetKey(g, "wallet-addrs", At(tags, "wallet-address"))>>

-----------------------------------------------------------------------------
\* Events without an operation or tags, or with others than a string and a map,
\* and those of operations that failed.
Skipped(el) ==
  \/ At(el, "Operation") \in {Null, Broken} \/ At(el, "Tags") \in {Null, Broken}
  \/ "error" \in DOMAIN el.Tags

\* addDeal goes on with the parameters when they did not decode, and panics.
Panics(el) ==
  /\ ~Skipped(el) /\ el.Operation = "AddNewMessage"
  /\ \E m \in GetMsgFromTags(el.Tags) : m.method = "addDeal" /\ m.params = Broken

ConvertEL2SL(id, el) ==
  IF Skipped(el) THEN <<>> ELSE
  LET op == el.Operation  tags == el.Tags IN
  CASE op = "sm.AddBid" -> AddBid(id, tags)
    [] op = "sm.AddAsk" -> AddAsk(id, tags)
    [] op = "AddNewBlock" -> AddNewBlock(id, tags)
    [] op = "ProcessNewBlock" -> ProcessNewBlock(id, tags)
    [] op = "acceptNewBestBlock" -> AcceptNewBestBlock(id, tags)
    [] op = "minerCreateCmd" -> MinerCreateCmd(tags)
    [] op = "finishDeal" -> FinishDeal(id, tags)
    [] op = "fetchData" -> FetchData(id, tags)
    [] op = "ProposeDeal" -> ProposeDeal(tags)
    [] op = "swarmConnectCmdTo" -> SwarmConnectCmdTo(id, tags)
    [] op = "AddNewMessage" -> AddNewMessage(id, tags)
    [] op = "HeartBeat" -> HeartBeat(id, tags)
    [] OTHER -> <<>>

-----------------------------------------------------------------------------
(* Events to check the conversion with: of every operation, with every kind *)
(* of damage that it looks for.                                             *)

Tag(key, value) == [k \in {key} |-> value]

\* A tag of the event: one of the values, a broken one, or none at all.
TagsWith(key, values) == {Tag(key, v) : v \in values \cup {Broken}} \cup {<<>>}

Blocks ==
  [cid : {"cid1", "cid2"}, miner : {"miner1"}, height : {"1"}, parents : {{"cid0"}},
   messages : {<<>>, <<"msg1">>}, stateRoot : {"root1"}]

Messages ==
  [method : {"addDeal", "addAsk", ""}, from : {"wallet1"}, to : {"wallet2"}, value : {"5000"},
   params : {<<"ask1", "bid1", "sig1", "data1">>, Broken}]

Asks == [owner : {"miner1"}, price : {"1"}]

Bids == [owner : {"wallet1", Broken}, size : {"1"}]

DataRefs == {Tag("/", "data1"), Tag("/", Broken)}

Deals == [dataRef : DataRefs \cup {Broken}]

Proposals ==
  {SetKey(parts, "miner-owner", "wallet2") :
     parts \in [ask : Asks \cup {Broken}, bid : Bids \cup {Broken}, deal : Deals \cup {Broken}]}

Operations ==
  {"AddNewBlock", "ProcessNewBlock", "acceptNewBestBlock", "AddNewMessage", "ProposeDeal",
   "sm.AddBid", "sm.AddAsk", "minerCreateCmd", "finishDeal", "fetchData", "swarmConnectCmdTo",
   "HeartBeat", "unused"}

EventTags(op) ==
  CASE op \in {"AddNewBlock", "ProcessNewBlock", "acceptNewBestBlock"} -> TagsWith("block", Blocks)
    [] op = "AddNewMessage" -> TagsWith("message", Messages)
    [] op = "ProposeDeal" -> Proposals
    [] op = "sm.AddBid" -> TagsWith("bid", {"bid1"})
    [] op = "sm.AddAsk" -> TagsWith("ask", {"ask1"})
    [] op = "minerCreateCmd" -> TagsWith("from-address", {"wallet1"})
    [] op = "finishDeal" -> TagsWith("miner", {"miner1"})
    [] op = "fetchData" -> TagsWith("data", {"data1"})
    [] op = "swarmConnectCmdTo" -> TagsWith("peer", {"peer2"})
    [] op = "HeartBeat" -> TagsWith("peers", {"peer2"})
    [] OTHER -> {<<>>}

\* Of every operation, as it went well and as it failed.
Logged(op) ==
  UNION {{[Operation |-> op, Tags |-> tags],
          [Operation |-> op, Tags |-> SetKey(tags, "error", "failed")]} : tags \in EventTags(op)}

Unusable ==
  {[Operation |-> "HeartBeat"], [Tags |-> <<>>],
   [Operation |-> "HeartBeat", Tags |-> Broken], [Operation |-> Broken, Tags |-> <<>>]}

Events == UNION {Logged(op) : op \in Operations} \cup Unusable

\* The events that a daemon's stream may hold without ending the process.
Convertible == {e \in Events : ~Panics(e)}

-----------------------------------------------------------------------------
(* What the lines of all events should be *)

\* An event has two lines or none where the viewer expects a pair: a block that
\* is mined is broadcast by its miner, and a deal is followed by its file, from
\* the same client, of the same data, to the owner of the ask (simlogger.go:143,
\* 270).  No damage to the event leaves one line of a pair.
PairFits(s) ==
  {s[i].type : i \in DOMAIN s} \cap {"NewBlockMined", "BroadcastBlock", "MakeDeal", "SendFile"} # {} =>
    /\ Len(s) = 2 /\ s[1].from = s[2].from
    /\ \/ /\ s[1].type = "NewBlockMined" /\ s[2].type = "BroadcastBlock"
          /\ s[1].block = s[2].block
       \/ /\ s[1].type = "MakeDeal" /\ s[2].type = "SendFile"
          /\ s[1].data = s[2].data
          /\ s[2].to = GetStrSafe(s[1].ask, "owner")

PairsConverted == \A e \in Convertible : PairFits(ConvertEL2SL("node1", e))

\* Every daemon logs what it hears of blocks, deals and payments.  What these
\* lines say, above all who acted, does not depend on the daemon that logged it,
\* and the lines that a daemon logs about itself name it.  own and others are the
\* lines that the daemon id and another one make of the same event.  The lines of
\* asks and bids are in neither class: their comments (simlogger.go:85-86) have
\* "from" name who asks or bids, and the code names the daemon (111-121).
ActorFits(id, own, others) ==
  \A i \in DOMAIN own :
    /\ own[i].type \in {"NewBlockMined", "BroadcastBlock", "CreateMiner", "FinishDeal",
                       "MakeDeal", "SendFile", "AddDeal", "SendPayment"}
         => own[i] = others[i]
    /\ own[i].type \in {"HeartBeat", "SawBlock", "PickedChain", "SendPieces", "Connected"}
         => id \in {own[i].from, At(own[i], "receiver")} /\ own[i] # others[i]

ActorsConverted ==
  \A e \in Convertible :
    ActorFits("node1", ConvertEL2SL("node1", e), ConvertEL2SL("node2", e))

\* simlogger.go:328, "askID bidID sig data": an AddDeal line shows the data.
AddDealConverted ==
  \A e \in Convertible : \A x \in Range(ConvertEL2SL("node1", e)) :
    x.type = "AddDeal" => x.data = e.Tags.message.params[4]
=============================================================================
