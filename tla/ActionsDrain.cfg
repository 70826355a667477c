SPECIFICATION FairSpec
CONSTANTS
  Miners = {m1}
  Clients = {c1}
  Slots = {s1}
  Kinds = {"ask", "bid", "deal", "payment"}
  AskTerms <- MCOneAsk
  BidTerms <- MCOneBid
  AmtToSend = 1
  Collateral = 1
  Reward = 4
  TestDir = "full"
  Nil = Nil
  NoAddr = NoAddr
  Torn = Torn
  MaxAsks = 2
  MaxBids = 2
  MaxDeals = 1
  MaxPays = 1
PROPERTIES
  PaymentsEnd
  ActionsDrain
CHECK_DEADLOCK FALSE
