SPECIFICATION Spec
CONSTANTS
  Miners = {m1}
  Clients = {c1}
  Slots = {s1, s2}
  Kinds = {"ask", "bid", "deal", "payment"}
  AskTerms <- MCAskTerms
  BidTerms <- MCBidTerms
  AmtToSend = 1
  Collateral = 1
  Reward = 8
  TestDir = "missing"
  Nil = Nil
  NoAddr = NoAddr
  Torn = Torn
  MaxAsks = 2
  MaxBids = 2
  MaxDeals = 2
  MaxPays = 1
INVARIANTS
  TypeOK
  ReuseOnlyUnseen
  DealsBest
  ShortOnlyByOverlap
  TornBeforeAsks
PROPERTIES
  IdentitySettles
SYMMETRY MCSymmetry
CHECK_DEADLOCK FALSE
