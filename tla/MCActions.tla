----------------------------- MODULE MCActions ------------------------------
(* Instances of Actions for TLC.  An ask and a bid have a price and a size:  *)
(* the bids of MCBidTerms fit only the dearer of the asks of MCAskTerms,     *)
(* which offers the size they want.                                          *)
EXTENDS Actions

MCAskTerms == {[price |-> 1, size |-> 1], [price |-> 2, size |-> 2]}
MCBidTerms == {[price |-> 2, size |-> 2]}
MCOneAsk == {[price |-> 1, size |-> 1]}
MCOneBid == {[price |-> 2, size |-> 1]}
MCSymmetry == Permutations(Slots)
=============================================================================
