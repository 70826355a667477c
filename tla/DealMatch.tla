------------------------------ MODULE DealMatch ------------------------------
(***************************************************************************)
(* How a deal action chooses an ask and a bid (network/randomizer.go,      *)
(* getBestDealPair, extractAsks, extractUnusedBids), as pure operators.    *)
(*                                                                         *)
(* An order book is a sequence, and the ID of an entry is its index: that  *)
(* is how the storage market numbers them (external).  What a daemon lists *)
(* are the entries in some order.  An ask is [owner, price, size], a bid   *)
(* too; listed entries have their id besides.                              *)
(***************************************************************************)
EXTENDS Naturals, FiniteSets, SequencesExt

\* What the daemon lists: one line of JSON for every entry.
Listed(book) == {[id |-> i, terms |-> book[i]] : i \in DOMAIN book}

\* The output is trimmed and split into lines, and at most one line is the
\* error "No Asks yet": the split of an empty output has one line too.  The
\* error is the empty set here, because nothing else gives no asks.
Extract(book) == IF Len(book) <= 1 THEN {} ELSE Listed(book)

ExtractAsks(asks) == Extract(asks)

\* Mutant of ExtractUnusedBids: used bids are not skipped.
ExtractAnyBids(bids, used) == Extract(bids)

\* "No Bids yet" and bids that are all used end the action alike.
ExtractUnusedBids(bids, used) == {b \in Extract(bids) : b.id \notin used}

\* Mutant of Fits: a bid for more than the ask offers fits too.
FitsPrice(a, b) == b.terms.price >= a.terms.price

Fits(a, b) == b.terms.size <= a.terms.size /\ b.terms.price >= a.terms.price

\* sort.Slice is not stable: entries with one key come in any order.
SortSlice(entries, Key(_)) ==
  {s \in SetToSeqs(entries) : \A i, j \in DOMAIN s : i < j => Key(s[i]) <= Key(s[j])}

\* By ID: FIFO
SortedBids(bids) == SortSlice(bids, LAMBDA b : b.id)

\* "we will always want the best price"
SortedAsks(asks) == SortSlice(asks, LAMBDA a : a.terms.price)

\* The nested loops: the first bid that fits an ask, with the first ask that it
\* fits; nothing if there is none.
FirstFit(asks, bids) ==
  LET at == SelectInSeq(bids, LAMBDA b : \E a \in ToSet(asks) : Fits(a, b))
  IN  IF at = 0 THEN {}
      ELSE {[ask |-> asks[SelectInSeq(asks, LAMBDA a : Fits(a, bids[at]))], bid |-> bids[at]]}

\* The pairs that getBestDealPair may return; no pair is its error.  Bids have
\* different IDs, so that the wallet's may be selected before the sort.
GetBestDealPair(asks, bids, wallet) ==
  LET own == {b \in bids : b.terms.owner = wallet}
  IN  UNION {UNION {FirstFit(sa, sb) : sb \in SortedBids(own)} : sa \in SortedAsks(asks)}
=============================================================================
