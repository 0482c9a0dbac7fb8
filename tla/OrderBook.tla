------------------------------ MODULE OrderBook ------------------------------
(***************************************************************************)
(* OrderBookAnalyzer of exchange/orderBook: what an order would get from   *)
(* the levels of a book.  A book is [bids, asks], two sequences of         *)
(* [price, qty], the best first.                                           *)
(***************************************************************************)
EXTENDS Units, Sequences

LevelsOf(book, side) == IF side = "buy" THEN book.asks ELSE book.bids

Least(a, b) == IF a < b THEN a ELSE b

\* The loop of walkTheBook.  The cost of every level is rounded down.
Fill(left, cost) == [left |-> left, cost |-> cost]
TakeLevel(fill, level) ==
  LET filled == Least(fill.left, level.qty)
  IN  Fill(fill.left - filled, fill.cost + (filled * level.price) \div PriceScale)

WalkTheBook(book, side, qty) ==
  LET levels == LevelsOf(book, side)
      walk[i \in 0..Len(levels)] ==
        IF i = 0 THEN Fill(qty, 0) ELSE TakeLevel(walk[i - 1], levels[i])
  IN  walk[Len(levels)]

FullyFilled(book, side, qty) == WalkTheBook(book, side, qty).left = 0

\* The price of the first level for all of it.
TopPrice(book, side, qty) == LevelsOf(book, side)[1].price

AvgPrice(book, side, qty) ==
  LET fill == WalkTheBook(book, side, qty)
  IN  IF fill.left < qty THEN (fill.cost * PriceScale) \div (qty - fill.left) ELSE 0
=============================================================================
