-------------------------- MODULE MCInventorySync --------------------------
EXTENDS InventorySync

\* The exchange holds base for a sale, and the wallet quote for a purchase that
\* brings three times the size.
OneHolding ==
  {[v \in Venues |-> IF v = "BINANCE" THEN [base |-> 1, quote |-> 0]
                                      ELSE [base |-> 0, quote |-> 3]]}
=============================================================================
